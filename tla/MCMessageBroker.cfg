CONSTANTS
  DefaultIds = {d}
  CustomIds = {c}
  UnorderedIds = {u}
  MaxMessages = 3
  MaxEntities = 2
CHECK_DEADLOCK FALSE
SPECIFICATION FairBrokerSpec
INVARIANTS
  BrokerTypeOK
  InOrder
  NothingLost
  CrashIsExplained
  AstrayNeedsCompany
PROPERTY
  Decided
