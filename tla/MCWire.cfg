CONSTANTS
  MaxPuts = 3
  MaxBreaks = 2
CHECK_DEADLOCK FALSE
SPECIFICATION Spec
INVARIANTS
  TypeOK
  NothingForgotten
  Gapless
  ConfirmedWasReceived
  AcksGrow
  OnceOverOneConnection
PROPERTIES
  Promise
  SentIsConfirmed
