CONSTANTS
  MaxPuts = 3
  MaxBreaks = 1
CHECK_DEADLOCK FALSE
SPECIFICATION Spec
INVARIANTS
  EveryAckIsNext
