CONSTANTS
  FishNum = 4
  LeaderNum = 3
  MaxFailures = 2
SPECIFICATION Spec
INVARIANTS
  TypeOK
  LeadersAreDistinctFish
  AbortsOnlyShortOfFish
CHECK_DEADLOCK FALSE
