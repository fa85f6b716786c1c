CONSTANTS
  Iteration = 2
  MaxPointsNum = 3
  Angles = {0, 1, 2}
  Threshold = 1
SPECIFICATION Spec
INVARIANTS
  AimIsNearestOpen
CHECK_DEADLOCK FALSE
