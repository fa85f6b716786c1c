CONSTANTS
  FishNum = 2
  Leaders = {1}
  Turn = 4
  SplineLength = 1
  Strides = {1}
  MissCap = 0
SPECIFICATION Spec
INVARIANT AvoidanceForAll
