CONSTANTS
  FishNum = 3
  Leaders = {2, 3}
  Turn = 1
  SplineLength = 3
  Strides = {1, 2}
  MissCap = 2
SPECIFICATION Spec
INVARIANTS
  TypeOK
  UnreachedBehindBlocked
  LeadersKeepPace
PROPERTY SteeringResumes
