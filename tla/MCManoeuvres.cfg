CONSTANTS
  FishId = {f1, f2}
  Senses = {{}}
  PawnModes = {"None"}
  Transitions <- FigureTransitions
  MaxTransitions = 2
  TimerCap = 1
  Place <- TwoPlaces
  MaxDistance = 1
SPECIFICATION ManoeuvreSpec
INVARIANTS
  ManoeuvreTypeOK
  FastLimitIsExplained
  HourglassOfThisVisit
  FlashReturnsToCentroid
