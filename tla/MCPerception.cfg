CONSTANTS
  FishId = {f1, f2}
  Senses <- ThreeSenses
  PawnModes = {"absent", "Presence", "Chase", "Attack"}
  Transitions <- NoTransitions
  MaxTransitions = 0
  TimerCap = 1
SPECIFICATION QuietSpec
PROPERTIES
  NoticedInTime
  AlarmEndsInTime
  PredatorNoticed
