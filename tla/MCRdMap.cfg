CONSTANTS
  Key = {k1, k2}
  Value = {v1, v2}
  None = None
  MaxChanges = 5
CHECK_DEADLOCK FALSE
SPECIFICATION Spec
INVARIANTS
  TypeOK
  EndsAgree
  AcksArePaired
  WaitsForAnswer
