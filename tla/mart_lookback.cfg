SPECIFICATION Spec
CONSTANTS
  Lookback = 1
  Skew = 1
  LastHour = 3
  MaxRows = 2
CHECK_DEADLOCK FALSE
INVARIANTS
  LookbackAbsorbsLate
