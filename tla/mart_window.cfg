SPECIFICATION Spec
CONSTANTS
  Lookback = 2
  Skew = 1
  LastHour = 4
  MaxRows = 2
CHECK_DEADLOCK FALSE
INVARIANTS
  CountedAtMostOnce
  ReachAbsorbsLate
PROPERTIES
  HourNeverShrinks
  QuietFailureIsStale
