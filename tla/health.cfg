SPECIFICATION Spec
CONSTANTS
  Runs = {r1, r2, r3}
  MaxAlive = 2
  MaxAttempts = 3
  StuckAfter = 2
  Day = 3
  Cost = 2
  Allowance = 9
  Comfort = 1
  MaxTime = 6
SYMMETRY Symmetry
CHECK_DEADLOCK FALSE
INVARIANTS
  ExhaustionIsForeseen
PROPERTIES
  OnlyOutcomesClear
