SPECIFICATION FairSpec
CONSTANTS
  Interval = 3
  Area = 156
  Day = 10
  MaxAge = 7
CHECK_DEADLOCK FALSE
INVARIANTS
  ExitTellsTheOutcome
  BudgetIsKept
PROPERTIES
  LoopPollsOn
