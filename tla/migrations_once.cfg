SPECIFICATION Spec
CONSTANTS
  Runners = {m1, m2}
  Files = {1, 2}
  MaxVersion = 2
CHECK_DEADLOCK FALSE
INVARIANTS
  BodyRunsOnce
  AppliedIsDurable
  SuccessMeansInStep
  EditStopsTheRest
PROPERTIES
  NoGap
