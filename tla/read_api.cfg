SPECIFICATION FairSpec
CONSTANTS
  Marts = {hourly, daily}
  Tables = {daily}
  Clients = {q1, q2, q3}
  Connections = {c1}
  Threads = 1
  MaxRestarts = 1
  NoConnection = NoConnection
CHECK_DEADLOCK FALSE
INVARIANTS
  LossesAreBounded
  OnlyGridlockStops
PROPERTIES
  DeniedOnlyMeanwhile
  GridlockOnlyTimesOut
  EveryRequestIsAnswered
