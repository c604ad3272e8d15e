SPECIFICATION FairSpec
CONSTANTS
  Period = 2
  PollInterval = 2
  Retries = 2
  Timeout = 5
  MinDelay = 1
  MaxDelay = 5
  Longest = 3
  Faults = {"quota", "auth", "kill", "pause"}
INVARIANTS
  RefusalEndsTheRun
  FreshWhileCalm
PROPERTIES
  EveryDagRunEnds
  PollingGoesOn
