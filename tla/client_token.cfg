SPECIFICATION FairSpec
CONSTANTS
  MaxAttempts = 2
  Margin = 2
  Latency = 1
  BackoffCap = 3
  Lifetimes = {3, 5}
  MaxTokens = 2
  MaxTime = 8
CHECK_DEADLOCK FALSE
INVARIANTS
  NoExpiryMidFlight
  FetchIsTimely
PROPERTIES
  RefusalIsFinal
  RefusedTokenIsDropped
  FetchEnds
