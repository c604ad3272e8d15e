SPECIFICATION FairSpec
CONSTANTS
  a = a
  b = b
  x = x
  bad = bad
  Malformed = bad
  NoRun = NoRun
  NoCounts = NoCounts
  Runs = {r1, r2}
  Keys = {a, b, x}
  Refused = {x}
  Snapshots <- LivelySnapshots
  BatchSize = 2
  Faults = {"api", "connection", "crash", "statement"}
CHECK_DEADLOCK FALSE
INVARIANTS
  FailedRunLandsNothing
PROPERTIES
  EveryRunEnds
  NoKeyStaysLocked
