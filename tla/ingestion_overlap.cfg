SPECIFICATION Spec
CONSTANTS
  a = a
  b = b
  x = x
  bad = bad
  Malformed = bad
  NoRun = NoRun
  NoCounts = NoCounts
  Runs = {r1, r2}
  Keys = {a, b}
  Refused = {}
  Snapshots <- OverlappingSnapshots
  BatchSize = 1
  Faults = {}
CHECK_DEADLOCK FALSE
INVARIANTS
  OverlapIsHarmless
