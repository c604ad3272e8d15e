SPECIFICATION Spec
CONSTANTS
  a = a
  b = b
  x = x
  bad = bad
  Malformed = bad
  NoRun = NoRun
  NoCounts = NoCounts
  Runs = {r1, r2, r3}
  Keys = {a, b}
  Refused = {}
  Snapshots <- OverlappingSnapshots
  BatchSize = 1
  Faults = {"api", "connection", "crash", "statement", "finish"}
SYMMETRY RunSymmetry
CHECK_DEADLOCK FALSE
INVARIANTS
  LedgerBalances
  LoadIsAllOrNothing
  OneInserterPerKey
  OneBadRowFailsAlone
  LoopsKeepFirst
PROPERTIES
  ProvenanceStands
  OutcomeStands
  ImplementsLandingZone
