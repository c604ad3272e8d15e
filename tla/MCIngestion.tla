----------------------------- MODULE MCIngestion -----------------------------
(***************************************************************************)
(* Small instances of Ingestion for TLC.                                   *)
(***************************************************************************)
EXTENDS IngestionRefinement, RecordParsing, TLC

CONSTANTS a, b, x, bad

\* Overlapping snapshots: the same keys in both orders; a repeat and a row
\* the parser rejects in one body.
OverlappingSnapshots == {<<a, b>>, <<b, bad, b, a>>}

\* Both orders, a batch of two before a row only the database refuses, a row
\* the parser rejects, and an empty body.
LivelySnapshots == {<<a, b>>, <<bad, b, a, x>>, <<>>}

RunSymmetry == Permutations(Runs)
=============================================================================
