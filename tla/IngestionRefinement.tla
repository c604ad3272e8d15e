------------------------- MODULE IngestionRefinement -------------------------
(***************************************************************************)
(* Ingestion implements LandingZone: the committed tables are the zone,    *)
(* everything else of Ingestion is hidden.                                 *)
(***************************************************************************)
EXTENDS Ingestion

\* rows_inserted of each run, as the column of raw.ingestion_runs shows it.
TallyOf(r) == IF counts[r] = NoCounts THEN NoCounts ELSE counts[r].inserted

Zone == INSTANCE LandingZone
          WITH NoTally <- NoCounts, tally <- [r \in Runs |-> TallyOf(r)]

\* Every behaviour of the executions against the database is, for a reader
\* of the two tables, a behaviour of the landing zone.
ImplementsLandingZone == Zone!Spec
=============================================================================
