--------------------------- MODULE MartPublication ---------------------------
(***************************************************************************)
(* How dbt publishes the marts to airspace_reader: it creates the schema,  *)
(* replaces each table in a transaction of its own, and only at the end of *)
(* the command grants the reader what it has built.  A mart materialised   *)
(* as a table is a new table after every run, without the grants of the    *)
(* old one; the incremental hourly mart keeps its table unless the run is  *)
(* a full refresh.                                                         *)
(***************************************************************************)
EXTENDS FiniteSets

CONSTANTS
  Marts,    \* fct_airspace_activity_hourly, _daily, fct_ingestion_health
  Tables    \* those materialised as a table

ASSUME MartsAssumption == Tables \subseteq Marts

VARIABLES
  schema,      \* analytics_marts: "absent", or what the reader may do in it
  mart,        \* each mart: "absent", or what the reader may do with it
  dbt,         \* "running" while a command is at work, "idle" otherwise
  todo,        \* marts it has still to build
  interrupted  \* the last command that built a mart never reached its hook

publication == <<schema, mart, dbt, todo, interrupted>>

PublicationInit ==
  /\ schema = "absent"
  /\ mart = [m \in Marts |-> "absent"]
  /\ dbt = "idle"
  /\ todo = {}
  /\ interrupted = FALSE

\* dbt build, or dbt run --select ...; a command that selects no mart (dbt
\* test) does not create their schema.
StartDbt ==
  /\ dbt = "idle"
  /\ dbt' = "running"
  /\ todo' \in SUBSET Marts
  /\ schema' = IF schema = "absent" /\ todo' # {} THEN "closed" ELSE schema
  /\ UNCHANGED <<mart, interrupted>>

\* A first build, a mart materialised as a table, or --full-refresh: a new
\* table takes the name of the old one in one transaction.
ReplaceMart(m) ==
  /\ m \in todo
  /\ todo' = todo \ {m}
  /\ mart' = [mart EXCEPT ![m] = "closed"]
  /\ UNCHANGED <<schema, dbt, interrupted>>

\* An incremental build writes into the table that is there.
ExtendMart(m) ==
  /\ m \in todo
  /\ m \notin Tables /\ mart[m] # "absent"
  /\ todo' = todo \ {m}
  /\ UNCHANGED <<schema, mart, dbt, interrupted>>

\* The model fails, or is skipped because a model or test before it failed.
MartFails(m) ==
  /\ m \in todo
  /\ todo' = todo \ {m}
  /\ UNCHANGED <<schema, mart, dbt, interrupted>>

Built == {m \in Marts : mart[m] # "absent"}

\* Mutant: the hook grants usage on the schema and leaves the tables out.
GrantAndEndUsageOnly ==
  /\ dbt # "idle" /\ todo = {}
  /\ dbt' = "idle"
  /\ schema' = IF schema = "absent" THEN schema ELSE "open"
  /\ interrupted' = FALSE
  /\ UNCHANGED <<mart, todo>>

\* on-run-end: guarded by the existence of the schema.
GrantAndEnd ==
  /\ dbt # "idle" /\ todo = {}
  /\ dbt' = "idle"
  /\ IF schema = "absent"
       THEN UNCHANGED <<schema, mart>>
       ELSE /\ schema' = "open"
            /\ mart' = [m \in Marts |-> IF m \in Built THEN "open" ELSE mart[m]]
  /\ interrupted' = FALSE
  /\ UNCHANGED todo

\* The process dies, or the hook itself fails.
KillDbt ==
  /\ dbt # "idle"
  /\ dbt' = "idle"
  /\ todo' = {}
  /\ interrupted' = TRUE
  /\ UNCHANGED <<schema, mart>>

PublicationNext ==
  \/ StartDbt \/ GrantAndEnd \/ KillDbt
  \/ \E m \in Marts : ReplaceMart(m) \/ ExtendMart(m) \/ MartFails(m)

-----------------------------------------------------------------------------
\* What PostgreSQL tells the reader that selects from a mart: a missing
\* schema is reported as a missing table, a schema without USAGE hides
\* whether the table is there.
Outcome(m) ==
  CASE schema = "absent" -> "not_ready"
    [] schema = "closed" -> "denied"
    [] mart[m] = "absent" -> "not_ready"
    [] mart[m] = "closed" -> "denied"
    [] mart[m] = "open" -> "rows"

PublicationTypeOK ==
  /\ schema \in {"absent", "closed", "open"}
  /\ mart \in [Marts -> {"absent", "closed", "open"}]
  /\ dbt \in {"idle", "running"}
  /\ todo \in SUBSET Marts
  /\ interrupted \in BOOLEAN

\* With dbt at rest after a command that reached its hook, nothing that
\* exists is closed to the reader.
PublicationInv ==
  /\ PublicationTypeOK
  /\ schema = "absent" => todo = {} /\ Built = {}
  /\ dbt = "idle" => todo = {}
  /\ dbt = "idle" /\ ~interrupted =>
       /\ schema # "closed"
       /\ \A m \in Marts : mart[m] # "closed"
=============================================================================
