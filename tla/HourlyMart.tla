------------------------------ MODULE HourlyMart ------------------------------
(***************************************************************************)
(* fct_airspace_activity_hourly: an incremental table rebuilt hour by hour *)
(* from the observations the ingestion keeps landing, and the dbt test     *)
(* that compares it with its source.                                       *)
(*                                                                         *)
(* An hour is a number and its content the count of positioned             *)
(* observations in it: grid cell and altitude band divide an hour but are  *)
(* deleted and inserted with it.  `dbt build` is three steps - the query   *)
(* that fills dbt's temporary table, the transaction that deletes and      *)
(* inserts, the test - and ingestion commits between any two of them.      *)
(* Landed observations are never removed (Ingestion!ProvenanceStands).     *)
(***************************************************************************)
EXTENDS Integers

CONSTANTS
  Lookback,    \* late_arrival_lookback_hours
  Skew,        \* _MAX_SKEW in hours: how far ahead of the clock a row may be
  LastHour,    \* bound: the last hour of a behaviour
  MaxRows      \* bound: observations in one hour

ASSUME HoursAssumption ==
  Lookback \in Nat /\ Skew \in Nat /\ LastHour \in Nat /\ MaxRows \in Nat

Hours == 0..LastHour

VARIABLES
  clock,       \* the current hour
  source,      \* int_state_vectors__gridded: observations per hour
  mart,        \* sum(observation_count) per hour, 0 when it has no row
  exists,      \* the table exists, so that dbt builds incrementally
  stage,       \* where the build stands
  sampled,     \* source as the query of this build saw it
  sampledAt,   \* the hour of that query
  chosen,      \* the hours its filter let through
  verdict      \* what the reconciliation test of the last build said

vars == <<clock, source, mart, exists, stage, sampled, sampledAt, chosen,
          verdict>>
query == <<sampled, sampledAt, chosen>>

Empty == [h \in Hours |-> 0]

Init ==
  /\ clock \in Hours
  /\ source = Empty
  /\ mart = Empty
  /\ exists = FALSE
  /\ stage = "idle"
  /\ sampled = Empty
  /\ sampledAt = 0
  /\ chosen = {}
  /\ verdict = "none"

-----------------------------------------------------------------------------
(* Time and ingestion.                                                     *)

NextHour ==
  /\ clock < LastHour
  /\ clock' = clock + 1
  /\ UNCHANGED <<source, mart, exists, stage, query, verdict>>

\* An ingestion run commits an observation: of any past hour, and of an hour
\* the parser still finds plausible.
Land ==
  /\ \E h \in Hours :
       /\ h <= clock + Skew
       /\ source[h] < MaxRows
       /\ source' = [source EXCEPT ![h] = @ + 1]
  /\ UNCHANGED <<clock, mart, exists, stage, query, verdict>>

-----------------------------------------------------------------------------
(* dbt build.                                                              *)

\* Mutant: observed_at > max(activity_hour) - Lookback.
RecentStrictly(h) == \A g \in Hours : mart[g] > 0 => h > g - Lookback

\* observed_at >= max(activity_hour) - Lookback; an empty table has no
\* maximum and the filter is -infinity.
Recent(h) == \A g \in Hours : mart[g] > 0 => h >= g - Lookback

Query(hours, next) ==
  /\ stage = "idle"
  /\ sampled' = source
  /\ sampledAt' = clock
  /\ chosen' = hours
  /\ stage' = next
  /\ verdict' = "none"
  /\ UNCHANGED <<clock, source, mart, exists>>

SelectRecent == exists /\ Query({h \in Hours : Recent(h)}, "selected")

\* The first build, and --full-refresh.
SelectAll == Query(Hours, "selected_all")

\* Mutant: insert without the delete.
ReplaceAppending ==
  /\ stage = "selected"
  /\ mart' = [h \in Hours |-> IF h \in chosen THEN mart[h] + sampled[h]
                                              ELSE mart[h]]
  /\ stage' = "built"
  /\ UNCHANGED <<clock, source, exists, query, verdict>>

\* Mutant: the filtered query materialised as a table.
ReplaceForgetting ==
  /\ stage = "selected"
  /\ mart' = [h \in Hours |-> IF h \in chosen THEN sampled[h] ELSE 0]
  /\ stage' = "built"
  /\ UNCHANGED <<clock, source, exists, query, verdict>>

\* delete+insert: every hour the query returned is deleted and inserted.
Replace ==
  /\ stage = "selected"
  /\ mart' = [h \in Hours |-> IF h \in chosen /\ sampled[h] > 0
                                THEN sampled[h] ELSE mart[h]]
  /\ stage' = "built"
  /\ UNCHANGED <<clock, source, exists, query, verdict>>

\* The new table takes the place of the old one.
Swap ==
  /\ stage = "selected_all"
  /\ mart' = sampled
  /\ exists' = TRUE
  /\ stage' = "built"
  /\ UNCHANGED <<clock, source, query, verdict>>

\* An error or a kill: what is not committed is rolled back.
BuildFails ==
  /\ stage # "idle"
  /\ stage' = "idle"
  /\ UNCHANGED <<clock, source, mart, exists, query, verdict>>

\* assert_hourly_mart_reconciles_with_source: the hours before the current
\* one, an absent hour being the same on both sides.
Differs(h) == h < clock /\ mart[h] # source[h]

Reconcile ==
  /\ stage = "built"
  /\ verdict' = IF \E h \in Hours : Differs(h) THEN "fail" ELSE "pass"
  /\ stage' = "idle"
  /\ UNCHANGED <<clock, source, mart, exists, query>>

Next ==
  \/ NextHour \/ Land
  \/ SelectRecent \/ SelectAll \/ Replace \/ Swap \/ BuildFails
  \/ Reconcile

Spec == Init /\ [][Next]_vars

-----------------------------------------------------------------------------
TypeOK ==
  /\ clock \in Hours
  /\ source \in [Hours -> Nat]
  /\ mart \in [Hours -> Nat]
  /\ exists \in BOOLEAN
  /\ stage \in {"idle", "selected", "selected_all", "built"}
  /\ sampled \in [Hours -> Nat]
  /\ sampledAt \in Hours
  /\ chosen \in SUBSET Hours
  /\ verdict \in {"none", "pass", "fail"}

\* Every observation is counted at most once, however often its hour is
\* rebuilt and whatever lands meanwhile.
CountedAtMostOnce == \A h \in Hours : mart[h] <= source[h]

\* A rebuild never takes an observation out of an hour.
HourNeverShrinks == [][\A h \in Hours : mart'[h] >= mart[h]]_vars

\* What the window guarantees: a build absorbs all that had landed for the
\* last Lookback hours, less the Skew by which a row may run ahead of the
\* clock and pull max(activity_hour) with it.
ReachAbsorbsLate ==
  stage = "built" =>
    \A h \in Hours :
      h + Lookback >= sampledAt + Skew => mart[h] = sampled[h]

\* What the configuration says of the window: "how far back the incremental
\* hourly mart reprocesses on every run, to absorb observations that landed
\* after their hour had already been built" (transform/dbt_project.yml:17).
LookbackAbsorbsLate ==
  stage = "built" =>
    \A h \in Hours : h + Lookback >= sampledAt => mart[h] = sampled[h]

\* No row the query saw is stamped more than the lookback after hour h.
InReach(h) == \A g \in Hours : sampled[g] > 0 => g <= h + Lookback

\* The reach follows the newest row the query saw, not the clock: every hour
\* that this row is no more than the lookback ahead of is absorbed.  So only a
\* row stamped ahead of the clock can break LookbackAbsorbsLate.
ReachFollowsRows ==
  stage = "built" => \A h \in Hours : InReach(h) => mart[h] = sampled[h]

\* With ingestion at rest between query and test, the test fails only for an
\* hour the filter left out.
QuietFailureIsStale ==
  [][verdict' = "fail" /\ verdict # "fail" /\ sampled = source =>
       \E h \in Hours \ chosen : Differs(h)]_vars

\* The inductive invariant behind the properties above.
MartInv ==
  /\ TypeOK
  /\ CountedAtMostOnce
  /\ \A h \in Hours : source[h] > 0 => h <= clock + Skew
  /\ sampledAt <= clock
  /\ \A h \in Hours : sampled[h] <= source[h]
  /\ stage # "idle" => /\ verdict = "none"
                       /\ \A h \in Hours : mart[h] <= sampled[h]
  /\ stage \in {"selected", "built"} =>
       \A h \in Hours :
         h + Lookback >= sampledAt + Skew \/ InReach(h) => h \in chosen
  /\ stage = "selected_all" => chosen = Hours
  /\ stage = "built" => \A h \in chosen : mart[h] = sampled[h]
=============================================================================
