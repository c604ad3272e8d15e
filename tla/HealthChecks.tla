---------------------------- MODULE HealthChecks ----------------------------
(***************************************************************************)
(* The checks of ingestion/checks.py that judge the ledger by the clock:   *)
(* no_stuck_runs and credit_budget, against the executions that wrote the  *)
(* ledger and the credits OpenSky really charged them.                     *)
(*                                                                         *)
(* An execution is one call of ingest_once, from the DAG, the command line *)
(* or an operator.  Nothing bounds its life: execution_timeout ends only   *)
(* those of the DAG, and the statements have no timeout.  Its one fetch    *)
(* makes up to MaxAttempts requests, and OpenSky may charge each of them,  *)
(* also one whose answer is of no use; the ledger has one estimate for a   *)
(* recorded execution, and none for a dry run.                             *)
(***************************************************************************)
EXTENDS Integers, FiniteSets, TLC

CONSTANTS
  Runs,
  MaxAlive,    \* executions that overlap
  MaxAttempts, \* Settings.opensky_max_attempts
  StuckAfter,  \* STUCK_RUN_MINUTES
  Day,         \* the window of check_credit_budget, OpenSky's period
  Cost,        \* Settings.credit_cost
  Allowance,   \* Settings.daily_credit_allowance
  Comfort,     \* what CREDIT_BUDGET_WARN_FRACTION leaves of it
  MaxTime      \* bound: time at which the clock stops

ASSUME HealthAssumption ==
  /\ IsFiniteSet(Runs)
  /\ MaxAlive \in Nat /\ MaxAttempts \in Nat /\ StuckAfter \in Nat
  /\ Day \in Nat \ {0} /\ MaxTime \in Nat
  /\ Cost \in Nat /\ Allowance \in Nat /\ Comfort \in Nat

VARIABLES
  now,
  midnight,   \* when the allowance was last reset
  place,      \* where each execution is
  startedAt,
  requests,   \* of the fetch it is making, so far
  status,     \* of its row in raw.ingestion_runs, "none" for no row
  today,      \* recorded executions charged since midnight
  unseen      \* charges since midnight beyond one for each of these

vars == <<now, midnight, place, startedAt, requests, status, today, unseen>>
clock == <<now, midnight>>
charges == <<today, unseen>>

Symmetry == Permutations(Runs)

Alive == {r \in Runs : place[r] \in {"fetching", "answered"}}
Used == Cost * (Cardinality(today) + unseen)

Init ==
  /\ now = 0
  /\ midnight = 0
  /\ place = [r \in Runs |-> "unborn"]
  /\ startedAt = [r \in Runs |-> 0]
  /\ requests = [r \in Runs |-> 0]
  /\ status = [r \in Runs |-> "none"]
  /\ today = {}
  /\ unseen = 0

-----------------------------------------------------------------------------
(* Executions.                                                             *)

Begin(r, row) ==
  /\ place[r] = "unborn"
  /\ Cardinality(Alive) < MaxAlive
  /\ place' = [place EXCEPT ![r] = "fetching"]
  /\ startedAt' = [startedAt EXCEPT ![r] = now]
  /\ status' = [status EXCEPT ![r] = row]
  /\ UNCHANGED <<clock, requests, charges>>

\* start_run commits the row, with its credits_estimated.
StartRun(r) == Begin(r, "running")

\* --dry-run fetches like any other run and writes no row.
DryRun(r) == Begin(r, "none")

\* The loop of fetch_states sends the fetch's next request.
Asks(r) ==
  /\ place[r] = "fetching"
  /\ requests[r] < MaxAttempts
  /\ requests' = [requests EXCEPT ![r] = @ + 1]

\* OpenSky takes the credits of a request, if there are enough.
Charge(r) ==
  /\ Used + Cost <= Allowance
  /\ IF status[r] # "none" /\ r \notin today
     THEN today' = today \cup {r} /\ unseen' = unseen
     ELSE today' = today /\ unseen' = unseen + 1

\* A snapshot arrives.
Answered(r) ==
  /\ Asks(r)
  /\ Charge(r)
  /\ place' = [place EXCEPT ![r] = "answered"]
  /\ UNCHANGED <<clock, startedAt, status>>

\* The request fails, or comes back with a body that is no snapshot, and the
\* fetch may try again.  What of this is charged the code does not tell.
Transient(r) ==
  /\ Asks(r)
  /\ Charge(r) \/ UNCHANGED charges
  /\ UNCHANGED <<clock, place, startedAt, status>>

Over(r, row) ==
  /\ place' = [place EXCEPT ![r] = "over"]
  /\ status' = [status EXCEPT ![r] = row]
  /\ requests' = [requests EXCEPT ![r] = 0]
  /\ UNCHANGED <<clock, startedAt, charges>>

\* finish_run("succeeded").
Succeeds(r) ==
  /\ place[r] = "answered"
  /\ status[r] = "running"
  /\ Over(r, "succeeded")

\* The handler's finish_run("failed"), after a 429, the last attempt or any
\* other exception.
Fails(r) ==
  /\ r \in Alive
  /\ status[r] = "running"
  /\ Over(r, "failed")

\* A dry run ends; or an execution dies, is timed out, or cannot write its
\* outcome, and its row stays as it is.
Stops(r) ==
  /\ r \in Alive
  /\ Over(r, status[r])

Tick ==
  /\ now < MaxTime
  /\ now' = now + 1
  /\ IF now' = midnight + Day
     THEN midnight' = now' /\ today' = {} /\ unseen' = 0
     ELSE UNCHANGED <<midnight, charges>>
  /\ UNCHANGED <<place, startedAt, requests, status>>

Next ==
  \/ Tick
  \/ \E r \in Runs :
       \/ StartRun(r) \/ DryRun(r) \/ Answered(r) \/ Transient(r)
       \/ Succeeds(r) \/ Fails(r) \/ Stops(r)

Spec == Init /\ [][Next]_vars

-----------------------------------------------------------------------------
(* The checks.                                                             *)

\* Mutant: only the last day is looked at, as in the other checks.
StuckLately == {r \in Runs : /\ status[r] = "running"
                             /\ startedAt[r] + StuckAfter < now
                             /\ startedAt[r] + Day >= now}

\* The rows check_no_stuck_runs counts.
Stuck == {r \in Runs : /\ status[r] = "running"
                       /\ startedAt[r] + StuckAfter < now}

\* Mutant: only successful runs are counted.
SpentWell == Cost * Cardinality({r \in Runs : /\ status[r] = "succeeded"
                                              /\ startedAt[r] + Day >= now})

\* The sum check_credit_budget takes, over the last 24 hours.
Recent == {r \in Runs : status[r] # "none" /\ startedAt[r] + Day >= now}
Spent == Cost * Cardinality(Recent)

CreditOk == Spent <= Comfort

-----------------------------------------------------------------------------
TypeOK ==
  /\ now \in Nat
  /\ midnight \in Nat
  /\ place \in [Runs -> {"unborn", "fetching", "answered", "over"}]
  /\ startedAt \in [Runs -> Nat]
  /\ requests \in [Runs -> Nat]
  /\ status \in [Runs -> {"none", "running", "succeeded", "failed"}]
  /\ today \subseteq Runs
  /\ unseen \in Nat

\* A row leaves the report of no_stuck_runs only when its own execution, which
\* was slow and not dead, writes its outcome: time takes no row off it, no
\* other run does, and one that died fails --check from then on.
OnlyOutcomesClear ==
  [][\A r \in Stuck \ Stuck' :
       r \in Alive /\ status'[r] \in {"succeeded", "failed"}]_vars

\* What the tenth that CREDIT_BUDGET_WARN_FRACTION keeps back has left for
\* charges the ledger does not show, once it has covered the executions that
\* overlap at midnight and the request that gets the 429.
Margin == Allowance - Comfort - (MaxAlive + 1) * Cost

\* When the allowance no longer covers a request, credit_budget is already
\* failing, unless more than Margin went to dry runs and to repeats within a
\* fetch, of which the ledger knows nothing: although the check looks at the
\* last 24 hours, OpenSky at its own day, and a run may start before midnight
\* and be charged after it.  Beyond Margin the allowance may end unnoticed.
ExhaustionIsForeseen ==
  Used + Cost > Allowance /\ Cost * unseen <= Margin => ~CreditOk

\* Runs that began before midnight and were, or may yet be, charged today.
Overnight == {r \in Runs : startedAt[r] < midnight /\ r \in Alive \cup today}

\* The inductive invariant behind these two properties.
HealthInv ==
  /\ TypeOK
  /\ midnight <= now /\ now < midnight + Day
  /\ \A r \in Runs : startedAt[r] <= now
  /\ Cardinality(Alive) <= MaxAlive
  /\ Cardinality(Overnight) <= MaxAlive
  /\ \A r \in today : place[r] # "unborn" /\ status[r] # "none"
  /\ \A r \in Runs : place[r] = "unborn" => status[r] = "none"
=============================================================================
