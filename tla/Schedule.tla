------------------------------ MODULE Schedule ------------------------------
(***************************************************************************)
(* The DAG opensky_ingest in discrete time: cron ticks, one run at a time, *)
(* the task's attempts with their retries and timeout, and how the task    *)
(* takes the exception an attempt of ingest_once ends with.  Of            *)
(* ingest_once it keeps the order of its steps and its except handler; the *)
(* tables are in Ingestion, the requests in OpenSkyClient.                 *)
(*                                                                         *)
(* All times are ages: how long the attempt, the wait for a retry or the   *)
(* newest row has lasted.  No bound on the length of a behaviour is needed.*)
(***************************************************************************)
EXTENDS Integers

CONSTANTS
  Period,        \* schedule="*/2 * * * *"
  PollInterval,  \* poll_interval_seconds
  Retries,       \* retries
  Timeout,       \* execution_timeout
  MinDelay,      \* retry_delay
  MaxDelay,      \* max_retry_delay
  Longest,       \* an attempt that lasts no longer is not slow
  Faults

ASSUME ScheduleAssumption ==
  /\ Period \in Nat \ {0} /\ PollInterval \in Nat \ {0}
  /\ Retries \in Nat /\ Timeout \in Nat \ {0} /\ Longest \in Nat
  /\ MinDelay \in Nat \ {0} /\ MaxDelay \in Nat \ {0}
  \* "quota"  the daily allowance runs out
  \* "auth"   the credentials are refused
  \* "kill"   a worker dies
  \* "pause"  the scheduler is down or the DAG paused
  /\ Faults \subseteq {"quota", "auth", "kill", "pause"}

VARIABLES
  phase,         \* time since the last tick
  due,           \* a tick has no run yet
  task,          \* state of the task of the newest run
  try,           \* its try_number
  elapsed,       \* age of the attempt or of the wait
  place,         \* where ingest_once is, "none" between attempts
  raised,        \* the exception its handler is dealing with
  refusal,       \* the 429, 401 or 403 this run has met
  masked,        \* a handler of this run failed, or was killed
  stampAge,      \* age of the load's transaction: its now() is ingested_at
  sinceLanding,  \* age of max(ingested_at), up to Stale + 1
  calm,          \* since it landed nothing was slow, failed or found no new row
  exhausted      \* no credits left until the reset

vars == <<phase, due, task, try, elapsed, place, raised, refusal, masked,
          stampAge, sinceLanding, calm, exhausted>>
cron == <<phase, due>>
landing == <<stampAge, sinceLanding>>

Active == task \in {"running", "retry"}
Attempting == place # "none"
Hopeless == {"rate_limited", "auth"}

\* STALENESS_POLL_MULTIPLE polls.
Stale == 3 * PollInterval

\* check_freshness; an empty table counts as older than any threshold.
Fresh == sinceLanding <= Stale

Init ==
  /\ phase = 0
  /\ due = TRUE
  /\ task = "none"
  /\ try = 0
  /\ elapsed = 0
  /\ place = "none"
  /\ raised = "none"
  /\ refusal = "none"
  /\ masked = FALSE
  /\ stampAge = 0
  /\ sinceLanding = Stale + 1
  /\ calm = FALSE
  /\ exhausted = FALSE

-----------------------------------------------------------------------------
(* Airflow.                                                                *)

\* Mutant: depends_on_past=True.
CreateRunIfPastSucceeded ==
  /\ due
  /\ task \in {"none", "success"}
  /\ due' = FALSE
  /\ task' = "running"
  /\ try' = 1
  /\ elapsed' = 0
  /\ place' = "connecting"
  /\ refusal' = "none"
  /\ masked' = FALSE
  /\ UNCHANGED <<phase, raised, landing, calm, exhausted>>

\* max_active_runs=1 holds the run back while another is active, and
\* catchup=False makes one run of all the ticks that have passed.
CreateRun ==
  /\ due
  /\ ~Active
  /\ due' = FALSE
  /\ task' = "running"
  /\ try' = 1
  /\ elapsed' = 0
  /\ place' = "connecting"
  /\ refusal' = "none"
  /\ masked' = FALSE
  /\ UNCHANGED <<phase, raised, landing, calm, exhausted>>

\* The wait before retry n lies between the delay and twice the delay.
Delay(n) == IF MinDelay * 2^(n - 1) < MaxDelay THEN MinDelay * 2^(n - 1)
                                               ELSE MaxDelay
LongestDelay(n) == IF 2 * Delay(n) < MaxDelay THEN 2 * Delay(n) ELSE MaxDelay

\* Mutant: the attempts are not counted.
RetryUncounted ==
  /\ task = "retry"
  /\ elapsed >= Delay(try)
  /\ task' = "running"
  /\ try' = try
  /\ elapsed' = 0
  /\ place' = "connecting"
  /\ UNCHANGED <<cron, raised, refusal, masked, landing, calm, exhausted>>

Retry ==
  /\ task = "retry"
  /\ elapsed >= Delay(try)
  /\ task' = "running"
  /\ try' = try + 1
  /\ elapsed' = 0
  /\ place' = "connecting"
  /\ UNCHANGED <<cron, raised, refusal, masked, landing, calm, exhausted>>

\* Mutant: the task without its two except clauses.
AttemptEndsRetried(exception) ==
  /\ place' = "none"
  /\ raised' = "none"
  /\ elapsed' = 0
  /\ calm' = FALSE
  /\ task' = IF try > Retries THEN "failed" ELSE "retry"

\* The task turns a 429 and a refusal into AirflowFailException; anything
\* else is retried while tries are left.
AttemptEnds(exception) ==
  /\ place' = "none"
  /\ raised' = "none"
  /\ elapsed' = 0
  /\ calm' = FALSE
  /\ task' = IF exception \in Hopeless \/ try > Retries
             THEN "failed" ELSE "retry"

\* Airflow's timeout is no Exception, so the handler of ingest_once does not
\* see it and the run stays "running" in the ledger; the same if a worker dies.
Killed ==
  /\ Attempting
  /\ elapsed = Timeout \/ "kill" \in Faults
  /\ AttemptEnds("error")
  /\ masked' = (masked \/ place = "handling")
  /\ UNCHANGED <<cron, try, refusal, landing, exhausted>>

-----------------------------------------------------------------------------
(* One attempt: ingest_once.                                               *)

\* db.connect or start_run raises: no record, and no handler around them.
ConnectFails ==
  /\ place = "connecting"
  /\ AttemptEnds("error")
  /\ UNCHANGED <<cron, try, refusal, masked, landing, exhausted>>

\* start_run commits, and the request leaves.
Record ==
  /\ place = "connecting"
  /\ place' = "fetching"
  /\ UNCHANGED <<cron, task, try, elapsed, raised, refusal, masked, landing,
                 calm, exhausted>>

Fetch ==
  /\ place = "fetching"
  /\ ~exhausted
  /\ place' = "loading"
  /\ stampAge' = 0
  /\ UNCHANGED <<cron, task, try, elapsed, raised, refusal, masked,
                 sinceLanding, calm, exhausted>>

\* OpenSkyRateLimited or OpenSkyAuthError.
Refused ==
  /\ place = "fetching"
  /\ \E e \in Hopeless :
       /\ e = "rate_limited" => exhausted
       /\ e = "auth" => "auth" \in Faults
       /\ raised' = e
       /\ refusal' = e
  /\ place' = "handling"
  /\ UNCHANGED <<cron, task, try, elapsed, masked, landing, calm, exhausted>>

\* Any other exception inside the try block.
Raises ==
  /\ place \in {"fetching", "loading", "landed"}
  /\ place' = "handling"
  /\ raised' = "error"
  /\ UNCHANGED <<cron, task, try, elapsed, refusal, masked, landing, calm,
                 exhausted>>

\* insert_state_vectors commits rows that were new.
LandNew ==
  /\ place = "loading"
  /\ place' = "landed"
  /\ sinceLanding' = IF stampAge <= Stale THEN stampAge ELSE Stale + 1
  /\ calm' = (elapsed <= Longest)
  /\ UNCHANGED <<cron, task, try, elapsed, raised, refusal, masked, stampAge,
                 exhausted>>

\* An empty snapshot, or one whose rows were all there.
LandNothing ==
  /\ place = "loading"
  /\ place' = "landed"
  /\ calm' = FALSE
  /\ UNCHANGED <<cron, task, try, elapsed, raised, refusal, masked, landing,
                 exhausted>>

\* finish_run("succeeded"), and the task returns.
Succeed ==
  /\ place = "landed"
  /\ place' = "none"
  /\ task' = "success"
  /\ elapsed' = 0
  /\ UNCHANGED <<cron, try, raised, refusal, masked, landing, calm, exhausted>>

\* finish_run("failed") and `raise`.
HandlerRecords ==
  /\ place = "handling"
  /\ AttemptEnds(raised)
  /\ UNCHANGED <<cron, try, refusal, masked, landing, exhausted>>

\* finish_run raises in the handler: its exception replaces the first.
HandlerFails ==
  /\ place = "handling"
  /\ AttemptEnds("error")
  /\ masked' = TRUE
  /\ UNCHANGED <<cron, try, refusal, landing, exhausted>>

-----------------------------------------------------------------------------
(* OpenSky's allowance, and time.                                          *)

Exhaust ==
  /\ "quota" \in Faults
  /\ ~exhausted
  /\ exhausted' = TRUE
  /\ UNCHANGED <<cron, task, try, elapsed, place, raised, refusal, masked,
                 landing, calm>>

Reset ==
  /\ exhausted
  /\ exhausted' = FALSE
  /\ UNCHANGED <<cron, task, try, elapsed, place, raised, refusal, masked,
                 landing, calm>>

\* Mutant: a tick is dropped while a run is active.
CronTickDropped ==
  /\ phase' = IF phase + 1 = Period THEN 0 ELSE phase + 1
  /\ due' = (due \/ (phase' = 0 /\ ~Active))

CronTick ==
  /\ phase' = IF phase + 1 = Period THEN 0 ELSE phase + 1
  /\ due' = (due \/ phase' = 0)

\* An attempt is killed at its timeout, a retry starts within its longest
\* delay, and a run that is due starts at once unless the scheduler is away.
Tick ==
  /\ Attempting => elapsed < Timeout
  /\ task = "retry" => elapsed < LongestDelay(try)
  /\ due /\ ~Active => "pause" \in Faults
  /\ CronTick
  /\ elapsed' = IF Active THEN elapsed + 1 ELSE 0
  /\ stampAge' = IF place = "loading" THEN stampAge + 1 ELSE stampAge
  /\ sinceLanding' = IF Fresh THEN sinceLanding + 1 ELSE sinceLanding
  /\ calm' = /\ calm
             /\ Attempting => elapsed < Longest
             /\ due => Active
  /\ UNCHANGED <<task, try, place, raised, refusal, masked, exhausted>>

Attempt ==
  \/ ConnectFails \/ Record \/ Fetch \/ Refused \/ Raises
  \/ LandNew \/ LandNothing \/ Succeed \/ HandlerRecords \/ HandlerFails

Next ==
  \/ CreateRun \/ Retry \/ Killed
  \/ Attempt
  \/ Exhaust \/ Reset
  \/ Tick

Spec == Init /\ [][Next]_vars

\* Time passes and Airflow acts.  Nothing obliges an attempt to go on: a
\* response may trickle in, a statement may wait.
FairSpec ==
  /\ Spec
  /\ WF_vars(Tick)
  /\ WF_vars(CreateRun)
  /\ WF_vars(Retry)
  /\ WF_vars(elapsed = Timeout /\ Killed)

-----------------------------------------------------------------------------
Places == {"none", "connecting", "fetching", "loading", "landed", "handling"}

TypeOK ==
  /\ phase \in 0..(Period - 1)
  /\ due \in BOOLEAN
  /\ task \in {"none", "running", "retry", "success", "failed"}
  /\ try \in 0..(Retries + 1)
  /\ elapsed \in Nat
  /\ place \in Places
  /\ raised \in {"none", "error"} \cup Hopeless
  /\ refusal \in {"none"} \cup Hopeless
  /\ stampAge \in Nat
  /\ sinceLanding \in 0..(Stale + 1)
  /\ calm \in BOOLEAN
  /\ exhausted \in BOOLEAN
  /\ masked \in BOOLEAN

\* After a 429 or a refusal the run has nothing left but its handler: no retry
\* and no further attempt, unless another exception has taken its place.
RefusalEndsTheRun ==
  ~masked /\ refusal # "none" /\ Active => place = "handling"

\* No false alarm: while attempts succeed within Longest and find new rows,
\* check_freshness passes, however runs and ticks fall together.
FreshWhileCalm == calm => Fresh

\* When it is true: a run that holds back a tick delays the next one by up to
\* its own length, and poll_interval_seconds has to allow for both.
CadenceSuffices ==
  /\ Period + Longest <= Stale
  /\ 2 * Longest <= Stale

\* The inductive invariant behind the two properties above.
ScheduleInv ==
  /\ TypeOK
  /\ Attempting <=> task = "running"
  /\ task = "retry" => try <= Retries
  /\ Attempting /\ ~due => elapsed <= phase
  /\ place = "loading" => stampAge <= elapsed
  /\ place = "handling" => raised # "none"
  /\ RefusalEndsTheRun
  /\ ~masked /\ refusal # "none" /\ place = "handling" => raised = refusal

\* What holds of the newest row's age at each stage, as long as all is calm.
CalmInv ==
  calm =>
    /\ task \notin {"none", "retry"}
    /\ Attempting => elapsed <= Longest
    /\ ~Active /\ ~due => sinceLanding <= phase
    /\ ~Active /\ due => sinceLanding <= Period \/ sinceLanding <= Longest
    /\ place \in {"connecting", "fetching", "loading", "handling"} =>
         \/ sinceLanding <= Period + elapsed
         \/ sinceLanding <= Longest + elapsed
    /\ place = "landed" => /\ sinceLanding <= elapsed
                           /\ ~due => sinceLanding <= phase

\* How long a run of the DAG may still last: what is left of its attempt or
\* of its wait, and the waits and attempts it has not begun.
TicksLeft ==
  (Retries + 1 - try) * (MaxDelay + Timeout)
    + (IF Attempting THEN Timeout ELSE 0) - elapsed

LongestRun == (Retries + 1) * Timeout + Retries * MaxDelay

\* A run lasts LongestRun at most, 25 minutes as deployed, whatever its
\* attempts do: so many ticks of the schedule may find it active and wait.
RunIsBounded == Active => TicksLeft \in 0 .. LongestRun

\* Nothing gives an active run more time, and every tick takes some of it.
TimeRunsOut ==
  [][Active /\ Active' =>
       TicksLeft' <= TicksLeft /\ (Tick => TicksLeft' < TicksLeft)]_vars

\* What makes it inductive: attempts and waits are no older than they may be.
AgeInv ==
  /\ Active => try # 0
  /\ Attempting => elapsed <= Timeout
  /\ task = "retry" => elapsed <= MaxDelay

\* A run of the DAG comes to an end, whatever its attempts do: nothing else
\* would let the next one start.
EveryDagRunEnds == Active ~> ~Active

\* Polling goes on for ever: no sequence of failures, refusals and timeouts
\* leaves the schedule behind.
PollingGoesOn == []<>(place = "connecting")
=============================================================================
