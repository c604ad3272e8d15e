----------------------------- MODULE CommandLine -----------------------------
(***************************************************************************)
(* One process of ingestion.run: main, its modes, the polling loop and its *)
(* exit code, and the credits the loop spends in a day.  ingest_once       *)
(* appears by its outcomes, in the order in which main can see them; what  *)
(* it does to the tables is in Ingestion.                                  *)
(*                                                                         *)
(* Time is counted from midnight and from the start of the cycle, so that  *)
(* the loop may go on for ever.  OpenSky charges a poll when it answers    *)
(* it; what it charges for requests that fail is not known from the code   *)
(* and is taken as nothing.                                                *)
(***************************************************************************)
EXTENDS Integers

CONSTANTS
  Interval,  \* poll_interval_seconds
  Area,      \* bbox_area_sq_deg
  Day,       \* a day, in the unit of Interval
  MaxAge     \* bound on the time from the start of one cycle to the next

ASSUME TimesAssumption ==
  /\ Interval \in Nat \ {0}
  /\ Day \in Nat \ {0}
  /\ MaxAge \in Nat /\ Interval <= MaxAge

ASSUME AreaAssumption == Area \in Nat

VARIABLES
  mode,    \* the option given, "none" until the arguments are parsed
  pc,      \* where the process stands
  status,  \* the ledger's row of this cycle, "absent" when there is none
  answer,  \* what the API has answered in this cycle
  exc,     \* the exception on its way to main
  code,    \* the exit code, Running until there is one
  clock,   \* time of day
  age,     \* time since cycle_started
  left,    \* what is left of time.sleep
  polls    \* polls OpenSky has charged today

process == <<mode, pc, status, answer, exc, code>>
time == <<clock, age, left>>
vars == <<process, time, polls>>

-----------------------------------------------------------------------------
(* ingestion/config.py.                                                    *)

CreditCost(area) ==
  CASE area <= 25 -> 1
    [] area > 25 /\ area <= 100 -> 2
    [] area > 100 /\ area <= 400 -> 3
    [] area > 400 -> 4

PollsPerDay(day, interval) == day \div interval

DailyBudget(day, interval, area) ==
  PollsPerDay(day, interval) * CreditCost(area)

-----------------------------------------------------------------------------
Running == -1

Init ==
  /\ mode = "none"
  /\ pc = "parsing"
  /\ status = "absent"
  /\ answer = "none"
  /\ exc = "none"
  /\ code = Running
  /\ clock \in 0 .. Day - 1
  /\ age = 0
  /\ left = 0
  /\ polls = 0

Goto(l) == pc' = l

Exit(c) == code' = c /\ Goto("exited")

Raise(e, l) == exc' = e /\ Goto(l)

\* argparse exits with 2 when the arguments are wrong.
ParseArguments ==
  /\ pc = "parsing"
  /\ \/ Exit(2) /\ UNCHANGED mode
     \/ /\ mode' \in {"check", "migrate", "once", "dry-run", "loop"}
        /\ Goto("settings") /\ UNCHANGED code
  /\ UNCHANGED <<status, answer, exc, time, polls>>

LoadSettings ==
  /\ pc = "settings"
  /\ \/ Exit(3)
     \/ /\ Goto(CASE mode = "check" -> "checking"
                  [] mode = "migrate" -> "migrating"
                  [] OTHER -> "cycle")
        /\ UNCHANGED code
  /\ UNCHANGED <<mode, status, answer, exc, time, polls>>

\* A failed check, and the traceback of an exception, both end in 1.
RunChecks ==
  /\ pc = "checking"
  /\ Exit(0) \/ Exit(1)
  /\ UNCHANGED <<mode, status, answer, exc, time, polls>>

\* MigrationError ends in 3; no connection is a traceback, which ends in 1.
RunMigrations ==
  /\ pc = "migrating"
  /\ Exit(0) \/ Exit(1) \/ Exit(3)
  /\ UNCHANGED <<mode, status, answer, exc, time, polls>>

\* Mutant: cycle_started is read once, before the loop.
BeginCycleOnce ==
  /\ pc = "cycle"
  /\ status' = "absent"
  /\ answer' = "none"
  /\ Goto(IF mode = "dry-run" THEN "fetching" ELSE "connecting")
  /\ UNCHANGED <<mode, exc, code, time, polls>>

BeginCycle ==
  /\ pc = "cycle"
  /\ age' = 0
  /\ status' = "absent"
  /\ answer' = "none"
  /\ Goto(IF mode = "dry-run" THEN "fetching" ELSE "connecting")
  /\ UNCHANGED <<mode, exc, code, clock, left, polls>>

\* start_run, outside the try block of ingest_once.
Connect ==
  /\ pc = "connecting"
  /\ \/ status' = "running" /\ Goto("fetching") /\ UNCHANGED exc
     \/ status' \in {"absent", "running"} /\ Raise("other", "raised")
  /\ UNCHANGED <<mode, answer, code, time, polls>>

Fetch ==
  /\ pc = "fetching"
  /\ answer' = "snapshot"
  /\ polls' = polls + 1
  /\ Goto(IF mode = "dry-run" THEN "returned" ELSE "loading")
  /\ UNCHANGED <<mode, status, exc, code, time>>

\* OpenSkyRateLimited, OpenSkyAuthError, any other OpenSkyError; "other" is
\* an exception of the parser.
FetchFails ==
  /\ pc = "fetching"
  /\ answer' \in {"rate_limited", "refused", "unavailable", "other"}
  /\ Raise(answer', IF mode = "dry-run" THEN "raised" ELSE "handler")
  /\ UNCHANGED <<mode, status, code, time, polls>>

\* insert_state_vectors and finish_run.
Load ==
  /\ pc = "loading"
  /\ status' = "succeeded"
  /\ Goto("returned")
  /\ UNCHANGED <<mode, answer, exc, code, time, polls>>

\* ... or an error of the database, before or after the record is committed.
LoadFails ==
  /\ pc = "loading"
  /\ \/ UNCHANGED status /\ Raise("other", "handler")
     \/ status' = "succeeded" /\ Raise("other", "raised")
  /\ UNCHANGED <<mode, answer, code, time, polls>>

\* except Exception: the failure is recorded and the exception goes on, or
\* finish_run raises in its place.
Handle ==
  /\ pc = "handler"
  /\ \/ status' = "failed" /\ Goto("raised") /\ UNCHANGED exc
     \/ UNCHANGED status /\ Raise("other", "raised")
  /\ UNCHANGED <<mode, answer, code, time, polls>>

\* Ctrl-C anywhere in the try block of main: no handler records it.
Interrupt ==
  /\ pc \in {"cycle", "connecting", "fetching", "loading", "handler",
             "returned", "sleeping"}
  /\ Raise("interrupt", "raised")
  /\ UNCHANGED <<mode, status, answer, code, time, polls>>

\* Mutant: the clause of the base class comes first.
CodeForBaseFirst(e) ==
  CASE e \in {"rate_limited", "refused", "unavailable"} -> 1
    [] e = "interrupt" -> 0
    [] OTHER -> 1

\* The except clauses of main.
CodeFor(e) ==
  CASE e = "rate_limited" -> 2
    [] e = "refused" -> 3
    [] e = "interrupt" -> 0
    [] OTHER -> 1

Catch ==
  /\ pc = "raised"
  /\ Exit(CodeFor(exc))
  /\ UNCHANGED <<mode, status, answer, exc, time, polls>>

\* ingest_once has returned: --loop sleeps for the rest of the interval.
Return ==
  /\ pc = "returned"
  /\ IF mode = "loop"
       THEN /\ left' = IF age < Interval THEN Interval - age ELSE 0
            /\ Goto("sleeping")
            /\ UNCHANGED code
       ELSE Exit(0) /\ UNCHANGED left
  /\ UNCHANGED <<mode, status, answer, exc, clock, age, polls>>

\* Mutant: the loop waits for a slot that a slow cycle has missed.
WakeOnTheDot ==
  /\ pc = "sleeping" /\ age = Interval
  /\ Goto("cycle")
  /\ UNCHANGED <<mode, status, answer, exc, code, time, polls>>

Wake ==
  /\ pc = "sleeping" /\ left = 0
  /\ Goto("cycle")
  /\ UNCHANGED <<mode, status, answer, exc, code, time, polls>>

\* Time passes, in a cycle and in a sleep; the allowance is a day's.
Tick ==
  /\ age < MaxAge
  /\ clock' = (clock + 1) % Day
  /\ age' = age + 1
  /\ left' = IF left > 0 THEN left - 1 ELSE 0
  /\ polls' = IF clock' = 0 THEN 0 ELSE polls
  /\ UNCHANGED process

Step ==
  \/ ParseArguments \/ LoadSettings \/ RunChecks \/ RunMigrations
  \/ BeginCycle \/ Connect \/ Fetch \/ FetchFails \/ Load \/ LoadFails
  \/ Handle \/ Catch \/ Return \/ Wake

Next == Step \/ Interrupt \/ (pc # "exited" /\ Tick)

Spec == Init /\ [][Next]_vars

\* The process goes on, and time passes while it sleeps: its requests have
\* timeouts and the database is fair to it.
FairSpec ==
  Spec /\ WF_vars(Step) /\ WF_vars(pc = "sleeping" /\ Tick)

-----------------------------------------------------------------------------
TypeOK ==
  /\ mode \in {"none", "check", "migrate", "once", "dry-run", "loop"}
  /\ pc \in {"parsing", "settings", "checking", "migrating", "cycle",
             "connecting", "fetching", "loading", "handler", "returned",
             "sleeping", "raised", "exited"}
  /\ status \in {"absent", "running", "succeeded", "failed"}
  /\ answer \in {"none", "snapshot", "rate_limited", "refused",
                 "unavailable", "other"}
  /\ exc \in {"none", "rate_limited", "refused", "unavailable", "other",
              "interrupt"}
  /\ code \in {Running, 0, 1, 2, 3}
  /\ clock \in 0 .. Day - 1
  /\ age \in 0 .. MaxAge
  /\ left \in 0 .. Interval
  /\ polls \in Nat

\* Polls of one day lie an interval apart, but for the first: its cycle may
\* have begun the day before.
CadenceInv ==
  /\ pc \in {"parsing", "settings", "checking", "migrating"} => polls = 0
  /\ pc = "cycle" /\ polls > 0 => (polls - 1) * Interval <= clock
  /\ pc \in {"connecting", "fetching"} /\ polls > 0 =>
       (polls - 1) * Interval <= clock - age
  /\ pc \in {"loading", "handler", "returned", "sleeping"} /\ polls > 1 =>
       (polls - 2) * Interval <= clock - age
  /\ pc = "sleeping" => age + left >= Interval

\* What an exit code tells a scheduler.  2 means that the API answered 429, or
\* that the arguments were wrong; 0 of --once means that the snapshot is
\* recorded, unless it was interrupted; a 429 or a refusal is told as 2 or 3
\* unless finish_run has failed over it, and a recorded failure is never told
\* as success (ingestion/run.py:9-13, :205-232, docs/failure-modes.md:18-34).
ExitTellsTheOutcome ==
  pc = "exited" =>
    /\ code = 2 => mode = "none" \/ answer = "rate_limited"
    /\ code = 0 /\ mode = "once" => status = "succeeded" \/ exc = "interrupt"
    /\ code = 0 /\ mode = "loop" => exc = "interrupt"
    /\ exc = "interrupt" \/ status = "running" \/
         /\ answer = "rate_limited" => code = 2
         /\ answer = "refused" => code = 3
    /\ status = "failed" /\ code = 0 => exc = "interrupt"

\* What the exception on its way to main has seen.
OutcomeInv ==
  /\ pc \in {"parsing", "settings", "checking", "migrating", "connecting",
             "fetching"} => answer = "none"
  /\ pc \in {"parsing", "settings", "checking", "migrating", "cycle",
             "connecting", "fetching", "loading", "returned", "sleeping"} =>
       exc = "none"
  /\ pc \in {"cycle", "returned", "sleeping", "loading"} =>
       answer \in {"none", "snapshot"}
  /\ mode = "dry-run" => status = "absent" /\ pc \notin {"loading", "handler"}
  /\ pc \in {"fetching", "loading", "handler"} /\ mode # "dry-run" =>
       status = "running"
  /\ pc \in {"returned", "sleeping"} /\ mode # "dry-run" =>
       status = "succeeded"
  /\ pc \in {"parsing", "settings", "checking", "migrating"} =>
       status = "absent"
  /\ pc = "handler" => exc # "none" /\ exc # "interrupt"
  /\ exc = "rate_limited" => answer = "rate_limited"
  /\ pc \in {"handler", "raised"} /\ answer \in {"rate_limited", "refused"} =>
       exc \in {answer, "interrupt"} \/ (pc = "raised" /\ status = "running")
  /\ pc = "raised" => exc # "none"
  /\ pc = "parsing" => mode = "none"
  /\ mode = "none" => pc = "parsing" \/ (pc = "exited" /\ code = 2)
  /\ pc = "checking" => mode = "check"
  /\ pc = "migrating" => mode = "migrate"
  /\ pc = "connecting" => mode # "dry-run" /\ status = "absent"
  /\ ExitTellsTheOutcome

\* The loop never spends more than the budget the settings announce and two
\* polls: one because a day need not be a whole number of intervals, one for
\* a cycle that begins before midnight and is answered after it.  Slow cycles
\* do not add to it (ingestion/run.py:206-213, config.py:115-119).
BudgetIsKept ==
  polls * CreditCost(Area) <=
    DailyBudget(Day, Interval, Area) + 2 * CreditCost(Area)

CommandInv ==
  /\ TypeOK
  /\ CadenceInv
  /\ OutcomeInv
  /\ polls <= PollsPerDay(Day, Interval) + 2

\* A cycle that took longer than the interval is followed by one poll, not by
\* those it held up.
NoCatchingUp ==
  [][pc = "sleeping" /\ pc' = "cycle" => age >= Interval]_vars

\* Until it exits, --loop polls again and again, however long a cycle took
\* (the sleep of ingestion/run.py:213 comes to an end).
LoopPollsOn ==
  pc = "fetching" /\ mode = "loop" ~> pc \in {"cycle", "exited"}

=============================================================================
