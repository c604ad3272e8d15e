# Formal model of the UK airspace pipeline

TLA+ modules that model the pipeline in this repository, TLC configurations
that check them on small instances, and proofs, checked by TLAPS, that their
main properties hold for every value of the constants.  `PROJECT.json` lists
the components, the runs, the lines of code each definition models, the
hazards and the theorems.

## The system

The pipeline polls the OpenSky Network for the aircraft over the UK, lands the
observations in PostgreSQL, aggregates them with dbt and serves the aggregates.

| Component | Code | State it keeps | Operations |
|---|---|---|---|
| Ingestion run | `ingestion/run.py`, `ingestion/loader.py` | locals of one `ingest_once`; its connection | `start_run`, fetch, parse, `insert_state_vectors`, `finish_run`, the `except` handler |
| Landing zone | `db/migrations/0001_raw_state_vectors.sql` | `raw.ingestion_runs`, `raw.state_vectors` | inserts and the update of a run; append-only for the ingest role |
| OpenSky client | `ingestion/opensky.py` | token and its expiry; attempt | `token`, `_fetch`, `invalidate`, `fetch_states`, `_fetch_once` |
| Parser | `ingestion/models.py` | none | `parse_state_vector`, `parse_states`, `deduplicate` |
| Migration runner | `ingestion/db.py` | `raw.schema_migrations` | `discover_migrations`, `apply_migrations` |
| Hourly mart | `transform/` (intermediate, hourly mart, reconciliation test) | the mart table; dbt's temporary table | incremental build, full refresh, test |
| Other models, grants | `transform/` | daily and health marts, views, grants | full rebuild, `on-run-end` |
| Read API | `api/main.py`, `api/queries.py` | pool of 4 connections | six read endpoints |
| Schedule | `dags/` | Airflow's runs and retries | tick, retry, timeout |
| Command line | `ingestion/run.py` (`main`) | the start of the cycle, in `--loop` | `--once`, `--loop`, `--dry-run`, `--migrate`, `--check` |
| Health checks | `ingestion/checks.py` | none (reads the two raw tables) | five checks |
| Configuration | `ingestion/config.py` | settings | credit cost, budget, allowance |

They interact only through calls and through the database:

- the schedule, a retry, `--loop` and an operator call `ingest_once`; nothing
  in the code keeps two of those callers from overlapping (`max_active_runs=1`
  binds one DAG only);
- `ingest_once` calls the client, the parser and the loader in turn, and
  everything another component sees of it is in the two raw tables;
- dbt reads the raw tables through views while ingestion goes on writing them;
- the read API reads the marts while dbt replaces them;
- the migration runner is called by hand, from the command line or a DAG of
  its own.

### What is hard here, and what correctness means

- *Ingestion run.*  Executions overlap and share keys; connections and
  processes die between any two steps; the reply to a commit gets lost.
  Correct: loads are atomic, a key is landed once by the run that observed it
  first, a run's recorded outcome and counts agree with the rows that name it,
  and no execution waits for ever.
- *OpenSky client.*  The token is checked by one clock and judged by another;
  retries must not spend what a refusal or a quota has closed, and must fit
  inside the task's timeout.
- *Migration runner.*  Two runners act on what each read before; files change
  under them; one stops halfway.  Correct: each file's SQL is committed once,
  in order, with its record.
- *Hourly mart.*  Observations arrive late, or ahead of the clock, and between
  build and test.  Correct: counted once, absorbed if inside the window, and a
  failing test means what it says.
- *Schedule.*  Ticks, retries, timeouts and refusals fall together in any
  order; an exception can replace another.  Correct: what cannot succeed is not
  retried, every run of the DAG ends, and polling goes on.
- *Health checks.*  They judge by the clock what executions wrote or did not
  live to write.  Correct: a fresh feed is not called stale, a dead run stays
  reported, and the credit check speaks before the quota ends.
- *Parser.*  A row may be odd in any of its fields.  Correct: it is rejected
  and counted, and takes no other row with it.
- *Read API, other models.*  dbt replaces tables under the readers and grants
  on them later; threads and connections are both scarce, and each is held
  while the other is waited for.  Correct: every request is answered, the
  reader is denied a mart only while dbt works or after it was killed, and a
  restart of the database is got over.
- *Command line.*  An exception may replace another on its way to the exit
  code, and the loop has a budget to keep.  Correct: the code tells what
  happened, and slow cycles neither stop the loop nor spend more.

## Modules

| Module | Models | Extends |
|---|---|---|
| `Ingestion` | `ingest_once` and the loader, any number of executions, with PostgreSQL's transactions | - |
| `LandingZone` | what the raw tables promise a reader | - |
| `IngestionRefinement` | `Ingestion` implements `LandingZone` | `Ingestion`, instance of `LandingZone` |
| `RecordParsing` | the parser, field by field, and its two loops | `Ingestion` |
| `MCIngestion` | instances for TLC | `IngestionRefinement`, `RecordParsing` |
| `OpenSkyClient` | one client with its token cache, in discrete time | - |
| `HourlyMart` | build, refresh and test of the hourly mart | - |
| `Migrations` | `apply_migrations`, several runners | - |
| `Schedule` | the DAG `opensky_ingest`, in discrete time, and the freshness check | - |
| `HealthChecks` | the stuck-run and credit checks against the executions | - |
| `MartPublication` | how dbt replaces the marts and grants on them | - |
| `ReadApi` | requests, threads and the pool, over the marts | `MartPublication` |
| `CommandLine` | `main`, its exit codes, `--loop` and its budget | - |
| `IngestionProofs` | theorems on executions and the parser, and the refinement | `IngestionRefinement`, `RecordParsing` |
| `OpenSkyClientProofs`, `HourlyMartProofs`, `MigrationsProofs`, `ScheduleProofs`, `HealthChecksProofs`, `ReadApiProofs`, `CommandLineProofs` | theorems | the module of their name |

Operators whose comment begins with `Mutant:` are not part of a model.  Each is
a definition next to it with a plausible bug, and `PROJECT.json` says which
property that bug breaks: it shows that the property is about the code.

### Ingestion

One element of `Runs` is one execution with its `run_id` (a fresh `uuid4`).
Its place in the code is `pc[r]`:

    idle -StartRun-> fetching -Fetch-> inserting -CommitLoad-> finishing -FinishSucceeded-> done
                         |                |                       |
                         +--- FetchFails, AbortStatement, NoticeLostConnection ---> failing -FinishFailed-> raised
    any of these but idle -Crash-> dead

`rows` is the response body as a sequence of keys; a row `parse_state_vector`
rejects is `Malformed`, a row only the database refuses has a key in `Refused`
(an `icao24` of more than 12 characters, a category beyond `smallint`).
`Unique`, `Repeats` and `Rejected` are what `deduplicate` and `parse_states`
return, as sets of positions.  `todo` is what the loader's loop has not sent,
`inserted` its local sum, `counts` and `status` the columns of the run's row.

The database is as detailed as the loader can tell: `pending` are the
uncommitted keys of a session, `statement` the rows the server has still to
insert, `rowcount` what it will report.  An insert of a key another session
holds uncommitted is not enabled (the wait on the unique index); a cycle of
such waits enables `DeadlockVictim`; a session outlives a dead client until
`SessionEnds`.  These five definitions are marked external in the map: they are
PostgreSQL's documented behaviour at READ COMMITTED, not code of this repository.

`Faults` selects what the environment may do: `api` (the fetch or the parser
raises), `connection` (a connection is lost, or a commit is made and its reply
is lost), `crash`, `statement` (any other error of a statement or commit),
`finish` (finish_run's own statement fails on a good connection).

### LandingZone and the refinement

For a reader of the two tables an execution is: recorded (`Begin`); at most one
`Load`, which lands in one step the keys nobody had landed; then at most one of
`Succeed`, which records the number of rows it owns, and `Fail`.
`IngestionRefinement` maps the committed tables and hides the rest.  It allows
what the code does allow: a run that is still "running", for ever, with its
rows landed (killed between the two commits), and, with the fault `finish`, a
failed run that owns rows.

### RecordParsing

The parser has no state; the module holds operators.  A row has a shape - no
array, too short, without its last field, whole - and a value per field.  A
value is a class: the numbers inside and outside of what its field admits, an
integer that no float can hold, infinity, NaN, five kinds of text (plain,
blank, too long for `icao24`, with a NUL, with an unpaired surrogate), null,
`true`, anything else.
`FieldVerdict` says of a field and a value whether the parser takes it, raises
`ParseError`, or raises what `parse_states` does not catch; the shape, and then
the first field that is not in order, decides for the row (`RowVerdict`).
`TableTakes` translates the columns and CHECKs of the table, and what the
driver can encode.  A body the JSON decoder refuses has no rows: it is a failed
request of `OpenSkyClient`.  `Loops` are the loops of
`parse_states` and `deduplicate`, one row at a time, against the sets of
positions that `Ingestion` computes with.  A row outside of `Gaps` is what
`Ingestion` calls `Malformed` or a key that is not in `Refused`; one that the
table refuses is a key in `Refused`, and one that raises is the fault `api`.

### OpenSkyClient

Time is counted in units.  It passes only in `Tick`, which is disabled when a
request has been in flight for `Latency`, a sleep has lasted its longest
back-off, or the code is about to act: so all the properties about time are
about requests that are over within `Latency`.  With the defaults a unit is one
second, `Latency` 30, `Margin` 60, `BackoffCap` 30, `MaxAttempts` 4, and
`LongestFetch` 254 s, below the task's `execution_timeout` of 300 s.  The
timeout given to httpx bounds each phase of a request, not their sum; a
response that trickles in for longer than 30 s is outside of these results.
`dies` is the server's end of each token, `expiresAt` the client's idea of it.
`ingest_once` builds a client per run and makes one fetch with it; the model
lets the same client fetch again, as the class does.

### HourlyMart

Hours are numbers, the content of an hour a count of positioned observations.
A build is `SelectRecent` or `SelectAll` (the query, one snapshot of the
source), `Replace` or `Swap` (the transaction that rewrites the mart) and
`Reconcile` (the test, which reads the source again); `Land` and `NextHour`
happen between any two of them, and `BuildFails` ends a build anywhere.  `Land`
is what `Ingestion!CommitLoad` looks like from dbt; that landed rows never go
away again is `ProvenanceStands`.  `Skew` is the parser's `_MAX_SKEW`, in
hours.  `sampledAt` only remembers the hour of the query, for the properties.
One build at a time: no part of the repository starts two.

### Migrations

A file is a number (its place in filename order), its content a version, 0
while it does not exist; `Edit` adds, edits or reverts a file at any time.  A
runner reads the ledger, lists the directory, and then for each file skips,
refuses, or executes, records and commits.  `ran` counts the commits of a
file's SQL.  `onDisk` only remembers the listing, for the properties.

### Schedule

`CronTick` makes a run due; `CreateRun` serves all due ticks at once as soon as
no run is active (`catchup=False`, `max_active_runs=1`).  `place` is where the
attempt is in `ingest_once`:

    connecting -Record-> fetching -Fetch-> loading -LandNew, LandNothing-> landed -Succeed-> success
                            |                 |                               |
                            +------ Refused, Raises: handling -HandlerRecords, HandlerFails-> retry or failed

and `Killed` ends an attempt anywhere, at the timeout or with its worker,
leaving its record "running": Airflow's timeout is no `Exception`, so no handler
of `ingest_once` sees it.  `raised` is the exception the handler is dealing
with, `refusal` only remembers that this run met a 429 or a refusal.
`HandlerFails` is `finish_run` raising inside the handler, and `masked`
remembers that this happened, or that the handler was killed: what the task
then sees is no longer the refusal.  `sinceLanding` is what
`check_freshness` measures, from the start of the load's transaction, since
`ingested_at` is its `now()`.  Time does not pass while a run is due or a retry
has waited its longest: the scheduler is prompt, unless `pause` allows it not
to be.  Airflow itself is not code of this repository; what the module assumes
of it is in the comments of `CreateRun`, `Delay` and `Killed`.

### HealthChecks

An execution is recorded (`StartRun`) or a dry run (`DryRun`); its fetch makes
up to `MaxAttempts` requests (`Asks`), of which the last may bring a snapshot
(`Answered`) and the others do not (`Transient`); then it succeeds, fails or
stops without a word.  It may take as long as it likes: `execution_timeout`
ends only the attempts of the DAG, and no statement has a timeout.  The checks
are state predicates: they write nothing, and each is one query that reads the
clock.  OpenSky's day begins at `midnight`, and the 429 comes when a request no
longer fits.  `Charge` takes the credits of a request: `today` are the recorded
executions charged since midnight, whose estimate in the ledger answers to one
request each, and `unseen` counts all other charges, those of repeats and dry
runs.  Whether a request that failed is charged the code does not tell, and
`Transient` allows both.

### MartPublication and ReadApi

A mart is absent, closed to `airspace_reader`, or open; so is their schema.  A
dbt command takes the marts it has selected in any order: `ReplaceMart` puts a
new, closed table in the place of the old one in one transaction, `ExtendMart`
is the incremental model, `MartFails` leaves the old table; `GrantAndEnd` is
the `on-run-end` hook, which runs after failed models too, and `KillDbt` a
command that never reaches it.  `Outcome` is what a query by the reader gets:
rows, "not ready" (503), or a missing privilege, which nothing catches (500).

A request for data goes

    away -Arrive-> queued -Enter-> waiting -Borrow-> lent -Run-> running -Query, QueryFails-> leaving -Leave-> away
                                      +----GiveUp (10 s)----> away

and a request for `/health`, `/api/meta` or the page from queued by `Run` to
running and by `Reply` away.  FastAPI runs plain functions on a limited number
of threads (`Threads`, 40 by default): a request occupies one while it waits in
`get_conn`, and again while the endpoint runs, but not in between.  `link` is
the state of each place in the pool.  `Restart` breaks the open connections,
and the pool, which does not check what it lends, finds out one by one.
`Gridlock` is the state in which every thread is held by a request waiting for
a connection and every connection by one waiting for a thread: with 4
connections and 40 threads it takes 44 requests at once.

### CommandLine

One process from `argparse` to its exit code.  `ingest_once` appears by its
outcomes, in the order in which `main` can meet them: `status` is the row of
the ledger, `answer` what OpenSky has answered in this cycle, `exc` the
exception on its way.  The handler may fail and put another exception in its
place.  `clock` is the time of day and `age` the time since `cycle_started`;
`polls` are those OpenSky has charged today.  Counting both from a fixed event
lets the loop run for ever in finitely many states.

## Runs

| Run | Instance | What it checks |
|---|---|---|
| `ledger` | 3 executions, 2 keys, 2 snapshots (both orders, a repeat and a malformed row), batches of 1, all faults; rows of every shape with two odd fields, every body of five rows | `LedgerBalances`, `LoadIsAllOrNothing`, `OneInserterPerKey`, `ProvenanceStands`, `OutcomeStands`, `ImplementsLandingZone`, `OneBadRowFailsAlone`, `LoopsKeepFirst` |
| `ends` | 2 executions, 3 keys of which 1 refused, snapshots in opposite orders and an empty body, batches of 2, all faults but `finish` | `FailedRunLandsNothing`, `EveryRunEnds`, `NoKeyStaysLocked` |
| `client_token` | 2 attempts, margin 2, latency 1, lifetimes 3 and 5, 2 tokens, 8 units of time | `NoExpiryMidFlight`, `FetchIsTimely`, `RefusalIsFinal`, `RefusedTokenIsDropped`, `FetchEnds` |
| `mart_window` | 5 hours, lookback 2, skew 1, 2 observations per hour | `CountedAtMostOnce`, `ReachAbsorbsLate`, `HourNeverShrinks`, `QuietFailureIsStale` |
| `migrations_once` | 2 runners, 2 files, 2 versions | `BodyRunsOnce`, `AppliedIsDurable`, `SuccessMeansInStep`, `EditStopsTheRest`, `NoGap` |
| `schedule` | minutes: period 2, timeout 5, two retries after 1 to 5, attempts of 3; all faults | `RefusalEndsTheRun`, `FreshWhileCalm`, `EveryDagRunEnds`, `PollingGoesOn` |
| `health` | 3 executions, 2 at once, 3 requests each, dry runs, a day of 3, stuck after 2, cost 2, allowance 9, comfort 1, 6 units of time | `ExhaustionIsForeseen`, `OnlyOutcomesClear` |
| `read_api` | 3 clients, 1 thread, 1 connection, 2 marts of which 1 incremental, 1 restart | `LossesAreBounded`, `OnlyGridlockStops`, `DeniedOnlyMeanwhile`, `GridlockOnlyTimesOut`, `EveryRequestIsAnswered` |
| `command_line` | an interval of 3, days of 10, cycles of up to 7, an area of 156 square degrees | `ExitTellsTheOutcome`, `BudgetIsKept`, `LoopPollsOn` |

The type invariants and the inductive invariants (`IInv`, `ClientInv`, `TimelyInv`,
`MartInv`, `MigrationInv`, `ScheduleInv`, `CalmInv`, `HealthInv`, `PoolInv`,
`CommandInv`, and `ConnectedInv`, `RequestsInv`, `AgeInv`, `LoopInv` and
`InsideInv` beside them) are theorems or parts of their proofs, and the runs
name only what follows from them; add one to a configuration to look for the
step that breaks it after a change.

What they show: `ledger`, that under every fault and overlap the run records
and the landed rows agree, loads are atomic, a key keeps its first observer, an
outcome is written once, and a reader of the tables sees only steps of the
landing zone.  `ends`, that every execution ends and frees its keys, and that a
failed run has landed nothing even when the reply to its commit was lost.
`client_token`, that no token expires on its way, no refusal is repeated, and a
fetch ends within its bound.  `mart_window`, that builds count each observation
once and absorb what the window reaches.  `migrations_once`, that two runners,
stopped anywhere, commit each file once, in order, with its record.
`schedule`, that polling survives every failure and that the freshness check
gives no false alarm in the calm.  `health`, that a run leaves the report of
stuck runs only by writing its outcome, so that a dead one stays on it, and
that the credit check fails before the allowance is used up unless more went
unrecorded than its margin covers.  `read_api`, that requests are answered
through gridlock, restart and dbt runs, that nothing but a gridlock stops them,
and what each of these costs.  `command_line`, that exit codes can be
trusted and that slow cycles leave the budget alone.

Three runs are expected to find a violation, each of what a comment or a
document says of the code:

| Run | Statement | What happens |
|---|---|---|
| `overlap` | re-ingesting is a no-op however many workers do it concurrently (`ingestion/loader.py:4-6`) | two executions that meet two keys in different orders deadlock; the victim is recorded as failed and its load is gone |
| `mart_lookback` | every build reprocesses the last `late_arrival_lookback_hours` (`transform/dbt_project.yml:17`) | the window hangs on `max(activity_hour)`, and a row stamped ahead moves it past hours that still fill |
| `read_api_first_run` | a database without marts is "not an error worth a 500" (`api/queries.py:35-36`) | from the creation of the schema by the first dbt run to its grants the reader lacks the privilege, which is not caught: 500 |

Further disagreements were met and have no run of their own, because each
shows in a definition or two.

- "One bad row never fails the batch" (`ingestion/models.py:219`).  The members
  of `RecordParsing!Gaps` do: `float()` of a huge integer and `int()` of an
  infinity or a NaN raise what `parse_states` does not catch; an `icao24` of
  more than twelve characters, an integer beyond `smallint`, and a NUL or an
  unpaired surrogate in a text pass the parser, and the table or the driver
  refuses the load.  Among the shapes of rows and classes of values that
  `RecordParsing` tells apart `OneBadRowFailsAlone` finds no others; that these
  classes are fine enough is a reading of the code, not a result.
- The reconciliation test fails for data beyond the lookback and asks for
  `--full-refresh` (`assert_hourly_mart_reconciles_with_source.sql:4-12`).  It
  also fails for a row of a closed hour that lands between build and test,
  hence the premise of `QuietFailureIsStale`.
- An edited migration is detected before anything runs
  (`docs/failure-modes.md:109`).  Pending files that sort before it are applied
  and committed first; `EditStopsTheRest` is what holds.
- Airflow's own retries do not fire after a 429 (`docs/failure-modes.md:22-23`).
  They do if `finish_run` raises in the handler, whose exception replaces the
  429: the premise `~masked` of `RefusalEndsTheRun`.  The exit code of the
  command line is then 1 instead of 2, as `ExitTellsTheOutcome` allows when the
  row stays "running".
- After a 429, "the job exits and the scheduler backs off"
  (`docs/failure-modes.md:21-22`).  The job exits; but nothing outlives it that
  could hold back the next tick, and the run that tick starts asks again, every
  two minutes until the allowance resets: `CreateRun` reads no `exhausted`.
- `credit_budget` "fails once 90% of the allowance is spent"
  (`docs/failure-modes.md:18-19`; `README.md:298` likewise).  The check sums one
  estimate per recorded run, but a fetch may send four requests
  (`ingestion/opensky.py:163-182`), also after a 200 with a body it cannot use
  (`:220-234`), and a dry run leaves no row (`ingestion/run.py:49-64`).  Without
  the premise on `unseen` in `ExhaustionIsForeseen` TLC finds the allowance used
  up by two dry runs and the check passing; with four requests to a fetch, a
  cost of 1, an allowance of 4 and a comfort of 3 it takes one recorded fetch.
- A run that "has sat in `running` for over 15 minutes" (`README.md:296`) has
  "almost certainly died" (`ingestion/checks.py:30-31`).  One from the command
  line may be waiting for the database: no statement has a timeout.  It is
  reported meanwhile, and leaves the report when it writes its outcome
  (`OnlyOutcomesClear`).
- "Exit codes are distinct" (`ingestion/run.py:9`).  A wrong argument ends in
  2, as a 429 does; an interrupted `--once` ends in 0 without a snapshot; a
  migration that cannot connect ends in 1, one that fails in 3.
- `/health` says nothing but that the service lives (`api/main.py:105`).  It
  needs a worker thread, and in a gridlock waits with everyone else.

### Why the bounds are enough

Two executions are the least that share a key and three the least where one
waits on, or finds the rows of, two others; two keys in both orders give every
conflict and the deadlock, a third key carries the refused row.  A batch of one
row makes every load take several statements, a batch of two a full and a
partial one.  Symmetry over `Runs` is used in `ledger` and `health`, which have
no liveness properties: both specifications treat executions alike.  In `client_token` two attempts make one
retry; two tokens make one replacement; eight units outlive every token.  The
clock stops at `MaxTime`, after which requests are still answered: nothing is
assumed to end because the clock stopped.  In `mart_window` five hours hold an hour before the window, the
window, the current hour and one ahead.  Two versions of a file are an edit and
its revert.  `Schedule` needs no bound: its times are ages, and its instance is the
deployment in minutes (a first retry delay of 30 s rounded up).  An attempt of
three minutes is the longest for which `FreshWhileCalm` holds there; with four
it fails, and a fetch may take 254 s: the check may then raise its alarm though
no poll has failed.  In `health` two executions can begin before midnight, be
charged after it and be out of the check's window before the next one, the
margin has room for one unrecorded request, and all three executions and it are
needed to use up the allowance: with a margin for one request more,
or one overlapping execution less, the property is refuted.  It lasts two
days, so that a dead run outlives every window.  In `read_api` one thread, one connection and
three clients make the gridlock (one waits, one is lent, one is neither), and a
mart of each kind every mixture of grants.  In `command_line` the day is not a
whole number of intervals and a cycle may last more than two of them: the two
polls over the budget both happen, and one less is refuted.  Rows with two odd
fields show which of two verdicts counts; five rows over two keys hold two
repeats of each and a rejected row.  The theorems below hold without these
bounds.

Deadlock checking is on in the runs of `Schedule`, which never rests.  It is off
in the others because each system may really come to rest: all executions over
and none started, an hour bound reached, all runners done.  That nobody waits for ever is checked as liveness instead.

## Fairness

- `Ingestion!FairSpec`: a started execution keeps taking steps (the process
  runs, or is killed), and the server keeps working: inserts go on, deadlocks
  are detected, dead sessions end.  Weak fairness per execution, on the whole
  of its client's steps and of its session's.  Nothing makes an execution start
  and no fault is fair.
- `OpenSkyClient!FairSpec`: a fetch that has begun goes on, since every request
  is answered or times out and every sleep ends.  Nothing makes a fetch begin,
  and which answer comes is free.
- `Schedule!FairSpec`: time passes, and Airflow creates due runs, retries, and
  kills at the timeout.  No fairness is assumed of an attempt: a response may
  trickle in and a statement may wait for ever, and it is the timeout that
  saves the schedule.
- `ReadApi!FairSpec`: strong fairness for each request, since the thread
  limiter serves its waiters in turn and a thread comes free again and again
  without staying so.  This covers `Query`: every query is assumed to end, with
  rows or an error, and that is not of the code, which sets no
  `statement_timeout`.  Nothing else is assumed of the database, nor of the
  pool, of dbt or of new requests: a request that finds no connection is saved
  by its timeout.
- `CommandLine!FairSpec`: the process goes on, and time passes while it sleeps.
- The other modules have no liveness properties: the repository does not
  schedule dbt or migrations.

## Proofs

All theorems are checked by TLAPS from the named assumptions on the constants
in the modules (sets of runs and files finite, `Malformed`, `NoRun` and `NoCounts`
distinct from what they stand beside, bounds natural).

- `IngestionProofs`.  The invariants of the run record do not hold inductively.
  `IInv` adds what makes them so: what a session may hold at each place of its
  client (`SessionInv`), that every row dealt with is pending or landed and
  that `inserted + rowcount` is the number of rows pending (`ProgressInv`),
  what a run owns at each place (`OwnerInv`), and what its record says
  (`StatusInv`).  The key step is `CommitLoad`, where the rows counted become
  the rows owned: it needs that pending keys are neither landed nor pending
  elsewhere (`OneInserterPerKey`), so that ownership and count agree.  One
  lemma per action.  From `Invariance` follow `TypeCorrect`, `KeyExclusion`,
  `LoadAtomicity`, `FailureIsClean`, `LedgerCorrect` (with the counting lemmas
  on `Unique`, `Repeats` and `Rejected`), `Provenance` and `Outcome`.
  `Refinement`: commits map to `Load`, the three
  writes of a record to `Begin`, `Succeed` and `Fail`, everything else to
  stuttering; `IInv` supplies that a load's run is running and owns nothing.
  For the parser, `RowsFailAlone` covers a row with anything in any number of
  its cells and any shape, and `LoopsLoseNoRow` a body of any length: after each row
  `Loops` has built exactly what `Unique`, `Repeats` and `Rejected` say of the
  rows so far, an induction over the positions of the body.  `BadRows` and
  `FirstOccurrencesWin` are their instances, as the run checks them.
- `OpenSkyClientProofs`.  Under `MarginSuffices` - the margin is at least two
  latencies and every token outlives two latencies - `ClientInv` is inductive:
  the client's idea of a token's end stays far enough before the server's.
  Hence `MarginIsEnough`, `NoRequestAfterAnAnswer`, `RefusedTokensStayOut`.
  60 s and 30 s satisfy the assumption with equality; a token granted for less
  than two latencies is presented all the same and may expire on the way.
  `FetchIsBounded` needs no such assumption: `TimelyInv` says how far each
  stage of an attempt may be in time, over `Past`, what the attempts before it
  took at most.  That `Past` obeys its recurrence is proved from the least
  member of a set of naturals (`InitialSegment`, `Recurrence`).
  `FetchBoundInFigures` puts the bound in closed form; with the defaults it is
  254 s (`DeployedFetchFits`), and `execution_timeout` is 300 s
  (`dags/opensky_ingest.py:24`).  `RequestsInv` counts the requests against the
  attempts, whence `FetchCostIsBounded`.
- `HourlyMartProofs`.  `MartInv` relates mart, sampled counts and source at
  each stage of a build.  `WindowAbsorbs`: a build absorbs what had landed for
  the last `Lookback - Skew` hours, which is nothing certain with 3 and 24.
  `WindowFollowsRows` says what holds with any skew: the reach follows the
  newest row the query has seen, so what breaks the promise of the lookback is
  a row stamped ahead of the clock, and nothing else.
- `MigrationsProofs`.  `MigrationInv` says that what a runner knows of the
  ledger is old but still true, that every file it has passed is recorded as it
  read it, and that one runner at most is between record and commit of a file.
  Hence `ExactlyOnce`, `Durable`, `InStep`, `ChecksumsStand`, `InOrder`.
  `LoopInv` adds that a runner leaves no file behind its place out of step,
  however it ends, which gives `EditStops`; `InsideInv`, that a runner in a
  transaction has a file to work on, which gives `NoQueueOfRunners`.
- `ScheduleProofs`.  `ScheduleInv`: an attempt is no older than the tick it
  serves unless the next one is due, and after a refusal only the handler is
  left, dealing with that refusal, unless a handler has failed
  (`NoRetryAfterRefusal`).  `CalmInv` bounds the age of the newest row at
  each stage of a run; with `CadenceSuffices` (a period and an attempt, and two
  attempts, fit into three polling intervals) it gives `NoFalseStaleness`.
- `HealthChecksProofs`.  `HealthInv` says that the runs alive or charged today
  that began before midnight are `MaxAlive` at most: of the recorded runs they
  are all that the window of 24 hours can miss of what OpenSky counts
  (`SumCoversToday`).  Hence `QuotaIsForeseen`, with no assumption on lives,
  attempts or allowance: what is left of the tenth, after these runs and the
  request that gets the 429, is what repeats and dry runs may take unnoticed
  (`Margin`; with 400 credits at 3 a request and one execution at a time 34).
  `AlarmStands` needs only that a begun run does not begin again.
- `ReadApiProofs`.  `PoolInv`: a connection is lent to one request at a time, a
  broken one has cost no request yet (`LossInv`, hence `RestartsCostLittle`),
  the threads in use are those of waiting and running requests, and with dbt at
  rest after a hook nothing that exists is closed (`DenialsPass`).  From it
  also `GridlockNeedsTimeout`.
- `CommandLineProofs`.  `CadenceInv` says that the polls of a day lie an
  interval apart, except that the first may belong to a cycle of the day
  before; counting them against the length of a day gives `BudgetHolds`.
  `OutcomeInv` follows an exception from the answer to the exit code, and gives
  `ExitCodesAreDistinct`.  `NoBurst`: the loop begins a cycle an interval after
  the last one began, or later.

Liveness under fairness is outside the prover.  What can be proved is the rest
of the argument for it: that nobody is stuck, and that every step leads on.
What the theorems leave to TLC is then only that fair steps are taken.

- `NobodyWaitsForNobody`: take executions that wait for no one outside their
  group.  If none could step, each would wait for another one; the smallest
  closed set of such waits is a cycle, and the deadlock detector has a victim
  in it.  It needs `ConnectedInv`: only an execution that has not begun, or
  could not, is without a session.
- `NoStepGoesBack`: every step, faults included, lowers the measure `Rank`,
  then `Left`, of one execution - its place, its session, the rows it has still
  to send and to insert - and leaves all others as they were.
- `FetchIsFinite`: every step of a fetch but the clock's lowers `Remaining`.
- `RunsAreBounded`, `RunsRunOut`: `TicksLeft` is at most `LongestRun`, 25
  minutes as deployed, is never raised within a run, and every tick lowers it.
  `AgeInv` supplies that neither an attempt nor a wait outlives its limit.
- `NothingElseStops`, `GridlockTakesACrowd`: once the pool's connections are
  open, no request can go on exactly when there is a gridlock, and that takes
  as many requests as there are threads and connections together.
- `NoQueueOfRunners`, `RunnersAreFinite`: a runner waits for at most one commit
  of one other, and has at most `3 * Cardinality(Files) + 5` steps in all.

These statements (`NoGroupIsStuck`, `StepsLeadOn`, `RequestsAreBounded`,
`FetchGoesOn`, `RunIsBounded`, `TimeRunsOut`, `GridlockNeedsCrowd`,
`RunnersGoOn`, `RunnersFinish`), except `OnlyGridlockStops`, are in no run's
configuration; on the runs' instances TLC finds them to hold.  The predicates
`CanStep` and `CanGoOn` in them repeat the guards of the actions, because
`ENABLED` is outside the prover too; on the same instances they agree with
`ENABLED` of the steps they stand for.

Only model-checked: the liveness properties themselves (`EveryRunEnds`,
`NoKeyStaysLocked`, `FetchEnds`, `EveryDagRunEnds`, `PollingGoesOn`,
`EveryRequestIsAnswered`, `LoopPollsOn`).

## Not modelled

- Texts and floating point beyond their classes: the circular mean, rounding,
  percentages, time zones.
- What the queries of the read API, the daily and health marts and the staging
  views compute: each is one aggregate of one table, and the mixture of builds
  a reader may see of them is `MartPublication`.
- Log lines, the dashboard page, the coastline script, containers and CI:
  presentation and deployment.
- Grants of the database roles on the raw schema, beyond that landed rows are
  never updated.
- The rates of failed runs and rejected rows: quotients over an hour.
- Reading and validating the environment in `ingestion/config.py`: the settings
  are constants, and an invalid one is an exit code.

## Order of the work, and what is left

`Ingestion` with its refinement, `OpenSkyClient`, `HourlyMart`, `Migrations`,
`Schedule`, `HealthChecks`, `MartPublication` and `ReadApi`, `CommandLine`,
each followed by its proofs, and `RecordParsing`.  What could come next:

1. `--loop` and `--once` beside the DAG: they share the allowance and the
   ledger with it, so `Schedule`, `CommandLine` and `HealthChecks` composed
   over `LandingZone`.
2. What a reader of `raw.schema_migrations` is promised as a specification of
   its own, and `Migrations` shown to implement it.
3. The daily mart against the hourly one under late observations: the first is
   rebuilt whole, the second by its window.
