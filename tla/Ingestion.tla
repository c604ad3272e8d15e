------------------------------ MODULE Ingestion ------------------------------
(***************************************************************************)
(* One execution of ingestion.run.ingest_once per element of Runs, all of  *)
(* them against one PostgreSQL database.  An execution records its run,    *)
(* calls the API, parses and deduplicates the snapshot, loads it in one    *)
(* transaction of multi-row INSERT ... ON CONFLICT DO NOTHING statements,  *)
(* and records the outcome.                                                *)
(*                                                                         *)
(* Every execution draws a fresh uuid4 for its run, so a run and its       *)
(* execution are one element of Runs: a retry by Airflow, the next tick of *)
(* the schedule, `--loop` and a manual `--once` are further elements that  *)
(* may start at any time, before or after the others end.                  *)
(*                                                                         *)
(* The database appears as what PostgreSQL does for the loader: committed  *)
(* rows, the uncommitted rows of each session, a wait on the unique index  *)
(* for another session's uncommitted key, deadlock detection, and a        *)
(* session that outlives its client by a while.                            *)
(***************************************************************************)
EXTENDS Integers, Sequences, FiniteSets

CONSTANTS
  Runs,         \* executions of ingest_once, each with its run_id
  Keys,         \* (icao24, observed_at), the primary key of a state vector
  Refused,      \* keys whose row the table's CHECKs or column types refuse
  Malformed,    \* a row parse_state_vector rejects with ParseError
  Snapshots,    \* the "states" arrays the API may answer with
  BatchSize,    \* rows of one INSERT statement (DEFAULT_BATCH_SIZE)
  Faults,       \* which of FaultKinds the environment may produce
  NoRun,        \* no run owns the key
  NoCounts      \* the count columns are NULL

FaultKinds == {"api", "connection", "crash", "statement", "finish"}

ASSUME RunsAssumption == IsFiniteSet(Runs) /\ NoRun \notin Runs
ASSUME KeysAssumption == Refused \subseteq Keys /\ Malformed \notin Keys
ASSUME SnapshotsAssumption == Snapshots \subseteq Seq(Keys \cup {Malformed})
ASSUME BatchAssumption == BatchSize \in Nat \ {0}
ASSUME FaultsAssumption == Faults \subseteq FaultKinds

Counts == [received: Nat, rejected: Nat, inserted: Nat, duplicate: Int]

ASSUME CountsAssumption == NoCounts \notin Counts

VARIABLES
  pc,        \* where the execution stands
  session,   \* its database session, as the server sees it
  rows,      \* the response body it holds
  todo,      \* positions of the deduplicated rows not yet sent
  statement, \* positions the server has still to insert in this statement
  rowcount,  \* cur.rowcount of the statement
  inserted,  \* the local `inserted`
  pending,   \* keys its open transaction has inserted
  landed,    \* raw.state_vectors: ingestion_run_id of the row, per key
  status,    \* raw.ingestion_runs.status, "absent" when there is no row
  counts     \* the count columns of raw.ingestion_runs

client == <<pc, rows, todo, inserted>>
server == <<session, statement, rowcount, pending, landed>>
ledger == <<status, counts>>
vars == <<pc, session, rows, todo, statement, rowcount, inserted, pending,
          landed, status, counts>>

-----------------------------------------------------------------------------
(* parse_states and deduplicate, on the positions of the response body.    *)

Valid(s) == {i \in DOMAIN s : s[i] # Malformed}

\* Positions of the rows parse_states moves to `rejected`.
Rejected(s) == DOMAIN s \ Valid(s)

\* Positions deduplicate keeps: the first occurrence of each key wins.
Unique(s) == {i \in Valid(s) : \A j \in Valid(s) : s[j] = s[i] => i <= j}

\* Positions deduplicate counts as intra-batch duplicates.
Repeats(s) == Valid(s) \ Unique(s)

KeysOf(s) == {s[i] : i \in Unique(s)}

\* The next batch of the loader: the first BatchSize rows not yet sent.
Batch(ps) == {i \in ps : Cardinality({j \in ps : j < i}) < BatchSize}

-----------------------------------------------------------------------------
(* Sessions and locks.                                                     *)

Landed == {k \in Keys : landed[k] # NoRun}
Owned(r) == {k \in Keys : landed[k] = r}

InTransaction(r) == pc[r] = "inserting" /\ session[r] = "open"

\* The row the server inserts next: the statement's VALUES are in order.
IsNext(r, i) == i \in statement[r] /\ \A j \in statement[r] : i <= j

\* The unique index makes an inserter wait for the transaction that holds
\* an uncommitted row with the same key.
WaitsFor(r, o) ==
  /\ o # r
  /\ \E i \in statement[r] : IsNext(r, i) /\ rows[r][i] \in pending[o]

\* What the server's deadlock detector looks for: a set of sessions, each
\* waiting for one of the set and waited for by one of it.
Deadlocked(r) ==
  \E D \in SUBSET Runs :
    /\ r \in D
    /\ \A s \in D : /\ \E o \in D : WaitsFor(s, o)
                    /\ \E o \in D : WaitsFor(o, s)

-----------------------------------------------------------------------------
Init ==
  /\ pc = [r \in Runs |-> "idle"]
  /\ session = [r \in Runs |-> "none"]
  /\ rows = [r \in Runs |-> <<>>]
  /\ todo = [r \in Runs |-> {}]
  /\ statement = [r \in Runs |-> {}]
  /\ rowcount = [r \in Runs |-> 0]
  /\ inserted = [r \in Runs |-> 0]
  /\ pending = [r \in Runs |-> {}]
  /\ landed = [k \in Keys |-> NoRun]
  /\ status = [r \in Runs |-> "absent"]
  /\ counts = [r \in Runs |-> NoCounts]

Goto(r, l) == pc' = [pc EXCEPT ![r] = l]

\* Mutant: the rows of a dead transaction stay uncommitted and locked.
RollBackKeepingLocks(r, s) ==
  /\ session' = [session EXCEPT ![r] = s]
  /\ statement' = [statement EXCEPT ![r] = {}]
  /\ rowcount' = [rowcount EXCEPT ![r] = 0]
  /\ UNCHANGED <<pending, landed>>

\* The server forgets the open transaction and keeps, breaks or ends the
\* session.
RollBack(r, s) ==
  /\ session' = [session EXCEPT ![r] = s]
  /\ statement' = [statement EXCEPT ![r] = {}]
  /\ rowcount' = [rowcount EXCEPT ![r] = 0]
  /\ pending' = [pending EXCEPT ![r] = {}]
  /\ UNCHANGED landed

CommitRows(r) ==
  /\ landed' = [k \in Keys |-> IF k \in pending[r] THEN r ELSE landed[k]]
  /\ pending' = [pending EXCEPT ![r] = {}]
  /\ rowcount' = [rowcount EXCEPT ![r] = 0]
  /\ UNCHANGED statement

Record(r, st, c) ==
  /\ status' = [status EXCEPT ![r] = st]
  /\ counts' = [counts EXCEPT ![r] = c]

-----------------------------------------------------------------------------
(* start_run: the run row is committed before the API is called.           *)

StartRun(r) ==
  /\ pc[r] = "idle"
  /\ session' = [session EXCEPT ![r] = "open"]
  /\ Record(r, "running", NoCounts)
  /\ Goto(r, "fetching")
  /\ UNCHANGED <<rows, todo, statement, rowcount, inserted, pending, landed>>

\* No connection, or the INSERT fails: nothing is recorded.
StartFails(r) ==
  /\ "connection" \in Faults
  /\ pc[r] = "idle"
  /\ Goto(r, "raised")
  /\ UNCHANGED <<rows, todo, inserted, server, ledger>>

\* The commit succeeds and its reply is lost.  start_run is called outside
\* the try block, so nothing finalises the row.
StartReplyLost(r) ==
  /\ "connection" \in Faults
  /\ pc[r] = "idle"
  /\ session' = [session EXCEPT ![r] = "closed"]
  /\ Record(r, "running", NoCounts)
  /\ Goto(r, "raised")
  /\ UNCHANGED <<rows, todo, statement, rowcount, inserted, pending, landed>>

-----------------------------------------------------------------------------
(* fetch_states, parse_states, deduplicate.                                *)

\* Nothing to insert: insert_state_vectors returns 0 before it opens a
\* transaction.
Fetch(r) ==
  /\ pc[r] = "fetching"
  /\ \E s \in Snapshots :
       /\ rows' = [rows EXCEPT ![r] = s]
       /\ todo' = [todo EXCEPT ![r] = Unique(s)]
       /\ Goto(r, IF Unique(s) = {} THEN "finishing" ELSE "inserting")
  /\ UNCHANGED <<inserted, server, ledger>>

\* Any OpenSkyError, and any exception of the parser other than ParseError.
FetchFails(r) ==
  /\ "api" \in Faults
  /\ pc[r] = "fetching"
  /\ Goto(r, "failing")
  /\ UNCHANGED <<rows, todo, inserted, server, ledger>>

-----------------------------------------------------------------------------
(* insert_state_vectors: one transaction, one statement per batch.         *)

\* Mutant: a transaction per batch, the one before committed first.
ExecuteCommittingBatches(r) ==
  /\ InTransaction(r)
  /\ statement[r] = {}
  /\ todo[r] # {}
  /\ inserted' = [inserted EXCEPT ![r] = @ + rowcount[r]]
  /\ rowcount' = [rowcount EXCEPT ![r] = 0]
  /\ landed' = [k \in Keys |-> IF k \in pending[r] THEN r ELSE landed[k]]
  /\ pending' = [pending EXCEPT ![r] = {}]
  /\ statement' = [statement EXCEPT ![r] = Batch(todo[r])]
  /\ todo' = [todo EXCEPT ![r] = @ \ Batch(todo[r])]
  /\ UNCHANGED <<pc, session, rows, ledger>>

\* cur.execute: the rowcount of the statement before is already added.
Execute(r) ==
  /\ InTransaction(r)
  /\ statement[r] = {}
  /\ todo[r] # {}
  /\ inserted' = [inserted EXCEPT ![r] = @ + rowcount[r]]
  /\ rowcount' = [rowcount EXCEPT ![r] = 0]
  /\ statement' = [statement EXCEPT ![r] = Batch(todo[r])]
  /\ todo' = [todo EXCEPT ![r] = @ \ Batch(todo[r])]
  /\ UNCHANGED <<pc, session, rows, pending, landed, ledger>>

\* Mutant: an "is it there?" check in place of the unique constraint.
InsertUnlocked(r) ==
  /\ \E i \in statement[r] :
       LET k == rows[r][i] IN
       /\ IsNext(r, i)
       /\ k \notin Refused
       /\ k \notin Landed
       /\ pending' = [pending EXCEPT ![r] = @ \cup {k}]
       /\ statement' = [statement EXCEPT ![r] = @ \ {i}]
  /\ rowcount' = [rowcount EXCEPT ![r] = @ + 1]
  /\ UNCHANGED <<client, session, landed, ledger>>

\* The server inserts a row whose key nobody holds.  It goes on with the
\* statement even when its client is gone.
InsertRow(r) ==
  /\ \E i \in statement[r] :
       LET k == rows[r][i] IN
       /\ IsNext(r, i)
       /\ k \notin Refused
       /\ k \notin Landed
       /\ \A o \in Runs : k \notin pending[o]
       /\ pending' = [pending EXCEPT ![r] = @ \cup {k}]
       /\ statement' = [statement EXCEPT ![r] = @ \ {i}]
  /\ rowcount' = [rowcount EXCEPT ![r] = @ + 1]
  /\ UNCHANGED <<client, session, landed, ledger>>

\* Mutant: ON CONFLICT ... DO UPDATE of the whole row.
SkipRowUpdating(r) ==
  /\ \E i \in statement[r] :
       LET k == rows[r][i] IN
       /\ IsNext(r, i)
       /\ k \notin Refused
       /\ k \in Landed \cup pending[r]
       /\ statement' = [statement EXCEPT ![r] = @ \ {i}]
       /\ pending' = [pending EXCEPT ![r] = @ \cup {k}]
  /\ rowcount' = [rowcount EXCEPT ![r] = @ + 1]
  /\ UNCHANGED <<client, session, landed, ledger>>

\* ON CONFLICT (icao24, observed_at) DO NOTHING.
SkipRow(r) ==
  /\ \E i \in statement[r] :
       LET k == rows[r][i] IN
       /\ IsNext(r, i)
       /\ k \notin Refused
       /\ k \in Landed \cup pending[r]
       /\ statement' = [statement EXCEPT ![r] = @ \ {i}]
  /\ UNCHANGED <<client, session, rowcount, pending, landed, ledger>>

\* Mutant: the loader starts the load again on any database error.
AbortAndRetry(r) ==
  /\ RollBack(r, IF session[r] = "open" THEN "open" ELSE "closed")
  /\ IF InTransaction(r)
       THEN /\ todo' = [todo EXCEPT ![r] = Unique(rows[r])]
            /\ inserted' = [inserted EXCEPT ![r] = 0]
       ELSE UNCHANGED <<todo, inserted>>
  /\ UNCHANGED <<pc, rows, ledger>>

\* The server aborts the statement and with it the transaction; the client,
\* if there still is one, gets the error as an exception.
AbortStatement(r) ==
  /\ RollBack(r, IF session[r] = "open" THEN "open" ELSE "closed")
  /\ IF InTransaction(r) THEN Goto(r, "failing") ELSE UNCHANGED pc
  /\ UNCHANGED <<rows, todo, inserted, ledger>>

RowRefused(r) ==
  /\ \E i \in statement[r] : IsNext(r, i) /\ rows[r][i] \in Refused
  /\ AbortStatement(r)

DeadlockVictim(r) ==
  /\ Deadlocked(r)
  /\ AbortStatement(r)

LoadIsSent(r) == InTransaction(r) /\ statement[r] = {} /\ todo[r] = {}

\* Any other error of an INSERT, or of the COMMIT.
StatementFails(r) ==
  /\ "statement" \in Faults
  /\ statement[r] # {} \/ LoadIsSent(r)
  /\ AbortStatement(r)

CommitLoad(r) ==
  /\ LoadIsSent(r)
  /\ inserted' = [inserted EXCEPT ![r] = @ + rowcount[r]]
  /\ CommitRows(r)
  /\ Goto(r, "finishing")
  /\ UNCHANGED <<session, rows, todo, ledger>>

\* The rows are committed and the reply is lost: insert_state_vectors raises.
CommitReplyLost(r) ==
  /\ "connection" \in Faults
  /\ LoadIsSent(r)
  /\ CommitRows(r)
  /\ session' = [session EXCEPT ![r] = "closed"]
  /\ Goto(r, "failing")
  /\ UNCHANGED <<rows, todo, inserted, ledger>>

-----------------------------------------------------------------------------
(* finish_run, and the handler that calls it a second time.                *)

\* Mutant: duplicates counted against the rows received, the repeats of the
\* snapshot twice.
FinalCountsTwice(r) ==
  LET alreadyPresent == Cardinality(Valid(rows[r])) - inserted[r] IN
  [received  |-> Len(rows[r]),
   rejected  |-> Cardinality(Rejected(rows[r])),
   inserted  |-> inserted[r],
   duplicate |-> alreadyPresent + Cardinality(Repeats(rows[r]))]

\* Mutant: rows sent in place of rows inserted.
FinalCountsAttempted(r) ==
  [received  |-> Len(rows[r]),
   rejected  |-> Cardinality(Rejected(rows[r])),
   inserted  |-> Cardinality(Unique(rows[r])),
   duplicate |-> Cardinality(Repeats(rows[r]))]

FinalCounts(r) ==
  LET alreadyPresent == Cardinality(Unique(rows[r])) - inserted[r] IN
  [received  |-> Len(rows[r]),
   rejected  |-> Cardinality(Rejected(rows[r])),
   inserted  |-> inserted[r],
   duplicate |-> alreadyPresent + Cardinality(Repeats(rows[r]))]

FinishSucceeded(r) ==
  /\ pc[r] = "finishing" /\ session[r] = "open"
  /\ Record(r, "succeeded", FinalCounts(r))
  /\ RollBack(r, "closed")
  /\ Goto(r, "done")
  /\ UNCHANGED <<rows, todo, inserted>>

\* The UPDATE to "succeeded" is committed and its reply is lost.
FinishReplyLost(r) ==
  /\ "connection" \in Faults
  /\ pc[r] = "finishing" /\ session[r] = "open"
  /\ Record(r, "succeeded", FinalCounts(r))
  /\ RollBack(r, "closed")
  /\ Goto(r, "failing")
  /\ UNCHANGED <<rows, todo, inserted>>

\* finish_run itself fails on a usable connection.
FinishFails(r) ==
  /\ "finish" \in Faults
  /\ pc[r] \in {"finishing", "failing"} /\ session[r] = "open"
  /\ IF pc[r] = "finishing"
       THEN Goto(r, "failing") /\ UNCHANGED session
       ELSE Goto(r, "raised") /\ session' = [session EXCEPT ![r] = "closed"]
  /\ UNCHANGED <<rows, todo, inserted, statement, rowcount, pending, landed,
                 ledger>>

\* Mutant: the handler reconnects to record the failure.
FinishFailedAnew(r) ==
  /\ pc[r] = "failing"
  /\ Record(r, "failed", NoCounts)
  /\ RollBack(r, "closed")
  /\ Goto(r, "raised")
  /\ UNCHANGED <<rows, todo, inserted>>

\* except Exception: every column of the run is written, the counts as NULL.
FinishFailed(r) ==
  /\ pc[r] = "failing" /\ session[r] = "open"
  /\ Record(r, "failed", NoCounts)
  /\ RollBack(r, "closed")
  /\ Goto(r, "raised")
  /\ UNCHANGED <<rows, todo, inserted>>

-----------------------------------------------------------------------------
(* The environment.                                                        *)

LoseConnection(r) ==
  /\ "connection" \in Faults
  /\ session[r] = "open"
  /\ session' = [session EXCEPT ![r] = "broken"]
  /\ UNCHANGED <<client, statement, rowcount, pending, landed, ledger>>

\* The next use of a lost connection raises; the handler's own finish_run
\* raises too, and then the run stays as it was recorded.
NoticeLostConnection(r) ==
  /\ session[r] \in {"broken", "closed"}
  /\ \/ pc[r] \in {"inserting", "finishing"} /\ Goto(r, "failing")
     \/ pc[r] = "failing" /\ Goto(r, "raised")
  /\ UNCHANGED <<rows, todo, inserted, server, ledger>>

\* The process is killed, or a BaseException (KeyboardInterrupt, Airflow's
\* task timeout) passes the handler: no finish_run.
Crash(r) ==
  /\ "crash" \in Faults
  /\ pc[r] \in {"fetching", "inserting", "finishing", "failing"}
  /\ Goto(r, "dead")
  /\ session' = [session EXCEPT ![r] = IF @ = "open" THEN "broken" ELSE @]
  /\ UNCHANGED <<rows, todo, inserted, statement, rowcount, pending, landed,
                 ledger>>

\* The server finds out that the client is gone once no statement runs.
SessionEnds(r) ==
  /\ session[r] = "broken"
  /\ statement[r] = {}
  /\ RollBack(r, "closed")
  /\ UNCHANGED <<client, ledger>>

-----------------------------------------------------------------------------
ServerStep(r) ==
  \/ InsertRow(r) \/ SkipRow(r) \/ RowRefused(r) \/ DeadlockVictim(r)
  \/ SessionEnds(r)

ClientStep(r) ==
  \/ StartRun(r)
  \/ Fetch(r)
  \/ Execute(r) \/ CommitLoad(r)
  \/ FinishSucceeded(r) \/ FinishFailed(r)
  \/ NoticeLostConnection(r)

Fault(r) ==
  \/ StartFails(r) \/ StartReplyLost(r)
  \/ FetchFails(r)
  \/ StatementFails(r) \/ CommitReplyLost(r)
  \/ FinishReplyLost(r) \/ FinishFails(r)
  \/ LoseConnection(r) \/ Crash(r)

Next == \E r \in Runs : ServerStep(r) \/ ClientStep(r) \/ Fault(r)

Spec == Init /\ [][Next]_vars

\* A process that has started keeps taking steps, or dies; the server keeps
\* working and detects deadlocks.  Nothing obliges a run to start.
Fairness ==
  \A r \in Runs :
    /\ WF_vars(ServerStep(r))
    /\ WF_vars(pc[r] # "idle" /\ ClientStep(r))

FairSpec == Spec /\ Fairness

-----------------------------------------------------------------------------
Places == {"idle", "fetching", "inserting", "finishing", "failing", "done",
           "raised", "dead"}
Ended == {"done", "raised", "dead"}

TypeOK ==
  /\ pc \in [Runs -> Places]
  /\ session \in [Runs -> {"none", "open", "broken", "closed"}]
  /\ rows \in [Runs -> Seq(Keys \cup {Malformed})]
  /\ todo \in [Runs -> SUBSET Nat]
  /\ statement \in [Runs -> SUBSET Nat]
  /\ rowcount \in [Runs -> Nat]
  /\ inserted \in [Runs -> Nat]
  /\ pending \in [Runs -> SUBSET Keys]
  /\ landed \in [Keys -> Runs \cup {NoRun}]
  /\ status \in [Runs -> {"absent", "running", "succeeded", "failed"}]
  /\ counts \in [Runs -> Counts \cup {NoCounts}]

\* A run recorded as succeeded accounts for every row it received, and the
\* rows it says it inserted are exactly the rows that name it as their run
\* (ingestion/run.py: already_present, duplicates, finish_run).
LedgerBalances ==
  \A r \in Runs : status[r] = "succeeded" =>
    /\ counts[r].received = counts[r].rejected + counts[r].inserted
                              + counts[r].duplicate
    /\ counts[r].inserted = Cardinality(Owned(r))

\* A load is all or nothing: once one of its rows is landed, or the run is
\* recorded as succeeded, every key of its snapshot is landed, by this run
\* or by the one that came first (one transaction around all batches).
LoadIsAllOrNothing ==
  \A r \in Runs : (Owned(r) # {} \/ status[r] = "succeeded") =>
    KeysOf(rows[r]) \subseteq Landed

\* Whichever sessions are open, a key has at most one uncommitted inserter
\* and none once it is landed: the constraint cannot be raced.
OneInserterPerKey ==
  \A r \in Runs : \A k \in pending[r] :
    /\ k \notin Landed
    /\ \A o \in Runs \ {r} : k \notin pending[o]

\* A run recorded as failed has landed nothing, so its NULL counts hide
\* nothing - unless finish_run itself fails after the rows are committed
\* ("finish"): a lost COMMIT reply takes the connection with it, and the run
\* stays "running" for the stuck-run check to find.
FailedRunLandsNothing ==
  "finish" \notin Faults =>
    \A r \in Runs : status[r] = "failed" => Owned(r) = {}

\* Re-ingesting is a no-op however many workers do it concurrently
\* (ingestion/loader.py:3-7): when nothing fails around it, no run fails for
\* having met another.
OverlapIsHarmless ==
  Faults = {} => \A r \in Runs : status[r] # "failed"

\* A landed row is never rewritten nor removed: the run that first observed
\* it stays its run, however many runs meet the key again.
ProvenanceStands ==
  [][\A k \in Keys : landed[k] # NoRun => landed'[k] = landed[k]]_vars

\* The outcome of a run is written once: a lost reply makes the handler call
\* finish_run a second time, and that call must not turn "succeeded" into
\* "failed".
OutcomeStands ==
  [][\A r \in Runs : status[r] \in {"succeeded", "failed"} =>
       status'[r] = status[r] /\ counts'[r] = counts[r]]_vars

\* Every execution that records a run comes to an end, whatever locks the
\* others hold: waits on the unique index end by commit, by rollback or by
\* the deadlock detector.
EveryRunEnds ==
  \A r \in Runs : pc[r] = "fetching" ~> pc[r] \in Ended

\* A key some transaction has inserted but not committed is not held for
\* ever, even when the process that inserted it was killed.
NoKeyStaysLocked ==
  \A k \in Keys : (\E r \in Runs : k \in pending[r])
                    ~> (\A r \in Runs : k \notin pending[r])

-----------------------------------------------------------------------------
(* Why every execution ends, as far as it can be said without fairness: no *)
(* group of sessions waits for itself alone, and no step goes back.        *)

\* r has something to do, or keeps others from doing it.
Working(r) ==
  pc[r] \notin {"idle"} \cup Ended \/ pending[r] # {} \/ statement[r] # {}

\* A step of r's client or of its server is possible: the guards of
\* ClientStep(r), but for StartRun, and of ServerStep(r).
CanStep(r) ==
  \/ pc[r] \in {"fetching", "finishing", "failing"}
  \/ pc[r] = "inserting" /\ (statement[r] = {} \/ session[r] # "open")
  \/ \E i \in statement[r] :
       /\ IsNext(r, i)
       /\ \A o \in Runs \ {r} : rows[r][i] \notin pending[o]
  \/ Deadlocked(r)
  \/ session[r] = "broken" /\ statement[r] = {}

\* Runs that wait for nobody outside are not stuck: one of them can step,
\* if only as the victim of the deadlock detector.
NoGroupIsStuck ==
  \A W \in SUBSET Runs :
    /\ W # {}
    /\ \A r \in W : Working(r) /\ \A o \in Runs : WaitsFor(r, o) => o \in W
    => \E r \in W : CanStep(r)

\* How far an execution is from its end: where its client stands, then what
\* its session is, then the rows it has still to send and to insert.
PlaceRank(place) ==
  CASE place = "idle" -> 5
    [] place = "fetching" -> 4
    [] place = "inserting" -> 3
    [] place = "finishing" -> 2
    [] place = "failing" -> 1
    [] place \in Ended -> 0

SessionRank(state) ==
  CASE state = "none" -> 3
    [] state = "open" -> 2
    [] state = "broken" -> 1
    [] state = "closed" -> 0

Rank(r) == 4 * PlaceRank(pc[r]) + SessionRank(session[r])

Left(r) == 2 * Cardinality(todo[r]) + Cardinality(statement[r])

\* Every step, faults included, brings one execution nearer to its end and
\* takes no other one back: no retry, no statement sent twice.
StepsLeadOn ==
  [][\E r \in Runs :
       /\ Rank(r)' < Rank(r) \/ (Rank(r)' = Rank(r) /\ Left(r)' < Left(r))
       /\ \A o \in Runs \ {r} : Rank(o)' = Rank(o) /\ Left(o)' = Left(o)]_vars
-----------------------------------------------------------------------------
(* The inductive invariant behind the properties above.                    *)

\* What a session may hold, given where its client stands.
SessionInv ==
  \A r \in Runs :
    /\ statement[r] \cup todo[r] \subseteq Unique(rows[r])
    /\ pending[r] \subseteq KeysOf(rows[r])
    /\ session[r] \in {"none", "closed"} => statement[r] = {} /\ pending[r] = {}
    /\ pc[r] \in {"idle", "fetching", "finishing", "done"} =>
         statement[r] = {} /\ pending[r] = {}
    /\ pc[r] # "inserting" /\ session[r] = "open" =>
         statement[r] = {} /\ pending[r] = {}
    /\ pc[r] \in {"idle", "fetching"} => inserted[r] = 0 /\ rowcount[r] = 0

\* Inside the transaction: rows dealt with are pending or landed, and the
\* count kept by the client is the number of rows pending.
ProgressInv ==
  \A r \in Runs : InTransaction(r) =>
    /\ \A i \in Unique(rows[r]) \ (statement[r] \cup todo[r]) :
         rows[r][i] \in pending[r] \cup Landed
    /\ inserted[r] + rowcount[r] = Cardinality(pending[r])

\* Where the client stands and what its run owns.
OwnerInv ==
  \A r \in Runs :
    /\ pc[r] \in {"idle", "fetching", "inserting"} => Owned(r) = {}
    /\ pc[r] = "finishing" => /\ inserted[r] = Cardinality(Owned(r))
                              /\ KeysOf(rows[r]) \subseteq Landed
    /\ "finish" \notin Faults /\ pc[r] = "failing" /\ session[r] = "open" =>
         Owned(r) = {}

\* Where the client stands and what its run's row says.
StatusInv ==
  \A r \in Runs :
    /\ pc[r] = "idle" => status[r] = "absent"
    /\ pc[r] \in {"fetching", "inserting", "finishing"} => status[r] = "running"
    /\ pc[r] = "failing" /\ session[r] = "open" => status[r] = "running"
    /\ status[r] # "succeeded" => counts[r] = NoCounts
    /\ status[r] = "succeeded" => /\ counts[r] = FinalCounts(r)
                                  /\ inserted[r] = Cardinality(Owned(r))

\* A client that has started once had a connection.
ConnectedInv ==
  \A r \in Runs : session[r] = "none" => pc[r] \in {"idle", "raised"}

IInv ==
  /\ TypeOK
  /\ SessionInv
  /\ OneInserterPerKey
  /\ ProgressInv
  /\ OwnerInv
  /\ StatusInv
  /\ LoadIsAllOrNothing
  /\ FailedRunLandsNothing
=============================================================================
