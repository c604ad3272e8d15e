------------------------------ MODULE Migrations ------------------------------
(***************************************************************************)
(* ingestion.db.apply_migrations, run by any number of runners at once     *)
(* (the airspace_migrate DAG and `python -m ingestion.run --migrate`)      *)
(* against one database, while the files of db/migrations are edited.      *)
(*                                                                         *)
(* A file is a number, its place in filename order; its content, and so    *)
(* its checksum, is a version, 0 for a file that is not there.  Each file  *)
(* is applied in one transaction with its row of raw.schema_migrations,    *)
(* whose primary key makes a second inserter wait for the first.           *)
(***************************************************************************)
EXTENDS Integers, FiniteSets

CONSTANTS
  Runners,      \* executions of apply_migrations
  Files,        \* filenames, as their places in the sorted directory
  MaxVersion    \* bound: contents a file may have, by edits and reverts

ASSUME FilesAssumption == Files \subseteq Nat /\ IsFiniteSet(Files)
ASSUME VersionAssumption == MaxVersion \in Nat \ {0}

Versions == 1..MaxVersion

VARIABLES
  body,       \* version of each file in the directory, 0 when absent
  ledger,     \* raw.schema_migrations: checksum recorded for each file, or 0
  ran,        \* how many times the SQL of each file has been committed
  pc,
  known,      \* the local already_applied
  onDisk,     \* the directory as discover_migrations listed it (history)
  todo,       \* files the loop has still to visit
  read,       \* the version of each file the loop has read, 0 before
  applied     \* the local `applied`

vars == <<body, ledger, ran, pc, known, onDisk, todo, read, applied>>
database == <<ledger, ran>>
locals == <<known, onDisk, todo, read, applied>>

Nothing == [f \in Files |-> 0]

Init ==
  /\ body \in [Files -> {0, 1}]
  /\ ledger = Nothing
  /\ ran = Nothing
  /\ pc = [r \in Runners |-> "idle"]
  /\ known = [r \in Runners |-> Nothing]
  /\ onDisk = [r \in Runners |-> Nothing]
  /\ todo = [r \in Runners |-> {}]
  /\ read = [r \in Runners |-> Nothing]
  /\ applied = [r \in Runners |-> {}]

Goto(r, l) == pc' = [pc EXCEPT ![r] = l]

-----------------------------------------------------------------------------
(* The directory: a file is added, edited, or reverted.                    *)

Edit(f) ==
  /\ \E v \in Versions \ {body[f]} : body' = [body EXCEPT ![f] = v]
  /\ UNCHANGED <<database, pc, locals>>

-----------------------------------------------------------------------------
(* apply_migrations.                                                       *)

\* The bookkeeping transaction, committed before the loop.
ReadLedger(r) ==
  /\ pc[r] = "idle"
  /\ known' = [known EXCEPT ![r] = ledger]
  /\ Goto(r, "discovering")
  /\ UNCHANGED <<body, database, onDisk, todo, read, applied>>

Discover(r) ==
  /\ pc[r] = "discovering"
  /\ onDisk' = [onDisk EXCEPT ![r] = body]
  /\ todo' = [todo EXCEPT ![r] = {f \in Files : body[f] # 0}]
  /\ Goto(r, "looping")
  /\ UNCHANGED <<body, database, known, read, applied>>

\* The file whose turn it is.
IsNext(r, f) == f \in todo[r] /\ \A g \in todo[r] : f <= g

\* Mutant: a recorded file is skipped whatever it says now.
SkipUnchecked(r, f) ==
  /\ pc[r] = "looping" /\ IsNext(r, f)
  /\ known[r][f] # 0
  /\ read' = [read EXCEPT ![r][f] = body[f]]
  /\ todo' = [todo EXCEPT ![r] = @ \ {f}]
  /\ UNCHANGED <<body, database, pc, known, onDisk, applied>>

\* Read the file and compare its checksum with the recorded one.
Skip(r, f) ==
  /\ pc[r] = "looping" /\ IsNext(r, f)
  /\ known[r][f] = body[f]
  /\ read' = [read EXCEPT ![r][f] = body[f]]
  /\ todo' = [todo EXCEPT ![r] = @ \ {f}]
  /\ UNCHANGED <<body, database, pc, known, onDisk, applied>>

Refuse(r, f) ==
  /\ pc[r] = "looping" /\ IsNext(r, f)
  /\ known[r][f] # 0 /\ known[r][f] # body[f]
  /\ read' = [read EXCEPT ![r][f] = body[f]]
  /\ Goto(r, "refused")
  /\ UNCHANGED <<body, database, known, onDisk, todo, applied>>

\* A new transaction executes the file's SQL.
Execute(r, f) ==
  /\ pc[r] = "looping" /\ IsNext(r, f)
  /\ known[r][f] = 0
  /\ read' = [read EXCEPT ![r][f] = body[f]]
  /\ Goto(r, "applying")
  /\ UNCHANGED <<body, database, known, onDisk, todo, applied>>

\* Mutant: a bookkeeping table without its primary key.
RecordUnchecked(r, f) ==
  /\ pc[r] = "applying" /\ IsNext(r, f)
  /\ Goto(r, "recording")
  /\ UNCHANGED <<body, database, locals>>

\* The same transaction inserts the bookkeeping row, after whoever holds
\* that row uncommitted.
Record(r, f) ==
  /\ pc[r] = "applying" /\ IsNext(r, f)
  /\ ledger[f] = 0
  /\ \A o \in Runners : ~(pc[o] = "recording" /\ IsNext(o, f))
  /\ Goto(r, "recording")
  /\ UNCHANGED <<body, database, locals>>

\* The row is there already: unique_violation, MigrationError, rollback.
Conflict(r, f) ==
  /\ pc[r] = "applying" /\ IsNext(r, f)
  /\ ledger[f] # 0
  /\ Goto(r, "failed")
  /\ UNCHANGED <<body, database, locals>>

\* Mutant: the transaction is a savepoint of one that nobody has committed.
CommitSavepoint(r, f) ==
  /\ pc[r] = "recording" /\ IsNext(r, f)
  /\ applied' = [applied EXCEPT ![r] = @ \cup {f}]
  /\ todo' = [todo EXCEPT ![r] = @ \ {f}]
  /\ Goto(r, "looping")
  /\ UNCHANGED <<body, database, known, onDisk, read>>

Commit(r, f) ==
  /\ pc[r] = "recording" /\ IsNext(r, f)
  /\ ledger' = [ledger EXCEPT ![f] = read[r][f]]
  /\ ran' = [ran EXCEPT ![f] = @ + 1]
  /\ applied' = [applied EXCEPT ![r] = @ \cup {f}]
  /\ todo' = [todo EXCEPT ![r] = @ \ {f}]
  /\ Goto(r, "looping")
  /\ UNCHANGED <<body, known, onDisk, read>>

\* Committed, but the runner gets an error for it.
CommitReplyLost(r, f) ==
  /\ pc[r] = "recording" /\ IsNext(r, f)
  /\ ledger' = [ledger EXCEPT ![f] = read[r][f]]
  /\ ran' = [ran EXCEPT ![f] = @ + 1]
  /\ Goto(r, "failed")
  /\ UNCHANGED <<body, locals>>

Running == {"discovering", "looping", "applying", "recording"}

\* Mutant: the runner swallows an error and goes on with the next file.
StopsGoingOn(r) ==
  /\ pc[r] \in Running
  /\ IF pc[r] \in {"applying", "recording"}
       THEN /\ todo' = [todo EXCEPT ![r] = {f \in @ : ~IsNext(r, f)}]
            /\ Goto(r, "looping")
       ELSE Goto(r, "failed") /\ UNCHANGED todo
  /\ UNCHANGED <<body, database, known, onDisk, read, applied>>

\* An error of the SQL or of the connection, or a kill: the open transaction
\* is rolled back.
Stops(r) ==
  /\ pc[r] \in Running
  /\ Goto(r, "failed")
  /\ UNCHANGED <<body, database, locals>>

Done(r) ==
  /\ pc[r] = "looping" /\ todo[r] = {}
  /\ Goto(r, "done")
  /\ UNCHANGED <<body, database, locals>>

\* What a runner does on its own.
Runs(r) ==
  \/ ReadLedger(r) \/ Discover(r) \/ Done(r)
  \/ \E f \in Files :
       Skip(r, f) \/ Refuse(r, f) \/ Execute(r, f) \/ Record(r, f)
         \/ Conflict(r, f) \/ Commit(r, f)

Fault(r) == Stops(r) \/ \E f \in Files : CommitReplyLost(r, f)

Next ==
  \/ \E f \in Files : Edit(f)
  \/ \E r \in Runners : Runs(r) \/ Fault(r)

Spec == Init /\ [][Next]_vars

-----------------------------------------------------------------------------
TypeOK ==
  /\ body \in [Files -> Nat]
  /\ ledger \in [Files -> Nat]
  /\ ran \in [Files -> Nat]
  /\ pc \in [Runners -> {"idle", "refused", "failed", "done"} \cup Running]
  /\ known \in [Runners -> [Files -> Nat]]
  /\ onDisk \in [Runners -> [Files -> Nat]]
  /\ todo \in [Runners -> SUBSET Files]
  /\ read \in [Runners -> [Files -> Nat]]
  /\ applied \in [Runners -> SUBSET Files]

\* The SQL of a file is committed exactly once, and exactly when the ledger
\* says so, however many runners try and wherever one of them stops.
BodyRunsOnce == \A f \in Files : ran[f] = IF ledger[f] = 0 THEN 0 ELSE 1

\* What a run has reported as applied stays applied when the run fails later
\* (ingestion/db.py: "a failure in migration N would roll back migrations
\* 1..N-1 that had appeared to succeed").
AppliedIsDurable == \A r \in Runners : \A f \in applied[r] : ledger[f] # 0

\* A file is recorded only after every file before it in the directory its
\* runner listed: a failure leaves no gap.
NoGap ==
  [][\A f \in Files : ledger[f] = 0 /\ ledger'[f] # 0 =>
       \E r \in Runners :
         /\ onDisk[r][f] # 0
         /\ \A g \in Files : g < f /\ onDisk[r][g] # 0 => ledger[g] # 0]_vars

\* A recorded checksum is never overwritten.
LedgerStands ==
  [][\A f \in Files : ledger[f] # 0 => ledger'[f] = ledger[f]]_vars

\* A run that succeeds has found, in every file it listed, what the database
\* was built from.
SuccessMeansInStep ==
  \A r \in Runners : pc[r] = "done" =>
    \A f \in Files : onDisk[r][f] # 0 =>
      ledger[f] # 0 /\ ledger[f] = read[r][f]

\* A run that meets an edited file applies nothing after it: before whatever
\* it has applied it found every listed file as recorded, however the run
\* ends.  What comes before the edited file is applied all the same
\* (docs/failure-modes.md:106-111, ingestion/db.py:85-96).
EditStopsTheRest ==
  \A r \in Runners : \A f \in applied[r] : \A g \in Files :
    g < f /\ onDisk[r][g] # 0 => ledger[g] # 0 /\ read[r][g] = ledger[g]

\* The loop takes the files in order and leaves none behind it out of step.
LoopInv ==
  \A r \in Runners : \A f \in Files :
    /\ pc[r] \in {"idle", "discovering"} =>
         onDisk[r][f] = 0 /\ f \notin applied[r]
    /\ f \in applied[r] => onDisk[r][f] # 0 /\ f \notin todo[r]
    /\ onDisk[r][f] # 0 /\ f \notin todo[r] =>
         ledger[f] # 0 /\ read[r][f] = ledger[f]
    /\ \A g \in Files :
         g < f /\ g \in todo[r] /\ onDisk[r][f] # 0 => f \in todo[r]

\* The inductive invariant behind the properties above.
MigrationInv ==
  /\ TypeOK
  /\ BodyRunsOnce
  /\ AppliedIsDurable
  /\ \A f \in Files : body[f] \in 0..MaxVersion
  /\ \A r \in Runners : \A f \in Files :
       \* What a runner knows of the ledger is old, and still true.
       /\ known[r][f] # 0 => known[r][f] = ledger[f]
       /\ f \in todo[r] => onDisk[r][f] # 0
       /\ onDisk[r][f] # 0 => body[f] # 0
       /\ pc[r] \in {"looping", "applying", "recording", "done"}
            /\ onDisk[r][f] # 0 /\ f \notin todo[r] =>
              ledger[f] # 0 /\ ledger[f] = read[r][f]
       /\ pc[r] \in {"applying", "recording"} /\ IsNext(r, f) =>
              read[r][f] # 0
       /\ pc[r] = "recording" /\ IsNext(r, f) =>
            /\ ledger[f] = 0
            /\ \A o \in Runners \ {r} : ~(pc[o] = "recording" /\ IsNext(o, f))
  /\ \A r \in Runners : pc[r] = "done" => todo[r] = {}
\* The row a runner waits for is held, uncommitted, by another one.
WaitsFor(r, o) ==
  \E f \in Files : /\ pc[r] = "applying" /\ IsNext(r, f)
                   /\ pc[o] = "recording" /\ IsNext(o, f)

\* A runner that has begun can go on: the guards of Runs(r), but for
\* ReadLedger.
CanStep(r) ==
  \/ pc[r] = "discovering"
  \/ pc[r] = "looping" /\ todo[r] = {}
  \/ \E f \in Files :
       /\ IsNext(r, f)
       /\ \/ pc[r] = "looping" /\ known[r][f] \in {0, body[f]}
          \/ pc[r] = "looping" /\ known[r][f] # 0 /\ known[r][f] # body[f]
          \/ pc[r] = "applying" /\ ledger[f] # 0
          \/ pc[r] = "applying" /\ \A o \in Runners : ~WaitsFor(r, o)
          \/ pc[r] = "recording"

\* No queue of runners: a runner can go on, or waits for one that can.
RunnersGoOn ==
  \A r \in Runners : pc[r] \in Running =>
    CanStep(r) \/ \E o \in Runners : WaitsFor(r, o) /\ CanStep(o)

\* A runner inside a transaction has a file to work on.
InsideInv ==
  \A r \in Runners : pc[r] \in {"applying", "recording"} => todo[r] # {}

\* How many steps a runner has before it, at most.
StepsLeft(r) ==
  CASE pc[r] = "idle" -> 3 * Cardinality(Files) + 5
    [] pc[r] = "discovering" -> 3 * Cardinality(Files) + 4
    [] pc[r] = "looping" -> 3 * Cardinality(todo[r]) + 3
    [] pc[r] = "applying" -> 3 * Cardinality(todo[r]) + 2
    [] pc[r] = "recording" -> 3 * Cardinality(todo[r]) + 1
    [] pc[r] \notin {"idle"} \cup Running -> 0

\* Every step of a runner takes it towards its end, and no edit of the
\* directory and no other runner gives it more to do.
RunnersFinish ==
  [][\A r \in Runners :
       /\ StepsLeft(r)' \in 0 .. StepsLeft(r)
       /\ Runs(r) \/ Fault(r) => StepsLeft(r)' < StepsLeft(r)]_vars
=============================================================================
