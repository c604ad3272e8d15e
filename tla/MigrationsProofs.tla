--------------------------- MODULE MigrationsProofs ---------------------------
(***************************************************************************)
(* Proofs about Migrations, for any set of runners and files.              *)
(***************************************************************************)
EXTENDS Migrations, FiniteSetTheorems, WellFoundedInduction, TLAPS

\* At most one file is next.
LEMMA OneIsNext ==
  ASSUME NEW r \in Runners, NEW f \in Files, NEW g \in Files,
         IsNext(r, f), IsNext(r, g)
  PROVE  f = g
  BY FilesAssumption DEF IsNext

\* No runner has started and nothing is recorded.
LEMMA MigrationInit == Init => MigrationInv
<1> SUFFICES ASSUME Init PROVE MigrationInv
  OBVIOUS
<1>1. \A f \in Files : ledger[f] = 0 /\ ran[f] = 0
  BY DEF Init, Nothing
<1>2. \A r \in Runners : pc[r] = "idle" /\ applied[r] = {} /\ todo[r] = {}
  BY DEF Init
<1>3. \A r \in Runners : \A f \in Files : known[r][f] = 0 /\ onDisk[r][f] = 0
  BY DEF Init, Nothing
<1>4. TypeOK
  BY DEF Init, TypeOK, Nothing, Running
<1>5. \A f \in Files : body[f] \in 0..MaxVersion
  BY VersionAssumption DEF Init
<1> QED
  BY <1>1, <1>2, <1>3, <1>4, <1>5
  DEF MigrationInv, BodyRunsOnce, AppliedIsDurable

\* An edit changes no file into an absent one.
LEMMA EditInv ==
  ASSUME MigrationInv, NEW f \in Files, Edit(f)
  PROVE  MigrationInv'
<1>1. PICK v \in Versions : body' = [body EXCEPT ![f] = v]
  BY DEF Edit
<1>2. v \in Nat /\ v # 0 /\ v \in 0..MaxVersion
  BY VersionAssumption DEF Versions
<1>3. body' \in [Files -> Nat]
  BY <1>1, <1>2 DEF MigrationInv, TypeOK
<1>4. \A g \in Files : /\ body'[g] \in 0..MaxVersion
                       /\ body[g] # 0 => body'[g] # 0
  BY <1>1, <1>2 DEF MigrationInv, TypeOK
<1>5. UNCHANGED <<ledger, ran, pc, known, onDisk, todo, read, applied>>
  BY DEF Edit, database, locals
<1>6. TypeOK'
  BY <1>3, <1>5 DEF MigrationInv, TypeOK
<1> QED
  BY <1>4, <1>5, <1>6
  DEF MigrationInv, BodyRunsOnce, AppliedIsDurable, IsNext

\* Steps that only read the ledger, the directory or a file.
LEMMA ReadingInv ==
  ASSUME MigrationInv, NEW r \in Runners,
         \/ ReadLedger(r) \/ Discover(r)
         \/ \E f \in Files : Skip(r, f) \/ Refuse(r, f) \/ Execute(r, f)
  PROVE  MigrationInv'
<1> USE DEF MigrationInv, TypeOK, BodyRunsOnce, AppliedIsDurable, Goto,
        database, locals, IsNext, Running
<1>1. CASE ReadLedger(r)
  BY <1>1 DEF ReadLedger
<1>2. CASE Discover(r)
  BY <1>2 DEF Discover
<1>3. ASSUME NEW f \in Files, Skip(r, f) PROVE MigrationInv'
  BY <1>3 DEF Skip
<1>4. ASSUME NEW f \in Files, Refuse(r, f) PROVE MigrationInv'
  BY <1>4 DEF Refuse
<1>5. ASSUME NEW f \in Files, Execute(r, f) PROVE MigrationInv'
  BY <1>5, OneIsNext DEF Execute
<1> QED
  BY <1>1, <1>2, <1>3, <1>4, <1>5

\* Steps of the transaction before it ends, and the ends of a run.
LEMMA WaitingInv ==
  ASSUME MigrationInv, NEW r \in Runners,
         \/ Done(r) \/ Stops(r)
         \/ \E f \in Files : Record(r, f) \/ Conflict(r, f)
  PROVE  MigrationInv'
<1> USE DEF MigrationInv, TypeOK, BodyRunsOnce, AppliedIsDurable, Goto,
        database, locals, Running
<1>1. CASE Done(r)
  BY <1>1 DEF Done, IsNext
<1>2. CASE Stops(r)
  BY <1>2 DEF Stops, IsNext
<1>3. ASSUME NEW f \in Files, Record(r, f) PROVE MigrationInv'
  <2>1. /\ pc' = [pc EXCEPT ![r] = "recording"] /\ pc[r] = "applying"
        /\ IsNext(r, f) /\ ledger[f] = 0
        /\ \A o \in Runners : ~(pc[o] = "recording" /\ IsNext(o, f))
        /\ UNCHANGED <<body, ledger, ran, known, onDisk, todo, read, applied>>
    BY <1>3 DEF Record
  <2>2. \A o \in Runners : \A g \in Files : IsNext(o, g)' <=> IsNext(o, g)
    BY <2>1 DEF IsNext
  <2>3. pc'[r] = "recording" /\ \A o \in Runners \ {r} : pc'[o] = pc[o]
    BY <2>1
  <2>4. \A o \in Runners : \A g \in Files :
          pc'[o] = "recording" /\ IsNext(o, g) =>
            /\ ledger[g] = 0
            /\ \A q \in Runners \ {o} : ~(pc'[q] = "recording" /\ IsNext(q, g))
    BY <2>1, <2>3, OneIsNext
  <2>5. TypeOK'
    BY <2>1
  <2>6. \A o \in Runners : \A g \in Files :
          pc'[o] \in {"applying", "recording"} /\ IsNext(o, g) =>
            read[o][g] # 0
    BY <2>1, <2>3
  <2> QED
    BY <2>1, <2>2, <2>3, <2>4, <2>5, <2>6
<1>4. ASSUME NEW f \in Files, Conflict(r, f) PROVE MigrationInv'
  BY <1>4 DEF Conflict, IsNext
<1> QED
  BY <1>1, <1>2, <1>3, <1>4

\* The transaction commits, whether or not the runner hears of it.
LEMMA CommitInv ==
  ASSUME MigrationInv, NEW r \in Runners, NEW f \in Files,
         Commit(r, f) \/ CommitReplyLost(r, f)
  PROVE  MigrationInv'
<1> USE DEF MigrationInv, TypeOK, BodyRunsOnce, AppliedIsDurable, Goto,
        locals, Running
<1>1. CASE Commit(r, f)
  BY <1>1, OneIsNext DEF Commit, IsNext
<1>2. CASE CommitReplyLost(r, f)
  BY <1>2, OneIsNext DEF CommitReplyLost, IsNext
<1> QED
  BY <1>1, <1>2

\* MigrationInv is inductive.
LEMMA MigrationStep ==
  ASSUME MigrationInv, [Next]_vars
  PROVE  MigrationInv'
<1>1. ASSUME NEW f \in Files, Edit(f) PROVE MigrationInv'
  BY <1>1, EditInv
<1>2. ASSUME NEW r \in Runners, Runs(r) \/ Fault(r) PROVE MigrationInv'
  BY <1>2, ReadingInv, WaitingInv, CommitInv DEF Runs, Fault
<1>3. CASE UNCHANGED vars
  BY <1>3 DEF vars, MigrationInv, TypeOK, BodyRunsOnce, AppliedIsDurable,
     IsNext, Running
<1> QED
  BY <1>1, <1>2, <1>3 DEF Next

\* The inductive invariant holds for every set of runners and files.
THEOREM MigrationInvariance == Spec => []MigrationInv
  BY MigrationInit, MigrationStep, PTL DEF Spec

\* The SQL of each file is committed once, with its bookkeeping row.
THEOREM ExactlyOnce == Spec => []BodyRunsOnce
<1>1. MigrationInv => BodyRunsOnce
  BY DEF MigrationInv
<1> QED
  BY <1>1, MigrationInvariance, PTL

\* A later failure takes back nothing that was reported as applied.
THEOREM Durable == Spec => []AppliedIsDurable
<1>1. MigrationInv => AppliedIsDurable
  BY DEF MigrationInv
<1> QED
  BY <1>1, MigrationInvariance, PTL

\* A successful run leaves database and directory in step.
THEOREM InStep == Spec => []SuccessMeansInStep
<1>1. MigrationInv => SuccessMeansInStep
  BY DEF MigrationInv, SuccessMeansInStep
<1> QED
  BY <1>1, MigrationInvariance, PTL

\* Only a commit writes the ledger, and only where nothing was recorded.
LEMMA WhoRecords ==
  ASSUME MigrationInv, Next, NEW f \in Files, ledger'[f] # ledger[f]
  PROVE  /\ ledger[f] = 0
         /\ \E r \in Runners : /\ pc[r] = "recording"
                               /\ IsNext(r, f)
<1>1. PICK r \in Runners, g \in Files : Commit(r, g) \/ CommitReplyLost(r, g)
  BY DEF Next, Edit, Runs, Fault, ReadLedger, Discover, Done, Skip, Refuse,
     Execute, Record, Conflict, Stops, database
<1>2. pc[r] = "recording" /\ IsNext(r, g)
      /\ ledger' = [ledger EXCEPT ![g] = read[r][g]]
  BY <1>1 DEF Commit, CommitReplyLost
<1>3. f = g
  BY <1>2 DEF MigrationInv, TypeOK
<1> QED
  BY <1>2, <1>3 DEF MigrationInv

\* A recorded checksum is never overwritten.
THEOREM ChecksumsStand == Spec => LedgerStands
<1>1. MigrationInv /\ [Next]_vars =>
        [\A f \in Files : ledger[f] # 0 => ledger'[f] = ledger[f]]_vars
  BY WhoRecords
<1> QED
  BY <1>1, MigrationInvariance, PTL DEF Spec, LedgerStands

\* A file is recorded only after every file before it.
THEOREM InOrder == Spec => NoGap
<1>1. MigrationInv /\ [Next]_vars =>
        [\A f \in Files : ledger[f] = 0 /\ ledger'[f] # 0 =>
           \E r \in Runners :
             /\ onDisk[r][f] # 0
             /\ \A g \in Files :
                  g < f /\ onDisk[r][g] # 0 => ledger[g] # 0]_vars
  <2> SUFFICES ASSUME MigrationInv, Next,
                      NEW f \in Files, ledger[f] = 0, ledger'[f] # 0
               PROVE  \E r \in Runners :
                        /\ onDisk[r][f] # 0
                        /\ \A g \in Files :
                             g < f /\ onDisk[r][g] # 0 => ledger[g] # 0
    OBVIOUS
  <2>1. PICK r \in Runners : pc[r] = "recording" /\ IsNext(r, f)
    BY WhoRecords
  <2>2. onDisk[r][f] # 0
    BY <2>1 DEF MigrationInv, IsNext
  <2>3. ASSUME NEW g \in Files, g < f, onDisk[r][g] # 0
        PROVE  ledger[g] # 0
    <3>1. g \notin todo[r]
      BY <2>1, <2>3, FilesAssumption DEF IsNext
    <3> QED
      BY <2>1, <2>3, <3>1 DEF MigrationInv
  <2> QED
    BY <2>2, <2>3
<1> QED
  BY <1>1, MigrationInvariance, PTL DEF Spec, NoGap

\* The loop goes through the files in order.
LEMMA LoopStep ==
  ASSUME MigrationInv, LoopInv, [Next]_vars
  PROVE  LoopInv'
<1> USE FilesAssumption DEF MigrationInv, TypeOK, LoopInv, Goto, database,
        locals, Running, IsNext
<1>1. ASSUME NEW f \in Files, Edit(f) PROVE LoopInv'
  BY <1>1 DEF Edit
<1>2. ASSUME NEW r \in Runners, ReadLedger(r) \/ Done(r) \/ Stops(r)
      PROVE  LoopInv'
  BY <1>2 DEF ReadLedger, Done, Stops
<1>3. ASSUME NEW r \in Runners, Discover(r) PROVE LoopInv'
  BY <1>3 DEF Discover
<1>4. ASSUME NEW r \in Runners, NEW f \in Files, Skip(r, f) PROVE LoopInv'
  BY <1>4 DEF Skip
<1>5. ASSUME NEW r \in Runners, NEW f \in Files, Refuse(r, f) \/ Execute(r, f)
      PROVE  LoopInv'
  BY <1>5 DEF Refuse, Execute
<1>6. ASSUME NEW r \in Runners, NEW f \in Files,
             Record(r, f) \/ Conflict(r, f)
      PROVE  LoopInv'
  BY <1>6 DEF Record, Conflict
<1>7. ASSUME NEW r \in Runners, NEW f \in Files, Commit(r, f)
      PROVE  LoopInv'
  BY <1>7 DEF Commit
<1>8. ASSUME NEW r \in Runners, NEW f \in Files, CommitReplyLost(r, f)
      PROVE  LoopInv'
  BY <1>8 DEF CommitReplyLost
<1>9. CASE UNCHANGED vars
  BY <1>9 DEF vars
<1> QED
  BY <1>1, <1>2, <1>3, <1>4, <1>5, <1>6, <1>7, <1>8, <1>9
  DEF Next, Runs, Fault

\* A run that meets an edited file applies nothing after it.
THEOREM EditStops == Spec => []EditStopsTheRest
<1>1. Init => LoopInv
  BY DEF Init, LoopInv, Nothing
<1>2. MigrationInv /\ LoopInv => EditStopsTheRest
  <2> SUFFICES ASSUME MigrationInv, LoopInv, NEW r \in Runners,
                      NEW f \in applied[r], NEW g \in Files, g < f,
                      onDisk[r][g] # 0
               PROVE  ledger[g] # 0 /\ read[r][g] = ledger[g]
    BY DEF EditStopsTheRest
  <2>1. f \in Files /\ onDisk[r][f] # 0 /\ f \notin todo[r]
    BY DEF MigrationInv, TypeOK, LoopInv
  <2>. QED
    BY <2>1 DEF LoopInv
<1> QED
  BY <1>1, <1>2, LoopStep, MigrationInvariance, PTL DEF Spec
-----------------------------------------------------------------------------
(* Runners do not keep each other waiting, and come to an end.             *)

\* A set of files that is not empty has a first one.
LEMMA FirstFile ==
  ASSUME NEW fs \in SUBSET Files, fs # {}
  PROVE  \E f \in fs : \A g \in fs : f <= g
<1>1. fs \subseteq Nat
  BY FilesAssumption
<1>2. \E f \in fs : \A g \in fs : ~(<<g, f>> \in OpToRel(<, Nat))
  BY <1>1, NatLessThanWellFounded, WFMin
<1>3. PICK f \in fs : \A g \in fs : ~(<<g, f>> \in OpToRel(<, Nat))
  BY <1>2
<1>4. \A g \in fs : ~(g < f)
  BY <1>1, <1>3 DEF OpToRel
<1> QED
  BY <1>1, <1>4

\* A runner inside a transaction keeps the file it works on.
LEMMA InsideStep ==
  ASSUME MigrationInv, InsideInv, [Next]_vars
  PROVE  InsideInv'
<1> USE DEF MigrationInv, TypeOK, InsideInv, Goto, database, locals
<1>1. ASSUME NEW f \in Files, Edit(f) PROVE InsideInv'
  BY <1>1 DEF Edit
<1>2. ASSUME NEW r \in Runners, Runs(r) PROVE InsideInv'
  <2>1. CASE ReadLedger(r) \/ Discover(r) \/ Done(r)
    BY <2>1 DEF ReadLedger, Discover, Done
  <2>2. ASSUME NEW f \in Files, Skip(r, f) \/ Refuse(r, f) \/ Conflict(r, f)
        PROVE  InsideInv'
    BY <2>2 DEF Skip, Refuse, Conflict
  <2>3. ASSUME NEW f \in Files, Execute(r, f) \/ Record(r, f)
        PROVE  InsideInv'
    BY <2>3 DEF Execute, Record, IsNext
  <2>4. ASSUME NEW f \in Files, Commit(r, f) PROVE InsideInv'
    BY <2>4 DEF Commit
  <2> QED
    BY <1>2, <2>1, <2>2, <2>3, <2>4 DEF Runs
<1>3. ASSUME NEW r \in Runners, Fault(r) PROVE InsideInv'
  BY <1>3 DEF Fault, Stops, CommitReplyLost
<1>4. CASE UNCHANGED vars
  BY <1>4 DEF vars
<1> QED
  BY <1>1, <1>2, <1>3, <1>4 DEF Next

\* Runners queue for no more than one commit of another runner, and then find
\* its row or take its place (ingestion/db.py:101-104, the primary key of
\* raw.schema_migrations).
THEOREM NoQueueOfRunners == Spec => []RunnersGoOn
<1>1. Init => InsideInv
  BY DEF Init, InsideInv
<1>2. MigrationInv /\ InsideInv => RunnersGoOn
  <2> SUFFICES ASSUME MigrationInv, InsideInv, NEW r \in Runners,
                      pc[r] \in Running, ~CanStep(r)
               PROVE  \E o \in Runners : WaitsFor(r, o) /\ CanStep(o)
    BY DEF RunnersGoOn
  <2>1. pc[r] # "discovering" /\ todo[r] # {} /\ todo[r] \in SUBSET Files
    BY DEF MigrationInv, TypeOK, InsideInv, CanStep, Running
  <2>2. PICK f \in Files : IsNext(r, f)
    BY <2>1, FirstFile DEF IsNext
  <2>3. pc[r] = "applying"
    BY <2>1, <2>2 DEF CanStep, Running
  <2>4. PICK o \in Runners : WaitsFor(r, o)
    BY <2>2, <2>3 DEF CanStep
  <2>5. CanStep(o)
    BY <2>4 DEF WaitsFor, CanStep
  <2> QED
    BY <2>4, <2>5
<1> QED
  BY <1>1, <1>2, InsideStep, MigrationInvariance, PTL DEF Spec

\* Files counted: what a runner has to do is a natural number, at most all of
\* the directory, and less of it once the next file is dealt with.
LEMMA TodoCounted ==
  ASSUME TypeOK, NEW r \in Runners
  PROVE  /\ Cardinality(todo[r]) \in 0 .. Cardinality(Files)
         /\ Cardinality(Files) \in Nat
         /\ \A f \in todo[r] :
              Cardinality(todo[r] \ {f}) = Cardinality(todo[r]) - 1
<1>1. IsFiniteSet(Files) /\ todo[r] \subseteq Files
  BY FilesAssumption DEF TypeOK
<1>2. /\ IsFiniteSet(todo[r]) /\ Cardinality(todo[r]) <= Cardinality(Files)
  BY <1>1, FS_Subset
<1>3. Cardinality(Files) \in Nat /\ Cardinality(todo[r]) \in Nat
  BY <1>1, <1>2, FS_CardinalityType
<1>4. \A f \in todo[r] :
        Cardinality(todo[r] \ {f}) = Cardinality(todo[r]) - 1
  BY <1>2, FS_RemoveElement
<1> QED
  BY <1>2, <1>3, <1>4

\* What another runner does, or an edit, leaves a runner where it was.
LEMMA StaysPut ==
  ASSUME NEW r \in Runners, pc'[r] = pc[r], todo'[r] = todo[r]
  PROVE  StepsLeft(r)' = StepsLeft(r)
  BY DEF StepsLeft

\* A runner that is not over has steps left, and none has fewer than none.
LEMMA StepsLeftTypes ==
  ASSUME TypeOK, NEW r \in Runners
  PROVE  /\ StepsLeft(r) \in Nat
         /\ pc[r] \in {"idle"} \cup Running => StepsLeft(r) # 0
  BY TodoCounted DEF StepsLeft, Running, TypeOK
\* Whatever a runner does itself lowers its count, and no one else's.
LEMMA OwnStep ==
  ASSUME MigrationInv, MigrationInv', NEW r \in Runners, Runs(r) \/ Fault(r)
  PROVE  /\ StepsLeft(r)' < StepsLeft(r)
         /\ \A o \in Runners \ {r} : pc'[o] = pc[o] /\ todo'[o] = todo[o]
<1> USE DEF Goto, database, locals, Running
<1>0. TypeOK /\ TypeOK' /\ StepsLeft(r) \in Nat
  BY StepsLeftTypes DEF MigrationInv
<1>1. /\ Cardinality(todo[r]) \in Nat /\ Cardinality(Files) \in Nat
      /\ Cardinality(todo[r]) <= Cardinality(Files)
      /\ \A f \in todo[r] :
           Cardinality(todo[r] \ {f}) = Cardinality(todo[r]) - 1
  BY <1>0, TodoCounted
<1>2. /\ Cardinality(todo'[r]) \in Nat
      /\ Cardinality(todo'[r]) <= Cardinality(Files)
  <2>1. todo'[r] \subseteq Files
    BY <1>0 DEF TypeOK
  <2> QED
    BY <2>1, FilesAssumption, FS_Subset, FS_CardinalityType
<1>3. CASE ReadLedger(r)
  BY <1>0, <1>1, <1>2, <1>3 DEF ReadLedger, StepsLeft, TypeOK
<1>4. CASE Discover(r)
  BY <1>0, <1>1, <1>2, <1>4 DEF Discover, StepsLeft, TypeOK
<1>5. CASE Done(r)
  BY <1>0, <1>1, <1>5 DEF Done, StepsLeft, TypeOK
<1>6. ASSUME NEW f \in Files, Skip(r, f)
      PROVE  StepsLeft(r)' < StepsLeft(r)
             /\ \A o \in Runners \ {r} : pc'[o] = pc[o] /\ todo'[o] = todo[o]
  <2>1. /\ pc[r] = "looping" /\ f \in todo[r] /\ pc' = pc
        /\ todo' = [todo EXCEPT ![r] = @ \ {f}]
    BY <1>6 DEF Skip, IsNext
  <2>2. todo'[r] = todo[r] \ {f} /\ pc'[r] = "looping"
    BY <1>0, <2>1 DEF TypeOK
  <2>3. Cardinality(todo'[r]) = Cardinality(todo[r]) - 1
    BY <1>1, <2>1, <2>2
  <2>4. /\ StepsLeft(r) = 3 * Cardinality(todo[r]) + 3
        /\ StepsLeft(r)' = 3 * Cardinality(todo'[r]) + 3
    BY <2>1, <2>2 DEF StepsLeft
  <2> QED
    BY <1>0, <1>1, <1>2, <2>1, <2>3, <2>4 DEF TypeOK
<1>7. ASSUME NEW f \in Files, Refuse(r, f) \/ Execute(r, f)
      PROVE  StepsLeft(r)' < StepsLeft(r)
             /\ \A o \in Runners \ {r} : pc'[o] = pc[o] /\ todo'[o] = todo[o]
  BY <1>0, <1>1, <1>7 DEF Refuse, Execute, StepsLeft, TypeOK
<1>8. ASSUME NEW f \in Files, Record(r, f) \/ Conflict(r, f)
      PROVE  StepsLeft(r)' < StepsLeft(r)
             /\ \A o \in Runners \ {r} : pc'[o] = pc[o] /\ todo'[o] = todo[o]
  BY <1>0, <1>1, <1>8 DEF Record, Conflict, StepsLeft, TypeOK
<1>9. ASSUME NEW f \in Files, Commit(r, f)
      PROVE  StepsLeft(r)' < StepsLeft(r)
             /\ \A o \in Runners \ {r} : pc'[o] = pc[o] /\ todo'[o] = todo[o]
  <2>1. /\ pc[r] = "recording" /\ f \in todo[r]
        /\ pc' = [pc EXCEPT ![r] = "looping"]
        /\ todo' = [todo EXCEPT ![r] = @ \ {f}]
    BY <1>9 DEF Commit, IsNext
  <2>2. todo'[r] = todo[r] \ {f} /\ pc'[r] = "looping"
    BY <1>0, <2>1 DEF TypeOK
  <2>3. Cardinality(todo'[r]) = Cardinality(todo[r]) - 1
    BY <1>1, <2>1, <2>2
  <2>4. /\ StepsLeft(r) = 3 * Cardinality(todo[r]) + 1
        /\ StepsLeft(r)' = 3 * Cardinality(todo'[r]) + 3
    BY <2>1, <2>2 DEF StepsLeft
  <2> QED
    BY <1>0, <1>1, <1>2, <2>1, <2>3, <2>4 DEF TypeOK
<1>10. CASE Stops(r)
  BY <1>0, <1>1, <1>10 DEF Stops, StepsLeft, TypeOK
<1>11. ASSUME NEW f \in Files, CommitReplyLost(r, f)
       PROVE  StepsLeft(r)' < StepsLeft(r)
              /\ \A o \in Runners \ {r} : pc'[o] = pc[o] /\ todo'[o] = todo[o]
  BY <1>0, <1>1, <1>11 DEF CommitReplyLost, StepsLeft, TypeOK
<1> QED
  BY <1>3, <1>4, <1>5, <1>6, <1>7, <1>8, <1>9, <1>10, <1>11 DEF Runs, Fault

\* Every runner takes a number of steps that the directory bounds, however
\* many others run and however often its files are edited (ingestion/db.py:85,
\* the one loop of apply_migrations).
THEOREM RunnersAreFinite == Spec => RunnersFinish
<1> DEFINE Counted == \A r \in Runners : StepsLeft(r) \in Nat
<1>1. MigrationInv => Counted
  BY StepsLeftTypes DEF MigrationInv
<1>2. MigrationInv /\ MigrationInv' /\ Counted /\ Counted' /\ [Next]_vars =>
        [\A r \in Runners :
           /\ StepsLeft(r)' \in 0 .. StepsLeft(r)
           /\ Runs(r) \/ Fault(r) => StepsLeft(r)' < StepsLeft(r)]_vars
  <2> SUFFICES ASSUME MigrationInv, MigrationInv', Counted, Counted', Next,
                      NEW r \in Runners
               PROVE  /\ StepsLeft(r)' \in 0 .. StepsLeft(r)
                      /\ Runs(r) \/ Fault(r) => StepsLeft(r)' < StepsLeft(r)
    OBVIOUS
  <2>1. StepsLeft(r) \in Nat /\ StepsLeft(r)' \in Nat
    OBVIOUS
  <2>2. CASE Runs(r) \/ Fault(r)
    BY <2>1, <2>2, OwnStep
  <2>3. ASSUME NEW q \in Runners \ {r}, Runs(q) \/ Fault(q)
        PROVE  StepsLeft(r)' = StepsLeft(r)
    BY <2>3, OwnStep, StaysPut
  <2>4. ASSUME NEW f \in Files, Edit(f)
        PROVE  StepsLeft(r)' = StepsLeft(r)
    BY <2>4, StaysPut DEF Edit, locals
  <2> QED
    BY <2>1, <2>2, <2>3, <2>4 DEF Next
<1> HIDE DEF Counted
<1> QED
  BY <1>1, <1>2, MigrationInvariance, PTL DEF Spec, RunnersFinish
=============================================================================
