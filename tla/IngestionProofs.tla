--------------------------- MODULE IngestionProofs ---------------------------
(***************************************************************************)
(* Proofs about Ingestion and RecordParsing, for any number of runs, keys  *)
(* and snapshots: the invariants of the executions, that no group of them  *)
(* is stuck and no step takes one back, that they implement LandingZone,   *)
(* and what the parser makes of every row and of every body.               *)
(***************************************************************************)
EXTENDS IngestionRefinement, RecordParsing, FiniteSetTheorems,
        WellFoundedInduction, TLAPS

-----------------------------------------------------------------------------
(* Facts about a response body.                                            *)

\* Any set of positions of a body is finite.
LEMMA PositionsFinite ==
  ASSUME NEW s \in Seq(Keys \cup {Malformed}), NEW P \in SUBSET DOMAIN s
  PROVE  IsFiniteSet(P) /\ Cardinality(P) \in Nat
<1>1. DOMAIN s = 1..Len(s) /\ Len(s) \in Nat
  OBVIOUS
<1>2. IsFiniteSet(DOMAIN s)
  BY <1>1, FS_Interval
<1> QED
  BY <1>2, FS_Subset, FS_CardinalityType

\* A non-empty set of naturals has a smallest element.
LEMMA Smallest ==
  ASSUME NEW T, T \subseteq Nat, T # {}
  PROVE  \E m \in T : \A k \in T : m <= k
<1>1. \E x \in T : \A y \in T : ~(<<y, x>> \in OpToRel(<, Nat))
  BY NatLessThanWellFounded, WFMin
<1>2. PICK x \in T : \A y \in T : ~(<<y, x>> \in OpToRel(<, Nat))
  BY <1>1
<1>3. \A y \in T : ~(y < x)
  BY <1>2 DEF OpToRel
<1> QED
  BY <1>3

\* Induction along 0..N, for one set in place of any predicate.
LEMMA InitialSegment ==
  ASSUME NEW N \in Nat, NEW G, 0 \in G,
         \A k \in 0..N : k \in G /\ k < N => k + 1 \in G
  PROVE  0..N \subseteq G
<1> SUFFICES ASSUME (0..N) \ G # {} PROVE FALSE
  OBVIOUS
<1>1. PICK m \in (0..N) \ G : \A k \in (0..N) \ G : m <= k
  <2>1. (0..N) \ G \subseteq Nat
    OBVIOUS
  <2> QED
    BY <2>1, Smallest
<1>2. m - 1 \in 0..N /\ m - 1 < N /\ m - 1 + 1 = m
  BY <1>1
<1>3. m - 1 \in G
  BY <1>1, <1>2
<1> QED
  BY <1>1, <1>2, <1>3

\* Two disjoint finite sets have as many elements together as apart.
LEMMA DisjointUnion ==
  ASSUME NEW S, NEW T, IsFiniteSet(S), IsFiniteSet(T), S \cap T = {}
  PROVE  Cardinality(S \cup T) = Cardinality(S) + Cardinality(T)
<1>1. Cardinality(S \cup T)
        = Cardinality(S) + Cardinality(T) - Cardinality(S \cap T)
  BY FS_Union
<1>2. Cardinality(S \cap T) = 0
  BY FS_EmptySet, Zenon
<1>3. Cardinality(S) \in Nat /\ Cardinality(T) \in Nat
  BY FS_CardinalityType
<1> QED
  BY <1>1, <1>2, <1>3

\* A body's length is the sum of the rejected, the unique and the repeated
\* rows: parse_states and deduplicate lose no row and count none twice.
LEMMA RowsAddUp ==
  ASSUME NEW s \in Seq(Keys \cup {Malformed})
  PROVE  Len(s) = Cardinality(Rejected(s)) + Cardinality(Unique(s))
                    + Cardinality(Repeats(s))
<1>1. DOMAIN s = 1..Len(s) /\ Len(s) \in Nat
  OBVIOUS
<1>2. Cardinality(DOMAIN s) = Len(s)
  BY <1>1, FS_Interval
<1>3. /\ Unique(s) \in SUBSET DOMAIN s /\ Repeats(s) \in SUBSET DOMAIN s
      /\ Rejected(s) \in SUBSET DOMAIN s /\ Valid(s) \in SUBSET DOMAIN s
  BY DEF Unique, Repeats, Rejected, Valid
<1>4. /\ IsFiniteSet(Unique(s)) /\ Cardinality(Unique(s)) \in Nat
      /\ IsFiniteSet(Repeats(s)) /\ Cardinality(Repeats(s)) \in Nat
      /\ IsFiniteSet(Rejected(s)) /\ Cardinality(Rejected(s)) \in Nat
      /\ IsFiniteSet(Valid(s)) /\ Cardinality(Valid(s)) \in Nat
  BY <1>3, PositionsFinite
<1>5. Cardinality(Valid(s)) = Cardinality(Unique(s)) + Cardinality(Repeats(s))
  <2>1. Unique(s) \cap Repeats(s) = {}
    BY DEF Repeats
  <2>2. Cardinality(Unique(s) \cup Repeats(s))
          = Cardinality(Unique(s)) + Cardinality(Repeats(s))
    BY <1>4, <2>1, DisjointUnion
  <2>3. Valid(s) = Unique(s) \cup Repeats(s)
    BY DEF Unique, Repeats
  <2> QED
    BY <2>2, <2>3, Zenon
<1>6. Cardinality(DOMAIN s) = Cardinality(Valid(s)) + Cardinality(Rejected(s))
  <2>1. Valid(s) \cap Rejected(s) = {}
    BY DEF Rejected
  <2>2. Cardinality(Valid(s) \cup Rejected(s))
          = Cardinality(Valid(s)) + Cardinality(Rejected(s))
    BY <1>4, <2>1, DisjointUnion
  <2>3. DOMAIN s = Valid(s) \cup Rejected(s)
    BY <1>3 DEF Rejected
  <2> QED
    BY <2>2, <2>3, Zenon
<1> QED
  BY <1>2, <1>4, <1>5, <1>6

\* The keys of a body are finitely many, and all of them are keys.
LEMMA KeysFinite ==
  ASSUME NEW s \in Seq(Keys \cup {Malformed})
  PROVE  IsFiniteSet(KeysOf(s)) /\ KeysOf(s) \subseteq Keys
<1> DEFINE f == [i \in Unique(s) |-> s[i]]
<1>1. Unique(s) \in SUBSET DOMAIN s
  BY DEF Unique, Valid
<1>2. IsFiniteSet(Unique(s))
  BY <1>1, PositionsFinite
<1>3. f \in Surjection(Unique(s), KeysOf(s))
  BY DEF Surjection, KeysOf
<1>4. KeysOf(s) \subseteq Keys
  BY DEF KeysOf, Unique, Valid
<1> QED
  BY <1>2, <1>3, <1>4, FS_Surjection

\* What finish_run writes has the type of the count columns.
LEMMA FinalCountsType ==
  ASSUME TypeOK, NEW r \in Runs
  PROVE  FinalCounts(r) \in Counts
<1>1. rows[r] \in Seq(Keys \cup {Malformed}) /\ inserted[r] \in Nat
  BY DEF TypeOK
<1>2. /\ Unique(rows[r]) \in SUBSET DOMAIN rows[r]
      /\ Rejected(rows[r]) \in SUBSET DOMAIN rows[r]
      /\ Repeats(rows[r]) \in SUBSET DOMAIN rows[r]
  BY DEF Unique, Rejected, Repeats, Valid
<1>3. /\ Cardinality(Unique(rows[r])) \in Nat
      /\ Cardinality(Rejected(rows[r])) \in Nat
      /\ Cardinality(Repeats(rows[r])) \in Nat
  BY <1>1, <1>2, PositionsFinite
<1>4. Len(rows[r]) \in Nat
  BY <1>1
<1> QED
  BY <1>1, <1>3, <1>4 DEF FinalCounts, Counts

-----------------------------------------------------------------------------
\* No run is recorded and no session holds anything.
LEMMA InitInv == Init => IInv
  BY RunsAssumption
  DEF Init, IInv, TypeOK, SessionInv, OneInserterPerKey, ProgressInv, OwnerInv,
      StatusInv, LoadIsAllOrNothing, FailedRunLandsNothing, Places, Owned,
      Landed, InTransaction, Unique, Valid, KeysOf

\* A recorded run has sent nothing and owns nothing.
LEMMA StartRunInv ==
  ASSUME IInv, NEW r \in Runs, StartRun(r)
  PROVE  IInv'
<1> USE DEF StartRun, Goto, Record
<1>0. TypeOK /\ Landed' = Landed /\ \A q \in Runs : Owned(q)' = Owned(q)
  BY DEF IInv, Landed, Owned
<1>1. TypeOK'
  BY <1>0 DEF TypeOK, Places
<1>2. SessionInv'
  BY <1>0 DEF IInv, TypeOK, SessionInv
<1>3. OneInserterPerKey'
  BY <1>0 DEF IInv, TypeOK, OneInserterPerKey
<1>4. ProgressInv'
  BY <1>0 DEF IInv, TypeOK, ProgressInv, InTransaction
<1>5. OwnerInv'
  BY <1>0 DEF IInv, TypeOK, OwnerInv
<1>6. StatusInv'
  BY <1>0 DEF IInv, TypeOK, StatusInv, FinalCounts
<1>7. LoadIsAllOrNothing'
  BY <1>0 DEF IInv, TypeOK, LoadIsAllOrNothing
<1>8. FailedRunLandsNothing'
  BY <1>0 DEF IInv, TypeOK, FailedRunLandsNothing
<1> QED
  BY <1>1, <1>2, <1>3, <1>4, <1>5, <1>6, <1>7, <1>8 DEF IInv

\* A run that could not be recorded leaves no trace.
LEMMA StartFailsInv ==
  ASSUME IInv, NEW r \in Runs, StartFails(r)
  PROVE  IInv'
<1> USE DEF StartFails, Goto, server, ledger
<1>0. TypeOK /\ Landed' = Landed /\ \A q \in Runs : Owned(q)' = Owned(q)
  BY DEF IInv, Landed, Owned
<1>1. TypeOK'
  BY <1>0 DEF TypeOK, Places
<1>2. SessionInv'
  BY <1>0 DEF IInv, TypeOK, SessionInv
<1>3. OneInserterPerKey'
  BY <1>0 DEF IInv, TypeOK, OneInserterPerKey
<1>4. ProgressInv'
  BY <1>0 DEF IInv, TypeOK, ProgressInv, InTransaction
<1>5. OwnerInv'
  BY <1>0 DEF IInv, TypeOK, OwnerInv
<1>6. StatusInv'
  BY <1>0 DEF IInv, TypeOK, StatusInv, FinalCounts
<1>7. LoadIsAllOrNothing'
  BY <1>0 DEF IInv, TypeOK, LoadIsAllOrNothing
<1>8. FailedRunLandsNothing'
  BY <1>0 DEF IInv, TypeOK, FailedRunLandsNothing
<1> QED
  BY <1>1, <1>2, <1>3, <1>4, <1>5, <1>6, <1>7, <1>8 DEF IInv

\* A run recorded without its reply stays running and owns nothing.
LEMMA StartReplyLostInv ==
  ASSUME IInv, NEW r \in Runs, StartReplyLost(r)
  PROVE  IInv'
<1> USE DEF StartReplyLost, Goto, Record
<1>0. TypeOK /\ Landed' = Landed /\ \A q \in Runs : Owned(q)' = Owned(q)
  BY DEF IInv, Landed, Owned
<1>1. TypeOK'
  BY <1>0 DEF TypeOK, Places
<1>2. SessionInv'
  BY <1>0 DEF IInv, TypeOK, SessionInv
<1>3. OneInserterPerKey'
  BY <1>0 DEF IInv, TypeOK, OneInserterPerKey
<1>4. ProgressInv'
  BY <1>0 DEF IInv, TypeOK, ProgressInv, InTransaction
<1>5. OwnerInv'
  BY <1>0 DEF IInv, TypeOK, OwnerInv
<1>6. StatusInv'
  BY <1>0 DEF IInv, TypeOK, StatusInv, FinalCounts
<1>7. LoadIsAllOrNothing'
  BY <1>0 DEF IInv, TypeOK, LoadIsAllOrNothing
<1>8. FailedRunLandsNothing'
  BY <1>0 DEF IInv, TypeOK, FailedRunLandsNothing
<1> QED
  BY <1>1, <1>2, <1>3, <1>4, <1>5, <1>6, <1>7, <1>8 DEF IInv

\* The snapshot taken is still unsent as a whole; an empty one is loaded.
LEMMA FetchInv ==
  ASSUME IInv, NEW r \in Runs, Fetch(r)
  PROVE  IInv'
<1> USE DEF Goto, server, ledger
<1>s. PICK s \in Snapshots :
        /\ rows' = [rows EXCEPT ![r] = s]
        /\ todo' = [todo EXCEPT ![r] = Unique(s)]
        /\ Goto(r, IF Unique(s) = {} THEN "finishing" ELSE "inserting")
  BY DEF Fetch
<1>p. /\ pc[r] = "fetching"
      /\ UNCHANGED <<inserted, session, statement, rowcount, pending, landed,
                     status, counts>>
  BY DEF Fetch
<1>b. /\ s \in Seq(Keys \cup {Malformed})
      /\ Unique(s) \subseteq Nat
  BY SnapshotsAssumption DEF Unique, Valid
<1>0. TypeOK /\ Landed' = Landed /\ \A q \in Runs : Owned(q)' = Owned(q)
  BY <1>p DEF IInv, Landed, Owned
<1>1. TypeOK'
  BY <1>0, <1>s, <1>p, <1>b DEF TypeOK, Places
<1>2. SessionInv'
  BY <1>0, <1>s, <1>p DEF IInv, TypeOK, SessionInv
<1>3. OneInserterPerKey'
  BY <1>0, <1>s, <1>p DEF IInv, TypeOK, OneInserterPerKey
<1>e. Cardinality({}) = 0
  BY FS_EmptySet
<1>o. /\ pending[r] = {} /\ inserted[r] = 0 /\ rowcount[r] = 0
      /\ Owned(r) = {} /\ status[r] = "running"
  BY <1>p DEF IInv, SessionInv, OwnerInv, StatusInv
<1>4. ProgressInv'
  <2> SUFFICES ASSUME NEW q \in Runs, InTransaction(q)'
               PROVE  /\ \A i \in Unique(rows'[q])
                               \ (statement'[q] \cup todo'[q]) :
                           rows'[q][i] \in pending'[q] \cup Landed'
                      /\ inserted'[q] + rowcount'[q] = Cardinality(pending'[q])
    BY DEF ProgressInv
  <2>1. CASE q = r
    <3>1. rows'[q] = s /\ todo'[q] = Unique(s)
      BY <2>1, <1>0, <1>s DEF TypeOK
    <3>2. Cardinality(pending'[q]) = 0
      BY <2>1, <1>o, <1>p, <1>e
    <3> QED
      BY <2>1, <3>1, <3>2, <1>o, <1>p
  <2>2. CASE q # r
    BY <2>2, <1>0, <1>s, <1>p DEF IInv, TypeOK, ProgressInv, InTransaction
  <2> QED
    BY <2>1, <2>2
<1>5. OwnerInv'
  <2> SUFFICES ASSUME NEW q \in Runs
               PROVE  /\ pc'[q] \in {"idle", "fetching", "inserting"} =>
                           Owned(q)' = {}
                      /\ pc'[q] = "finishing" =>
                           /\ inserted'[q] = Cardinality(Owned(q)')
                           /\ KeysOf(rows'[q]) \subseteq Landed'
                      /\ "finish" \notin Faults /\ pc'[q] = "failing"
                           /\ session'[q] = "open" => Owned(q)' = {}
    BY DEF OwnerInv
  <2>1. CASE q = r
    <3>1. rows'[q] = s
      BY <2>1, <1>0, <1>s DEF TypeOK
    <3>2. Unique(s) = {} => KeysOf(s) = {}
      BY DEF KeysOf
    <3>3. Cardinality(Owned(q)') = 0
      BY <2>1, <1>0, <1>o, <1>e
    <3> QED
      BY <2>1, <3>1, <3>2, <3>3, <1>0, <1>o, <1>s, <1>p DEF TypeOK
  <2>2. CASE q # r
    BY <2>2, <1>0, <1>s, <1>p DEF IInv, TypeOK, OwnerInv
  <2> QED
    BY <2>1, <2>2
<1>6. StatusInv'
  BY <1>0, <1>s, <1>p DEF IInv, TypeOK, StatusInv, FinalCounts
<1>7. LoadIsAllOrNothing'
  BY <1>0, <1>o, <1>s, <1>p DEF IInv, TypeOK, LoadIsAllOrNothing
<1>8. FailedRunLandsNothing'
  BY <1>0, <1>p DEF IInv, TypeOK, FailedRunLandsNothing
<1> QED
  BY <1>1, <1>2, <1>3, <1>4, <1>5, <1>6, <1>7, <1>8 DEF IInv

\* A failed fetch leaves the transaction unopened.
LEMMA FetchFailsInv ==
  ASSUME IInv, NEW r \in Runs, FetchFails(r)
  PROVE  IInv'
<1> USE DEF FetchFails, Goto, server, ledger
<1>0. TypeOK /\ Landed' = Landed /\ \A q \in Runs : Owned(q)' = Owned(q)
  BY DEF IInv, Landed, Owned
<1>1. TypeOK'
  BY <1>0 DEF TypeOK, Places
<1>2. SessionInv'
  BY <1>0 DEF IInv, TypeOK, SessionInv
<1>3. OneInserterPerKey'
  BY <1>0 DEF IInv, TypeOK, OneInserterPerKey
<1>4. ProgressInv'
  BY <1>0 DEF IInv, TypeOK, ProgressInv, InTransaction
<1>5. OwnerInv'
  BY <1>0 DEF IInv, TypeOK, OwnerInv
<1>6. StatusInv'
  BY <1>0 DEF IInv, TypeOK, StatusInv, FinalCounts
<1>7. LoadIsAllOrNothing'
  BY <1>0 DEF IInv, TypeOK, LoadIsAllOrNothing
<1>8. FailedRunLandsNothing'
  BY <1>0 DEF IInv, TypeOK, FailedRunLandsNothing
<1> QED
  BY <1>1, <1>2, <1>3, <1>4, <1>5, <1>6, <1>7, <1>8 DEF IInv

\* The rowcount of the last statement moves into the local sum.
LEMMA ExecuteInv ==
  ASSUME IInv, NEW r \in Runs, Execute(r)
  PROVE  IInv'
<1> USE DEF Execute, InTransaction, ledger
<1>0. TypeOK /\ Landed' = Landed /\ \A q \in Runs : Owned(q)' = Owned(q)
  BY DEF IInv, Landed, Owned
<1>b. Batch(todo[r]) \subseteq todo[r]
  BY DEF Batch
<1>1. TypeOK'
  BY <1>0, <1>b DEF TypeOK, Places
<1>2. SessionInv'
  BY <1>0, <1>b DEF IInv, TypeOK, SessionInv
<1>3. OneInserterPerKey'
  BY <1>0 DEF IInv, TypeOK, OneInserterPerKey
<1>4. ProgressInv'
  BY <1>0, <1>b DEF IInv, TypeOK, ProgressInv, InTransaction
<1>5. OwnerInv'
  BY <1>0 DEF IInv, TypeOK, OwnerInv
<1>6. StatusInv'
  BY <1>0 DEF IInv, TypeOK, StatusInv, FinalCounts
<1>7. LoadIsAllOrNothing'
  BY <1>0 DEF IInv, TypeOK, LoadIsAllOrNothing
<1>8. FailedRunLandsNothing'
  BY <1>0 DEF IInv, TypeOK, FailedRunLandsNothing
<1> QED
  BY <1>1, <1>2, <1>3, <1>4, <1>5, <1>6, <1>7, <1>8 DEF IInv

\* One more row pending, one more counted, and nobody else holds its key.
LEMMA InsertRowInv ==
  ASSUME IInv, NEW r \in Runs, InsertRow(r)
  PROVE  IInv'
<1> USE DEF client, ledger
<1>i. PICK i \in statement[r] :
        /\ rows[r][i] \notin Landed
        /\ \A o \in Runs : rows[r][i] \notin pending[o]
        /\ pending' = [pending EXCEPT ![r] = @ \cup {rows[r][i]}]
        /\ statement' = [statement EXCEPT ![r] = @ \ {i}]
  BY DEF InsertRow
<1>p. /\ rowcount' = [rowcount EXCEPT ![r] = @ + 1]
      /\ UNCHANGED <<pc, rows, todo, inserted, session, landed, status, counts>>
  BY DEF InsertRow
<1>0. TypeOK /\ Landed' = Landed /\ \A q \in Runs : Owned(q)' = Owned(q)
  BY <1>p DEF IInv, Landed, Owned
<1>k. rows[r][i] \in KeysOf(rows[r]) /\ rows[r][i] \in Keys
  <2>1. i \in Unique(rows[r]) /\ rows[r] \in Seq(Keys \cup {Malformed})
    BY <1>0, <1>i DEF IInv, SessionInv, TypeOK
  <2>2. rows[r][i] \in KeysOf(rows[r])
    BY <2>1 DEF KeysOf
  <2> QED
    BY <2>1, <2>2, KeysFinite
<1>c. Cardinality(pending'[r]) = Cardinality(pending[r]) + 1
  <2>1. IsFiniteSet(KeysOf(rows[r]))
    BY <1>0, KeysFinite DEF TypeOK
  <2>2. IsFiniteSet(pending[r])
    BY <2>1, FS_Subset DEF IInv, SessionInv
  <2>3. pending'[r] = pending[r] \cup {rows[r][i]} /\ rows[r][i] \notin pending[r]
    BY <1>0, <1>i DEF TypeOK
  <2> QED
    BY <2>2, <2>3, FS_AddElement
<1>n. Cardinality(pending[r]) \in Nat
  <2>1. IsFiniteSet(KeysOf(rows[r]))
    BY <1>0, KeysFinite DEF TypeOK
  <2> QED
    BY <2>1, FS_Subset, FS_CardinalityType DEF IInv, SessionInv
<1>1. TypeOK'
  BY <1>0, <1>i, <1>p, <1>k DEF TypeOK, Places
<1>2. SessionInv'
  BY <1>0, <1>i, <1>p, <1>k DEF IInv, TypeOK, SessionInv
<1>3. OneInserterPerKey'
  BY <1>0, <1>i, <1>p, <1>k DEF IInv, TypeOK, OneInserterPerKey
<1>4. ProgressInv'
  BY <1>0, <1>i, <1>p, <1>c, <1>n DEF IInv, TypeOK, ProgressInv, InTransaction
<1>5. OwnerInv'
  BY <1>0, <1>p DEF IInv, TypeOK, OwnerInv
<1>6. StatusInv'
  BY <1>0, <1>p DEF IInv, TypeOK, StatusInv, FinalCounts
<1>7. LoadIsAllOrNothing'
  BY <1>0, <1>p DEF IInv, TypeOK, LoadIsAllOrNothing
<1>8. FailedRunLandsNothing'
  BY <1>0, <1>p DEF IInv, TypeOK, FailedRunLandsNothing
<1> QED
  BY <1>1, <1>2, <1>3, <1>4, <1>5, <1>6, <1>7, <1>8 DEF IInv

\* A row skipped is one its own transaction or a landed row holds.
LEMMA SkipRowInv ==
  ASSUME IInv, NEW r \in Runs, SkipRow(r)
  PROVE  IInv'
<1> USE DEF SkipRow, IsNext, client, ledger
<1>0. TypeOK /\ Landed' = Landed /\ \A q \in Runs : Owned(q)' = Owned(q)
  BY DEF IInv, Landed, Owned
<1>1. TypeOK'
  BY <1>0 DEF TypeOK, Places
<1>2. SessionInv'
  BY <1>0 DEF IInv, TypeOK, SessionInv
<1>3. OneInserterPerKey'
  BY <1>0 DEF IInv, TypeOK, OneInserterPerKey
<1>4. ProgressInv'
  BY <1>0 DEF IInv, TypeOK, ProgressInv, InTransaction
<1>5. OwnerInv'
  BY <1>0 DEF IInv, TypeOK, OwnerInv
<1>6. StatusInv'
  BY <1>0 DEF IInv, TypeOK, StatusInv, FinalCounts
<1>7. LoadIsAllOrNothing'
  BY <1>0 DEF IInv, TypeOK, LoadIsAllOrNothing
<1>8. FailedRunLandsNothing'
  BY <1>0 DEF IInv, TypeOK, FailedRunLandsNothing
<1> QED
  BY <1>1, <1>2, <1>3, <1>4, <1>5, <1>6, <1>7, <1>8 DEF IInv

\* An aborted statement takes the whole transaction with it.
LEMMA AbortStatementInv ==
  ASSUME IInv, NEW r \in Runs, AbortStatement(r)
  PROVE  IInv'
<1> USE DEF AbortStatement, RollBack, Goto, ledger, InTransaction
<1>0. TypeOK /\ Landed' = Landed /\ \A q \in Runs : Owned(q)' = Owned(q)
  BY DEF IInv, Landed, Owned
<1>1. TypeOK'
  BY <1>0 DEF TypeOK, Places
<1>2. SessionInv'
  BY <1>0 DEF IInv, TypeOK, SessionInv
<1>3. OneInserterPerKey'
  BY <1>0 DEF IInv, TypeOK, OneInserterPerKey
<1>4. ProgressInv'
  BY <1>0 DEF IInv, TypeOK, ProgressInv, InTransaction
<1>5. OwnerInv'
  BY <1>0 DEF IInv, TypeOK, OwnerInv
<1>6. StatusInv'
  BY <1>0 DEF IInv, TypeOK, StatusInv, FinalCounts
<1>7. LoadIsAllOrNothing'
  BY <1>0 DEF IInv, TypeOK, LoadIsAllOrNothing
<1>8. FailedRunLandsNothing'
  BY <1>0 DEF IInv, TypeOK, FailedRunLandsNothing
<1> QED
  BY <1>1, <1>2, <1>3, <1>4, <1>5, <1>6, <1>7, <1>8 DEF IInv

\* The counts written are those of the rows owned.
LEMMA FinishSucceededInv ==
  ASSUME IInv, NEW r \in Runs, FinishSucceeded(r)
  PROVE  IInv'
<1> USE DEF FinishSucceeded, Record, RollBack, Goto
<1>0. TypeOK /\ Landed' = Landed /\ \A q \in Runs : Owned(q)' = Owned(q)
  BY DEF IInv, Landed, Owned
<1>c. FinalCounts(r) \in Counts
  BY <1>0, FinalCountsType
<1>f. \A q \in Runs : FinalCounts(q)' = FinalCounts(q)
  BY DEF FinalCounts
<1>o. /\ inserted[r] = Cardinality(Owned(r))
      /\ KeysOf(rows[r]) \subseteq Landed
  BY DEF IInv, OwnerInv
<1>1. TypeOK'
  BY <1>0, <1>c DEF TypeOK, Places
<1>2. SessionInv'
  BY <1>0 DEF IInv, TypeOK, SessionInv
<1>3. OneInserterPerKey'
  BY <1>0 DEF IInv, TypeOK, OneInserterPerKey
<1>4. ProgressInv'
  BY <1>0 DEF IInv, TypeOK, ProgressInv, InTransaction
<1>5. OwnerInv'
  BY <1>0 DEF IInv, TypeOK, OwnerInv
<1>6. StatusInv'
  BY <1>0, <1>f, <1>o DEF IInv, TypeOK, StatusInv
<1>7. LoadIsAllOrNothing'
  BY <1>0, <1>o DEF IInv, TypeOK, LoadIsAllOrNothing
<1>8. FailedRunLandsNothing'
  BY <1>0 DEF IInv, TypeOK, FailedRunLandsNothing
<1> QED
  BY <1>1, <1>2, <1>3, <1>4, <1>5, <1>6, <1>7, <1>8 DEF IInv

\* The same counts, and a handler left without a usable session.
LEMMA FinishReplyLostInv ==
  ASSUME IInv, NEW r \in Runs, FinishReplyLost(r)
  PROVE  IInv'
<1> USE DEF FinishReplyLost, Record, RollBack, Goto
<1>0. TypeOK /\ Landed' = Landed /\ \A q \in Runs : Owned(q)' = Owned(q)
  BY DEF IInv, Landed, Owned
<1>c. FinalCounts(r) \in Counts
  BY <1>0, FinalCountsType
<1>f. \A q \in Runs : FinalCounts(q)' = FinalCounts(q)
  BY DEF FinalCounts
<1>o. /\ inserted[r] = Cardinality(Owned(r))
      /\ KeysOf(rows[r]) \subseteq Landed
  BY DEF IInv, OwnerInv
<1>1. TypeOK'
  BY <1>0, <1>c DEF TypeOK, Places
<1>2. SessionInv'
  BY <1>0 DEF IInv, TypeOK, SessionInv
<1>3. OneInserterPerKey'
  BY <1>0 DEF IInv, TypeOK, OneInserterPerKey
<1>4. ProgressInv'
  BY <1>0 DEF IInv, TypeOK, ProgressInv, InTransaction
<1>5. OwnerInv'
  BY <1>0 DEF IInv, TypeOK, OwnerInv
<1>6. StatusInv'
  BY <1>0, <1>f, <1>o DEF IInv, TypeOK, StatusInv
<1>7. LoadIsAllOrNothing'
  BY <1>0, <1>o DEF IInv, TypeOK, LoadIsAllOrNothing
<1>8. FailedRunLandsNothing'
  BY <1>0 DEF IInv, TypeOK, FailedRunLandsNothing
<1> QED
  BY <1>1, <1>2, <1>3, <1>4, <1>5, <1>6, <1>7, <1>8 DEF IInv

\* A failing finish_run writes nothing.
LEMMA FinishFailsInv ==
  ASSUME IInv, NEW r \in Runs, FinishFails(r)
  PROVE  IInv'
<1> USE DEF FinishFails, Goto, ledger
<1>0. TypeOK /\ Landed' = Landed /\ \A q \in Runs : Owned(q)' = Owned(q)
  BY DEF IInv, Landed, Owned
<1>1. TypeOK'
  BY <1>0 DEF TypeOK, Places
<1>2. SessionInv'
  BY <1>0 DEF IInv, TypeOK, SessionInv
<1>3. OneInserterPerKey'
  BY <1>0 DEF IInv, TypeOK, OneInserterPerKey
<1>4. ProgressInv'
  BY <1>0 DEF IInv, TypeOK, ProgressInv, InTransaction
<1>5. OwnerInv'
  BY <1>0 DEF IInv, TypeOK, OwnerInv
<1>6. StatusInv'
  BY <1>0 DEF IInv, TypeOK, StatusInv, FinalCounts
<1>7. LoadIsAllOrNothing'
  BY <1>0 DEF IInv, TypeOK, LoadIsAllOrNothing
<1>8. FailedRunLandsNothing'
  BY <1>0 DEF IInv, TypeOK, FailedRunLandsNothing
<1> QED
  BY <1>1, <1>2, <1>3, <1>4, <1>5, <1>6, <1>7, <1>8 DEF IInv

\* A run recorded as failed has rolled back what it had pending.
LEMMA FinishFailedInv ==
  ASSUME IInv, NEW r \in Runs, FinishFailed(r)
  PROVE  IInv'
<1> USE DEF FinishFailed, Record, RollBack, Goto
<1>0. TypeOK /\ Landed' = Landed /\ \A q \in Runs : Owned(q)' = Owned(q)
  BY DEF IInv, Landed, Owned
<1>1. TypeOK'
  BY <1>0 DEF TypeOK, Places
<1>2. SessionInv'
  BY <1>0 DEF IInv, TypeOK, SessionInv
<1>3. OneInserterPerKey'
  BY <1>0 DEF IInv, TypeOK, OneInserterPerKey
<1>4. ProgressInv'
  BY <1>0 DEF IInv, TypeOK, ProgressInv, InTransaction
<1>5. OwnerInv'
  BY <1>0 DEF IInv, TypeOK, OwnerInv
<1>6. StatusInv'
  BY <1>0 DEF IInv, TypeOK, StatusInv, FinalCounts
<1>7. LoadIsAllOrNothing'
  BY <1>0 DEF IInv, TypeOK, LoadIsAllOrNothing
<1>8. FailedRunLandsNothing'
  BY <1>0 DEF IInv, TypeOK, OwnerInv, FailedRunLandsNothing
<1> QED
  BY <1>1, <1>2, <1>3, <1>4, <1>5, <1>6, <1>7, <1>8 DEF IInv

\* A broken session keeps its uncommitted rows for a while.
LEMMA LoseConnectionInv ==
  ASSUME IInv, NEW r \in Runs, LoseConnection(r)
  PROVE  IInv'
<1> USE DEF LoseConnection, client, ledger
<1>0. TypeOK /\ Landed' = Landed /\ \A q \in Runs : Owned(q)' = Owned(q)
  BY DEF IInv, Landed, Owned
<1>1. TypeOK'
  BY <1>0 DEF TypeOK, Places
<1>2. SessionInv'
  BY <1>0 DEF IInv, TypeOK, SessionInv
<1>3. OneInserterPerKey'
  BY <1>0 DEF IInv, TypeOK, OneInserterPerKey
<1>4. ProgressInv'
  BY <1>0 DEF IInv, TypeOK, ProgressInv, InTransaction
<1>5. OwnerInv'
  BY <1>0 DEF IInv, TypeOK, OwnerInv
<1>6. StatusInv'
  BY <1>0 DEF IInv, TypeOK, StatusInv, FinalCounts
<1>7. LoadIsAllOrNothing'
  BY <1>0 DEF IInv, TypeOK, LoadIsAllOrNothing
<1>8. FailedRunLandsNothing'
  BY <1>0 DEF IInv, TypeOK, FailedRunLandsNothing
<1> QED
  BY <1>1, <1>2, <1>3, <1>4, <1>5, <1>6, <1>7, <1>8 DEF IInv

\* A client without a session only moves towards its end.
LEMMA NoticeLostConnectionInv ==
  ASSUME IInv, NEW r \in Runs, NoticeLostConnection(r)
  PROVE  IInv'
<1> USE DEF NoticeLostConnection, Goto, server, ledger
<1>0. TypeOK /\ Landed' = Landed /\ \A q \in Runs : Owned(q)' = Owned(q)
  BY DEF IInv, Landed, Owned
<1>1. TypeOK'
  BY <1>0 DEF TypeOK, Places
<1>2. SessionInv'
  BY <1>0 DEF IInv, TypeOK, SessionInv
<1>3. OneInserterPerKey'
  BY <1>0 DEF IInv, TypeOK, OneInserterPerKey
<1>4. ProgressInv'
  BY <1>0 DEF IInv, TypeOK, ProgressInv, InTransaction
<1>5. OwnerInv'
  BY <1>0 DEF IInv, TypeOK, OwnerInv
<1>6. StatusInv'
  BY <1>0 DEF IInv, TypeOK, StatusInv, FinalCounts
<1>7. LoadIsAllOrNothing'
  BY <1>0 DEF IInv, TypeOK, LoadIsAllOrNothing
<1>8. FailedRunLandsNothing'
  BY <1>0 DEF IInv, TypeOK, FailedRunLandsNothing
<1> QED
  BY <1>1, <1>2, <1>3, <1>4, <1>5, <1>6, <1>7, <1>8 DEF IInv

\* A killed client leaves a broken session behind.
LEMMA CrashInv ==
  ASSUME IInv, NEW r \in Runs, Crash(r)
  PROVE  IInv'
<1> USE DEF Crash, Goto, ledger
<1>0. TypeOK /\ Landed' = Landed /\ \A q \in Runs : Owned(q)' = Owned(q)
  BY DEF IInv, Landed, Owned
<1>1. TypeOK'
  BY <1>0 DEF TypeOK, Places
<1>2. SessionInv'
  BY <1>0 DEF IInv, TypeOK, SessionInv
<1>3. OneInserterPerKey'
  BY <1>0 DEF IInv, TypeOK, OneInserterPerKey
<1>4. ProgressInv'
  BY <1>0 DEF IInv, TypeOK, ProgressInv, InTransaction
<1>5. OwnerInv'
  BY <1>0 DEF IInv, TypeOK, OwnerInv
<1>6. StatusInv'
  BY <1>0 DEF IInv, TypeOK, StatusInv, FinalCounts
<1>7. LoadIsAllOrNothing'
  BY <1>0 DEF IInv, TypeOK, LoadIsAllOrNothing
<1>8. FailedRunLandsNothing'
  BY <1>0 DEF IInv, TypeOK, FailedRunLandsNothing
<1> QED
  BY <1>1, <1>2, <1>3, <1>4, <1>5, <1>6, <1>7, <1>8 DEF IInv

\* The end of a broken session releases its uncommitted rows.
LEMMA SessionEndsInv ==
  ASSUME IInv, NEW r \in Runs, SessionEnds(r)
  PROVE  IInv'
<1> USE DEF SessionEnds, RollBack, client, ledger
<1>0. TypeOK /\ Landed' = Landed /\ \A q \in Runs : Owned(q)' = Owned(q)
  BY DEF IInv, Landed, Owned
<1>1. TypeOK'
  BY <1>0 DEF TypeOK, Places
<1>2. SessionInv'
  BY <1>0 DEF IInv, TypeOK, SessionInv
<1>3. OneInserterPerKey'
  BY <1>0 DEF IInv, TypeOK, OneInserterPerKey
<1>4. ProgressInv'
  BY <1>0 DEF IInv, TypeOK, ProgressInv, InTransaction
<1>5. OwnerInv'
  BY <1>0 DEF IInv, TypeOK, OwnerInv
<1>6. StatusInv'
  BY <1>0 DEF IInv, TypeOK, StatusInv, FinalCounts
<1>7. LoadIsAllOrNothing'
  BY <1>0 DEF IInv, TypeOK, LoadIsAllOrNothing
<1>8. FailedRunLandsNothing'
  BY <1>0 DEF IInv, TypeOK, FailedRunLandsNothing
<1> QED
  BY <1>1, <1>2, <1>3, <1>4, <1>5, <1>6, <1>7, <1>8 DEF IInv

\* What the commit of a load does to the committed table.
LEMMA CommitRowsFacts ==
  ASSUME IInv, NEW r \in Runs, LoadIsSent(r), CommitRows(r)
  PROVE  /\ Landed' = Landed \cup pending[r]
         /\ Owned(r)' = pending[r]
         /\ \A q \in Runs \ {r} : Owned(q)' = Owned(q)
         /\ KeysOf(rows[r]) \subseteq Landed'
         /\ landed' \in [Keys -> Runs \cup {NoRun}]
         /\ \A k \in Keys : landed[k] # NoRun => landed'[k] = landed[k]
<1>1. /\ landed' = [k \in Keys |-> IF k \in pending[r] THEN r ELSE landed[k]]
      /\ landed \in [Keys -> Runs \cup {NoRun}]
      /\ pending[r] \subseteq Keys
      /\ r # NoRun
  BY RunsAssumption DEF CommitRows, IInv, TypeOK
<1>2. \A k \in pending[r] : landed[k] = NoRun
  BY <1>1 DEF IInv, OneInserterPerKey, Landed
<1>3. Owned(r) = {}
  BY DEF LoadIsSent, InTransaction, IInv, OwnerInv
<1>4. Landed' = Landed \cup pending[r]
  BY <1>1 DEF Landed
<1>5. Owned(r)' = pending[r]
  BY <1>1, <1>3 DEF Owned
<1>6. \A q \in Runs \ {r} : Owned(q)' = Owned(q)
  BY <1>1, <1>2, RunsAssumption DEF Owned
<1>7. KeysOf(rows[r]) \subseteq Landed'
  <2>1. \A i \in Unique(rows[r]) : rows[r][i] \in pending[r] \cup Landed
    BY DEF LoadIsSent, IInv, ProgressInv
  <2> QED
    BY <1>4, <2>1 DEF KeysOf
<1> QED
  BY <1>1, <1>2, <1>4, <1>5, <1>6, <1>7

\* The commit turns the rows counted into the rows owned.
LEMMA CommitLoadInv ==
  ASSUME IInv, NEW r \in Runs, CommitLoad(r)
  PROVE  IInv'
<1>a. /\ Landed' = Landed \cup pending[r]
      /\ Owned(r)' = pending[r]
      /\ \A q \in Runs \ {r} : Owned(q)' = Owned(q)
      /\ KeysOf(rows[r]) \subseteq Landed'
      /\ landed' \in [Keys -> Runs \cup {NoRun}]
  BY CommitRowsFacts DEF CommitLoad
<1>b. inserted[r] + rowcount[r] = Cardinality(pending[r])
  BY DEF CommitLoad, LoadIsSent, IInv, ProgressInv
<1> USE DEF CommitLoad, CommitRows, LoadIsSent, InTransaction, Goto, ledger
<1>0. TypeOK
  BY DEF IInv
<1>1. TypeOK'
  BY <1>0, <1>a DEF TypeOK, Places
<1>2. SessionInv'
  BY <1>0 DEF IInv, TypeOK, SessionInv
<1>3. OneInserterPerKey'
  BY <1>0, <1>a DEF IInv, TypeOK, OneInserterPerKey
<1>4. ProgressInv'
  BY <1>0, <1>a DEF IInv, TypeOK, ProgressInv
<1>5. OwnerInv'
  BY <1>0, <1>a, <1>b DEF IInv, TypeOK, OwnerInv
<1>6. StatusInv'
  BY <1>0, <1>a DEF IInv, TypeOK, StatusInv, FinalCounts
<1>7. LoadIsAllOrNothing'
  BY <1>0, <1>a DEF IInv, TypeOK, LoadIsAllOrNothing
<1>8. FailedRunLandsNothing'
  BY <1>0, <1>a DEF IInv, TypeOK, FailedRunLandsNothing, StatusInv
<1> QED
  BY <1>1, <1>2, <1>3, <1>4, <1>5, <1>6, <1>7, <1>8 DEF IInv

\* The same commit with the session closed, so no finish_run follows.
LEMMA CommitReplyLostInv ==
  ASSUME IInv, NEW r \in Runs, CommitReplyLost(r)
  PROVE  IInv'
<1>a. /\ Landed' = Landed \cup pending[r]
      /\ Owned(r)' = pending[r]
      /\ \A q \in Runs \ {r} : Owned(q)' = Owned(q)
      /\ KeysOf(rows[r]) \subseteq Landed'
      /\ landed' \in [Keys -> Runs \cup {NoRun}]
  BY CommitRowsFacts DEF CommitReplyLost
<1>b. inserted[r] + rowcount[r] = Cardinality(pending[r])
  BY DEF CommitReplyLost, LoadIsSent, IInv, ProgressInv
<1> USE DEF CommitReplyLost, CommitRows, LoadIsSent, InTransaction, Goto, ledger
<1>0. TypeOK
  BY DEF IInv
<1>1. TypeOK'
  BY <1>0, <1>a DEF TypeOK, Places
<1>2. SessionInv'
  BY <1>0 DEF IInv, TypeOK, SessionInv
<1>3. OneInserterPerKey'
  BY <1>0, <1>a DEF IInv, TypeOK, OneInserterPerKey
<1>4. ProgressInv'
  BY <1>0, <1>a DEF IInv, TypeOK, ProgressInv
<1>5. OwnerInv'
  BY <1>0, <1>a, <1>b DEF IInv, TypeOK, OwnerInv
<1>6. StatusInv'
  BY <1>0, <1>a DEF IInv, TypeOK, StatusInv, FinalCounts
<1>7. LoadIsAllOrNothing'
  BY <1>0, <1>a DEF IInv, TypeOK, LoadIsAllOrNothing
<1>8. FailedRunLandsNothing'
  BY <1>0, <1>a DEF IInv, TypeOK, FailedRunLandsNothing, StatusInv
<1> QED
  BY <1>1, <1>2, <1>3, <1>4, <1>5, <1>6, <1>7, <1>8 DEF IInv

-----------------------------------------------------------------------------
\* A step that changes nothing.
LEMMA StutterInv ==
  ASSUME IInv, UNCHANGED vars
  PROVE  IInv'
<1> USE DEF vars
<1>0. TypeOK /\ Landed' = Landed /\ \A q \in Runs : Owned(q)' = Owned(q)
  BY DEF IInv, Landed, Owned
<1>1. TypeOK'
  BY <1>0 DEF TypeOK
<1>2. SessionInv' /\ OneInserterPerKey'
  BY <1>0 DEF IInv, SessionInv, OneInserterPerKey
<1>3. ProgressInv'
  BY <1>0 DEF IInv, ProgressInv, InTransaction
<1>4. OwnerInv' /\ LoadIsAllOrNothing' /\ FailedRunLandsNothing'
  BY <1>0 DEF IInv, OwnerInv, LoadIsAllOrNothing, FailedRunLandsNothing
<1>5. StatusInv'
  BY <1>0 DEF IInv, StatusInv, FinalCounts
<1> QED
  BY <1>1, <1>2, <1>3, <1>4, <1>5 DEF IInv

\* The invariant is inductive: every step of every execution, of the server
\* and of the environment keeps it.
LEMMA NextInv == IInv /\ [Next]_vars => IInv'
<1> SUFFICES ASSUME IInv, [Next]_vars PROVE IInv'
  OBVIOUS
<1>1. CASE UNCHANGED vars
  BY <1>1, StutterInv
<1>2. ASSUME NEW r \in Runs, ClientStep(r) \/ ServerStep(r) \/ Fault(r)
      PROVE  IInv'
  <2>1. CASE StartRun(r)
    BY <2>1, StartRunInv
  <2>2. CASE Fetch(r)
    BY <2>2, FetchInv
  <2>3. CASE Execute(r)
    BY <2>3, ExecuteInv
  <2>4. CASE CommitLoad(r)
    BY <2>4, CommitLoadInv
  <2>5. CASE FinishSucceeded(r)
    BY <2>5, FinishSucceededInv
  <2>6. CASE FinishFailed(r)
    BY <2>6, FinishFailedInv
  <2>7. CASE NoticeLostConnection(r)
    BY <2>7, NoticeLostConnectionInv
  <2>8. CASE InsertRow(r)
    BY <2>8, InsertRowInv
  <2>9. CASE SkipRow(r)
    BY <2>9, SkipRowInv
  <2>10. CASE RowRefused(r)
    BY <2>10, AbortStatementInv DEF RowRefused
  <2>11. CASE DeadlockVictim(r)
    BY <2>11, AbortStatementInv DEF DeadlockVictim
  <2>12. CASE SessionEnds(r)
    BY <2>12, SessionEndsInv
  <2>13. CASE StartFails(r)
    BY <2>13, StartFailsInv
  <2>14. CASE StartReplyLost(r)
    BY <2>14, StartReplyLostInv
  <2>15. CASE FetchFails(r)
    BY <2>15, FetchFailsInv
  <2>16. CASE StatementFails(r)
    BY <2>16, AbortStatementInv DEF StatementFails
  <2>17. CASE CommitReplyLost(r)
    BY <2>17, CommitReplyLostInv
  <2>18. CASE FinishReplyLost(r)
    BY <2>18, FinishReplyLostInv
  <2>19. CASE FinishFails(r)
    BY <2>19, FinishFailsInv
  <2>20. CASE LoseConnection(r)
    BY <2>20, LoseConnectionInv
  <2>21. CASE Crash(r)
    BY <2>21, CrashInv
  <2> QED
    BY <1>2, <2>1, <2>2, <2>3, <2>4, <2>5, <2>6, <2>7, <2>8, <2>9,
        <2>10, <2>11, <2>12, <2>13, <2>14, <2>15, <2>16, <2>17, <2>18, <2>19,
        <2>20, <2>21
       DEF ClientStep, ServerStep, Fault
<1> QED
  BY <1>1, <1>2 DEF Next

\* The inductive invariant holds for any runs, keys, snapshots and faults.
THEOREM Invariance == Spec => []IInv
<1>1. Init => IInv
  BY InitInv
<1>2. IInv /\ [Next]_vars => IInv'
  BY NextInv
<1> QED
  BY <1>1, <1>2, PTL DEF Spec

\* Type correctness: every variable keeps its type, whatever the executions
\* and the environment do.
THEOREM TypeCorrect == Spec => []TypeOK
<1>1. IInv => TypeOK
  BY DEF IInv
<1> QED
  BY <1>1, Invariance, PTL

\* A key never has two uncommitted inserters, nor one once it is landed.
THEOREM KeyExclusion == Spec => []OneInserterPerKey
<1>1. IInv => OneInserterPerKey
  BY DEF IInv
<1> QED
  BY <1>1, Invariance, PTL

\* A load is all or nothing, for every batch size, every order of the rows
\* and every point at which an execution, a statement or a reply is lost.
THEOREM LoadAtomicity == Spec => []LoadIsAllOrNothing
<1>1. IInv => LoadIsAllOrNothing
  BY DEF IInv
<1> QED
  BY <1>1, Invariance, PTL

\* A run recorded as failed owns no row, when finish_run does not fail on a
\* usable connection.
THEOREM FailureIsClean == Spec => []FailedRunLandsNothing
<1>1. IInv => FailedRunLandsNothing
  BY DEF IInv
<1> QED
  BY <1>1, Invariance, PTL

\* The books of a succeeded run balance: received = rejected + inserted +
\* duplicate, and inserted is the number of rows that name the run.
THEOREM LedgerCorrect == Spec => []LedgerBalances
<1>1. IInv => LedgerBalances
  <2> SUFFICES ASSUME IInv, NEW r \in Runs, status[r] = "succeeded"
               PROVE  /\ counts[r].received = counts[r].rejected
                            + counts[r].inserted + counts[r].duplicate
                      /\ counts[r].inserted = Cardinality(Owned(r))
    BY DEF LedgerBalances
  <2> DEFINE s == rows[r]
  <2>1. /\ s \in Seq(Keys \cup {Malformed})
        /\ inserted[r] \in Nat
    BY DEF IInv, TypeOK
  <2>2. /\ counts[r] = FinalCounts(r)
        /\ inserted[r] = Cardinality(Owned(r))
    BY DEF IInv, StatusInv
  <2>3. Len(s) = Cardinality(Rejected(s)) + Cardinality(Unique(s))
                   + Cardinality(Repeats(s))
    BY <2>1, RowsAddUp
  <2>4. /\ Cardinality(Rejected(s)) \in Nat /\ Cardinality(Unique(s)) \in Nat
        /\ Cardinality(Repeats(s)) \in Nat
    BY <2>1, PositionsFinite DEF Rejected, Unique, Repeats, Valid
  <2> QED
    BY <2>1, <2>2, <2>3, <2>4 DEF FinalCounts
<1> QED
  BY <1>1, Invariance, PTL

-----------------------------------------------------------------------------
(* What a step may never do.                                               *)

\* No step rewrites or removes a landed row.
LEMMA StepKeepsProvenance ==
  ASSUME IInv, [Next]_vars, NEW k \in Keys, landed[k] # NoRun
  PROVE  landed'[k] = landed[k]
<1>1. ASSUME NEW r \in Runs, CommitLoad(r) \/ CommitReplyLost(r)
      PROVE  landed'[k] = landed[k]
  BY <1>1, CommitRowsFacts DEF CommitLoad, CommitReplyLost
<1>2. ASSUME NEW r \in Runs, ServerStep(r)
      PROVE  landed'[k] = landed[k]
  BY <1>2 DEF ServerStep, InsertRow, SkipRow, RowRefused, DeadlockVictim,
              SessionEnds, AbortStatement, RollBack
<1>3. ASSUME NEW r \in Runs, ClientStep(r), ~CommitLoad(r)
      PROVE  landed'[k] = landed[k]
  BY <1>3 DEF ClientStep, StartRun, Fetch, Execute, FinishSucceeded,
              FinishFailed, NoticeLostConnection, RollBack, server
<1>4. ASSUME NEW r \in Runs, Fault(r), ~CommitReplyLost(r)
      PROVE  landed'[k] = landed[k]
  BY <1>4 DEF Fault, StartFails, StartReplyLost, FetchFails, StatementFails,
              FinishReplyLost, FinishFails, LoseConnection, Crash,
              AbortStatement, RollBack, server
<1>5. CASE UNCHANGED vars
  BY <1>5 DEF vars
<1> QED
  BY <1>1, <1>2, <1>3, <1>4, <1>5 DEF Next

\* The run that first observed a row stays its run.
THEOREM Provenance == Spec => ProvenanceStands
<1>1. IInv /\ [Next]_vars =>
        [\A k \in Keys : landed[k] # NoRun => landed'[k] = landed[k]]_vars
  BY StepKeepsProvenance
<1> QED
  BY <1>1, Invariance, PTL DEF Spec, ProvenanceStands

\* No step changes a recorded outcome or its counts.
LEMMA StepKeepsOutcome ==
  ASSUME IInv, [Next]_vars, NEW q \in Runs, status[q] \in {"succeeded", "failed"}
  PROVE  status'[q] = status[q] /\ counts'[q] = counts[q]
<1>1. /\ pc[q] \notin {"idle", "fetching", "inserting", "finishing"}
      /\ ~(pc[q] = "failing" /\ session[q] = "open")
  BY DEF IInv, StatusInv
<1>2. status \in [Runs -> {"absent", "running", "succeeded", "failed"}]
      /\ counts \in [Runs -> Counts \cup {NoCounts}]
  BY DEF IInv, TypeOK
<1>3. ASSUME NEW r \in Runs, ServerStep(r)
      PROVE  status'[q] = status[q] /\ counts'[q] = counts[q]
  BY <1>3 DEF ServerStep, InsertRow, SkipRow, RowRefused, DeadlockVictim,
              SessionEnds, AbortStatement, ledger
<1>4. ASSUME NEW r \in Runs, ClientStep(r)
      PROVE  status'[q] = status[q] /\ counts'[q] = counts[q]
  BY <1>1, <1>2, <1>4
  DEF ClientStep, StartRun, Fetch, Execute, CommitLoad, FinishSucceeded,
      FinishFailed, NoticeLostConnection, Record, ledger
<1>5. ASSUME NEW r \in Runs, Fault(r)
      PROVE  status'[q] = status[q] /\ counts'[q] = counts[q]
  BY <1>1, <1>2, <1>5
  DEF Fault, StartFails, StartReplyLost, FetchFails, StatementFails,
      CommitReplyLost, FinishReplyLost, FinishFails, LoseConnection, Crash,
      AbortStatement, Record, ledger
<1>6. CASE UNCHANGED vars
  BY <1>6 DEF vars
<1> QED
  BY <1>3, <1>4, <1>5, <1>6 DEF Next

\* The outcome of a run is written once.
THEOREM Outcome == Spec => OutcomeStands
<1>1. IInv /\ [Next]_vars =>
        [\A r \in Runs : status[r] \in {"succeeded", "failed"} =>
            status'[r] = status[r] /\ counts'[r] = counts[r]]_vars
  BY StepKeepsOutcome
<1> QED
  BY <1>1, Invariance, PTL DEF Spec, OutcomeStands

-----------------------------------------------------------------------------
(* No group of sessions waits for itself alone.  In the group of a closed  *)
(* set of waiting runs there is a smallest set in which each waits for     *)
(* one of the set; in it each is waited for as well, or a smaller set      *)
(* would do; and that is what the deadlock detector looks for.             *)

\* Only a run that has not started, or never got a connection, has no session.
LEMMA ConnectedStep == IInv /\ ConnectedInv /\ [Next]_vars => ConnectedInv'
<1> SUFFICES ASSUME IInv, ConnectedInv, [Next]_vars PROVE ConnectedInv'
  OBVIOUS
<1>0. pc \in [Runs -> Places] /\ session \in [Runs -> {"none", "open", "broken", "closed"}]
  BY DEF IInv, TypeOK
<1>1. CASE UNCHANGED vars
  BY <1>1 DEF vars, ConnectedInv
<1>2. ASSUME NEW r \in Runs, ServerStep(r) PROVE ConnectedInv'
  BY <1>0, <1>2 DEF ConnectedInv, ServerStep, InsertRow, SkipRow, RowRefused,
     DeadlockVictim, SessionEnds, AbortStatement, RollBack, Goto, client
<1>3. ASSUME NEW r \in Runs, ClientStep(r) PROVE ConnectedInv'
  <2>1. CASE StartRun(r)
    BY <1>0, <2>1 DEF ConnectedInv, StartRun, RollBack, Goto, client, server
  <2>2. CASE Fetch(r)
    BY <1>0, <2>2 DEF ConnectedInv, Fetch, RollBack, Goto, client, server
  <2>3. CASE Execute(r)
    BY <1>0, <2>3 DEF ConnectedInv, Execute, InTransaction, RollBack, Goto, client, server
  <2>4. CASE CommitLoad(r)
    BY <1>0, <2>4 DEF ConnectedInv, CommitLoad, CommitRows, LoadIsSent, InTransaction, RollBack, Goto, client, server
  <2>5. CASE FinishSucceeded(r)
    BY <1>0, <2>5 DEF ConnectedInv, FinishSucceeded, RollBack, Goto, client, server
  <2>6. CASE FinishFailed(r)
    BY <1>0, <2>6 DEF ConnectedInv, FinishFailed, RollBack, Goto, client, server
  <2>7. CASE NoticeLostConnection(r)
    BY <1>0, <2>7 DEF ConnectedInv, NoticeLostConnection, RollBack, Goto, client, server
  <2> QED
    BY <1>3, <2>1, <2>2, <2>3, <2>4, <2>5, <2>6, <2>7 DEF ClientStep
<1>4. ASSUME NEW r \in Runs, Fault(r) PROVE ConnectedInv'
  <2>1. CASE StartFails(r)
    BY <1>0, <2>1 DEF ConnectedInv, StartFails, RollBack, Goto, client, server
  <2>2. CASE StartReplyLost(r)
    BY <1>0, <2>2 DEF ConnectedInv, StartReplyLost, RollBack, Goto, client, server
  <2>3. CASE FetchFails(r)
    BY <1>0, <2>3 DEF ConnectedInv, FetchFails, RollBack, Goto, client, server
  <2>4. CASE StatementFails(r)
    BY <1>0, <2>4 DEF ConnectedInv, StatementFails, AbortStatement, LoadIsSent, InTransaction, RollBack, Goto, client, server
  <2>5. CASE CommitReplyLost(r)
    BY <1>0, <2>5 DEF ConnectedInv, CommitReplyLost, CommitRows, LoadIsSent, InTransaction, RollBack, Goto, client, server
  <2>6. CASE FinishReplyLost(r)
    BY <1>0, <2>6 DEF ConnectedInv, FinishReplyLost, RollBack, Goto, client, server
  <2>7. CASE FinishFails(r)
    BY <1>0, <2>7 DEF ConnectedInv, FinishFails, RollBack, Goto, client, server
  <2>8. CASE LoseConnection(r)
    BY <1>0, <2>8 DEF ConnectedInv, LoseConnection, RollBack, Goto, client, server
  <2>9. CASE Crash(r)
    BY <1>0, <2>9 DEF ConnectedInv, Crash, RollBack, Goto, client, server
  <2> QED
    BY <1>4, <2>1, <2>2, <2>3, <2>4, <2>5, <2>6, <2>7, <2>8, <2>9 DEF Fault
<1> QED
  BY <1>1, <1>2, <1>3, <1>4 DEF Next

\* A finite relation in which every element has a successor contains a set
\* in which every element has a predecessor as well.
LEMMA CycleExists ==
  ASSUME NEW W, IsFiniteSet(W), W # {}, NEW R,
         \A x \in W : \E y \in W : y # x /\ <<x, y>> \in R
  PROVE  \E D \in SUBSET W :
           /\ D # {}
           /\ \A x \in D : /\ \E y \in D : <<x, y>> \in R
                           /\ \E y \in D : <<y, x>> \in R
<1> DEFINE Succ(D) == \A x \in D : \E y \in D : y # x /\ <<x, y>> \in R
           Sets == {D \in SUBSET W : D # {} /\ Succ(D)}
           Sizes == {Cardinality(D) : D \in Sets}
<1>1. \A D \in Sets : IsFiniteSet(D) /\ Cardinality(D) \in Nat
  BY FS_Subset, FS_CardinalityType
<1>2. W \in Sets
  OBVIOUS
<1>3. PICK D \in Sets : \A E \in Sets : Cardinality(D) <= Cardinality(E)
  <2> HIDE DEF Sets
  <2>1. Sizes \subseteq Nat /\ Sizes # {}
    BY <1>1, <1>2
  <2>2. PICK m \in Sizes : \A k \in Sizes : m <= k
    <3> HIDE DEF Sizes
    <3> QED
      BY <2>1, Smallest
  <2> QED
    BY <2>2
<1>4. ASSUME NEW x \in D, \A y \in D : <<y, x>> \notin R
      PROVE  FALSE
  <2>1. D \ {x} \in SUBSET W /\ D \ {x} # {} /\ Succ(D \ {x})
    <3>1. D \in SUBSET W /\ Succ(D)
      BY <1>3
    <3>2. PICK y \in D : y # x /\ <<x, y>> \in R
      BY <3>1
    <3>3. ASSUME NEW z \in D \ {x}
          PROVE  \E w \in D \ {x} : w # z /\ <<z, w>> \in R
      <4>1. PICK w \in D : w # z /\ <<z, w>> \in R
        BY <3>1
      <4>2. w # x
        BY <1>4, <4>1
      <4> QED
        BY <4>1, <4>2
    <3> QED
      BY <3>1, <3>2, <3>3
  <2>2. D \ {x} \in Sets
    BY <2>1
  <2>3. IsFiniteSet(D) /\ Cardinality(D) \in Nat
    BY <1>1, <1>3
  <2>4. Cardinality(D \ {x}) = Cardinality(D) - 1
    BY <1>4, <2>3, FS_RemoveElement
  <2>5. Cardinality(D) <= Cardinality(D \ {x})
    BY <1>3, <2>2
  <2> QED
    BY <2>3, <2>4, <2>5
<1> QED
  BY <1>3, <1>4

\* A run that has something to do and cannot do it waits for another.
LEMMA StuckMeansWaiting ==
  ASSUME IInv, ConnectedInv, NEW r \in Runs, Working(r), ~CanStep(r)
  PROVE  \E o \in Runs : WaitsFor(r, o)
<1>0. /\ pc[r] \in Places /\ session[r] \in {"none", "open", "broken", "closed"}
      /\ statement[r] \in SUBSET Nat
  BY DEF IInv, TypeOK
<1>1. statement[r] # {}
  <2>1. CASE pc[r] \notin {"idle"} \cup Ended
    BY <1>0, <2>1 DEF CanStep, Places, Ended
  <2>2. CASE pending[r] # {}
    <3>1. session[r] \notin {"none", "closed"}
      BY <2>2 DEF IInv, SessionInv
    <3>2. session[r] = "open" => pc[r] = "inserting"
      BY <2>2 DEF IInv, SessionInv
    <3> QED
      BY <1>0, <3>1, <3>2 DEF CanStep
  <2> QED
    BY <2>1, <2>2 DEF Working
<1>2. PICK i \in statement[r] : IsNext(r, i)
  <2>1. PICK i \in statement[r] : \A j \in statement[r] : i <= j
    BY <1>0, <1>1, Smallest
  <2> QED
    BY <2>1 DEF IsNext
<1>3. PICK o \in Runs \ {r} : rows[r][i] \in pending[o]
  BY <1>2 DEF CanStep
<1> QED
  BY <1>2, <1>3 DEF WaitsFor

\* A group that cannot step would hold a cycle, and a session of a cycle can
\* step as the detector's victim.
LEMMA NoStuckGroup == IInv /\ ConnectedInv => NoGroupIsStuck
<1> SUFFICES ASSUME IInv, ConnectedInv, NEW W \in SUBSET Runs, W # {},
                    \A r \in W : /\ Working(r)
                                 /\ \A o \in Runs : WaitsFor(r, o) => o \in W,
                    \A r \in W : ~CanStep(r)
             PROVE  FALSE
  BY DEF NoGroupIsStuck
<1> DEFINE Waits == {e \in Runs \X Runs : WaitsFor(e[1], e[2])}
<1>1. \A x, y \in Runs : <<x, y>> \in Waits <=> WaitsFor(x, y)
  OBVIOUS
<1>2. \A x \in W : \E y \in W : y # x /\ <<x, y>> \in Waits
  <2> SUFFICES ASSUME NEW x \in W PROVE \E y \in W : y # x /\ <<x, y>> \in Waits
    OBVIOUS
  <2>1. PICK o \in Runs : WaitsFor(x, o)
    BY StuckMeansWaiting
  <2>2. o \in W /\ o # x
    BY <2>1 DEF WaitsFor
  <2> QED
    BY <1>1, <2>1, <2>2
<1>3. IsFiniteSet(W)
  BY RunsAssumption, FS_Subset
<1>4. PICK D \in SUBSET W :
        /\ D # {}
        /\ \A x \in D : /\ \E y \in D : <<x, y>> \in Waits
                        /\ \E y \in D : <<y, x>> \in Waits
  <2> HIDE DEF Waits
  <2> QED
    BY <1>2, <1>3, CycleExists
<1>5. PICK r \in D : TRUE
  BY <1>4
<1>6. Deadlocked(r)
  <2> HIDE DEF Waits
  <2>1. \A x \in D : /\ \E y \in D : WaitsFor(x, y)
                     /\ \E y \in D : WaitsFor(y, x)
    BY <1>1, <1>4
  <2> QED
    BY <2>1, <1>5 DEF Deadlocked
<1>7. CanStep(r)
  BY <1>6 DEF CanStep
<1> QED
  BY <1>5, <1>7

\* Whatever rows the runs insert and in whatever order, a group of runs that
\* waits for nobody outside always has one whose client or server can step
\* (ingestion/loader.py:124, the unique index and its deadlock detector).
THEOREM NobodyWaitsForNobody == Spec => []NoGroupIsStuck
<1>1. Init => ConnectedInv
  BY DEF Init, ConnectedInv
<1>2. IInv /\ ConnectedInv /\ [Next]_vars => ConnectedInv'
  BY ConnectedStep
<1>3. IInv /\ ConnectedInv => NoGroupIsStuck
  BY NoStuckGroup
<1> QED
  BY <1>1, <1>2, <1>3, Invariance, PTL DEF Spec

-----------------------------------------------------------------------------
(* No step goes back: a measure of every execution that each of its steps, *)
(* faults included, lowers, and that no other execution touches.           *)

\* r is nearer to its end after a step; r is where it was.
Nearer(r) == Rank(r)' < Rank(r) \/ (Rank(r)' = Rank(r) /\ Left(r)' < Left(r))
Untouched(r) == /\ pc'[r] = pc[r] /\ session'[r] = session[r]
                /\ todo'[r] = todo[r] /\ statement'[r] = statement[r]

\* The measure is a number.
LEMMA RankTypes ==
  ASSUME TypeOK, NEW r \in Runs
  PROVE  PlaceRank(pc[r]) \in 0..5 /\ SessionRank(session[r]) \in 0..3
<1>1. pc[r] \in Places /\ session[r] \in {"none", "open", "broken", "closed"}
  BY DEF TypeOK
<1> QED
  BY <1>1 DEF Places, Ended, PlaceRank, SessionRank

\* A client that goes on is nearer, whatever becomes of its session.
LEMMA ForwardIsNearer ==
  ASSUME TypeOK, TypeOK', NEW r \in Runs, PlaceRank(pc'[r]) < PlaceRank(pc[r])
  PROVE  Nearer(r)
<1>1. /\ PlaceRank(pc[r]) \in 0..5 /\ SessionRank(session[r]) \in 0..3
      /\ PlaceRank(pc[r])' \in 0..5 /\ SessionRank(session[r])' \in 0..3
  <2>1. pc[r] \in Places /\ session[r] \in {"none", "open", "broken", "closed"}
    BY DEF TypeOK
  <2>2. pc'[r] \in Places /\ session'[r] \in {"none", "open", "broken", "closed"}
    BY DEF TypeOK
  <2> QED
    BY <2>1, <2>2 DEF Places, Ended, PlaceRank, SessionRank
<1>2. PlaceRank(pc[r])' = PlaceRank(pc'[r])
  BY DEF PlaceRank
<1>3. Rank(r)' < Rank(r)
  BY <1>1, <1>2 DEF Rank
<1> QED
  BY <1>3 DEF Nearer

\* So is one whose session is lost or ends while it stays.
LEMMA SessionLossIsNearer ==
  ASSUME TypeOK, TypeOK', NEW r \in Runs, pc'[r] = pc[r],
         SessionRank(session'[r]) < SessionRank(session[r])
  PROVE  Nearer(r)
<1>1. pc[r] \in Places /\ session[r] \in {"none", "open", "broken", "closed"}
      /\ session'[r] \in {"none", "open", "broken", "closed"}
  BY DEF TypeOK
<1>2. /\ PlaceRank(pc[r]) \in 0..5 /\ SessionRank(session[r]) \in 0..3
      /\ SessionRank(session'[r]) \in 0..3
  BY <1>1 DEF Places, Ended, PlaceRank, SessionRank
<1>3. Rank(r)' = 4 * PlaceRank(pc[r]) + SessionRank(session'[r])
  BY DEF Rank, PlaceRank, SessionRank
<1>4. Rank(r)' < Rank(r)
  BY <1>2, <1>3 DEF Rank
<1> QED
  BY <1>4 DEF Nearer

\* What a step leaves alone is as far as before.
LEMMA UntouchedStays ==
  ASSUME NEW o \in Runs, Untouched(o)
  PROVE  Rank(o)' = Rank(o) /\ Left(o)' = Left(o)
<1>1. Rank(o)' = Rank(o)
  BY DEF Untouched, Rank, PlaceRank, SessionRank
<1>2. Left(o)' = Left(o)
  BY DEF Untouched, Left
<1> QED
  BY <1>1, <1>2

\* A batch of a non-empty rest is not empty: the first row is in it.
LEMMA BatchFacts ==
  ASSUME NEW ps \in SUBSET Nat, ps # {}
  PROVE  Batch(ps) # {} /\ Batch(ps) \subseteq ps
<1>1. PICK m \in ps : \A k \in ps : m <= k
  BY Smallest
<1>2. {j \in ps : j < m} = {}
  <2>1. \A j \in ps : j \in Nat /\ m \in Nat /\ m <= j
    BY <1>1
  <2>2. \A j \in ps : ~(j < m)
    BY <2>1
  <2> QED
    BY <2>2
<1>3. Cardinality({j \in ps : j < m}) = 0
  BY <1>2, FS_EmptySet
<1>4. m \in Batch(ps)
  BY <1>3, BatchAssumption DEF Batch
<1> QED
  BY <1>4 DEF Batch

\* What is left to send and to insert are finitely many positions.
LEMMA FinitelyLeft ==
  ASSUME IInv, NEW r \in Runs
  PROVE  /\ IsFiniteSet(todo[r]) /\ Cardinality(todo[r]) \in Nat
         /\ IsFiniteSet(statement[r]) /\ Cardinality(statement[r]) \in Nat
         /\ todo[r] \in SUBSET Nat
<1>1. rows[r] \in Seq(Keys \cup {Malformed}) /\ todo[r] \in SUBSET Nat
  BY DEF IInv, TypeOK
<1>2. statement[r] \subseteq DOMAIN rows[r] /\ todo[r] \subseteq DOMAIN rows[r]
  BY DEF IInv, SessionInv, Unique, Valid
<1> QED
  BY <1>1, <1>2, PositionsFinite

\* Sending a batch takes its rows from two for each to one for each.
LEMMA ExecuteIsNearer ==
  ASSUME IInv, NEW r \in Runs, Execute(r)
  PROVE  Nearer(r)
<1> DEFINE B == Batch(todo[r])
<1>0. /\ IsFiniteSet(todo[r]) /\ Cardinality(todo[r]) \in Nat
      /\ todo[r] \in SUBSET Nat
  BY FinitelyLeft
<1>1. todo[r] # {} /\ statement[r] = {}
  BY DEF Execute
<1>2. B # {} /\ B \subseteq todo[r]
  BY <1>0, <1>1, BatchFacts
<1>3. /\ IsFiniteSet(B) /\ Cardinality(B) \in Nat
      /\ Cardinality(B) # 0
  BY <1>0, <1>2, FS_Subset, FS_CardinalityType, FS_EmptySet
<1>4. todo'[r] = todo[r] \ B /\ statement'[r] = B /\ pc'[r] = pc[r]
      /\ session'[r] = session[r]
  BY DEF Execute, IInv, TypeOK
<1>5. Cardinality(todo[r] \ B) = Cardinality(todo[r]) - Cardinality(B)
  <2>1. todo[r] \cap B = B
    BY <1>2
  <2> HIDE DEF B
  <2>2. Cardinality(todo[r] \ B)
          = Cardinality(todo[r]) - Cardinality(todo[r] \cap B)
    BY <1>0, FS_Difference
  <2> QED
    BY <2>1, <2>2
<1>6. Rank(r)' = Rank(r)
  BY <1>4 DEF Rank, PlaceRank, SessionRank
<1>7. Left(r)' = 2 * Cardinality(todo[r] \ B) + Cardinality(B)
  BY <1>4 DEF Left
<1>8. Left(r) = 2 * Cardinality(todo[r])
  <2>1. Cardinality(statement[r]) = 0
    BY <1>1, FS_EmptySet
  <2> QED
    BY <1>0, <2>1 DEF Left
<1> QED
  <2> HIDE DEF B
  <2> QED
    BY <1>0, <1>3, <1>5, <1>6, <1>7, <1>8 DEF Nearer

\* So does every row the server has dealt with.
LEMMA RowIsNearer ==
  ASSUME IInv, NEW r \in Runs, NEW i \in statement[r],
         statement'[r] = statement[r] \ {i}, todo'[r] = todo[r],
         pc'[r] = pc[r], session'[r] = session[r]
  PROVE  Nearer(r)
<1>1. /\ IsFiniteSet(todo[r]) /\ Cardinality(todo[r]) \in Nat
      /\ IsFiniteSet(statement[r]) /\ Cardinality(statement[r]) \in Nat
  BY FinitelyLeft
<1>2. Cardinality(statement[r] \ {i}) = Cardinality(statement[r]) - 1
  BY <1>1, FS_RemoveElement
<1>3. Rank(r)' = Rank(r)
  BY DEF Rank, PlaceRank, SessionRank
<1>4. Left(r)' = 2 * Cardinality(todo[r]) + Cardinality(statement[r] \ {i})
  BY DEF Left
<1> QED
  BY <1>1, <1>2, <1>3, <1>4 DEF Nearer, Left

\* An error of a statement ends the load, or the session nobody reads from.
LEMMA AbortIsNearer ==
  ASSUME IInv, TypeOK', NEW r \in Runs, AbortStatement(r),
         statement[r] # {} \/ InTransaction(r)
  PROVE  Nearer(r)
<1>0. pc \in [Runs -> Places]
      /\ session \in [Runs -> {"none", "open", "broken", "closed"}]
  BY DEF IInv, TypeOK
<1>1. CASE InTransaction(r)
  <2>1. pc'[r] = "failing" /\ pc[r] = "inserting"
    BY <1>0, <1>1 DEF AbortStatement, Goto, InTransaction
  <2>2. PlaceRank(pc'[r]) < PlaceRank(pc[r])
    BY <2>1 DEF PlaceRank, Ended
  <2> QED
    BY <2>2, ForwardIsNearer DEF IInv
<1>2. CASE ~InTransaction(r)
  <2>1. session[r] = "broken"
    BY <1>0, <1>2 DEF IInv, SessionInv, InTransaction
  <2>2. pc'[r] = pc[r] /\ session'[r] = "closed"
    BY <1>0, <1>2, <2>1 DEF AbortStatement, RollBack
  <2>3. SessionRank(session'[r]) < SessionRank(session[r])
    BY <2>1, <2>2 DEF SessionRank
  <2> QED
    BY <2>2, <2>3, SessionLossIsNearer DEF IInv
<1> QED
  BY <1>1, <1>2

\* Every step of an execution brings it nearer to its end, a fault as well.
LEMMA StepIsNearer ==
  ASSUME IInv, TypeOK', NEW r \in Runs, ServerStep(r) \/ ClientStep(r) \/ Fault(r)
  PROVE  Nearer(r)
<1>0. /\ TypeOK
      /\ pc \in [Runs -> Places]
      /\ session \in [Runs -> {"none", "open", "broken", "closed"}]
      /\ statement \in [Runs -> SUBSET Nat]
  BY DEF IInv, TypeOK
<1>1. CASE InsertRow(r)
  <2>1. PICK i \in statement[r] : statement' = [statement EXCEPT ![r] = @ \ {i}]
    BY <1>1 DEF InsertRow
  <2>2. /\ statement'[r] = statement[r] \ {i} /\ todo'[r] = todo[r]
        /\ pc'[r] = pc[r] /\ session'[r] = session[r]
    BY <1>0, <2>1, <1>1 DEF InsertRow, client
  <2> QED
    BY <2>2, RowIsNearer
<1>2. CASE SkipRow(r)
  <2>1. PICK i \in statement[r] : statement' = [statement EXCEPT ![r] = @ \ {i}]
    BY <1>2 DEF SkipRow
  <2>2. /\ statement'[r] = statement[r] \ {i} /\ todo'[r] = todo[r]
        /\ pc'[r] = pc[r] /\ session'[r] = session[r]
    BY <1>0, <2>1, <1>2 DEF SkipRow, client
  <2> QED
    BY <2>2, RowIsNearer
<1>3. CASE RowRefused(r)
  BY <1>0, <1>3, AbortIsNearer DEF RowRefused
<1>4. CASE DeadlockVictim(r)
  <2>1. statement[r] # {}
    BY <1>4 DEF DeadlockVictim, Deadlocked, WaitsFor
  <2> QED
    BY <1>0, <2>1, <1>4, AbortIsNearer DEF DeadlockVictim
<1>5. CASE StatementFails(r)
  BY <1>0, <1>5, AbortIsNearer DEF StatementFails, LoadIsSent
<1>6. CASE Execute(r)
  BY <1>6, ExecuteIsNearer
<1>7. CASE LoseConnection(r)
  <2>1. /\ pc'[r] = pc[r] /\ session[r] = "open" /\ session'[r] = "broken"
    BY <1>0, <1>7 DEF LoseConnection, RollBack, client
  <2>2. SessionRank(session'[r]) < SessionRank(session[r])
    BY <2>1 DEF SessionRank
  <2> QED
    BY <1>0, <2>1, <2>2, SessionLossIsNearer
<1>8. CASE SessionEnds(r)
  <2>1. /\ pc'[r] = pc[r] /\ session[r] = "broken" /\ session'[r] = "closed"
    BY <1>0, <1>8 DEF SessionEnds, RollBack, client
  <2>2. SessionRank(session'[r]) < SessionRank(session[r])
    BY <2>1 DEF SessionRank
  <2> QED
    BY <1>0, <2>1, <2>2, SessionLossIsNearer
<1>9. CASE StartRun(r)
  <2>1. pc[r] = "idle" /\ pc'[r] = "fetching"
    BY <1>0, <1>9 DEF StartRun, Goto
  <2>2. PlaceRank(pc'[r]) < PlaceRank(pc[r])
    BY <2>1 DEF PlaceRank, Ended
  <2> QED
    BY <1>0, <2>2, ForwardIsNearer
<1>10. CASE StartFails(r)
  <2>1. pc[r] = "idle" /\ pc'[r] = "raised"
    BY <1>0, <1>10 DEF StartFails, Goto
  <2>2. PlaceRank(pc'[r]) < PlaceRank(pc[r])
    BY <2>1 DEF PlaceRank, Ended
  <2> QED
    BY <1>0, <2>2, ForwardIsNearer
<1>11. CASE StartReplyLost(r)
  <2>1. pc[r] = "idle" /\ pc'[r] = "raised"
    BY <1>0, <1>11 DEF StartReplyLost, Goto
  <2>2. PlaceRank(pc'[r]) < PlaceRank(pc[r])
    BY <2>1 DEF PlaceRank, Ended
  <2> QED
    BY <1>0, <2>2, ForwardIsNearer
<1>12. CASE Fetch(r)
  <2>1. pc[r] = "fetching" /\ pc'[r] \in {"inserting", "finishing"}
    BY <1>0, <1>12 DEF Fetch, Goto
  <2>2. PlaceRank(pc'[r]) < PlaceRank(pc[r])
    BY <2>1 DEF PlaceRank, Ended
  <2> QED
    BY <1>0, <2>2, ForwardIsNearer
<1>13. CASE FetchFails(r)
  <2>1. pc[r] = "fetching" /\ pc'[r] = "failing"
    BY <1>0, <1>13 DEF FetchFails, Goto
  <2>2. PlaceRank(pc'[r]) < PlaceRank(pc[r])
    BY <2>1 DEF PlaceRank, Ended
  <2> QED
    BY <1>0, <2>2, ForwardIsNearer
<1>14. CASE CommitLoad(r)
  <2>1. pc[r] = "inserting" /\ pc'[r] = "finishing"
    BY <1>0, <1>14 DEF CommitLoad, Goto, LoadIsSent, InTransaction
  <2>2. PlaceRank(pc'[r]) < PlaceRank(pc[r])
    BY <2>1 DEF PlaceRank, Ended
  <2> QED
    BY <1>0, <2>2, ForwardIsNearer
<1>15. CASE CommitReplyLost(r)
  <2>1. pc[r] = "inserting" /\ pc'[r] = "failing"
    BY <1>0, <1>15 DEF CommitReplyLost, Goto, LoadIsSent, InTransaction
  <2>2. PlaceRank(pc'[r]) < PlaceRank(pc[r])
    BY <2>1 DEF PlaceRank, Ended
  <2> QED
    BY <1>0, <2>2, ForwardIsNearer
<1>16. CASE FinishSucceeded(r)
  <2>1. pc[r] = "finishing" /\ pc'[r] = "done"
    BY <1>0, <1>16 DEF FinishSucceeded, Goto
  <2>2. PlaceRank(pc'[r]) < PlaceRank(pc[r])
    BY <2>1 DEF PlaceRank, Ended
  <2> QED
    BY <1>0, <2>2, ForwardIsNearer
<1>17. CASE FinishReplyLost(r)
  <2>1. pc[r] = "finishing" /\ pc'[r] = "failing"
    BY <1>0, <1>17 DEF FinishReplyLost, Goto
  <2>2. PlaceRank(pc'[r]) < PlaceRank(pc[r])
    BY <2>1 DEF PlaceRank, Ended
  <2> QED
    BY <1>0, <2>2, ForwardIsNearer
<1>18. CASE FinishFails(r)
  <2>1. \/ pc[r] = "finishing" /\ pc'[r] = "failing"
        \/ pc[r] = "failing" /\ pc'[r] = "raised"
    BY <1>0, <1>18 DEF FinishFails, Goto
  <2>2. PlaceRank(pc'[r]) < PlaceRank(pc[r])
    BY <2>1 DEF PlaceRank, Ended
  <2> QED
    BY <1>0, <2>2, ForwardIsNearer
<1>19. CASE FinishFailed(r)
  <2>1. pc[r] = "failing" /\ pc'[r] = "raised"
    BY <1>0, <1>19 DEF FinishFailed, Goto
  <2>2. PlaceRank(pc'[r]) < PlaceRank(pc[r])
    BY <2>1 DEF PlaceRank, Ended
  <2> QED
    BY <1>0, <2>2, ForwardIsNearer
<1>20. CASE NoticeLostConnection(r)
  <2>1. \/ pc[r] \in {"inserting", "finishing"} /\ pc'[r] = "failing"
        \/ pc[r] = "failing" /\ pc'[r] = "raised"
    BY <1>0, <1>20 DEF NoticeLostConnection, Goto
  <2>2. PlaceRank(pc'[r]) < PlaceRank(pc[r])
    BY <2>1 DEF PlaceRank, Ended
  <2> QED
    BY <1>0, <2>2, ForwardIsNearer
<1>21. CASE Crash(r)
  <2>1. pc[r] \in {"fetching", "inserting", "finishing", "failing"} /\ pc'[r] = "dead"
    BY <1>0, <1>21 DEF Crash, Goto
  <2>2. PlaceRank(pc'[r]) < PlaceRank(pc[r])
    BY <2>1 DEF PlaceRank, Ended
  <2> QED
    BY <1>0, <2>2, ForwardIsNearer
<1> QED
  BY <1>1, <1>2, <1>3, <1>4, <1>5, <1>6, <1>7, <1>8, <1>9, <1>10, <1>11, <1>12, <1>13, <1>14, <1>15, <1>16, <1>17, <1>18, <1>19, <1>20, <1>21
     DEF ServerStep, ClientStep, Fault

\* And no other execution is touched by it.
LEMMA OthersUntouched ==
  ASSUME IInv, NEW r \in Runs, ServerStep(r) \/ ClientStep(r) \/ Fault(r),
         NEW o \in Runs \ {r}
  PROVE  Untouched(o)
<1>0. /\ pc \in [Runs -> Places]
      /\ session \in [Runs -> {"none", "open", "broken", "closed"}]
      /\ todo \in [Runs -> SUBSET Nat] /\ statement \in [Runs -> SUBSET Nat]
  BY DEF IInv, TypeOK
<1> USE DEF Goto, RollBack, CommitRows, client, server, Untouched
<1>1. CASE ServerStep(r)
  BY <1>0, <1>1 DEF ServerStep, InsertRow, SkipRow, RowRefused, DeadlockVictim,
     SessionEnds, AbortStatement
<1>2. CASE ClientStep(r)
  <2>1. CASE StartRun(r) \/ Fetch(r) \/ Execute(r)
    BY <1>0, <2>1 DEF StartRun, Fetch, Execute
  <2>2. CASE CommitLoad(r) \/ NoticeLostConnection(r)
    BY <1>0, <2>2 DEF CommitLoad, NoticeLostConnection
  <2>3. CASE FinishSucceeded(r) \/ FinishFailed(r)
    BY <1>0, <2>3 DEF FinishSucceeded, FinishFailed
  <2> QED
    BY <1>2, <2>1, <2>2, <2>3 DEF ClientStep
<1>3. CASE Fault(r)
  <2>1. CASE StartFails(r) \/ StartReplyLost(r) \/ FetchFails(r)
    BY <1>0, <2>1 DEF StartFails, StartReplyLost, FetchFails
  <2>2. CASE StatementFails(r)
    BY <1>0, <2>2 DEF StatementFails, AbortStatement
  <2>3. CASE CommitReplyLost(r) \/ FinishReplyLost(r) \/ FinishFails(r)
    BY <1>0, <2>3 DEF CommitReplyLost, FinishReplyLost, FinishFails
  <2>4. CASE LoseConnection(r) \/ Crash(r)
    BY <1>0, <2>4 DEF LoseConnection, Crash
  <2> QED
    BY <1>3, <2>1, <2>2, <2>3, <2>4 DEF Fault
<1> QED
  BY <1>1, <1>2, <1>3

\* Executions only go forward: no error makes the loader or the handler of
\* ingest_once try again what it has done, so an execution takes finitely
\* many steps (ingestion/run.py, ingestion/loader.py:112-131).
THEOREM NoStepGoesBack == Spec => StepsLeadOn
<1> DEFINE LeadsOn ==
      \E r \in Runs :
        /\ Rank(r)' < Rank(r) \/ (Rank(r)' = Rank(r) /\ Left(r)' < Left(r))
        /\ \A o \in Runs \ {r} : Rank(o)' = Rank(o) /\ Left(o)' = Left(o)
<1>1. IInv /\ [Next]_vars => [LeadsOn]_vars
  <2> SUFFICES ASSUME IInv, Next PROVE LeadsOn
    OBVIOUS
  <2>1. PICK r \in Runs : ServerStep(r) \/ ClientStep(r) \/ Fault(r)
    BY DEF Next
  <2>2. TypeOK'
    BY NextInv DEF IInv
  <2>3. Nearer(r)
    BY <2>1, <2>2, StepIsNearer
  <2>4. \A o \in Runs \ {r} : Rank(o)' = Rank(o) /\ Left(o)' = Left(o)
    BY <2>1, OthersUntouched, UntouchedStays
  <2> QED
    BY <2>3, <2>4 DEF Nearer
<1> QED
  BY <1>1, Invariance, PTL DEF Spec, StepsLeadOn

-----------------------------------------------------------------------------
(* Ingestion implements LandingZone.                                       *)

\* An empty database is an empty landing zone.
LEMMA ZoneInit == Init => Zone!Init
  BY DEF Init, Zone!Init, TallyOf

\* The commit of a load is the zone's Load of the pending keys.
LEMMA CommitIsLoad ==
  ASSUME IInv, NEW r \in Runs, LoadIsSent(r), CommitRows(r), UNCHANGED ledger
  PROVE  Zone!Next
<1>1. status[r] = "running" /\ Owned(r) = {} /\ pending[r] \in SUBSET Keys
  BY DEF LoadIsSent, InTransaction, IInv, StatusInv, OwnerInv, TypeOK
<1>2. \A k \in pending[r] : landed[k] = NoRun
  BY <1>1 DEF IInv, OneInserterPerKey, Landed
<1>3. Zone!Load(r, pending[r])
  <2>1. landed' = [k \in Keys |-> IF k \in pending[r] /\ landed[k] = NoRun
                                   THEN r ELSE landed[k]]
    BY <1>2 DEF CommitRows
  <2> QED
    BY <1>1, <2>1 DEF Zone!Load, Zone!Owned, Owned, ledger, TallyOf
<1> QED
  BY <1>1, <1>3 DEF Zone!Next

\* start_run is the zone's Begin.
LEMMA RecordIsBegin ==
  ASSUME IInv, NEW r \in Runs, pc[r] = "idle", UNCHANGED landed,
         Record(r, "running", NoCounts)
  PROVE  Zone!Next
<1>1. status[r] = "absent" /\ counts[r] = NoCounts
  BY DEF IInv, StatusInv
<1>2. counts' = counts
  BY <1>1 DEF Record, IInv, TypeOK
<1>3. Zone!Begin(r)
  BY <1>1, <1>2 DEF Zone!Begin, Record, TallyOf
<1> QED
  BY <1>3 DEF Zone!Next

\* finish_run("succeeded") is the zone's Succeed.
LEMMA RecordIsSucceed ==
  ASSUME IInv, NEW r \in Runs, pc[r] = "finishing", UNCHANGED landed,
         Record(r, "succeeded", FinalCounts(r))
  PROVE  Zone!Next
<1>1. status[r] = "running" /\ inserted[r] = Cardinality(Owned(r))
  BY DEF IInv, StatusInv, OwnerInv
<1>2. FinalCounts(r) # NoCounts /\ FinalCounts(r).inserted = inserted[r]
  BY FinalCountsType, CountsAssumption DEF FinalCounts, IInv
<1>3. counts \in [Runs -> Counts \cup {NoCounts}]
  BY DEF IInv, TypeOK
<1>4. \A q \in Runs : TallyOf(q)' = IF q = r THEN Cardinality(Owned(r))
                                             ELSE TallyOf(q)
  BY <1>1, <1>2, <1>3 DEF Record, TallyOf
<1>5. [q \in Runs |-> TallyOf(q)]'
        = [[q \in Runs |-> TallyOf(q)] EXCEPT ![r] = Cardinality(Owned(r))]
  BY <1>4
<1>6. Zone!Owned(r) = Owned(r)
  BY DEF Zone!Owned, Owned
<1>7. status' = [status EXCEPT ![r] = "succeeded"]
  BY DEF Record
<1>8. Zone!Cardinality(Owned(r)) = Cardinality(Owned(r))
  BY DEF Zone!Cardinality, Cardinality
<1>9. Zone!Succeed(r)
  BY <1>1, <1>5, <1>6, <1>7, <1>8 DEF Zone!Succeed
<1> QED
  BY <1>9 DEF Zone!Next

\* finish_run("failed") is the zone's Fail.
LEMMA RecordIsFail ==
  ASSUME IInv, NEW r \in Runs, pc[r] = "failing", session[r] = "open",
         UNCHANGED landed, Record(r, "failed", NoCounts)
  PROVE  Zone!Next
<1>1. status[r] = "running" /\ counts[r] = NoCounts
  BY DEF IInv, StatusInv
<1>2. counts' = counts
  BY <1>1 DEF Record, IInv, TypeOK
<1>3. Zone!Fail(r)
  BY <1>1, <1>2 DEF Zone!Fail, Record, TallyOf
<1> QED
  BY <1>3 DEF Zone!Next

\* A step that leaves both tables alone is a stutter of the zone.
LEMMA HiddenStep ==
  ASSUME UNCHANGED <<landed, status, counts>>
  PROVE  UNCHANGED Zone!zone
  BY DEF Zone!zone, TallyOf

\* Every step of the executions is a step of the landing zone or hidden.
LEMMA ZoneStep == IInv /\ [Next]_vars => [Zone!Next]_(Zone!zone)
<1> SUFFICES ASSUME IInv, [Next]_vars PROVE Zone!Next \/ UNCHANGED Zone!zone
  OBVIOUS
<1>1. CASE UNCHANGED vars
  BY <1>1, HiddenStep DEF vars
<1>2. ASSUME NEW r \in Runs, ServerStep(r)
      PROVE  UNCHANGED Zone!zone
  BY <1>2, HiddenStep
  DEF ServerStep, InsertRow, SkipRow, RowRefused, DeadlockVictim, SessionEnds,
      AbortStatement, RollBack, ledger
<1>3. ASSUME NEW r \in Runs, ClientStep(r)
      PROVE  Zone!Next \/ UNCHANGED Zone!zone
  <2>1. CASE StartRun(r)
    BY <2>1, RecordIsBegin DEF StartRun
  <2>2. CASE Fetch(r) \/ Execute(r) \/ NoticeLostConnection(r)
    BY <2>2, HiddenStep DEF Fetch, Execute, NoticeLostConnection, server, ledger
  <2>3. CASE CommitLoad(r)
    BY <2>3, CommitIsLoad DEF CommitLoad
  <2>4. CASE FinishSucceeded(r)
    BY <2>4, RecordIsSucceed DEF FinishSucceeded, RollBack
  <2>5. CASE FinishFailed(r)
    BY <2>5, RecordIsFail DEF FinishFailed, RollBack
  <2> QED
    BY <1>3, <2>1, <2>2, <2>3, <2>4, <2>5 DEF ClientStep
<1>4. ASSUME NEW r \in Runs, Fault(r)
      PROVE  Zone!Next \/ UNCHANGED Zone!zone
  <2>1. CASE StartReplyLost(r)
    BY <2>1, RecordIsBegin DEF StartReplyLost
  <2>2. CASE CommitReplyLost(r)
    BY <2>2, CommitIsLoad DEF CommitReplyLost
  <2>3. CASE FinishReplyLost(r)
    BY <2>3, RecordIsSucceed DEF FinishReplyLost, RollBack
  <2>4. CASE StartFails(r) \/ FetchFails(r) \/ StatementFails(r)
               \/ FinishFails(r) \/ LoseConnection(r) \/ Crash(r)
    BY <2>4, HiddenStep
    DEF StartFails, FetchFails, StatementFails, FinishFails, LoseConnection,
        Crash, AbortStatement, RollBack, server, ledger
  <2> QED
    BY <1>4, <2>1, <2>2, <2>3, <2>4 DEF Fault
<1> QED
  BY <1>1, <1>2, <1>3, <1>4 DEF Next

\* The executions, with their batches, locks, lost replies and crashes,
\* implement the landing zone: every step is one of its steps or a stutter.
THEOREM Refinement == Spec => ImplementsLandingZone
<1>1. Init => Zone!Init
  BY ZoneInit
<1>2. IInv /\ [Next]_vars => [Zone!Next]_(Zone!zone)
  BY ZoneStep
<1> QED
  BY <1>1, <1>2, Invariance, PTL DEF Spec, ImplementsLandingZone, Zone!Spec
-----------------------------------------------------------------------------
(* What parser and table make of a row, whatever is in its fields.         *)

\* The fields, one by one.
LEMMA FieldsFacts ==
  /\ DOMAIN Fields = 1..10
  /\ Fields[1] = "icao24" /\ Fields[2] = "last_contact"
  /\ Fields[3] = "time_position" /\ Fields[4] = "on_ground"
  /\ Fields[5] = "longitude" /\ Fields[6] = "true_track"
  /\ Fields[7] = "callsign" /\ Fields[8] = "baro_altitude"
  /\ Fields[9] = "position_source" /\ Fields[10] = "category"
  BY DEF Fields

\* The fields as a set.
LEMMA FieldSetIs ==
  FieldSet = {"icao24", "last_contact", "time_position", "on_ground",
              "longitude", "true_track", "callsign", "baro_altitude",
              "position_source", "category"}
<1>1. DOMAIN Fields = {1, 2, 3, 4, 5, 6, 7, 8, 9, 10}
  BY FieldsFacts
<1> QED
  BY <1>1, FieldsFacts DEF FieldSet

\* A field that the parser passes is one the table takes, and one that makes
\* it raise is a gap.
LEMMA FieldCovered ==
  ASSUME NEW f \in FieldSet, NEW v \in Values
  PROVE  /\ FieldVerdict(f, v) \in {"ok", "rejected", "raises"}
         /\ FieldVerdict(f, v) = "ok" => ColumnTakes(f, v) \/ <<f, v>> \in Gaps
         /\ FieldVerdict(f, v) = "raises" => <<f, v>> \in Gaps
<1> USE DEF FieldVerdict, ColumnTakes, Gaps, Values, Numbers, Texts
<1>1. CASE f = "icao24"
  BY <1>1 DEF Icao24
<1>2. CASE f = "last_contact"
  BY <1>2 DEF Epoch
<1>3. CASE f = "time_position"
  BY <1>3 DEF OptionalEpoch, Epoch
<1>4. CASE f = "on_ground"
  BY <1>4 DEF OnGround
<1>5. CASE f \in {"longitude", "true_track"}
  BY <1>5 DEF Bounded, OptionalFloat
<1>6. CASE f = "callsign"
  BY <1>6 DEF OptionalText
<1>7. CASE f = "baro_altitude"
  BY <1>7 DEF OptionalFloat
<1>8. CASE f \in {"position_source", "category"}
  BY <1>8 DEF OptionalInt
<1> QED
  BY <1>1, <1>2, <1>3, <1>4, <1>5, <1>6, <1>7, <1>8, FieldSetIs

\* What a cell holds is a value, whatever the shape of its row.
LEMMA CellTypes ==
  ASSUME NEW row \in Row, NEW f \in FieldSet
  PROVE  Cell(row, f) \in Values
  BY DEF Row, Cell, Values

\* The verdict of the cells is "ok", or that of one of the faulty ones.
LEMMA VerdictOfAField ==
  ASSUME NEW row
  PROVE  \/ /\ FirstVerdict(row) = "ok"
            /\ \A f \in FieldSet : FieldVerdict(f, Cell(row, f)) = "ok"
         \/ \E f \in FieldSet :
              /\ FieldVerdict(f, Cell(row, f)) # "ok"
              /\ FirstVerdict(row) = FieldVerdict(f, Cell(row, f))
<1> DEFINE faulty == {i \in DOMAIN Fields :
                        FieldVerdict(Fields[i], Cell(row, Fields[i])) # "ok"}
<1>1. CASE faulty = {}
  BY <1>1 DEF FirstVerdict, FieldSet
<1>2. CASE faulty # {}
  <2>1. \E i \in faulty : \A j \in faulty : i <= j
    <3>1. faulty \subseteq Nat
      BY FieldsFacts
    <3> HIDE DEF faulty
    <3> QED
      BY <1>2, <3>1, Smallest
  <2> DEFINE first == CHOOSE i \in faulty : \A j \in faulty : i <= j
  <2>2. first \in faulty
    <3> HIDE DEF faulty
    <3> QED
      BY <2>1
  <2>3. FirstVerdict(row) = FieldVerdict(Fields[first], Cell(row, Fields[first]))
    BY <1>2 DEF FirstVerdict
  <2>4. /\ Fields[first] \in FieldSet
        /\ FieldVerdict(Fields[first], Cell(row, Fields[first])) # "ok"
    BY <2>2 DEF FieldSet
  <2> HIDE DEF first
  <2> QED
    BY <2>3, <2>4
<1> QED
  BY <1>1, <1>2

\* Whatever the shape of a row and whatever is in any number of its cells, it
\* is rejected alone or is loaded, unless a cell holds a gap: of the classes
\* that the module tells apart (parse_state_vector, ingestion/models.py:146-211,
\* under parse_states, :214-235).
THEOREM RowsFailAlone == \A row \in Row : FailsAlone(row) \/ HasGap(row)
<1> SUFFICES ASSUME NEW row \in Row, ~HasGap(row) PROVE FailsAlone(row)
  OBVIOUS
<1>1. \A f \in FieldSet :
        /\ FieldVerdict(f, Cell(row, f)) \in {"ok", "rejected"}
        /\ FieldVerdict(f, Cell(row, f)) = "ok" => ColumnTakes(f, Cell(row, f))
  <2> SUFFICES ASSUME NEW f \in FieldSet
               PROVE  /\ FieldVerdict(f, Cell(row, f)) \in {"ok", "rejected"}
                      /\ FieldVerdict(f, Cell(row, f)) = "ok" =>
                           ColumnTakes(f, Cell(row, f))
    OBVIOUS
  <2>1. Cell(row, f) \in Values /\ <<f, Cell(row, f)>> \notin Gaps
    BY CellTypes DEF HasGap
  <2> QED
    BY <2>1, FieldCovered
<1>2. CASE row.shape \in {"not_array", "too_short"}
  BY <1>2 DEF RowVerdict, FailsAlone
<1>3. CASE row.shape \notin {"not_array", "too_short"}
  <2>1. RowVerdict(row) = FirstVerdict(row)
    BY <1>3 DEF RowVerdict
  <2>2. \/ RowVerdict(row) = "rejected"
        \/ RowVerdict(row) = "ok"
             /\ \A f \in FieldSet : FieldVerdict(f, Cell(row, f)) = "ok"
    BY <1>1, <2>1, VerdictOfAField
  <2> QED
    BY <1>1, <2>2 DEF FailsAlone, TableTakes
<1> QED
  BY <1>2, <1>3

\* A row without an odd field passes the parser and the table.
LEMMA GoodFields ==
  /\ GoodCells \in [FieldSet -> Values]
  /\ \A f \in FieldSet : /\ FieldVerdict(f, GoodCells[f]) = "ok"
                         /\ ColumnTakes(f, GoodCells[f])
<1> USE FieldSetIs DEF GoodCells, Values, Numbers, Texts
<1>1. GoodCells \in [FieldSet -> Values]
  OBVIOUS
<1>2. ASSUME NEW f \in FieldSet
      PROVE  FieldVerdict(f, GoodCells[f]) = "ok" /\ ColumnTakes(f, GoodCells[f])
  <2>1. CASE f \in {"icao24", "callsign"}
    BY <2>1 DEF FieldVerdict, ColumnTakes, Icao24, OptionalText
  <2>2. CASE f = "on_ground"
    BY <2>2 DEF FieldVerdict, ColumnTakes, OnGround
  <2>3. CASE f \notin {"icao24", "callsign", "on_ground"}
    <3>1. GoodCells[f] = "in"
      BY <2>3
    <3> QED
      BY <2>3, <3>1 DEF FieldVerdict, ColumnTakes, Epoch, OptionalEpoch,
         Bounded, OptionalFloat, OptionalInt
  <2> QED
    BY <2>1, <2>2, <2>3
<1> QED
  BY <1>1, <1>2

\* Every gap fails the batch of an otherwise good row.
LEMMA GapsFailTheBatch ==
  ASSUME NEW gap \in Gaps
  PROVE  ~FailsAlone(OddRow(gap[1], gap[2]))
<1> DEFINE row == OddRow(gap[1], gap[2])
<1>1. /\ gap[1] \in FieldSet /\ gap[2] \in Values
      /\ FieldVerdict(gap[1], gap[2]) # "rejected"
      /\ FieldVerdict(gap[1], gap[2]) = "ok" => ~ColumnTakes(gap[1], gap[2])
  <2>1. \/ \E v \in {"long", "nul", "surrogate"} : gap = <<"icao24", v>>
        \/ \E v \in {"nul", "surrogate"} : gap = <<"callsign", v>>
        \/ \E f \in {"longitude", "true_track", "baro_altitude"} :
             gap = <<f, "huge">>
        \/ \E f \in {"position_source", "category"} :
             \E v \in {"out", "huge", "inf", "nan"} : gap = <<f, v>>
    BY DEF Gaps
  <2> USE FieldSetIs DEF Values, Numbers, Texts, FieldVerdict, ColumnTakes
  <2>2. CASE \E v \in {"long", "nul", "surrogate"} : gap = <<"icao24", v>>
    <3>1. PICK v \in {"long", "nul", "surrogate"} : gap = <<"icao24", v>>
      BY <2>2
    <3>2. gap[1] = "icao24" /\ gap[2] = v
      BY <3>1
    <3> QED
      BY <3>2 DEF Icao24
  <2>3. CASE \E v \in {"nul", "surrogate"} : gap = <<"callsign", v>>
    <3>1. PICK v \in {"nul", "surrogate"} : gap = <<"callsign", v>>
      BY <2>3
    <3>2. gap[1] = "callsign" /\ gap[2] = v
      BY <3>1
    <3> QED
      BY <3>2 DEF OptionalText
  <2>4. CASE \E f \in {"longitude", "true_track", "baro_altitude"} :
               gap = <<f, "huge">>
    <3>1. PICK f \in {"longitude", "true_track", "baro_altitude"} :
            gap = <<f, "huge">>
      BY <2>4
    <3>2. gap[1] = f /\ gap[2] = "huge"
      BY <3>1
    <3>3. FieldVerdict(f, "huge") = "raises"
      BY DEF Bounded, OptionalFloat
    <3> QED
      BY <3>2, <3>3
  <2>5. CASE \E f \in {"position_source", "category"} :
               \E v \in {"out", "huge", "inf", "nan"} : gap = <<f, v>>
    <3>1. PICK f \in {"position_source", "category"},
               v \in {"out", "huge", "inf", "nan"} : gap = <<f, v>>
      BY <2>5
    <3>2. gap[1] = f /\ gap[2] = v
      BY <3>1
    <3> QED
      BY <3>2 DEF OptionalInt
  <2> QED
    BY <2>1, <2>2, <2>3, <2>4, <2>5
<1>2. /\ row.shape = "whole" /\ Cell(row, gap[1]) = gap[2]
      /\ \A f \in FieldSet \ {gap[1]} : Cell(row, f) = GoodCells[f]
  BY <1>1, GoodFields DEF OddRow, Cell
<1>3. \A f \in FieldSet \ {gap[1]} : FieldVerdict(f, Cell(row, f)) = "ok"
  BY <1>2, GoodFields
<1> HIDE DEF row
<1>4. RowVerdict(row) = FirstVerdict(row)
  BY <1>2 DEF RowVerdict
<1>5. RowVerdict(row) # "rejected"
  BY <1>1, <1>2, <1>3, <1>4, VerdictOfAField
<1>6. RowVerdict(row) = "ok" => ~TableTakes(row)
  <2>1. RowVerdict(row) = "ok" => FieldVerdict(gap[1], gap[2]) = "ok"
    BY <1>1, <1>2, <1>4, VerdictOfAField
  <2> QED
    BY <1>1, <1>2, <2>1 DEF TableTakes
<1>7. ~FailsAlone(row)
  BY <1>5, <1>6 DEF FailsAlone
<1> QED
  BY <1>7 DEF row

\* The invariant of the runs: rows of every shape with at most two odd fields,
\* and that each gap does fail its batch.
THEOREM BadRows == Spec => []OneBadRowFailsAlone
<1>1. Rows \subseteq Row
  BY GoodFields DEF Rows, Row
<1>2. OneBadRowFailsAlone
  BY <1>1, RowsFailAlone, GapsFailTheBatch DEF OneBadRowFailsAlone
<1> QED
  BY <1>2, PTL

-----------------------------------------------------------------------------
(* The loops of parse_states and deduplicate, for every body.              *)

\* The positions of a set up to the i-th row, and what the loops have built
\* after it.
First(P, i) == {j \in P : j <= i}

LoopsUpTo(s, i) ==
  [rejected   |-> Cardinality(First(Rejected(s), i)),
   seen       |-> {s[j] : j \in First(Valid(s), i)},
   kept       |-> First(Unique(s), i),
   duplicates |-> Cardinality(First(Repeats(s), i))]

\* One row more.
LEMMA OneMore ==
  ASSUME NEW s \in Seq(Keys \cup {Malformed}), NEW P \in SUBSET DOMAIN s,
         NEW i \in 1..Len(s)
  PROVE  /\ i \in P => /\ First(P, i) = First(P, i - 1) \cup {i}
                       /\ Cardinality(First(P, i)) = Cardinality(First(P, i - 1)) + 1
         /\ i \notin P => First(P, i) = First(P, i - 1)
<1>1. DOMAIN s = 1..Len(s) /\ Len(s) \in Nat /\ i \in Nat
  OBVIOUS
<1>2. \A j \in P : j \in Nat /\ (j <= i <=> (j <= i - 1 \/ j = i))
  BY <1>1
<1>3. /\ i \in P => First(P, i) = First(P, i - 1) \cup {i}
      /\ i \notin P => First(P, i) = First(P, i - 1)
  BY <1>1, <1>2 DEF First
<1>4. IsFiniteSet(First(P, i - 1)) /\ i \notin First(P, i - 1)
  <2>1. First(P, i - 1) \in SUBSET DOMAIN s
    BY DEF First
  <2> QED
    BY <1>1, <2>1, PositionsFinite DEF First
<1> QED
  BY <1>3, <1>4, FS_AddElement

\* One turn of the loops takes what they have after i - 1 rows to what they
\* have after i.
LEMMA LoopsStep ==
  ASSUME NEW s \in Seq(Keys \cup {Malformed}), NEW i \in 1..Len(s)
  PROVE  LoopsUpTo(s, i) = Add(LoopsUpTo(s, i - 1), s, i)
<1>0. /\ DOMAIN s = 1..Len(s) /\ Len(s) \in Nat /\ i \in Nat
      /\ Valid(s) \in SUBSET DOMAIN s /\ Rejected(s) \in SUBSET DOMAIN s
      /\ Unique(s) \in SUBSET DOMAIN s /\ Repeats(s) \in SUBSET DOMAIN s
  BY DEF Valid, Rejected, Unique, Repeats
<1>m. \A P \in {Valid(s), Rejected(s), Unique(s), Repeats(s)} :
        /\ i \in P => /\ First(P, i) = First(P, i - 1) \cup {i}
                      /\ Cardinality(First(P, i))
                           = Cardinality(First(P, i - 1)) + 1
        /\ i \notin P => First(P, i) = First(P, i - 1)
  <2> SUFFICES ASSUME NEW P \in SUBSET DOMAIN s
               PROVE  /\ i \in P =>
                           /\ First(P, i) = First(P, i - 1) \cup {i}
                           /\ Cardinality(First(P, i))
                                = Cardinality(First(P, i - 1)) + 1
                      /\ i \notin P => First(P, i) = First(P, i - 1)
    BY <1>0, Zenon
  <2> QED
    BY OneMore
<1>1. CASE s[i] = Malformed
  <2>1. /\ i \in Rejected(s) /\ i \notin Valid(s) /\ i \notin Unique(s)
        /\ i \notin Repeats(s)
    BY <1>0, <1>1 DEF Rejected, Valid, Unique, Repeats
  <2>2. /\ Cardinality(First(Rejected(s), i))
             = Cardinality(First(Rejected(s), i - 1)) + 1
        /\ First(Valid(s), i) = First(Valid(s), i - 1)
        /\ First(Unique(s), i) = First(Unique(s), i - 1)
        /\ First(Repeats(s), i) = First(Repeats(s), i - 1)
    BY <1>m, <2>1
  <2> QED
    BY <1>1, <2>2 DEF LoopsUpTo, Add
<1>2. CASE s[i] # Malformed /\ s[i] \in {s[j] : j \in First(Valid(s), i - 1)}
  <2>1. PICK j \in Valid(s) : j <= i - 1 /\ s[j] = s[i]
    BY <1>2 DEF First
  <2>2. i \in Valid(s) /\ i \notin Rejected(s) /\ i \notin Unique(s) /\ i \in Repeats(s)
    BY <1>0, <1>2, <2>1 DEF Rejected, Valid, Unique, Repeats
  <2>3. /\ First(Rejected(s), i) = First(Rejected(s), i - 1)
        /\ First(Valid(s), i) = First(Valid(s), i - 1) \cup {i}
        /\ First(Unique(s), i) = First(Unique(s), i - 1)
        /\ Cardinality(First(Repeats(s), i))
             = Cardinality(First(Repeats(s), i - 1)) + 1
    BY <1>m, <2>2
  <2>4. {s[k] : k \in First(Valid(s), i)} = {s[k] : k \in First(Valid(s), i - 1)}
    BY <1>2, <2>3
  <2> QED
    BY <1>2, <2>3, <2>4 DEF LoopsUpTo, Add
<1>3. CASE s[i] # Malformed /\ s[i] \notin {s[j] : j \in First(Valid(s), i - 1)}
  <2>1. i \in Valid(s) /\ i \notin Rejected(s)
    BY <1>0, <1>3 DEF Rejected, Valid
  <2>2. i \in Unique(s)
    <3> SUFFICES ASSUME NEW j \in Valid(s), s[j] = s[i] PROVE i <= j
      BY <2>1 DEF Unique
    <3>1. j \in 1..Len(s) /\ ~(j <= i - 1)
      BY <1>0, <1>3 DEF First
    <3> QED
      BY <1>0, <3>1
  <2>3. i \notin Repeats(s)
    BY <2>2 DEF Repeats
  <2>4. /\ First(Rejected(s), i) = First(Rejected(s), i - 1)
        /\ First(Valid(s), i) = First(Valid(s), i - 1) \cup {i}
        /\ First(Unique(s), i) = First(Unique(s), i - 1) \cup {i}
        /\ First(Repeats(s), i) = First(Repeats(s), i - 1)
    BY <1>m, <2>1, <2>2, <2>3
  <2>5. {s[k] : k \in First(Valid(s), i)}
          = {s[k] : k \in First(Valid(s), i - 1)} \cup {s[i]}
    BY <2>4
  <2> QED
    BY <1>3, <2>4, <2>5 DEF LoopsUpTo, Add
<1> QED
  BY <1>1, <1>2, <1>3

\* Before the first row nothing is counted or kept.
LEMMA LoopsStart ==
  ASSUME NEW s \in Seq(Keys \cup {Malformed})
  PROVE  LoopsUpTo(s, 0) = Empty
<1>1. \A P \in SUBSET DOMAIN s : First(P, 0) = {}
  BY DEF First
<1>2. Cardinality({}) = 0
  BY FS_EmptySet
<1>3. /\ Valid(s) \in SUBSET DOMAIN s /\ Rejected(s) \in SUBSET DOMAIN s
      /\ Unique(s) \in SUBSET DOMAIN s /\ Repeats(s) \in SUBSET DOMAIN s
  BY DEF Valid, Rejected, Unique, Repeats
<1>4. /\ First(Valid(s), 0) = {} /\ First(Rejected(s), 0) = {}
      /\ First(Unique(s), 0) = {} /\ First(Repeats(s), 0) = {}
  BY <1>1, <1>3
<1>5. {s[j] : j \in {}} = {}
  OBVIOUS
<1> QED
  BY <1>2, <1>4, <1>5 DEF LoopsUpTo, Empty

\* By induction on the rows, the loops compute LoopsUpTo the last one.
LEMMA LoopsCompute ==
  ASSUME NEW s \in Seq(Keys \cup {Malformed})
  PROVE  Loops(s) = LoopsUpTo(s, Len(s))
<1> DEFINE Eq(f) == f = [i \in 0..Len(s) |->
                           IF i = 0 THEN Empty ELSE Add(f[i - 1], s, i)]
           after == CHOOSE f : Eq(f)
           G == {i \in 0..Len(s) : after[i] = LoopsUpTo(s, i)}
<1>0. Len(s) \in Nat
  OBVIOUS
<1>1. Eq([i \in 0..Len(s) |-> LoopsUpTo(s, i)])
  <2>1. ASSUME NEW i \in 0..Len(s)
        PROVE  LoopsUpTo(s, i) =
                 IF i = 0 THEN Empty
                 ELSE Add([j \in 0..Len(s) |-> LoopsUpTo(s, j)][i - 1], s, i)
    <3>1. CASE i = 0
      BY <3>1, LoopsStart
    <3>2. CASE i # 0
      <4>1. i \in 1..Len(s) /\ i - 1 \in 0..Len(s)
        BY <1>0, <2>1, <3>2
      <4>2. [j \in 0..Len(s) |-> LoopsUpTo(s, j)][i - 1] = LoopsUpTo(s, i - 1)
        BY <4>1
      <4> QED
        BY <3>2, <4>1, <4>2, LoopsStep
    <3> QED
      BY <3>1, <3>2
  <2> QED
    BY <2>1
<1>2. Eq(after)
  BY <1>1
<1>2a. /\ after[0] = Empty
       /\ \A i \in 1..Len(s) : after[i] = Add(after[i - 1], s, i)
  <2> HIDE DEF after
  <2> QED
    BY <1>0, <1>2
<1>3. Loops(s) = after[Len(s)]
  BY DEF Loops
<1>4. 0 \in G
  BY <1>0, <1>2a, LoopsStart
<1>5. ASSUME NEW k \in 0..Len(s), k \in G, k < Len(s)
      PROVE  k + 1 \in G
  <2>1. k + 1 \in 1..Len(s) /\ k + 1 \in 0..Len(s) /\ k + 1 - 1 = k /\ k + 1 # 0
    BY <1>0, <1>5
  <2>2. after[k + 1] = Add(after[k], s, k + 1)
    <3> HIDE DEF after
    <3>1. after[k + 1] = Add(after[k + 1 - 1], s, k + 1)
      BY <1>2a, <2>1
    <3> QED
      BY <2>1, <3>1
  <2>3. after[k] = LoopsUpTo(s, k)
    BY <1>5
  <2>4. LoopsUpTo(s, k + 1) = Add(LoopsUpTo(s, k), s, k + 1)
    BY <2>1, LoopsStep
  <2> QED
    BY <2>1, <2>2, <2>3, <2>4
<1>6. 0..Len(s) \subseteq G
  <2> HIDE DEF G
  <2> QED
    BY <1>0, <1>4, <1>5, InitialSegment
<1>7. Len(s) \in G
  BY <1>0, <1>6
<1> QED
  BY <1>3, <1>7

\* What the loops keep and count of a whole body.
LEMMA LoopsResult ==
  ASSUME NEW s \in Seq(Keys \cup {Malformed})
  PROVE  /\ Loops(s).kept = Unique(s)
         /\ Loops(s).rejected = Cardinality(Rejected(s))
         /\ Loops(s).duplicates = Cardinality(Repeats(s))
<1>1. ASSUME NEW P \in SUBSET DOMAIN s PROVE First(P, Len(s)) = P
  BY <1>1 DEF First
<1>2. /\ Unique(s) \in SUBSET DOMAIN s /\ Rejected(s) \in SUBSET DOMAIN s
      /\ Repeats(s) \in SUBSET DOMAIN s
  BY DEF Valid, Rejected, Unique, Repeats
<1>3. /\ First(Unique(s), Len(s)) = Unique(s)
      /\ First(Rejected(s), Len(s)) = Rejected(s)
      /\ First(Repeats(s), Len(s)) = Repeats(s)
  BY <1>1, <1>2
<1> QED
  BY <1>3, LoopsCompute DEF LoopsUpTo

\* On every body, of whatever length, the loops keep the first occurrence of
\* each key, count the rejected rows and the repeats, and lose no row
\* (parse_states and deduplicate, ingestion/models.py:225-251).
THEOREM LoopsLoseNoRow ==
  \A s \in Seq(Keys \cup {Malformed}) :
    LET out == Loops(s)
    IN /\ out.kept = Unique(s)
       /\ out.rejected = Cardinality(Rejected(s))
       /\ out.duplicates = Cardinality(Repeats(s))
       /\ out.rejected + out.duplicates + Cardinality(out.kept) = Len(s)
<1> SUFFICES ASSUME NEW s \in Seq(Keys \cup {Malformed})
             PROVE  LET out == Loops(s)
                    IN /\ out.kept = Unique(s)
                       /\ out.rejected = Cardinality(Rejected(s))
                       /\ out.duplicates = Cardinality(Repeats(s))
                       /\ out.rejected + out.duplicates
                            + Cardinality(out.kept) = Len(s)
  OBVIOUS
<1>1. /\ Loops(s).kept = Unique(s)
      /\ Loops(s).rejected = Cardinality(Rejected(s))
      /\ Loops(s).duplicates = Cardinality(Repeats(s))
  BY LoopsResult
<1>2. /\ Unique(s) \in SUBSET DOMAIN s /\ Rejected(s) \in SUBSET DOMAIN s
      /\ Repeats(s) \in SUBSET DOMAIN s
  BY DEF Valid, Rejected, Unique, Repeats
<1>3. /\ Cardinality(Unique(s)) \in Nat /\ Cardinality(Rejected(s)) \in Nat
      /\ Cardinality(Repeats(s)) \in Nat
  BY <1>2, PositionsFinite
<1>4. Len(s) = Cardinality(Rejected(s)) + Cardinality(Unique(s))
                 + Cardinality(Repeats(s))
  BY RowsAddUp
<1> QED
  BY <1>1, <1>3, <1>4

\* The invariant of the runs is an instance: bodies of up to five rows.
THEOREM FirstOccurrencesWin == Spec => []LoopsKeepFirst
<1>1. BodiesUpTo(5) \subseteq Seq(Keys \cup {Malformed})
  <2> SUFFICES ASSUME NEW s \in BodiesUpTo(5)
               PROVE  s \in Seq(Keys \cup {Malformed})
    OBVIOUS
  <2>1. PICK m \in 0..5 : s \in [1..m -> Keys \cup {Malformed}]
    BY DEF BodiesUpTo
  <2>2. m \in Nat
    OBVIOUS
  <2> QED
    BY <2>1, <2>2
<1>2. LoopsKeepFirst
  BY <1>1, LoopsLoseNoRow DEF LoopsKeepFirst
<1> QED
  BY <1>2, PTL
=============================================================================
