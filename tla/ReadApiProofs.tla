---------------------------- MODULE ReadApiProofs ----------------------------
(***************************************************************************)
(* Proofs about ReadApi and MartPublication, for any clients, connections, *)
(* threads, marts and restarts.                                            *)
(***************************************************************************)
EXTENDS ReadApi, FiniteSetTheorems, TLAPS

USE DEF Stages, Answers

\* Each step of dbt keeps the invariant of what it publishes.
LEMMA PublicationStep ==
  ASSUME PublicationInv, PublicationNext
  PROVE  PublicationInv'
<1> USE MartsAssumption
      DEF PublicationInv, PublicationTypeOK, Built
<1>1. CASE StartDbt
  BY <1>1 DEF StartDbt
<1>2. CASE GrantAndEnd
  BY <1>2 DEF GrantAndEnd
<1>3. CASE KillDbt
  BY <1>3 DEF KillDbt
<1>4. ASSUME NEW m \in Marts, ReplaceMart(m)
      PROVE  PublicationInv'
  BY <1>4 DEF ReplaceMart
<1>5. ASSUME NEW m \in Marts, ExtendMart(m)
      PROVE  PublicationInv'
  BY <1>5 DEF ExtendMart
<1>6. ASSUME NEW m \in Marts, MartFails(m)
      PROVE  PublicationInv'
  BY <1>6 DEF MartFails
<1>. QED
  BY <1>1, <1>2, <1>3, <1>4, <1>5, <1>6 DEF PublicationNext

\* Whatever a request, the pool or the database does, the marts stay as they
\* are; dbt leaves requests and pool alone.
LEMMA PublicationKept ==
  PublicationInv /\ [Next]_vars => PublicationInv'
<1> SUFFICES ASSUME PublicationInv, [Next]_vars
             PROVE  PublicationInv'
  OBVIOUS
<1>1. CASE UNCHANGED publication
  BY <1>1 DEF publication, PublicationInv, PublicationTypeOK, Built
<1>2. CASE PublicationNext
  BY <1>2, PublicationStep
<1>3. Next => PublicationNext \/ UNCHANGED publication
  BY DEF Next, RequestStep, Arrive, Enter, Borrow, GiveUp, Run, Query,
         QueryFails, Reply, Leave, Open, Restart, Publish
<1>. QED
  BY <1>1, <1>2, <1>3 DEF vars

\* A mart answers the reader with one of the answers there are.
LEMMA OutcomeType ==
  ASSUME PublicationTypeOK, NEW m \in Marts
  PROVE  Outcome(m) \in {"rows", "not_ready", "denied"}
  BY DEF PublicationTypeOK, Outcome

LEMMA TypeStep ==
  TypeOK /\ PublicationInv' /\ HoldInv /\ [Next]_vars => TypeOK'
<1> SUFFICES ASSUME TypeOK, PublicationInv', HoldInv, [Next]_vars
             PROVE  TypeOK'
  OBVIOUS
<1>0. PublicationTypeOK'
  BY DEF PublicationInv
<1> USE LimitsAssumption, ConnectionsAssumption DEF TypeOK, Goto, Answer, Leaves
<1>1. ASSUME NEW r \in Clients, Arrive(r)
      PROVE  TypeOK'
  BY <1>0, <1>1 DEF Arrive
<1>2. ASSUME NEW r \in Clients, RequestStep(r)
      PROVE  TypeOK'
  <2>1. CASE Enter(r)
    BY <1>0, <2>1 DEF Enter
  <2>2. CASE Borrow(r)
    BY <1>0, <2>2 DEF Borrow, Idle, Lent
  <2>3. CASE GiveUp(r)
    BY <1>0, <2>3 DEF GiveUp
  <2>4. CASE Run(r)
    BY <1>0, <2>4 DEF Run
  <2>5. CASE Query(r)
    BY <1>0, <2>5, OutcomeType DEF Query
  <2>6. CASE QueryFails(r)
    BY <1>0, <2>6 DEF QueryFails, HoldInv
  <2>7. CASE Reply(r)
    BY <1>0, <2>7 DEF Reply
  <2>8. CASE Leave(r)
    BY <1>0, <2>8 DEF Leave, Return
  <2>. QED
    BY <1>2, <2>1, <2>2, <2>3, <2>4, <2>5, <2>6, <2>7, <2>8 DEF RequestStep
<1>3. ASSUME NEW c \in Connections, Open(c)
      PROVE  TypeOK'
  BY <1>0, <1>3 DEF Open
<1>4. CASE Restart
  BY <1>0, <1>4 DEF Restart
<1>5. CASE Publish
  BY <1>0, <1>5 DEF Publish, service
<1>6. CASE UNCHANGED vars
  BY <1>0, <1>6 DEF vars, service
<1>. QED
  BY <1>1, <1>2, <1>3, <1>4, <1>5, <1>6 DEF Next

\* A connection is lent to one request at a time, and what is lent is open.
LEMMA HoldStep ==
  TypeOK /\ TypeOK' /\ HoldInv /\ [Next]_vars => HoldInv'
<1> SUFFICES ASSUME TypeOK, TypeOK', HoldInv, [Next]_vars
             PROVE  HoldInv'
  OBVIOUS
<1> USE ConnectionsAssumption DEF TypeOK, HoldInv, Goto, Answer, Leaves
<1>1. ASSUME NEW r \in Clients, Arrive(r)
      PROVE  HoldInv'
  BY <1>1 DEF Arrive
<1>2. ASSUME NEW r \in Clients, RequestStep(r)
      PROVE  HoldInv'
  <2>1. CASE Enter(r)
    BY <2>1 DEF Enter
  <2>2. CASE Borrow(r)
    BY <2>2 DEF Borrow, Idle, Lent
  <2>3. CASE GiveUp(r)
    BY <2>3 DEF GiveUp
  <2>4. CASE Run(r)
    BY <2>4 DEF Run
  <2>5. CASE Query(r)
    BY <2>5, OutcomeType DEF Query
  <2>6. CASE QueryFails(r)
    BY <2>6 DEF QueryFails
  <2>7. CASE Reply(r)
    BY <2>7 DEF Reply
  <2>8. CASE Leave(r)
    BY <2>8 DEF Leave, Return
  <2>. QED
    BY <1>2, <2>1, <2>2, <2>3, <2>4, <2>5, <2>6, <2>7, <2>8 DEF RequestStep
<1>3. ASSUME NEW c \in Connections, Open(c)
      PROVE  HoldInv'
  BY <1>3 DEF Open
<1>4. CASE Restart
  BY <1>4 DEF Restart
<1>5. CASE Publish
  BY <1>5 DEF Publish, service
<1>6. CASE UNCHANGED vars
  BY <1>6 DEF vars, service
<1>. QED
  BY <1>1, <1>2, <1>3, <1>4, <1>5, <1>6 DEF Next
\* No more requests hold a thread than there are.
LEMMA ThreadStep ==
  TypeOK /\ ThreadInv /\ [Next]_vars => ThreadInv'
<1> SUFFICES ASSUME TypeOK, ThreadInv, [Next]_vars
             PROVE  ThreadInv'
  OBVIOUS
<1>1. IsFiniteSet(Busy) /\ Cardinality(Busy) \in Nat
  <2>1. Busy \subseteq Clients
    BY DEF Busy, Stage
  <2>. QED
    BY <2>1, FS_Subset, FS_CardinalityType, ClientsAssumption
<1>2. ASSUME Busy' \subseteq Busy
      PROVE  ThreadInv'
  <2>1. Cardinality(Busy') <= Cardinality(Busy) /\ Cardinality(Busy') \in Nat
    BY <1>1, <1>2, FS_Subset, FS_CardinalityType
  <2>. QED
    BY <1>1, <2>1, LimitsAssumption DEF ThreadInv
<1>3. ASSUME NEW r \in Clients, Busy' = Busy \cup {r}, ThreadIsFree
      PROVE  ThreadInv'
  <2>1. Cardinality(Busy \cup {r}) <= Cardinality(Busy) + 1
    BY <1>1, FS_AddElement
  <2>2. Cardinality(Busy \cup {r}) \in Nat
    BY <1>1, FS_AddElement, FS_CardinalityType
  <2>. QED
    BY <1>1, <1>3, <2>1, <2>2, LimitsAssumption DEF ThreadInv, ThreadIsFree
<1> USE DEF TypeOK, Goto, Leaves, Busy, Stage
<1>4. ASSUME NEW r \in Clients, Enter(r) \/ Run(r)
      PROVE  Busy' = Busy \cup {r} /\ ThreadIsFree
  BY <1>4 DEF Enter, Run
<1>5. ASSUME NEW r \in Clients,
             \/ Arrive(r) \/ Borrow(r) \/ GiveUp(r) \/ Query(r)
             \/ QueryFails(r) \/ Reply(r) \/ Leave(r)
      PROVE  Busy' \subseteq Busy
  BY <1>5 DEF Arrive, Borrow, GiveUp, Query, QueryFails, Reply, Leave
<1>6. ASSUME UNCHANGED at
      PROVE  Busy' \subseteq Busy
  BY <1>6
<1>7. \/ \E r \in Clients : Enter(r) \/ Run(r)
      \/ \E r \in Clients : \/ Arrive(r) \/ Borrow(r) \/ GiveUp(r) \/ Query(r)
                           \/ QueryFails(r) \/ Reply(r) \/ Leave(r)
      \/ UNCHANGED at
  BY DEF Next, RequestStep, Open, Restart, Publish, service, vars
<1>. QED
  BY <1>2, <1>3, <1>4, <1>5, <1>6, <1>7

\* A restart adds to the broken connections, a failed request takes one away.
LEMMA LossStep ==
  TypeOK /\ HoldInv /\ LossInv /\ [Next]_vars => LossInv'
<1> SUFFICES ASSUME TypeOK, HoldInv, LossInv, [Next]_vars
             PROVE  LossInv'
  OBVIOUS
<1> DEFINE C == Cardinality(Connections)
<1>1. C \in Nat
  BY ConnectionsAssumption, FS_CardinalityType
<1>2. Broken \subseteq Connections /\ Broken' \subseteq Connections
  BY DEF Broken
<1>3. /\ IsFiniteSet(Broken) /\ Cardinality(Broken) \in Nat
      /\ IsFiniteSet(Broken') /\ Cardinality(Broken') \in Nat
      /\ Cardinality(Broken') <= C
  BY <1>2, ConnectionsAssumption, FS_Subset, FS_CardinalityType
<1>4. restarts \in Nat /\ losses \in Nat /\ restarts * C \in Nat
  BY <1>1, LimitsAssumption DEF TypeOK
<1>5. CASE Restart
  <2>1. restarts' = restarts + 1 /\ losses' = losses
    BY <1>5 DEF Restart
  <2>2. (restarts + 1) * C = restarts * C + C
    BY <1>1, <1>4
  <2>3. losses <= restarts * C
    BY <1>3, <1>4 DEF LossInv
  <2>4. losses + Cardinality(Broken') <= restarts * C + C
    BY <1>1, <1>3, <1>4, <2>3
  <2>. QED
    BY <2>1, <2>2, <2>4 DEF LossInv
<1>6. ASSUME NEW r \in Clients, QueryFails(r)
      PROVE  LossInv'
  <2> DEFINE c == holds[r]
  <2>1. c \in Broken
    BY <1>6, ConnectionsAssumption DEF QueryFails, HoldInv, TypeOK, Broken
  <2>2. Broken' = Broken \ {c}
    BY <1>6, <2>1 DEF QueryFails, Broken, TypeOK
  <2>3. Cardinality(Broken') = Cardinality(Broken) - 1
    BY <1>3, <2>1, <2>2, FS_RemoveElement
  <2>4. losses' = losses + 1 /\ restarts' = restarts
    BY <1>6 DEF QueryFails
  <2>. QED
    BY <1>3, <1>4, <2>3, <2>4 DEF LossInv
<1>7. ASSUME Broken' = Broken, losses' = losses, restarts' = restarts
      PROVE  LossInv'
  BY <1>7 DEF LossInv
<1>8. ASSUME NEW r \in Clients, Leave(r)
      PROVE  Broken' = Broken /\ losses' = losses /\ restarts' = restarts
  BY <1>8 DEF Leave, Return, Broken, TypeOK
<1>9. ASSUME NEW c \in Connections, Open(c)
      PROVE  Broken' = Broken /\ losses' = losses /\ restarts' = restarts
  BY <1>9 DEF Open, Broken, TypeOK
<1>10. \/ Restart
       \/ \E r \in Clients : QueryFails(r) \/ Leave(r)
       \/ \E c \in Connections : Open(c)
       \/ link' = link /\ losses' = losses /\ restarts' = restarts
  BY DEF Next, RequestStep, Arrive, Enter, Borrow, GiveUp, Run, Query, Reply,
         Publish, service, vars
<1>11. link' = link => Broken' = Broken
  BY DEF Broken
<1>. QED
  BY <1>5, <1>6, <1>7, <1>8, <1>9, <1>10, <1>11

-----------------------------------------------------------------------------
LEMMA PoolInit == Init => PoolInv
<1> SUFFICES ASSUME Init
             PROVE  PoolInv
  OBVIOUS
<1> USE DEF Init, PublicationInit
<1>1. TypeOK /\ PublicationInv
  <2>1. PublicationInv
    BY DEF PublicationInv, PublicationTypeOK, Built
  <2>2. 0 \in 0 .. MaxRestarts /\ 0 \in Nat
    BY LimitsAssumption
  <2>. QED
    BY <2>1, <2>2 DEF TypeOK, PublicationInv
<1>2. HoldInv
  BY DEF HoldInv
<1>3. ThreadInv
  <2>1. Busy = {}
    BY DEF Busy, Stage
  <2>. QED
    BY <2>1, FS_EmptySet, LimitsAssumption DEF ThreadInv
<1>4. LossInv
  <2>1. Broken = {}
    BY DEF Broken
  <2>2. Cardinality(Connections) \in Nat
    BY ConnectionsAssumption, FS_CardinalityType
  <2>. QED
    BY <2>1, <2>2, FS_EmptySet DEF LossInv
<1>. QED
  BY <1>1, <1>2, <1>3, <1>4 DEF PoolInv

\* Threads, connections, the database's restarts and the publication of the
\* marts stay consistent.
THEOREM PoolInvariance == Spec => []PoolInv
<1>1. PoolInv /\ [Next]_vars => PoolInv'
  BY PublicationKept, TypeStep, HoldStep, ThreadStep, LossStep DEF PoolInv
<1>. QED
  BY PoolInit, <1>1, PTL DEF Spec

\* A restart costs at most one failed request per pooled connection.
THEOREM RestartsCostLittle == Spec => []LossesAreBounded
<1>1. PoolInv => LossesAreBounded
  <2> SUFFICES ASSUME PoolInv
               PROVE  LossesAreBounded
    OBVIOUS
  <2>1. Broken \subseteq Connections
    BY DEF Broken
  <2>2. Cardinality(Broken) \in Nat /\ Cardinality(Connections) \in Nat
    BY <2>1, ConnectionsAssumption, FS_Subset, FS_CardinalityType
  <2>3. losses \in Nat /\ restarts \in Nat
    BY LimitsAssumption DEF PoolInv, TypeOK
  <2>4. restarts * Cardinality(Connections) \in Nat
    BY <2>2, <2>3
  <2>. QED
    BY <2>2, <2>3, <2>4 DEF PoolInv, LossInv, LossesAreBounded
<1>. QED
  BY PoolInvariance, <1>1, PTL

\* Only a query answers "denied".
LEMMA AnswerComesFromQuery ==
  ASSUME TypeOK, [Next]_vars, NEW r \in Clients, answer'[r] # answer[r],
         answer'[r] = "denied"
  PROVE  \E m \in Marts : Outcome(m) = "denied"
<1> USE DEF TypeOK, Answer
<1>1. PICK q \in Clients : Query(q) \/ QueryFails(q) \/ Leave(q)
  BY DEF Next, RequestStep, Arrive, Enter, Borrow, GiveUp, Run, Reply, Open,
         Restart, Publish, service, vars
<1>2. CASE Query(q)
  BY <1>2 DEF Query
<1>3. CASE QueryFails(q)
  BY <1>3 DEF QueryFails
<1>4. CASE Leave(q)
  BY <1>4 DEF Leave
<1>. QED
  BY <1>1, <1>2, <1>3, <1>4

\* The reader lacks a privilege only while dbt is at work, or after a command
\* that died before its hook.
THEOREM DenialsPass == Spec => DeniedOnlyMeanwhile
<1>1. PoolInv /\ [Next]_vars =>
        [\A r \in Clients : answer[r] # "denied" /\ answer'[r] = "denied" =>
           dbt # "idle" \/ interrupted]_vars
  <2> SUFFICES ASSUME PoolInv, [Next]_vars, NEW r \in Clients,
                      answer[r] # "denied", answer'[r] = "denied"
               PROVE  dbt # "idle" \/ interrupted
    OBVIOUS
  <2>1. PICK m \in Marts : Outcome(m) = "denied"
    BY AnswerComesFromQuery DEF PoolInv
  <2>2. schema = "closed" \/ mart[m] = "closed"
    BY <2>1 DEF Outcome, PoolInv, PublicationInv, PublicationTypeOK
  <2>. QED
    BY <2>2 DEF PoolInv, PublicationInv, PublicationTypeOK
<1>. QED
  BY PoolInvariance, <1>1, PTL DEF Spec, DeniedOnlyMeanwhile

\* Out of a gridlock there is no way but a timeout.
THEOREM GridlockNeedsTimeout == Spec => GridlockOnlyTimesOut
<1>1. PoolInv /\ [Next]_vars =>
        [Gridlock => \A r \in Clients : at'[r] # at[r] =>
           at[r] = "away" \/ (at[r] = "waiting" /\ at'[r] = "away")]_vars
  <2> SUFFICES ASSUME PoolInv, [Next]_vars, Gridlock, NEW r \in Clients,
                      at'[r] # at[r]
               PROVE  at[r] = "away" \/ (at[r] = "waiting" /\ at'[r] = "away")
    OBVIOUS
  <2>1. /\ IsFiniteSet(Busy) /\ Cardinality(Busy) \in Nat
        /\ IsFiniteSet(Stage("waiting"))
    <3>1. Busy \subseteq Clients /\ Stage("waiting") \subseteq Clients
      BY DEF Busy, Stage
    <3>. QED
      BY <3>1, FS_Subset, FS_CardinalityType, ClientsAssumption
  <2>2. Stage("waiting") \subseteq Busy
    BY DEF Busy
  <2>3. Cardinality(Busy) = Threads /\ Cardinality(Stage("waiting")) = Threads
    <3>1. Cardinality(Stage("waiting")) <= Cardinality(Busy)
      BY <2>1, <2>2, FS_Subset
    <3>. QED
      BY <2>1, <3>1, LimitsAssumption DEF Gridlock, PoolInv, ThreadInv
  <2>4. Busy = Stage("waiting")
    BY <2>1, <2>2, <2>3, FS_Subset
  <2>5. ~ThreadIsFree
    BY <2>3, LimitsAssumption DEF ThreadIsFree
  <2>6. \A q \in Clients : at[q] # "running" /\ at[q] # "leaving"
    BY <2>4 DEF Busy, Stage, Gridlock, PoolInv, HoldInv
  <2>7. PICK q \in Clients : Arrive(q) \/ GiveUp(q)
    BY <2>5, <2>6 DEF Next, RequestStep, Enter, Borrow, Run, Query, QueryFails,
                      Reply, Leave, Open, Restart, Publish, service, vars, Gridlock
  <2>. QED
    BY <2>7 DEF Arrive, GiveUp, Goto, Leaves, PoolInv, TypeOK
<1>. QED
  BY PoolInvariance, <1>1, PTL DEF Spec, GridlockOnlyTimesOut

\* A request that runs or leaves can go on: what is lent to it is open or
\* broken until its endpoint has answered.
LEMMA RunningGoesOn ==
  ASSUME PoolInv, NEW r \in Clients, ~CanGoOn(r)
  PROVE  at[r] \notin {"running", "leaving"}
<1>1. CASE at[r] = "running" /\ wants[r] = "data"
  <2>1. holds[r] # NoConnection /\ link[holds[r]] \notin {"unopened", "closed"}
    BY <1>1 DEF PoolInv, HoldInv
  <2>2. link[holds[r]] \in {"open", "broken"}
    BY <2>1 DEF PoolInv, TypeOK
  <2> QED
    BY <1>1, <2>2 DEF CanGoOn
<1> QED
  BY <1>1 DEF CanGoOn, PoolInv, TypeOK

\* Where nobody can go on, every thread is held by a request that waits for a
\* connection.
LEMMA StopHoldsThreads ==
  ASSUME PoolInv, \A r \in Clients : ~CanGoOn(r), ~ThreadIsFree
  PROVE  Cardinality(Stage("waiting")) = Threads
<1>1. Busy = Stage("waiting")
  <2>1. \A r \in Clients : at[r] # "running"
    BY RunningGoesOn
  <2> QED
    BY <2>1 DEF Busy, Stage
<1>2. Cardinality(Busy) \in Nat
  <2>1. Busy \subseteq Clients
    BY DEF Busy, Stage
  <2> QED
    BY <2>1, FS_Subset, FS_CardinalityType, ClientsAssumption
<1> QED
  BY <1>1, <1>2, LimitsAssumption DEF PoolInv, ThreadInv, ThreadIsFree

\* With the pool's connections open, requests come to a stop in a gridlock
\* and nowhere else (api/main.py:51-58, :81-85).
THEOREM NothingElseStops == Spec => []OnlyGridlockStops
<1>1. PoolInv => OnlyGridlockStops
  <2> SUFFICES ASSUME PoolInv, InFlight # {}, Connections # {},
                      \A c \in Connections : link[c] # "unopened"
               PROVE  Gridlock <=> \A r \in Clients : ~CanGoOn(r)
    BY DEF OnlyGridlockStops
  <2>0. /\ at \in [Clients -> Stages]
        /\ holds \in [Clients -> Connections \cup {NoConnection}]
    BY DEF PoolInv, TypeOK
  <2>1. ASSUME Gridlock, NEW r \in Clients PROVE ~CanGoOn(r)
    <3>1. /\ IsFiniteSet(Busy) /\ Cardinality(Busy) \in Nat
          /\ IsFiniteSet(Stage("waiting")) /\ Stage("waiting") \subseteq Busy
      <4>1. Busy \subseteq Clients /\ Stage("waiting") \subseteq Busy
        BY DEF Busy, Stage
      <4> QED
        BY <4>1, FS_Subset, FS_CardinalityType, ClientsAssumption
    <3>2. Cardinality(Busy) = Threads /\ Cardinality(Stage("waiting")) = Threads
      <4>1. Cardinality(Stage("waiting")) <= Cardinality(Busy)
        BY <3>1, FS_Subset
      <4> QED
        BY <2>1, <3>1, <4>1, LimitsAssumption DEF Gridlock, PoolInv, ThreadInv
    <3>3. Busy = Stage("waiting")
      BY <3>1, <3>2, FS_Subset
    <3>4. at[r] # "running"
      BY <3>3 DEF Busy, Stage
    <3>5. at[r] # "leaving"
      BY <2>1 DEF Gridlock, PoolInv, HoldInv
    <3>6. ~ThreadIsFree
      BY <3>2, LimitsAssumption DEF ThreadIsFree
    <3> QED
      BY <2>1, <3>4, <3>5, <3>6 DEF CanGoOn, Gridlock
  <2>2. ASSUME \A r \in Clients : ~CanGoOn(r) PROVE Gridlock
    <3>1. ASSUME NEW r \in Clients, at[r] \in {"queued", "lent"}
          PROVE  ~ThreadIsFree
      BY <2>2, <3>1 DEF CanGoOn
    <3>2. \E r \in Clients : at[r] = "waiting"
      <4> SUFFICES ASSUME \A r \in Clients : at[r] # "waiting" PROVE FALSE
        OBVIOUS
      <4>1. PICK r \in Clients : at[r] # "away"
        BY DEF InFlight
      <4>2. \A q \in Clients : at[q] \notin {"running", "leaving"}
        BY <2>2, RunningGoesOn
      <4>3. Busy = {}
        BY <4>2 DEF Busy, Stage
      <4>4. ThreadIsFree
        BY <4>3, FS_EmptySet, LimitsAssumption DEF ThreadIsFree
      <4> QED
        BY <2>0, <3>1, <4>1, <4>2, <4>4 DEF Stages
    <3>3. Idle = {}
      BY <2>2, <3>2 DEF CanGoOn
    <3>4. \A r \in Clients : holds[r] # NoConnection => at[r] = "lent"
      <4> SUFFICES ASSUME NEW r \in Clients, holds[r] # NoConnection
                   PROVE  at[r] = "lent"
        OBVIOUS
      <4>1. at[r] \in {"lent", "leaving"} \/ (at[r] = "running" /\ wants[r] = "data")
        BY DEF PoolInv, HoldInv
      <4> QED
        BY <2>2, <4>1, RunningGoesOn
    <3>5. \E r \in Clients : at[r] = "lent"
      <4>1. PICK c \in Connections : c \in Lent
        BY <3>3 DEF Idle
      <4>2. PICK r \in Clients : holds[r] = c /\ c # NoConnection
        BY <4>1 DEF Lent
      <4> QED
        BY <3>4, <4>2
    <3>6. Cardinality(Stage("waiting")) = Threads
      BY <2>2, <3>1, <3>5, StopHoldsThreads
    <3> QED
      BY <3>3, <3>4, <3>6 DEF Gridlock
  <2> QED
    BY <2>1, <2>2
<1>. QED
  BY PoolInvariance, <1>1, PTL

\* A gridlock takes a request for every thread and one for every connection,
\* so fewer clients than that never see one (api/main.py:51-58).
THEOREM GridlockTakesACrowd == Spec => []GridlockNeedsCrowd
<1>1. PoolInv => GridlockNeedsCrowd
  <2> SUFFICES ASSUME PoolInv, Gridlock
               PROVE  Cardinality(InFlight) >= Threads + Cardinality(Connections)
    BY DEF GridlockNeedsCrowd
  <2> DEFINE waiting == Stage("waiting")
             lent == Stage("lent")
             f == [r \in lent |-> holds[r]]
  <2>1. /\ IsFiniteSet(waiting) /\ IsFiniteSet(lent) /\ IsFiniteSet(InFlight)
        /\ Cardinality(waiting) \in Nat /\ Cardinality(lent) \in Nat
        /\ Cardinality(InFlight) \in Nat
    <3>1. waiting \subseteq Clients /\ lent \subseteq Clients /\ InFlight \subseteq Clients
      BY DEF Stage, InFlight
    <3> QED
      BY <3>1, FS_Subset, FS_CardinalityType, ClientsAssumption
  <2>2. f \in Surjection(lent, Connections)
    <3>1. ASSUME NEW r \in lent PROVE holds[r] \in Connections
      BY <3>1, ConnectionsAssumption DEF Stage, PoolInv, TypeOK, HoldInv
    <3>2. ASSUME NEW c \in Connections PROVE \E r \in lent : holds[r] = c
      <4>1. c \in Lent
        BY DEF Gridlock, Idle
      <4>2. PICK r \in Clients : holds[r] = c /\ c # NoConnection
        BY <4>1 DEF Lent
      <4> QED
        BY <4>2 DEF Gridlock, Stage
    <3> QED
      BY <3>1, <3>2 DEF Surjection
  <2>3. Cardinality(Connections) <= Cardinality(lent)
    <3> HIDE DEF f, lent
    <3> QED
      BY <2>1, <2>2, FS_Surjection
  <2>4. Cardinality(waiting \cup lent)
          = Cardinality(waiting) + Cardinality(lent)
    <3>1. waiting \cap lent = {}
      BY DEF Stage
    <3>2. Cardinality(waiting \cup lent)
            = Cardinality(waiting) + Cardinality(lent)
                - Cardinality(waiting \cap lent)
      <4> HIDE DEF waiting, lent
      <4> QED
        BY <2>1, FS_Union
    <3>3. Cardinality(waiting \cap lent) = 0
      BY <3>1, FS_EmptySet, Zenon
    <3> HIDE DEF waiting, lent
    <3> QED
      BY <2>1, <3>2, <3>3
  <2>5. Cardinality(waiting \cup lent) <= Cardinality(InFlight)
    <3>1. waiting \cup lent \subseteq InFlight
      BY DEF Stage, InFlight
    <3> HIDE DEF waiting, lent
    <3> QED
      BY <2>1, <3>1, FS_Subset
  <2>6. Cardinality(waiting) = Threads
    BY DEF Gridlock
  <2>7. Cardinality(Connections) \in Nat /\ Threads \in Nat
    BY ConnectionsAssumption, LimitsAssumption, FS_CardinalityType
  <2> HIDE DEF waiting, lent
  <2> QED
    BY <2>1, <2>3, <2>4, <2>5, <2>6, <2>7
<1>. QED
  BY PoolInvariance, <1>1, PTL
=============================================================================
