------------------------- MODULE HealthChecksProofs -------------------------
(***************************************************************************)
(* Theorems about the health checks, for any set of executions, windows,   *)
(* costs and allowances.                                                   *)
(***************************************************************************)
EXTENDS HealthChecks, FiniteSetTheorems, TLAPS

\* A set that shrinks has no more elements.
LEMMA FewerRuns ==
  ASSUME NEW S \in SUBSET Runs, NEW T \in SUBSET S
  PROVE  /\ Cardinality(S) \in Nat /\ Cardinality(T) \in Nat
         /\ Cardinality(T) <= Cardinality(S)
<1>1. IsFiniteSet(S)
  BY HealthAssumption, FS_Subset
<1> QED
  BY <1>1, FS_Subset, FS_CardinalityType

\* What more runs cost.
LEMMA Scaled ==
  ASSUME NEW c \in Nat, NEW x \in Nat, NEW y \in Nat, NEW z \in Nat,
         x <= y + z
  PROVE  c * x <= c * y + c * z
<1>1. PICK d \in Nat : y + z = x + d
  <2>1. y + z - x \in Nat /\ y + z = x + (y + z - x)
    OBVIOUS
  <2> QED BY <2>1
<1>2. c * (y + z) = c * x + c * d
  BY <1>1
<1>3. c * (y + z) = c * y + c * z
  OBVIOUS
<1>4. c * d \in Nat /\ c * x \in Nat
  OBVIOUS
<1> QED
  BY <1>2, <1>3, <1>4

\* No execution has begun.
LEMMA InitInvariant == Init => HealthInv
<1> SUFFICES ASSUME Init PROVE HealthInv
  OBVIOUS
<1>1. Alive = {} /\ Overnight = {}
  BY HealthAssumption DEF Init, Alive, Overnight
<1> QED
  BY <1>1, FS_EmptySet, HealthAssumption DEF Init, HealthInv, TypeOK

\* A run that begins, begins today: it never counts as an overnight one.
LEMMA BeginInvariant ==
  ASSUME HealthInv, NEW r \in Runs, NEW row \in {"none", "running"},
         Begin(r, row)
  PROVE  HealthInv'
<1>1. TypeOK'
  BY DEF HealthInv, TypeOK, Begin, clock, charges
<1>2. Alive' = Alive \cup {r} /\ r \notin Alive
  BY DEF HealthInv, TypeOK, Begin, Alive
<1>3. IsFiniteSet(Alive) /\ Cardinality(Alive) \in Nat
  BY HealthAssumption, FS_Subset, FS_CardinalityType DEF Alive
<1>4. Cardinality(Alive)' <= MaxAlive
  <2>1. Cardinality(Alive') = Cardinality(Alive) + 1
    BY <1>2, <1>3, FS_AddElement
  <2> QED BY <2>1, <1>3, HealthAssumption DEF Begin
<1>5. Overnight' \subseteq Overnight
  BY <1>2 DEF HealthInv, TypeOK, Begin, Overnight, clock, charges
<1>6. Cardinality(Overnight)' <= MaxAlive
  <2>1. Overnight \in SUBSET Runs
    BY DEF Overnight
  <2> QED BY <2>1, <1>5, FewerRuns, HealthAssumption DEF HealthInv
<1>7. (\A q \in Runs : startedAt[q] <= now)'
  BY DEF HealthInv, TypeOK, Begin, clock
<1>8. /\ (\A q \in today : place[q] # "unborn" /\ status[q] # "none")'
      /\ (\A q \in Runs : place[q] = "unborn" => status[q] = "none")'
  BY DEF HealthInv, TypeOK, Begin, charges
<1> QED
  BY <1>1, <1>4, <1>6, <1>7, <1>8 DEF HealthInv, Begin, clock

\* A request charges a run that was alive already.
LEMMA RequestInvariant ==
  ASSUME HealthInv, NEW r \in Runs, Answered(r) \/ Transient(r)
  PROVE  HealthInv'
<1>1. /\ place[r] = "fetching"
      /\ place' = [place EXCEPT ![r] = "answered"] \/ place' = place
      /\ requests' = [requests EXCEPT ![r] = @ + 1]
      /\ UNCHANGED <<now, midnight, startedAt, status>>
  BY DEF Answered, Transient, Asks, clock
<1>2. /\ today' = today \/ (today' = today \cup {r} /\ status[r] # "none")
      /\ unseen' = unseen \/ unseen' = unseen + 1
  BY DEF Answered, Transient, Charge, charges
<1>3. TypeOK'
  BY <1>1, <1>2 DEF HealthInv, TypeOK
<1>4. Alive' = Alive /\ r \in Alive
  BY <1>1 DEF HealthInv, TypeOK, Alive
<1>5. Overnight' = Overnight
  BY <1>1, <1>2, <1>4 DEF Overnight
<1>6. /\ (\A q \in today : place[q] # "unborn" /\ status[q] # "none")'
      /\ (\A q \in Runs : place[q] = "unborn" => status[q] = "none")'
  BY <1>1, <1>2 DEF HealthInv, TypeOK
<1> QED
  BY <1>1, <1>3, <1>4, <1>5, <1>6 DEF HealthInv

\* A run that is over leaves the living.
LEMMA OverInvariant ==
  ASSUME HealthInv, NEW r \in Alive, NEW row,
         \/ row \in {"succeeded", "failed"} /\ status[r] = "running"
         \/ row = status[r],
         Over(r, row)
  PROVE  HealthInv'
<1>1. r \in Runs /\ place[r] # "unborn"
  BY DEF Alive
<1>2. TypeOK'
  BY <1>1 DEF HealthInv, TypeOK, Over, clock, charges
<1>3. /\ Alive' \subseteq Alive /\ Alive \in SUBSET Runs
      /\ Overnight' \subseteq Overnight /\ Overnight \in SUBSET Runs
  BY <1>1 DEF HealthInv, TypeOK, Over, Alive, Overnight, clock, charges
<1>4. Cardinality(Alive)' <= MaxAlive /\ Cardinality(Overnight)' <= MaxAlive
  BY <1>3, FewerRuns, HealthAssumption DEF HealthInv
<1>5. /\ (\A q \in today : place[q] # "unborn" /\ status[q] # "none")'
      /\ (\A q \in Runs : place[q] = "unborn" => status[q] = "none")'
  BY <1>1 DEF HealthInv, TypeOK, Over, charges
<1> QED
  BY <1>2, <1>4, <1>5 DEF HealthInv, TypeOK, Over, clock

\* At midnight nothing is charged yet, and the overnight runs are the living.
LEMMA TickInvariant == ASSUME HealthInv, Tick PROVE HealthInv'
<1>1. now' = now + 1 /\ place' = place /\ startedAt' = startedAt
      /\ status' = status /\ Alive' = Alive
  BY DEF Tick, Alive
<1>2. TypeOK'
  BY <1>1 DEF HealthInv, TypeOK, Tick, charges
<1>3. (midnight <= now /\ now < midnight + Day)'
  BY <1>1, HealthAssumption DEF HealthInv, TypeOK, Tick
<1>4. (\A q \in Runs : startedAt[q] <= now)'
  BY <1>1 DEF HealthInv, TypeOK
<1>5. Overnight' \subseteq Alive \/ Overnight' = Overnight
  BY <1>1 DEF Tick, Overnight, charges
<1>6. Alive \in SUBSET Runs /\ Overnight \in SUBSET Runs
  BY DEF Alive, Overnight
<1>7. Cardinality(Overnight)' <= MaxAlive
  BY <1>5, <1>6, FewerRuns, HealthAssumption DEF HealthInv
<1>8. (\A q \in today : place[q] # "unborn" /\ status[q] # "none")'
  BY <1>1 DEF HealthInv, Tick, charges
<1> QED
  BY <1>1, <1>2, <1>3, <1>4, <1>7, <1>8 DEF HealthInv

\* One step of the system.
LEMMA StepInvariant == HealthInv /\ [Next]_vars => HealthInv'
<1> SUFFICES ASSUME HealthInv, [Next]_vars PROVE HealthInv'
  OBVIOUS
<1>1. CASE Tick
  BY <1>1, TickInvariant
<1>2. ASSUME NEW r \in Runs, StartRun(r) \/ DryRun(r) PROVE HealthInv'
  BY <1>2, BeginInvariant DEF StartRun, DryRun
<1>3. ASSUME NEW r \in Runs, Answered(r) \/ Transient(r) PROVE HealthInv'
  BY <1>3, RequestInvariant
<1>4. ASSUME NEW r \in Runs, Succeeds(r) PROVE HealthInv'
  BY <1>4, OverInvariant DEF Succeeds, Alive
<1>5. ASSUME NEW r \in Runs, Fails(r) PROVE HealthInv'
  BY <1>5, OverInvariant DEF Fails
<1>6. ASSUME NEW r \in Runs, Stops(r) PROVE HealthInv'
  BY <1>6, OverInvariant DEF Stops
<1>7. CASE UNCHANGED vars
  BY <1>7 DEF vars, HealthInv, TypeOK, Alive, Overnight
<1> QED
  BY <1>1, <1>2, <1>3, <1>4, <1>5, <1>6, <1>7 DEF Next

\* The inductive invariant of executions, ledger and allowance.
THEOREM HealthInvariance == Spec => []HealthInv
  BY InitInvariant, StepInvariant, PTL DEF Spec

-----------------------------------------------------------------------------
\* What a step does to the row of a run that is reported as stuck.
LEMMA StuckStep ==
  ASSUME HealthInv, [Next]_vars, NEW r \in Stuck
  PROVE  \/ r \in Stuck'
         \/ r \in Alive /\ status'[r] \in {"succeeded", "failed"}
<1>1. /\ r \in Runs /\ status[r] = "running" /\ place[r] # "unborn"
      /\ startedAt[r] + StuckAfter < now
      /\ now \in Nat /\ startedAt[r] \in Nat
  BY DEF Stuck, HealthInv, TypeOK
<1>2. now' >= now /\ now' \in Nat /\ startedAt'[r] = startedAt[r]
  <2>1. CASE Tick \/ UNCHANGED vars
    BY <1>1, <2>1 DEF Tick, vars
  <2>2. ASSUME NEW q \in Runs, StartRun(q) \/ DryRun(q)
        PROVE  now' >= now /\ now' \in Nat /\ startedAt'[r] = startedAt[r]
    BY <1>1, <2>2 DEF StartRun, DryRun, Begin, clock, HealthInv, TypeOK
  <2>3. ASSUME NEW q \in Runs,
               \/ Answered(q) \/ Transient(q)
               \/ Succeeds(q) \/ Fails(q) \/ Stops(q)
        PROVE  now' >= now /\ now' \in Nat /\ startedAt'[r] = startedAt[r]
    BY <1>1, <2>3 DEF Answered, Transient, Succeeds, Fails, Stops, Over, clock
  <2> QED BY <2>1, <2>2, <2>3 DEF Next
<1>3. CASE status'[r] = "running"
  BY <1>1, <1>2, <1>3, HealthAssumption DEF Stuck
<1>4. CASE status'[r] # "running"
  <2>1. ASSUME NEW q \in Runs, Succeeds(q) \/ Fails(q)
        PROVE  r \in Alive /\ status'[r] \in {"succeeded", "failed"}
    BY <1>1, <1>4, <2>1
       DEF Succeeds, Fails, Over, Alive, HealthInv, TypeOK
  <2>2. ASSUME NEW q \in Runs, StartRun(q) \/ DryRun(q) PROVE FALSE
    BY <1>1, <1>4, <2>2 DEF StartRun, DryRun, Begin, HealthInv, TypeOK
  <2>3. ASSUME NEW q \in Runs, Answered(q) \/ Transient(q) \/ Stops(q)
        PROVE  FALSE
    BY <1>1, <1>4, <2>3
       DEF Answered, Transient, Stops, Over, HealthInv, TypeOK
  <2>4. CASE Tick \/ UNCHANGED vars
    BY <1>1, <1>4, <2>4 DEF Tick, vars
  <2> QED BY <2>1, <2>2, <2>3, <2>4 DEF Next
<1> QED
  BY <1>3, <1>4

\* no_stuck_runs (checks.py:121-143) stops reporting a run only when that run,
\* still alive, writes its outcome: for any lives of executions.
THEOREM AlarmStands == Spec => OnlyOutcomesClear
<1>1. HealthInv /\ [Next]_vars
        => \A r \in Stuck \ Stuck' :
             r \in Alive /\ status'[r] \in {"succeeded", "failed"}
  BY StuckStep
<1> QED
  BY <1>1, HealthInvariance, PTL DEF Spec, OnlyOutcomesClear

\* The check's sum covers every recorded run charged since midnight but the
\* overnight ones, of which there are MaxAlive at most.
LEMMA SumCoversToday ==
  ASSUME HealthInv
  PROVE  /\ Cardinality(today) \in Nat /\ Cardinality(Recent) \in Nat
         /\ Cardinality(today) <= Cardinality(Recent) + MaxAlive
<1>1. today \in SUBSET Runs /\ Recent \in SUBSET Runs
      /\ Overnight \in SUBSET Runs
  BY DEF HealthInv, TypeOK, Recent, Overnight
<1>2. today \subseteq Recent \cup Overnight
  <2> SUFFICES ASSUME NEW r \in today, r \notin Overnight PROVE r \in Recent
    OBVIOUS
  <2>1. r \in Runs /\ status[r] # "none"
    BY <1>1 DEF HealthInv
  <2>2. midnight <= startedAt[r]
    BY <2>1 DEF HealthInv, TypeOK, Overnight
  <2> QED
    BY <2>1, <2>2, HealthAssumption DEF HealthInv, TypeOK, Recent
<1>3. /\ IsFiniteSet(Recent) /\ IsFiniteSet(Overnight)
      /\ Cardinality(Recent) \in Nat /\ Cardinality(Overnight) \in Nat
      /\ Cardinality(today) \in Nat
  BY <1>1, HealthAssumption, FS_Subset, FS_CardinalityType
<1>4. /\ Cardinality(Recent \cup Overnight)
           <= Cardinality(Recent) + Cardinality(Overnight)
      /\ Cardinality(Recent \cup Overnight) \in Nat
  <2>1. /\ Cardinality(Recent \cup Overnight)
             = Cardinality(Recent) + Cardinality(Overnight)
                 - Cardinality(Recent \cap Overnight)
        /\ Cardinality(Recent \cap Overnight) \in Nat
    BY <1>3, FS_Union, FS_Intersection, FS_CardinalityType
  <2>2. Cardinality(Recent \cup Overnight) \in Nat
    BY <1>3, FS_Union, FS_CardinalityType
  <2> QED BY <2>1, <2>2, <1>3
<1>5. Cardinality(today) <= Cardinality(Recent \cup Overnight)
  <2>1. Recent \cup Overnight \in SUBSET Runs
    BY <1>1
  <2> QED BY <2>1, <1>2, FewerRuns
<1>6. Cardinality(Overnight) <= MaxAlive
  BY DEF HealthInv
<1> QED
  BY <1>3, <1>4, <1>5, <1>6, HealthAssumption

\* The credit check (checks.py:177-201) fails before the allowance is used up,
\* as long as what dry runs and repeated requests took fits into the margin:
\* for any allowance, cost, number of attempts and overlap.
THEOREM QuotaIsForeseen == Spec => []ExhaustionIsForeseen
<1>1. ASSUME HealthInv PROVE ExhaustionIsForeseen
  <2> SUFFICES ASSUME Used + Cost > Allowance, Cost * unseen <= Margin
               PROVE  ~(Spent <= Comfort)
    BY DEF ExhaustionIsForeseen, CreditOk
  <2> DEFINE t == Cardinality(today)
             s == Cardinality(Recent)
  <2>1. t \in Nat /\ s \in Nat /\ t <= s + MaxAlive /\ unseen \in Nat
    BY <1>1, SumCoversToday DEF HealthInv, TypeOK
  <2>2. Cost * t <= Cost * s + Cost * MaxAlive
    <3> HIDE DEF t, s
    <3> QED BY <2>1, HealthAssumption, Scaled
  <2>3. Used = Cost * t + Cost * unseen
    <3>1. Used = Cost * (t + unseen)
      BY DEF Used
    <3> HIDE DEF t
    <3> QED BY <2>1, <3>1, HealthAssumption
  <2>4. Margin = Allowance - Comfort - Cost * MaxAlive - Cost
    BY HealthAssumption DEF Margin
  <2>5. Spent = Cost * s
    BY DEF Spent
  <2>6. /\ Cost * t \in Nat /\ Cost * s \in Nat
        /\ Cost * unseen \in Nat /\ Cost * MaxAlive \in Nat
    <3> HIDE DEF t, s
    <3> QED BY <2>1, HealthAssumption
  <2> HIDE DEF t, s
  <2> QED
    BY <2>2, <2>3, <2>4, <2>5, <2>6, HealthAssumption
<1> QED
  BY <1>1, HealthInvariance, PTL
=============================================================================
