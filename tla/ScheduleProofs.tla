--------------------------- MODULE ScheduleProofs ---------------------------
(***************************************************************************)
(* Theorems about the schedule, for every period, number of retries, set   *)
(* of delays and faults.                                                   *)
(***************************************************************************)
EXTENDS Schedule, TLAPS

\* The schedule before any tick has been served.
LEMMA InitInvariant == Init => ScheduleInv
<1> SUFFICES ASSUME Init PROVE ScheduleInv
  OBVIOUS
<1>1. /\ phase \in 0..(Period - 1)
      /\ try \in 0..(Retries + 1)
      /\ sinceLanding \in 0..(Stale + 1)
  BY ScheduleAssumption DEF Init, Stale
<1>2. TypeOK
  BY <1>1 DEF Init, TypeOK, Places, Hopeless
<1> QED
  BY <1>2 DEF Init, ScheduleInv, Attempting, RefusalEndsTheRun, Active

\* However the task takes the exception, it ends between two attempts, and
\* waits for a retry only while tries are left.
LEMMA EndOfAttempt ==
  ASSUME ScheduleInv, Attempting, NEW exception, AttemptEnds(exception),
         UNCHANGED <<cron, try, refusal, landing, exhausted>>,
         masked' \in BOOLEAN, masked => masked',
         ~masked' => (refusal # "none" => exception \in Hopeless)
  PROVE  ScheduleInv'
<1>1. task' \in {"retry", "failed"} /\ (task' = "retry" => try <= Retries)
  <2>1. try \in 0..(Retries + 1)
    BY DEF ScheduleInv, TypeOK
  <2> QED BY <2>1, ScheduleAssumption DEF AttemptEnds
<1>2. ~masked' => (refusal # "none" => task' = "failed")
  BY DEF AttemptEnds
<1>3. TypeOK'
  BY <1>1 DEF ScheduleInv, TypeOK, AttemptEnds, cron, landing, Places,
              Stale
<1> QED
  BY <1>1, <1>2, <1>3
     DEF ScheduleInv, AttemptEnds, Attempting, RefusalEndsTheRun, Active, cron

\* Every step of an attempt keeps the invariant.
LEMMA AttemptInvariant == ASSUME ScheduleInv, Attempt PROVE ScheduleInv'
<1> USE DEF Attempting
<1>1. CASE ConnectFails
  <2>1. ~masked /\ place # "handling" => refusal = "none"
    BY <1>1 DEF ConnectFails, ScheduleInv, RefusalEndsTheRun, Active
  <2>2. masked' = masked /\ masked \in BOOLEAN
    BY <1>1 DEF ConnectFails, ScheduleInv, TypeOK
  <2> QED BY <1>1, <2>1, <2>2, EndOfAttempt DEF ConnectFails
<1>2. CASE Record
  BY <1>2 DEF Record, ScheduleInv, TypeOK, Places, RefusalEndsTheRun, Active,
              cron, landing, Stale
<1>3. CASE Fetch
  BY <1>3 DEF Fetch, ScheduleInv, TypeOK, Places, RefusalEndsTheRun, Active,
              cron, landing, Stale
<1>4. CASE Refused
  BY <1>4 DEF Refused, ScheduleInv, TypeOK, Places, RefusalEndsTheRun, Active,
              Hopeless, cron, landing, Stale
<1>5. CASE Raises
  BY <1>5 DEF Raises, ScheduleInv, TypeOK, Places, RefusalEndsTheRun, Active,
              cron, landing, Stale
<1>6. CASE LandNew
  <2>1. sinceLanding' \in 0..(Stale + 1)
    BY <1>6, ScheduleAssumption DEF LandNew, ScheduleInv, TypeOK, Stale
  <2> QED
    BY <1>6, <2>1
       DEF LandNew, ScheduleInv, TypeOK, Places, RefusalEndsTheRun, Active,
           cron
<1>7. CASE LandNothing
  BY <1>7 DEF LandNothing, ScheduleInv, TypeOK, Places, RefusalEndsTheRun,
              Active, cron, landing, Stale
<1>8. CASE Succeed
  BY <1>8 DEF Succeed, ScheduleInv, TypeOK, Places, RefusalEndsTheRun, Active,
              cron, landing, Stale
<1>9. CASE HandlerRecords
  <2>1. ~masked => (refusal # "none" => raised \in Hopeless)
    BY <1>9 DEF HandlerRecords, ScheduleInv, TypeOK
  <2>2. masked' = masked /\ masked \in BOOLEAN
    BY <1>9 DEF HandlerRecords, ScheduleInv, TypeOK
  <2> QED BY <1>9, <2>1, <2>2, EndOfAttempt DEF HandlerRecords
<1>10. CASE HandlerFails
  BY <1>10, EndOfAttempt DEF HandlerFails
<1> QED
  BY <1>1, <1>2, <1>3, <1>4, <1>5, <1>6, <1>7, <1>8, <1>9, <1>10 DEF Attempt

\* The clock of the ticks: without a tick the phase grows by one.
LEMMA CronAdvances ==
  ASSUME ScheduleInv, CronTick
  PROVE  /\ phase' \in 0..(Period - 1)
         /\ due' \in BOOLEAN
         /\ due => due'
         /\ ~due' => phase' = phase + 1
<1>1. phase \in 0..(Period - 1) /\ due \in BOOLEAN
  BY DEF ScheduleInv, TypeOK
<1>2. phase' \in 0..(Period - 1) /\ (phase' # 0 => phase' = phase + 1)
  BY <1>1, ScheduleAssumption DEF CronTick
<1>3. due' = (due \/ phase' = 0)
  BY DEF CronTick
<1> QED
  BY <1>1, <1>2, <1>3

\* Time keeps it too: elapsed and phase grow together, until a tick is due.
LEMMA TickInvariant == ASSUME ScheduleInv, Tick PROVE ScheduleInv'
<1>1. phase' \in 0..(Period - 1) /\ (~due' => phase' = phase + 1)
  BY CronAdvances DEF Tick
<1>2. elapsed' \in Nat /\ (Attempting => elapsed' = elapsed + 1)
  BY DEF ScheduleInv, TypeOK, Tick, Active
<1>3. /\ stampAge' \in Nat
      /\ place = "loading" => stampAge' = stampAge + 1
  BY DEF ScheduleInv, TypeOK, Tick
<1>4. sinceLanding' \in 0..(Stale + 1)
  BY ScheduleAssumption DEF ScheduleInv, TypeOK, Tick, Fresh, Stale
<1>5. due' \in BOOLEAN /\ calm' \in BOOLEAN /\ (due => due')
  BY CronAdvances DEF Tick
<1>6. TypeOK'
  BY <1>1, <1>2, <1>3, <1>4, <1>5 DEF ScheduleInv, TypeOK, Tick
<1>7. (Attempting /\ ~due => elapsed <= phase)'
  BY <1>1, <1>2, <1>5 DEF ScheduleInv, TypeOK, Tick, Attempting
<1>8. (place = "loading" => stampAge <= elapsed)'
  BY <1>2, <1>3 DEF ScheduleInv, TypeOK, Tick, Attempting
<1> QED
  BY <1>6, <1>7, <1>8
     DEF ScheduleInv, Tick, Attempting, RefusalEndsTheRun, Active

\* One step of the schedule.
LEMMA StepInvariant == ScheduleInv /\ [Next]_vars => ScheduleInv'
<1> SUFFICES ASSUME ScheduleInv, [Next]_vars PROVE ScheduleInv'
  OBVIOUS
<1>1. CASE CreateRun
  <2>0. 1 \in 0..(Retries + 1)
    BY ScheduleAssumption
  <2>1. TypeOK'
    BY <1>1, <2>0
       DEF CreateRun, ScheduleInv, TypeOK, Places, landing, Stale
  <2> QED
    BY <1>1, <2>1 DEF CreateRun, ScheduleInv, TypeOK, Attempting, Active,
                      RefusalEndsTheRun, landing
<1>2. CASE Retry
  <2>1. try' \in 0..(Retries + 1) /\ try <= Retries
    BY <1>2, ScheduleAssumption DEF Retry, ScheduleInv, TypeOK
  <2>2. TypeOK'
    BY <1>2, <2>1 DEF Retry, ScheduleInv, TypeOK, Places, cron, landing,
                      Stale
  <2> QED
    BY <1>2, <2>2 DEF Retry, ScheduleInv, TypeOK, Attempting, Active,
                      RefusalEndsTheRun, cron, landing
<1>3. CASE Killed
  <2>1. ~masked /\ place # "handling" => refusal = "none"
    BY <1>3 DEF Killed, ScheduleInv, RefusalEndsTheRun, Active, Attempting
  <2> QED BY <1>3, <2>1, EndOfAttempt DEF Killed
<1>4. CASE Attempt
  BY <1>4, AttemptInvariant
<1>5. CASE Exhaust
  BY <1>5 DEF Exhaust, ScheduleInv, TypeOK, Attempting, Active,
              RefusalEndsTheRun, cron, landing, Stale
<1>6. CASE Reset
  BY <1>6 DEF Reset, ScheduleInv, TypeOK, Attempting, Active,
              RefusalEndsTheRun, cron, landing, Stale
<1>7. CASE Tick
  BY <1>7, TickInvariant
<1>8. CASE UNCHANGED vars
  BY <1>8 DEF vars, ScheduleInv, TypeOK, Attempting, Active,
              RefusalEndsTheRun, Stale
<1> QED
  BY <1>1, <1>2, <1>3, <1>4, <1>5, <1>6, <1>7, <1>8 DEF Next

\* The inductive invariant of the schedule: the attempt's age is within the
\* time since the tick it serves, and a refusal leaves only the handler.
THEOREM ScheduleInvariance == Spec => []ScheduleInv
  BY InitInvariant, StepInvariant, PTL DEF Spec

\* A 429 or a refusal ends the run of the DAG, unless a handler of ingest_once
\* could not write its record (dags/opensky_ingest.py:60-70).
THEOREM NoRetryAfterRefusal == Spec => []RefusalEndsTheRun
<1>1. ScheduleInv => RefusalEndsTheRun
  BY DEF ScheduleInv
<1> QED
  BY <1>1, ScheduleInvariance, PTL

-----------------------------------------------------------------------------
(* Freshness.                                                              *)

\* Nothing has landed at first.
LEMMA InitCalm == Init => CalmInv
  BY DEF Init, CalmInv

\* Every step of the attempt and of Airflow keeps the age of the newest row
\* within what CalmInv allows at its stage.
LEMMA ActionCalm ==
  ASSUME ScheduleInv, CalmInv, CreateRun \/ Retry \/ Killed \/ Attempt
  PROVE  CalmInv'
<1> USE DEF Attempting, Active
<1>1. ASSUME AttemptEnds("error") \/ AttemptEnds(raised)
      PROVE  CalmInv'
  BY <1>1 DEF AttemptEnds, CalmInv
<1>2. CASE CreateRun
  BY <1>2, ScheduleAssumption
     DEF CreateRun, CalmInv, ScheduleInv, TypeOK, landing, Stale
<1>3. CASE Retry
  BY <1>3 DEF Retry, CalmInv
<1>4. CASE Killed
  BY <1>4, <1>1 DEF Killed
<1>5. CASE ConnectFails \/ HandlerRecords \/ HandlerFails
  BY <1>5, <1>1 DEF ConnectFails, HandlerRecords, HandlerFails
<1>6. CASE Record
  BY <1>6 DEF Record, CalmInv, ScheduleInv, cron, landing
<1>7. CASE Fetch
  BY <1>7 DEF Fetch, CalmInv, ScheduleInv, cron
<1>8. CASE Refused
  BY <1>8 DEF Refused, CalmInv, ScheduleInv, cron, landing
<1>9. CASE Raises
  <2>1. place = "landed" /\ calm => sinceLanding <= Period + elapsed
    BY ScheduleAssumption DEF CalmInv, ScheduleInv, TypeOK, Stale
  <2> QED
    BY <1>9, <2>1 DEF Raises, CalmInv, ScheduleInv, cron, landing
<1>10. CASE LandNew
  <2>1. sinceLanding' <= stampAge
    BY <1>10, ScheduleAssumption DEF LandNew, ScheduleInv, TypeOK, Stale
  <2>2. sinceLanding' <= elapsed /\ (~due => sinceLanding' <= phase)
    BY <1>10, <2>1, ScheduleAssumption
       DEF LandNew, ScheduleInv, TypeOK, Stale
  <2> QED
    BY <1>10, <2>2 DEF LandNew, CalmInv, ScheduleInv, cron
<1>11. CASE LandNothing
  BY <1>11 DEF LandNothing, CalmInv
<1>12. CASE Succeed
  <2>1. calm => /\ sinceLanding <= Longest
                /\ ~due => sinceLanding <= phase
    BY <1>12, ScheduleAssumption
       DEF Succeed, CalmInv, ScheduleInv, TypeOK, Stale
  <2> QED
    BY <1>12, <2>1 DEF Succeed, CalmInv, cron, landing
<1> QED
  BY <1>2, <1>3, <1>4, <1>5, <1>6, <1>7, <1>8, <1>9, <1>10, <1>11, <1>12
     DEF Attempt

\* The age of the newest row grows with the age of the attempt or with the
\* phase, and a period after the last tick a run is due.
LEMMA TickCalm == ASSUME ScheduleInv, CalmInv, Tick PROVE CalmInv'
<1> SUFFICES ASSUME calm' PROVE CalmInv'
  BY DEF CalmInv
<1> USE DEF Attempting, Active
<1>1. calm /\ (Attempting => elapsed < Longest) /\ (due => Active)
  BY DEF Tick
<1>2. /\ sinceLanding' <= sinceLanding + 1
      /\ sinceLanding \in Nat /\ sinceLanding' \in Nat
  BY ScheduleAssumption DEF Tick, ScheduleInv, TypeOK, Fresh, Stale
<1>3. /\ phase \in Nat /\ phase + 1 <= Period
      /\ ~due' => ~due /\ phase' = phase + 1
  BY CronAdvances, ScheduleAssumption DEF Tick, ScheduleInv, TypeOK
<1>4. Attempting => elapsed' = elapsed + 1 /\ elapsed \in Nat
  BY DEF Tick, ScheduleInv, TypeOK
<1>5. task' = task /\ place' = place
  BY DEF Tick
<1>6. (Attempting => elapsed <= Longest)'
  BY <1>1, <1>4, <1>5, ScheduleAssumption DEF ScheduleInv
<1>7. (~Active /\ ~due => sinceLanding <= phase)'
  BY <1>1, <1>2, <1>3, <1>5 DEF CalmInv
<1>8. (~Active /\ due => sinceLanding <= Period \/ sinceLanding <= Longest)'
  BY <1>1, <1>2, <1>3, <1>5, ScheduleAssumption DEF CalmInv
<1>9. (place \in {"connecting", "fetching", "loading", "handling"} =>
         \/ sinceLanding <= Period + elapsed
         \/ sinceLanding <= Longest + elapsed)'
  BY <1>1, <1>2, <1>4, <1>5, ScheduleAssumption DEF CalmInv
<1>10. (place = "landed" => /\ sinceLanding <= elapsed
                            /\ ~due => sinceLanding <= phase)'
  BY <1>1, <1>2, <1>3, <1>4, <1>5 DEF CalmInv
<1> QED
  BY <1>1, <1>5, <1>6, <1>7, <1>8, <1>9, <1>10 DEF CalmInv

\* One step of the schedule.
LEMMA StepCalm == ScheduleInv /\ CalmInv /\ [Next]_vars => CalmInv'
<1> SUFFICES ASSUME ScheduleInv, CalmInv, [Next]_vars PROVE CalmInv'
  OBVIOUS
<1>1. CASE CreateRun \/ Retry \/ Killed \/ Attempt
  BY <1>1, ActionCalm
<1>2. CASE Exhaust \/ Reset
  BY <1>2 DEF Exhaust, Reset, CalmInv, Attempting, Active, cron, landing
<1>3. CASE Tick
  BY <1>3, TickCalm
<1>4. CASE UNCHANGED vars
  BY <1>4 DEF vars, CalmInv, Attempting, Active
<1> QED
  BY <1>1, <1>2, <1>3, <1>4 DEF Next

\* The age of the newest row at each stage of a schedule in which attempts
\* land new rows within Longest.
THEOREM CalmInvariance == Spec => []CalmInv
  BY InitCalm, StepCalm, ScheduleInvariance, PTL DEF Spec

\* check_freshness raises no false alarm if three polling intervals cover a
\* period and an attempt, and two attempts: with two minutes, attempts of up
\* to three (checks.py:26-28, 61-88).
THEOREM NoFalseStaleness ==
  ASSUME CadenceSuffices
  PROVE  Spec => []FreshWhileCalm
<1>1. ScheduleInv /\ CalmInv => FreshWhileCalm
  <2> SUFFICES ASSUME ScheduleInv, CalmInv, calm PROVE sinceLanding <= Stale
    BY DEF FreshWhileCalm, Fresh
  <2>1. /\ sinceLanding \in Nat /\ phase \in Nat /\ phase <= Period
        /\ elapsed \in Nat /\ Stale \in Nat
    BY ScheduleAssumption DEF ScheduleInv, TypeOK, Stale
  <2>2. Period + Longest <= Stale /\ 2 * Longest <= Stale
    BY DEF CadenceSuffices
  <2>3. CASE Attempting
    BY <2>1, <2>2, <2>3, ScheduleAssumption
       DEF CalmInv, ScheduleInv, TypeOK, Places, Attempting
  <2>4. CASE ~Attempting
    BY <2>1, <2>2, <2>4, ScheduleAssumption
       DEF CalmInv, ScheduleInv, TypeOK, Attempting, Active
  <2> QED BY <2>3, <2>4
<1> QED
  BY <1>1, ScheduleInvariance, CalmInvariance, PTL

-----------------------------------------------------------------------------
(* How long a run of the DAG lasts.                                        *)

\* No wait for a retry is longer than max_retry_delay.
LEMMA DelayCapped ==
  ASSUME NEW n \in Nat \ {0}
  PROVE  LongestDelay(n) \in Int /\ LongestDelay(n) <= MaxDelay
<1>1. 2^(n - 1) \in Int
  <2>1. n - 1 \in Nat
    OBVIOUS
  <2>2. \A m \in Nat : 2^m \in Int
    BY Z3
  <2> QED
    BY <2>1, <2>2
<1> DEFINE power == 2^(n - 1)
<1> HIDE DEF power
<1>2. MinDelay * power \in Int
  <2>1. power \in Int
    BY <1>1 DEF power
  <2> QED
    BY <2>1, ScheduleAssumption
<1>3. Delay(n) = IF MinDelay * power < MaxDelay THEN MinDelay * power
                                                ELSE MaxDelay
  BY DEF Delay, power
<1>4. Delay(n) \in Int
  BY <1>2, <1>3, ScheduleAssumption
<1> QED
  BY <1>4, ScheduleAssumption DEF LongestDelay

\* Attempts are killed at their timeout, and waits end by their longest delay.
LEMMA AgeStep ==
  ASSUME ScheduleInv, AgeInv, [Next]_vars
  PROVE  AgeInv'
<1> USE DEF AgeInv, Active, Attempting
<1>0. /\ elapsed \in Nat /\ try \in 0..(Retries + 1) /\ Timeout \in Nat
      /\ MaxDelay \in Nat /\ Retries \in Nat
      /\ (place # "none" <=> task = "running")
  BY ScheduleAssumption DEF ScheduleInv, TypeOK
<1>1. CASE Tick
  <2>1. CASE task = "running"
    BY <1>0, <1>1, <2>1 DEF Tick
  <2>2. CASE task = "retry"
    <3>1. try \in Nat \ {0}
      BY <1>0, <2>2
    <3>2. elapsed < LongestDelay(try)
      BY <1>1, <2>2 DEF Tick
    <3>3. elapsed + 1 <= MaxDelay
      BY <1>0, <3>1, <3>2, DelayCapped
    <3> QED
      BY <1>0, <1>1, <2>2, <3>3 DEF Tick
  <2>3. CASE task \notin {"running", "retry"}
    BY <1>0, <1>1, <2>3 DEF Tick
  <2> QED
    BY <2>1, <2>2, <2>3
<1>2. CASE CreateRun \/ Retry
  BY <1>0, <1>2 DEF CreateRun, Retry
<1>3. ASSUME NEW exception, AttemptEnds(exception), try' = try, Attempting
      PROVE  AgeInv'
  BY <1>0, <1>3 DEF AttemptEnds
<1>4. CASE Killed \/ ConnectFails \/ HandlerRecords \/ HandlerFails
  BY <1>3, <1>4 DEF Killed, ConnectFails, HandlerRecords, HandlerFails
<1>5. CASE Record \/ Fetch \/ Refused \/ Raises \/ LandNew \/ LandNothing
             \/ Succeed
  BY <1>0, <1>5
  DEF Record, Fetch, Refused, Raises, LandNew, LandNothing, Succeed
<1>6. CASE Exhaust \/ Reset \/ UNCHANGED vars
  BY <1>0, <1>6 DEF Exhaust, Reset, vars
<1> QED
  BY <1>1, <1>2, <1>4, <1>5, <1>6 DEF Next, Attempt

\* A run has no more time before it than all its attempts and waits may take,
\* and each takes no more than it may (dags/opensky_ingest.py:20-24).
LEMMA TicksLeftRange ==
  ASSUME ScheduleInv, AgeInv
  PROVE  RunIsBounded
<1> SUFFICES ASSUME Active PROVE TicksLeft \in 0 .. LongestRun
  BY DEF RunIsBounded
<1> DEFINE span == MaxDelay + Timeout
           more == Retries + 1 - try
<1>0. /\ elapsed \in Nat /\ Timeout \in Nat /\ MaxDelay \in Nat
      /\ Retries \in Nat /\ try \in 1..(Retries + 1)
      /\ (Attempting <=> task = "running")
      /\ (task = "retry" => try <= Retries)
  BY ScheduleAssumption DEF ScheduleInv, TypeOK, AgeInv
<1>1. span \in Nat /\ more \in 0..Retries /\ more * span \in Nat
  BY <1>0
<1>2. more * span <= Retries * span
  <2>1. \A a, b, c \in Nat : a <= b => a * c <= b * c
    OBVIOUS
  <2> QED
    BY <1>0, <1>1, <2>1
<1>3. more # 0 => more * span >= span
  <2>1. \A a, c \in Nat : a # 0 => a * c >= c
    OBVIOUS
  <2> QED
    BY <1>0, <1>1, <2>1
<1>4. LongestRun = Timeout + Retries * span /\ Retries * span \in Nat
  BY <1>0 DEF LongestRun
<1>5. TicksLeft = more * span + (IF Attempting THEN Timeout ELSE 0) - elapsed
  BY DEF TicksLeft
<1>6. span >= MaxDelay
  BY <1>0
<1> HIDE DEF more, span
<1>7. CASE Attempting
  <2>1. elapsed <= Timeout
    BY <1>7 DEF AgeInv
  <2> QED
    BY <1>0, <1>1, <1>2, <1>4, <1>5, <1>7, <2>1
<1>8. CASE task = "retry"
  <2>1. elapsed <= MaxDelay /\ ~Attempting
    BY <1>0, <1>8 DEF AgeInv
  <2>2. more # 0
    BY <1>0, <1>8 DEF more
  <2> QED
    BY <1>0, <1>1, <1>2, <1>3, <1>4, <1>5, <1>6, <2>1, <2>2
<1> QED
  BY <1>0, <1>7, <1>8 DEF Active

\* No step gives a run more time, and a tick takes some.
LEMMA TimeRunsOutStep ==
  ASSUME ScheduleInv, AgeInv, Next, Active, Active'
  PROVE  TicksLeft' <= TicksLeft /\ (Tick => TicksLeft' < TicksLeft)
<1> DEFINE span == MaxDelay + Timeout
<1>0. /\ elapsed \in Nat /\ Timeout \in Nat /\ MaxDelay \in Nat
      /\ Retries \in Nat /\ try \in 1..(Retries + 1)
      /\ (Attempting <=> task = "running")
      /\ (task = "retry" => try <= Retries)
      /\ (Attempting => elapsed <= Timeout)
      /\ (task = "retry" => elapsed <= MaxDelay)
  BY ScheduleAssumption DEF ScheduleInv, TypeOK, AgeInv
<1>1. /\ span \in Nat
      /\ (Retries + 1 - try) * span \in Int
      /\ (Retries + 1 - (try + 1)) * span = (Retries + 1 - try) * span - span
  BY <1>0
<1>2. TicksLeft = (Retries + 1 - try) * span
                    + (IF Attempting THEN Timeout ELSE 0) - elapsed
  BY DEF TicksLeft
<1>3. TicksLeft' = (Retries + 1 - try') * span
                     + (IF Attempting' THEN Timeout ELSE 0) - elapsed'
  BY DEF TicksLeft
<1> DEFINE rest == (Retries + 1 - try) * span
<1>4. CASE Tick
  <2>1. try' = try /\ elapsed' = elapsed + 1 /\ (Attempting' <=> Attempting)
    BY <1>4 DEF Tick, Attempting
  <2>2. TicksLeft' = rest + (IF Attempting THEN Timeout ELSE 0) - (elapsed + 1)
    BY <1>3, <2>1
  <2> HIDE DEF rest
  <2>3. TicksLeft = rest + (IF Attempting THEN Timeout ELSE 0) - elapsed
    BY <1>2 DEF rest
  <2>4. rest \in Int
    BY <1>1 DEF rest
  <2> QED
    BY <1>0, <2>2, <2>3, <2>4
<1>5. ASSUME ~Tick, TicksLeft' <= TicksLeft
      PROVE  TicksLeft' <= TicksLeft /\ (Tick => TicksLeft' < TicksLeft)
  BY <1>5
<1>6. CASE Retry
  <2>1. try' = try + 1 /\ elapsed' = 0 /\ Attempting' /\ ~Attempting /\ task = "retry"
    BY <1>0, <1>6 DEF Retry, Attempting
  <2>2. TicksLeft' = rest - span + Timeout
    BY <1>0, <1>1, <1>3, <2>1
  <2>3. TicksLeft = rest - elapsed
    BY <1>0, <1>1, <1>2, <2>1
  <2>4. ~Tick
    <3>1. try' # try
      BY <1>0, <2>1
    <3> QED
      BY <3>1 DEF Tick
  <2>5. rest \in Int
    BY <1>1
  <2> HIDE DEF rest
  <2> QED
    BY <1>0, <1>5, <2>1, <2>2, <2>3, <2>4, <2>5
<1>7. ASSUME try' = try, Attempting, task' = "retry", ~Attempting', elapsed' = 0
      PROVE  TicksLeft' <= TicksLeft /\ ~Tick
  <2>1. TicksLeft' = rest /\ TicksLeft = rest + Timeout - elapsed /\ rest \in Int
    BY <1>0, <1>1, <1>2, <1>3, <1>7
  <2>2. ~Tick
    BY <1>7 DEF Tick, Attempting
  <2> HIDE DEF rest
  <2> QED
    BY <1>0, <1>7, <2>1, <2>2
<1>8. CASE Killed \/ ConnectFails \/ HandlerRecords \/ HandlerFails
  <2>1. /\ try' = try /\ Attempting /\ task' \in {"failed", "retry"}
        /\ ~Attempting' /\ elapsed' = 0
    BY <1>8 DEF Killed, ConnectFails, HandlerRecords, HandlerFails, AttemptEnds,
       Attempting
  <2>2. task' = "retry"
    BY <2>1 DEF Active
  <2> QED
    BY <1>5, <1>7, <2>1, <2>2
<1>9. ASSUME UNCHANGED <<try, elapsed>>, Attempting' <=> Attempting
      PROVE  TicksLeft' <= TicksLeft /\ ~Tick
  <2>1. TicksLeft' = TicksLeft
    BY <1>2, <1>3, <1>9
  <2>2. TicksLeft \in Int
    BY <1>0, <1>1, <1>2
  <2>3. ~Tick
    <3>1. Tick => elapsed' = elapsed + 1
      BY DEF Tick
    <3> QED
      BY <1>0, <1>9, <3>1
  <2> QED
    BY <2>1, <2>2, <2>3
<1>10. CASE Record \/ Fetch \/ Refused \/ Raises \/ LandNew \/ LandNothing
  <2>1. UNCHANGED <<try, elapsed>> /\ (Attempting' <=> Attempting)
    BY <1>10 DEF Record, Fetch, Refused, Raises, LandNew, LandNothing, Attempting
  <2> QED
    BY <1>5, <1>9, <2>1
<1>11. CASE Exhaust \/ Reset
  <2>1. UNCHANGED <<try, elapsed>> /\ (Attempting' <=> Attempting)
    BY <1>11 DEF Exhaust, Reset, Attempting
  <2> QED
    BY <1>5, <1>9, <2>1
<1>12. ~CreateRun /\ ~Succeed
  BY DEF CreateRun, Succeed, Active
<1> QED
  BY <1>4, <1>6, <1>8, <1>10, <1>11, <1>12 DEF Next, Attempt

\* The age of attempts and waits stays within their limits.
LEMMA AgeInvariance == Spec => []AgeInv
<1>1. Init => AgeInv
  BY DEF Init, AgeInv, Active, Attempting
<1>2. ScheduleInv /\ AgeInv /\ [Next]_vars => AgeInv'
  BY AgeStep
<1> QED
  BY <1>1, <1>2, ScheduleInvariance, PTL DEF Spec

\* A run of the DAG lasts at most all its attempts at their timeout and all
\* its waits at their longest (dags/opensky_ingest.py:20-24).
THEOREM RunsAreBounded == Spec => []RunIsBounded
<1>1. ScheduleInv /\ AgeInv => RunIsBounded
  BY TicksLeftRange
<1> QED
  BY <1>1, ScheduleInvariance, AgeInvariance, PTL

\* Every tick takes a run nearer to that end, and no step takes it back: what
\* EveryDagRunEnds rests on, apart from the fairness of time and of Airflow.
THEOREM RunsRunOut == Spec => TimeRunsOut
<1>1. ScheduleInv /\ AgeInv /\ [Next]_vars =>
        [Active /\ Active' =>
           TicksLeft' <= TicksLeft /\ (Tick => TicksLeft' < TicksLeft)]_vars
  BY TimeRunsOutStep
<1> QED
  BY <1>1, ScheduleInvariance, AgeInvariance, PTL DEF Spec, TimeRunsOut
=============================================================================
