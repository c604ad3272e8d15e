-------------------------- MODULE CommandLineProofs --------------------------
(***************************************************************************)
(* Proofs about CommandLine, for every interval, area and length of a day. *)
(***************************************************************************)
EXTENDS CommandLine, TLAPS

USE DEF Running

LEMMA TypeStep == TypeOK /\ [Next]_vars => TypeOK'
<1> SUFFICES ASSUME TypeOK, [Next]_vars
             PROVE  TypeOK'
  OBVIOUS
<1> USE TimesAssumption DEF TypeOK, Goto, Exit, Raise, time, process
<1>1. CASE ParseArguments
  BY <1>1 DEF ParseArguments
<1>2. CASE LoadSettings
  BY <1>2 DEF LoadSettings
<1>3. CASE RunChecks
  BY <1>3 DEF RunChecks
<1>4. CASE RunMigrations
  BY <1>4 DEF RunMigrations
<1>5. CASE BeginCycle
  BY <1>5 DEF BeginCycle
<1>6. CASE Connect
  BY <1>6 DEF Connect
<1>7. CASE Fetch
  BY <1>7 DEF Fetch
<1>8. CASE FetchFails
  BY <1>8 DEF FetchFails
<1>9. CASE Load
  BY <1>9 DEF Load
<1>10. CASE LoadFails
  BY <1>10 DEF LoadFails
<1>11. CASE Handle
  BY <1>11 DEF Handle
<1>12. CASE Catch
  BY <1>12 DEF Catch, CodeFor
<1>13. CASE Return
  BY <1>13 DEF Return
<1>14. CASE Wake
  BY <1>14 DEF Wake
<1>15. CASE Interrupt
  BY <1>15 DEF Interrupt
<1>16. CASE Tick
  <2>1. (clock + 1) % Day \in 0 .. Day - 1
    OBVIOUS
  <2>. QED
    BY <1>16, <2>1 DEF Tick
<1>17. CASE UNCHANGED vars
  BY <1>17 DEF vars
<1>. QED
  BY <1>1, <1>2, <1>3, <1>4, <1>5, <1>6, <1>7, <1>8, <1>9, <1>10, <1>11,
     <1>12, <1>13, <1>14, <1>15, <1>16, <1>17 DEF Next, Step

\* Polls lie an interval apart: a step other than these leaves the clock, the
\* polls and the stage of the cycle as CadenceInv needs them.
LEMMA CadenceStep ==
  TypeOK /\ CadenceInv /\ [Next]_vars => CadenceInv'
<1> SUFFICES ASSUME TypeOK, CadenceInv, [Next]_vars
             PROVE  CadenceInv'
  OBVIOUS
<1> USE TimesAssumption DEF TypeOK, CadenceInv, Goto, Exit, Raise, time, process
<1>0. /\ (polls - 1) * Interval = (polls - 2) * Interval + Interval
      /\ (polls + 1) - 2 = polls - 1
      /\ \A n \in Int : n * Interval \in Int
  OBVIOUS
<1>1. CASE ParseArguments \/ LoadSettings \/ RunChecks \/ RunMigrations
  BY <1>1 DEF ParseArguments, LoadSettings, RunChecks, RunMigrations
<1>2. CASE BeginCycle
  BY <1>2 DEF BeginCycle
<1>3. CASE Connect \/ Load
  BY <1>0, <1>3 DEF Connect, Load
<1>4. CASE Fetch
  <2>1. polls' = polls + 1 /\ clock' = clock /\ age' = age
    BY <1>4 DEF Fetch
  <2>2. polls > 0 => (polls - 1) * Interval <= clock - age
    BY <1>4 DEF Fetch
  <2>3. pc' \in {"returned", "loading"}
    BY <1>4 DEF Fetch
  <2>4. polls' > 1 => (polls' - 2) * Interval <= clock' - age'
    BY <1>0, <2>1, <2>2
  <2>. QED
    BY <2>3, <2>4
<1>5. CASE FetchFails
  <2>1. /\ polls' = polls /\ clock' = clock /\ age' = age
        /\ pc = "fetching" /\ pc' \in {"raised", "handler"}
    BY <1>5 DEF FetchFails
  <2>2. polls > 1 => (polls - 2) * Interval <= clock - age
    BY <1>0, <2>1
  <2>. QED
    BY <2>1, <2>2
<1>6. CASE LoadFails \/ Handle \/ Catch \/ Interrupt
  BY <1>6 DEF LoadFails, Handle, Catch, Interrupt
<1>7. CASE Return
  BY <1>7 DEF Return
<1>8. CASE Wake
  <2>1. /\ polls' = polls /\ clock' = clock /\ pc' = "cycle"
        /\ age >= Interval
        /\ polls > 1 => (polls - 2) * Interval <= clock - age
    BY <1>8 DEF Wake
  <2>2. polls > 1 => (polls - 1) * Interval <= clock
    <3> DEFINE p == (polls - 2) * Interval
    <3> HIDE DEF p
    <3>1. p \in Int /\ (polls - 1) * Interval = p + Interval
      BY <1>0 DEF p
    <3>2. polls > 1 => p <= clock - age
      BY <2>1 DEF p
    <3>. QED
      BY <2>1, <3>1, <3>2
  <2>3. polls = 1 => (polls - 1) * Interval <= clock
    OBVIOUS
  <2>. QED
    BY <2>1, <2>2, <2>3
<1>9. CASE Tick
  <2>1. /\ pc' = pc
        /\ age' = age + 1
        /\ left' = IF left > 0 THEN left - 1 ELSE 0
        /\ clock' = (clock + 1) % Day
        /\ polls' = IF clock' = 0 THEN 0 ELSE polls
    BY <1>9 DEF Tick
  <2>2. clock' = 0 \/ clock' = clock + 1
    BY <2>1
  <2>3. CASE clock' = 0
    BY <2>1, <2>3
  <2>4. CASE clock' # 0
    <3>1. clock' = clock + 1 /\ polls' = polls /\ clock' - age' = clock - age
      BY <2>1, <2>2, <2>4
    <3>2. polls > 0 => (polls - 1) * Interval \in Int
      BY <1>0
    <3>. QED
      BY <2>1, <3>1, <3>2
  <2>. QED
    BY <2>3, <2>4
<1>10. CASE UNCHANGED vars
  BY <1>10 DEF vars
<1>. QED
  BY <1>1, <1>2, <1>3, <1>4, <1>5, <1>6, <1>7, <1>8, <1>9, <1>10
     DEF Next, Step

\* Between the API's answer and the exit code nothing is told as another.
LEMMA OutcomeStep ==
  TypeOK /\ OutcomeInv /\ [Next]_vars => OutcomeInv'
<1> SUFFICES ASSUME TypeOK, OutcomeInv, [Next]_vars
             PROVE  OutcomeInv'
  OBVIOUS
<1> USE DEF TypeOK, OutcomeInv, ExitTellsTheOutcome, Goto, Exit, Raise, time,
            process
<1>1. CASE ParseArguments
  BY <1>1 DEF ParseArguments
<1>2. CASE LoadSettings
  BY <1>2 DEF LoadSettings
<1>3. CASE RunChecks
  BY <1>3 DEF RunChecks
<1>4. CASE RunMigrations
  BY <1>4 DEF RunMigrations
<1>5. CASE BeginCycle
  BY <1>5 DEF BeginCycle
<1>6. CASE Connect
  BY <1>6 DEF Connect
<1>7. CASE Fetch
  BY <1>7 DEF Fetch
<1>8. CASE FetchFails
  BY <1>8 DEF FetchFails
<1>9. CASE Load
  BY <1>9 DEF Load
<1>10. CASE LoadFails
  BY <1>10 DEF LoadFails
<1>11. CASE Handle
  BY <1>11 DEF Handle
<1>12. CASE Catch
  BY <1>12 DEF Catch, CodeFor
<1>13. CASE Return
  BY <1>13 DEF Return
<1>14. CASE Wake
  BY <1>14 DEF Wake
<1>15. CASE Interrupt
  BY <1>15 DEF Interrupt
<1>16. CASE Tick
  BY <1>16 DEF Tick
<1>17. CASE UNCHANGED vars
  BY <1>17 DEF vars
<1>. QED
  BY <1>1, <1>2, <1>3, <1>4, <1>5, <1>6, <1>7, <1>8, <1>9, <1>10, <1>11,
     <1>12, <1>13, <1>14, <1>15, <1>16, <1>17 DEF Next, Step

LEMMA CommandInit == Init => CommandInv
<1> SUFFICES ASSUME Init
             PROVE  CommandInv
  OBVIOUS
<1>1. TypeOK
  BY TimesAssumption DEF Init, TypeOK
<1>2. CadenceInv /\ OutcomeInv
  BY DEF Init, CadenceInv, OutcomeInv, ExitTellsTheOutcome
<1>3. polls <= PollsPerDay(Day, Interval) + 2
  BY TimesAssumption DEF Init, PollsPerDay
<1>. QED
  BY <1>1, <1>2, <1>3 DEF CommandInv

\* Of a time of day and the age of a cycle.
LEMMA Within ==
  ASSUME NEW c, NEW a, NEW d \in Nat, NEW m \in Nat, c \in 0 .. d - 1,
         a \in 0 .. m
  PROVE  c \in Int /\ a \in Int /\ d \in Int /\ c - a < d
OBVIOUS

LEMMA Chain ==
  ASSUME NEW s \in Int, NEW c \in Int, NEW a \in Int, NEW d \in Int,
         NEW e \in Int, s <= c - a, c - a < d, d < e
  PROVE  s < e
OBVIOUS

\* Polls a day apart at most, an interval apart at least.
LEMMA CountStep ==
  TypeOK /\ CadenceInv /\ CadenceInv' /\ TypeOK'
    /\ polls <= PollsPerDay(Day, Interval) + 2 /\ [Next]_vars
  => (polls <= PollsPerDay(Day, Interval) + 2)'
<1> SUFFICES ASSUME TypeOK, CadenceInv, CadenceInv', TypeOK', [Next]_vars,
                    polls <= PollsPerDay(Day, Interval) + 2
             PROVE  polls' <= PollsPerDay(Day, Interval) + 2
  BY DEF PollsPerDay
<1> DEFINE q == Day \div Interval
<1>0. q \in Nat /\ Day < (q + 1) * Interval
  BY TimesAssumption
<1>1. CASE Fetch
  <2>1. pc' \in {"loading", "returned"} /\ polls' \in Nat
    BY <1>1 DEF Fetch, Goto, TypeOK
  <2> DEFINE p == polls' - 2
             spent == p * Interval
             day == (q + 1) * Interval
  <2>2. /\ clock' \in Int /\ age' \in Int /\ Day \in Int
        /\ clock' - age' < Day
    <3>1. clock' \in 0 .. Day - 1 /\ age' \in 0 .. MaxAge
      BY DEF TypeOK
    <3>. QED
      BY <3>1, TimesAssumption, Within
  <2>3. polls' > 1 => spent <= clock' - age'
    BY <2>1 DEF CadenceInv
  <2>4. /\ p \in Int /\ spent \in Int /\ day \in Int
        /\ day = q * Interval + Interval
    BY <1>0, <2>1, TimesAssumption
  <2>5. polls' > 1 => spent < day
    <3>1. Day < day
      BY <1>0
    <3> HIDE DEF spent, day, q, p
    <3>. QED
      BY <3>1, <2>2, <2>3, <2>4, Chain
  <2>6. polls' > 1 => p < q + 1
    BY <1>0, <2>4, <2>5, TimesAssumption
  <2>. QED
    BY <1>0, <2>1, <2>6 DEF PollsPerDay
<1>2. CASE ~Fetch
  <2>1. polls' = polls \/ polls' = 0
    BY <1>2 DEF Next, Step, ParseArguments, LoadSettings, RunChecks,
       RunMigrations, BeginCycle, Connect, FetchFails, Load, LoadFails, Handle,
       Catch, Return, Wake, Interrupt, Tick, vars
  <2>. QED
    BY <1>0, <2>1 DEF PollsPerDay
<1>. QED
  BY <1>1, <1>2

\* Stages, outcomes and polls of a process stay consistent.
THEOREM CommandInvariance == Spec => []CommandInv
<1>1. CommandInv /\ [Next]_vars => CommandInv'
  BY TypeStep, CadenceStep, OutcomeStep, CountStep DEF CommandInv
<1>. QED
  BY CommandInit, <1>1, PTL DEF Spec

\* The exit code tells a scheduler what has happened.
THEOREM ExitCodesAreDistinct == Spec => []ExitTellsTheOutcome
<1>1. CommandInv => ExitTellsTheOutcome
  BY DEF CommandInv, OutcomeInv
<1>. QED
  BY CommandInvariance, <1>1, PTL

\* The loop spends the announced budget and two polls at most.
THEOREM BudgetHolds == Spec => []BudgetIsKept
<1>1. CommandInv => BudgetIsKept
  <2> SUFFICES ASSUME CommandInv
               PROVE  BudgetIsKept
    OBVIOUS
  <2> DEFINE q == PollsPerDay(Day, Interval)
             cost == CreditCost(Area)
  <2>1. q \in Nat /\ polls \in Nat /\ polls <= q + 2
    BY TimesAssumption DEF CommandInv, TypeOK, PollsPerDay
  <2>2. cost \in Nat
    BY AreaAssumption DEF CreditCost
  <2> HIDE DEF q, cost
  <2>3. polls * cost <= (q + 2) * cost
    BY <2>1, <2>2
  <2>4. (q + 2) * cost = q * cost + 2 * cost
    BY <2>1, <2>2
  <2>. QED
    BY <2>3, <2>4 DEF BudgetIsKept, DailyBudget, q, cost
<1>. QED
  BY CommandInvariance, <1>1, PTL

\* A slow cycle is followed by one poll.
THEOREM NoBurst == Spec => NoCatchingUp
<1>1. CommandInv /\ [Next]_vars =>
        [pc = "sleeping" /\ pc' = "cycle" => age >= Interval]_vars
  BY TimesAssumption
     DEF CommandInv, CadenceInv, TypeOK, Next, Step, ParseArguments,
         LoadSettings, RunChecks, RunMigrations, BeginCycle, Connect, Fetch,
         FetchFails, Load, LoadFails, Handle, Catch, Return, Wake, Interrupt,
         Tick, process, Goto, Raise, Exit
<1>. QED
  BY CommandInvariance, <1>1, PTL DEF Spec, NoCatchingUp
=============================================================================
