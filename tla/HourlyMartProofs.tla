--------------------------- MODULE HourlyMartProofs ---------------------------
(***************************************************************************)
(* Proofs about HourlyMart, for any lookback, skew and number of hours.    *)
(***************************************************************************)
EXTENDS HourlyMart, TLAPS

\* Nothing has landed and nothing is built.
LEMMA MartInit == Init => MartInv
<1>1. Empty \in [Hours -> Nat] /\ \A h \in Hours : Empty[h] = 0
  BY DEF Empty
<1>2. 0 \in Hours /\ \A h \in Hours : h \in Nat
  BY HoursAssumption DEF Hours
<1> SUFFICES ASSUME Init PROVE MartInv
  OBVIOUS
<1>3. TypeOK
  BY <1>1, <1>2 DEF Init, TypeOK
<1>4. \A h \in Hours : source[h] = 0 /\ mart[h] = 0 /\ sampled[h] = 0
  BY <1>1 DEF Init
<1>5. sampledAt <= clock
  BY <1>2 DEF Init
<1>6. stage = "idle"
  BY DEF Init
<1> QED
  BY <1>3, <1>4, <1>5, <1>6 DEF MartInv, CountedAtMostOnce

\* Time and ingestion only widen what the mart may lag behind.
LEMMA OutsideKeepsInv ==
  ASSUME MartInv, NextHour \/ Land
  PROVE  MartInv'
<1> USE HoursAssumption DEF MartInv, TypeOK, CountedAtMostOnce, Hours
<1>1. CASE NextHour
  BY <1>1 DEF NextHour, query, InReach
<1>2. CASE Land
  <2>1. PICK h \in Hours : /\ h <= clock + Skew
                           /\ source' = [source EXCEPT ![h] = @ + 1]
    BY <1>2 DEF Land
  <2>2. UNCHANGED <<clock, mart, exists, stage, query, verdict>>
    BY <1>2 DEF Land
  <2>3. source' \in [Hours -> Nat]
    BY <2>1
  <2>4. \A g \in Hours : source[g] <= source'[g]
    BY <2>1
  <2>5. \A g \in Hours : source'[g] > 0 => g <= clock + Skew
    BY <2>1
  <2>6. \A g \in Hours : mart[g] <= source'[g] /\ sampled[g] <= source'[g]
    <3> SUFFICES ASSUME NEW g \in Hours
                 PROVE  mart[g] <= source'[g] /\ sampled[g] <= source'[g]
      OBVIOUS
    <3>1. /\ mart[g] \in Nat /\ sampled[g] \in Nat
          /\ source[g] \in Nat /\ source'[g] \in Nat
      BY <2>3
    <3>2. mart[g] <= source[g] /\ sampled[g] <= source[g]
      OBVIOUS
    <3> QED
      BY <2>4, <3>1, <3>2
  <2> QED
    BY <2>2, <2>3, <2>5, <2>6 DEF query, InReach
<1> QED
  BY <1>1, <1>2

\* The filter lets through every hour the window reaches: no row of the mart
\* is further ahead of the clock than Skew.
LEMMA FilterReaches ==
  ASSUME MartInv,
         NEW h \in Hours, h + Lookback >= clock + Skew
  PROVE  Recent(h)
<1> SUFFICES ASSUME NEW g \in Hours, mart[g] > 0
             PROVE  h >= g - Lookback
  BY DEF Recent
<1>1. source[g] > 0
  BY DEF MartInv, TypeOK, CountedAtMostOnce
<1>2. g <= clock + Skew
  BY <1>1 DEF MartInv
<1> QED
  BY <1>2, HoursAssumption DEF MartInv, TypeOK, Hours

\* Nor does it leave out an hour that every landed row is in reach of.
LEMMA FilterFollowsRows ==
  ASSUME MartInv,
         NEW h \in Hours, \A g \in Hours : source[g] > 0 => g <= h + Lookback
  PROVE  Recent(h)
<1> SUFFICES ASSUME NEW g \in Hours, mart[g] > 0
             PROVE  h >= g - Lookback
  BY DEF Recent
<1>1. source[g] > 0
  BY DEF MartInv, TypeOK, CountedAtMostOnce
<1> QED
  BY <1>1, HoursAssumption DEF Hours

\* The query of a build.
LEMMA QueryKeepsInv ==
  ASSUME MartInv, SelectRecent \/ SelectAll
  PROVE  MartInv'
<1> USE HoursAssumption DEF MartInv, TypeOK, CountedAtMostOnce, Hours
<1>1. CASE SelectRecent
  <2>1. \A h \in Hours :
          h + Lookback >= clock + Skew \/ InReach(h)' => h \in chosen'
    BY <1>1, FilterReaches, FilterFollowsRows
       DEF SelectRecent, Query, InReach
  <2>2. chosen' \in SUBSET Hours
    BY <1>1 DEF SelectRecent, Query
  <2> QED
    BY <1>1, <2>1, <2>2 DEF SelectRecent, Query
<1>2. CASE SelectAll
  BY <1>2 DEF SelectAll, Query
<1> QED
  BY <1>1, <1>2

\* What the build writes is what its query saw.
LEMMA WriteKeepsInv ==
  ASSUME MartInv, Replace \/ Swap
  PROVE  MartInv'
<1> USE HoursAssumption DEF MartInv, TypeOK, CountedAtMostOnce, Hours
<1>1. CASE Replace
  <2>1. mart' \in [Hours -> Nat]
    BY <1>1 DEF Replace
  <2>2. \A h \in Hours : mart'[h] <= sampled[h]
    BY <1>1 DEF Replace
  <2>3. \A h \in chosen : mart'[h] = sampled[h]
    BY <1>1 DEF Replace
  <2>4. \A h \in Hours : mart'[h] <= source[h]
    BY <2>1, <2>2
  <2> QED
    BY <1>1, <2>1, <2>2, <2>3, <2>4 DEF Replace, query, InReach
<1>2. CASE Swap
  <2>1. \A h \in Hours : mart'[h] <= source[h]
    BY <1>2 DEF Swap
  <2> QED
    BY <1>2, <2>1 DEF Swap, query, InReach
<1> QED
  BY <1>1, <1>2

\* MartInv is inductive.
LEMMA MartStep ==
  ASSUME MartInv, [Next]_vars
  PROVE  MartInv'
<1>1. CASE NextHour \/ Land
  BY <1>1, OutsideKeepsInv
<1>2. CASE SelectRecent \/ SelectAll
  BY <1>2, QueryKeepsInv
<1>3. CASE Replace \/ Swap
  BY <1>3, WriteKeepsInv
<1>4. CASE BuildFails
  BY <1>4 DEF MartInv, TypeOK, CountedAtMostOnce, BuildFails, query, InReach
<1>5. CASE Reconcile
  BY <1>5 DEF MartInv, TypeOK, CountedAtMostOnce, Reconcile, query
<1>6. CASE UNCHANGED vars
  BY <1>6 DEF MartInv, TypeOK, CountedAtMostOnce, vars, InReach
<1> QED
  BY <1>1, <1>2, <1>3, <1>4, <1>5, <1>6 DEF Next

\* The inductive invariant of the mart holds for every lookback and skew.
THEOREM MartInvariance == Spec => []MartInv
  BY MartInit, MartStep, PTL DEF Spec

\* No observation is counted twice.
THEOREM NeverCountedTwice == Spec => []CountedAtMostOnce
<1>1. MartInv => CountedAtMostOnce
  BY DEF MartInv
<1> QED
  BY <1>1, MartInvariance, PTL

\* A build absorbs what landed for the last Lookback - Skew hours.
THEOREM WindowAbsorbs == Spec => []ReachAbsorbsLate
<1>1. MartInv => ReachAbsorbsLate
  BY DEF MartInv, ReachAbsorbsLate
<1> QED
  BY <1>1, MartInvariance, PTL

\* The filter hangs on max(activity_hour), so the reach of a build follows the
\* newest row it has seen (fct_airspace_activity_hourly.sql:33-40).
THEOREM WindowFollowsRows == Spec => []ReachFollowsRows
<1>1. MartInv => ReachFollowsRows
  BY DEF MartInv, ReachFollowsRows
<1> QED
  BY <1>1, MartInvariance, PTL

\* A rebuild never takes an observation out of an hour.
THEOREM NothingTakenOut == Spec => HourNeverShrinks
<1>1. MartInv /\ [Next]_vars => [\A h \in Hours : mart'[h] >= mart[h]]_vars
  <2> SUFFICES ASSUME MartInv, Next, NEW h \in Hours
               PROVE  mart'[h] >= mart[h]
    OBVIOUS
  <2> USE DEF MartInv, TypeOK
  <2>1. CASE Replace
    BY <2>1 DEF Replace
  <2>2. CASE Swap
    BY <2>2 DEF Swap
  <2>3. CASE ~Replace /\ ~Swap
    BY <2>3 DEF Next, NextHour, Land, SelectRecent, SelectAll, Query,
       BuildFails, Reconcile
  <2> QED
    BY <2>1, <2>2, <2>3
<1> QED
  BY <1>1, MartInvariance, PTL DEF Spec, HourNeverShrinks

\* With ingestion at rest, the test fails only for an hour left out.
THEOREM QuietFailures == Spec => QuietFailureIsStale
<1>1. MartInv /\ [Next]_vars =>
        [verdict' = "fail" /\ verdict # "fail" /\ sampled = source =>
           \E h \in Hours \ chosen : Differs(h)]_vars
  <2> SUFFICES ASSUME MartInv, Next,
                      verdict' = "fail", verdict # "fail", sampled = source
               PROVE  \E h \in Hours \ chosen : Differs(h)
    OBVIOUS
  <2>1. Reconcile
    BY DEF Next, NextHour, Land, SelectRecent, SelectAll, Query, Replace,
       Swap, BuildFails
  <2>2. PICK h \in Hours : Differs(h)
    BY <2>1 DEF Reconcile
  <2>3. h \notin chosen
    BY <2>1, <2>2 DEF MartInv, Reconcile, Differs
  <2> QED
    BY <2>2, <2>3
<1> QED
  BY <1>1, MartInvariance, PTL DEF Spec, QuietFailureIsStale
=============================================================================
