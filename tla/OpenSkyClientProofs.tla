------------------------- MODULE OpenSkyClientProofs -------------------------
(***************************************************************************)
(* Proofs about OpenSkyClient, for any margin, latency, token lifetimes    *)
(* and number of attempts.                                                 *)
(***************************************************************************)
EXTENDS OpenSkyClient, WellFoundedInduction, TLAPS

\* What the choice of TOKEN_REFRESH_MARGIN_SECONDS has to respect: 60 against
\* twice the 30 s of opensky_timeout_seconds, and tokens of 1800 s.
MarginSuffices ==
  /\ Margin >= 2 * Latency
  /\ \A l \in Lifetimes : l > 2 * Latency

\* A new client holds no token.
LEMMA ClientInit == Init => ClientInv
  BY AttemptsAssumption, TimesAssumption
  DEF Init, ClientInv, TypeOK, Places, InFlight, Verdicts, Final, Tokens

\* A new token changes the life of no other.
LEMMA IssueKeepsInv ==
  ASSUME ClientInv, Issue
  PROVE  ClientInv'
<1>1. /\ dies \in [Tokens -> Nat] /\ issued \in Nat /\ now \in Nat
      /\ held \in 0..issued /\ presented \in 0..issued
      /\ MaxTokens \in Nat /\ issued < MaxTokens
  BY TimesAssumption DEF ClientInv, TypeOK, Issue
<1>2. /\ pc = "token_sent" /\ pc' = "token_issued" /\ issued' = issued + 1
      /\ UNCHANGED <<anonymous, now, attempt, since, started, held, expiresAt,
                     presented, calls, last, refused>>
  BY DEF Issue, cache
<1>3. PICK l \in Lifetimes : /\ granted' = l
                             /\ dies' = [dies EXCEPT ![issued + 1] = now + l]
  BY DEF Issue
<1>4. l \in Nat /\ now + l \in Nat /\ issued + 1 \in Tokens
  BY <1>1, TimesAssumption DEF Tokens
<1>5. /\ dies' \in [Tokens -> Nat]
      /\ dies'[issued + 1] = now + l
      /\ \A t \in 1..issued : dies'[t] = dies[t]
  BY <1>1, <1>3, <1>4 DEF Tokens
<1>6. TypeOK'
  BY <1>1, <1>2, <1>3, <1>4, <1>5 DEF ClientInv, TypeOK, Places, InFlight
<1>7. held # 0 /\ now < expiresAt => expiresAt + Margin <= dies'[held] + Latency
  BY <1>1, <1>5 DEF ClientInv
<1>8. refused \subseteq 1..issued' /\ issued + 1 \notin refused
  BY <1>1, <1>2 DEF ClientInv
<1>9. since <= now /\ now <= since + Latency /\ since \in Nat
  BY <1>2 DEF ClientInv, TypeOK, InFlight
<1>10. since + l <= dies'[issued']
  BY <1>1, <1>2, <1>4, <1>5, <1>9
<1>11. held \notin refused /\ last \notin Final
  BY <1>2 DEF ClientInv
<1>12. issued' # 0
  BY <1>1, <1>2
<1> QED
  BY <1>2, <1>3, <1>6, <1>7, <1>8, <1>9, <1>10, <1>11, <1>12
  DEF ClientInv

\* ClientInv is inductive when the margin suffices.
LEMMA ClientStep ==
  ASSUME MarginSuffices, ClientInv, [Next]_vars
  PROVE  ClientInv'
<1> USE AttemptsAssumption, TimesAssumption
    DEF ClientInv, TypeOK, Places, InFlight, Verdicts, Final, Tokens, cache,
        server
<1>1. CASE StartFetch
  BY <1>1 DEF StartFetch
<1>2. CASE Wake
  BY <1>2 DEF Wake
<1>3. CASE SendAnonymously
  BY <1>3 DEF SendAnonymously, Present
<1>4. CASE SendCached
  BY <1>4 DEF SendCached, CacheIsFresh, Present, MarginSuffices
<1>5. CASE RequestToken
  BY <1>5 DEF RequestToken
<1>6. CASE Issue
  BY <1>6, IssueKeepsInv
<1>7. CASE TokenArrives
  BY <1>7 DEF TokenArrives, Present, MarginSuffices
<1>8. CASE TokenFails
  BY <1>8 DEF TokenFails, Transient
<1>9. CASE TokenRefused
  BY <1>9 DEF TokenRefused, Over
<1>10. CASE Snapshot \/ RateLimited \/ Unexpected
  BY <1>10 DEF Snapshot, RateLimited, Unexpected, Over
<1>11. CASE StatesFail
  BY <1>11 DEF StatesFail, Transient
<1>12. CASE Unauthorised
  BY <1>12 DEF Unauthorised, Over
<1>13. CASE Tick
  BY <1>13 DEF Tick
<1>14. CASE UNCHANGED vars
  BY <1>14 DEF vars
<1> QED
  BY <1>1, <1>2, <1>3, <1>4, <1>5, <1>6, <1>7, <1>8, <1>9, <1>10, <1>11,
     <1>12, <1>13, <1>14 DEF Next, Step

\* The inductive invariant of the client, for every margin that suffices.
THEOREM ClientInvariance == ASSUME MarginSuffices PROVE Spec => []ClientInv
<1>1. Init => ClientInv
  BY ClientInit
<1>2. ClientInv /\ [Next]_vars => ClientInv'
  BY ClientStep
<1> QED
  BY <1>1, <1>2, PTL DEF Spec

\* No request is in flight with a token that expires before it is judged.
THEOREM MarginIsEnough == ASSUME MarginSuffices PROVE Spec => []NoExpiryMidFlight
<1>1. ClientInv => NoExpiryMidFlight
  BY TimesAssumption DEF ClientInv, TypeOK, NoExpiryMidFlight, InFlight, Tokens
<1> QED
  BY <1>1, ClientInvariance, PTL

\* After a snapshot, a 429 or a refusal, the fetch makes no further request.
THEOREM NoRequestAfterAnAnswer ==
  ASSUME MarginSuffices PROVE Spec => RefusalIsFinal
<1>1. ClientInv /\ [Next]_vars => [calls' > calls => last \notin Final]_vars
  <2> SUFFICES ASSUME ClientInv, Next, calls' > calls
               PROVE  last \notin Final
    OBVIOUS
  <2>1. calls \in Nat
    BY DEF ClientInv, TypeOK
  <2>2. SendAnonymously \/ SendCached \/ TokenArrives
    BY <2>1 DEF Next, Step, StartFetch, Wake, RequestToken, Issue, TokenFails,
       TokenRefused, Snapshot, StatesFail, RateLimited, Unexpected,
       Unauthorised, Tick
  <2>3. pc \in {"attempting", "token_issued"}
    BY <2>2 DEF SendAnonymously, SendCached, TokenArrives
  <2> QED
    BY <2>3 DEF ClientInv
<1> QED
  BY <1>1, ClientInvariance, PTL DEF Spec, RefusalIsFinal

\* A token the server has refused is never presented again.
THEOREM RefusedTokensStayOut ==
  ASSUME MarginSuffices PROVE Spec => RefusedTokenIsDropped
<1>1. ClientInv /\ [Next]_vars => [calls' > calls => presented' \notin refused]_vars
  <2> SUFFICES ASSUME ClientInv, Next, calls' > calls
               PROVE  presented' \notin refused
    OBVIOUS
  <2>1. calls \in Nat /\ issued \in Nat
    BY TimesAssumption DEF ClientInv, TypeOK
  <2>2. SendAnonymously \/ SendCached \/ TokenArrives
    BY <2>1 DEF Next, Step, StartFetch, Wake, RequestToken, Issue, TokenFails,
       TokenRefused, Snapshot, StatesFail, RateLimited, Unexpected,
       Unauthorised, Tick
  <2>3. CASE SendAnonymously
    BY <2>1, <2>3 DEF SendAnonymously, Present, ClientInv
  <2>4. CASE SendCached
    BY <2>4 DEF SendCached, Present, ClientInv
  <2>5. CASE TokenArrives
    BY <2>5 DEF TokenArrives, Present, ClientInv
  <2> QED
    BY <2>2, <2>3, <2>4, <2>5
<1> QED
  BY <1>1, ClientInvariance, PTL DEF Spec, RefusedTokenIsDropped

-----------------------------------------------------------------------------
(* How long a fetch takes.                                                 *)

\* A set of naturals has a least member.
LEMMA Smallest ==
  ASSUME NEW T, T \subseteq Nat, T # {}
  PROVE  \E m \in T : \A k \in T : m <= k
<1>1. \E x \in T : \A y \in T : ~(<<y, x>> \in OpToRel(<, Nat))
  BY NatLessThanWellFounded, WFMin
<1>2. PICK x \in T : \A y \in T : ~(<<y, x>> \in OpToRel(<, Nat))
  BY <1>1
<1>3. \A y \in T : ~(y < x)
  BY <1>2 DEF OpToRel
<1> QED
  BY <1>3

\* Induction over 0..N, for a set instead of a predicate.
LEMMA InitialSegment ==
  ASSUME NEW N \in Nat, NEW G, 0 \in G,
         \A k \in 0..N : k \in G /\ k < N => k + 1 \in G
  PROVE  0..N \subseteq G
<1> SUFFICES ASSUME (0..N) \ G # {} PROVE FALSE
  OBVIOUS
<1>1. PICK m \in (0..N) \ G : \A k \in (0..N) \ G : m <= k
  <2>1. (0..N) \ G \subseteq Nat
    OBVIOUS
  <2> QED
    BY <2>1, Smallest
<1>2. m - 1 \in 0..N /\ m - 1 < N /\ m - 1 + 1 = m
  BY <1>1
<1>3. m - 1 \in G
  BY <1>1, <1>2
<1> QED
  BY <1>1, <1>2, <1>3

\* A recurrence over 0..N has a solution: what Power and Past rest on.
LEMMA Recurrence ==
  ASSUME NEW N \in Nat, NEW c \in Nat, NEW g \in [1..N -> [Nat -> Nat]]
  PROVE  \E f \in [0..N -> Nat] :
           f[0] = c /\ \A n \in 1..N : f[n] = g[n][f[n - 1]]
<1> DEFINE Right(f, k) == /\ f[0] = c
                          /\ \A n \in 1..k : f[n] = g[n][f[n - 1]]
           G == {k \in 0..N : \E f \in [0..N -> Nat] : Right(f, k)}
<1>1. 0 \in G
  <2>1. [n \in 0..N |-> c] \in [0..N -> Nat] /\ 0 \in 0..N
    OBVIOUS
  <2>2. PICK f \in [0..N -> Nat] : f[0] = c
    BY <2>1
  <2> QED
    BY <2>1, <2>2
<1>2. ASSUME NEW k \in 0..N, k \in G, k < N
      PROVE  k + 1 \in G
  <2>0. k \in Nat /\ k < N /\ k \in 0..N /\ k + 1 \in 1..N
    BY <1>2
  <2>1. PICK f \in [0..N -> Nat] : Right(f, k)
    BY <1>2
  <2>2. PICK v \in Nat : v = g[k + 1][f[k]]
    <3>1. g[k + 1] \in [Nat -> Nat] /\ f[k] \in Nat
      BY <2>0
    <3> QED
      BY <3>1
  <2>3. PICK h \in [0..N -> Nat] :
          h[k + 1] = v /\ \A n \in 0..k : h[n] = f[n]
    <3>1. [f EXCEPT ![k + 1] = v] \in [0..N -> Nat]
      BY <2>0
    <3>2. /\ [f EXCEPT ![k + 1] = v][k + 1] = v
          /\ \A n \in 0..k : [f EXCEPT ![k + 1] = v][n] = f[n]
      BY <2>0
    <3> QED
      BY <3>1, <3>2
  <2>4. h[0] = c
    BY <2>1, <2>3, <2>0
  <2>5. ASSUME NEW n \in 1..(k + 1)
        PROVE  h[n] = g[n][h[n - 1]]
    <3>1. n - 1 \in 0..k /\ h[n - 1] = f[n - 1]
      <4>1. n \in 1..(k + 1)
        BY <2>5
      <4>2. n - 1 \in 0..k
        BY <2>0, <4>1
      <4> QED
        BY <2>3, <4>2
    <3>2. CASE n = k + 1
      <4>1. n - 1 = k
        BY <2>0, <3>2
      <4> QED
        BY <2>2, <2>3, <3>1, <3>2, <4>1
    <3>3. CASE n # k + 1
      <4>1. n \in 1..k /\ h[n] = f[n]
        BY <2>3, <2>5, <3>3, <2>0
      <4> QED
        BY <2>1, <3>1, <4>1
    <3> QED
      BY <3>2, <3>3
  <2>6. Right(h, k + 1)
    BY <2>4, <2>5
  <2>7. k + 1 \in 0..N
    BY <1>2
  <2> QED
    BY <2>3, <2>6, <2>7
<1>3. N \in G
  <2> HIDE DEF G
  <2>1. 0..N \subseteq G
    BY <1>1, <1>2, InitialSegment
  <2> QED
    BY <2>1
<1> QED
  BY <1>3

LEMMA PowerValues ==
  /\ Power[0] = 1
  /\ \A n \in 1..MaxAttempts : Power[n] = 2 * Power[n - 1]
  /\ \A n \in 0..MaxAttempts : Power[n] \in Nat
<1> DEFINE g == [n \in 1..MaxAttempts |-> [v \in Nat |-> 2 * v]]
           Eq(f) == f = [n \in 0..MaxAttempts |->
                           IF n = 0 THEN 1 ELSE 2 * f[n - 1]]
<1>1. \E f : Eq(f)
  <2>1. g \in [1..MaxAttempts -> [Nat -> Nat]]
    OBVIOUS
  <2>2. PICK f \in [0..MaxAttempts -> Nat] :
          f[0] = 1 /\ \A n \in 1..MaxAttempts : f[n] = g[n][f[n - 1]]
    <3> HIDE DEF g
    <3>1. MaxAttempts \in Nat /\ 1 \in Nat
      BY AttemptsAssumption
    <3>2. \E f \in [0..MaxAttempts -> Nat] :
            f[0] = 1 /\ \A n \in 1..MaxAttempts : f[n] = g[n][f[n - 1]]
      BY <2>1, <3>1, Recurrence
    <3> QED
      BY <3>2
  <2>3. ASSUME NEW n \in 1..MaxAttempts
        PROVE  f[n] = 2 * f[n - 1]
    <3>1. n - 1 \in 0..MaxAttempts
      BY <2>3, AttemptsAssumption
    <3>2. f[n - 1] \in Nat
      BY <2>2, <3>1
    <3> QED
      BY <2>2, <2>3, <3>2
  <2>4. \A n \in 0..MaxAttempts : n = 0 \/ n \in 1..MaxAttempts
    BY AttemptsAssumption
  <2> QED
    BY <2>2, <2>3, <2>4
<1>2. Eq(Power)
  <2>1. Power = CHOOSE f : Eq(f)
    BY DEF Power
  <2> QED
    BY <1>1, <2>1
<1>3. Power[0] = 1
  BY <1>2, AttemptsAssumption
<1>4. ASSUME NEW n \in 1..MaxAttempts PROVE Power[n] = 2 * Power[n - 1]
  BY <1>2, <1>4, AttemptsAssumption
<1>5. 0..MaxAttempts \subseteq {n \in 0..MaxAttempts : Power[n] \in Nat}
  <2> DEFINE G == {n \in 0..MaxAttempts : Power[n] \in Nat}
  <2>1. 0 \in G
    BY <1>3, AttemptsAssumption
  <2>2. ASSUME NEW k \in 0..MaxAttempts, k \in G, k < MaxAttempts
        PROVE  k + 1 \in G
    <3>1. k + 1 \in 1..MaxAttempts /\ k + 1 - 1 = k /\ k + 1 \in 0..MaxAttempts
      BY <2>2, AttemptsAssumption
    <3>2. Power[k + 1] = 2 * Power[k] /\ Power[k] \in Nat
      BY <1>4, <2>2, <3>1
    <3> QED
      BY <3>1, <3>2
  <2> HIDE DEF G
  <2>3. 0..MaxAttempts \subseteq G
    BY <2>1, <2>2, InitialSegment, AttemptsAssumption
  <2> QED
    BY <2>3 DEF G
<1> QED
  BY <1>3, <1>4, <1>5

LEMMA BackoffValues == \A n \in 0..MaxAttempts : Backoff(n) \in Nat
  BY PowerValues, TimesAssumption DEF Backoff

LEMMA PastValues ==
  /\ Past[0] = 0
  /\ \A n \in 1..MaxAttempts :
       Past[n] = Past[n - 1] + 2 * Latency + Backoff(n)
  /\ \A n \in 0..MaxAttempts : Past[n] \in Nat
<1> DEFINE g == [n \in 1..MaxAttempts |->
                   [v \in Nat |-> v + 2 * Latency + Backoff(n)]]
           Eq(f) == f = [n \in 0..MaxAttempts |->
             IF n = 0 THEN 0 ELSE f[n - 1] + 2 * Latency + Backoff(n)]
<1>0. /\ MaxAttempts \in Nat /\ Latency \in Nat
      /\ \A n \in 1..MaxAttempts : Backoff(n) \in Nat
  BY BackoffValues, AttemptsAssumption, TimesAssumption
<1>1. \E f : Eq(f)
  <2>1. g \in [1..MaxAttempts -> [Nat -> Nat]]
    BY <1>0
  <2>2. PICK f \in [0..MaxAttempts -> Nat] :
          f[0] = 0 /\ \A n \in 1..MaxAttempts : f[n] = g[n][f[n - 1]]
    <3> HIDE DEF g
    <3>1. \E f \in [0..MaxAttempts -> Nat] :
            f[0] = 0 /\ \A n \in 1..MaxAttempts : f[n] = g[n][f[n - 1]]
      BY <1>0, <2>1, Recurrence
    <3> QED
      BY <3>1
  <2>3. ASSUME NEW n \in 1..MaxAttempts
        PROVE  f[n] = f[n - 1] + 2 * Latency + Backoff(n)
    <3>1. n - 1 \in 0..MaxAttempts
      BY <1>0, <2>3
    <3>2. f[n - 1] \in Nat
      BY <2>2, <3>1
    <3> QED
      BY <2>2, <2>3, <3>2
  <2>4. \A n \in 0..MaxAttempts : n = 0 \/ n \in 1..MaxAttempts
    BY <1>0
  <2> QED
    BY <2>2, <2>3, <2>4
<1>2. Eq(Past)
  <2>1. Past = CHOOSE f : Eq(f)
    BY DEF Past
  <2> QED
    BY <1>1, <2>1
<1>3. Past[0] = 0
  BY <1>0, <1>2
<1>4. ASSUME NEW n \in 1..MaxAttempts
      PROVE  Past[n] = Past[n - 1] + 2 * Latency + Backoff(n)
  BY <1>0, <1>2, <1>4
<1>5. 0..MaxAttempts \subseteq {n \in 0..MaxAttempts : Past[n] \in Nat}
  <2> DEFINE G == {n \in 0..MaxAttempts : Past[n] \in Nat}
  <2>1. 0 \in G
    BY <1>0, <1>3
  <2>2. ASSUME NEW k \in 0..MaxAttempts, k \in G, k < MaxAttempts
        PROVE  k + 1 \in G
    <3>1. /\ k + 1 \in 1..MaxAttempts /\ k + 1 - 1 = k
          /\ k + 1 \in 0..MaxAttempts
      BY <1>0, <2>2
    <3>2. Past[k + 1] = Past[k] + 2 * Latency + Backoff(k + 1)
      BY <1>4, <3>1
    <3>3. Past[k] \in Nat /\ Backoff(k + 1) \in Nat
      BY <1>0, <2>2, <3>1
    <3> QED
      BY <1>0, <3>1, <3>2, <3>3
  <2> HIDE DEF G
  <2>3. 0..MaxAttempts \subseteq G
    BY <1>0, <2>1, <2>2, InitialSegment
  <2> QED
    BY <2>3 DEF G
<1> QED
  BY <1>3, <1>4, <1>5

\* Every attempt adds to the time, none takes from it.
LEMMA PastGrows ==
  ASSUME NEW m \in 0..MaxAttempts, NEW n \in 0..m
  PROVE  Past[n] <= Past[m]
<1> DEFINE G == {k \in 0..MaxAttempts : \A j \in 0..k : Past[j] <= Past[k]}
<1>0. MaxAttempts \in Nat /\ Latency \in Nat
  BY AttemptsAssumption, TimesAssumption
<1>1. 0 \in G
  BY <1>0, PastValues
<1>2. ASSUME NEW k \in 0..MaxAttempts, k \in G, k < MaxAttempts
      PROVE  k + 1 \in G
  <2>1. /\ k + 1 \in 1..MaxAttempts /\ k + 1 - 1 = k
        /\ k + 1 \in 0..MaxAttempts
    BY <1>0, <1>2
  <2>2. Past[k + 1] = Past[k] + 2 * Latency + Backoff(k + 1)
    BY <2>1, PastValues
  <2>3. /\ Past[k] \in Nat /\ Past[k + 1] \in Nat
        /\ Backoff(k + 1) \in Nat
    BY <1>2, <2>1, PastValues, BackoffValues
  <2>4. Past[k] <= Past[k + 1]
    BY <1>0, <2>2, <2>3
  <2>5. ASSUME NEW j \in 0..(k + 1) PROVE Past[j] <= Past[k + 1]
    <3>1. CASE j = k + 1
      BY <2>3, <3>1
    <3>2. CASE j \in 0..k
      <4>1. Past[j] <= Past[k]
        BY <1>2, <3>2
      <4>2. j \in 0..MaxAttempts
        BY <1>0, <1>2, <3>2
      <4>3. Past[j] \in Nat
        BY <4>2, PastValues
      <4> QED
        BY <2>3, <2>4, <4>1, <4>3
    <3> QED
      BY <2>1, <2>5, <3>1, <3>2
  <2> QED
    BY <2>1, <2>5
<1>3. 0..MaxAttempts \subseteq G
  <2> HIDE DEF G
  <2> QED
    BY <1>0, <1>1, <1>2, InitialSegment
<1> QED
  BY <1>3

\* How far each stage of an attempt may be is kept by every step.
LEMMA TimelyStep ==
  ASSUME TimelyInv, [Next]_vars
  PROVE  TimelyInv'
<1> USE DEF TimelyInv, Places, InFlight
<1>1. MaxAttempts \in Nat \ {0} /\ Latency \in Nat
  BY AttemptsAssumption, TimesAssumption
<1>2. Past[0] = 0
  BY PastValues
<1>3. CASE StartFetch
  BY <1>1, <1>2, <1>3 DEF StartFetch
<1>4. CASE Wake
  <2>1. attempt \in 1..MaxAttempts /\ attempt' = attempt + 1
    BY <1>1, <1>4 DEF Wake
  <2>2. Past[attempt] = Past[attempt - 1] + 2 * Latency + Backoff(attempt)
    BY <2>1, PastValues
  <2>3. /\ Past[attempt - 1] \in Nat /\ Past[attempt] \in Nat
        /\ Backoff(attempt) \in Nat
    <3>1. attempt - 1 \in 0..MaxAttempts /\ attempt \in 0..MaxAttempts
      BY <1>1, <2>1
    <3> QED
      BY <3>1, PastValues, BackoffValues
  <2>4. attempt' - 1 = attempt /\ attempt' \in 1..MaxAttempts
    BY <1>1, <1>4, <2>1 DEF Wake
  <2>5. /\ since - started <= Past[attempt - 1] + 2 * Latency
        /\ now <= since + Backoff(attempt)
    BY <1>4 DEF Wake
  <2>6. now - started <= Past[attempt]
    BY <1>1, <2>2, <2>3, <2>5
  <2> QED
    BY <1>4, <2>4, <2>6 DEF Wake
<1>5. ASSUME pc # "idle"
      PROVE  /\ Past[attempt - 1] \in Nat
             /\ Backoff(attempt) \in Nat
  <2>1. attempt - 1 \in 0..MaxAttempts /\ attempt \in 0..MaxAttempts
    BY <1>1, <1>5
  <2> QED
    BY <2>1, PastValues, BackoffValues
<1>6. CASE SendAnonymously \/ SendCached \/ RequestToken
  BY <1>1, <1>5, <1>6
  DEF SendAnonymously, SendCached, RequestToken, Present, cache
<1>7. CASE Issue
  BY <1>1, <1>7 DEF Issue, cache
<1>8. CASE TokenArrives
  BY <1>1, <1>5, <1>8 DEF TokenArrives, Present
<1>9. CASE TokenFails
  BY <1>1, <1>5, <1>9 DEF TokenFails, Transient
<1>10. CASE StatesFail
  BY <1>1, <1>5, <1>10 DEF StatesFail, Transient
<1>11. CASE TokenRefused \/ Snapshot \/ RateLimited \/ Unexpected \/ Unauthorised
  BY <1>11
  DEF TokenRefused, Snapshot, RateLimited, Unexpected, Unauthorised, Over
<1>12. CASE Tick
  BY <1>1, <1>5, <1>12 DEF Tick
<1>13. CASE UNCHANGED vars
  BY <1>13 DEF vars
<1> QED
  BY <1>3, <1>4, <1>6, <1>7, <1>8, <1>9, <1>10, <1>11, <1>12, <1>13
  DEF Next, Step

\* A fetch is over within the two requests of each attempt and the back-offs
\* between them, for any number of attempts, whatever the token margin is.
THEOREM FetchIsBounded == Spec => []FetchIsTimely
<1>1. Init => TimelyInv
  BY AttemptsAssumption DEF Init, TimelyInv, Places, InFlight
<1>2. TimelyInv /\ [Next]_vars => TimelyInv'
  BY TimelyStep
<1>3. TimelyInv => FetchIsTimely
  <2> SUFFICES ASSUME TimelyInv, pc # "idle"
               PROVE  now - started <= Past[MaxAttempts - 1] + 2 * Latency
    BY DEF FetchIsTimely, LongestFetch
  <2>1. /\ MaxAttempts \in Nat \ {0} /\ Latency \in Nat
        /\ attempt \in 1..MaxAttempts
        /\ now \in Nat /\ since \in Nat /\ started \in Nat
    BY AttemptsAssumption, TimesAssumption DEF TimelyInv
  <2>2. /\ attempt - 1 \in 0..MaxAttempts /\ MaxAttempts - 1 \in 0..MaxAttempts
        /\ attempt - 1 \in 0..(MaxAttempts - 1)
        /\ attempt \in 0..MaxAttempts
    BY <2>1
  <2>3. /\ Past[attempt - 1] \in Nat /\ Past[attempt] \in Nat
        /\ Past[MaxAttempts - 1] \in Nat /\ Backoff(attempt) \in Nat
    BY <2>2, PastValues, BackoffValues
  <2>4. Past[attempt - 1] <= Past[MaxAttempts - 1]
    BY <2>2, PastGrows
  <2>5. CASE pc \in {"attempting"} \cup InFlight
    BY <2>1, <2>3, <2>4, <2>5 DEF TimelyInv, InFlight
  <2>6. CASE pc = "sleeping"
    <3>1. attempt \in 0..(MaxAttempts - 1)
      BY <2>1, <2>6 DEF TimelyInv
    <3>2. Past[attempt] <= Past[MaxAttempts - 1]
      BY <2>2, <3>1, PastGrows
    <3>3. Past[attempt] = Past[attempt - 1] + 2 * Latency + Backoff(attempt)
      BY <2>1, PastValues
    <3>4. /\ since - started <= Past[attempt - 1] + 2 * Latency
          /\ now <= since + Backoff(attempt)
      BY <2>6 DEF TimelyInv
    <3> QED
      BY <2>1, <2>3, <3>2, <3>3, <3>4
  <2> QED
    BY <2>5, <2>6 DEF TimelyInv, Places
<1> QED
  BY <1>1, <1>2, <1>3, PTL DEF Spec

\* No sleep is longer than the cap.
LEMMA BackoffCapped == \A n \in 0..MaxAttempts : Backoff(n) <= BackoffCap
  BY PowerValues, TimesAssumption DEF Backoff

\* The bound in a closed form: two requests per attempt, and a sleep of at
\* most the cap between two attempts, for any number of attempts.
THEOREM FetchBoundInFigures ==
  LongestFetch <= 2 * Latency * MaxAttempts + BackoffCap * (MaxAttempts - 1)
<1> DEFINE G == {n \in 0..MaxAttempts :
                   Past[n] <= 2 * (Latency * n) + BackoffCap * n}
<1>0. MaxAttempts \in Nat \ {0} /\ Latency \in Nat /\ BackoffCap \in Nat
  BY AttemptsAssumption, TimesAssumption
<1>1. 0 \in G
  BY <1>0, PastValues
<1>2. ASSUME NEW k \in 0..MaxAttempts, k \in G, k < MaxAttempts
      PROVE  k + 1 \in G
  <2>1. /\ k \in Nat /\ k + 1 \in 1..MaxAttempts /\ k + 1 - 1 = k
        /\ k + 1 \in 0..MaxAttempts
    BY <1>0, <1>2
  <2>2. Past[k + 1] = Past[k] + 2 * Latency + Backoff(k + 1)
    BY <2>1, PastValues
  <2>3. /\ Past[k] \in Nat /\ Backoff(k + 1) \in Nat
        /\ Backoff(k + 1) <= BackoffCap
    BY <1>2, <2>1, PastValues, BackoffValues, BackoffCapped
  <2>4. /\ Latency * (k + 1) = Latency * k + Latency
        /\ BackoffCap * (k + 1) = BackoffCap * k + BackoffCap
        /\ Latency * k \in Nat /\ BackoffCap * k \in Nat
    BY <1>0, <2>1
  <2>5. Past[k] <= 2 * (Latency * k) + BackoffCap * k
    BY <1>2
  <2>6. Past[k + 1] <= 2 * (Latency * (k + 1)) + BackoffCap * (k + 1)
    BY <1>0, <2>2, <2>3, <2>4, <2>5
  <2> QED
    BY <2>1, <2>6
<1>3. MaxAttempts - 1 \in G
  <2> HIDE DEF G
  <2>1. 0..MaxAttempts \subseteq G
    BY <1>0, <1>1, <1>2, InitialSegment
  <2> QED
    BY <1>0, <2>1
<1> DEFINE m == MaxAttempts - 1
<1>4. Past[m] <= 2 * (Latency * m) + BackoffCap * m
  BY <1>3
<1>5. /\ m \in 0..MaxAttempts /\ m \in Nat
      /\ Latency * MaxAttempts = Latency * m + Latency
      /\ Latency * m \in Nat /\ BackoffCap * m \in Nat
      /\ 2 * Latency * MaxAttempts = 2 * (Latency * MaxAttempts)
      /\ Latency * MaxAttempts \in Nat
  BY <1>0
<1>6. Past[m] \in Nat
  BY <1>5, PastValues
<1>7. LongestFetch = Past[m] + 2 * Latency
  BY DEF LongestFetch
<1> HIDE DEF m
<1>8. LongestFetch <= 2 * Latency * MaxAttempts + BackoffCap * m
  BY <1>0, <1>4, <1>5, <1>6, <1>7
<1> QED
  BY <1>8 DEF m

\* With the deployed figures that is 254 seconds, which leaves 46 of the five
\* minutes of Airflow's execution_timeout to the load and to finish_run
\* (dags/opensky_ingest.py:24).
THEOREM DeployedFetchFits == Deployed => LongestFetch = 254
<1> SUFFICES ASSUME Deployed PROVE LongestFetch = 254
  OBVIOUS
<1>1. MaxAttempts = 4 /\ Latency = 30 /\ BackoffCap = 30
  BY DEF Deployed
<1>2. Power[0] = 1 /\ Power[1] = 2 /\ Power[2] = 4 /\ Power[3] = 8
  <2>1. \A n \in 1..4 : Power[n] = 2 * Power[n - 1]
    BY <1>1, PowerValues
  <2>2. Power[0] = 1
    BY PowerValues
  <2>3. Power[1] = 2 * Power[0] /\ Power[2] = 2 * Power[1]
        /\ Power[3] = 2 * Power[2]
    BY <2>1
  <2> QED
    BY <2>2, <2>3
<1>3. Backoff(1) = 2 /\ Backoff(2) = 4 /\ Backoff(3) = 8
  BY <1>1, <1>2 DEF Backoff
<1>4. /\ Past[0] = 0
      /\ Past[1] = Past[0] + 60 + Backoff(1)
      /\ Past[2] = Past[1] + 60 + Backoff(2)
      /\ Past[3] = Past[2] + 60 + Backoff(3)
  <2>1. \A n \in 1..4 : Past[n] = Past[n - 1] + 60 + Backoff(n)
    BY <1>1, PastValues
  <2> QED
    BY <2>1, PastValues
<1>5. LongestFetch = Past[3] + 60
  BY <1>1 DEF LongestFetch
<1> QED
  BY <1>3, <1>4, <1>5

-----------------------------------------------------------------------------
(* How many requests a fetch makes, and how many steps it takes.           *)

\* An attempt makes its request to /states/all last, and only once.
LEMMA RequestsStep ==
  ASSUME RequestsInv, [Next]_vars
  PROVE  RequestsInv'
<1> USE AttemptsAssumption DEF RequestsInv, Places, InFlight
<1>1. CASE StartFetch
  BY <1>1 DEF StartFetch
<1>2. CASE Wake
  BY <1>2 DEF Wake
<1>3. CASE SendAnonymously \/ SendCached \/ RequestToken
  BY <1>3 DEF SendAnonymously, SendCached, RequestToken, Present
<1>4. CASE Issue
  BY <1>4 DEF Issue
<1>5. CASE TokenArrives
  BY <1>5 DEF TokenArrives, Present
<1>6. CASE TokenFails
  BY <1>6 DEF TokenFails, Transient
<1>7. CASE StatesFail
  BY <1>7 DEF StatesFail, Transient
<1>8. CASE TokenRefused \/ Snapshot \/ RateLimited \/ Unexpected \/ Unauthorised
  BY <1>8
  DEF TokenRefused, Snapshot, RateLimited, Unexpected, Unauthorised, Over
<1>9. CASE Tick
  BY <1>9 DEF Tick
<1>10. CASE UNCHANGED vars
  BY <1>10 DEF vars
<1> QED
  BY <1>1, <1>2, <1>3, <1>4, <1>5, <1>6, <1>7, <1>8, <1>9, <1>10
  DEF Next, Step

\* The attempts, their requests and their places fit together throughout.
LEMMA RequestsInvariance == Spec => []RequestsInv
<1>1. Init => RequestsInv
  BY AttemptsAssumption DEF Init, RequestsInv, Places, InFlight
<1>2. RequestsInv /\ [Next]_vars => RequestsInv'
  BY RequestsStep
<1> QED
  BY <1>1, <1>2, PTL DEF Spec

\* A fetch costs at most MaxAttempts requests of the daily allowance: neither
\* an expired token nor a new one makes an attempt ask twice
\* (ingestion/opensky.py:158-182).
THEOREM FetchCostIsBounded == Spec => []RequestsAreBounded
<1>1. RequestsInv => RequestsAreBounded
  BY AttemptsAssumption DEF RequestsInv, RequestsAreBounded
<1> QED
  BY <1>1, RequestsInvariance, PTL

\* Every step of a fetch but a tick leaves fewer steps before it, and what is
\* before it is never less than nothing: what FetchEnds rests on, apart from
\* the fairness of the steps (ingestion/opensky.py:158-182).
THEOREM FetchIsFinite == Spec => FetchGoesOn
<1> USE DEF Remaining, StagesLeft
<1>1. ASSUME RequestsInv, pc # "idle", Step
      PROVE  Remaining' \in 0 .. Remaining - 1
  <2> USE AttemptsAssumption, <1>1 DEF RequestsInv, Places, InFlight
  <2>1. CASE StartFetch
    BY <2>1 DEF StartFetch
  <2>2. CASE Wake
    BY <2>2 DEF Wake
  <2>3. CASE SendAnonymously \/ SendCached \/ RequestToken
    BY <2>3 DEF SendAnonymously, SendCached, RequestToken, Present
  <2>4. CASE Issue
    BY <2>4 DEF Issue
  <2>5. CASE TokenArrives
    BY <2>5 DEF TokenArrives, Present
  <2>6. CASE TokenFails
    BY <2>6 DEF TokenFails, Transient
  <2>7. CASE StatesFail
    BY <2>7 DEF StatesFail, Transient
  <2>8. CASE TokenRefused \/ Snapshot \/ RateLimited \/ Unexpected \/ Unauthorised
    BY <2>8
    DEF TokenRefused, Snapshot, RateLimited, Unexpected, Unauthorised, Over
  <2> QED
    BY <2>1, <2>2, <2>3, <2>4, <2>5, <2>6, <2>7, <2>8 DEF Step
<1>2. RequestsInv /\ [Next]_vars =>
        [pc # "idle" /\ now' = now => Remaining' \in 0 .. Remaining - 1]_vars
  <2> SUFFICES ASSUME RequestsInv, Next, pc # "idle", now' = now
               PROVE  Remaining' \in 0 .. Remaining - 1
    OBVIOUS
  <2>1. CASE Step
    BY <1>1, <2>1
  <2>2. CASE Tick
    BY <2>2 DEF Tick, RequestsInv
  <2> QED
    BY <2>1, <2>2 DEF Next
<1> QED
  BY <1>2, RequestsInvariance, PTL DEF Spec, FetchGoesOn
=============================================================================
