---------------------------- MODULE OpenSkyClient ----------------------------
(***************************************************************************)
(* One OpenSkyClient with its TokenCache, in discrete time, against the    *)
(* token endpoint and the states endpoint.                                 *)
(*                                                                         *)
(* fetch_states makes up to MaxAttempts attempts.  An attempt takes the    *)
(* cached token or asks for a new one, presents it, and ends in one of:    *)
(* a snapshot, a transient failure (retried after a random back-off), or   *)
(* a final refusal.  Time passes only while a request is in flight, while  *)
(* the client sleeps and between fetches.  The server's clock for a token  *)
(* starts when it is issued, the client's when the answer arrives.         *)
(*                                                                         *)
(* Latency is an assumption about the network: opensky_timeout_seconds     *)
(* bounds each phase of a request (connect, write, every read), and a      *)
(* request that stays within it as a whole has Latency 30 s.               *)
(*                                                                         *)
(* ingest_once makes a client of its own and calls fetch_states once; the  *)
(* class allows further calls, and so does this module.                    *)
(***************************************************************************)
EXTENDS Integers

CONSTANTS
  MaxAttempts,  \* opensky_max_attempts
  Margin,       \* TOKEN_REFRESH_MARGIN_SECONDS
  Latency,      \* longest time a request is in flight
  BackoffCap,   \* the 30 of min(2**attempt, 30)
  Lifetimes,    \* values of expires_in
  MaxTokens,    \* bound: tokens issued in a behaviour
  MaxTime       \* bound: time at which the clock stops

ASSUME AttemptsAssumption == MaxAttempts \in Nat \ {0}
ASSUME TimesAssumption ==
  /\ Margin \in Nat /\ Latency \in Nat /\ BackoffCap \in Nat
  /\ Lifetimes \subseteq Nat
  /\ MaxTokens \in Nat /\ MaxTime \in Nat

VARIABLES
  anonymous,   \* Settings.auth_mode, fixed for the process
  now,
  pc,
  attempt,     \* loop variable of fetch_states
  since,       \* when the request left, or the sleep began
  started,     \* when fetch_states was called
  held,        \* TokenCache._token, 0 for None
  expiresAt,   \* TokenCache._expires_at
  presented,   \* token of the request in flight, 0 for none
  calls,       \* requests of this fetch to /states/all
  last,        \* what the last response or failure of this fetch was
  granted,     \* expires_in of the token answer in flight
  issued,      \* tokens the server has issued: 1..issued
  dies,        \* when each stops being accepted
  refused      \* tokens the server has answered 401 for

vars == <<anonymous, now, pc, attempt, since, started, held, expiresAt,
          presented, calls, last, granted, issued, dies, refused>>
cache == <<held, expiresAt>>
server == <<granted, issued, dies, refused>>

Tokens == 1..MaxTokens
InFlight == {"token_sent", "token_issued", "states_sent"}
Final == {"ok", "rate_limited", "auth", "error"}

\* 2**n, as a function whose recurrence can be proved.
Power[n \in 0..MaxAttempts] == IF n = 0 THEN 1 ELSE 2 * Power[n - 1]

\* The longest sleep after the n-th attempt.
Backoff(n) == IF Power[n] < BackoffCap THEN Power[n] ELSE BackoffCap

Init ==
  /\ anonymous \in BOOLEAN
  /\ now = 0
  /\ pc = "idle"
  /\ attempt = 0
  /\ since = 0
  /\ started = 0
  /\ held = 0
  /\ expiresAt = 0
  /\ presented = 0
  /\ calls = 0
  /\ last = "none"
  /\ granted = 0
  /\ issued = 0
  /\ dies = [t \in Tokens |-> 0]
  /\ refused = {}

-----------------------------------------------------------------------------
(* fetch_states.                                                           *)

StartFetch ==
  /\ pc = "idle"
  /\ pc' = "attempting"
  /\ attempt' = 1
  /\ started' = now
  /\ calls' = 0
  /\ last' = "none"
  /\ UNCHANGED <<anonymous, now, since, cache, presented, server>>

\* Mutant: one attempt too many.
TransientOnceMore ==
  /\ last' = "transient"
  /\ pc' = IF attempt > MaxAttempts THEN "idle" ELSE "sleeping"
  /\ since' = now

\* OpenSkyTransient: sleep and try again, or give up after the last attempt.
Transient ==
  /\ last' = "transient"
  /\ pc' = IF attempt = MaxAttempts THEN "idle" ELSE "sleeping"
  /\ since' = now

\* Any other exception leaves the loop, and so does a snapshot.
Over(verdict) ==
  /\ last' = verdict
  /\ pc' = "idle"
  /\ UNCHANGED since

\* Mutant: the retry that is not counted.
WakeUncounted ==
  /\ pc = "sleeping"
  /\ pc' = "attempting"
  /\ UNCHANGED <<anonymous, now, attempt, since, started, cache, presented,
                 calls, last, server>>

\* random.uniform(0, ...): the sleep may be as short as nothing.
Wake ==
  /\ pc = "sleeping"
  /\ pc' = "attempting"
  /\ attempt' = attempt + 1
  /\ UNCHANGED <<anonymous, now, since, started, cache, presented, calls, last,
                 server>>

-----------------------------------------------------------------------------
(* TokenCache.token, and the request that carries the token.               *)

Present(t) ==
  /\ pc' = "states_sent"
  /\ presented' = t
  /\ since' = now
  /\ calls' = calls + 1

CacheIsFresh == held # 0 /\ now < expiresAt

SendAnonymously ==
  /\ pc = "attempting"
  /\ anonymous
  /\ Present(0)
  /\ UNCHANGED <<anonymous, now, attempt, started, cache, last, server>>

SendCached ==
  /\ pc = "attempting"
  /\ ~anonymous
  /\ CacheIsFresh
  /\ Present(held)
  /\ UNCHANGED <<anonymous, now, attempt, started, cache, last, server>>

RequestToken ==
  /\ pc = "attempting"
  /\ ~anonymous
  /\ ~CacheIsFresh
  /\ pc' = "token_sent"
  /\ since' = now
  /\ UNCHANGED <<anonymous, now, attempt, started, cache, presented, calls,
                 last, server>>

\* The token endpoint issues a token; its life begins here.
Issue ==
  /\ pc = "token_sent"
  /\ issued < MaxTokens
  /\ granted' \in Lifetimes
  /\ dies' = [dies EXCEPT ![issued + 1] = now + granted']
  /\ issued' = issued + 1
  /\ pc' = "token_issued"
  /\ UNCHANGED <<anonymous, now, attempt, since, started, cache, presented,
                 calls, last, refused>>

\* Mutant: the token is kept for all of its expires_in.
TokenArrivesNoMargin ==
  /\ pc = "token_issued"
  /\ held' = issued
  /\ expiresAt' = now + granted
  /\ Present(issued)
  /\ UNCHANGED <<anonymous, now, attempt, started, last, server>>

\* _fetch stores the token with the margin taken off its life, counted from
\* now, and returns it whatever is left of it.
TokenArrives ==
  /\ pc = "token_issued"
  /\ held' = issued
  /\ expiresAt' = now + (IF granted > Margin THEN granted - Margin ELSE 0)
  /\ Present(issued)
  /\ UNCHANGED <<anonymous, now, attempt, started, last, server>>

TokenFails ==
  /\ pc \in {"token_sent", "token_issued"}
  /\ Transient
  /\ UNCHANGED <<anonymous, now, attempt, started, cache, presented, calls,
                 server>>

\* 400, 401, 403 or an answer without access_token; or one whose expires_in
\* is no number, which no handler of the client catches.
TokenRefused ==
  /\ pc = "token_sent"
  /\ Over("auth") \/ Over("error")
  /\ UNCHANGED <<anonymous, now, attempt, started, cache, presented, calls,
                 server>>

-----------------------------------------------------------------------------
(* The answer of /states/all.                                              *)

Accepted(t) == t # 0 => (now < dies[t] /\ t \notin refused)

Snapshot ==
  /\ pc = "states_sent"
  /\ Accepted(presented)
  /\ Over("ok")
  /\ UNCHANGED <<anonymous, now, attempt, started, cache, presented, calls,
                 server>>

\* RequestError, 5xx, a body that is not JSON or has not the expected shape.
StatesFail ==
  /\ pc = "states_sent"
  /\ Transient
  /\ UNCHANGED <<anonymous, now, attempt, started, cache, presented, calls,
                 server>>

\* Mutant: 429 retried like any other failure.
RateLimitedRetried ==
  /\ pc = "states_sent"
  /\ last' = "rate_limited"
  /\ pc' = IF attempt = MaxAttempts THEN "idle" ELSE "sleeping"
  /\ since' = now
  /\ UNCHANGED <<anonymous, now, attempt, started, cache, presented, calls,
                 server>>

RateLimited ==
  /\ pc = "states_sent"
  /\ Over("rate_limited")
  /\ UNCHANGED <<anonymous, now, attempt, started, cache, presented, calls,
                 server>>

Unexpected ==
  /\ pc = "states_sent"
  /\ Over("error")
  /\ UNCHANGED <<anonymous, now, attempt, started, cache, presented, calls,
                 server>>

\* Mutant: the refused token stays in the cache.
UnauthorisedKept ==
  /\ pc = "states_sent"
  /\ refused' = refused \cup ({presented} \ {0})
  /\ Over("auth")
  /\ UNCHANGED <<anonymous, now, attempt, started, cache, presented, calls,
                 granted, issued, dies>>

\* 401 or 403, for an expired token or one revoked before its time: the
\* cache drops what it holds.
Unauthorised ==
  /\ pc = "states_sent"
  /\ refused' = refused \cup ({presented} \ {0})
  /\ held' = 0
  /\ expiresAt' = 0
  /\ Over("auth")
  /\ UNCHANGED <<anonymous, now, attempt, started, presented, calls, granted,
                 issued, dies>>

-----------------------------------------------------------------------------
\* A request in flight is answered or given up within Latency, a sleep ends
\* within its back-off, and between two requests the code takes no time.
Tick ==
  /\ now < MaxTime
  /\ pc \in InFlight => now < since + Latency
  /\ pc = "sleeping" => now < since + Backoff(attempt)
  /\ pc # "attempting"
  /\ now' = now + 1
  /\ UNCHANGED <<anonymous, pc, attempt, since, started, cache, presented,
                 calls, last, server>>

Step ==
  \/ StartFetch \/ Wake
  \/ SendAnonymously \/ SendCached
  \/ RequestToken \/ Issue \/ TokenArrives \/ TokenFails \/ TokenRefused
  \/ Snapshot \/ StatesFail \/ RateLimited \/ Unexpected \/ Unauthorised

Next == Step \/ Tick

Spec == Init /\ [][Next]_vars

\* A fetch that has begun goes on: requests are answered or time out, sleeps
\* end.  Nothing obliges anyone to call fetch_states.
FairSpec == Spec /\ WF_vars(pc # "idle" /\ Step)

-----------------------------------------------------------------------------
Places == {"idle", "attempting", "sleeping"} \cup InFlight
Verdicts == {"none", "transient"} \cup Final

TypeOK ==
  /\ anonymous \in BOOLEAN
  /\ now \in Nat
  /\ pc \in Places
  /\ attempt \in 0..MaxAttempts
  /\ since \in Nat
  /\ started \in Nat
  /\ held \in 0..issued
  /\ expiresAt \in Nat
  /\ presented \in 0..issued
  /\ calls \in Nat
  /\ last \in Verdicts
  /\ granted \in Nat
  /\ issued \in 0..MaxTokens
  /\ dies \in [Tokens -> Nat]
  /\ refused \subseteq Tokens

\* The margin does what it is for: as long as a token lives longer than two
\* requests, no request is in flight with a token that expires before the
\* server judges it (opensky.py: "a long-running job never presents a token
\* that expires mid-flight").
NoExpiryMidFlight ==
  pc = "states_sent" /\ presented # 0 => now < dies[presented]

\* 429 is not retried and neither is a refusal: after either, the fetch makes
\* no further request.
RefusalIsFinal ==
  [][calls' > calls => last \notin Final]_vars

\* A token the server has refused is never presented again.
RefusedTokenIsDropped ==
  [][calls' > calls => presented' \notin refused]_vars

\* The inductive invariant behind the three properties above.
ClientInv ==
  /\ TypeOK
  /\ pc \in InFlight => since <= now /\ now <= since + Latency
  /\ pc = "sleeping" => attempt < MaxAttempts
  \* The client's idea of a token's end, and the server's.
  /\ held # 0 /\ now < expiresAt => expiresAt + Margin <= dies[held] + Latency
  /\ pc = "token_issued" => /\ granted \in Lifetimes
                            /\ issued # 0
                            /\ since + granted <= dies[issued]
                            /\ issued \notin refused
  /\ pc = "states_sent" /\ presented # 0 =>
       /\ since + Latency < dies[presented]
       /\ presented = held
  /\ held \notin refused
  /\ refused \subseteq 1..issued
  /\ pc \notin {"idle", "states_sent"} => last \notin Final

\* The longest n attempts may take with the sleep after each: two requests
\* and a back-off.  The last attempt has no sleep after it.
Past[n \in 0..MaxAttempts] ==
  IF n = 0 THEN 0 ELSE Past[n - 1] + 2 * Latency + Backoff(n)
LongestFetch == Past[MaxAttempts - 1] + 2 * Latency

\* A fetch is over within LongestFetch, 254 s with the defaults: inside the
\* 5 minutes Airflow gives the task, which would otherwise be killed with the
\* run left "running".
FetchIsTimely == pc # "idle" => now - started <= LongestFetch

\* What makes it inductive: how far each stage of an attempt may be.
TimelyInv ==
  /\ now \in Nat /\ since \in Nat /\ started \in Nat
  /\ pc \in Places
  /\ attempt \in 0..MaxAttempts
  /\ pc # "idle" => attempt # 0
  /\ pc = "attempting" => now - started <= Past[attempt - 1]
  /\ pc \in InFlight => now <= since + Latency
  /\ pc \in {"token_sent", "token_issued"} =>
       since - started <= Past[attempt - 1]
  /\ pc = "states_sent" => since - started <= Past[attempt - 1] + Latency
  /\ pc = "sleeping" =>
       /\ attempt < MaxAttempts
       /\ since - started <= Past[attempt - 1] + 2 * Latency
       /\ now <= since + Backoff(attempt)

\* The figures of the deployment (ingestion/config.py:73-74, and the 30 of
\* ingestion/opensky.py:172).
Deployed == MaxAttempts = 4 /\ Latency = 30 /\ BackoffCap = 30

\* A fetch spends at most MaxAttempts requests to /states/all of the daily
\* allowance, whatever tokens it has to ask for on its way.
RequestsAreBounded == calls <= MaxAttempts

\* What makes it inductive: the request of an attempt is its last step.
RequestsInv ==
  /\ now \in Nat /\ pc \in Places
  /\ attempt \in 0..MaxAttempts
  /\ calls \in 0..attempt
  /\ pc # "idle" => attempt # 0
  /\ pc \in {"attempting", "token_sent", "token_issued"} => calls < attempt
  /\ pc = "sleeping" => attempt < MaxAttempts

\* How many steps a fetch has before it, but for ticks of the clock.
StagesLeft ==
  CASE pc = "attempting" -> 4
    [] pc = "token_sent" -> 3
    [] pc = "token_issued" -> 2
    [] pc = "states_sent" -> 1
    [] pc = "sleeping" -> 0

Remaining ==
  IF pc = "idle" THEN 0 ELSE 1 + 5 * (MaxAttempts - attempt) + StagesLeft

\* Whatever is answered, a fetch goes on towards its end: no refusal, dead
\* token or failure takes it back, so it has at most 5 * MaxAttempts steps.
FetchGoesOn ==
  [][pc # "idle" /\ now' = now => Remaining' \in 0 .. Remaining - 1]_vars

\* Every fetch_states comes to an end.
FetchEnds == pc # "idle" ~> pc = "idle"
=============================================================================
