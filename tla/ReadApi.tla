------------------------------- MODULE ReadApi -------------------------------
(***************************************************************************)
(* The read API of api/main.py: requests, the worker threads that FastAPI  *)
(* runs its plain functions on, and the psycopg pool, over marts that dbt  *)
(* replaces meanwhile.                                                     *)
(*                                                                         *)
(* A request for data takes a thread twice.  get_conn holds the first one  *)
(* while it waits, ten seconds at most, for a connection; once it has one  *)
(* it gives the thread back, and the endpoint needs another to run on.     *)
(* The connection is given back after the answer, which needs no thread of *)
(* the shared limiter.  /health, /api/meta and the page need one thread    *)
(* and no connection.                                                      *)
(*                                                                         *)
(* Threads and connections go to their waiters in any order: limiter and   *)
(* pool keep queues, and only the fairness below depends on them.  Each    *)
(* client makes one request at a time, again and again, as the page does.  *)
(***************************************************************************)
EXTENDS Integers, MartPublication

CONSTANTS
  Clients,       \* clients of the API, each with one request at a time
  Connections,   \* what the pool may open (max_size)
  Threads,       \* worker threads of the server
  MaxRestarts,   \* bound on restarts of the database
  NoConnection   \* a request without a connection

ASSUME ClientsAssumption == IsFiniteSet(Clients)
ASSUME ConnectionsAssumption ==
  IsFiniteSet(Connections) /\ NoConnection \notin Connections
ASSUME LimitsAssumption == Threads \in Nat \ {0} /\ MaxRestarts \in Nat

VARIABLES
  at,        \* where the request of each client stands
  wants,     \* what it asks for: "data" from a mart, or the "page"
  holds,     \* the connection lent to it
  answer,    \* what the endpoint has answered, "none" until then
  link,      \* each connection of the pool
  restarts,  \* restarts of the database so far
  losses     \* requests that met a connection broken by one

service == <<at, wants, holds, answer, link, restarts, losses>>
vars == <<publication, service>>

-----------------------------------------------------------------------------
Stage(s) == {r \in Clients : at[r] = s}
Lent == {holds[r] : r \in Clients} \ {NoConnection}
Idle == {c \in Connections : link[c] # "unopened"} \ Lent

\* get_conn holds its thread while it waits, an endpoint while it runs.
Busy == Stage("waiting") \cup Stage("running")
ThreadIsFree == Cardinality(Busy) < Threads

Goto(r, s) == at' = [at EXCEPT ![r] = s]

Leaves(r) ==
  /\ Goto(r, "away")
  /\ wants' = [wants EXCEPT ![r] = "page"]

Answer(r, a) == answer' = [answer EXCEPT ![r] = a]

Init ==
  /\ PublicationInit
  /\ at = [r \in Clients |-> "away"]
  /\ wants = [r \in Clients |-> "page"]
  /\ holds = [r \in Clients |-> NoConnection]
  /\ answer = [r \in Clients |-> "none"]
  /\ link = [c \in Connections |-> "unopened"]
  /\ restarts = 0
  /\ losses = 0

-----------------------------------------------------------------------------
(* Clients.                                                               *)

Arrive(r) ==
  /\ at[r] = "away"
  /\ \E w \in {"data", "page"} : wants' = [wants EXCEPT ![r] = w]
  /\ Goto(r, "queued")
  /\ UNCHANGED <<publication, holds, answer, link, restarts, losses>>

\* get_conn starts on a thread and asks the pool.
Enter(r) ==
  /\ at[r] = "queued" /\ wants[r] = "data"
  /\ ThreadIsFree
  /\ Goto(r, "waiting")
  /\ UNCHANGED <<publication, wants, holds, answer, link, restarts, losses>>

\* The pool does not look at the connection it lends.
Borrow(r) ==
  /\ at[r] = "waiting"
  /\ \E c \in Idle : holds' = [holds EXCEPT ![r] = c]
  /\ Goto(r, "lent")
  /\ UNCHANGED <<publication, wants, answer, link, restarts, losses>>

\* Mutant: a pool without a timeout.
GiveUpNever(r) == FALSE /\ UNCHANGED vars

\* PoolTimeout after ten seconds, which nothing catches.
GiveUp(r) ==
  /\ at[r] = "waiting"
  /\ Idle = {}
  /\ Leaves(r)
  /\ UNCHANGED <<publication, holds, answer, link, restarts, losses>>

\* Mutant: an endpoint that needs no worker thread.
RunAsync(r) ==
  /\ \/ at[r] = "lent"
     \/ at[r] = "queued" /\ wants[r] = "page"
  /\ Goto(r, "running")
  /\ UNCHANGED <<publication, wants, holds, answer, link, restarts, losses>>

\* The endpoint starts on a thread.
Run(r) ==
  /\ \/ at[r] = "lent"
     \/ at[r] = "queued" /\ wants[r] = "page"
  /\ ThreadIsFree
  /\ Goto(r, "running")
  /\ UNCHANGED <<publication, wants, holds, answer, link, restarts, losses>>

\* _fetch: a missing table is MartsNotBuilt and becomes 503; rows become
\* 200; a missing privilege is not caught and becomes 500.
Query(r) ==
  /\ at[r] = "running" /\ wants[r] = "data"
  /\ link[holds[r]] = "open"
  /\ \E m \in Marts : Answer(r, Outcome(m))
  /\ Goto(r, "leaving")
  /\ UNCHANGED <<publication, wants, holds, link, restarts, losses>>

\* The connection turns out to be gone: 500, and the driver marks it closed.
QueryFails(r) ==
  /\ at[r] = "running" /\ wants[r] = "data"
  /\ link[holds[r]] = "broken"
  /\ Answer(r, "lost")
  /\ losses' = losses + 1
  /\ link' = [link EXCEPT ![holds[r]] = "closed"]
  /\ Goto(r, "leaving")
  /\ UNCHANGED <<publication, wants, holds, restarts>>

\* /health, /api/meta, the page.
Reply(r) ==
  /\ at[r] = "running" /\ wants[r] = "page"
  /\ Leaves(r)
  /\ UNCHANGED <<publication, holds, answer, link, restarts, losses>>

\* Mutant: a connection the driver knows to be closed goes back to the pool.
ReturnUnchecked(r) ==
  link' = [link EXCEPT ![holds[r]] = IF @ = "closed" THEN "broken" ELSE @]

\* The pool drops a connection the driver knows to be closed, and takes back
\* any other.
Return(r) ==
  link' = [link EXCEPT ![holds[r]] = IF @ = "closed" THEN "unopened" ELSE @]

\* Mutant: a connection taken from the pool and never put back.
LeaveKeeping(r) ==
  /\ at[r] = "leaving"
  /\ Answer(r, "none")
  /\ Leaves(r)
  /\ UNCHANGED <<publication, holds, link, restarts, losses>>

\* The response is out, and `with _pool.connection()` ends.
Leave(r) ==
  /\ at[r] = "leaving"
  /\ Return(r)
  /\ holds' = [holds EXCEPT ![r] = NoConnection]
  /\ Answer(r, "none")
  /\ Leaves(r)
  /\ UNCHANGED <<publication, restarts, losses>>

-----------------------------------------------------------------------------
(* The pool's own thread, and the database.                                *)

\* The pool opens a connection at the start and whenever a request waits.
\* Nothing obliges the database to accept it.
Open(c) ==
  /\ link[c] = "unopened"
  /\ Idle = {}
  /\ link' = [link EXCEPT ![c] = "open"]
  /\ UNCHANGED <<publication, at, wants, holds, answer, restarts, losses>>

\* The database restarts: the driver finds out when it next uses a
\* connection.
Restart ==
  /\ restarts < MaxRestarts
  /\ restarts' = restarts + 1
  /\ link' = [c \in Connections |-> IF link[c] = "open" THEN "broken"
                                                       ELSE link[c]]
  /\ UNCHANGED <<publication, at, wants, holds, answer, losses>>

RequestStep(r) ==
  \/ Enter(r) \/ Borrow(r) \/ GiveUp(r) \/ Run(r)
  \/ Query(r) \/ QueryFails(r) \/ Reply(r) \/ Leave(r)

Publish == PublicationNext /\ UNCHANGED service

Next ==
  \/ \E r \in Clients : Arrive(r) \/ RequestStep(r)
  \/ \E c \in Connections : Open(c)
  \/ Restart
  \/ Publish

Spec == Init /\ [][Next]_vars

\* A request that may go on does, and one that keeps finding threads free
\* gets one, for the limiter serves its waiters in turn.  This includes Query:
\* every query is taken to end, with rows or with an error, although the API
\* sets no statement_timeout.  Nothing else is assumed of the database, which
\* may refuse connections for ever, nor of the pool, dbt or further requests.
FairSpec == Spec /\ \A r \in Clients : SF_vars(RequestStep(r))

-----------------------------------------------------------------------------
Stages == {"away", "queued", "waiting", "lent", "running", "leaving"}
Answers == {"none", "rows", "not_ready", "denied", "lost"}

TypeOK ==
  /\ PublicationTypeOK
  /\ at \in [Clients -> Stages]
  /\ wants \in [Clients -> {"data", "page"}]
  /\ holds \in [Clients -> Connections \cup {NoConnection}]
  /\ answer \in [Clients -> Answers]
  /\ link \in [Connections -> {"unopened", "open", "broken", "closed"}]
  /\ restarts \in 0 .. MaxRestarts
  /\ losses \in Nat

Broken == {c \in Connections : link[c] = "broken"}

\* Who holds a connection: requests from Borrow to Leave, each one of its own.
HoldInv ==
  /\ \A r \in Clients :
       /\ at[r] \in {"waiting", "lent", "leaving"} => wants[r] = "data"
       /\ holds[r] # NoConnection <=>
            \/ at[r] \in {"lent", "leaving"}
            \/ at[r] = "running" /\ wants[r] = "data"
       /\ holds[r] # NoConnection =>
            /\ link[holds[r]] # "unopened"
            /\ link[holds[r]] = "closed" => at[r] = "leaving"
       /\ answer[r] = "none" <=> at[r] # "leaving"
  /\ \A q, r \in Clients :
       q # r /\ holds[q] = holds[r] => holds[q] = NoConnection
  /\ \A c \in Connections :
       link[c] = "closed" => \E r \in Clients : holds[r] = c

ThreadInv == Cardinality(Busy) <= Threads

\* A connection that is broken has cost no request yet.
LossInv ==
  losses + Cardinality(Broken) <= restarts * Cardinality(Connections)

PoolInv == TypeOK /\ PublicationInv /\ HoldInv /\ ThreadInv /\ LossInv

\* A restart of the database costs at most one failed request per pooled
\* connection, however late the connections are used again: the pool hands
\* them out unchecked, and drops each after its first failure
\* (api/main.py:51-58, :81-85).
LossesAreBounded ==
  losses <= restarts * Cardinality(Connections)

\* The reader lacks a privilege only while a dbt command is at work, or after
\* one that died before its hook; failed models and tests do not matter
\* (transform/dbt_project.yml:33-44, api/queries.py:29-38).
DeniedOnlyMeanwhile ==
  [][\A r \in Clients : answer[r] # "denied" /\ answer'[r] = "denied" =>
       dbt # "idle" \/ interrupted]_vars

\* Every thread waits for a connection, and every connection is lent to a
\* request that waits for a thread.
Gridlock ==
  /\ Cardinality(Stage("waiting")) = Threads
  /\ Idle = {}
  /\ \A r \in Clients : holds[r] # NoConnection => at[r] = "lent"
  /\ \A c \in Connections : link[c] # "unopened"

\* In that state no request gets any further, /health included, but by timing
\* out: neither threads nor connections come free in any other way
\* (api/main.py:81-85 on a pool of api/main.py:51-58).
GridlockOnlyTimesOut ==
  [][Gridlock => \A r \in Clients : at'[r] # at[r] =>
       at[r] = "away" \/ (at[r] = "waiting" /\ at'[r] = "away")]_vars

InFlight == {r \in Clients : at[r] # "away"}

\* A step of r's request is possible that is no timeout: the guards of
\* RequestStep(r), but for GiveUp.
CanGoOn(r) ==
  \/ at[r] \in {"queued", "lent"} /\ ThreadIsFree
  \/ at[r] = "waiting" /\ Idle # {}
  \/ at[r] = "running" /\ (wants[r] = "page"
                              \/ link[holds[r]] \in {"open", "broken"})
  \/ at[r] = "leaving"

\* With the pool's connections open, nothing but a gridlock brings requests
\* to a stop, and a gridlock does: whatever was lent, broken, lost or timed
\* out before, every thread and every connection has found its way back
\* (api/main.py:78-82).
OnlyGridlockStops ==
  InFlight # {} /\ Connections # {} /\ (\A c \in Connections : link[c] # "unopened")
    => (Gridlock <=> \A r \in Clients : ~CanGoOn(r))

\* A gridlock takes as many requests at once as there are threads and
\* connections together: 44 with FastAPI's forty threads and the four
\* connections of api/main.py:51-58.
GridlockNeedsCrowd ==
  Gridlock => Cardinality(InFlight) >= Threads + Cardinality(Connections)

\* Every request is answered, in a gridlock and without a connection to be
\* had, as long as every query that is sent comes to an end.
EveryRequestIsAnswered ==
  \A r \in Clients : at[r] = "queued" ~> at[r] \in {"leaving", "away"}

\* Marts that have not been built are "an expected state on first run, not
\* an error worth a 500" (api/queries.py:35-36).
FirstRunIsNoError ==
  \A r \in Clients : answer[r] = "denied" => schema = "open"
=============================================================================
