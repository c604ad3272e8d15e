----------------------------- MODULE LandingZone -----------------------------
(***************************************************************************)
(* What the landing zone promises to whoever reads raw.state_vectors and   *)
(* raw.ingestion_runs, with no sessions, batches, locks or lost replies.   *)
(* A run is recorded, may land one batch in one step - the keys nobody     *)
(* landed before - and is closed at most once: as succeeded, with the      *)
(* number of rows it owns, or as failed, with none.                        *)
(***************************************************************************)
EXTENDS Integers, FiniteSets

CONSTANTS Runs, Keys, NoRun, NoTally

VARIABLES
  landed,    \* the run that owns each key, or NoRun
  status,    \* the status of each run
  tally      \* rows_inserted of each run, or NoTally

zone == <<landed, status, tally>>

Owned(r) == {k \in Keys : landed[k] = r}

Init ==
  /\ landed = [k \in Keys |-> NoRun]
  /\ status = [r \in Runs |-> "absent"]
  /\ tally = [r \in Runs |-> NoTally]

Begin(r) ==
  /\ status[r] = "absent"
  /\ status' = [status EXCEPT ![r] = "running"]
  /\ UNCHANGED <<landed, tally>>

Load(r, batch) ==
  /\ status[r] = "running"
  /\ Owned(r) = {}
  /\ landed' = [k \in Keys |->
                  IF k \in batch /\ landed[k] = NoRun THEN r ELSE landed[k]]
  /\ UNCHANGED <<status, tally>>

Succeed(r) ==
  /\ status[r] = "running"
  /\ status' = [status EXCEPT ![r] = "succeeded"]
  /\ tally' = [tally EXCEPT ![r] = Cardinality(Owned(r))]
  /\ UNCHANGED landed

Fail(r) ==
  /\ status[r] = "running"
  /\ status' = [status EXCEPT ![r] = "failed"]
  /\ UNCHANGED <<landed, tally>>

Next ==
  \E r \in Runs :
    \/ Begin(r)
    \/ \E batch \in SUBSET Keys : Load(r, batch)
    \/ Succeed(r)
    \/ Fail(r)

Spec == Init /\ [][Next]_zone
=============================================================================
