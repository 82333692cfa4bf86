---------------------------- MODULE RunLifecycle ----------------------------
(***************************************************************************)
(* What the run queue promises its clients, as if every operation were one *)
(* indivisible step on the `run` table: no row locks, no statement order,  *)
(* no transactions in flight.  RunQueue, where claims and sweeps overlap   *)
(* row by row, is shown to implement it.                                   *)
(***************************************************************************)
EXTENDS Integers

CONSTANTS Runs,          \* the runs that may ever be enqueued
          Keys,          \* names of API keys, recorded as the claimer
          NULL,          \* SQL NULL
          MaxAttempts    \* DEFAULT_MAX_CLAIM_ATTEMPTS

VARIABLES status, claimed_by, lease, claim_attempts

vars == <<status, claimed_by, lease, claim_attempts>>

RunStatus ==
  {"queued", "claimed", "running", "completed", "failed", "killed", "lost",
   "cancelled"}
Leasable == {"claimed", "running"}
Cancellable == {"queued", "claimed"}

Init ==
  /\ status = [r \in Runs |-> "absent"]
  /\ claimed_by = [r \in Runs |-> NULL]
  /\ lease = [r \in Runs |-> NULL]
  /\ claim_attempts = [r \in Runs |-> 0]

Enqueue(r, st) ==
  /\ status[r] = "absent"
  /\ status' = [status EXCEPT ![r] = st]
  /\ UNCHANGED <<claimed_by, lease, claim_attempts>>

\* A batch goes to one worker, all of it from the queue.
Claim(batch, key) ==
  /\ \A r \in batch : status[r] = "queued"
  /\ status' = [r \in Runs |-> IF r \in batch THEN "claimed" ELSE status[r]]
  /\ claimed_by' = [r \in Runs |-> IF r \in batch THEN key ELSE claimed_by[r]]
  /\ lease' = [r \in Runs |-> IF r \in batch THEN "live" ELSE lease[r]]
  /\ UNCHANGED claim_attempts

Renew(r) ==
  /\ status[r] \in Leasable
  /\ status' = [status EXCEPT ![r] = "running"]
  /\ lease' = [lease EXCEPT ![r] = "live"]
  /\ UNCHANGED <<claimed_by, claim_attempts>>

Lapse(r) ==
  /\ lease[r] = "live"
  /\ lease' = [lease EXCEPT ![r] = "expired"]
  /\ UNCHANGED <<status, claimed_by, claim_attempts>>

\* Every swept run is claimed or running on an expired lease at that moment,
\* and one that is given up has used every attempt it had.
Sweep(back, given_up) ==
  /\ back \cap given_up = {}
  /\ \A r \in back \cup given_up : status[r] \in Leasable /\ lease[r] = "expired"
  /\ \A r \in back : claim_attempts[r] + 1 < MaxAttempts
  /\ \A r \in given_up : claim_attempts[r] + 1 >= MaxAttempts
  /\ status' = [r \in Runs |-> IF r \in back THEN "queued"
                               ELSE IF r \in given_up THEN "lost" ELSE status[r]]
  /\ claimed_by' = [r \in Runs |-> IF r \in back THEN NULL ELSE claimed_by[r]]
  /\ lease' = [r \in Runs |-> IF r \in back THEN NULL ELSE lease[r]]
  /\ claim_attempts' = [r \in Runs |-> IF r \in back THEN claim_attempts[r] + 1
                                       ELSE claim_attempts[r]]

Cancel(r) ==
  /\ status[r] \in Cancellable
  /\ status' = [status EXCEPT ![r] = "cancelled"]
  /\ UNCHANGED <<claimed_by, lease, claim_attempts>>

Update(r, st) ==
  /\ status[r] # "absent"
  /\ status' = [status EXCEPT ![r] = st]
  /\ UNCHANGED <<claimed_by, lease, claim_attempts>>

Next ==
  \/ \E r \in Runs :
       \/ \E st \in RunStatus : Enqueue(r, st) \/ Update(r, st)
       \/ Renew(r)
       \/ Lapse(r)
       \/ Cancel(r)
  \/ \E batch \in SUBSET Runs, key \in Keys : Claim(batch, key)
  \/ \E back, given_up \in SUBSET Runs : Sweep(back, given_up)

Spec == Init /\ [][Next]_vars
=============================================================================
