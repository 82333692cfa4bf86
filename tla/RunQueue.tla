------------------------------ MODULE RunQueue ------------------------------
(***************************************************************************)
(* The run queue: service/runs.py over PostgreSQL (READ COMMITTED), driven *)
(* by harness workers, operators and sweeps that overlap freely.           *)
(*                                                                         *)
(* claim_queue and sweep_expired_leases are multi-statement transactions   *)
(* and take one action per statement (the sweep: per row it locks), then   *)
(* commit or abort.  Their uncommitted writes are kept in claim_ids and in *)
(* requeued / lost, and reach the row at commit.  enqueue_run, update_run, *)
(* cancel_run and renew_lease are single UPDATEs or INSERTs: each waits    *)
(* for the row lock and then evaluates its WHERE on the row as it finds    *)
(* it, so each is one action guarded by the row being unlocked.            *)
(***************************************************************************)
EXTENDS SessionPacking, FiniteSets

LOCAL SX == INSTANCE SequencesExt

CONSTANTS NumRuns,          \* bound: runs 1..NumRuns, in order of created_at
          Workers,          \* harness sessions: the clients of claim and renew
          Sweepers,         \* concurrent sweeps (cron, POST /v1/queue/sweep)
          Keys,             \* API key names
          MaxAttempts,      \* DEFAULT_MAX_CLAIM_ATTEMPTS
          MaxFaults,        \* bound: crashes and lost replies altogether
          NoOne,            \* no transaction
          \* The requests' contents.
          Priority,         \* run -> priority
          EstSeconds,       \* run -> est_seconds
          DependsOn,        \* run -> set of run ids, enqueued or not
          RunsOn,           \* run -> requirements.backend
          AnyBackend,       \* no backend requirement, or 'any'
          KeyOf,            \* worker -> name of the key it calls with
          BackendOf,        \* worker -> backend it claims for
          SessionOf,        \* worker -> session_seconds it claims for
          EnqueueStatuses,  \* statuses RunCreate bodies carry
          PatchStatuses,    \* statuses operators PATCH
          FinishStatuses    \* statuses workers PATCH when done

Runs == 1..NumRuns
RunStatus ==
  {"queued", "claimed", "running", "completed", "failed", "killed", "lost",
   "cancelled"}
Leasable == {"claimed", "running"}      \* LEASABLE_RUN_STATUSES
Cancellable == {"queued", "claimed"}    \* CANCELLABLE_RUN_STATUSES

ASSUME QueueAssumption ==
  /\ NumRuns \in Nat
  /\ MaxAttempts \in Nat \ {0}
  /\ MaxFaults \in Nat
  /\ IsFiniteSet(Workers)
  /\ Workers \cap Sweepers = {}
  /\ NoOne \notin Workers \cup Sweepers
  /\ NULL \notin Keys \cup {"live", "expired"}
  /\ KeyOf \in [Workers -> Keys]
  /\ EnqueueStatuses \subseteq RunStatus
  /\ PatchStatuses \subseteq RunStatus
  /\ FinishStatuses \subseteq RunStatus

VARIABLES
  \* Columns of the run table, as committed.
  status,          \* "absent" before the row exists
  claimed_by,
  lease,           \* lease_expires_at: NULL, in the future, or in the past
  claim_attempts,
  row_lock,        \* the transaction that holds the row
  \* claim_queue, per worker: "idle", "selected" (rows locked, packed, not yet
  \* updated and committed), "committed" (the reply not yet received).
  claim_step,
  claim_ids,
  \* sweep_expired_leases, per sweep.
  sweep_step,      \* "idle", "requeue" (first UPDATE), "lose" (second)
  sweep_lapsed,    \* runs whose lease is older than the transaction's now()
  sweep_todo,      \* rows of the statement's snapshot not reached yet
  requeued, lost,  \* rows updated, uncommitted
  \* The workers, and what the properties need to remember.
  holds,           \* runs a worker believes are its own
  faults,          \* crashes and lost replies so far
  ever_completed   \* runs that have been completed at some time

row_vars == <<status, claimed_by, lease, claim_attempts>>
claim_vars == <<claim_step, claim_ids>>
sweep_vars == <<sweep_step, sweep_lapsed, sweep_todo, requeued, lost>>
vars == <<row_vars, row_lock, claim_vars, sweep_vars, holds, faults,
          ever_completed>>

Init ==
  /\ status = [r \in Runs |-> "absent"]
  /\ claimed_by = [r \in Runs |-> NULL]
  /\ lease = [r \in Runs |-> NULL]
  /\ claim_attempts = [r \in Runs |-> 0]
  /\ row_lock = [r \in Runs |-> NoOne]
  /\ claim_step = [w \in Workers |-> "idle"]
  /\ claim_ids = [w \in Workers |-> {}]
  /\ sweep_step = [s \in Sweepers |-> "idle"]
  /\ sweep_lapsed = [s \in Sweepers |-> {}]
  /\ sweep_todo = [s \in Sweepers |-> {}]
  /\ requeued = [s \in Sweepers |-> {}]
  /\ lost = [s \in Sweepers |-> {}]
  /\ holds = [w \in Workers |-> {}]
  /\ faults = 0
  /\ ever_completed = {}
-----------------------------------------------------------------------------
(* Helpers. *)

\* Definitions headed "Variant:" are the same definition with a plausible bug;
\* no action uses them, mutation runs put them in place of the one below.

\* Variant: no row locks (FOR UPDATE dropped, autocommit statements).
UnlockedAlways(r) == TRUE

Unlocked(r) == row_lock[r] = NoOne

\* Variant: the transaction is left open when its block is left.
UnlockForgotten(t) == row_lock

Unlock(t) == [r \in Runs |-> IF row_lock[r] = t THEN NoOne ELSE row_lock[r]]

\* A statement that writes one status; the history follows it.
SetStatus(r, st) ==
  /\ status' = [status EXCEPT ![r] = st]
  /\ ever_completed' =
       IF st = "completed" THEN ever_completed \cup {r} ELSE ever_completed

\* A new lease expires after every running transaction's now().
RenewedSince(batch) ==
  sweep_lapsed' = [s \in Sweepers |-> sweep_lapsed[s] \ batch]

Fault == faults < MaxFaults /\ faults' = faults + 1

\* Variant: a dependency need only have ended, however it did.
ReadyIfEnded(r) ==
  /\ status[r] = "queued"
  /\ \A d \in DependsOn[r] : d \in Runs /\ status[d] \notin {"queued"} \cup Leasable

\* _READY_CLAUSE: queued, and every dependency exists and has completed.
Ready(r) ==
  /\ status[r] = "queued"
  /\ \A d \in DependsOn[r] : d \in Runs /\ status[d] = "completed"

\* The rows SELECT ... FOR UPDATE OF r SKIP LOCKED returns to worker w.
Candidates(w) ==
  {r \in Runs : Ready(r) /\ Unlocked(r) /\ RunsOn[r] \in {AnyBackend, BackendOf[w]}}

\* ORDER BY r.priority DESC, r.created_at
QueueOrder(q, r) ==
  Priority[q] > Priority[r] \/ (Priority[q] = Priority[r] /\ q < r)

\* The candidates the worker's session is given.
Packed(w) ==
  LET order == SX!SetToSortSeq(Candidates(w), QueueOrder)
      taken == Pack([i \in DOMAIN order |-> EstSeconds[order[i]]], SessionOf[w])
  IN  {r \in Candidates(w) : \E i \in taken : order[i] = r}

\* Variants: each limit off by one.
MayRequeueOnceMore(r) == claim_attempts[r] + 1 <= MaxAttempts
ExhaustedTooLate(r) == claim_attempts[r] + 1 > MaxAttempts

MayRequeue(r) == claim_attempts[r] + 1 < MaxAttempts
Exhausted(r) == claim_attempts[r] + 1 >= MaxAttempts

\* The WHERE clauses of the two sweep statements, on the row as it is now.
Lapsed(s, r) ==
  status[r] \in Leasable /\ lease[r] = "expired" /\ r \in sweep_lapsed[s]

\* Variant: the row is not looked at again once its lock is granted.
ToRequeueUnchecked(s, r) == MayRequeue(r)

ToRequeue(s, r) == Lapsed(s, r) /\ MayRequeue(r)
ToLose(s, r) == Lapsed(s, r) /\ Exhausted(r)
-----------------------------------------------------------------------------
(* Single-statement operations. *)

\* enqueue_run: rows appear in order of created_at, with the body's status.
EnqueueRun(r, st) ==
  /\ status[r] = "absent"
  /\ \A q \in Runs : q < r => status[q] # "absent"
  /\ SetStatus(r, st)
  /\ UNCHANGED <<claimed_by, lease, claim_attempts, row_lock, claim_vars,
                 sweep_vars, holds, faults>>

\* update_run, called by an operator: no guard on the current status.
UpdateRun(r, st) ==
  /\ status[r] # "absent" /\ Unlocked(r)
  /\ SetStatus(r, st)
  /\ UNCHANGED <<claimed_by, lease, claim_attempts, row_lock, claim_vars,
                 sweep_vars, holds, faults>>

\* update_run, called by a worker that has finished a run it holds.
FinishRun(w, r, st) ==
  /\ r \in holds[w] /\ status[r] # "absent" /\ Unlocked(r)
  /\ SetStatus(r, st)
  /\ holds' = [holds EXCEPT ![w] = @ \ {r}]
  /\ UNCHANGED <<claimed_by, lease, claim_attempts, row_lock, claim_vars,
                 sweep_vars, faults>>

\* cancel_run; otherwise a 409 that changes nothing.
CancelRun(r) ==
  /\ status[r] \in Cancellable /\ Unlocked(r)
  /\ SetStatus(r, "cancelled")
  /\ UNCHANGED <<claimed_by, lease, claim_attempts, row_lock, claim_vars,
                 sweep_vars, holds, faults>>

\* Variant: the UPDATE without its status test.
RenewLeaseUnguarded(w, r) ==
  /\ r \in holds[w] /\ Unlocked(r)
  /\ SetStatus(r, "running")
  /\ lease' = [lease EXCEPT ![r] = "live"]
  /\ RenewedSince({r})
  /\ UNCHANGED <<claimed_by, claim_attempts, row_lock, claim_vars, sweep_step,
                 sweep_todo, requeued, lost, holds, faults>>

\* renew_lease: the heartbeat, which also turns claimed into running.
RenewLease(w, r) ==
  /\ r \in holds[w] /\ Unlocked(r)
  /\ status[r] \in Leasable
  /\ SetStatus(r, "running")
  /\ lease' = [lease EXCEPT ![r] = "live"]
  /\ RenewedSince({r})
  /\ UNCHANGED <<claimed_by, claim_attempts, row_lock, claim_vars, sweep_step,
                 sweep_todo, requeued, lost, holds, faults>>

\* renew_lease answers 409: the worker learns the run is no longer its own.
RenewRefused(w, r) ==
  /\ r \in holds[w] /\ Unlocked(r)
  /\ status[r] \notin Leasable
  /\ holds' = [holds EXCEPT ![w] = @ \ {r}]
  /\ UNCHANGED <<row_vars, row_lock, claim_vars, sweep_vars, faults,
                 ever_completed>>
-----------------------------------------------------------------------------
(* claim_queue. *)

\* BEGIN; SELECT ... FOR UPDATE SKIP LOCKED: every candidate is locked, the
\* ones the session is not given too; then the packing, in Python.
ClaimSelect(w) ==
  /\ claim_step[w] = "idle"
  /\ claim_step' = [claim_step EXCEPT ![w] = "selected"]
  /\ row_lock' = [r \in Runs |-> IF r \in Candidates(w) THEN w ELSE row_lock[r]]
  /\ claim_ids' = [claim_ids EXCEPT ![w] = Packed(w)]
  /\ UNCHANGED <<row_vars, sweep_vars, holds, faults, ever_completed>>

\* UPDATE run ... WHERE id = ANY(claimed_ids); COMMIT.  The UPDATE does not
\* test the status again.
ClaimCommit(w) ==
  /\ claim_step[w] = "selected"
  /\ claim_step' = [claim_step EXCEPT ![w] = "committed"]
  /\ status' = [r \in Runs |-> IF r \in claim_ids[w] THEN "claimed" ELSE status[r]]
  /\ claimed_by' = [r \in Runs |-> IF r \in claim_ids[w] THEN KeyOf[w]
                                   ELSE claimed_by[r]]
  /\ lease' = [r \in Runs |-> IF r \in claim_ids[w] THEN "live" ELSE lease[r]]
  /\ RenewedSince(claim_ids[w])
  /\ row_lock' = Unlock(w)
  /\ UNCHANGED <<claim_attempts, claim_ids, sweep_step, sweep_todo, requeued,
                 lost, holds, faults, ever_completed>>

\* The server or its connection dies before COMMIT: rollback.
ClaimAbort(w) ==
  /\ claim_step[w] = "selected" /\ Fault
  /\ claim_step' = [claim_step EXCEPT ![w] = "idle"]
  /\ claim_ids' = [claim_ids EXCEPT ![w] = {}]
  /\ row_lock' = Unlock(w)
  /\ UNCHANGED <<row_vars, sweep_vars, holds, ever_completed>>

\* The reply, read back after the commit, reaches the worker.
ClaimReply(w) ==
  /\ claim_step[w] = "committed"
  /\ claim_step' = [claim_step EXCEPT ![w] = "idle"]
  /\ claim_ids' = [claim_ids EXCEPT ![w] = {}]
  /\ holds' = [holds EXCEPT ![w] = @ \cup claim_ids[w]]
  /\ UNCHANGED <<row_vars, row_lock, sweep_vars, faults, ever_completed>>

\* get_run fails after the commit, or the reply never arrives.
ClaimReplyLost(w) ==
  /\ claim_step[w] = "committed" /\ Fault
  /\ claim_step' = [claim_step EXCEPT ![w] = "idle"]
  /\ claim_ids' = [claim_ids EXCEPT ![w] = {}]
  /\ UNCHANGED <<row_vars, row_lock, sweep_vars, holds, ever_completed>>

\* A harness session dies and forgets its runs.
WorkerCrash(w) ==
  /\ holds[w] # {} /\ Fault
  /\ holds' = [holds EXCEPT ![w] = {}]
  /\ UNCHANGED <<row_vars, row_lock, claim_vars, sweep_vars, ever_completed>>
-----------------------------------------------------------------------------
(* sweep_expired_leases. *)

\* Time passes lease_expires_at.
Lapse(r) ==
  /\ lease[r] = "live"
  /\ lease' = [lease EXCEPT ![r] = "expired"]
  /\ UNCHANGED <<status, claimed_by, claim_attempts, row_lock, claim_vars,
                 sweep_vars, holds, faults, ever_completed>>

\* BEGIN fixes now(); the first UPDATE takes its snapshot.
SweepBegin(s) ==
  LET lapsed == {r \in Runs : lease[r] = "expired"} IN
  /\ sweep_step[s] = "idle"
  /\ sweep_step' = [sweep_step EXCEPT ![s] = "requeue"]
  /\ sweep_lapsed' = [sweep_lapsed EXCEPT ![s] = lapsed]
  /\ sweep_todo' = [sweep_todo EXCEPT ![s] =
       {r \in lapsed : status[r] \in Leasable /\ MayRequeue(r)}]
  /\ UNCHANGED <<row_vars, row_lock, claim_vars, requeued, lost, holds, faults,
                 ever_completed>>

\* The first UPDATE reaches a row of its snapshot: it waits for the lock, then
\* evaluates the WHERE again on the row's latest version.
SweepRequeueRow(s, r) ==
  /\ sweep_step[s] = "requeue"
  /\ r \in sweep_todo[s] /\ Unlocked(r)
  /\ sweep_todo' = [sweep_todo EXCEPT ![s] = @ \ {r}]
  /\ IF ToRequeue(s, r)
     THEN /\ row_lock' = [row_lock EXCEPT ![r] = s]
          /\ requeued' = [requeued EXCEPT ![s] = @ \cup {r}]
     ELSE UNCHANGED <<row_lock, requeued>>
  /\ UNCHANGED <<row_vars, claim_vars, sweep_step, sweep_lapsed, lost, holds,
                 faults, ever_completed>>

\* The second UPDATE takes a snapshot of its own; to it the rows requeued in
\* this transaction are queued already.
SweepNextStatement(s) ==
  /\ sweep_step[s] = "requeue" /\ sweep_todo[s] = {}
  /\ sweep_step' = [sweep_step EXCEPT ![s] = "lose"]
  /\ sweep_todo' = [sweep_todo EXCEPT ![s] =
       {r \in Runs \ requeued[s] : ToLose(s, r)}]
  /\ UNCHANGED <<row_vars, row_lock, claim_vars, sweep_lapsed, requeued, lost,
                 holds, faults, ever_completed>>

SweepLoseRow(s, r) ==
  /\ sweep_step[s] = "lose"
  /\ r \in sweep_todo[s] /\ Unlocked(r)
  /\ sweep_todo' = [sweep_todo EXCEPT ![s] = @ \ {r}]
  /\ IF ToLose(s, r)
     THEN /\ row_lock' = [row_lock EXCEPT ![r] = s]
          /\ lost' = [lost EXCEPT ![s] = @ \cup {r}]
     ELSE UNCHANGED <<row_lock, lost>>
  /\ UNCHANGED <<row_vars, claim_vars, sweep_step, sweep_lapsed, requeued, holds,
                 faults, ever_completed>>

SweepEnds(s) ==
  /\ sweep_step' = [sweep_step EXCEPT ![s] = "idle"]
  /\ sweep_lapsed' = [sweep_lapsed EXCEPT ![s] = {}]
  /\ sweep_todo' = [sweep_todo EXCEPT ![s] = {}]
  /\ requeued' = [requeued EXCEPT ![s] = {}]
  /\ lost' = [lost EXCEPT ![s] = {}]
  /\ row_lock' = Unlock(s)
  /\ UNCHANGED <<claim_vars, holds, ever_completed>>

\* COMMIT.  A lost run keeps its claimer, its lease and its attempts.
SweepCommit(s) ==
  /\ sweep_step[s] = "lose" /\ sweep_todo[s] = {}
  /\ status' = [r \in Runs |-> IF r \in requeued[s] THEN "queued"
                               ELSE IF r \in lost[s] THEN "lost" ELSE status[r]]
  /\ claimed_by' = [r \in Runs |-> IF r \in requeued[s] THEN NULL ELSE claimed_by[r]]
  /\ lease' = [r \in Runs |-> IF r \in requeued[s] THEN NULL ELSE lease[r]]
  /\ claim_attempts' = [r \in Runs |-> IF r \in requeued[s] THEN claim_attempts[r] + 1
                                       ELSE claim_attempts[r]]
  /\ SweepEnds(s)
  /\ UNCHANGED faults

\* The server or its connection dies: rollback.
SweepAbort(s) ==
  /\ sweep_step[s] # "idle" /\ Fault
  /\ SweepEnds(s)
  /\ UNCHANGED row_vars

\* Two sweeps that reach the same rows in different orders wait for each
\* other; PostgreSQL rolls one of them back.
SweepDeadlockVictim(s) ==
  /\ \E t \in Sweepers \ {s} :
       /\ \E r \in sweep_todo[s] : row_lock[r] = t
       /\ \E r \in sweep_todo[t] : row_lock[r] = s
  /\ SweepEnds(s)
  /\ UNCHANGED <<row_vars, faults>>
-----------------------------------------------------------------------------
Client(w) ==
  \/ ClaimSelect(w) \/ ClaimCommit(w) \/ ClaimAbort(w)
  \/ ClaimReply(w) \/ ClaimReplyLost(w) \/ WorkerCrash(w)
  \/ \E r \in Runs :
       \/ RenewLease(w, r) \/ RenewRefused(w, r)
       \/ \E st \in FinishStatuses : FinishRun(w, r, st)

Operator(r) ==
  \/ \E st \in EnqueueStatuses : EnqueueRun(r, st)
  \/ \E st \in PatchStatuses : UpdateRun(r, st)
  \/ CancelRun(r)

Sweep(s) ==
  \/ SweepBegin(s) \/ SweepNextStatement(s) \/ SweepCommit(s)
  \/ SweepAbort(s) \/ SweepDeadlockVictim(s)
  \/ \E r \in Runs : SweepRequeueRow(s, r) \/ SweepLoseRow(s, r)

Next ==
  \/ \E w \in Workers : Client(w)
  \/ \E r \in Runs : Operator(r) \/ Lapse(r)
  \/ \E s \in Sweepers : Sweep(s)

Spec == Init /\ [][Next]_vars

\* What may be counted on: the server carries an open transaction on and sends
\* its reply; a sweep is started again and again (cron) and goes on through its
\* rows, PostgreSQL granting a row lock to whoever waits for it; time passes
\* for a run no worker holds.
Unattended(r) == \A w \in Workers : r \notin holds[w]

Fairness ==
  /\ \A w \in Workers : WF_vars(ClaimCommit(w)) /\ WF_vars(ClaimReply(w))
  /\ \A s \in Sweepers :
       /\ WF_vars(SweepBegin(s))
       /\ WF_vars(SweepNextStatement(s))
       /\ WF_vars(SweepCommit(s))
       /\ WF_vars(SweepDeadlockVictim(s))
       /\ \A r \in Runs : SF_vars(SweepRequeueRow(s, r)) /\ SF_vars(SweepLoseRow(s, r))
  /\ \A r \in Runs : WF_vars(Unattended(r) /\ Lapse(r))

FairSpec == Spec /\ Fairness
-----------------------------------------------------------------------------
(* Properties. *)

TypeOK ==
  /\ status \in [Runs -> RunStatus \cup {"absent"}]
  /\ claimed_by \in [Runs -> Keys \cup {NULL}]
  /\ lease \in [Runs -> {NULL, "live", "expired"}]
  /\ claim_attempts \in [Runs -> Nat]
  /\ row_lock \in [Runs -> Workers \cup Sweepers \cup {NoOne}]
  /\ claim_step \in [Workers -> {"idle", "selected", "committed"}]
  /\ claim_ids \in [Workers -> SUBSET Runs]
  /\ sweep_step \in [Sweepers -> {"idle", "requeue", "lose"}]
  /\ sweep_lapsed \in [Sweepers -> SUBSET Runs]
  /\ sweep_todo \in [Sweepers -> SUBSET Runs]
  /\ requeued \in [Sweepers -> SUBSET Runs]
  /\ lost \in [Sweepers -> SUBSET Runs]
  /\ holds \in [Workers -> SUBSET Runs]
  /\ faults \in 0..MaxFaults
  /\ ever_completed \in SUBSET Runs

\* A claim that has not committed holds the lock of every row it is about to
\* overwrite, and that row is still queued.
ClaimHoldsItsRows ==
  \A w \in Workers : claim_step[w] = "selected" =>
    \A r \in claim_ids[w] : row_lock[r] = w /\ status[r] = "queued"

\* A sweep holds the lock of every row it has updated; the row is still
\* claimed or running on a lease that lapsed before the sweep began.
SweepHoldsItsRows ==
  \A s \in Sweepers :
    /\ \A r \in requeued[s] : row_lock[r] = s /\ Lapsed(s, r) /\ MayRequeue(r)
    /\ \A r \in lost[s] : row_lock[r] = s /\ Lapsed(s, r) /\ Exhausted(r)

\* Transactions at rest keep nothing.
IdleKeepsNothing ==
  /\ \A w \in Workers : claim_step[w] = "idle" => claim_ids[w] = {}
  /\ \A s \in Sweepers : sweep_step[s] = "idle" =>
       requeued[s] = {} /\ lost[s] = {}

\* The part of the inductive invariant about transactions in flight.
TransactionsInv ==
  ClaimHoldsItsRows /\ SweepHoldsItsRows /\ IdleKeepsNothing

\* What every step may rely on: the tables are well formed, and a claim or sweep
\* under way owns the rows it is about to write, which are still what it saw,
\* although its UPDATE names them by id alone (claim_queue, sweep_expired_leases).
QueueInv == TypeOK /\ TransactionsInv

\* Concurrent workers never claim the same run twice (claim_queue's docstring):
\* two claims in flight never have a run in common.
NoDoubleClaim ==
  \A v, w \in Workers : v # w /\ claim_step[v] = "selected" /\ claim_step[w] = "selected" =>
    claim_ids[v] \cap claim_ids[w] = {}

\* The workers that believe a run is theirs, or are about to be told so.
Claimants(r) == {w \in Workers : r \in holds[w] \/ (claim_step[w] = "committed" /\ r \in claim_ids[w])}

\* A run is worked on by a second worker only after a sweep has given it back:
\* unless someone PATCHes runs to queued, it has no more claimants than the
\* sweeps have requeued it, plus one, and minus the claim it now waits for.
DuplicateWorkNeedsRequeue ==
  "queued" \notin PatchStatuses \cup FinishStatuses =>
    \A r \in Runs :
      Cardinality(Claimants(r)) + (IF status[r] \in {"queued", "absent"} THEN 1 ELSE 0)
        <= claim_attempts[r] + 1

\* Nobody works on a run, or is about to, before each of its dependencies has
\* been completed; a dependency that was never enqueued counts as unmet.
DependenciesFirst ==
  \A w \in Workers : \A r \in claim_ids[w] \cup holds[w] : DependsOn[r] \subseteq ever_completed

\* Where claims are the only way to become claimed or running, such a run has
\* a claimer and a lease, so some sweep will find it if its worker dies.
LeasedRunsHaveLease ==
  (EnqueueStatuses \cup PatchStatuses \cup FinishStatuses) \cap Leasable = {} =>
    \A r \in Runs : status[r] \in Leasable => claimed_by[r] # NULL /\ lease[r] # NULL

\* Attempts stay below the maximum, and a run the sweeps gave up on has used
\* all of them.
LostOnlyWhenExhausted ==
  \A r \in Runs :
    /\ claim_attempts[r] < MaxAttempts
    /\ status[r] = "lost" /\ "lost" \notin EnqueueStatuses \cup PatchStatuses \cup FinishStatuses
         => claim_attempts[r] + 1 = MaxAttempts

\* An attempt is counted exactly when a lapsed claim goes back to the queue,
\* once per lapse however many sweeps run, and the old claim is wiped with it.
AttemptCountsOneLapse ==
  [][\A r \in Runs : claim_attempts'[r] # claim_attempts[r] =>
       /\ claim_attempts'[r] = claim_attempts[r] + 1
       /\ status[r] \in Leasable /\ lease[r] = "expired"
       /\ status'[r] = "queued" /\ claimed_by'[r] = NULL /\ lease'[r] = NULL]_vars

\* A run that has finished, been cancelled or been lost comes back only by a
\* PATCH: no claim, heartbeat or sweep that was already under way revives it.
FinishedStaysFinished ==
  [][\A r \in Runs : status[r] \in RunStatus \ (Leasable \cup {"queued"}) =>
       status'[r] \in {status[r]} \cup PatchStatuses \cup FinishStatuses]_vars

\* A lease that is still good is never taken away: a claimed or running run
\* leaves its claimer through a sweep only if its lease has expired, even if
\* the worker renewed it while the sweep was under way.
LiveLeaseIsSafe ==
  [][\A r \in Runs : status[r] \in Leasable /\ lease[r] = "live" /\ status'[r] # status[r] =>
       status'[r] \in {"running", "cancelled"} \cup PatchStatuses \cup FinishStatuses]_vars

\* The queue implements the operations of RunLifecycle, each atomic.
Lifecycle == INSTANCE RunLifecycle
ImplementsLifecycle == Lifecycle!Spec

\* A claimed or running run no worker holds does not stay so: its lease lapses
\* and a sweep requeues it or gives it up, whatever crashed before.
AbandonedRunsAreRecovered ==
  \A r \in Runs :
    (status[r] \in Leasable /\ lease[r] # NULL /\ Claimants(r) = {})
      ~> (status[r] \notin Leasable)

\* Every sweep that begins ends: no row lock keeps it waiting forever.
SweepsEnd ==
  \A s \in Sweepers : sweep_step[s] # "idle" ~> sweep_step[s] = "idle"
=============================================================================
