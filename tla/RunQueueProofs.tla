--------------------------- MODULE RunQueueProofs ---------------------------
(***************************************************************************)
(* Proofs about RunQueue, for any number of runs, workers, sweeps and      *)
(* attempts, and whatever statuses the clients write; and about            *)
(* PackingLoop, for lists of candidates of any length.                     *)
(***************************************************************************)
EXTENDS RunQueue, PackingLoop, FiniteSetTheorems, WellFoundedInduction, TLAPS

\* A session is only given runs that its SELECT returned and locked.
LEMMA PackedAreCandidates ==
  ASSUME NEW w \in Workers
  PROVE  Packed(w) \subseteq Candidates(w)
  BY Zenon DEF Packed

LEMMA CandidatesAreReady ==
  ASSUME NEW w \in Workers
  PROVE  Candidates(w) \subseteq {r \in Runs : status[r] = "queued" /\ row_lock[r] = NoOne}
  BY DEF Candidates, Ready, Unlocked

\* What a step does is one of the actions, for some worker, run or sweep.
LEMMA TypeInit == Init => TypeOK
  BY QueueAssumption DEF Init, TypeOK, QueueAssumption

LEMMA TypeStep == TypeOK /\ [Next]_vars => TypeOK'
<1> SUFFICES ASSUME TypeOK, [Next]_vars PROVE TypeOK'
  OBVIOUS
<1> USE QueueAssumption DEF QueueAssumption, RunStatus, Leasable, Cancellable
<1>1. ASSUME NEW w \in Workers, ClaimSelect(w) PROVE TypeOK'
  BY <1>1, PackedAreCandidates, CandidatesAreReady
     DEF TypeOK, ClaimSelect, row_vars, sweep_vars
<1>2. ASSUME NEW w \in Workers, ClaimCommit(w) PROVE TypeOK'
  BY <1>2 DEF TypeOK, ClaimCommit, RenewedSince, Unlock
<1>3. ASSUME NEW w \in Workers, ClaimAbort(w) PROVE TypeOK'
  BY <1>3 DEF TypeOK, ClaimAbort, Fault, Unlock, row_vars, sweep_vars
<1>4. ASSUME NEW w \in Workers, ClaimReply(w) PROVE TypeOK'
  BY <1>4 DEF TypeOK, ClaimReply, row_vars, sweep_vars
<1>5. ASSUME NEW w \in Workers, ClaimReplyLost(w) PROVE TypeOK'
  BY <1>5 DEF TypeOK, ClaimReplyLost, Fault, row_vars, sweep_vars
<1>6. ASSUME NEW w \in Workers, WorkerCrash(w) PROVE TypeOK'
  BY <1>6 DEF TypeOK, WorkerCrash, Fault, row_vars, claim_vars, sweep_vars
<1>7. ASSUME NEW w \in Workers, NEW r \in Runs, RenewLease(w, r) PROVE TypeOK'
  BY <1>7 DEF TypeOK, RenewLease, SetStatus, RenewedSince, claim_vars
<1>8. ASSUME NEW w \in Workers, NEW r \in Runs, RenewRefused(w, r) PROVE TypeOK'
  BY <1>8 DEF TypeOK, RenewRefused, row_vars, claim_vars, sweep_vars
<1>9. ASSUME NEW w \in Workers, NEW r \in Runs, NEW st \in FinishStatuses,
             FinishRun(w, r, st)
      PROVE  TypeOK'
  BY <1>9 DEF TypeOK, FinishRun, SetStatus, claim_vars, sweep_vars
<1>10. ASSUME NEW r \in Runs, NEW st \in EnqueueStatuses, EnqueueRun(r, st)
       PROVE  TypeOK'
  BY <1>10 DEF TypeOK, EnqueueRun, SetStatus, claim_vars, sweep_vars
<1>11. ASSUME NEW r \in Runs, NEW st \in PatchStatuses, UpdateRun(r, st)
       PROVE  TypeOK'
  BY <1>11 DEF TypeOK, UpdateRun, SetStatus, claim_vars, sweep_vars
<1>12. ASSUME NEW r \in Runs, CancelRun(r) PROVE TypeOK'
  BY <1>12 DEF TypeOK, CancelRun, SetStatus, claim_vars, sweep_vars
<1>13. ASSUME NEW r \in Runs, Lapse(r) PROVE TypeOK'
  BY <1>13 DEF TypeOK, Lapse, claim_vars, sweep_vars
<1>14. ASSUME NEW s \in Sweepers, SweepBegin(s) PROVE TypeOK'
  BY <1>14 DEF TypeOK, SweepBegin, row_vars, claim_vars
<1>15. ASSUME NEW s \in Sweepers, SweepNextStatement(s) PROVE TypeOK'
  BY <1>15 DEF TypeOK, SweepNextStatement, row_vars, claim_vars
<1>16. ASSUME NEW s \in Sweepers, SweepCommit(s) PROVE TypeOK'
  BY <1>16 DEF TypeOK, SweepCommit, SweepEnds, Unlock, claim_vars
<1>17. ASSUME NEW s \in Sweepers, SweepAbort(s) PROVE TypeOK'
  BY <1>17 DEF TypeOK, SweepAbort, SweepEnds, Unlock, Fault, claim_vars, row_vars
<1>18. ASSUME NEW s \in Sweepers, SweepDeadlockVictim(s) PROVE TypeOK'
  BY <1>18 DEF TypeOK, SweepDeadlockVictim, SweepEnds, Unlock, claim_vars, row_vars
<1>19. ASSUME NEW s \in Sweepers, NEW r \in Runs, SweepRequeueRow(s, r) PROVE TypeOK'
  BY <1>19 DEF TypeOK, SweepRequeueRow, row_vars, claim_vars
<1>20. ASSUME NEW s \in Sweepers, NEW r \in Runs, SweepLoseRow(s, r) PROVE TypeOK'
  BY <1>20 DEF TypeOK, SweepLoseRow, row_vars, claim_vars
<1>21. CASE UNCHANGED vars
  BY <1>21 DEF TypeOK, vars, row_vars, claim_vars, sweep_vars
<1>22. QED
  BY <1>1, <1>2, <1>3, <1>4, <1>5, <1>6, <1>7, <1>8, <1>9, <1>10, <1>11, <1>12,
     <1>13, <1>14, <1>15, <1>16, <1>17, <1>18, <1>19, <1>20, <1>21
     DEF Next, Client, Operator, Sweep

\* Every reachable state is well typed.
THEOREM TypeCorrect == Spec => []TypeOK
<1>1. QED BY TypeInit, TypeStep, PTL DEF Spec
-----------------------------------------------------------------------------
(* Transactions in flight own the rows they are about to overwrite. *)

LEMMA TransactionsInit == Init => TransactionsInv
  BY DEF Init, TransactionsInv, ClaimHoldsItsRows, SweepHoldsItsRows,
         IdleKeepsNothing

\* TransactionsInv reads only these variables.
LEMMA TransactionsUnchanged ==
  TransactionsInv /\ UNCHANGED <<status, lease, claim_attempts, row_lock,
                                 claim_step, claim_ids, sweep_step, sweep_lapsed,
                                 requeued, lost>>
    => TransactionsInv'
  BY DEF TransactionsInv, ClaimHoldsItsRows, SweepHoldsItsRows, IdleKeepsNothing,
         Lapsed, MayRequeue, Exhausted

\* A single-statement operation writes the status of one row, which it found
\* unlocked, and so a row no transaction in flight is about to overwrite.
LEMMA SetStatusKeepsTransactions ==
  ASSUME TypeOK, TransactionsInv, NEW r \in Runs, NEW st, Unlocked(r),
         SetStatus(r, st),
         UNCHANGED <<lease, claim_attempts, row_lock, claim_vars, sweep_vars>>
  PROVE  TransactionsInv'
<1> USE QueueAssumption DEF QueueAssumption, TypeOK, TransactionsInv, claim_vars,
        sweep_vars, SetStatus, Unlocked
<1>1. ClaimHoldsItsRows'
  BY DEF ClaimHoldsItsRows
<1>2. SweepHoldsItsRows'
  BY DEF SweepHoldsItsRows, Lapsed, MayRequeue, Exhausted
<1>3. IdleKeepsNothing'
  BY DEF IdleKeepsNothing
<1>4. QED BY <1>1, <1>2, <1>3

\* A claim locks its candidates, which are unlocked and queued, and takes its
\* batch from them; every row locked before keeps its lock.
LEMMA ClaimSelectKeepsTransactions ==
  ASSUME TypeOK, TransactionsInv, NEW w \in Workers, ClaimSelect(w)
  PROVE  TransactionsInv'
<1> USE QueueAssumption, PackedAreCandidates, CandidatesAreReady
        DEF QueueAssumption, TypeOK, TransactionsInv, ClaimSelect, row_vars, sweep_vars
<1>1. ClaimHoldsItsRows'
  <2> SUFFICES ASSUME NEW v \in Workers, claim_step'[v] = "selected",
                      NEW r \in claim_ids'[v]
               PROVE  row_lock'[r] = v /\ status'[r] = "queued"
    BY DEF ClaimHoldsItsRows
  <2>1. CASE v = w
    BY <2>1
  <2>2. CASE v # w
    BY <2>2 DEF ClaimHoldsItsRows
  <2>3. QED BY <2>1, <2>2
<1>2. SweepHoldsItsRows'
  BY DEF SweepHoldsItsRows, Lapsed, MayRequeue, Exhausted
<1>3. IdleKeepsNothing'
  BY DEF IdleKeepsNothing
<1>4. QED BY <1>1, <1>2, <1>3

\* The rows a claim commits are locked by it, so no other transaction has an
\* uncommitted write to them.
LEMMA ClaimCommitKeepsTransactions ==
  ASSUME TypeOK, TransactionsInv, NEW w \in Workers, ClaimCommit(w)
  PROVE  TransactionsInv'
<1> USE QueueAssumption
        DEF QueueAssumption, TypeOK, TransactionsInv, ClaimCommit, Unlock, RenewedSince
<1>1. ClaimHoldsItsRows'
  BY DEF ClaimHoldsItsRows
<1>2. SweepHoldsItsRows'
  <2> SUFFICES ASSUME NEW s \in Sweepers
               PROVE  /\ \A r \in requeued[s] : row_lock'[r] = s /\ Lapsed(s, r)' /\ MayRequeue(r)'
                      /\ \A r \in lost[s] : row_lock'[r] = s /\ Lapsed(s, r)' /\ Exhausted(r)'
    BY DEF SweepHoldsItsRows
  <2>1. \A r \in requeued[s] \cup lost[s] : r \notin claim_ids[w]
    BY DEF SweepHoldsItsRows, ClaimHoldsItsRows
  <2>2. QED
    BY <2>1 DEF SweepHoldsItsRows, Lapsed, MayRequeue, Exhausted
<1>3. IdleKeepsNothing'
  BY DEF IdleKeepsNothing
<1>4. QED BY <1>1, <1>2, <1>3

\* A sweep that ends, by commit or rollback, changes only rows it had locked,
\* and releases them.
LEMMA SweepEndKeepsTransactions ==
  ASSUME TypeOK, TransactionsInv, NEW s \in Sweepers, SweepEnds(s),
         \A r \in Runs : row_lock[r] # s =>
           /\ status'[r] = status[r]
           /\ lease'[r] = lease[r]
           /\ claim_attempts'[r] = claim_attempts[r]
  PROVE  TransactionsInv'
<1> USE QueueAssumption
        DEF QueueAssumption, TypeOK, TransactionsInv, SweepEnds, Unlock, claim_vars
<1>1. ClaimHoldsItsRows'
  BY DEF ClaimHoldsItsRows
<1>2. SweepHoldsItsRows'
  BY DEF SweepHoldsItsRows, Lapsed, MayRequeue, Exhausted
<1>3. IdleKeepsNothing'
  BY DEF IdleKeepsNothing
<1>4. QED BY <1>1, <1>2, <1>3

\* A sweep updates a row only after taking its lock and finding, on the row's
\* latest version, that its WHERE still holds.
LEMMA SweepRowKeepsTransactions ==
  ASSUME TypeOK, TransactionsInv, NEW s \in Sweepers, NEW r \in Runs,
         SweepRequeueRow(s, r) \/ SweepLoseRow(s, r)
  PROVE  TransactionsInv'
<1> USE QueueAssumption
        DEF QueueAssumption, TypeOK, TransactionsInv, SweepRequeueRow, SweepLoseRow,
            Unlocked, row_vars, claim_vars
<1>1. ClaimHoldsItsRows'
  BY DEF ClaimHoldsItsRows
<1>2. SweepHoldsItsRows'
  BY DEF SweepHoldsItsRows, ToRequeue, ToLose, Lapsed, MayRequeue, Exhausted
<1>3. IdleKeepsNothing'
  BY DEF IdleKeepsNothing
<1>4. QED BY <1>1, <1>2, <1>3

\* A claim that is rolled back, answered or forgotten writes no row.
LEMMA ClaimEndKeepsTransactions ==
  ASSUME TypeOK, TransactionsInv, NEW w \in Workers,
         claim_step' = [claim_step EXCEPT ![w] = "idle"],
         claim_ids' = [claim_ids EXCEPT ![w] = {}],
         row_lock' = Unlock(w) \/ UNCHANGED row_lock,
         UNCHANGED <<row_vars, sweep_vars>>
  PROVE  TransactionsInv'
<1> USE QueueAssumption
        DEF QueueAssumption, TypeOK, TransactionsInv, Unlock, row_vars, sweep_vars
<1>1. ClaimHoldsItsRows'
  BY DEF ClaimHoldsItsRows
<1>2. SweepHoldsItsRows'
  BY DEF SweepHoldsItsRows, Lapsed, MayRequeue, Exhausted
<1>3. IdleKeepsNothing'
  BY DEF IdleKeepsNothing
<1>4. QED BY <1>1, <1>2, <1>3

LEMMA TransactionsStep == TypeOK /\ TransactionsInv /\ [Next]_vars => TransactionsInv'
<1> SUFFICES ASSUME TypeOK, TransactionsInv, [Next]_vars PROVE TransactionsInv'
  OBVIOUS
<1> USE QueueAssumption DEF QueueAssumption
<1>1. ASSUME NEW w \in Workers, ClaimSelect(w) PROVE TransactionsInv'
  BY <1>1, ClaimSelectKeepsTransactions
<1>2. ASSUME NEW w \in Workers, ClaimCommit(w) PROVE TransactionsInv'
  BY <1>2, ClaimCommitKeepsTransactions
<1>3. ASSUME NEW w \in Workers, ClaimAbort(w) \/ ClaimReply(w) \/ ClaimReplyLost(w)
      PROVE  TransactionsInv'
  BY <1>3, ClaimEndKeepsTransactions DEF ClaimAbort, ClaimReply, ClaimReplyLost
<1>4. ASSUME NEW w \in Workers,
             WorkerCrash(w) \/ \E r \in Runs : RenewRefused(w, r)
      PROVE  TransactionsInv'
  BY <1>4, TransactionsUnchanged
     DEF WorkerCrash, RenewRefused, row_vars, claim_vars, sweep_vars
<1>5. ASSUME NEW w \in Workers, NEW r \in Runs, RenewLease(w, r)
      PROVE  TransactionsInv'
  BY <1>5
     DEF TypeOK, TransactionsInv, ClaimHoldsItsRows, SweepHoldsItsRows,
         IdleKeepsNothing, Lapsed, MayRequeue, Exhausted,
         RenewLease, SetStatus, RenewedSince, Unlocked, claim_vars
<1>6. ASSUME NEW w \in Workers, NEW r \in Runs, NEW st \in FinishStatuses,
             FinishRun(w, r, st)
      PROVE  TransactionsInv'
  BY <1>6, SetStatusKeepsTransactions DEF FinishRun
<1>7. ASSUME NEW r \in Runs, NEW st \in PatchStatuses, UpdateRun(r, st)
      PROVE  TransactionsInv'
  BY <1>7, SetStatusKeepsTransactions DEF UpdateRun
<1>8. ASSUME NEW r \in Runs, CancelRun(r) PROVE TransactionsInv'
  BY <1>8, SetStatusKeepsTransactions DEF CancelRun
<1>9. ASSUME NEW r \in Runs, NEW st \in EnqueueStatuses, EnqueueRun(r, st)
      PROVE  TransactionsInv'
  BY <1>9
     DEF TypeOK, TransactionsInv, ClaimHoldsItsRows, SweepHoldsItsRows,
         IdleKeepsNothing, Lapsed, MayRequeue, Exhausted,
         EnqueueRun, SetStatus, Leasable, claim_vars, sweep_vars
<1>10. ASSUME NEW r \in Runs, Lapse(r) PROVE TransactionsInv'
  BY <1>10
     DEF TypeOK, TransactionsInv, ClaimHoldsItsRows, SweepHoldsItsRows,
         IdleKeepsNothing, Lapsed, MayRequeue, Exhausted,
         Lapse, claim_vars, sweep_vars
<1>11. ASSUME NEW s \in Sweepers, SweepBegin(s) \/ SweepNextStatement(s)
       PROVE  TransactionsInv'
  BY <1>11
     DEF TypeOK, TransactionsInv, ClaimHoldsItsRows, SweepHoldsItsRows,
         IdleKeepsNothing, Lapsed, MayRequeue, Exhausted,
         SweepBegin, SweepNextStatement, row_vars, claim_vars
<1>12. ASSUME NEW s \in Sweepers, SweepCommit(s) PROVE TransactionsInv'
  BY <1>12, SweepEndKeepsTransactions
     DEF TypeOK, TransactionsInv, SweepHoldsItsRows, SweepCommit
<1>13. ASSUME NEW s \in Sweepers, SweepAbort(s) \/ SweepDeadlockVictim(s)
       PROVE  TransactionsInv'
  BY <1>13, SweepEndKeepsTransactions DEF SweepAbort, SweepDeadlockVictim, row_vars
<1>14. ASSUME NEW s \in Sweepers, NEW r \in Runs,
              SweepRequeueRow(s, r) \/ SweepLoseRow(s, r)
       PROVE  TransactionsInv'
  BY <1>14, SweepRowKeepsTransactions
<1>15. CASE UNCHANGED vars
  BY <1>15, TransactionsUnchanged DEF vars, row_vars, claim_vars, sweep_vars
<1>16. QED
  BY <1>1, <1>2, <1>3, <1>4, <1>5, <1>6, <1>7, <1>8, <1>9, <1>10, <1>11, <1>12,
     <1>13, <1>14, <1>15
     DEF Next, Client, Operator, Sweep

\* Every uncommitted write is to a row its transaction has locked, and the row
\* is still what the transaction saw when it decided to write it.
THEOREM TransactionsOwnTheirRows == Spec => []TransactionsInv
<1>1. TypeOK /\ TransactionsInv /\ [Next]_vars => (TypeOK /\ TransactionsInv)'
  BY TypeStep, TransactionsStep
<1>2. Init => TypeOK /\ TransactionsInv
  BY TypeInit, TransactionsInit
<1>3. QED BY <1>1, <1>2, PTL DEF Spec

\* What every step may rely on: well-formed tables, and transactions that own
\* the rows they are about to write.
THEOREM StepsAreSafe == Spec => []QueueInv
  BY TypeCorrect, TransactionsOwnTheirRows, PTL DEF QueueInv

\* Concurrent workers never claim the same run twice.
THEOREM ClaimsAreDisjoint == Spec => []NoDoubleClaim
<1>1. TransactionsInv => NoDoubleClaim
  BY DEF TransactionsInv, ClaimHoldsItsRows, NoDoubleClaim
<1>2. QED BY <1>1, TransactionsOwnTheirRows, PTL
-----------------------------------------------------------------------------
(* What one step can do to one row.  The properties of rows follow from this  *)
(* case distinction, whichever transaction the step belongs to.               *)

SameRest(r) ==
  claimed_by'[r] = claimed_by[r] /\ lease'[r] = lease[r]
    /\ claim_attempts'[r] = claim_attempts[r]

Untouched(r) ==
  /\ status'[r] = status[r] /\ claimed_by'[r] = claimed_by[r]
  /\ claim_attempts'[r] = claim_attempts[r]
  /\ lease'[r] = lease[r] \/ (lease[r] = "live" /\ lease'[r] = "expired")
Enqueued(r) == status[r] = "absent" /\ status'[r] \in EnqueueStatuses /\ SameRest(r)
Claimed(r) ==
  /\ status[r] = "queued" /\ status'[r] = "claimed"
  /\ claimed_by'[r] \in Keys /\ lease'[r] = "live"
  /\ claim_attempts'[r] = claim_attempts[r]
Renewed(r) ==
  /\ status[r] \in Leasable /\ status'[r] = "running"
  /\ claimed_by'[r] = claimed_by[r] /\ lease'[r] = "live"
  /\ claim_attempts'[r] = claim_attempts[r]
Cancelled(r) == status[r] \in Cancellable /\ status'[r] = "cancelled" /\ SameRest(r)
Patched(r) == status'[r] \in PatchStatuses \cup FinishStatuses /\ SameRest(r)
SweptBack(r) ==
  /\ status[r] \in Leasable /\ lease[r] = "expired" /\ MayRequeue(r)
  /\ status'[r] = "queued" /\ claimed_by'[r] = NULL /\ lease'[r] = NULL
  /\ claim_attempts'[r] = claim_attempts[r] + 1
GivenUp(r) ==
  /\ status[r] \in Leasable /\ lease[r] = "expired" /\ Exhausted(r)
  /\ status'[r] = "lost" /\ SameRest(r)

RowEffect(r) ==
  \/ Untouched(r) \/ Enqueued(r) \/ Claimed(r) \/ Renewed(r)
  \/ Cancelled(r) \/ Patched(r) \/ SweptBack(r) \/ GivenUp(r)

LEMMA UntouchedRows ==
  ASSUME UNCHANGED row_vars, NEW r \in Runs
  PROVE  RowEffect(r)
  BY DEF row_vars, RowEffect, Untouched

LEMMA RowEffects ==
  ASSUME TypeOK, TransactionsInv, [Next]_vars, NEW r \in Runs
  PROVE  RowEffect(r)
<1> USE QueueAssumption DEF QueueAssumption, TypeOK
<1>1. ASSUME NEW w \in Workers, ClaimCommit(w) PROVE RowEffect(r)
  <2>1. CASE r \in claim_ids[w]
    <3>1. status[r] = "queued"
      BY <1>1, <2>1 DEF TransactionsInv, ClaimHoldsItsRows, ClaimCommit
    <3>2. QED
      BY <1>1, <2>1, <3>1 DEF ClaimCommit, RowEffect, Claimed
  <2>2. CASE r \notin claim_ids[w]
    BY <1>1, <2>2 DEF ClaimCommit, RowEffect, Untouched
  <2>3. QED BY <2>1, <2>2
<1>2. ASSUME NEW w \in Workers,
             ClaimSelect(w) \/ ClaimAbort(w) \/ ClaimReply(w) \/ ClaimReplyLost(w)
               \/ WorkerCrash(w) \/ \E q \in Runs : RenewRefused(w, q)
      PROVE  RowEffect(r)
  BY <1>2, UntouchedRows
     DEF ClaimSelect, ClaimAbort, ClaimReply, ClaimReplyLost, WorkerCrash, RenewRefused
<1>3. ASSUME NEW w \in Workers, NEW q \in Runs, RenewLease(w, q) PROVE RowEffect(r)
  BY <1>3 DEF RenewLease, SetStatus, RowEffect, Untouched, Renewed
<1>4. ASSUME NEW w \in Workers, NEW q \in Runs, NEW st \in FinishStatuses,
             FinishRun(w, q, st)
      PROVE  RowEffect(r)
  BY <1>4 DEF FinishRun, SetStatus, RowEffect, Untouched, Patched, SameRest
<1>5. ASSUME NEW q \in Runs, NEW st \in PatchStatuses, UpdateRun(q, st)
      PROVE  RowEffect(r)
  BY <1>5 DEF UpdateRun, SetStatus, RowEffect, Untouched, Patched, SameRest
<1>6. ASSUME NEW q \in Runs, NEW st \in EnqueueStatuses, EnqueueRun(q, st)
      PROVE  RowEffect(r)
  BY <1>6 DEF EnqueueRun, SetStatus, RowEffect, Untouched, Enqueued, SameRest
<1>7. ASSUME NEW q \in Runs, CancelRun(q) PROVE RowEffect(r)
  BY <1>7 DEF CancelRun, SetStatus, RowEffect, Untouched, Cancelled, SameRest
<1>8. ASSUME NEW q \in Runs, Lapse(q) PROVE RowEffect(r)
  BY <1>8 DEF Lapse, RowEffect, Untouched
<1>9. ASSUME NEW s \in Sweepers, SweepCommit(s) PROVE RowEffect(r)
  <2>1. CASE r \in requeued[s]
    <3>1. Lapsed(s, r) /\ MayRequeue(r)
      BY <2>1 DEF TransactionsInv, SweepHoldsItsRows
    <3>2. QED
      BY <1>9, <2>1, <3>1 DEF SweepCommit, RowEffect, SweptBack, MayRequeue, Lapsed
  <2>2. CASE r \in lost[s] \ requeued[s]
    <3>1. Lapsed(s, r) /\ Exhausted(r)
      BY <2>2 DEF TransactionsInv, SweepHoldsItsRows
    <3>2. QED
      BY <1>9, <2>2, <3>1 DEF SweepCommit, RowEffect, GivenUp, SameRest, Exhausted, Lapsed
  <2>3. CASE r \notin requeued[s] \cup lost[s]
    BY <1>9, <2>3 DEF SweepCommit, RowEffect, Untouched
  <2>4. QED BY <2>1, <2>2, <2>3
<1>10. ASSUME NEW s \in Sweepers,
              SweepBegin(s) \/ SweepNextStatement(s) \/ SweepAbort(s)
                \/ SweepDeadlockVictim(s)
                \/ \E q \in Runs : SweepRequeueRow(s, q) \/ SweepLoseRow(s, q)
       PROVE  RowEffect(r)
  BY <1>10, UntouchedRows
     DEF SweepBegin, SweepNextStatement, SweepAbort, SweepDeadlockVictim,
         SweepRequeueRow, SweepLoseRow, row_vars
<1>11. CASE UNCHANGED vars
  BY <1>11, UntouchedRows DEF vars
<1>12. QED
  BY <1>1, <1>2, <1>3, <1>4, <1>5, <1>6, <1>7, <1>8, <1>9, <1>10, <1>11
     DEF Next, Client, Operator, Sweep
-----------------------------------------------------------------------------
(* The properties of rows. *)

\* An attempt is counted exactly when a lapsed claim goes back to the queue.
THEOREM AttemptsCountLapses == Spec => AttemptCountsOneLapse
<1> DEFINE A == \A r \in Runs : claim_attempts'[r] # claim_attempts[r] =>
                  /\ claim_attempts'[r] = claim_attempts[r] + 1
                  /\ status[r] \in Leasable /\ lease[r] = "expired"
                  /\ status'[r] = "queued" /\ claimed_by'[r] = NULL /\ lease'[r] = NULL
<1>1. TypeOK /\ TransactionsInv /\ [Next]_vars => A
  BY RowEffects DEF RowEffect, Untouched, Enqueued, Claimed, Renewed, Cancelled,
                    Patched, SweptBack, GivenUp, SameRest
<1>2. TypeOK /\ TransactionsInv /\ [Next]_vars => [A]_vars
  BY <1>1
<1>3. QED
  BY <1>2, TypeCorrect, TransactionsOwnTheirRows, PTL DEF Spec, AttemptCountsOneLapse

\* A finished, cancelled or lost run comes back only by a PATCH.
THEOREM FinishedIsFinal == Spec => FinishedStaysFinished
<1> DEFINE A == \A r \in Runs : status[r] \in RunStatus \ (Leasable \cup {"queued"}) =>
                  status'[r] \in {status[r]} \cup PatchStatuses \cup FinishStatuses
<1>1. TypeOK /\ TransactionsInv /\ [Next]_vars => A
  BY RowEffects DEF RowEffect, Untouched, Enqueued, Claimed, Renewed, Cancelled,
                    Patched, SweptBack, GivenUp, SameRest, RunStatus, Leasable,
                    Cancellable
<1>2. TypeOK /\ TransactionsInv /\ [Next]_vars => [A]_vars
  BY <1>1
<1>3. QED
  BY <1>2, TypeCorrect, TransactionsOwnTheirRows, PTL DEF Spec, FinishedStaysFinished

\* No sweep takes a run away from a claimer whose lease is still good.
THEOREM LiveLeasesAreSafe == Spec => LiveLeaseIsSafe
<1> DEFINE A == \A r \in Runs :
                  status[r] \in Leasable /\ lease[r] = "live" /\ status'[r] # status[r] =>
                    status'[r] \in {"running", "cancelled"} \cup PatchStatuses
                                     \cup FinishStatuses
<1>1. TypeOK /\ TransactionsInv /\ [Next]_vars => A
  BY RowEffects DEF RowEffect, Untouched, Enqueued, Claimed, Renewed, Cancelled,
                    Patched, SweptBack, GivenUp, SameRest, Leasable
<1>2. TypeOK /\ TransactionsInv /\ [Next]_vars => [A]_vars
  BY <1>1
<1>3. QED
  BY <1>2, TypeCorrect, TransactionsOwnTheirRows, PTL DEF Spec, LiveLeaseIsSafe

\* The sweeps give a run up only when its attempts are used up.
THEOREM LostIsExhausted == Spec => []LostOnlyWhenExhausted
<1>1. Init => LostOnlyWhenExhausted
  BY QueueAssumption DEF QueueAssumption, Init, LostOnlyWhenExhausted
<1>2. TypeOK /\ TransactionsInv /\ LostOnlyWhenExhausted /\ [Next]_vars
        => LostOnlyWhenExhausted'
  <2> SUFFICES ASSUME TypeOK, TransactionsInv, LostOnlyWhenExhausted, [Next]_vars,
                      NEW r \in Runs
               PROVE  /\ claim_attempts'[r] < MaxAttempts
                      /\ status'[r] = "lost"
                           /\ "lost" \notin EnqueueStatuses \cup PatchStatuses \cup FinishStatuses
                           => claim_attempts'[r] + 1 = MaxAttempts
    BY DEF LostOnlyWhenExhausted
  <2> USE QueueAssumption
          DEF QueueAssumption, TypeOK, LostOnlyWhenExhausted, SameRest
  <2>1. RowEffect(r)
    BY RowEffects
  <2>2. CASE Untouched(r) \/ Enqueued(r) \/ Claimed(r) \/ Renewed(r) \/ Cancelled(r)
               \/ Patched(r)
    BY <2>2 DEF Untouched, Enqueued, Claimed, Renewed, Cancelled, Patched
  <2>3. CASE SweptBack(r)
    BY <2>3 DEF SweptBack, MayRequeue
  <2>4. CASE GivenUp(r)
    BY <2>4 DEF GivenUp, Exhausted
  <2>5. QED BY <2>1, <2>2, <2>3, <2>4 DEF RowEffect
<1>3. QED BY <1>1, <1>2, TypeCorrect, TransactionsOwnTheirRows, PTL DEF Spec

\* If statuses are not set to claimed or running by hand, such a run has a
\* claimer and a lease.
THEOREM LeasedHasLease == Spec => []LeasedRunsHaveLease
<1>1. Init => LeasedRunsHaveLease
  BY DEF Init, LeasedRunsHaveLease, Leasable
<1>2. TypeOK /\ TransactionsInv /\ LeasedRunsHaveLease /\ [Next]_vars
        => LeasedRunsHaveLease'
  <2> SUFFICES ASSUME TypeOK, TransactionsInv, LeasedRunsHaveLease, [Next]_vars,
                      (EnqueueStatuses \cup PatchStatuses \cup FinishStatuses)
                        \cap Leasable = {},
                      NEW r \in Runs, status'[r] \in Leasable
               PROVE  claimed_by'[r] # NULL /\ lease'[r] # NULL
    BY DEF LeasedRunsHaveLease
  <2> USE QueueAssumption DEF QueueAssumption, LeasedRunsHaveLease, SameRest
  <2>1. RowEffect(r)
    BY RowEffects
  <2>2. CASE Untouched(r) \/ Claimed(r) \/ Renewed(r)
    BY <2>2 DEF Untouched, Claimed, Renewed
  <2>3. CASE Enqueued(r) \/ Cancelled(r) \/ Patched(r) \/ SweptBack(r) \/ GivenUp(r)
    BY <2>3 DEF Enqueued, Cancelled, Patched, SweptBack, GivenUp, Leasable
  <2>4. QED BY <2>1, <2>2, <2>3 DEF RowEffect
<1>3. QED BY <1>1, <1>2, TypeCorrect, TransactionsOwnTheirRows, PTL DEF Spec
-----------------------------------------------------------------------------
(* RunQueue implements RunLifecycle: the committed columns change as if every *)
(* operation were one atomic step.                                            *)

LEMMA LifecycleStutters ==
  ASSUME UNCHANGED row_vars
  PROVE  UNCHANGED Lifecycle!vars
  BY DEF row_vars, Lifecycle!vars

\* The commit of a claim is the abstract claim of its batch.
LEMMA ClaimCommitIsClaim ==
  ASSUME TypeOK, TransactionsInv, NEW w \in Workers, ClaimCommit(w)
  PROVE  Lifecycle!Claim(claim_ids[w], KeyOf[w])
  BY DEF TransactionsInv, ClaimHoldsItsRows, ClaimCommit, Lifecycle!Claim

\* The commit of a sweep is the abstract sweep of the rows it updated.
LEMMA SweepCommitIsSweep ==
  ASSUME TypeOK, TransactionsInv, NEW s \in Sweepers, SweepCommit(s)
  PROVE  Lifecycle!Sweep(requeued[s], lost[s])
<1> USE QueueAssumption DEF QueueAssumption, TypeOK
<1>1. \A r \in requeued[s] : Lapsed(s, r) /\ MayRequeue(r)
  BY DEF TransactionsInv, SweepHoldsItsRows
<1>2. \A r \in lost[s] : Lapsed(s, r) /\ Exhausted(r)
  BY DEF TransactionsInv, SweepHoldsItsRows
<1>3. requeued[s] \cap lost[s] = {}
  BY <1>1, <1>2 DEF MayRequeue, Exhausted
<1>4. QED
  BY <1>1, <1>2, <1>3
     DEF SweepCommit, Lifecycle!Sweep, Lifecycle!Leasable, Leasable, Lapsed, MayRequeue, Exhausted

LEMMA LifecycleStep ==
  ASSUME TypeOK, TransactionsInv, [Next]_vars
  PROVE  [Lifecycle!Next]_(Lifecycle!vars)
<1> USE QueueAssumption DEF QueueAssumption, TypeOK
<1>1. ASSUME NEW w \in Workers, ClaimCommit(w) PROVE Lifecycle!Next
  <2>1. claim_ids[w] \in SUBSET Runs /\ KeyOf[w] \in Keys
    OBVIOUS
  <2>2. QED BY <1>1, <2>1, ClaimCommitIsClaim DEF Lifecycle!Next
<1>2. ASSUME NEW s \in Sweepers, SweepCommit(s) PROVE Lifecycle!Next
  <2>1. requeued[s] \in SUBSET Runs /\ lost[s] \in SUBSET Runs
    OBVIOUS
  <2>2. QED BY <1>2, <2>1, SweepCommitIsSweep DEF Lifecycle!Next
<1>3. ASSUME NEW w \in Workers, NEW r \in Runs, RenewLease(w, r) PROVE Lifecycle!Next
  BY <1>3 DEF RenewLease, SetStatus, Leasable, Lifecycle!Leasable, Lifecycle!Renew,
              Lifecycle!Next
<1>4. ASSUME NEW w \in Workers, NEW r \in Runs, NEW st \in FinishStatuses,
             FinishRun(w, r, st)
      PROVE  Lifecycle!Next
  <2>1. Lifecycle!Update(r, st)
    BY <1>4 DEF FinishRun, SetStatus, Lifecycle!Update
  <2>2. QED BY <2>1 DEF Lifecycle!Next, Lifecycle!RunStatus, RunStatus
<1>5. ASSUME NEW r \in Runs, NEW st \in PatchStatuses, UpdateRun(r, st)
      PROVE  Lifecycle!Next
  <2>1. Lifecycle!Update(r, st)
    BY <1>5 DEF UpdateRun, SetStatus, Lifecycle!Update
  <2>2. QED BY <2>1 DEF Lifecycle!Next, Lifecycle!RunStatus, RunStatus
<1>6. ASSUME NEW r \in Runs, NEW st \in EnqueueStatuses, EnqueueRun(r, st)
      PROVE  Lifecycle!Next
  <2>1. Lifecycle!Enqueue(r, st)
    BY <1>6 DEF EnqueueRun, SetStatus, Lifecycle!Enqueue
  <2>2. QED BY <2>1 DEF Lifecycle!Next, Lifecycle!RunStatus, RunStatus
<1>7. ASSUME NEW r \in Runs, CancelRun(r) PROVE Lifecycle!Next
  BY <1>7 DEF CancelRun, SetStatus, Cancellable, Lifecycle!Cancellable,
              Lifecycle!Cancel, Lifecycle!Next
<1>8. ASSUME NEW r \in Runs, Lapse(r) PROVE Lifecycle!Next
  BY <1>8 DEF Lapse, Lifecycle!Lapse, Lifecycle!Next
<1>9. ASSUME NEW w \in Workers,
             ClaimSelect(w) \/ ClaimAbort(w) \/ ClaimReply(w) \/ ClaimReplyLost(w)
               \/ WorkerCrash(w) \/ \E r \in Runs : RenewRefused(w, r)
      PROVE  UNCHANGED Lifecycle!vars
  BY <1>9, LifecycleStutters
     DEF ClaimSelect, ClaimAbort, ClaimReply, ClaimReplyLost, WorkerCrash, RenewRefused
<1>10. ASSUME NEW s \in Sweepers,
              SweepBegin(s) \/ SweepNextStatement(s) \/ SweepAbort(s)
                \/ SweepDeadlockVictim(s)
                \/ \E r \in Runs : SweepRequeueRow(s, r) \/ SweepLoseRow(s, r)
       PROVE  UNCHANGED Lifecycle!vars
  BY <1>10, LifecycleStutters
     DEF SweepBegin, SweepNextStatement, SweepAbort, SweepDeadlockVictim,
         SweepRequeueRow, SweepLoseRow
<1>11. CASE UNCHANGED vars
  BY <1>11, LifecycleStutters DEF vars
<1>12. QED
  BY <1>1, <1>2, <1>3, <1>4, <1>5, <1>6, <1>7, <1>8, <1>9, <1>10, <1>11
     DEF Next, Client, Operator, Sweep

\* To its clients the queue behaves as RunLifecycle, one atomic step at a time.
THEOREM QueueImplementsLifecycle == Spec => ImplementsLifecycle
<1>1. Init => Lifecycle!Init
  BY DEF Init, Lifecycle!Init
<1>2. TypeOK /\ TransactionsInv /\ [Next]_vars => [Lifecycle!Next]_(Lifecycle!vars)
  BY LifecycleStep
<1>3. QED
  BY <1>1, <1>2, TypeCorrect, TransactionsOwnTheirRows, PTL
     DEF Spec, ImplementsLifecycle, Lifecycle!Spec
-----------------------------------------------------------------------------
(* Dependencies. *)

\* The history variable misses no completion.
CompletionsAreRemembered ==
  \A r \in Runs : status[r] = "completed" => r \in ever_completed

\* Every step keeps the history or adds to it, and adds what it completes.
LEMMA HistoryGrows ==
  ASSUME TypeOK, CompletionsAreRemembered, [Next]_vars
  PROVE  ever_completed \subseteq ever_completed' /\ CompletionsAreRemembered'
<1> USE DEF TypeOK, CompletionsAreRemembered
<1>1. ASSUME NEW r \in Runs, NEW st, SetStatus(r, st)
      PROVE  ever_completed \subseteq ever_completed' /\ CompletionsAreRemembered'
  BY <1>1 DEF SetStatus
<1>2. ASSUME NEW w \in Workers, Client(w)
      PROVE  ever_completed \subseteq ever_completed' /\ CompletionsAreRemembered'
  <2>1. CASE \E r \in Runs : RenewLease(w, r) \/ \E st \in FinishStatuses : FinishRun(w, r, st)
    BY <1>1, <2>1 DEF RenewLease, FinishRun
  <2>2. CASE ClaimCommit(w)
    BY <2>2 DEF ClaimCommit
  <2>3. CASE ClaimSelect(w) \/ ClaimAbort(w) \/ ClaimReply(w) \/ ClaimReplyLost(w)
               \/ WorkerCrash(w) \/ \E r \in Runs : RenewRefused(w, r)
    BY <2>3 DEF ClaimSelect, ClaimAbort, ClaimReply, ClaimReplyLost, WorkerCrash,
                RenewRefused, row_vars
  <2>4. QED BY <1>2, <2>1, <2>2, <2>3 DEF Client
<1>3. ASSUME NEW r \in Runs, Operator(r) \/ Lapse(r)
      PROVE  ever_completed \subseteq ever_completed' /\ CompletionsAreRemembered'
  BY <1>1, <1>3 DEF Operator, EnqueueRun, UpdateRun, CancelRun, Lapse
<1>4. ASSUME NEW s \in Sweepers, Sweep(s)
      PROVE  ever_completed \subseteq ever_completed' /\ CompletionsAreRemembered'
  <2>1. CASE SweepCommit(s)
    BY <2>1 DEF SweepCommit, SweepEnds
  <2>2. CASE ~SweepCommit(s)
    BY <1>4, <2>2 DEF Sweep, SweepBegin, SweepNextStatement, SweepAbort,
                      SweepDeadlockVictim, SweepRequeueRow, SweepLoseRow, SweepEnds, row_vars
  <2>3. QED BY <2>1, <2>2
<1>5. CASE UNCHANGED vars
  BY <1>5 DEF vars, row_vars
<1>6. QED BY <1>2, <1>3, <1>4, <1>5 DEF Next

\* A worker's runs are the ones it had, or the ones its SELECT has just found
\* ready.
LEMMA WorkersRunsStep ==
  ASSUME TypeOK, [Next]_vars, NEW w \in Workers
  PROVE  claim_ids'[w] \cup holds'[w] \subseteq
           claim_ids[w] \cup holds[w] \cup {r \in Runs : Ready(r)}
<1> USE DEF TypeOK
<1>1. ASSUME NEW v \in Workers, ClaimSelect(v)
      PROVE  claim_ids'[w] \cup holds'[w] \subseteq
               claim_ids[w] \cup holds[w] \cup {r \in Runs : Ready(r)}
  <2>1. Packed(v) \subseteq {r \in Runs : Ready(r)}
    BY PackedAreCandidates DEF Candidates
  <2>2. QED BY <1>1, <2>1 DEF ClaimSelect
<1>2. ASSUME NEW v \in Workers, Client(v), ~ClaimSelect(v)
      PROVE  claim_ids'[w] \cup holds'[w] \subseteq claim_ids[w] \cup holds[w]
  BY <1>2 DEF Client, ClaimCommit, ClaimAbort, ClaimReply, ClaimReplyLost, WorkerCrash,
              RenewLease, RenewRefused, FinishRun, claim_vars
<1>3. ASSUME NEW r \in Runs, Operator(r) \/ Lapse(r)
      PROVE  claim_ids'[w] \cup holds'[w] \subseteq claim_ids[w] \cup holds[w]
  BY <1>3 DEF Operator, EnqueueRun, UpdateRun, CancelRun, Lapse, claim_vars
<1>4. ASSUME NEW s \in Sweepers, Sweep(s)
      PROVE  claim_ids'[w] \cup holds'[w] \subseteq claim_ids[w] \cup holds[w]
  BY <1>4 DEF Sweep, SweepBegin, SweepNextStatement, SweepAbort, SweepCommit,
              SweepDeadlockVictim, SweepRequeueRow, SweepLoseRow, SweepEnds, claim_vars
<1>5. CASE UNCHANGED vars
  BY <1>5 DEF vars, claim_vars
<1>6. QED BY <1>1, <1>2, <1>3, <1>4, <1>5 DEF Next

\* Nobody works on a run before its dependencies have been completed.
THEOREM DependenciesComeFirst == Spec => []DependenciesFirst
<1> DEFINE Inv == CompletionsAreRemembered /\ DependenciesFirst
<1>1. Init => Inv
  BY DEF Init, CompletionsAreRemembered, DependenciesFirst
<1>2. TypeOK /\ Inv /\ [Next]_vars => Inv'
  <2> SUFFICES ASSUME TypeOK, Inv, [Next]_vars PROVE Inv'
    OBVIOUS
  <2>1. ever_completed \subseteq ever_completed' /\ CompletionsAreRemembered'
    BY HistoryGrows
  <2>2. ASSUME NEW r \in Runs, Ready(r) PROVE DependsOn[r] \subseteq ever_completed
    BY <2>2 DEF Ready, CompletionsAreRemembered
  <2>3. ASSUME NEW w \in Workers, NEW r \in claim_ids'[w] \cup holds'[w]
        PROVE  DependsOn[r] \subseteq ever_completed
    BY <2>2, <2>3, WorkersRunsStep DEF DependenciesFirst
  <2>4. DependenciesFirst'
    BY <2>1, <2>3 DEF DependenciesFirst
  <2>5. QED BY <2>1, <2>4
<1>3. QED BY <1>1, <1>2, TypeCorrect, PTL DEF Spec
-----------------------------------------------------------------------------
(* Duplicate work. *)

\* What bounds the claimants of a run: its requeues, less the claim it awaits.
Awaiting(r) == IF status[r] \in {"queued", "absent"} THEN 1 ELSE 0

LEMMA OneMore ==
  ASSUME NEW S, IsFiniteSet(S), NEW x, NEW T, T \subseteq S \cup {x}
  PROVE  Cardinality(T) \in Nat /\ Cardinality(T) <= Cardinality(S) + 1
<1>1. /\ IsFiniteSet(S \cup {x})
      /\ Cardinality(S \cup {x}) = IF x \in S THEN Cardinality(S) ELSE Cardinality(S) + 1
  BY FS_AddElement
<1>2. IsFiniteSet(T) /\ Cardinality(T) <= Cardinality(S \cup {x})
  BY <1>1, FS_Subset
<1>3. Cardinality(S) \in Nat /\ Cardinality(T) \in Nat
  BY <1>2, FS_CardinalityType
<1>4. QED BY <1>1, <1>2, <1>3

LEMMA ClaimantsAreFinite ==
  ASSUME NEW r
  PROVE  IsFiniteSet(Claimants(r)) /\ Cardinality(Claimants(r)) \in Nat
  BY QueueAssumption, FS_Subset, FS_CardinalityType DEF QueueAssumption, Claimants

\* Claimants only come from a claim's commit, one per commit, and the run was
\* queued until then.
LEMMA ClaimantsStep ==
  ASSUME TypeOK, TransactionsInv, [Next]_vars, NEW r \in Runs
  PROVE  \/ Claimants(r)' \subseteq Claimants(r)
         \/ \E w \in Workers : /\ Claimants(r)' \subseteq Claimants(r) \cup {w}
                               /\ Claimed(r)
<1> USE DEF TypeOK, Claimants
<1>1. ASSUME NEW w \in Workers, ClaimCommit(w), r \in claim_ids[w]
      PROVE  Claimants(r)' \subseteq Claimants(r) \cup {w} /\ Claimed(r)
  <2>1. status[r] = "queued"
    BY <1>1 DEF TransactionsInv, ClaimHoldsItsRows, ClaimCommit
  <2>2. Claimed(r)
    BY <1>1, <2>1, QueueAssumption DEF QueueAssumption, ClaimCommit, Claimed
  <2>3. Claimants(r)' \subseteq Claimants(r) \cup {w}
    BY <1>1 DEF ClaimCommit
  <2>4. QED BY <2>2, <2>3
<1>2. ASSUME NEW w \in Workers, ClaimCommit(w), r \notin claim_ids[w]
      PROVE  Claimants(r)' \subseteq Claimants(r)
  BY <1>2 DEF ClaimCommit
<1>3. ASSUME NEW w \in Workers, Client(w), ~ClaimCommit(w)
      PROVE  Claimants(r)' \subseteq Claimants(r)
  <2>1. CASE ClaimSelect(w) \/ ClaimAbort(w) \/ ClaimReplyLost(w)
    BY <2>1 DEF ClaimSelect, ClaimAbort, ClaimReplyLost
  <2>2. CASE ClaimReply(w)
    BY <2>2 DEF ClaimReply
  <2>3. CASE WorkerCrash(w) \/ \E q \in Runs : RenewLease(w, q) \/ RenewRefused(w, q)
    BY <2>3 DEF WorkerCrash, RenewLease, RenewRefused, claim_vars
  <2>4. CASE \E q \in Runs, st \in FinishStatuses : FinishRun(w, q, st)
    BY <2>4 DEF FinishRun, claim_vars
  <2>5. QED BY <1>3, <2>1, <2>2, <2>3, <2>4 DEF Client
<1>4. ASSUME NEW q \in Runs, Operator(q) \/ Lapse(q)
      PROVE  Claimants(r)' \subseteq Claimants(r)
  BY <1>4 DEF Operator, EnqueueRun, UpdateRun, CancelRun, Lapse, claim_vars
<1>5. ASSUME NEW s \in Sweepers, Sweep(s)
      PROVE  Claimants(r)' \subseteq Claimants(r)
  BY <1>5 DEF Sweep, SweepBegin, SweepNextStatement, SweepAbort, SweepCommit,
              SweepDeadlockVictim, SweepRequeueRow, SweepLoseRow, SweepEnds, claim_vars
<1>6. CASE UNCHANGED vars
  BY <1>6 DEF vars, claim_vars
<1>7. QED BY <1>1, <1>2, <1>3, <1>4, <1>5, <1>6 DEF Next

\* A second worker works on a run only after a sweep has given the run back.
THEOREM DuplicatesNeedRequeues == Spec => []DuplicateWorkNeedsRequeue
<1>1. Init => DuplicateWorkNeedsRequeue
  <2> SUFFICES ASSUME Init, NEW r \in Runs
               PROVE  Cardinality(Claimants(r)) + Awaiting(r) <= claim_attempts[r] + 1
    BY DEF DuplicateWorkNeedsRequeue, Awaiting
  <2>1. Claimants(r) = {}
    BY DEF Init, Claimants
  <2>2. QED BY <2>1, FS_EmptySet DEF Init, Awaiting
<1>2. TypeOK /\ TransactionsInv /\ DuplicateWorkNeedsRequeue /\ [Next]_vars
        => DuplicateWorkNeedsRequeue'
  <2> SUFFICES ASSUME TypeOK, TransactionsInv, DuplicateWorkNeedsRequeue, [Next]_vars,
                      "queued" \notin PatchStatuses \cup FinishStatuses, NEW r \in Runs
               PROVE  Cardinality(Claimants(r)') + Awaiting(r)' <= claim_attempts'[r] + 1
    BY DEF DuplicateWorkNeedsRequeue, Awaiting
  <2> DEFINE Before == Claimants(r)
             After  == Claimants(r)'
  <2>1. /\ Cardinality(Before) + Awaiting(r) <= claim_attempts[r] + 1
        /\ claim_attempts[r] \in Nat
    BY DEF DuplicateWorkNeedsRequeue, Awaiting, TypeOK
  <2>2. IsFiniteSet(Before) /\ Cardinality(Before) \in Nat
    BY ClaimantsAreFinite
  <2>3. RowEffect(r)
    BY RowEffects
  <2>4. CASE After \subseteq Before
    <3>1. Cardinality(After) <= Cardinality(Before) /\ Cardinality(After) \in Nat
      BY <2>2, <2>4, FS_Subset, FS_CardinalityType
    <3>2. Awaiting(r)' + claim_attempts[r] <= Awaiting(r) + claim_attempts'[r]
      BY <2>1, <2>3, QueueAssumption
         DEF QueueAssumption, RowEffect, Untouched, Enqueued, Claimed, Renewed, Cancelled,
             Patched, SweptBack, GivenUp, SameRest, Awaiting, Leasable, RunStatus, TypeOK
    <3>3. claim_attempts'[r] \in Nat
      BY TypeStep DEF TypeOK
    <3>4. QED BY <2>1, <2>2, <3>1, <3>2, <3>3 DEF Awaiting
  <2>5. ASSUME NEW w \in Workers, After \subseteq Before \cup {w}, Claimed(r)
        PROVE  Cardinality(After) + Awaiting(r)' <= claim_attempts'[r] + 1
    <3>1. Cardinality(After) <= Cardinality(Before) + 1 /\ Cardinality(After) \in Nat
      BY <2>2, <2>5, OneMore
    <3>2. Awaiting(r) = 1 /\ Awaiting(r)' = 0 /\ claim_attempts'[r] = claim_attempts[r]
      BY <2>5 DEF Claimed, Awaiting
    <3>3. QED BY <2>1, <2>2, <3>1, <3>2
  <2>6. QED BY <2>4, <2>5, ClaimantsStep
<1>3. QED BY <1>1, <1>2, TypeCorrect, TransactionsOwnTheirRows, PTL DEF Spec
-----------------------------------------------------------------------------
(* Induction over a set of numbers, and recursion over a list.             *)

\* A set of numbers has a least one.
LEMMA LeastExists ==
  ASSUME NEW S \in SUBSET Nat, S # {}
  PROVE  \E m \in S : \A k \in S : m <= k
<1>0. S \in SUBSET Nat /\ S # {}
  OBVIOUS
<1>1. PICK m \in S : \A u \in S : <<u, m>> \notin OpToRel(<, Nat)
  BY <1>0, NatLessThanWellFounded, WFMin, Zenon
<1>2. \A u \in S : ~(u < m)
  BY <1>1, Zenon DEF OpToRel
<1>3. QED
  BY <1>2

\* Induction, over a set of numbers.
LEMMA UpTo ==
  ASSUME NEW S, NEW n \in Nat, 0 \in S, \A k \in 1..n : k - 1 \in S => k \in S
  PROVE  \A k \in 0..n : k \in S
<1> DEFINE bad == (0..n) \ S
<1>1. SUFFICES ASSUME bad # {} PROVE FALSE
  OBVIOUS
<1>2. PICK m \in bad : \A k \in bad : m <= k
  <2>1. bad \in SUBSET Nat
    OBVIOUS
  <2> HIDE DEF bad
  <2>2. QED
    BY <1>1, <2>1, LeastExists
<1>3. m \in 1..n /\ m - 1 \in 0..n /\ m - 1 < m
  BY <1>2
<1>4. m - 1 \in S
  BY <1>2, <1>3
<1>5. QED
  BY <1>2, <1>3, <1>4

\* f lists the values of a recursion over a list: b, and then what G makes of
\* the place and the value before.
Recursion(f, n, V, b, G) ==
  f \in [0..n -> V] /\ f[0] = b /\ \A k \in 1..n : f[k] = G[<<k, f[k - 1]>>]

\* Every recursion over a list defines a function.
LEMMA RecursionExists ==
  ASSUME NEW n \in Nat, NEW V, NEW b \in V, NEW G \in [(1..n) \X V -> V]
  PROVE  \E f : Recursion(f, n, V, b, G)
<1> DEFINE S == {m \in 0..n : \E f \in [0..m -> V] :
                    f[0] = b /\ \A k \in 1..m : f[k] = G[<<k, f[k - 1]>>]}
<1>1. 0 \in S
  <2>1. [k \in 0..0 |-> b] \in [0..0 -> V] /\ [k \in 0..0 |-> b][0] = b /\ 1..0 = {}
    OBVIOUS
  <2> DEFINE f == [k \in 0..0 |-> b]
  <2>2. f \in [0..0 -> V] /\ f[0] = b /\ \A k \in 1..0 : f[k] = G[<<k, f[k - 1]>>]
    BY <2>1
  <2> HIDE DEF f
  <2>3. QED
    BY <2>2
<1>2. ASSUME NEW m \in 1..n, m - 1 \in S PROVE m \in S
  <2>1. PICK f \in [0..(m - 1) -> V] :
          f[0] = b /\ \A k \in 1..(m - 1) : f[k] = G[<<k, f[k - 1]>>]
    BY <1>2
  <2> DEFINE g == [k \in 0..m |-> IF k = m THEN G[<<m, f[m - 1]>>] ELSE f[k]]
  <2>2. f[m - 1] \in V /\ G[<<m, f[m - 1]>>] \in V
    BY <2>1
  <2>3. g \in [0..m -> V]
    BY <2>1, <2>2
  <2>4. g[0] = b
    BY <2>1
  <2>5. ASSUME NEW k \in 1..m PROVE g[k] = G[<<k, g[k - 1]>>]
    <3>1. k - 1 \in 0..(m - 1) /\ k - 1 # m /\ k \in 0..m /\ k - 1 \in 0..m
      OBVIOUS
    <3>2. g[k - 1] = f[k - 1]
      BY <3>1
    <3>3. CASE k = m
      BY <3>1, <3>2, <3>3
    <3>4. CASE k # m
      BY <2>1, <3>1, <3>2, <3>4
    <3>5. QED
      BY <3>3, <3>4
  <2> HIDE DEF g
  <2>6. QED
    BY <2>3, <2>4, <2>5
<1> HIDE DEF S
<1>3. n \in S
  BY <1>1, <1>2, UpTo
<1>4. QED
  BY <1>3 DEF S, Recursion

Ests == Int \cup {NULL}

LEMMA CostIsInt == ASSUME NEW e \in Ests PROVE Cost(e) \in Int
  BY DEF Ests, Cost

PackState == [taken : SUBSET Nat, remaining : Int, exhausted : BOOLEAN]

\* One round of the loop.
Round(k, sofar, ests, session) ==
  IF sofar.exhausted \/ ~Fits(Cost(ests[k]), session, sofar.remaining) THEN sofar
  ELSE [taken     |-> sofar.taken \cup {k},
        remaining |-> sofar.remaining - Cost(ests[k]),
        exhausted |-> sofar.remaining - Cost(ests[k]) <= 0]

\* PackedPrefix is well defined: each entry comes of the one before.
LEMMA PackedRounds ==
  ASSUME NEW ests \in Seq(Ests), NEW session \in Int
  PROVE  /\ PackedPrefix(ests, session) \in [0..Len(ests) -> PackState]
         /\ PackedPrefix(ests, session)[0]
              = [taken |-> {}, remaining |-> session, exhausted |-> FALSE]
         /\ \A k \in 1..Len(ests) :
              PackedPrefix(ests, session)[k]
                = Round(k, PackedPrefix(ests, session)[k - 1], ests, session)
<1> DEFINE n == Len(ests)
           b == [taken |-> {}, remaining |-> session, exhausted |-> FALSE]
           G == [x \in (1..n) \X PackState |-> Round(x[1], x[2], ests, session)]
<1>1. n \in Nat /\ b \in PackState /\ \A k \in 1..n : Cost(ests[k]) \in Int
  BY CostIsInt DEF PackState
<1>2. ASSUME NEW k \in 1..n, NEW v \in PackState PROVE Round(k, v, ests, session) \in PackState
  <2>1. v.taken \in SUBSET Nat /\ v.remaining \in Int /\ k \in Nat /\ Cost(ests[k]) \in Int
    BY <1>1 DEF PackState
  <2>2. QED
    BY <2>1 DEF Round, PackState
<1>3. G \in [(1..n) \X PackState -> PackState]
  BY <1>2
<1> HIDE DEF b
<1>4. PICK f : Recursion(f, n, PackState, b, G)
  <2> HIDE DEF G, n
  <2>1. QED
    BY <1>1, <1>3, RecursionExists
<1>5. f \in [0..n -> PackState] /\ f[0] = b /\ \A k \in 1..n : f[k] = G[<<k, f[k - 1]>>]
  BY <1>4 DEF Recursion
<1>6. \A k \in 1..n : f[k] = Round(k, f[k - 1], ests, session)
  <2>1. ASSUME NEW k \in 1..n PROVE f[k] = Round(k, f[k - 1], ests, session)
    <3>1. k - 1 \in 0..n
      BY <1>1
    <3>2. f[k - 1] \in PackState
      BY <1>5, <3>1
    <3>3. G[<<k, f[k - 1]>>] = Round(k, f[k - 1], ests, session)
      BY <3>2
    <3>4. QED
      BY <1>5, <3>3
  <2>2. QED
    BY <2>1
<1> HIDE DEF G
<1>7. f = [k \in 0..n |-> IF k = 0 THEN b ELSE Round(k, f[k - 1], ests, session)]
  <2> DEFINE h == [k \in 0..n |-> IF k = 0 THEN b ELSE Round(k, f[k - 1], ests, session)]
  <2>1. \A k \in 0..n : h[k] = f[k]
    BY <1>1, <1>5, <1>6
  <2>2. h = [k \in 0..n |-> h[k]] /\ f = [k \in 0..n |-> f[k]]
    BY <1>5
  <2> HIDE DEF h
  <2>3. f = h
    BY <2>1, <2>2
  <2>4. QED
    BY <2>3 DEF h
<1> DEFINE P == PackedPrefix(ests, session)
<1>8. P = [k \in 0..n |-> IF k = 0 THEN b ELSE Round(k, P[k - 1], ests, session)]
  BY <1>7 DEF PackedPrefix, Round, b
<1> HIDE DEF P
<1>9. P[0] = b /\ \A k \in 1..n : P[k] = Round(k, P[k - 1], ests, session)
  BY <1>1, <1>8
<1>10. \A k \in 0..n : P[k] \in PackState
  <2> DEFINE S == {k \in 0..n : P[k] \in PackState}
  <2>1. 0 \in S
    BY <1>1, <1>9
  <2>2. ASSUME NEW k \in 1..n, k - 1 \in S PROVE k \in S
    BY <1>1, <1>2, <1>9, <2>2
  <2> HIDE DEF S
  <2>3. \A k \in 0..n : k \in S
    BY <1>1, <2>1, <2>2, UpTo
  <2>4. QED
    BY <2>3 DEF S
<1>11. P \in [0..n -> PackState]
  BY <1>8, <1>10
<1>12. QED
  BY <1>9, <1>11 DEF P, b

\* Once the session is used up nothing changes any more.
LEMMA ExhaustedStays ==
  ASSUME NEW ests \in Seq(Ests), NEW session \in Int, NEW m \in 0..Len(ests),
         PackedPrefix(ests, session)[m].exhausted
  PROVE  \A k \in m..Len(ests) : PackedPrefix(ests, session)[k] = PackedPrefix(ests, session)[m]
<1> DEFINE n == Len(ests)
           P == PackedPrefix(ests, session)
           S == {k \in 0..n : k >= m => P[k] = P[m]}
<1>1. n \in Nat /\ m \in Nat
  OBVIOUS
<1>2. 0 \in S
  BY <1>1
<1>3. ASSUME NEW k \in 1..n, k - 1 \in S PROVE k \in S
  <2>1. CASE k <= m
    BY <2>1
  <2>2. CASE k > m
    <3>1. P[k - 1] = P[m]
      BY <1>1, <1>3, <2>2
    <3>2. P[k] = Round(k, P[k - 1], ests, session)
      BY PackedRounds
    <3>3. P[k] = P[k - 1]
      BY <3>1, <3>2 DEF Round
    <3>4. QED
      BY <3>1, <3>3
  <2>3. QED
    BY <1>1, <2>1, <2>2
<1> HIDE DEF S
<1>4. \A k \in 0..n : k \in S
  BY <1>1, <1>2, <1>3, UpTo
<1>5. QED
  BY <1>1, <1>4 DEF S

\* Spent is well defined: it adds up what the chosen positions ask for.
LEMMA SpentRounds ==
  ASSUME NEW ests \in Seq(Ests), NEW S
  PROVE  /\ Spent(ests, S) \in [0..Len(ests) -> Int]
         /\ Spent(ests, S)[0] = 0
         /\ \A k \in 1..Len(ests) :
              Spent(ests, S)[k]
                = Spent(ests, S)[k - 1] + (IF k \in S THEN Cost(ests[k]) ELSE 0)
<1> DEFINE n == Len(ests)
           Add(k) == IF k \in S THEN Cost(ests[k]) ELSE 0
           G == [x \in (1..n) \X Int |-> x[2] + Add(x[1])]
<1>1. n \in Nat /\ 0 \in Int /\ \A k \in 1..n : Add(k) \in Int
  BY CostIsInt
<1> HIDE DEF Add
<1>2. G \in [(1..n) \X Int -> Int]
  BY <1>1
<1>3. PICK f : Recursion(f, n, Int, 0, G)
  <2> HIDE DEF G, n
  <2>1. QED
    BY <1>1, <1>2, RecursionExists
<1>4. f \in [0..n -> Int] /\ f[0] = 0 /\ \A k \in 1..n : f[k] = G[<<k, f[k - 1]>>]
  BY <1>3 DEF Recursion
<1>5. \A k \in 1..n : f[k] = f[k - 1] + Add(k)
  <2>1. ASSUME NEW k \in 1..n PROVE f[k] = f[k - 1] + Add(k)
    <3>1. k - 1 \in 0..n
      BY <1>1
    <3>2. f[k - 1] \in Int
      BY <1>4, <3>1
    <3>3. G[<<k, f[k - 1]>>] = f[k - 1] + Add(k)
      BY <3>2
    <3>4. QED
      BY <1>4, <3>3
  <2>2. QED
    BY <2>1
<1> HIDE DEF G
<1>6. f = [k \in 0..n |-> IF k = 0 THEN 0 ELSE f[k - 1] + Add(k)]
  <2> DEFINE h == [k \in 0..n |-> IF k = 0 THEN 0 ELSE f[k - 1] + Add(k)]
  <2>1. \A k \in 0..n : h[k] = f[k]
    BY <1>1, <1>4, <1>5
  <2>2. h = [k \in 0..n |-> h[k]] /\ f = [k \in 0..n |-> f[k]]
    BY <1>4
  <2> HIDE DEF h
  <2>3. f = h
    BY <2>1, <2>2
  <2>4. QED
    BY <2>3 DEF h
<1> DEFINE P == Spent(ests, S)
<1>7. P = [k \in 0..n |-> IF k = 0 THEN 0 ELSE P[k - 1] + Add(k)]
  BY <1>6 DEF Spent, Add
<1> HIDE DEF P
<1>8. P[0] = 0 /\ \A k \in 1..n : P[k] = P[k - 1] + Add(k)
  BY <1>1, <1>7
<1>9. \A k \in 0..n : P[k] \in Int
  <2> DEFINE T == {k \in 0..n : P[k] \in Int}
  <2>1. 0 \in T
    BY <1>1, <1>8
  <2>2. ASSUME NEW k \in 1..n, k - 1 \in T PROVE k \in T
    BY <1>1, <1>8, <2>2
  <2> HIDE DEF T
  <2>3. \A k \in 0..n : k \in T
    BY <1>1, <2>1, <2>2, UpTo
  <2>4. QED
    BY <2>3 DEF T
<1>10. P \in [0..n -> Int]
  BY <1>7, <1>9
<1>11. QED
  BY <1>8, <1>10 DEF P, Add

\* What was spent before position m is spent whatever is taken from there on.
LEMMA SpentBefore ==
  ASSUME NEW ests \in Seq(Ests), NEW S, NEW m \in Nat
  PROVE  \A k \in 0..Len(ests) : k < m => Spent(ests, S \cup {m})[k] = Spent(ests, S)[k]
<1> DEFINE n == Len(ests)
           A == Spent(ests, S)
           B == Spent(ests, S \cup {m})
           T == {k \in 0..n : k < m => B[k] = A[k]}
<1>1. n \in Nat
  OBVIOUS
<1>2. /\ A[0] = 0
      /\ \A k \in 1..n : A[k] = A[k - 1] + (IF k \in S THEN Cost(ests[k]) ELSE 0)
  BY SpentRounds
<1>3. /\ B[0] = 0
      /\ \A k \in 1..n : B[k] = B[k - 1] + (IF k \in S \cup {m} THEN Cost(ests[k]) ELSE 0)
  BY SpentRounds
<1> HIDE DEF A, B
<1>4. 0 \in T
  BY <1>1, <1>2, <1>3
<1>5. ASSUME NEW k \in 1..n, k - 1 \in T PROVE k \in T
  BY <1>1, <1>2, <1>3, <1>5
<1> HIDE DEF T
<1>6. \A k \in 0..n : k \in T
  BY <1>1, <1>4, <1>5, UpTo
<1>7. QED
  BY <1>6 DEF T, A, B

\* After the last chosen position nothing more is spent.
LEMMA SpentAfter ==
  ASSUME NEW ests \in Seq(Ests), NEW m \in 0..Len(ests), NEW S \in SUBSET (1..m)
  PROVE  Spent(ests, S)[Len(ests)] = Spent(ests, S)[m]
<1> DEFINE n == Len(ests)
           A == Spent(ests, S)
           T == {k \in 0..n : k >= m => A[k] = A[m]}
<1>1. n \in Nat /\ m \in Nat
  OBVIOUS
<1>2. /\ A \in [0..n -> Int]
      /\ A[0] = 0
      /\ \A k \in 1..n : A[k] = A[k - 1] + (IF k \in S THEN Cost(ests[k]) ELSE 0)
  BY SpentRounds
<1> HIDE DEF A
<1>3. 0 \in T
  BY <1>1
<1>4. ASSUME NEW k \in 1..n, k - 1 \in T PROVE k \in T
  <2>1. CASE k <= m
    BY <2>1
  <2>2. CASE k > m
    <3>1. k \notin S /\ A[k - 1] = A[m] /\ A[k - 1] \in Int
      BY <1>1, <1>2, <1>4, <2>2
    <3>2. QED
      BY <1>2, <3>1
  <2>3. QED
    BY <1>1, <2>1, <2>2
<1> HIDE DEF T
<1>5. \A k \in 0..n : k \in T
  BY <1>1, <1>3, <1>4, UpTo
<1>6. QED
  BY <1>1, <1>5 DEF T, A

-----------------------------------------------------------------------------
(* The loop.                                                               *)

\* What is left of the session is what the taken runs have not spent, and it
\* has not run out unless the session had no seconds to begin with.
RemainingIsRest ==
  /\ remaining = session_seconds - Spent(candidates, claimed_ids)[next - 1]
  /\ claimed_ids # {} \/ session_seconds >= 0 => remaining >= 0

\* What was passed over in a real session asks for something.
PassedOverCosts ==
  session_seconds >= 0 => \A k \in 1..(next - 1) \ claimed_ids : Cost(candidates[k]) > 0

\* While it runs, the loop is where the recursion is after as many candidates;
\* it ends at the end of the list or where the recursion is exhausted.
FollowsPrefix ==
  LET prefix == PackedPrefix(candidates, session_seconds)[next - 1]
  IN  /\ claimed_ids = prefix.taken
      /\ remaining = prefix.remaining
      /\ running => ~prefix.exhausted
      /\ ~running => next = Len(candidates) + 1 \/ (prefix.exhausted /\ remaining <= 0)

LoopInv ==
  /\ LoopTypeOK
  /\ RemainingIsRest
  /\ PassedOverOnlyWhenUnaffordable
  /\ PassedOverCosts
  /\ FollowsPrefix

LEMMA ListsAreEsts ==
  ASSUME LoopTypeOK
  PROVE  /\ candidates \in Seq(Ests) /\ session_seconds \in Int /\ Len(candidates) \in Nat
         /\ next - 1 \in 0..Len(candidates) /\ next \in Nat
<1>1. Estimates \subseteq Ests /\ Sessions \subseteq Int
  BY PackingAssumption DEF Ests
<1>2. candidates \in Seq(Ests)
  BY <1>1 DEF LoopTypeOK
<1>3. Len(candidates) \in Nat
  BY <1>2
<1>4. QED
  BY <1>1, <1>2, <1>3 DEF LoopTypeOK

LEMMA LoopInvInit == LoopInit => LoopInv
<1> SUFFICES ASSUME LoopInit PROVE LoopInv
  OBVIOUS
<1>1. LoopTypeOK
  <2>1. PICK n \in 0..MaxCandidates : candidates \in [1..n -> Estimates]
    BY DEF LoopInit
  <2>2. candidates \in Seq(Estimates) /\ Len(candidates) \in Nat
    BY <2>1, PackingAssumption
  <2>3. QED
    BY <2>2, PackingAssumption DEF LoopInit, LoopTypeOK
<1>2. candidates \in Seq(Ests) /\ session_seconds \in Int
  BY <1>1, ListsAreEsts
<1>3. next = 1 /\ claimed_ids = {} /\ remaining = session_seconds /\ running = TRUE
  BY DEF LoopInit
<1>4. Spent(candidates, claimed_ids)[next - 1] = 0
  BY <1>2, <1>3, SpentRounds
<1>5. PackedPrefix(candidates, session_seconds)[next - 1]
        = [taken |-> {}, remaining |-> session_seconds, exhausted |-> FALSE]
  BY <1>2, <1>3, PackedRounds
<1>6. RemainingIsRest
  BY <1>2, <1>3, <1>4 DEF RemainingIsRest
<1>7. PassedOverOnlyWhenUnaffordable /\ PassedOverCosts
  BY <1>3 DEF PassedOverOnlyWhenUnaffordable, PassedOverCosts
<1>8. FollowsPrefix
  BY <1>3, <1>5 DEF FollowsPrefix
<1>9. QED
  BY <1>1, <1>6, <1>7, <1>8 DEF LoopInv

LEMMA SkipKeepsInv == LoopInv /\ SkipCandidate => LoopInv'
<1> SUFFICES ASSUME LoopInv, SkipCandidate PROVE LoopInv'
  OBVIOUS
<1> DEFINE P == PackedPrefix(candidates, session_seconds)
           A == Spent(candidates, claimed_ids)
<1>1. /\ candidates \in Seq(Ests) /\ session_seconds \in Int /\ Len(candidates) \in Nat
      /\ next - 1 \in 0..Len(candidates) /\ next \in Nat
  BY ListsAreEsts DEF LoopInv
<1>2. /\ running /\ next <= Len(candidates)
      /\ ~Fits(Cost(candidates[next]), session_seconds, remaining)
      /\ next' = next + 1
      /\ UNCHANGED <<candidates, session_seconds, claimed_ids, remaining, running>>
  BY DEF SkipCandidate, cost
<1>3. /\ next \in 1..Len(candidates) /\ next' - 1 = next /\ next \notin claimed_ids
      /\ claimed_ids \subseteq 1..(next - 1) /\ remaining \in Int
      /\ Cost(candidates[next]) \in Int
  BY <1>1, <1>2, CostIsInt DEF LoopInv, LoopTypeOK
<1>4. LoopTypeOK'
  BY <1>1, <1>2, <1>3 DEF LoopInv, LoopTypeOK
<1>5. RemainingIsRest'
  <2>1. A[next] = A[next - 1]
    <3>1. A \in [0..Len(candidates) -> Int] /\ A[next - 1] \in Int
      BY <1>1, SpentRounds
    <3>2. A[next] = A[next - 1] + 0
      BY <1>1, <1>3, SpentRounds
    <3>3. QED
      BY <3>1, <3>2
  <2> HIDE DEF A
  <2>2. remaining = session_seconds - A[next - 1]
    BY DEF LoopInv, RemainingIsRest, A
  <2>3. A' = A
    BY <1>2 DEF A
  <2>4. QED
    BY <1>2, <1>3, <2>1, <2>2, <2>3 DEF LoopInv, RemainingIsRest, A
<1>6. PassedOverOnlyWhenUnaffordable'
  <2>1. ASSUME NEW k \in 1..next, k \notin claimed_ids
        PROVE  Cost(candidates[k]) > session_seconds - A[k - 1] \/ Cost(candidates[k]) > session_seconds
    <3>1. CASE k = next
      <4>1. remaining = session_seconds - A[next - 1]
        BY DEF LoopInv, RemainingIsRest
      <4> HIDE DEF A
      <4>2. QED
        BY <1>1, <1>2, <1>3, <3>1, <4>1 DEF Fits
    <3>2. CASE k # next
      <4>1. k \in 1..(next - 1)
        BY <1>1, <3>2
      <4>2. QED
        BY <2>1, <4>1 DEF LoopInv, PassedOverOnlyWhenUnaffordable
    <3>3. QED
      BY <3>1, <3>2
  <2> HIDE DEF A
  <2>2. A' = A
    BY <1>2 DEF A
  <2>3. QED
    BY <1>2, <1>3, <2>1, <2>2 DEF PassedOverOnlyWhenUnaffordable, A
<1>7. PassedOverCosts'
  <2>1. ASSUME session_seconds >= 0, NEW k \in 1..next, k \notin claimed_ids
        PROVE  Cost(candidates[k]) > 0
    <3>1. CASE k = next
      BY <1>1, <1>2, <1>3, <2>1, <3>1 DEF Fits, LoopInv, RemainingIsRest
    <3>2. CASE k # next
      <4>1. k \in 1..(next - 1)
        BY <1>1, <3>2
      <4>2. QED
        BY <2>1, <4>1 DEF LoopInv, PassedOverCosts
    <3>3. QED
      BY <3>1, <3>2
  <2>2. QED
    BY <1>2, <1>3, <2>1 DEF PassedOverCosts
<1>8. FollowsPrefix'
  <2>1. P[next] = Round(next, P[next - 1], candidates, session_seconds)
    BY <1>1, <1>3, PackedRounds
  <2> HIDE DEF P
  <2>2. /\ claimed_ids = P[next - 1].taken /\ remaining = P[next - 1].remaining
        /\ ~P[next - 1].exhausted
    BY <1>2 DEF LoopInv, FollowsPrefix, P
  <2>3. P[next] = P[next - 1]
    BY <1>2, <2>1, <2>2 DEF Round
  <2>4. P' = P
    BY <1>2 DEF P
  <2>5. QED
    BY <1>2, <1>3, <2>2, <2>3, <2>4 DEF FollowsPrefix, P
<1>9. QED
  BY <1>4, <1>5, <1>6, <1>7, <1>8 DEF LoopInv

LEMMA TakeKeepsInv == LoopInv /\ TakeCandidate => LoopInv'
<1> SUFFICES ASSUME LoopInv, TakeCandidate PROVE LoopInv'
  OBVIOUS
<1> DEFINE P == PackedPrefix(candidates, session_seconds)
           A == Spent(candidates, claimed_ids)
           B == Spent(candidates, claimed_ids \cup {next})
           c == Cost(candidates[next])
<1>1. /\ candidates \in Seq(Ests) /\ session_seconds \in Int /\ Len(candidates) \in Nat
      /\ next - 1 \in 0..Len(candidates) /\ next \in Nat
  BY ListsAreEsts DEF LoopInv
<1>2. /\ running /\ next <= Len(candidates)
      /\ Fits(c, session_seconds, remaining)
      /\ claimed_ids' = claimed_ids \cup {next}
      /\ remaining' = remaining - c
      /\ next' = next + 1
      /\ running' = (remaining - c > 0)
      /\ UNCHANGED <<candidates, session_seconds>>
  BY DEF TakeCandidate, cost
<1>3. /\ next \in 1..Len(candidates) /\ next' - 1 = next
      /\ claimed_ids \subseteq 1..(next - 1) /\ remaining \in Int /\ c \in Int
  BY <1>1, <1>2, CostIsInt DEF LoopInv, LoopTypeOK
<1>4. LoopTypeOK'
  <2> HIDE DEF c
  <2>1. QED
    BY <1>1, <1>2, <1>3 DEF LoopInv, LoopTypeOK
<1>5. \A k \in 0..Len(candidates) : k < next => B[k] = A[k]
  BY <1>1, SpentBefore
<1>6. RemainingIsRest'
  <2>1. B \in [0..Len(candidates) -> Int] /\ B[next] = B[next - 1] + c /\ B[next - 1] \in Int
    <3>1. B \in [0..Len(candidates) -> Int] /\ B[next - 1] \in Int
      BY <1>1, SpentRounds
    <3>2. B[next] = B[next - 1] + (IF next \in claimed_ids \cup {next} THEN c ELSE 0)
      BY <1>1, <1>3, SpentRounds
    <3>3. QED
      BY <3>1, <3>2
  <2>2. remaining = session_seconds - A[next - 1]
    BY DEF LoopInv, RemainingIsRest
  <2> HIDE DEF A, B, c
  <2>3. B[next - 1] = A[next - 1]
    BY <1>1, <1>5
  <2>4. remaining - c = session_seconds - B[next]
    BY <1>1, <1>3, <2>1, <2>2, <2>3
  <2>5. Spent(candidates, claimed_ids)' = B
    BY <1>2 DEF B
  <2>6. remaining - c >= 0
    BY <1>1, <1>2, <1>3 DEF Fits
  <2>7. QED
    BY <1>2, <1>3, <2>4, <2>5, <2>6 DEF RemainingIsRest
<1>7. PassedOverOnlyWhenUnaffordable'
  <2>1. ASSUME NEW k \in 1..next, k \notin claimed_ids, k # next
        PROVE  Cost(candidates[k]) > session_seconds - B[k - 1] \/ Cost(candidates[k]) > session_seconds
    <3>1. k \in 1..(next - 1) /\ k - 1 \in 0..Len(candidates) /\ k - 1 < next
      BY <1>1, <2>1
    <3>2. B[k - 1] = A[k - 1]
      BY <1>5, <3>1
    <3>3. QED
      BY <2>1, <3>1, <3>2 DEF LoopInv, PassedOverOnlyWhenUnaffordable
  <2> HIDE DEF A, B
  <2>2. Spent(candidates, claimed_ids)' = B
    BY <1>2 DEF B
  <2>3. QED
    BY <1>2, <1>3, <2>1, <2>2 DEF PassedOverOnlyWhenUnaffordable
<1>8. PassedOverCosts'
  <2>1. ASSUME session_seconds >= 0, NEW k \in 1..next, k \notin claimed_ids, k # next
        PROVE  Cost(candidates[k]) > 0
    <3>1. k \in 1..(next - 1)
      BY <1>1, <2>1
    <3>2. QED
      BY <2>1, <3>1 DEF LoopInv, PassedOverCosts
  <2>2. QED
    BY <1>2, <1>3, <2>1 DEF PassedOverCosts
<1>9. FollowsPrefix'
  <2>1. P[next] = Round(next, P[next - 1], candidates, session_seconds)
    BY <1>1, <1>3, PackedRounds
  <2> HIDE DEF P
  <2>2. /\ claimed_ids = P[next - 1].taken /\ remaining = P[next - 1].remaining
        /\ ~P[next - 1].exhausted
    BY <1>2 DEF LoopInv, FollowsPrefix, P
  <2>3. P[next] = [taken |-> claimed_ids \cup {next}, remaining |-> remaining - c,
                   exhausted |-> remaining - c <= 0]
    BY <1>2, <2>1, <2>2 DEF Round
  <2> HIDE DEF c
  <2>4. P' = P
    BY <1>2 DEF P
  <2>5. P[next].exhausted = (remaining - c <= 0) /\ P[next].taken = claimed_ids \cup {next}
        /\ P[next].remaining = remaining - c
    BY <2>3
  <2>6. (remaining - c > 0) = ~(remaining - c <= 0)
    BY <1>3
  <2>7. QED
    BY <1>2, <1>3, <2>4, <2>5, <2>6 DEF FollowsPrefix, P
<1>10. QED
  BY <1>4, <1>6, <1>7, <1>8, <1>9 DEF LoopInv

LEMMA LoopInvNext == LoopInv /\ [LoopNext]_loop_vars => LoopInv'
<1> SUFFICES ASSUME LoopInv, [LoopNext]_loop_vars PROVE LoopInv'
  OBVIOUS
<1>1. CASE SkipCandidate
  BY <1>1, SkipKeepsInv
<1>2. CASE TakeCandidate
  BY <1>2, TakeKeepsInv
<1>3. CASE FinishLoop
  <2>1. Len(candidates) \in Nat
    BY ListsAreEsts DEF LoopInv
  <2>2. /\ next = Len(candidates) + 1 /\ running' = FALSE
        /\ UNCHANGED <<candidates, session_seconds, next, claimed_ids, remaining>>
    BY <1>3, <2>1 DEF FinishLoop, LoopInv, LoopTypeOK
  <2>3. LoopTypeOK' /\ RemainingIsRest' /\ PassedOverOnlyWhenUnaffordable' /\ PassedOverCosts'
    BY <2>2 DEF LoopInv, LoopTypeOK, RemainingIsRest, PassedOverOnlyWhenUnaffordable,
         PassedOverCosts
  <2>4. FollowsPrefix'
    <3> DEFINE P == PackedPrefix(candidates, session_seconds)
    <3>1. claimed_ids = P[next - 1].taken /\ remaining = P[next - 1].remaining
      BY DEF LoopInv, FollowsPrefix
    <3> HIDE DEF P
    <3>2. P' = P
      BY <2>2 DEF P
    <3>3. QED
      BY <2>2, <3>1, <3>2 DEF FollowsPrefix, P
  <2>5. QED
    BY <2>3, <2>4 DEF LoopInv
<1>4. CASE UNCHANGED loop_vars
  BY <1>4 DEF loop_vars, LoopInv, LoopTypeOK, RemainingIsRest,
       PassedOverOnlyWhenUnaffordable, PassedOverCosts, FollowsPrefix
<1>5. QED
  BY <1>1, <1>2, <1>3, <1>4 DEF LoopNext

LEMMA LoopInvHolds == LoopSpec => []LoopInv
  BY LoopInvInit, LoopInvNext, PTL DEF LoopSpec

\* The batch a worker gets respects its session and the order of the queue,
\* whatever the candidates and the session ask for: it never asks for more than
\* the session has, nothing is passed over that could be afforded when its turn
\* came, and while seconds are left nothing free is left behind.
THEOREM BatchesRespectSession == LoopSpec => []TakesWhatFits
<1>1. LoopInv => TakesWhatFits
  <2> SUFFICES ASSUME LoopInv PROVE TakesWhatFits
    OBVIOUS
  <2>1. /\ candidates \in Seq(Ests) /\ session_seconds \in Int /\ Len(candidates) \in Nat
        /\ next - 1 \in 0..Len(candidates) /\ next \in Nat
    BY ListsAreEsts DEF LoopInv
  <2>2. WithinSession
    <3> DEFINE A == Spent(candidates, claimed_ids)
    <3>1. A[Len(candidates)] = A[next - 1] /\ A[next - 1] \in Int
      <4>1. claimed_ids \in SUBSET (1..(next - 1))
        BY DEF LoopInv, LoopTypeOK
      <4>2. A[Len(candidates)] = A[next - 1]
        BY <2>1, <4>1, SpentAfter
      <4>3. A \in [0..Len(candidates) -> Int]
        BY <2>1, SpentRounds
      <4>4. QED
        BY <2>1, <4>2, <4>3
    <3>2. remaining = session_seconds - A[next - 1] /\ (claimed_ids # {} => remaining >= 0)
      BY DEF LoopInv, RemainingIsRest
    <3> HIDE DEF A
    <3>3. claimed_ids # {} => A[Len(candidates)] <= session_seconds
      BY <2>1, <3>1, <3>2
    <3>4. QED
      BY <3>3 DEF WithinSession, A
  <2>3. FreeRunsAreTaken
    <3>1. SUFFICES ASSUME ~running, remaining > 0, session_seconds >= 0,
                          NEW k \in DOMAIN candidates \ claimed_ids
                   PROVE  Cost(candidates[k]) > 0
      BY DEF FreeRunsAreTaken
    <3>2. remaining \in Int
      BY DEF LoopInv, LoopTypeOK
    <3>3. next = Len(candidates) + 1
      BY <3>1, <3>2 DEF LoopInv, FollowsPrefix
    <3>4. k \in 1..(next - 1)
      BY <2>1, <3>3
    <3>5. QED
      BY <3>1, <3>4 DEF LoopInv, PassedOverCosts
  <2>4. QED
    BY <2>2, <2>3 DEF LoopInv, TakesWhatFits
<1>2. QED
  BY <1>1, LoopInvHolds, PTL

\* The loop computes what the queue's claims and the schedule are given: after
\* each candidate the prefix of the recursion, at its end all of Pack.
THEOREM LoopsComputePack == LoopSpec => []LoopComputesPack
<1>1. LoopInv => LoopComputesPack
  <2> SUFFICES ASSUME LoopInv PROVE LoopComputesPack
    OBVIOUS
  <2> DEFINE P == PackedPrefix(candidates, session_seconds)
  <2>1. /\ candidates \in Seq(Ests) /\ session_seconds \in Int /\ Len(candidates) \in Nat
        /\ next - 1 \in 0..Len(candidates) /\ next \in Nat
    BY ListsAreEsts DEF LoopInv
  <2>2. claimed_ids = P[next - 1].taken
    BY DEF LoopInv, FollowsPrefix
  <2>3. ASSUME ~running PROVE P[Len(candidates)].taken = P[next - 1].taken
    <3>1. CASE next = Len(candidates) + 1
      BY <2>1, <3>1
    <3>2. CASE P[next - 1].exhausted
      <4>1. Len(candidates) \in (next - 1)..Len(candidates)
        BY <2>1
      <4>2. QED
        BY <2>1, <3>2, <4>1, ExhaustedStays
    <3>3. QED
      BY <2>3, <3>1, <3>2 DEF LoopInv, FollowsPrefix
  <2>4. QED
    BY <2>2, <2>3 DEF LoopComputesPack, Pack
<1>2. QED
  BY <1>1, LoopInvHolds, PTL
=============================================================================
