------------------------------ MODULE MCDbPool ------------------------------
(* Two sweeps, three revocations, two of them of the same admin, and a claim *)
(* of the runs the sweeps find, over two connections.                        *)
EXTENDS DbPool, TLC

CONSTANTS run1, run2, ann, bob, annKey, claim, sweep, sweepMoved, revokeAnn, revokeBob, revokeAgain

\* The sweeps have the same limit and find the same runs, but run1 is updated
\* between the beginnings of their scans, so that the later one meets it last. A
\* sweep whose lower limit has run1 lost, after run2 is requeued, meets the two in
\* that order as well. An admin whose row has moved comes last to a revocation.
MCArgs ==
  (claim :> <<run1, run2>>)
    @@ (sweep :> [requeued |-> <<run1, run2>>, lost |-> <<>>])
    @@ (sweepMoved :> [requeued |-> <<run2, run1>>, lost |-> <<>>])
    @@ (revokeAnn :> [user |-> ann, admins |-> <<ann, bob>>, keys |-> <<annKey>>])
    @@ (revokeAgain :> [user |-> ann, admins |-> <<bob, ann>>, keys |-> <<annKey>>])
    @@ (revokeBob :> [user |-> bob, admins |-> <<ann, bob>>, keys |-> <<>>])
=============================================================================
