--------------------------- MODULE SessionPacking ---------------------------
(***************************************************************************)
(* The packing decision of a claim: which of the ready runs, taken in      *)
(* queue order, one harness session of `session` seconds is given.         *)
(* Source: _pack_runs_by_session_budget in service/runs.py.  A run carries *)
(* an optional estimate; NULL stands for SQL NULL / Python None.           *)
(***************************************************************************)
EXTENDS Integers, Sequences

CONSTANT NULL  \* the absent estimate, claimer or lease

\* `cost = est_seconds or 0`: a run without an estimate is free.
Cost(est) == IF est = NULL THEN 0 ELSE est

\* Variant of the definition below, with a plausible bug (no action uses it):
\* what is left is not tested.
FitsSession(cost, session, remaining) == cost <= session

\* The two `continue` tests of the loop.
Fits(cost, session, remaining) == cost <= session /\ cost <= remaining

\* What the loop knows after its first k candidates: the positions taken, the
\* seconds left, and whether `if remaining <= 0: break` has ended it.
PackedPrefix(ests, session) ==
  LET step[k \in 0..Len(ests)] ==
        IF k = 0
        THEN [taken |-> {}, remaining |-> session, exhausted |-> FALSE]
        ELSE LET sofar == step[k - 1]
                 cost  == Cost(ests[k])
                 left  == sofar.remaining - cost
             IN  IF sofar.exhausted \/ ~Fits(cost, session, sofar.remaining)
                 THEN sofar
                 ELSE [taken     |-> sofar.taken \cup {k},
                       remaining |-> left,
                       exhausted |-> left <= 0]
  IN  step

\* The positions the session is given.
Pack(ests, session) == PackedPrefix(ests, session)[Len(ests)].taken
=============================================================================
