---------------------------- MODULE PackingLoop ----------------------------
(***************************************************************************)
(* The loop of _pack_runs_by_session_budget (service/runs.py), one         *)
(* iteration per step, over every list of candidate estimates and every    *)
(* session length within the bounds.  Neither number is validated by the   *)
(* API models (RunCreate.est_seconds, QueueClaimRequest.session_seconds),  *)
(* so both may be zero or negative.                                        *)
(***************************************************************************)
EXTENDS SessionPacking

CONSTANTS Estimates,      \* the est_seconds values runs may carry, NULL included
          Sessions,       \* the session_seconds a worker may ask for
          MaxCandidates   \* bound: the longest candidate list enumerated

ASSUME PackingAssumption ==
  /\ Estimates \subseteq Int \cup {NULL}
  /\ Sessions \subseteq Int
  /\ MaxCandidates \in Nat

VARIABLES candidates,       \* est_seconds of the ready runs, in queue order
          session_seconds,
          next,             \* position of the loop
          claimed_ids,      \* positions appended so far
          remaining,
          running           \* FALSE once the loop has ended or broken out

loop_vars == <<candidates, session_seconds, next, claimed_ids, remaining, running>>

LoopInit ==
  /\ \E n \in 0..MaxCandidates : candidates \in [1..n -> Estimates]
  /\ session_seconds \in Sessions
  /\ next = 1
  /\ claimed_ids = {}
  /\ remaining = session_seconds
  /\ running = TRUE

cost == Cost(candidates[next])

\* Both `continue`s: too long for the session, or for what is left of it.
SkipCandidate ==
  /\ running /\ next <= Len(candidates)
  /\ ~Fits(cost, session_seconds, remaining)
  /\ next' = next + 1
  /\ UNCHANGED <<candidates, session_seconds, claimed_ids, remaining, running>>

\* Variant of TakeCandidate, with a plausible bug: the loop is not broken out of.
TakeWithoutBreak ==
  /\ running /\ next <= Len(candidates)
  /\ Fits(cost, session_seconds, remaining)
  /\ claimed_ids' = claimed_ids \cup {next}
  /\ remaining' = remaining - cost
  /\ next' = next + 1
  /\ UNCHANGED <<candidates, session_seconds, running>>

\* Append, subtract, and break once nothing is left.
TakeCandidate ==
  /\ running /\ next <= Len(candidates)
  /\ Fits(cost, session_seconds, remaining)
  /\ claimed_ids' = claimed_ids \cup {next}
  /\ remaining' = remaining - cost
  /\ next' = next + 1
  /\ running' = (remaining - cost > 0)
  /\ UNCHANGED <<candidates, session_seconds>>

\* The list is exhausted.
FinishLoop ==
  /\ running /\ next > Len(candidates)
  /\ running' = FALSE
  /\ UNCHANGED <<candidates, session_seconds, next, claimed_ids, remaining>>

LoopNext == SkipCandidate \/ TakeCandidate \/ FinishLoop

LoopSpec == LoopInit /\ [][LoopNext]_loop_vars
-----------------------------------------------------------------------------
\* Seconds the positions in S up to each k ask for together.
Spent(ests, S) ==
  LET sum[k \in 0..Len(ests)] ==
        IF k = 0 THEN 0 ELSE sum[k - 1] + (IF k \in S THEN Cost(ests[k]) ELSE 0)
  IN  sum

\* A non-empty batch never asks for more than the session has, even when
\* negative estimates give time back while the loop runs.
WithinSession ==
  claimed_ids # {} =>
    Spent(candidates, claimed_ids)[Len(candidates)] <= session_seconds

\* Priority is respected: a run is passed over only because it could not be
\* afforded when its turn came, or because an earlier taken run had used the
\* session up; never in favour of a later one.
PassedOverOnlyWhenUnaffordable ==
  \A k \in 1..(next - 1) \ claimed_ids :
    \/ Cost(candidates[k]) > session_seconds - Spent(candidates, claimed_ids)[k - 1]
    \/ Cost(candidates[k]) > session_seconds

\* The loop, wherever it stands, has computed what the recursive definition
\* the queue model uses says of that prefix; when it ends, all of Pack.
LoopComputesPack ==
  /\ claimed_ids = PackedPrefix(candidates, session_seconds)[next - 1].taken
  /\ ~running => claimed_ids = Pack(candidates, session_seconds)

\* Nothing that fits is left behind while the session still has time: when the
\* loop ends with seconds to spare, every run left out asks for more than what
\* was left when its turn came, so a run without an estimate is always taken.
FreeRunsAreTaken ==
  ~running /\ remaining > 0 /\ session_seconds >= 0 =>
    \A k \in DOMAIN candidates \ claimed_ids : Cost(candidates[k]) > 0

LoopTypeOK ==
  /\ candidates \in Seq(Estimates)
  /\ session_seconds \in Sessions
  /\ next \in 1..(Len(candidates) + 1)
  /\ claimed_ids \subseteq 1..(next - 1)
  /\ remaining \in Int
  /\ running \in BOOLEAN

\* The batch a worker gets respects its session and the order of the queue:
\* within the session, nothing passed over that could be afforded, and nothing
\* that costs nothing left behind (_pack_runs_by_session_budget).
TakesWhatFits ==
  LoopTypeOK /\ WithinSession /\ PassedOverOnlyWhenUnaffordable /\ FreeRunsAreTaken
=============================================================================
