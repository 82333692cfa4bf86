----------------------------- MODULE MCRefAudit -----------------------------
(* Two uploads: the content of one is in a commit of a private repository, the
   other's only in the edited clone of that commit; the names of both resemble
   a private and a public repository, and both sizes are known. *)
EXTENDS RefAudit, TLC

CONSTANTS a1, a2, v1, v2

MCStartUri == [a \in Artifacts |-> Drive]
MCExpectedSize == [a \in Artifacts |-> 2]
MCHashMatch == [a \in Artifacts |-> IF a = a1 THEN {"commit"} ELSE {}]
MCEditMatch == [a \in Artifacts |-> IF a = a2 THEN {"commit"} ELSE {}]
MCNameMatch == [a \in Artifacts |-> {"weights", "hidden"}]
SymmetricVerifiers == Permutations(Verifiers)
=============================================================================
