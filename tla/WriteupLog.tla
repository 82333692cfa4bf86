----------------------------- MODULE WriteupLog -----------------------------
(***************************************************************************)
(* What append_writeup promises: the write-ups of an experiment are a log. *)
(* Version n is the n-th entry, and an entry, once there, keeps its place  *)
(* and its author.  Catalogue, with its transactions and unique index, is  *)
(* shown to implement it.                                                  *)
(***************************************************************************)
EXTENDS Naturals, Sequences

CONSTANTS Ids,       \* experiments that may ever exist
          Authors    \* names of API keys

VARIABLE log   \* per experiment, the authors of its versions 1, 2, ...

Init == log = [e \in Ids |-> <<>>]

AppendEntry(e, author) == log' = [log EXCEPT ![e] = Append(@, author)]

Next == \E e \in Ids, author \in Authors : AppendEntry(e, author)

Spec == Init /\ [][Next]_log
=============================================================================
