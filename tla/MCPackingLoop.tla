--------------------------- MODULE MCPackingLoop ---------------------------
(* Bounds for PackingLoop: lists of up to four runs, with estimates that are
   absent, zero, negative, shorter than, equal to and longer than a session. *)
EXTENDS PackingLoop

MCEstimates == {NULL, -1, 0, 1, 2, 3}
MCSessions == -1..3
=============================================================================
