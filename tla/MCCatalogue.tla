---------------------------- MODULE MCCatalogue ----------------------------
(* Small instances of Catalogue. *)
EXTENDS Catalogue, TLC

Symmetric == Permutations(Clients) \cup Permutations(Programmes) \cup Permutations(Slugs)
=============================================================================
