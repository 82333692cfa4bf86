------------------------- MODULE MCDashboardAccess -------------------------
(* Two admins and a member without the role, a key with the admin scope beside
   the bootstrap key, two tabs. *)
EXTENDS DashboardAccess, TLC

SymmetricRevokers == Permutations(Revokers) \cup Permutations(Tabs)
=============================================================================
