---------------------------- MODULE MCTeamAccess ----------------------------
(* Small instances of TeamAccess: admins a1 (the bootstrap admin) and a2, a
   member m without the role, one minted key k1 beside the bootstrap key kb. *)
EXTENDS TeamAccess, TLC

SymmetricRevokers == Permutations(Revokers)
=============================================================================
