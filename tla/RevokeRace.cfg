\* One member whose key request overlaps the revocation.
CONSTANTS
  Users = {a1, m}
  Admins = {a1}
  Keys = {kb, k1}
  Revokers = {t1, t2}
  BootstrapUser = a1
  BootstrapKey = kb
  NoOne = NoOne
SPECIFICATION Spec
SYMMETRY SymmetricRevokers
INVARIANTS
  NoLiveCredentialsLeft
