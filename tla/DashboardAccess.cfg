\* Two concurrent revocations among two admins and a member, beside key requests
\* from the dashboard, in a browser where two tabs sign in and out.
CONSTANTS
  Users = {a1, a2, m}
  Admins = {a1, a2}
  Keys = {kb, k1}
  AdminKeys = {kb, k1}
  Revokers = {t1, t2}
  BootstrapUser = a1
  BootstrapKey = kb
  NoOne = NoOne
  Tabs = {b1, b2}
  Calls = {c1}
  SessionLife = 0
  StateLife = 1
  MaxTime = 1
  Overlapping = FALSE
SPECIFICATION DashboardSpec
SYMMETRY SymmetricRevokers
INVARIANTS
  MembersOnly
  AdminRemains
  OnlyRacingKeysSurvive
  RefusalHasCause
PROPERTIES
  RevocationIsFinal
