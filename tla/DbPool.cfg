CHECK_DEADLOCK FALSE
SPECIFICATION PoolSpec
CONSTANTS
  run1 = run1
  run2 = run2
  ann = ann
  bob = bob
  annKey = annKey
  sweepMoved = sweepMoved
  claim = claim
  sweep = sweep
  revokeAnn = revokeAnn
  revokeBob = revokeBob
  revokeAgain = revokeAgain
  Claims = {claim}
  Sweeps = {sweep, sweepMoved}
  Updates = {}
  Revocations = {revokeAnn, revokeAgain, revokeBob}
  Runs = {run1, run2}
  Users = {ann, bob}
  Keys = {annKey}
  Args <- MCArgs
  MaxSize = 2
  MaxFailures = 1
  NULL = NULL
INVARIANTS
  PoolIsSafe
  CirclesAreOfScansAtOdds
PROPERTIES
  EveryRequestEnds
