\* Two concurrent requests that upload and register for two runs.
CONSTANTS
  harness = harness
  sha1 = sha1
  sha2 = sha2
  git = git
  s3 = s3
  NULL = NULL
  Requests = {q1, q2}
  Runs = {r1, r2}
  Experiments = {e1}
  Batches <- MCBatches
  Pointers <- MCPointers
  Malformed <- MCMalformed
  PinNames = {latest}
  MaxRows = 3
  MaxFaults = 1
  MaxRefusals = 1
SPECIFICATION Spec
SYMMETRY SymmetricRequests
INVARIANTS
  ContentIsTrue
  LineageNamesEveryRun
  OrphansHaveCause
