\* Two workers, one sweep and an operator over a chain of two runs; statuses
\* are only PATCHed to an end.
CONSTANTS
  NumRuns = 2
  Workers = {w1, w2}
  w1 = w1
  w2 = w2
  Sweepers = {s1}
  Keys <- MCKeys
  MaxAttempts = 2
  MaxFaults = 1
  NoOne = NoOne
  NULL = NULL
  AnyBackend = AnyBackend
  Priority <- MCPriority
  EstSeconds <- MCEstSeconds
  DependsOn <- MCDependsOn
  RunsOn <- MCRunsOn
  KeyOf <- MCKeyOf
  BackendOf <- MCBackendOf
  SessionOf <- MCSessionOf
  EnqueueStatuses = {"queued"}
  PatchStatuses = {"killed"}
  FinishStatuses = {"completed", "failed"}
SPECIFICATION Spec
SYMMETRY SymmetricWorkers
INVARIANTS
  QueueInv
  NoDoubleClaim
  DuplicateWorkNeedsRequeue
  DependenciesFirst
  LeasedRunsHaveLease
PROPERTIES
  FinishedStaysFinished
  LiveLeaseIsSafe
