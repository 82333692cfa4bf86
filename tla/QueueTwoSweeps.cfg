\* Two overlapping sweeps over two independent runs that one worker may hold
\* together: stale snapshots, lock waits and a deadlock between the sweeps.
CONSTANTS
  NumRuns = 2
  Workers = {w1}
  w1 = w1
  w2 = w2
  Sweepers = {s1, s2}
  Keys <- MCKeys
  MaxAttempts = 3
  MaxFaults = 0
  NoOne = NoOne
  NULL = NULL
  AnyBackend = AnyBackend
  Priority <- MCPriority
  EstSeconds <- MCEstSeconds
  DependsOn <- MCNoDependsOn
  RunsOn <- MCRunsOn
  KeyOf <- MCKeyOf
  BackendOf <- MCBackendOf
  SessionOf <- MCLongSessionOf
  EnqueueStatuses = {"queued"}
  PatchStatuses = {"killed"}
  FinishStatuses = {"completed"}
SPECIFICATION Spec
SYMMETRY SymmetricProcesses
INVARIANTS
  LostOnlyWhenExhausted
PROPERTIES
  AttemptCountsOneLapse
  ImplementsLifecycle
