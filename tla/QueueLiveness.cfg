\* Recovery of an abandoned run and the end of every sweep, under fairness, with
\* a worker that keeps locking a run its session has no time for.
CONSTANTS
  NumRuns = 1
  Workers = {w1, w2}
  w1 = w1
  w2 = w2
  Sweepers = {s1, s2}
  Keys <- MCKeys
  MaxAttempts = 2
  MaxFaults = 1
  NoOne = NoOne
  NULL = NULL
  AnyBackend = AnyBackend
  Priority <- MCPriority
  EstSeconds <- MCLongEstSeconds
  DependsOn <- MCNoDependsOn
  RunsOn <- MCRunsOn
  KeyOf <- MCKeyOf
  BackendOf <- MCBackendOf
  SessionOf <- MCUnequalSessionOf
  EnqueueStatuses = {"queued"}
  PatchStatuses = {"queued"}
  FinishStatuses = {"completed"}
SPECIFICATION FairSpec
PROPERTIES
  AbandonedRunsAreRecovered
  SweepsEnd
