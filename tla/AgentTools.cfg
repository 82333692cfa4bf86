\* An agent that makes up to four calls, up to two of which end in an error,
\* with two requests in progress at once.
CONSTANTS
  Intents <- MCIntents
  Plans <- MCPlans
  ToolOf <- MCToolOf
  Runs <- MCRuns
  Names <- MCNames
  Requests = {q1, q2}
  NULL = NULL
  MaxSent = 4
  MaxMissed = 2
  MaxResults = 3
SPECIFICATION Spec
SYMMETRY SymmetricRequests
CHECK_DEADLOCK FALSE
INVARIANTS
  RepeatsHaveCause
  AcknowledgedStands
  NewestIsCurrent
  CorrectedStaysHidden
