\* Every candidate list of up to four runs against every session length.
CONSTANTS
  NULL = NULL
  Estimates <- MCEstimates
  Sessions <- MCSessions
  MaxCandidates = 4
SPECIFICATION LoopSpec
CHECK_DEADLOCK FALSE
INVARIANTS
  TakesWhatFits
  LoopComputesPack
