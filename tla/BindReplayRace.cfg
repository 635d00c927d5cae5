SPECIFICATION Spec
CONSTANTS
  i1 = i1
  w1 = w1
  w2 = w2
  Workers = {w1, w2}
  Intents = {i1}
  Malformed = {}
  Keyed = {i1}
  Adapter = "snapshot"
  RollbackOnApplyFailure = TRUE
  Evidence <- MCGoodEvidence
  MaxLines = 100
  Faults = {}
  MaxCalls = 2
  MaxFaults = 0
INVARIANT NeverReapplied
CHECK_DEADLOCK FALSE
