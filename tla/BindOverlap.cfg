SPECIFICATION Spec
CONSTANTS
  i1 = i1
  i2 = i2
  i3 = i3
  w1 = w1
  w2 = w2
  Workers = {w1, w2}
  Intents = {i1, i2, i3}
  Malformed = {i3}
  Keyed = {i1}
  Adapter = "snapshot"
  RollbackOnApplyFailure = TRUE
  Evidence <- MCGoodEvidence
  MaxLines = 4
  Faults = {"crash", "read", "apply", "verify", "escape", "revert", "log", "lookup"}
  MaxCalls = 3
  MaxFaults = 2
INVARIANTS ReplayPreventsReapply CommittedInPlace RolledBackUndone
SYMMETRY Symmetric
CHECK_DEADLOCK FALSE
