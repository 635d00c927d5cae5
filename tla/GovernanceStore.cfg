CONSTANTS
  w1 = w1
  w2 = w2
  Workers = {w1, w2}
  None = None
  Backends = {"file", "postgresql"}
  Rules = {"r0", "r1"}
  Versions = {"v1", "v2"}
  Default <- MCDefault
  Patches <- MCPatches
  Targets <- MCTargets
  Approvals <- MCApprovals
  Labels = {"update", "save"}
  RequireFourEyes = TRUE
  HistoryMax = 2
  Faults = {"read", "save", "append", "drop", "lost", "crash"}
  MaxOps = 3
  MaxFaults = 1
SPECIFICATION FairSpec
INVARIANTS AuditChain HistoryTruthful
PROPERTIES RetentionLocked Answered
CHECK_DEADLOCK FALSE
