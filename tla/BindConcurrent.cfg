SPECIFICATION FairSpec
CONSTANTS
  i1 = i1
  i2 = i2
  w1 = w1
  w2 = w2
  Workers = {w1, w2}
  Intents = {i1, i2}
  Malformed = {}
  Keyed = {}
  Adapter = "webhook"
  RollbackOnApplyFailure = FALSE
  Evidence <- MCEvidence
  MaxLines = 2
  Faults = {"read", "apply", "late", "verify", "revert"}
  MaxCalls = 2
  MaxFaults = 3
INVARIANTS ReceiptTruthful ReturnedIsStored
PROPERTY EffectRecorded
CHECK_DEADLOCK FALSE
