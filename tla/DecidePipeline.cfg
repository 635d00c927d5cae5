SPECIFICATION Spec
CONSTANTS
  None = None
  KnownKeys = {"identity", "funds"}
  Alias <- MCAlias
  ProfileRequired = {"identity", "funds"}
  ProfileSensitive = {"funds"}
  ProfileAnchors = {"funds"}
  StrictPolicyLoad = TRUE
  MaxAttempts = 2
  MaxSteps = 6
  MaxSame = 4
  Requests <- MCRequests
  Heads <- MCHeads
  Policies <- MCPolicies
  Bundles <- MCBundles
  KernelEvidence = {1, 2}
  MinEvidence = 2
  EnvPoc = TRUE
  TelosScores = {20, 90}
  Emas = {0, 80}
  RejectedCounts = {0, 3}
  Outputs = {"a", "b"}
  Persisters = {"memory_persist"}
  Drifts = {"proceed"}
  MaxSubmissions = 2
INVARIANTS FailClosed ActionableIsClean RetryBudget ReceiptTrue
PROPERTIES Answered
CHECK_DEADLOCK FALSE
