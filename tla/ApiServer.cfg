SPECIFICATION Spec
CONSTANTS
  Publishers = {w1, w2}
  Clients = {c1}
  HistorySize = 1
  QueueSize = 1
  MaxEvents = 2
  Workloads <- MCWorkloads
  Keys = {"k1", "k2"}
  FailOpen = FALSE
  Sub = 2
  Ttl = 1
  NonceMax = 1
  Limit = 2
  BucketMax = 1
  Window = 1
  DrainTime = 1
INVARIANTS NonceOnce RateBound DrainHonest NothingLost NoDuplicates SweepersSilent
SYMMETRY Symmetry
CHECK_DEADLOCK FALSE
