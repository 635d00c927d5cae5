CONSTANTS
  Threads = {t1, t2}
  NoThread = NoThread
  MaxLines = 3
  MaxItems = 2
  WormHardFail = TRUE
  Faults = {"crash", "io", "read", "torn", "marker_open"}
  MaxAppends = 6
  MaxFaults = 2
SPECIFICATION Spec
INVARIANTS ActiveLinked
