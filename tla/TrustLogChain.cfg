CONSTANTS
  Threads = {t1, t2}
  NoThread = NoThread
  MaxLines = 2
  MaxItems = 2
  WormHardFail = FALSE
  Faults = {"crash", "io", "read", "signer"}
  MaxAppends = 6
  MaxFaults = 2
SPECIFICATION FairSpec
INVARIANTS ChainContinuity MirrorComplete WitnessFollowsLedger
PROPERTIES ImplementsHashChain LockReleased
