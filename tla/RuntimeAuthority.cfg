CONSTANTS
  None = None
  Evidence <- MCEvidence
  Receipts <- MCReceipts
  Requests <- MCRequests
  Keys = {"k1"}
  Verifiers = {"local", "kms"}
  Approved = {"local", "kms"}
  Production = {"kms"}
  Postures = {"dev", "secure", "prod"}
  MaxAge = 1
  MaxRevoked = 1
  MaxTime = 3
SPECIFICATION Spec
INVARIANTS RevocationWindow AuthorityInForce ApprovalInForce BoundaryClosed
CHECK_DEADLOCK FALSE
