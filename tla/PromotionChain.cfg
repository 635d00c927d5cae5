SPECIFICATION Spec
CONSTANTS
  None = None
  Handoffs <- MCHandoffs
  Descriptors <- MCDescriptors
  Times = {1, 2}
  Timed = {1, 18}
  EditAt = {5, 14, 20}
  FixtureInputs = {"fixture for every step", "a live result"}
  Fixtures = {"f1"}
  Candidates <- MCCandidates
  References <- MCReferences
  Decisions <- MCDecisions
  Outcomes <- MCOutcomes
  Authorities <- MCAuthorities
  Approvals <- MCApprovals
INVARIANTS OneOperation NothingRefused Replayable
CHECK_DEADLOCK FALSE
