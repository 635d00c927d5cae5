CONSTANTS
  Workers = {w1, w2}
  None = None
  Requests = {"a", "b", "c", "d"}
  Sources <- Files
  MaxLines = 3
  Faults = {"drop", "lost", "kill", "line"}
  MaxIds = 6
  MaxRuns = 3
  MaxFaults = 3
SPECIFICATION Spec
INVARIANTS MigrationVerifies MigrationComplete ChecklistSound
PROPERTY ImplementsHashChain
CHECK_DEADLOCK FALSE
