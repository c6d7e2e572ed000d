SPECIFICATION Spec
CHECK_DEADLOCK FALSE
CONSTANTS
  v1 = v1
  v2 = v2
  v3 = v3
  None = None
  Policy <- MCPolicy
  MaxRecords = 8
  MaxFaults = 1
INVARIANTS
  RollbackHolds
  OneActive
  EvidenceFirst
  JournalTellsActive
SYMMETRY Symmetric
