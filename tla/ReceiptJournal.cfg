SPECIFICATION Spec
CHECK_DEADLOCK FALSE
CONSTANTS
  p1 = p1
  p2 = p2
  r1 = r1
  r2 = r2
  NoProcess = NoProcess
  Note = Note
  Process <- MCProcess
  Receipt <- MCReceipt
  MaxLength = 2
  MaxFaults = 2
INVARIANTS
  JournalHolds
  AnchorsAdvance
SYMMETRY Symmetric
