SPECIFICATION TurnSpec
CHECK_DEADLOCK FALSE
CONSTANTS
  window = window
  lamp = lamp
  Device <- MCDevice
  Window <- MCWindow
  Absent = Absent
  Unset = Unset
  MaxPct = 1
  Patch <- MCPatch
  MaxTurn = 2
  MaxCommands = 3
INVARIANTS
  TurnHolds
PROPERTIES
  ProtectionHolds
