SPECIFICATION GoalSpec
CHECK_DEADLOCK FALSE
CONSTANTS
  s1 = s1
  s2 = s2
  c1 = c1
  c2 = c2
  Slot <- MCSlot
  MaxValue = 1
  Call <- MCCall
  MaxSteps = 2
  MaxActions = 2
  MaxEpisodes = 1
  Overlap = FALSE
PROPERTIES
  GoalHolds
SYMMETRY Symmetric
