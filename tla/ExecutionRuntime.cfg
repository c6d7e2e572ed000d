\* A caller that awaits each call before it makes the next one: a window and a
\* lamp, two authorization ids, every driver fault; the authorizer and the
\* driver always answer.
CONSTANTS
  window = window
  lamp = lamp
  c1 = c1
  c2 = c2
  i1 = i1
  i2 = i2
  Absent = Absent
  Unset = Unset
  MaxPct = 2
  Device <- MCDevice
  Window <- MCWindow
  Call <- OneCall
  AuthId <- MCAuthId
SPECIFICATION FairSpec
INVARIANTS
  SingleDispatch
  QuarantineHeld
  BeliefIsReal
PROPERTIES
  QuarantineEnds
