\* Two overlapping calls: the one that ends last assigns a runtime it copied
\* before the other one quarantined its target.
CONSTANTS
  window = window
  lamp = lamp
  c1 = c1
  c2 = c2
  i1 = i1
  i2 = i2
  Absent = Absent
  Unset = Unset
  MaxPct = 1
  Device <- MCDevice
  Window <- MCWindow
  Call <- TwoCalls
  AuthId <- MCAuthId
SPECIFICATION Spec
INVARIANT QuarantineHeld
