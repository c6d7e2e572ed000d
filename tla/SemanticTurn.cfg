SPECIFICATION Spec
CONSTANTS
  Devices <- MCDevices
  Canonical <- MCCanonical
  Writable <- MCWritable
  Bindings <- MCBindings
  Texts <- MCTexts
  Hints <- MCHints
  Raws <- MCRaws
  Requests <- MCRequests
  MaxPlans = 1
  MaxChanges = 2
INVARIANTS
  DoesAsSpoken
  RefusalStands
  PlanHolds
CHECK_DEADLOCK FALSE
