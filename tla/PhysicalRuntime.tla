--------------------------- MODULE PhysicalRuntime ---------------------------
(***************************************************************************)
(* The believed state of the home and the operations every path to a       *)
(* physical driver shares: scripts/whole_home_patch_contract.cjs (what a   *)
(* patch does to the believed state, and when it throws) and               *)
(* scripts/physical_runtime.cjs (quarantine, safety-reducing patches,      *)
(* reconciliation with an observation).                                    *)
(*                                                                         *)
(* A device has one slot that matters: the opening of a window in steps of *)
(* 0..MaxPct, or the power of any other device, 0 being OFF.  A runtime is *)
(* a record of the believed slots, the protected paths and the quarantined *)
(* devices.  Pending tasks, turn ids and reasons are not part of it.       *)
(***************************************************************************)
EXTENDS Integers

CONSTANTS Device,        \* logical targets: area::entity::instance
          Window,        \* those whose slot is an opening
          MaxPct,        \* the largest opening
          Absent,        \* slot of a device that is not mounted
          Unset          \* slot of a mounted device that has no value yet

ASSUME DeviceAssumption == /\ Window \subseteq Device
                           /\ MaxPct \in Nat \ {0}
                           /\ Absent \notin Int
                           /\ Unset \notin Int
                           /\ Absent # Unset

Pct == 0 .. MaxPct

\* PROTECT names a slot of a device or, with "*", all of its slots.
Path == Device \X {"slot", "*"}

Runtime == [slots : [Device -> Pct \cup {Absent, Unset}],
            protected : SUBSET Path,
            quarantined : SUBSET Device]

IsQuarantined(rt, d) == d \in rt.quarantined

MarkQuarantined(rt, targets) == [rt EXCEPT !.quarantined = @ \cup targets]

\* A patch that sets d to v cannot increase the risk as far as the runtime
\* believes: a window does not open further, anything else is switched off.
IsSafetyReducing(rt, d, v) == IF d \in Window
                                THEN rt.slots[d] \in Int /\ v <= rt.slots[d]
                                ELSE v = 0

\* evaluateQuarantinePreflight() of a set of writes, and the same check of the
\* single and the atomic executor right before the driver is called.
QuarantinePreflight(rt, writes) ==
  \A d \in DOMAIN writes : IsQuarantined(rt, d) => IsSafetyReducing(rt, d, writes[d])

Mounted(rt, d) == rt.slots[d] # Absent
SlotProtected(rt, d) == {<<d, "slot">>, <<d, "*">>} \cap rt.protected # {}

\* reconcileObservation(): the observed slot, or the absence of the device, is
\* written through applyPatch(), which throws for a protected path.
ReconcileThrows(rt, d, observed) ==
  /\ observed # rt.slots[d]
  /\ IF observed = Absent THEN <<d, "*">> \in rt.protected
     ELSE observed # Unset /\ SlotProtected(rt, d)

Reconcile(rt, d, observed) ==
  IF observed = Unset /\ Mounted(rt, d)
    THEN rt                          \* no slot in the observation: none is written
    ELSE [rt EXCEPT !.slots[d] = observed]
==============================================================================
