---------------------------- MODULE SemanticTurn ----------------------------
(***************************************************************************)
(* How an utterance becomes a patch (scripts/checkpoint_runtime.py and the *)
(* resolvers it calls), and how a learned set of targets becomes a plan    *)
(* that is committed once (scripts/authorized_patch_planner.py).           *)
(*                                                                         *)
(* The networks are the environment: a judgement and a raw patch may be    *)
(* anything they can output.  An utterance is the facts that the code      *)
(* reads off its wording.  What is checked is what the deterministic code  *)
(* makes of both over several turns, while devices are provisioned, rebound*)
(* and removed, and rain and protections come and go.                      *)
(***************************************************************************)
EXTENDS Integers, FiniteSets, Sequences

CONSTANTS
  Devices,      \* records [area, entity]
  Canonical,    \* model |-> slot |-> [min, max, step]; step 0: not a number
  Writable,     \* model |-> slots the compiled capability index can write
  Bindings,     \* pairs <<device, model>> that may be provisioned
  Texts,        \* utterances, see OperationEvidence and CueSlot
  Hints,        \* what a caller adds to the context of a turn: [focus, add]
  Raws,         \* raw outputs of the semantic network
  Requests,     \* planner calls: [areas, entities, known, slot, value]
  MaxPlans,     \* bound: planner calls
  MaxChanges    \* bound: changes of the registry and of the home

Models    == DOMAIN Canonical
None      == "none"
NoNumber  == -1000     \* no number is given
Off       == -1001     \* the value OFF
Decisions == {"EXECUTE", "CLARIFY", "BLOCK", "NOOP", "CANCEL_PENDING", "UNDO_EXECUTED"}

\* A unit is read off together with its number; a step of 0 stands for a slot
\* that takes no number.
ASSUME WordingAssumption ==
  /\ None \notin Models
  /\ \A d \in Devices : d = [area |-> d.area, entity |-> d.entity]
  /\ Bindings \subseteq Devices \X Models
  /\ \A m \in Models : \A s \in DOMAIN Canonical[m] : Canonical[m][s].step \in Nat
  /\ \A t \in Texts : IsFiniteSet(t.named) /\ (t.unit = "degrees" => t.number # NoNumber)
  /\ \A raw \in Raws : raw = [op |-> raw.op, cardinality |-> raw.cardinality,
                              direction |-> raw.direction, has_value |-> raw.has_value]
  /\ \A h \in Hints : h.focus \subseteq Devices /\ h.add \subseteq Devices

VARIABLES
  registry,  \* device |-> model it is bound to, or None
  mounted,   \* devices in the home's runtime
  guarded,   \* devices with a protected path
  rain,
  last,      \* targets of the last applied patch
  pointed,   \* history: devices that people or callers spoke of in applied turns
  plans,     \* results of plan(), in the order of the calls
  consumed,  \* authorization ids in the ledger
  changes,   \* counts up to MaxChanges
  report     \* the answer to the latest call, until it is read

home == <<registry, mounted, guarded, rain, changes>>
vars == <<registry, mounted, guarded, rain, last, pointed, plans, consumed, changes, report>>

-----------------------------------------------------------------------------
(* Wording (scripts/lexical_operation_evidence.py).  A text is a record    *)
(*   named      the devices the speaker names,                             *)
(*   joint      it has a word such as "and" or "both",                     *)
(*   words      the word lists and patterns it matches,                    *)
(*   lifecycle  it has an undo or cancel cue,                              *)
(*   cue        the first slot it mentions, number and unit of a value.    *)

NoEvidence == [op |-> None, direction |-> None]

\* operation_evidence(): narrow rules that may repair the operation.
OperationEvidence(t) ==
  LET says(w) == w \in t.words
      is(op, direction) == [op |-> op, direction |-> direction]
  IN CASE says("protect")                            -> NoEvidence
       [] says("set_value") /\ ~says("protect")      -> is("PATCH_SLOT", None)
       [] OTHER ->
          IF says("neg") # says("pos")
          THEN is("PATCH_RELATIVE", IF says("neg") THEN "NEG" ELSE "POS")
          ELSE IF says("close") # says("open")
          THEN is(IF says("close") THEN "CLOSE_DEVICE" ELSE "ADD_DEVICE", None)
          ELSE NoEvidence

\* The context the session derives from its runtime and its last patch, with
\* the hint of the caller put over it: a device in focus, a device to be added.
Registered == {d \in mounted : registry[d] # None}
Focus(hint) == IF hint.focus # {} THEN hint.focus
               ELSE IF Cardinality(last) = 1 THEN last ELSE {}
HasReferent(hint) == Focus(hint) # {} \/ hint.add # {} \/ last # {}

\* _safety_context_clear()
SafetyContextClear == ~rain /\ guarded = {}

\* safe_block_override(): only semantic-relative BLOCKs may be repaired.
SafeBlockOverride(ev, hint) ==
  ev.op = "PATCH_RELATIVE" /\ SafetyContextClear /\ HasReferent(hint)

\* mutant: the cues of undo and cancel are not looked for.
LifecycleOverrideAlways(ev, t, hint) ==
  ev # NoEvidence /\ SafetyContextClear /\ HasReferent(hint)

\* safe_lifecycle_override(): no cue, no safety conflict, a resolved target.
SafeLifecycleOverride(ev, t, hint) ==
  ev # NoEvidence /\ ~t.lifecycle /\ SafetyContextClear /\ HasReferent(hint)

\* The repairs at the head of predict(); that of CLARIFY does not look at rain
\* and protections.
Judged(decision, t, hint) ==
  LET ev == OperationEvidence(t)
      repaired ==
        \/ decision = "CLARIFY" /\ ev # NoEvidence /\ HasReferent(hint)
        \/ decision = "BLOCK" /\ SafeBlockOverride(ev, hint)
        \/ decision \in {"CANCEL_PENDING", "UNDO_EXECUTED"} /\ SafeLifecycleOverride(ev, t, hint)
  IN IF repaired THEN "EXECUTE" ELSE decision

-----------------------------------------------------------------------------
(* Targets, slots and values.                                              *)

\* explicit_targets_from_text(): registered devices whose area and whose
\* entity occur in the text, whether or not they occur together.
ExplicitTargets(t) ==
  {d \in Registered : /\ \E n \in t.named : n.area = d.area
                      /\ \E n \in t.named : n.entity = d.entity}

\* mutant: what is in focus beats what the text names.
FocusFirst(t, p, hint) ==
  LET spoken == ExplicitTargets(t) IN
  IF Focus(hint) # {} THEN Focus(hint)
  ELSE IF Cardinality(spoken) = 1 \/ t.joint THEN spoken ELSE {}

\* resolve_targets(): the devices, none of them for CLARIFY.  The proposal that
\* materialize() makes of the network's output names no device.
ResolveTargets(t, p, hint) ==
  LET spoken == ExplicitTargets(t) IN
  CASE Cardinality(spoken) = 1 -> spoken
    [] Cardinality(spoken) > 1 -> IF t.joint THEN spoken ELSE {}
    [] spoken = {} /\ p.op = "ADD_DEVICE" /\ hint.add # {} -> hint.add
    [] OTHER -> IF p.cardinality # "ONE" /\ last # {} THEN last ELSE Focus(hint)

\* resolve_slot(): a lexical cue the device can write, the proposed slot, or
\* the only slot there is.
ResolveSlot(p, primary, t) ==
  LET model == registry[primary]
      can   == IF primary \in Registered THEN Writable[model] ELSE {}
  IN CASE t.cue \in can                   -> t.cue
       [] t.cue \notin can /\ p.slot # None -> p.slot
       [] OTHER -> IF Cardinality(can) = 1 THEN CHOOSE s \in can : TRUE ELSE None

\* deterministic_value(): a number in the unit of the slot.
DeterministicValue(t, slot) ==
  IF \/ slot = "temperature" /\ t.unit = "degrees"
     \/ slot \in {"brightness", "opening"} /\ t.unit = "percent"
  THEN t.number ELSE NoNumber

\* materialize(): the fields of the proposal that the network decides.
Materialize(raw, t) ==
  [op          |-> raw.op, cardinality |-> raw.cardinality,
   slot        |-> IF raw.op = "CLOSE_DEVICE" THEN "power" ELSE None,
   delta       |-> IF raw.op # "PATCH_RELATIVE" THEN 0
                   ELSE CASE raw.direction = "NEG" -> -1 [] raw.direction = "POS" -> 1
                          [] OTHER -> 0,
   value       |-> IF raw.has_value /\ t.number # NoNumber THEN t.number
                   ELSE IF raw.op = "CLOSE_DEVICE" THEN Off ELSE NoNumber]

\* relative_delta(): the step of the slot in the direction, NoNumber without one.
RelativeDelta(model, slot, direction) ==
  IF model = None \/ slot \notin DOMAIN Canonical[model] THEN NoNumber
  ELSE IF Canonical[model][slot].step = 0 THEN NoNumber
  ELSE direction * Canonical[model][slot].step

Clarify == [decision |-> "CLARIFY", targets |-> {}, op |-> None, slot |-> None,
            delta |-> 0, value |-> NoNumber]

\* compose(): targets, slot, step and value put together; "primary" is the
\* first of the targets.
Compose(p, t, hint, primary) ==
  LET targets == ResolveTargets(t, p, hint)
      slotted == p.op \in {"PATCH_SLOT", "PATCH_RELATIVE", "CLOSE_DEVICE"}
      slot    == IF slotted THEN ResolveSlot(p, primary, t) ELSE p.slot
      step    == IF primary \in Registered
                 THEN RelativeDelta(registry[primary], slot, p.delta) ELSE NoNumber
      number  == IF slotted THEN DeterministicValue(t, slot) ELSE NoNumber
      unclear == \/ slotted /\ slot = None
                 \/ p.op = "PATCH_RELATIVE" /\ step = NoNumber
  IN IF unclear THEN Clarify
     ELSE [decision |-> "EXECUTE", targets |-> targets, op |-> p.op, slot |-> slot,
           delta |-> IF p.op = "PATCH_RELATIVE" THEN step ELSE 0,
           value |-> IF number # NoNumber THEN number ELSE p.value]

\* The raw patch with the operation and direction that the wording shows.
Repaired(raw, ev) ==
  IF ev = NoEvidence THEN raw
  ELSE [raw EXCEPT !.op = ev.op,
                   !.direction = IF ev.direction = None THEN @ ELSE ev.direction]

\* predict() and decide_and_compose(): the possible outcomes of a turn.
Predict(decision, raw, t, hint) ==
  LET d == Judged(decision, t, hint)
      p == Materialize(Repaired(raw, OperationEvidence(t)), t)
      targets == ResolveTargets(t, p, hint)
  IN IF d # "EXECUTE" THEN {[Clarify EXCEPT !.decision = d]}
     ELSE IF targets = {} THEN {Clarify}
     ELSE {Compose(p, t, hint, primary) : primary \in targets}

-----------------------------------------------------------------------------
(* Plans (scripts/authorized_patch_planner.py, device_registry.py and      *)
(* semantic_capability_map.py) and their commit.                           *)

\* validate_value(): the slot is known for the model and a number in range.
ValidValue(model, slot, value) ==
  /\ slot \in DOMAIN Canonical[model]
  /\ Canonical[model][slot].step # 0 =>
       value \in Canonical[model][slot].min .. Canonical[model][slot].max

\* compose() of authorized_target_composer.py: the learned areas and entities
\* multiplied, with those left out that are not mounted when that is known.
ComposeTargets(areas, entities, known) ==
  LET all == {[area |-> a, entity |-> e] : a \in areas, e \in entities}
  IN IF known THEN all \cap mounted ELSE all

Acceptable(d, slot, value) ==
  d \in Devices /\ registry[d] # None /\ ValidValue(registry[d], slot, value)

\* mutant: targets that were rejected are left out of the plan.
PlanPartly(targets, slot, value) ==
  LET good == {d \in targets : Acceptable(d, slot, value)} IN
  [ok      |-> good # {} \/ targets = {}, requested |-> targets, registry |-> registry,
   patches |-> {[target |-> d, model |-> registry[d], slot |-> slot, value |-> value] : d \in good}]

\* plan(): one rejected target rejects the set; an accepted one is bound to
\* its patches and to the registry it was made for.
Plan(targets, slot, value) ==
  LET ok == \A d \in targets : Acceptable(d, slot, value) IN
  [ok      |-> ok, requested |-> targets, registry |-> registry,
   patches |-> IF ok
               THEN {[target |-> d, model |-> registry[d], slot |-> slot, value |-> value] : d \in targets}
               ELSE {}]

-----------------------------------------------------------------------------
NoHint == [focus |-> {}, add |-> {}]
NoReport == [kind |-> None, text |-> CHOOSE t \in Texts : TRUE, hint |-> NoHint,
             before |-> {}, decision |-> None, patch |-> Clarify, requested |-> {}, writes |-> {}, id |-> 0]

Init ==
  /\ registry = [d \in Devices |->
       IF \E m \in Models : <<d, m>> \in Bindings
       THEN CHOOSE m \in Models : <<d, m>> \in Bindings ELSE None]
  /\ mounted = {d \in Devices : registry[d] # None}
  /\ guarded = {} /\ rain = FALSE
  /\ last = {} /\ pointed = {} /\ plans = <<>> /\ consumed = {} /\ changes = 0 /\ report = NoReport

\* Devices whose area and whose entity the speaker says, bound or not.
Mentioned(t) == {d \in Devices : /\ \E n \in t.named : n.area = d.area
                                 /\ \E n \in t.named : n.entity = d.entity}

\* One line of the checkpoint server, and the session commits it or not.
Speak(t, hint, decision, raw, applied) ==
  /\ report = NoReport
  /\ \E out \in Predict(decision, raw, t, hint) :
       /\ applied => out.decision = "EXECUTE"
       /\ last' = IF applied THEN out.targets ELSE last
       /\ pointed' = IF applied THEN pointed \cup Mentioned(t) \cup hint.focus \cup hint.add
                     ELSE pointed
       /\ report' = IF out.decision = "EXECUTE"
                    THEN [NoReport EXCEPT !.kind = "spoken", !.text = t, !.hint = hint,
                                          !.before = last, !.decision = decision, !.patch = out]
                    ELSE [NoReport EXCEPT !.kind = "spoken", !.patch = out]
  /\ UNCHANGED <<home, plans, consumed>>

\* The server answers in order: the line is read before the next is written.
Answered ==
  /\ report # NoReport
  /\ report' = NoReport
  /\ UNCHANGED <<home, last, pointed, plans, consumed>>

\* plan() for learned areas and entities.
MakePlan(r) ==
  /\ report = NoReport /\ Len(plans) < MaxPlans
  /\ plans' = Append(plans, Plan(ComposeTargets(r.areas, r.entities, r.known), r.slot, r.value))
  /\ UNCHANGED <<home, last, pointed, consumed, report>>

\* atomicApplyAuthorizedPlan(): also called again with the same plan.  A
\* protected target makes the whole turn throw.
Commit(i) ==
  LET p == plans[i] IN
  /\ report = NoReport
  /\ p.ok /\ i \notin consumed /\ p.registry = registry
  /\ \A x \in p.patches : x.target \in mounted \ guarded
  /\ consumed' = consumed \cup {i}
  /\ report' = [NoReport EXCEPT !.kind = "planned", !.requested = p.requested,
                                !.writes = p.patches, !.id = i]
  /\ UNCHANGED <<home, last, pointed, plans>>

Change == report = NoReport /\ changes < MaxChanges /\ changes' = changes + 1

\* DeviceRegistry.register(): a key that is bound keeps its model.
Register(d, m) ==
  /\ Change
  /\ registry[d] = None
  /\ registry' = [registry EXCEPT ![d] = m] /\ mounted' = mounted \cup {d}
  /\ UNCHANGED <<guarded, rain, last, pointed, plans, consumed, report>>

\* A new registry is built in which a device has another model or is gone.
Reprovision(d, m) ==
  /\ Change
  /\ registry[d] \notin {None, m}
  /\ registry' = [registry EXCEPT ![d] = m]
  /\ UNCHANGED <<mounted, guarded, rain, last, pointed, plans, consumed, report>>

\* A device leaves the home's runtime, a protection or the weather changes.
World ==
  /\ Change
  /\ \/ \E d \in mounted : mounted' = mounted \ {d} /\ UNCHANGED <<guarded, rain>>
     \/ \E d \in mounted : guarded' = (IF d \in guarded THEN {} ELSE {d}) /\ UNCHANGED <<mounted, rain>>
     \/ rain' = ~rain /\ UNCHANGED <<mounted, guarded>>
  /\ UNCHANGED <<registry, last, pointed, plans, consumed, report>>

Next ==
  \/ \E t \in Texts, hint \in Hints, decision \in Decisions, raw \in Raws, b \in BOOLEAN :
       Speak(t, hint, decision, raw, b)
  \/ Answered
  \/ \E r \in Requests : MakePlan(r)
  \/ \E i \in DOMAIN plans : Commit(i)
  \/ \E b \in Bindings : Register(b[1], b[2]) \/ Reprovision(b[1], b[2]) \/ Reprovision(b[1], None)
  \/ World

Spec == Init /\ [][Next]_vars

-----------------------------------------------------------------------------
(* Properties.                                                             *)

Executed == report.kind = "spoken" /\ report.patch.decision = "EXECUTE"

\* The networks may be wrong, and focus, hint and earlier turns may speak for
\* other devices.  A patch that is executed reaches only devices that this turn
\* or an applied one before it spoke of; one bound device that is named is
\* patched alone; several are patched only when the speaker joins them; a device
\* to be added is not replaced by the focus.  Where the wording shows operation,
\* direction or value, these are what it says.  (For a device that is named but
\* not bound nothing of the kind holds: the focus is patched in its place.)
DoesAsSpoken ==
  LET t == report.text  ev == OperationEvidence(t)  p == report.patch
      hint == report.hint  spoken == ExplicitTargets(t) IN
  Executed =>
    /\ p.targets # {}
    /\ p.targets \subseteq pointed \cup Mentioned(t) \cup hint.focus \cup hint.add
    /\ Cardinality(t.named) = 1 /\ t.named \subseteq Registered => p.targets = t.named
    /\ Cardinality(spoken) > 1 => t.joint /\ p.targets = spoken
    /\ spoken = {} /\ p.op = "ADD_DEVICE" /\ hint.add # {} => p.targets = hint.add
    /\ ev # NoEvidence => p.op = ev.op
    /\ ev.direction = "NEG" => p.delta < 0
    /\ ev.direction = "POS" => p.delta > 0
    /\ t.unit = "degrees" /\ p.slot = "temperature" => p.value = t.number

\* What is executed although the judgement network refused.  It is no more than
\* the wording shows, and never in a session that has patched nothing and was
\* pointed to nothing.  Out of BLOCK it is one step of a slot of a bound device,
\* out of an undo or a cancellation nothing that the wording asks to take back,
\* and out of neither anything in rain or under a protection.  (A CLARIFY is
\* overruled in rain and under protections too.)
RefusalStands ==
  LET t == report.text  ev == OperationEvidence(t)  p == report.patch
      hint == report.hint  judged == report.decision IN
  Executed /\ judged # "EXECUTE" =>
    /\ judged # "NOOP" /\ ev # NoEvidence /\ p.op = ev.op
    /\ report.before \cup hint.focus \cup hint.add # {}
    /\ judged # "CLARIFY" => SafetyContextClear
    /\ judged = "BLOCK" =>
         \E d \in p.targets \cap Registered :
           p.slot \in DOMAIN Canonical[registry[d]] /\
             LET step == Canonical[registry[d]][p.slot].step IN
             step > 0 /\ p.delta \in {step, -step}
    /\ judged \in {"UNDO_EXECUTED", "CANCEL_PENDING"} => ~t.lifecycle

\* However late a plan is committed: all the targets it was asked for are
\* written, each a device that is in the home, bound to the model it was
\* planned for, which takes the value.
PlanHolds ==
  report.kind = "planned" =>
    /\ {x.target : x \in report.writes} = report.requested
    /\ \A x \in report.writes :
         /\ x.target \in mounted /\ registry[x.target] = x.model
         /\ ValidValue(registry[x.target], x.slot, x.value)

=============================================================================
