------------------------------- MODULE HomeProofs -------------------------------
(***************************************************************************)
(* For any devices, wording, hints and outputs of the networks: what is    *)
(* executed is what the wording says where the wording is plain and        *)
(* reaches only what somebody spoke of, a refusal is overruled only by     *)
(* plain wording about something, and a plan that is committed late is the *)
(* plan that was made.  An answer is read before anything else happens, so *)
(* the first two are facts about Predict() and about the referents, which  *)
(* are always among the devices pointed at; the third needs the invariant  *)
(* PlanFits of the plans that wait to be committed.                        *)
(*                                                                         *)
(* And for any slots, calls and budgets of the home's goal, when nothing   *)
(* else runs while a call awaits the driver: an episode people stopped     *)
(* stays stopped and gets no command, a run keeps its budget, and a        *)
(* cancellation puts the slots back.  What makes it so is the invariant    *)
(* GoalInv: a call that drives is the only one, works on a copy of the     *)
(* runtime that is still true but for the slots, and what it has not sent  *)
(* yet, with what it has written down, restores the home.                  *)
(***************************************************************************)
EXTENDS SemanticTurn, HomeGoal, FiniteSetTheorems, SequenceTheorems, TLAPS

-----------------------------------------------------------------------------
(* What one turn makes of a wording and of the networks *)

LEMMA RepairedShape ==
    ASSUME NEW raw \in Raws, NEW ev, ev # NoEvidence
    PROVE  /\ Repaired(raw, ev).op = ev.op
           /\ ev.direction # None => Repaired(raw, ev).direction = ev.direction
<1>1. PICK a : a = [raw EXCEPT !.op = ev.op]
    OBVIOUS
<1>2. /\ a = [op |-> a.op, cardinality |-> a.cardinality, direction |-> a.direction,
              has_value |-> a.has_value]
      /\ a.op = ev.op
    BY <1>1, WordingAssumption
<1>3. PICK way : way = IF ev.direction = None THEN raw.direction ELSE ev.direction
    OBVIOUS
<1>4. PICK b : b = [a EXCEPT !.direction = way]
    OBVIOUS
<1>5. b.op = ev.op /\ b.direction = way
    BY <1>2, <1>4
<1>6. Repaired(raw, ev) = b
    BY <1>1, <1>3, <1>4, Zenon DEF Repaired
<1>7. QED
    BY <1>3, <1>5, <1>6

\* What wording says is one of these.
LEMMA EvidenceShape ==
    ASSUME NEW t
    PROVE  /\ OperationEvidence(t).direction \in {None, "NEG", "POS"}
           /\ OperationEvidence(t).direction # None => OperationEvidence(t).op = "PATCH_RELATIVE"
           /\ OperationEvidence(t).direction # None => OperationEvidence(t) # NoEvidence
           /\ OperationEvidence(t).op = "PATCH_RELATIVE" => OperationEvidence(t).direction # None
    BY DEF OperationEvidence, NoEvidence, None

\* One named device that is there is what the turn is about.
LEMMA OneNamed ==
    ASSUME NEW t \in Texts, Cardinality(t.named) = 1, t.named \subseteq Registered,
           mounted \subseteq Devices, NEW p, NEW hint
    PROVE  ResolveTargets(t, p, hint) = t.named
<1>1. PICK n : t.named = {n}
    BY WordingAssumption, FS_Singleton
<1>2. n \in Registered /\ n \in Devices
    BY <1>1 DEF Registered
<1>3. ASSUME NEW d \in Registered, d.area = n.area, d.entity = n.entity
      PROVE  d = n
    <2>1. d \in Devices
        BY DEF Registered
    <2>2. /\ d = [area |-> d.area, entity |-> d.entity]
          /\ n = [area |-> n.area, entity |-> n.entity]
        BY <1>2, <2>1, WordingAssumption
    <2>3. QED
        BY <1>3, <2>2
<1>4. ExplicitTargets(t) = {n}
    BY <1>1, <1>2, <1>3 DEF ExplicitTargets
<1>5. QED
    BY <1>1, <1>4, FS_Singleton DEF ResolveTargets

\* Where the targets of a turn come from.
LEMMA TargetSources ==
    ASSUME NEW t, NEW p, NEW hint, mounted \subseteq Devices
    PROVE  LET spoken == ExplicitTargets(t)
               targets == ResolveTargets(t, p, hint) IN
           /\ targets \subseteq last \cup Mentioned(t) \cup hint.focus \cup hint.add
           /\ Cardinality(spoken) > 1 => targets = {} \/ (t.joint /\ targets = spoken)
           /\ spoken = {} /\ p.op = "ADD_DEVICE" /\ hint.add # {} => targets = hint.add
<1>1. ExplicitTargets(t) \subseteq Mentioned(t)
    BY DEF ExplicitTargets, Mentioned, Registered
<1>2. Focus(hint) \subseteq last \cup hint.focus
    BY DEF Focus
<1>3. Cardinality({}) = 0
    BY FS_EmptySet
<1>4. PICK n : n = Cardinality(ExplicitTargets(t))
    OBVIOUS
<1>5. CASE n = 1
    BY <1>1, <1>3, <1>4, <1>5 DEF ResolveTargets
<1>6. CASE n # 1 /\ n > 1
    BY <1>1, <1>3, <1>4, <1>6 DEF ResolveTargets
<1>7. CASE n # 1 /\ ~(n > 1)
    BY <1>1, <1>2, <1>4, <1>7 DEF ResolveTargets
<1>8. QED
    BY <1>5, <1>6, <1>7

\* A step in a direction goes that way, by the step of the slot.
LEMMA DeltaGoes ==
    ASSUME NEW model \in Models \cup {None}, NEW slot
    PROVE  /\ RelativeDelta(model, slot, -1) = NoNumber \/ RelativeDelta(model, slot, -1) < 0
           /\ RelativeDelta(model, slot, 1) = NoNumber \/ RelativeDelta(model, slot, 1) > 0
           /\ \A way \in {-1, 1} : RelativeDelta(model, slot, way) # NoNumber =>
                /\ model # None /\ slot \in DOMAIN Canonical[model]
                /\ Canonical[model][slot].step > 0
                /\ RelativeDelta(model, slot, way) \in
                     {Canonical[model][slot].step, -Canonical[model][slot].step}
<1>1. CASE model = None \/ slot \notin DOMAIN Canonical[model]
    BY <1>1 DEF RelativeDelta
<1>2. CASE model # None /\ slot \in DOMAIN Canonical[model]
    <2>1. PICK step \in Nat : step = Canonical[model][slot].step
        BY <1>2, WordingAssumption
    <2>2. CASE step = 0
        BY <1>2, <2>1, <2>2 DEF RelativeDelta
    <2>3. CASE step # 0
        <3>1. /\ RelativeDelta(model, slot, -1) = -1 * step
              /\ RelativeDelta(model, slot, 1) = 1 * step
            BY <1>2, <2>1, <2>3 DEF RelativeDelta
        <3>2. -1 * step < 0 /\ 1 * step > 0 /\ -1 * step = -step /\ 1 * step = step
            BY <2>1, <2>3
        <3>3. QED
            BY <1>2, <2>1, <3>1, <3>2
    <2>4. QED
        BY <2>2, <2>3
<1>3. QED
    BY <1>1, <1>2

\* A patch that is executed was composed of what the networks proposed.
LEMMA Composed ==
    ASSUME NEW t, NEW hint, NEW decision, NEW raw, NEW out \in Predict(decision, raw, t, hint),
           out.decision = "EXECUTE"
    PROVE  LET p == Materialize(Repaired(raw, OperationEvidence(t)), t) IN
           /\ Judged(decision, t, hint) = "EXECUTE"
           /\ \E primary \in ResolveTargets(t, p, hint) : out = Compose(p, t, hint, primary)
<1>1. CASE Judged(decision, t, hint) # "EXECUTE"
    BY <1>1 DEF Predict, Clarify
<1>2. CASE Judged(decision, t, hint) = "EXECUTE"
    BY <1>2 DEF Predict, Clarify
<1>3. QED
    BY <1>1, <1>2

LEMMA ComposedFields ==
    ASSUME NEW p, NEW t, NEW hint, NEW primary, Compose(p, t, hint, primary).decision = "EXECUTE"
    PROVE  LET out == Compose(p, t, hint, primary) IN
           /\ out.targets = ResolveTargets(t, p, hint)
           /\ out.op = p.op
           /\ p.op = "PATCH_RELATIVE" =>
                /\ out.delta = RelativeDelta(registry[primary], out.slot, p.delta)
                /\ RelativeDelta(registry[primary], out.slot, p.delta) # NoNumber
                /\ primary \in Registered
           /\ \/ /\ p.op \notin {"PATCH_SLOT", "PATCH_RELATIVE", "CLOSE_DEVICE"}
                 /\ out.slot = p.slot
              \/ DeterministicValue(t, out.slot) # NoNumber =>
                   out.value = DeterministicValue(t, out.slot)
    BY DEF Compose, Clarify

\* The parts of DoesAsSpoken, for one patch.
Says(t, hint, out) ==
    LET ev == OperationEvidence(t)  spoken == ExplicitTargets(t) IN
    /\ out.targets # {}
    /\ out.targets \subseteq last \cup Mentioned(t) \cup hint.focus \cup hint.add
    /\ Cardinality(t.named) = 1 /\ t.named \subseteq Registered => out.targets = t.named
    /\ Cardinality(spoken) > 1 => t.joint /\ out.targets = spoken
    /\ spoken = {} /\ out.op = "ADD_DEVICE" /\ hint.add # {} => out.targets = hint.add
    /\ ev # NoEvidence => out.op = ev.op
    /\ ev.direction = "NEG" => out.delta < 0
    /\ ev.direction = "POS" => out.delta > 0
    /\ t.unit = "degrees" /\ out.slot = "temperature" => out.value = t.number

\* One step of a slot that a bound target has.
OneStep(out) ==
    \E d \in out.targets \cap Registered :
        out.slot \in DOMAIN Canonical[registry[d]] /\
          LET step == Canonical[registry[d]][out.slot].step IN
          step > 0 /\ out.delta \in {step, -step}

HomeOK == /\ registry \in [Devices -> Models \cup {None}]
          /\ mounted \subseteq Devices

LEMMA PredictSays ==
    ASSUME HomeOK, NEW t \in Texts, NEW hint, NEW decision, NEW raw \in Raws,
           NEW out \in Predict(decision, raw, t, hint), out.decision = "EXECUTE"
    PROVE  /\ Says(t, hint, out)
           /\ OperationEvidence(t).op = "PATCH_RELATIVE" => OneStep(out)
<1> DEFINE ev == OperationEvidence(t)
           p == Materialize(Repaired(raw, ev), t)
<1>1. PICK primary \in ResolveTargets(t, p, hint) : out = Compose(p, t, hint, primary)
    BY Composed
<1>2. /\ out.targets = ResolveTargets(t, p, hint) /\ out.op = p.op
      /\ p.op = "PATCH_RELATIVE" =>
           /\ out.delta = RelativeDelta(registry[primary], out.slot, p.delta)
           /\ RelativeDelta(registry[primary], out.slot, p.delta) # NoNumber
           /\ primary \in Registered
      /\ \/ /\ p.op \notin {"PATCH_SLOT", "PATCH_RELATIVE", "CLOSE_DEVICE"}
            /\ out.slot = p.slot
         \/ DeterministicValue(t, out.slot) # NoNumber => out.value = DeterministicValue(t, out.slot)
    <2> HIDE DEF p
    <2>1. QED
        BY <1>1, ComposedFields
<1>3. ev # NoEvidence => p.op = ev.op
    BY RepairedShape DEF Materialize
<1>4. /\ ev.direction = "NEG" => p.delta = -1
      /\ ev.direction = "POS" => p.delta = 1
    BY EvidenceShape, RepairedShape DEF Materialize, None
<1>5. p.slot = "power" \/ p.slot = None
    BY DEF Materialize
<1>6. /\ ev.direction \in {None, "NEG", "POS"}
      /\ ev.direction # None => ev.op = "PATCH_RELATIVE" /\ ev # NoEvidence
      /\ ev.op = "PATCH_RELATIVE" => ev.direction # None
    BY EvidenceShape
<1> HIDE DEF p, ev
<1>7. Cardinality(t.named) = 1 /\ t.named \subseteq Registered => out.targets = t.named
    BY <1>2, OneNamed DEF HomeOK
<1>8. /\ out.targets # {}
      /\ out.targets \subseteq last \cup Mentioned(t) \cup hint.focus \cup hint.add
      /\ Cardinality(ExplicitTargets(t)) > 1 => t.joint /\ out.targets = ExplicitTargets(t)
      /\ ExplicitTargets(t) = {} /\ out.op = "ADD_DEVICE" /\ hint.add # {} => out.targets = hint.add
    BY <1>1, <1>2, TargetSources DEF HomeOK
<1>9. ASSUME ev.op = "PATCH_RELATIVE"
      PROVE  /\ ev.direction = "NEG" => out.delta < 0
             /\ ev.direction = "POS" => out.delta > 0
             /\ OneStep(out)
    <2>1. p.op = "PATCH_RELATIVE" /\ ev.direction \in {"NEG", "POS"}
        BY <1>3, <1>6, <1>9
    <2>2. PICK model : model = registry[primary]
        OBVIOUS
    <2>3. /\ out.delta = RelativeDelta(model, out.slot, p.delta)
          /\ RelativeDelta(model, out.slot, p.delta) # NoNumber
          /\ primary \in Registered /\ p.delta \in {-1, 1}
        BY <1>2, <1>4, <2>1, <2>2
    <2>4. model \in Models \cup {None}
        BY <2>2, <2>3 DEF Registered, HomeOK
    <2>5. /\ out.slot \in DOMAIN Canonical[model] /\ Canonical[model][out.slot].step > 0
          /\ out.delta \in {Canonical[model][out.slot].step, -Canonical[model][out.slot].step}
        BY <2>3, <2>4, DeltaGoes
    <2>6. OneStep(out)
        BY <1>1, <1>2, <2>2, <2>3, <2>5 DEF OneStep
    <2>7. /\ ev.direction = "NEG" => out.delta < 0
          /\ ev.direction = "POS" => out.delta > 0
        BY <1>4, <2>3, <2>4, DeltaGoes
    <2>8. QED
        BY <2>6, <2>7
<1>10. ASSUME t.unit = "degrees", out.slot = "temperature"
       PROVE  out.value = t.number
    <2>1. DeterministicValue(t, out.slot) = t.number /\ t.number # NoNumber
        BY <1>10, WordingAssumption DEF DeterministicValue
    <2>2. out.slot # p.slot
        BY <1>5, <1>10 DEF None
    <2>3. QED
        BY <1>2, <2>1, <2>2
<1>11. ev.direction \in {"NEG", "POS"} => ev.op = "PATCH_RELATIVE"
    BY <1>6 DEF None
<1>12. QED
    BY <1>2, <1>3, <1>7, <1>8, <1>9, <1>10, <1>11 DEF Says, ev

\* The parts of RefusalStands, for one judgement.
Stands(t, hint, judged, out) ==
    judged # "EXECUTE" =>
      /\ judged # "NOOP" /\ OperationEvidence(t) # NoEvidence
      /\ last \cup hint.focus \cup hint.add # {}
      /\ judged # "CLARIFY" => SafetyContextClear
      /\ judged = "BLOCK" => OperationEvidence(t).op = "PATCH_RELATIVE"
      /\ judged \in {"UNDO_EXECUTED", "CANCEL_PENDING"} => ~t.lifecycle

LEMMA JudgedStands ==
    ASSUME NEW t, NEW hint, NEW decision, NEW out, Judged(decision, t, hint) = "EXECUTE"
    PROVE  Stands(t, hint, decision, out)
<1>1. HasReferent(hint) => last \cup hint.focus \cup hint.add # {}
    BY DEF HasReferent, Focus
<1>2. OperationEvidence(t).op = "PATCH_RELATIVE" => OperationEvidence(t) # NoEvidence
    BY EvidenceShape
<1>3. QED
    BY <1>1, <1>2 DEF Judged, Stands, SafeBlockOverride, SafeLifecycleOverride

-----------------------------------------------------------------------------
(* Plans *)

Asked == UNION {[area : r.areas, entity : r.entities] : r \in Requests}
PlanPatch == [target : Devices, model : Models, slot : {r.slot : r \in Requests},
              value : {r.value : r \in Requests}]
PlanType == [ok : BOOLEAN, requested : SUBSET Asked,
             registry : [Devices -> Models \cup {None}], patches : SUBSET PlanPatch]

\* A plan that was accepted has all its targets, bound as they were then.
PlanFits(p) ==
    p.ok => /\ {x.target : x \in p.patches} = p.requested
            /\ \A x \in p.patches : /\ p.registry[x.target] = x.model
                                    /\ ValidValue(x.model, x.slot, x.value)

PlansFit == plans \in Seq(PlanType) /\ \A i \in 1..Len(plans) : PlanFits(plans[i])

LEMMA PlanIsMade ==
    ASSUME HomeOK, NEW r \in Requests, NEW targets \in SUBSET Asked
    PROVE  /\ Plan(targets, r.slot, r.value) \in PlanType
           /\ PlanFits(Plan(targets, r.slot, r.value))
<1> DEFINE slot == r.slot
           value == r.value
           p == Plan(targets, slot, value)
           Patch(d) == [target |-> d, model |-> registry[d], slot |-> slot, value |-> value]
<1>1. CASE \A d \in targets : Acceptable(d, slot, value)
    <2>1. p = [ok |-> TRUE, requested |-> targets, registry |-> registry,
               patches |-> {Patch(d) : d \in targets}]
        BY <1>1 DEF Plan
    <2>2. ASSUME NEW d \in targets
          PROVE  /\ Patch(d) \in PlanPatch /\ Patch(d).target = d
                 /\ registry[d] = Patch(d).model /\ ValidValue(Patch(d).model, slot, value)
        BY <1>1, <2>2 DEF Acceptable, HomeOK, PlanPatch
    <2>3. p \in PlanType
        BY <2>1, <2>2 DEF PlanType, HomeOK
    <2>4. {x.target : x \in p.patches} = p.requested
        <3>1. p.requested = targets /\ p.patches = {Patch(d) : d \in targets}
            BY <2>1
        <3>2. \A d \in targets : Patch(d).target = d
            OBVIOUS
        <3> HIDE DEF p, Patch
        <3>3. QED
            BY <3>1, <3>2
    <2>5. PlanFits(p)
        BY <2>1, <2>2, <2>4 DEF PlanFits
    <2>6. QED
        BY <2>3, <2>5
<1>2. CASE ~\A d \in targets : Acceptable(d, slot, value)
    <2>1. p = [ok |-> FALSE, requested |-> targets, registry |-> registry, patches |-> {}]
        BY <1>2 DEF Plan
    <2>2. QED
        BY <2>1 DEF PlanType, HomeOK, PlanFits
<1>3. QED
    BY <1>1, <1>2

-----------------------------------------------------------------------------
(* The invariant *)

\* What the session may refer back to is always something that was pointed at.
SemanticInv == HomeOK /\ PlansFit /\ last \subseteq pointed /\ DoesAsSpoken /\ RefusalStands /\ PlanHolds

\* Nothing is said of an answer that was read.
LEMMA NothingReported ==
    /\ report = NoReport => DoesAsSpoken /\ RefusalStands /\ PlanHolds
    /\ report' = NoReport => DoesAsSpoken' /\ RefusalStands' /\ PlanHolds'
    BY DEF NoReport, DoesAsSpoken, RefusalStands, PlanHolds, Executed, None

LEMMA SpeakStep ==
    ASSUME SemanticInv, NEW t \in Texts, NEW hint \in Hints, NEW decision \in Decisions,
           NEW raw \in Raws, NEW b \in BOOLEAN, Speak(t, hint, decision, raw, b)
    PROVE  SemanticInv'
<1>1. PICK out \in Predict(decision, raw, t, hint) :
         /\ b => out.decision = "EXECUTE"
         /\ last' = IF b THEN out.targets ELSE last
         /\ pointed' = IF b THEN pointed \cup Mentioned(t) \cup hint.focus \cup hint.add
                       ELSE pointed
         /\ report' = IF out.decision = "EXECUTE"
                      THEN [NoReport EXCEPT !.kind = "spoken", !.text = t, !.hint = hint,
                                            !.before = last, !.decision = decision, !.patch = out]
                      ELSE [NoReport EXCEPT !.kind = "spoken", !.patch = out]
    BY DEF Speak
<1>2. UNCHANGED <<registry, mounted, guarded, rain, plans>>
    BY DEF Speak, home
<1>3. HomeOK' /\ PlansFit' /\ last \subseteq pointed
    BY <1>2 DEF SemanticInv, HomeOK, PlansFit
<1>4. /\ Registered' = Registered /\ SafetyContextClear' = SafetyContextClear
      /\ ExplicitTargets(t)' = ExplicitTargets(t)
    BY <1>2 DEF Registered, SafetyContextClear, ExplicitTargets
<1>5. CASE out.decision = "EXECUTE"
    <2>1. /\ report'.kind = "spoken" /\ report'.text = t /\ report'.hint = hint
          /\ report'.before = last /\ report'.decision = decision /\ report'.patch = out
        BY <1>1, <1>5 DEF NoReport
    <2>2. /\ Says(t, hint, out) /\ Stands(t, hint, decision, out)
          /\ OperationEvidence(t).op = "PATCH_RELATIVE" => OneStep(out)
        BY <1>5, PredictSays, Composed, JudgedStands DEF SemanticInv
    <2>3. last' \subseteq pointed'
        BY <1>1, <1>3, <2>2 DEF Says
    <2>4. out.targets \subseteq pointed' \cup Mentioned(t) \cup hint.focus \cup hint.add
        BY <1>1, <1>3, <2>2 DEF Says
    <2>5. DoesAsSpoken'
        BY <1>4, <2>1, <2>2, <2>4 DEF DoesAsSpoken, Executed, Says
    <2>6. RefusalStands'
        BY <1>2, <1>4, <2>1, <2>2 DEF RefusalStands, Executed, Stands, Says, OneStep
    <2>7. PlanHolds'
        BY <2>1 DEF PlanHolds
    <2>8. QED
        BY <1>3, <2>3, <2>5, <2>6, <2>7 DEF SemanticInv
<1>6. CASE out.decision # "EXECUTE"
    <2>1. report'.kind = "spoken" /\ report'.patch = out
        BY <1>1, <1>6 DEF NoReport
    <2>2. DoesAsSpoken' /\ RefusalStands' /\ PlanHolds'
        BY <1>6, <2>1 DEF DoesAsSpoken, RefusalStands, PlanHolds, Executed
    <2>3. last' \subseteq pointed'
        BY <1>1, <1>3, <1>6
    <2>4. QED
        BY <1>3, <2>2, <2>3 DEF SemanticInv
<1>7. QED
    BY <1>5, <1>6

LEMMA MakePlanStep ==
    ASSUME SemanticInv, NEW r \in Requests, MakePlan(r)
    PROVE  SemanticInv'
<1>1. PICK targets : targets = ComposeTargets(r.areas, r.entities, r.known)
    OBVIOUS
<1>2. PICK p : p = Plan(targets, r.slot, r.value)
    OBVIOUS
<1>3. /\ plans' = Append(plans, p)
      /\ report = NoReport /\ UNCHANGED <<report, registry, mounted, last, pointed>>
    BY <1>1, <1>2 DEF MakePlan, home
<1>4. targets \in SUBSET Asked
    BY <1>1 DEF ComposeTargets, Asked
<1>5. p \in PlanType /\ PlanFits(p)
    BY <1>2, <1>4, PlanIsMade DEF SemanticInv
<1>6. plans \in Seq(PlanType) /\ \A i \in 1..Len(plans) : PlanFits(plans[i])
    BY DEF SemanticInv, PlansFit
<1>7. /\ plans' \in Seq(PlanType) /\ Len(plans') = Len(plans) + 1
      /\ \A i \in 1..Len(plans') : plans'[i] = IF i <= Len(plans) THEN plans[i] ELSE p
    BY <1>3, <1>5, <1>6, AppendProperties
<1>8. \A i \in 1..Len(plans') : PlanFits(plans'[i])
    <2> SUFFICES ASSUME NEW i \in 1..Len(plans')
                 PROVE  PlanFits(plans'[i])
        OBVIOUS
    <2>1. Len(plans) \in Nat
        BY <1>6, LenProperties
    <2>2. QED
        BY <1>5, <1>6, <1>7, <2>1
<1>9. HomeOK' /\ PlansFit' /\ last' \subseteq pointed'
    BY <1>3, <1>7, <1>8 DEF SemanticInv, HomeOK, PlansFit
<1>10. report' = NoReport
    BY <1>3
<1>11. QED
    BY <1>9, <1>10, NothingReported DEF SemanticInv

LEMMA CommitStep ==
    ASSUME SemanticInv, NEW i \in DOMAIN plans, Commit(i)
    PROVE  SemanticInv'
<1> DEFINE p == plans[i]
<1>1. /\ p.ok /\ p.registry = registry /\ \A x \in p.patches : x.target \in mounted \ guarded
      /\ report' = [NoReport EXCEPT !.kind = "planned", !.requested = p.requested,
                                    !.writes = p.patches, !.id = i]
      /\ UNCHANGED <<registry, mounted, guarded, rain, plans, last, pointed>>
    BY DEF Commit, home
<1>2. report'.kind = "planned" /\ report'.requested = p.requested /\ report'.writes = p.patches
    BY <1>1 DEF NoReport
<1>3. PlanFits(p)
    BY LenProperties DEF SemanticInv, PlansFit
<1>4. HomeOK' /\ PlansFit' /\ last' \subseteq pointed'
    BY <1>1 DEF SemanticInv, HomeOK, PlansFit
<1>5. PlanHolds'
    BY <1>1, <1>2, <1>3 DEF PlanHolds, PlanFits
<1>6. DoesAsSpoken' /\ RefusalStands'
    BY <1>2 DEF DoesAsSpoken, RefusalStands, Executed
<1>7. QED
    BY <1>4, <1>5, <1>6 DEF SemanticInv

LEMMA StepSemantic ==
    ASSUME SemanticInv, [Next]_vars
    PROVE  SemanticInv'
<1>1. CASE UNCHANGED vars
    BY <1>1 DEF vars, SemanticInv, HomeOK, PlansFit, DoesAsSpoken, RefusalStands, PlanHolds,
                Executed, Registered, SafetyContextClear, ExplicitTargets
<1>2. ASSUME HomeOK', PlansFit', UNCHANGED <<last, pointed>>, report' = NoReport
      PROVE  SemanticInv'
    BY <1>2, NothingReported DEF SemanticInv
<1>3. CASE Answered
    BY <1>2, <1>3 DEF Answered, SemanticInv, HomeOK, PlansFit, home
<1>4. ASSUME NEW d \in Devices, NEW m \in Models \cup {None},
             registry' = [registry EXCEPT ![d] = m], mounted' \subseteq Devices,
             UNCHANGED <<plans, last, pointed>>, report' = NoReport
      PROVE  SemanticInv'
    BY <1>2, <1>4 DEF SemanticInv, HomeOK, PlansFit
<1>5. ASSUME NEW b \in Bindings,
             Register(b[1], b[2]) \/ Reprovision(b[1], b[2]) \/ Reprovision(b[1], None)
      PROVE  SemanticInv'
    <2>1. b[1] \in Devices /\ b[2] \in Models
        BY WordingAssumption
    <2>2. mounted' \subseteq Devices
        BY <1>5, <2>1 DEF Register, Reprovision, SemanticInv, HomeOK
    <2>3. UNCHANGED <<plans, last, pointed>> /\ report' = NoReport
        BY <1>5 DEF Register, Reprovision, Change
    <2>4. \/ registry' = [registry EXCEPT ![b[1]] = b[2]]
          \/ registry' = [registry EXCEPT ![b[1]] = None]
        BY <1>5 DEF Register, Reprovision
    <2>5. QED
        BY <1>4, <2>1, <2>2, <2>3, <2>4
<1>6. CASE World
    <2>1. UNCHANGED <<registry, plans, last, pointed>> /\ report' = NoReport /\ mounted' \subseteq mounted
        BY <1>6 DEF World, Change
    <2>2. QED
        BY <1>2, <2>1 DEF SemanticInv, HomeOK, PlansFit
<1>7. QED
    BY <1>1, <1>3, <1>5, <1>6, SpeakStep, MakePlanStep, CommitStep DEF Next

LEMMA InitSemantic == Init => SemanticInv
<1> SUFFICES ASSUME Init
             PROVE  SemanticInv
    OBVIOUS
<1>1. registry = [d \in Devices |->
        IF \E m \in Models : <<d, m>> \in Bindings
        THEN CHOOSE m \in Models : <<d, m>> \in Bindings ELSE None]
    BY DEF Init
<1>2. HomeOK
    BY <1>1 DEF Init, HomeOK
<1>3. PlansFit
    BY DEF Init, PlansFit
<1>4. QED
    BY <1>2, <1>3, NothingReported DEF Init, SemanticInv

-----------------------------------------------------------------------------
(* The theorems *)

LEMMA SemanticAlways == Spec => []SemanticInv
<1>1. SemanticInv /\ [Next]_vars => SemanticInv'
    BY StepSemantic
<1>2. QED
    BY <1>1, InitSemantic, PTL DEF Spec

\* Whatever the networks answer, whatever the focus and the hint are on and
\* whatever was patched before: only devices that somebody spoke of are patched, one
\* bound device that is named is patched alone, several only when they are joined, and
\* with the operation, the direction and the value that the wording shows.
THEOREM AlwaysDoesAsSpoken == Spec => []DoesAsSpoken
    BY SemanticAlways, PTL DEF SemanticInv

\* A refusal of the judgement network is overruled only by plain wording and when there
\* is something to refer to; a BLOCK becomes one step of a slot, an undo or a
\* cancellation nothing that is asked to be taken back, and neither of them anything
\* while it rains or a protection is in force.
THEOREM RefusalAlwaysStands == Spec => []RefusalStands
    BY SemanticAlways, PTL DEF SemanticInv

\* What is committed is the plan for all the targets it was made for, however
\* the registry and the home changed in between.
THEOREM PlanAlwaysHolds == Spec => []PlanHolds
    BY SemanticAlways, PTL DEF SemanticInv

-----------------------------------------------------------------------------
(* The goal of a home: its invariant *)

\* Nothing else runs while a call awaits the driver.
Serial == ~Overlap

NobodyDrives == \A c \in Call : pc[c] # "driving"

HomeTypes == /\ runtime \in Runtime /\ world \in Slots
             /\ refused \in BOOLEAN /\ episode \in 0..MaxEpisodes

\* What a call keeps, whatever it does.  A run has sent no more than it will have
\* counted when its step ends, and between two turns no more than it has counted.
CallTypes == /\ pc \in [Call -> {"idle", "observing", "planning", "driving"}]
             /\ op \in [Call -> {"agent", "user", "cancel"}]
             /\ copy \in [Call -> Runtime]
             /\ todo \in [Call -> Patches]
             /\ asked \in [Call -> SUBSET Slot]
             /\ steps \in [Call -> 0..MaxSteps]
             /\ actions \in [Call -> 0..MaxActions]
             /\ spent \in [Call -> 0..MaxActions]
             /\ sent \in [Call -> Nat]

CallInv == /\ CallTypes
           /\ \A c \in Call : sent[c] <= actions[c] + spent[c]
           /\ \A c \in Call : pc[c] # "driving" \/ op[c] # "agent" => sent[c] <= actions[c]
           /\ \A c \in Call : pc[c] # "driving" => op[c] = "agent" /\ todo[c] = NoPatches

AllLive == held \in [Call -> {Live}]

\* A call that drives does so alone, in an active episode, with a copy of the
\* runtime as it still is but for the slots.
DrivesAlone(c) ==
    /\ Active /\ copy[c].status = "active" /\ copy[c].ownership = runtime.ownership
    /\ \A d \in Call : pc[d] = "driving" => d = c

\* What a run has sent and its turn still has to send fits in its budget.
RoomLeft(c) == op[c] = "agent" => sent[c] + Cardinality(DOMAIN todo[c]) <= MaxActions

\* What a cancellation has not sent yet restores a slot, and what it has sent is
\* restored unless it was refused; nothing else has to be.
TakesBack(c) ==
    op[c] = "cancel" /\ ~refused =>
        \A s \in runtime.ownership.owned \ runtime.ownership.override :
            IF s \in DOMAIN todo[c] THEN todo[c][s] = runtime.ownership.baseline[s]
            ELSE copy[c].slots[s] = runtime.ownership.baseline[s]

TurnSound(c) == DrivesAlone(c) /\ RoomLeft(c) /\ TakesBack(c)

\* The invariant: the home and its calls are typed, all of them see the episode of
\* the runtime, and the one that drives can restore it.
GoalInv == /\ HomeTypes /\ CallInv /\ AllLive /\ CancelRestores
           /\ \A c \in Call : pc[c] = "driving" => TurnSound(c)

\* What a step may do to an episode people have stopped.
StopsForGood == runtime.status \in {"completed", "cancelled", "handed_off"}
                  => runtime'.status = runtime.status \/ episode' # episode

LEMMA Bounds == ASSUME Serial
                PROVE  /\ IsFiniteSet(Slot) /\ MaxSteps \in Nat \ {0}
                       /\ MaxActions \in Nat /\ MaxEpisodes \in Nat /\ MaxValue \in Nat /\ ~Overlap
BY GoalAssumption DEF Serial

LEMMA MayRunAlone == ASSUME Serial, MayRun PROVE NobodyDrives
BY DEF Serial, MayRun, NobodyDrives

LEMMA EmptyIsTyped == Serial => NoPatches \in Patches /\ NoRuntime \in Runtime /\ Nothing \in Ownership
<1> SUFFICES ASSUME Serial PROVE NoPatches \in Patches /\ NoRuntime \in Runtime /\ Nothing \in Ownership
    OBVIOUS
<1>1. 0 \in Value
    BY Bounds DEF Value
<1>2. NoPatches \in [{} -> Value]
    BY DEF NoPatches
<1>3. {} \in SUBSET Slot
    OBVIOUS
<1>4. NoPatches \in Patches
    BY <1>2, <1>3 DEF Patches
<1>5. Nothing \in Ownership
    BY <1>1 DEF Nothing, Ownership, Slots
<1>6. NoRuntime \in Runtime
    BY <1>1, <1>5 DEF NoRuntime, Runtime, Slots, Status
<1>7. QED
    BY <1>4, <1>5, <1>6

-----------------------------------------------------------------------------
(* Calls *)

\* Nobody drives any more: the rest of the invariant is about the home.
LEMMA QuietIsSound ==
    ASSUME HomeTypes', CallInv', AllLive', CancelRestores', NobodyDrives'
    PROVE  GoalInv'
BY DEF GoalInv, NobodyDrives

LEMMA EndsCall ==
    ASSUME Serial, CallInv, NEW c \in Call, Ends(c)
    PROVE  CallInv' /\ \A d \in Call : pc'[d] = "driving" => d # c /\ pc[d] = "driving"
<1>1. CallTypes'
    BY EmptyIsTyped, Bounds DEF CallInv, CallTypes, Ends
<1>2. \A d \in Call : /\ d # c => /\ pc'[d] = pc[d] /\ op'[d] = op[d] /\ todo'[d] = todo[d]
                                  /\ sent'[d] = sent[d] /\ actions'[d] = actions[d]
                                  /\ spent'[d] = spent[d]
                      /\ d = c => /\ pc'[d] = "idle" /\ op'[d] = "agent" /\ todo'[d] = NoPatches
                                  /\ sent'[d] = 0 /\ actions'[d] = 0 /\ spent'[d] = 0
    BY DEF Ends, CallInv, CallTypes
<1>3. QED
    BY <1>1, <1>2 DEF CallInv

LEMMA NextCall ==
    ASSUME Serial, CallInv, NEW c \in Call, NextStep(c),
           op[c] = "agent", todo[c] = NoPatches
    PROVE  CallInv' /\ \A d \in Call : pc'[d] = "driving" => d # c /\ pc[d] = "driving"
<1>1. CASE Ends(c)
    BY <1>1, EndsCall
<1>2. CASE /\ steps[c] + 1 < MaxSteps
           /\ actions[c] + spent[c] < MaxActions
           /\ pc' = [pc EXCEPT ![c] = "observing"]
           /\ copy' = [copy EXCEPT ![c] = NoRuntime]
           /\ asked' = [asked EXCEPT ![c] = {}]
           /\ steps' = [steps EXCEPT ![c] = @ + 1]
           /\ actions' = [actions EXCEPT ![c] = @ + spent[c]]
           /\ spent' = [spent EXCEPT ![c] = 0]
           /\ UNCHANGED <<op, todo, sent>>
    <2>1. steps[c] + 1 \in 0..MaxSteps /\ actions[c] + spent[c] \in 0..MaxActions
        BY <1>2, Bounds DEF CallInv, CallTypes
    <2>2. CallTypes'
        <3>1. CallTypes
            BY DEF CallInv
        <3>2. /\ pc' \in [Call -> {"idle", "observing", "planning", "driving"}]
              /\ copy' \in [Call -> Runtime] /\ asked' \in [Call -> SUBSET Slot]
              /\ steps' \in [Call -> 0..MaxSteps]
            BY <1>2, <2>1, <3>1, EmptyIsTyped DEF CallTypes
        <3>3. actions' \in [Call -> 0..MaxActions]
            BY <1>2, <2>1, <3>1 DEF CallTypes
        <3>4. spent' \in [Call -> 0..MaxActions]
            BY <1>2, <3>1, Bounds DEF CallTypes
        <3>5. QED
            BY <1>2, <3>1, <3>2, <3>3, <3>4 DEF CallTypes
    <2>3. \A d \in Call : /\ d # c => pc'[d] = pc[d]
                          /\ d = c => pc'[d] = "observing"
                          /\ op'[d] = op[d] /\ todo'[d] = todo[d] /\ sent'[d] = sent[d]
                          /\ d # c => actions'[d] = actions[d] /\ spent'[d] = spent[d]
                          /\ d = c => actions'[d] = actions[d] + spent[d] /\ spent'[d] = 0
        BY <1>2 DEF CallInv, CallTypes
    <2>4. \A d \in Call : /\ sent[d] \in Nat /\ actions[d] \in Nat /\ spent[d] \in Nat
                          /\ sent[d] <= actions[d] + spent[d]
        BY Bounds DEF CallInv, CallTypes
    <2>5. \A d \in Call : /\ sent'[d] <= actions'[d] + spent'[d]
                          /\ pc'[d] # "driving" \/ op'[d] # "agent" => sent'[d] <= actions'[d]
        BY <2>3, <2>4 DEF CallInv
    <2>6. QED
        BY <2>2, <2>3, <2>5 DEF CallInv
<1>3. QED
    BY <1>1, <1>2 DEF NextStep

\* A turn starts when nobody drives, in an active episode.
LEMMA TurnStarts ==
    ASSUME Serial, GoalInv, NEW c \in Call, NEW o \in {"agent", "user", "cancel"},
           NEW patches \in Patches, Turn(c, o, patches),
           HomeTypes', runtime'.status = "active",
           o = "agent" => sent[c] + Cardinality(DOMAIN patches) <= MaxActions,
           o = "cancel" /\ ~refused' =>
               \A s \in runtime'.ownership.owned \ runtime'.ownership.override :
                   IF s \in DOMAIN patches THEN patches[s] = runtime'.ownership.baseline[s]
                   ELSE runtime'.slots[s] = runtime'.ownership.baseline[s]
    PROVE  GoalInv'
<1>1. NobodyDrives
    BY MayRunAlone DEF Turn
<1>2. /\ pc' = [pc EXCEPT ![c] = "driving"] /\ op' = [op EXCEPT ![c] = o]
      /\ copy' = [copy EXCEPT ![c] = runtime'] /\ todo' = [todo EXCEPT ![c] = patches]
      /\ asked' = [asked EXCEPT ![c] = DOMAIN patches]
      /\ held' = held /\ steps' = steps /\ actions' = actions /\ sent' = sent
      /\ spent' = spent
    BY DEF Turn
<1>3. CallTypes /\ \A d \in Call : sent[d] <= actions[d]
    BY <1>1 DEF GoalInv, CallInv, NobodyDrives
<1>4. DOMAIN patches \in SUBSET Slot
    BY DEF Patches
<1>5. runtime' \in Runtime
    BY DEF HomeTypes
<1>6. CallTypes'
    BY <1>2, <1>3, <1>4, <1>5 DEF CallTypes
<1>7. \A d \in Call : /\ d # c => /\ pc'[d] = pc[d] /\ op'[d] = op[d] /\ todo'[d] = todo[d]
                      /\ d = c => /\ pc'[d] = "driving" /\ op'[d] = o /\ todo'[d] = patches
                                  /\ copy'[d] = runtime'
    BY <1>2, <1>3 DEF CallTypes
<1>8. CallInv'
    BY <1>2, <1>3, <1>6, <1>7 DEF GoalInv, CallInv
<1>9. AllLive' /\ CancelRestores'
    BY <1>2 DEF GoalInv, AllLive, CancelRestores
<1>10. \A d \in Call : pc'[d] = "driving" => d = c
    BY <1>1, <1>7 DEF NobodyDrives
<1>11. DrivesAlone(c)'
    BY <1>7, <1>10 DEF DrivesAlone, Active
<1>12. RoomLeft(c)'
    BY <1>2, <1>7 DEF RoomLeft
<1>13. TakesBack(c)'
    BY <1>7 DEF TakesBack
<1>14. QED
    BY <1>8, <1>9, <1>10, <1>11, <1>12, <1>13 DEF GoalInv, TurnSound

-----------------------------------------------------------------------------
(* People *)

\* A step that leaves the calls alone while nobody drives.
LEMMA CallsRest ==
    ASSUME GoalInv, NobodyDrives, UNCHANGED <<pc, op, copy, todo, asked, steps, actions, spent, sent>>
    PROVE  CallInv' /\ NobodyDrives'
BY DEF GoalInv, CallInv, CallTypes, NobodyDrives

LEMMA BeginGoalKeeps ==
    ASSUME Serial, GoalInv, BeginGoal
    PROVE  GoalInv' /\ StopsForGood
<1>1. NobodyDrives
    BY MayRunAlone DEF BeginGoal
<1>2. CallInv' /\ NobodyDrives'
    BY <1>1, CallsRest DEF BeginGoal
<1>3. AllLive'
    BY <1>1 DEF BeginGoal, GoalInv, AllLive, NobodyDrives
<1>4. /\ runtime' = [runtime EXCEPT !.status = "active", !.ownership = Nothing]
      /\ episode' = episode + 1 /\ episode < MaxEpisodes /\ refused' = FALSE /\ world' = world
    BY DEF BeginGoal
<1>5. HomeTypes'
    <2>1. runtime \in Runtime /\ Nothing \in Ownership
        BY EmptyIsTyped DEF GoalInv, HomeTypes
    <2>2. runtime' \in Runtime
        BY <1>4, <2>1 DEF Runtime, Status
    <2>3. episode' \in 0..MaxEpisodes
        BY <1>4, Bounds DEF GoalInv, HomeTypes
    <2>4. QED
        BY <1>4, <2>2, <2>3 DEF GoalInv, HomeTypes
<1>6. runtime'.status = "active"
    BY <1>4 DEF GoalInv, HomeTypes, Runtime
<1>7. CancelRestores'
    BY <1>6 DEF CancelRestores
<1>8. StopsForGood
    BY <1>4, Bounds DEF StopsForGood, GoalInv, HomeTypes
<1>9. QED
    BY <1>2, <1>3, <1>5, <1>7, <1>8, QuietIsSound

LEMMA TakeoverKeeps ==
    ASSUME Serial, GoalInv, Takeover
    PROVE  GoalInv' /\ StopsForGood
<1>1. NobodyDrives
    BY MayRunAlone DEF Takeover
<1>2. CallInv' /\ NobodyDrives'
    BY <1>1, CallsRest DEF Takeover, callVars
<1>3. /\ runtime' = [runtime EXCEPT !.status = "handed_off",
                                    !.ownership.override = runtime.ownership.owned]
      /\ world' = world /\ refused' = refused /\ episode' = episode /\ held' = held
    BY DEF Takeover, callVars
<1>4. AllLive'
    BY <1>3 DEF GoalInv, AllLive
<1>5. runtime'.status = "handed_off" /\ HomeTypes'
    BY <1>3 DEF GoalInv, HomeTypes, Runtime, Ownership, Status
<1>6. CancelRestores'
    BY <1>5 DEF CancelRestores
<1>7. StopsForGood
    BY DEF StopsForGood, Takeover, Active
<1>8. QED
    BY <1>2, <1>4, <1>5, <1>6, <1>7, QuietIsSound

LEMMA UserPatchKeeps ==
    ASSUME Serial, GoalInv, NEW c \in Call, NEW patches \in Patches, UserPatch(c, patches)
    PROVE  GoalInv' /\ StopsForGood
<1>1. /\ runtime' = runtime /\ world' = world /\ refused' = refused /\ episode' = episode
      /\ runtime.status = "active" /\ Turn(c, "user", patches)
    BY DEF UserPatch, Active
<1>2. HomeTypes'
    BY <1>1 DEF GoalInv, HomeTypes
<1>3. GoalInv'
    BY <1>1, <1>2, TurnStarts
<1>4. StopsForGood
    BY <1>1 DEF StopsForGood
<1>5. QED
    BY <1>3, <1>4

LEMMA CancelKeeps ==
    ASSUME Serial, GoalInv, NEW c \in Call, Cancel(c)
    PROVE  GoalInv' /\ StopsForGood
<1>1. /\ runtime.status = "active" /\ refused' = FALSE /\ world' = world /\ episode' = episode
      /\ runtime \in Runtime
    BY DEF Cancel, Active, GoalInv, HomeTypes
<1>2. StopsForGood
    BY <1>1 DEF StopsForGood
<1>3. CASE Compensation = {}
    <2>1. NobodyDrives
        BY <1>3, MayRunAlone DEF Cancel
    <2>2. /\ runtime' = [runtime EXCEPT !.status = "cancelled"] /\ held' = held
          /\ UNCHANGED <<pc, op, copy, todo, asked, steps, actions, spent, sent>>
        BY <1>3 DEF Cancel, callVars
    <2>3. CallInv' /\ NobodyDrives'
        BY <2>1, <2>2, CallsRest
    <2>4. /\ HomeTypes' /\ runtime'.slots = runtime.slots
          /\ runtime'.ownership = runtime.ownership
        BY <1>1, <2>2 DEF GoalInv, HomeTypes, Runtime, Status
    <2>5. CancelRestores'
        BY <1>3, <2>4 DEF CancelRestores, Compensation
    <2>6. AllLive'
        BY <2>2 DEF GoalInv, AllLive
    <2>7. QED
        BY <1>2, <2>3, <2>4, <2>5, <2>6, QuietIsSound
<1>4. CASE Compensation # {}
    <2>1. PICK patches : patches = [s \in Compensation |-> runtime.ownership.baseline[s]]
        OBVIOUS
    <2>2. runtime' = runtime /\ Turn(c, "cancel", patches)
        BY <1>4, <2>1 DEF Cancel
    <2>3. patches \in Patches
        <3>1. Compensation \in SUBSET Slot /\ runtime.ownership.baseline \in [Slot -> Value]
            BY <1>1 DEF Compensation, Runtime, Ownership, Slots
        <3>2. patches \in [Compensation -> Value]
            BY <2>1, <3>1
        <3>3. QED
            BY <3>1, <3>2 DEF Patches
    <2>4. HomeTypes'
        BY <1>1, <2>2 DEF GoalInv, HomeTypes
    <2>5. \A s \in runtime'.ownership.owned \ runtime'.ownership.override :
              IF s \in DOMAIN patches THEN patches[s] = runtime'.ownership.baseline[s]
              ELSE runtime'.slots[s] = runtime'.ownership.baseline[s]
        BY <2>1, <2>2 DEF Compensation
    <2>6. QED
        BY <1>1, <1>2, <2>2, <2>3, <2>4, <2>5, TurnStarts
<1>5. QED
    BY <1>3, <1>4

-----------------------------------------------------------------------------
(* A run *)

\* A call that neither drives nor starts to leaves a turn under way alone.
LEMMA OthersDrive ==
    ASSUME GoalInv, HomeTypes', AllLive', CancelRestores', CallInv',
           UNCHANGED <<runtime, refused>>,
           \A d \in Call : pc'[d] = "driving" =>
               /\ pc[d] = "driving" /\ op'[d] = op[d] /\ copy'[d] = copy[d]
               /\ todo'[d] = todo[d] /\ sent'[d] = sent[d]
    PROVE  GoalInv'
<1>1. ASSUME NEW c \in Call, pc'[c] = "driving"
      PROVE  TurnSound(c)'
    <2>1. TurnSound(c)
        BY <1>1 DEF GoalInv
    <2>2. /\ op'[c] = op[c] /\ copy'[c] = copy[c] /\ todo'[c] = todo[c] /\ sent'[c] = sent[c]
          /\ \A d \in Call : pc'[d] = "driving" => pc[d] = "driving"
        BY <1>1
    <2>3. DrivesAlone(c)'
        BY <2>1, <2>2 DEF TurnSound, DrivesAlone, Active
    <2>4. RoomLeft(c)'
        BY <2>1, <2>2 DEF TurnSound, RoomLeft
    <2>5. TakesBack(c)'
        BY <2>1, <2>2 DEF TurnSound, TakesBack
    <2>6. QED
        BY <2>3, <2>4, <2>5 DEF TurnSound
<1>2. QED
    BY <1>1 DEF GoalInv

LEMMA RunKeeps ==
    ASSUME Serial, GoalInv, NEW c \in Call, Run(c)
    PROVE  GoalInv' /\ StopsForGood
<1>1. /\ pc[c] = "idle" /\ pc' = [pc EXCEPT ![c] = "observing"]
      /\ UNCHANGED <<runtime, world, op, copy, held, todo, asked, steps, actions, spent, sent,
                     refused, episode>>
    BY DEF Run
<1>2. CallTypes /\ CallTypes'
    BY <1>1 DEF GoalInv, CallInv, CallTypes
<1>3. \A d \in Call : pc'[d] = IF d = c THEN "observing" ELSE pc[d]
    BY <1>1, <1>2 DEF CallTypes
<1>4. CallInv'
    BY <1>1, <1>2, <1>3 DEF GoalInv, CallInv
<1>5. HomeTypes' /\ AllLive' /\ CancelRestores'
    BY <1>1 DEF GoalInv, HomeTypes, AllLive, CancelRestores
<1>6. GoalInv'
    BY <1>1, <1>3, <1>4, <1>5, OthersDrive
<1>7. QED
    BY <1>1, <1>6 DEF StopsForGood

LEMMA ObserveKeeps ==
    ASSUME Serial, GoalInv, NEW c \in Call, Observe(c)
    PROVE  GoalInv' /\ StopsForGood
<1>1. NobodyDrives /\ pc[c] = "observing"
    BY MayRunAlone DEF Observe
<1>2. world' = world /\ held' = held /\ refused' = refused /\ episode' = episode
    BY DEF Observe
<1>3. AllLive'
    BY <1>2 DEF GoalInv, AllLive
<1>4. CASE Ends(c) /\ runtime' = runtime
    <2>1. CallInv' /\ NobodyDrives'
        BY <1>1, <1>4, EndsCall DEF GoalInv, NobodyDrives
    <2>2. HomeTypes' /\ CancelRestores'
        BY <1>2, <1>4 DEF GoalInv, HomeTypes, CancelRestores
    <2>3. QED
        BY <1>3, <1>4, <2>1, <2>2, QuietIsSound DEF StopsForGood
<1>5. CASE Active /\ runtime' = [runtime EXCEPT !.status = "completed"] /\ Ends(c)
    <2>1. CallInv' /\ NobodyDrives'
        BY <1>1, <1>5, EndsCall DEF GoalInv, NobodyDrives
    <2>2. HomeTypes' /\ runtime'.status = "completed"
        BY <1>2, <1>5 DEF GoalInv, HomeTypes, Runtime, Status
    <2>3. CancelRestores'
        BY <2>2 DEF CancelRestores
    <2>4. StopsForGood
        BY <1>5 DEF StopsForGood, Active
    <2>5. QED
        BY <1>3, <2>1, <2>2, <2>3, <2>4, QuietIsSound
<1>6. CASE /\ pc' = [pc EXCEPT ![c] = "planning"]
           /\ UNCHANGED <<runtime, op, copy, todo, asked, steps, actions, spent, sent>>
    <2>1. CallTypes /\ CallTypes'
        BY <1>6 DEF GoalInv, CallInv, CallTypes
    <2>2. \A d \in Call : pc'[d] = IF d = c THEN "planning" ELSE pc[d]
        BY <1>6, <2>1 DEF CallTypes
    <2>3. CallInv'
        BY <1>1, <1>6, <2>1, <2>2 DEF GoalInv, CallInv
    <2>4. HomeTypes' /\ CancelRestores'
        BY <1>2, <1>6 DEF GoalInv, HomeTypes, CancelRestores
    <2>5. NobodyDrives'
        BY <1>1, <2>2 DEF NobodyDrives
    <2>6. QED
        BY <1>3, <1>6, <2>3, <2>4, <2>5, QuietIsSound DEF StopsForGood
<1>7. QED
    BY <1>4, <1>5, <1>6 DEF Observe

LEMMA PlanKeeps ==
    ASSUME Serial, GoalInv, NEW c \in Call, NEW patches \in Patches, PlannerAnswers(c, patches)
    PROVE  GoalInv' /\ StopsForGood
<1>1. NobodyDrives /\ pc[c] = "planning" /\ op[c] = "agent" /\ todo[c] = NoPatches
    BY MayRunAlone DEF PlannerAnswers, GoalInv, CallInv
<1>2. world' = world /\ refused' = refused /\ episode' = episode
    BY DEF PlannerAnswers
<1>3. CASE (Ends(c) \/ NextStep(c)) /\ runtime' = runtime /\ held' = held
    <2>1. CallInv' /\ NobodyDrives'
        BY <1>1, <1>3, EndsCall, NextCall DEF GoalInv, NobodyDrives
    <2>2. HomeTypes' /\ AllLive' /\ CancelRestores'
        BY <1>2, <1>3 DEF GoalInv, HomeTypes, AllLive, CancelRestores
    <2>3. QED
        BY <1>3, <2>1, <2>2, QuietIsSound DEF StopsForGood
<1>4. CASE Active /\ AgentTurn(c, patches)
           /\ Cardinality(DOMAIN patches) <= MaxActions - actions[c]
    <2>1. /\ runtime' = [runtime EXCEPT !.ownership = Captured(@, DOMAIN patches)]
          /\ Turn(c, "agent", patches) /\ runtime.status = "active" /\ runtime \in Runtime
        BY <1>4 DEF AgentTurn, Active, GoalInv, HomeTypes
    <2>2. DOMAIN patches \in SUBSET Slot
        BY DEF Patches
    <2>3. Captured(runtime.ownership, DOMAIN patches) \in Ownership
        BY <2>1, <2>2 DEF Captured, Runtime, Ownership, Slots
    <2>4. HomeTypes' /\ runtime'.status = "active"
        BY <1>2, <2>1, <2>3 DEF GoalInv, HomeTypes, Runtime
    <2>5. sent[c] + Cardinality(DOMAIN patches) <= MaxActions
        <3>1. Cardinality(DOMAIN patches) \in Nat
            BY <2>2, Bounds, FS_Subset, FS_CardinalityType
        <3>2. sent[c] <= actions[c] /\ sent[c] \in Nat /\ actions[c] \in Nat
            BY <1>1, Bounds DEF GoalInv, CallInv, CallTypes
        <3>3. QED
            BY <1>4, <3>1, <3>2, Bounds
    <2>6. GoalInv'
        BY <2>1, <2>4, <2>5, TurnStarts
    <2>7. QED
        BY <2>1, <2>6 DEF StopsForGood
<1>5. QED
    BY <1>3, <1>4 DEF PlannerAnswers

-----------------------------------------------------------------------------
(* The driver *)

\* A turn whose next command is to slot s knows the slot, and a run has budget left.
LEMMA NextCommand ==
    ASSUME Serial, GoalInv, NEW c \in Call, NEW s \in DOMAIN todo[c], pc[c] = "driving"
    PROVE  /\ TurnSound(c) /\ s \in Slot /\ todo[c][s] \in Value
           /\ todo[c] \in Patches /\ DOMAIN todo[c] \in SUBSET Slot
           /\ Cardinality(DOMAIN todo[c] \ {s}) + 1 = Cardinality(DOMAIN todo[c])
           /\ Cardinality(DOMAIN todo[c] \ {s}) \in Nat
<1>1. todo[c] \in Patches /\ TurnSound(c)
    BY DEF GoalInv, CallInv, CallTypes
<1>2. PICK d \in SUBSET Slot : todo[c] \in [d -> Value]
    BY <1>1 DEF Patches
<1>3. IsFiniteSet(d) /\ DOMAIN todo[c] = d /\ s \in d
    BY <1>2, Bounds, FS_Subset
<1>4. IsFiniteSet(d \ {s}) /\ Cardinality(d \ {s}) = Cardinality(d) - 1
    BY <1>3, FS_RemoveElement
<1>5. Cardinality(d) \in Nat /\ Cardinality(d \ {s}) \in Nat
    BY <1>3, <1>4, FS_CardinalityType
<1>6. QED
    BY <1>1, <1>2, <1>3, <1>4, <1>5

\* A command moves its slot to the value asked for, or leaves it where it is.
LEMMA SlotMoves ==
    ASSUME Serial, GoalInv, NEW c \in Call, NEW s \in DOMAIN todo[c], pc[c] = "driving", Moves(c, s)
    PROVE  world' \in Slots /\ world'[s] \in Value
<1>1. s \in Slot /\ todo[c][s] \in Value
    BY NextCommand
<1>2. world \in [Slot -> Value]
    BY DEF GoalInv, HomeTypes, Slots
<1>3. PICK v \in {todo[c][s], world[s]} : world' = [world EXCEPT ![s] = v]
    BY DEF Moves
<1>4. v \in Value
    BY <1>1, <1>2, <1>3
<1>5. QED
    BY <1>1, <1>2, <1>3, <1>4 DEF Slots

\* A recorded command will count against the budget of the run that sent it, and
\* there was room for it.
LEMMA CommandCounts ==
    ASSUME Serial, GoalInv, NEW c \in Call, NEW s \in DOMAIN todo[c], pc[c] = "driving",
           Recorded(c) \/ UNCHANGED <<spent, sent>>
    PROVE  /\ spent' \in [Call -> 0..MaxActions] /\ sent' \in [Call -> Nat]
           /\ \A d \in Call : sent'[d] <= actions[d] + spent'[d]
           /\ \A d \in Call : pc[d] # "driving" \/ op[d] # "agent" => sent'[d] <= actions[d]
           /\ op[c] = "agent" =>
                  /\ sent'[c] <= MaxActions
                  /\ sent'[c] + Cardinality(DOMAIN todo[c] \ {s}) <= MaxActions
<1>1. /\ actions \in [Call -> 0..MaxActions] /\ spent \in [Call -> 0..MaxActions]
      /\ sent \in [Call -> Nat] /\ MaxActions \in Nat
      /\ \A d \in Call : sent[d] <= actions[d] + spent[d]
      /\ \A d \in Call : pc[d] # "driving" \/ op[d] # "agent" => sent[d] <= actions[d]
    BY Bounds DEF GoalInv, CallInv, CallTypes
<1>2. PICK n \in Nat : /\ n = Cardinality(DOMAIN todo[c] \ {s})
                       /\ op[c] = "agent" => sent[c] + (n + 1) <= MaxActions
    BY NextCommand DEF TurnSound, RoomLeft
<1>3. CASE Recorded(c)
    <2>1. \A d \in Call :
              /\ spent'[d] = IF op[d] = "agent" /\ pc[d] \in {"planning", "driving"}
                                /\ spent[d] < MaxActions
                               THEN spent[d] + 1 ELSE spent[d]
              /\ sent'[d] = IF d = c /\ op[c] = "agent" THEN sent[d] + 1 ELSE sent[d]
        BY <1>1, <1>3 DEF Recorded
    <2>2. \A d \in Call : /\ spent'[d] \in 0..MaxActions /\ sent'[d] \in Nat
                          /\ spent[d] <= spent'[d]
        BY <1>1, <2>1
    <2>3. spent' \in [Call -> 0..MaxActions] /\ sent' \in [Call -> Nat]
        BY <1>1, <1>3, <2>2 DEF Recorded
    <2>4. op[c] = "agent" => /\ sent'[c] = sent[c] + 1
                             /\ spent'[c] = spent[c] + 1 \/ spent'[c] = MaxActions
        BY <1>1, <2>1
    <2>5. op[c] = "agent" => sent'[c] <= MaxActions /\ sent'[c] + n <= MaxActions
        BY <1>1, <1>2, <2>4
    <2>6. op[c] = "agent" => sent'[c] <= actions[c] + spent'[c]
        BY <1>1, <2>2, <2>4, <2>5
    <2>7. \A d \in Call : d # c \/ op[c] # "agent" =>
              sent'[d] = sent[d] /\ sent'[d] <= actions[d] + spent'[d]
        BY <1>1, <2>1, <2>2
    <2>8. \A d \in Call : pc[d] # "driving" \/ op[d] # "agent" => sent'[d] <= actions[d]
        BY <1>1, <2>7
    <2>9. QED
        BY <1>2, <2>3, <2>5, <2>6, <2>7, <2>8
<1>4. CASE UNCHANGED <<spent, sent>>
    <2>1. op[c] = "agent" => sent[c] <= MaxActions /\ sent[c] + n <= MaxActions
        BY <1>1, <1>2
    <2>2. QED
        BY <1>1, <1>2, <1>4, <2>1
<1>5. QED
    BY <1>3, <1>4

\* A turn that goes on after a command of its own.
LEMMA TurnGoesOn ==
    ASSUME Serial, GoalInv, NEW c \in Call, pc[c] = "driving",
           HomeTypes', CallInv', CancelRestores',
           UNCHANGED <<runtime, pc, op, held>>,
           copy'[c].status = copy[c].status, copy'[c].ownership = copy[c].ownership,
           RoomLeft(c)', TakesBack(c)'
    PROVE  GoalInv'
<1>1. TurnSound(c) /\ \A d \in Call : pc'[d] = "driving" => d = c
    BY DEF GoalInv, TurnSound, DrivesAlone
<1>2. DrivesAlone(c)'
    BY <1>1 DEF TurnSound, DrivesAlone, Active
<1>3. AllLive'
    BY DEF GoalInv, AllLive
<1>4. QED
    BY <1>1, <1>2, <1>3 DEF GoalInv, TurnSound

LEMMA DriveKeeps ==
    ASSUME Serial, GoalInv, NEW c \in Call, NEW s \in DOMAIN todo[c], Drive(c, s)
    PROVE  GoalInv' /\ StopsForGood
<1>1. /\ pc[c] = "driving" /\ Moves(c, s) /\ Recorded(c)
      /\ UNCHANGED <<runtime, pc, op, held, asked, steps, actions, episode>>
      /\ refused' = (refused \/ (op[c] = "cancel" /\ world'[s] # todo[c][s]))
    BY DEF Drive
<1>2. /\ TurnSound(c) /\ s \in Slot /\ todo[c][s] \in Value
      /\ world' \in Slots /\ world'[s] \in Value
    BY <1>1, NextCommand, SlotMoves
<1>3. /\ spent' \in [Call -> 0..MaxActions] /\ sent' \in [Call -> Nat]
      /\ \A d \in Call : sent'[d] <= actions[d] + spent'[d]
      /\ \A d \in Call : pc[d] # "driving" \/ op[d] # "agent" => sent'[d] <= actions[d]
      /\ op[c] = "agent" => sent'[c] + Cardinality(DOMAIN todo[c] \ {s}) <= MaxActions
    BY <1>1, CommandCounts
<1>4. CallTypes /\ HomeTypes /\ CancelRestores
    BY DEF GoalInv, CallInv
<1>5. PICK rest : rest = [t \in DOMAIN todo[c] \ {s} |-> todo[c][t]]
    OBVIOUS
<1>6. todo' = [todo EXCEPT ![c] = rest] /\ DOMAIN rest = DOMAIN todo[c] \ {s}
    BY <1>5 DEF Drive
<1>7. rest \in Patches
    <2>1. PICK d \in SUBSET Slot : todo[c] \in [d -> Value]
        BY <1>1, NextCommand DEF Patches
    <2>2. rest \in [d \ {s} -> Value]
        BY <1>5, <2>1
    <2>3. QED
        BY <2>2 DEF Patches
<1>8. PICK slots : slots = [copy[c].slots EXCEPT ![s] = world'[s]]
    OBVIOUS
<1>9. copy' = [copy EXCEPT ![c] = [copy[c] EXCEPT !.slots = slots]]
    BY <1>8 DEF Drive
<1>10. copy[c] \in Runtime /\ slots \in Slots
    BY <1>2, <1>4, <1>8 DEF CallTypes, Runtime, Slots
<1>11. /\ [copy[c] EXCEPT !.slots = slots] \in Runtime
       /\ copy'[c] = [copy[c] EXCEPT !.slots = slots]
    BY <1>4, <1>9, <1>10 DEF CallTypes, Runtime
<1>12. /\ copy'[c].status = copy[c].status /\ copy'[c].ownership = copy[c].ownership
       /\ copy'[c].slots = slots
    BY <1>10, <1>11 DEF Runtime
<1>13. CallTypes'
    BY <1>1, <1>3, <1>4, <1>6, <1>7, <1>9, <1>11 DEF CallTypes
<1>14. \A d \in Call : d # c => todo'[d] = todo[d]
    BY <1>4, <1>6 DEF CallTypes
<1>15. CallInv'
    BY <1>1, <1>3, <1>13, <1>14 DEF GoalInv, CallInv
<1>16. HomeTypes'
    BY <1>1, <1>2, <1>4 DEF HomeTypes
<1>17. CancelRestores'
    BY <1>1, <1>2 DEF CancelRestores, TurnSound, DrivesAlone, Active
<1>18. todo'[c] = rest
    BY <1>4, <1>6 DEF CallTypes
<1>19. RoomLeft(c)'
    BY <1>1, <1>3, <1>6, <1>18 DEF RoomLeft
<1>20. TakesBack(c)'
    <2> SUFFICES ASSUME op'[c] = "cancel", ~refused',
                        NEW t \in runtime'.ownership.owned \ runtime'.ownership.override
                 PROVE  IF t \in DOMAIN todo'[c] THEN todo'[c][t] = runtime'.ownership.baseline[t]
                        ELSE copy'[c].slots[t] = runtime'.ownership.baseline[t]
        BY DEF TakesBack
    <2>1. op[c] = "cancel" /\ ~refused /\ world'[s] = todo[c][s] /\ runtime' = runtime
        BY <1>1
    <2>2. IF t \in DOMAIN todo[c] THEN todo[c][t] = runtime.ownership.baseline[t]
          ELSE copy[c].slots[t] = runtime.ownership.baseline[t]
        BY <1>2, <2>1 DEF TurnSound, TakesBack
    <2>3. slots[s] = world'[s] /\ (t # s => slots[t] = copy[c].slots[t])
        <3>1. copy[c].slots \in [Slot -> Value] /\ t \in Slot
            BY <1>4, <1>10, <2>1 DEF Runtime, Slots, Ownership, HomeTypes
        <3>2. QED
            BY <1>2, <1>8, <3>1
    <2>4. CASE t = s
        BY <1>6, <1>12, <1>18, <2>1, <2>2, <2>3, <2>4
    <2>5. CASE t # s
        BY <1>5, <1>6, <1>12, <1>18, <2>1, <2>2, <2>3, <2>5
    <2>6. QED
        BY <2>4, <2>5
<1>21. GoalInv'
    BY <1>1, <1>12, <1>15, <1>16, <1>17, <1>19, <1>20, TurnGoesOn
<1>22. QED
    BY <1>1, <1>21 DEF StopsForGood

LEMMA DriverFailsKeeps ==
    ASSUME Serial, GoalInv, NEW c \in Call, NEW s \in DOMAIN todo[c], DriverFails(c, s)
    PROVE  GoalInv' /\ StopsForGood
<1>1. /\ pc[c] = "driving" /\ Moves(c, s) /\ (Recorded(c) \/ UNCHANGED <<spent, sent>>)
      /\ UNCHANGED <<runtime, pc, op, copy, held, asked, steps, actions, episode>>
      /\ refused' = (refused \/ op[c] = "cancel")
      /\ todo' = [todo EXCEPT ![c] = NoPatches]
    BY DEF DriverFails
<1>2. TurnSound(c) /\ world' \in Slots
    BY <1>1, NextCommand, SlotMoves
<1>3. /\ spent' \in [Call -> 0..MaxActions] /\ sent' \in [Call -> Nat]
      /\ \A d \in Call : sent'[d] <= actions[d] + spent'[d]
      /\ \A d \in Call : pc[d] # "driving" \/ op[d] # "agent" => sent'[d] <= actions[d]
      /\ op[c] = "agent" => sent'[c] <= MaxActions
    BY <1>1, CommandCounts
<1>4. CallTypes /\ HomeTypes /\ CancelRestores
    BY DEF GoalInv, CallInv
<1>5. CallTypes'
    BY <1>1, <1>3, <1>4, EmptyIsTyped DEF CallTypes
<1>6. \A d \in Call : /\ d # c => todo'[d] = todo[d]
                      /\ d = c => todo'[d] = NoPatches
    BY <1>1, <1>4 DEF CallTypes
<1>7. CallInv'
    BY <1>1, <1>3, <1>5, <1>6 DEF GoalInv, CallInv
<1>8. HomeTypes'
    BY <1>1, <1>2, <1>4 DEF HomeTypes
<1>9. CancelRestores'
    BY <1>1, <1>2 DEF CancelRestores, TurnSound, DrivesAlone, Active
<1>10. RoomLeft(c)'
    <2>1. DOMAIN NoPatches = {} /\ Cardinality({}) = 0
        BY FS_EmptySet DEF NoPatches
    <2>2. op[c] = "agent" => sent'[c] + 0 <= MaxActions
        BY <1>3
    <2>3. QED
        BY <1>1, <1>6, <2>1, <2>2 DEF RoomLeft
<1>11. TakesBack(c)'
    BY <1>1 DEF TakesBack
<1>12. GoalInv'
    BY <1>1, <1>7, <1>8, <1>9, <1>10, <1>11, TurnGoesOn
<1>13. QED
    BY <1>1, <1>12 DEF StopsForGood

LEMMA UnobservedKeeps ==
    ASSUME Serial, GoalInv, NEW c \in Call, NEW s \in DOMAIN todo[c], Unobserved(c, s)
    PROVE  GoalInv' /\ StopsForGood
<1>1. /\ pc[c] = "driving" /\ Moves(c, s) /\ Ends(c) /\ held' = [held EXCEPT ![c] = Live]
      /\ UNCHANGED <<runtime, refused, episode>>
    BY DEF Unobserved
<1>2. TurnSound(c) /\ world' \in Slots
    BY <1>1, NextCommand, SlotMoves
<1>3. CallInv' /\ \A d \in Call : pc'[d] = "driving" => d # c /\ pc[d] = "driving"
    BY <1>1, EndsCall DEF GoalInv
<1>4. NobodyDrives'
    BY <1>2, <1>3 DEF TurnSound, DrivesAlone, NobodyDrives
<1>5. HomeTypes' /\ CancelRestores'
    BY <1>1, <1>2 DEF GoalInv, HomeTypes, CancelRestores
<1>6. AllLive'
    BY <1>1 DEF GoalInv, AllLive
<1>7. GoalInv'
    BY <1>3, <1>4, <1>5, <1>6, QuietIsSound
<1>8. QED
    BY <1>1, <1>7 DEF StopsForGood

\* The turn of a run gives the runtime back with the slots it observed; one of a
\* person adds overrides, and one of a cancellation stops the episode.
LEMMA ResumeKeeps ==
    ASSUME Serial, GoalInv, NEW c \in Call, Resume(c)
    PROVE  GoalInv' /\ StopsForGood
<1>1. /\ pc[c] = "driving" /\ todo[c] = NoPatches /\ held' = Detach(c)
      /\ world' = world /\ refused' = refused /\ episode' = episode
    BY DEF Resume
<1>2. TurnSound(c) /\ CallTypes /\ HomeTypes /\ held[c] = Live /\ runtime.status = "active"
    BY <1>1 DEF GoalInv, CallInv, AllLive, TurnSound, DrivesAlone, Active
<1>3. copy[c] \in Runtime /\ copy[c].status = "active" /\ copy[c].ownership = runtime.ownership
    BY <1>2 DEF CallTypes, TurnSound, DrivesAlone
<1>4. AllLive'
    <2>1. \A d \in Call : pc[d] = "driving" => d = c
        BY <1>2 DEF TurnSound, DrivesAlone
    <2>2. \A d \in Call : Detach(c)[d] = Live
        BY <2>1 DEF GoalInv, AllLive, Detach
    <2>3. DOMAIN Detach(c) = Call
        BY DEF Detach
    <2>4. QED
        BY <1>1, <2>2, <2>3 DEF AllLive, Detach
<1>5. StopsForGood
    BY <1>2 DEF StopsForGood
<1>6. ASSUME Ends(c) \/ (NextStep(c) /\ op[c] = "agent")
      PROVE  CallInv' /\ NobodyDrives'
    <2>1. CallInv' /\ \A d \in Call : pc'[d] = "driving" => d # c /\ pc[d] = "driving"
        BY <1>1, <1>6, EndsCall, NextCall DEF GoalInv
    <2>2. QED
        BY <1>2, <2>1 DEF TurnSound, DrivesAlone, NobodyDrives
<1>7. CASE /\ op[c] = "agent" /\ NextStep(c)
           /\ runtime' = [copy[c] EXCEPT !.ownership = IF held[c] = Live
                                          THEN runtime.ownership ELSE held[c]]
    <2>1. runtime' = [copy[c] EXCEPT !.ownership = runtime.ownership]
        BY <1>2, <1>7
    <2>2. runtime' \in Runtime /\ runtime'.status = "active"
        BY <1>2, <1>3, <2>1 DEF HomeTypes, Runtime
    <2>3. HomeTypes'
        BY <1>1, <1>2, <2>2 DEF HomeTypes
    <2>4. CancelRestores'
        BY <2>2 DEF CancelRestores
    <2>5. QED
        BY <1>4, <1>5, <1>6, <1>7, <2>3, <2>4, QuietIsSound
<1>8. CASE /\ op[c] = "user" /\ Ends(c)
           /\ runtime' = [copy[c] EXCEPT !.ownership.override =
                             @ \cup (asked[c] \cap copy[c].ownership.owned)]
    <2>1. PICK over : over = copy[c].ownership.override
                               \cup (asked[c] \cap copy[c].ownership.owned)
        OBVIOUS
    <2>2. PICK own : own = [copy[c].ownership EXCEPT !.override = over]
        OBVIOUS
    <2>3. runtime' = [copy[c] EXCEPT !.ownership = own]
        BY <1>8, <2>1, <2>2
    <2>4. copy[c].ownership \in Ownership
        BY <1>3 DEF Runtime
    <2>5. over \in SUBSET Slot
        BY <2>1, <2>4 DEF Ownership
    <2>6. own \in Ownership
        BY <2>2, <2>4, <2>5 DEF Ownership
    <2>7. runtime' \in Runtime /\ runtime'.status = "active"
        BY <1>3, <2>3, <2>6 DEF Runtime
    <2>8. HomeTypes'
        BY <1>1, <1>2, <2>7 DEF HomeTypes
    <2>9. CancelRestores'
        BY <2>7 DEF CancelRestores
    <2>10. QED
        BY <1>4, <1>5, <1>6, <1>8, <2>8, <2>9, QuietIsSound
<1>9. CASE /\ op[c] = "cancel" /\ Ends(c)
           /\ runtime' = [copy[c] EXCEPT !.status = "cancelled"]
    <2>1. /\ runtime' \in Runtime /\ runtime'.slots = copy[c].slots
          /\ runtime'.ownership = runtime.ownership
        BY <1>3, <1>9 DEF Runtime, Status
    <2>2. HomeTypes'
        BY <1>1, <1>2, <2>1 DEF HomeTypes
    <2>3. DOMAIN todo[c] = {}
        BY <1>1 DEF NoPatches
    <2>4. ~refused => \A s \in runtime.ownership.owned \ runtime.ownership.override :
                          copy[c].slots[s] = runtime.ownership.baseline[s]
        BY <1>2, <1>9, <2>3 DEF TurnSound, TakesBack
    <2>5. CancelRestores'
        BY <1>1, <2>1, <2>4 DEF CancelRestores
    <2>6. QED
        BY <1>4, <1>5, <1>6, <1>9, <2>2, <2>5, QuietIsSound
<1>10. QED
    BY <1>7, <1>8, <1>9 DEF Resume

-----------------------------------------------------------------------------
(* The theorem *)

LEMMA GoalStarts == ASSUME Serial, GoalInit PROVE GoalInv
<1>1. /\ world \in Slots /\ runtime = [slots |-> world, status |-> "none", ownership |-> Nothing]
      /\ pc = [c \in Call |-> "idle"] /\ op = [c \in Call |-> "agent"]
      /\ copy = [c \in Call |-> NoRuntime] /\ held = [c \in Call |-> Live]
      /\ todo = [c \in Call |-> NoPatches] /\ asked = [c \in Call |-> {}]
      /\ steps = [c \in Call |-> 0] /\ actions = [c \in Call |-> 0] /\ spent = [c \in Call |-> 0]
      /\ sent = [c \in Call |-> 0]
      /\ refused = FALSE /\ episode = 0
    BY DEF GoalInit
<1>2. HomeTypes
    <2>1. runtime \in Runtime
        BY <1>1, EmptyIsTyped DEF Runtime, Status
    <2>2. episode \in 0..MaxEpisodes
        BY <1>1, Bounds
    <2>3. QED
        BY <1>1, <2>1, <2>2 DEF HomeTypes
<1>3. 0 \in 0..MaxSteps /\ 0 \in 0..MaxActions
    BY Bounds
<1>4. CallTypes
    BY <1>1, <1>3, EmptyIsTyped DEF CallTypes
<1>5. CallInv /\ AllLive /\ CancelRestores /\ NobodyDrives
    BY <1>1, <1>4 DEF CallInv, AllLive, CancelRestores, NobodyDrives
<1>6. QED
    BY <1>2, <1>5 DEF GoalInv, NobodyDrives

LEMMA GoalStep == ASSUME Serial, GoalInv, [GoalNext]_goalVars PROVE GoalInv' /\ StopsForGood
<1>1. CASE UNCHANGED goalVars
    <2>1. UNCHANGED <<runtime, world, pc, op, copy, held, todo, asked, steps, actions, spent, sent,
                      refused, episode>>
        BY <1>1 DEF goalVars
    <2>2. HomeTypes' /\ CallTypes' /\ AllLive' /\ CancelRestores'
        BY <2>1 DEF GoalInv, HomeTypes, CallInv, CallTypes, AllLive, CancelRestores
    <2>3. CallInv'
        BY <2>1, <2>2 DEF GoalInv, CallInv
    <2>4. GoalInv'
        BY <2>1, <2>2, <2>3, OthersDrive
    <2>5. QED
        BY <2>1, <2>4 DEF StopsForGood
<1>2. CASE BeginGoal \/ Takeover
    BY <1>2, BeginGoalKeeps, TakeoverKeeps
<1>3. ASSUME NEW c \in Call, Run(c) \/ Cancel(c) \/ Observe(c) \/ Resume(c)
      PROVE  GoalInv' /\ StopsForGood
    BY <1>3, RunKeeps, CancelKeeps, ObserveKeeps, ResumeKeeps
<1>4. ASSUME NEW c \in Call, NEW patches \in Patches, UserPatch(c, patches) \/ PlannerAnswers(c, patches)
      PROVE  GoalInv' /\ StopsForGood
    BY <1>4, UserPatchKeeps, PlanKeeps
<1>5. ASSUME NEW c \in Call, NEW s \in Slot, Drive(c, s) \/ DriverFails(c, s) \/ Unobserved(c, s)
      PROVE  GoalInv' /\ StopsForGood
    <2>1. s \in DOMAIN todo[c]
        BY <1>5 DEF Drive, DriverFails, Unobserved
    <2>2. QED
        BY <1>5, <2>1, DriveKeeps, DriverFailsKeeps, UnobservedKeeps
<1>6. QED
    BY <1>1, <1>2, <1>3, <1>4, <1>5 DEF GoalNext

LEMMA GoalInvIsEnough ==
    ASSUME Serial, GoalInv
    PROVE  TypeOK /\ NoCommandWhenStopped /\ BudgetKept /\ CancelRestores
<1>1. CallTypes /\ HomeTypes /\ CancelRestores
    BY DEF GoalInv, CallInv
<1>2. TypeOK
    BY <1>1 DEF GoalInv, HomeTypes, CallTypes, AllLive, TypeOK
<1>3. NoCommandWhenStopped
    BY DEF GoalInv, TurnSound, DrivesAlone, NoCommandWhenStopped
<1>4. ASSUME NEW c \in Call PROVE sent[c] <= MaxActions
    <2>1. sent[c] \in Nat /\ actions[c] \in 0..MaxActions /\ MaxActions \in Nat
        BY Bounds DEF GoalInv, CallInv, CallTypes
    <2>2. CASE pc[c] = "driving" /\ op[c] = "agent"
        <3>1. /\ sent[c] + Cardinality(DOMAIN todo[c]) <= MaxActions
              /\ \E d \in SUBSET Slot : todo[c] \in [d -> Value]
            BY <2>2 DEF GoalInv, CallInv, CallTypes, TurnSound, RoomLeft, Patches
        <3>2. Cardinality(DOMAIN todo[c]) \in Nat
            BY <3>1, Bounds, FS_Subset, FS_CardinalityType
        <3>3. QED
            BY <2>1, <3>1, <3>2
    <2>3. CASE pc[c] # "driving" \/ op[c] # "agent"
        BY <2>1, <2>3 DEF GoalInv, CallInv
    <2>4. QED
        BY <2>2, <2>3
<1>5. QED
    BY <1>1, <1>2, <1>3, <1>4 DEF BudgetKept

\* The contract of scripts/home_goal_runtime.cjs: however runs, people and the driver
\* interleave between two awaits, an episode a person stopped gets no command and is
\* not brought back, no run exceeds its budget, and what is cancelled and was applied
\* leaves the agent's slots as they were before.
THEOREM GoalAlwaysHolds ==
    ASSUME ~Overlap
    PROVE  GoalSpec => GoalHolds
<1>1. Serial
    BY DEF Serial
<1>2. GoalInit => GoalInv
    BY <1>1, GoalStarts
<1>3. GoalInv /\ [GoalNext]_goalVars => GoalInv'
    BY <1>1, GoalStep
<1>4. GoalInv /\ [GoalNext]_goalVars
        => [runtime.status \in {"completed", "cancelled", "handed_off"}
              => runtime'.status = runtime.status \/ episode' # episode]_goalVars
    BY <1>1, GoalStep DEF StopsForGood
<1>5. GoalInv => TypeOK /\ NoCommandWhenStopped /\ BudgetKept /\ CancelRestores
    BY <1>1, GoalInvIsEnough
<1>6. QED
    BY <1>2, <1>3, <1>4, <1>5, PTL DEF GoalSpec, GoalHolds, StopIsFinal
=================================================================================
