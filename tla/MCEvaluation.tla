---------------------------- MODULE MCEvaluation ----------------------------
(* A small instance of the offline studies.                                  *)
EXTENDS Evaluation, TLC

CONSTANTS living, master, study, ac, win, c1, c2, t1, t2, t3, t4, lamp, sash

MCRooms    == {living, master, study}
MCEntities == {ac, win}
\* Each split may name pairs that another split never names.
MCPairAllow == [train  |-> {<<living, ac>>, <<master, ac>>, <<living, win>>, <<study, win>>},
                dev    |-> {<<master, win>>, <<study, win>>},
                sealed |-> {<<living, ac>>, <<study, ac>>}]
MCInitialLevel == (ac :> 24) @@ (win :> 0)
MCRelative     == (ac :> -1) @@ (win :> 10)
MCValues       == (ac :> {23}) @@ (win :> {20})

\* Two versions of one pack that differ in their cases, and a second pack.
MCPacks   == {[pack_id |-> "p", cases |-> {c1}], [pack_id |-> "p", cases |-> {c1, c2}]}
MCAnswers == {[decision |-> "EXECUTE", patches |-> <<"patch">>], [decision |-> "CLARIFY", patches |-> <<>>]}

Place(p, q) == [place |-> p, prop |-> q]
Vec(op, count, ref, target, value, second) ==
    [op |-> op, count |-> count, ref |-> ref, target |-> target, value |-> value, second |-> second]
Sure(n) == [op |-> n, count |-> n, ref |-> n, target |-> n, value |-> n, second |-> n]
Nothing == [focus |-> None, active |-> {}]
Before  == [focus |-> Place(lamp, "power"), active |-> {Place(lamp, "power")}]
Lamp == Place(lamp, "power")
Sash == Place(sash, "level")
AddLamp == Vec("add", 1, "explicit", Lamp, 2, 0)
Ood     == Vec("ood", 0, "none", Lamp, 0, 0)
MCShapes ==
    {[pred |-> AddLamp, gold |-> AddLamp, prob |-> Sure(3), before |-> Nothing],
     [pred |-> AddLamp, gold |-> [AddLamp EXCEPT !.target = Sash], prob |-> Sure(3), before |-> Nothing],
     [pred |-> AddLamp, gold |-> AddLamp, prob |-> [Sure(3) EXCEPT !.value = 2], before |-> Nothing],
     [pred |-> AddLamp, gold |-> Ood, prob |-> Sure(2), before |-> Nothing],
     [pred |-> Ood, gold |-> Ood, prob |-> [Sure(3) EXCEPT !.target = 1], before |-> Nothing],
     \* the focus is taken for the target the network missed
     [pred |-> Vec("retract", 1, "focus_coreference", Sash, 0, 0),
      gold |-> Vec("retract", 1, "focus_coreference", Lamp, 0, 0), prob |-> Sure(2), before |-> Before],
     \* two targets, the second one wrong
     [pred |-> Vec("add", 2, "explicit", Lamp, 2, 1),
      gold |-> Vec("add", 2, "explicit", Lamp, 2, 3), prob |-> [Sure(3) EXCEPT !.second = 1], before |-> Nothing]}

Case(id, candidates, g, b, done, openings, required) ==
    [id |-> id, candidates |-> candidates, gold |-> g, baseline |-> b, completes |-> done,
     openings |-> openings, required |-> required]
Quiet == Case("quiet", {t1, t2}, t1, t2, FALSE, {t1, t2}, {"co2"})
Rain  == Case("rain", {t1, t2}, t2, t2, TRUE, {t1}, {"co2", "rain"})
HoldA == Case("a", {t3, t4}, t3, t4, FALSE, {t3, t4}, {"co2"})
HoldB == Case("b", {t4}, t4, None, FALSE, {t4}, {"co2", "rain"})
HoldC == Case("c", {t3, t4}, t3, t1, FALSE, {t3}, {"co2"})
Wide  == Case("wide", {t2, t3}, t2, t2, TRUE, {t2}, {"co2"})
\* The last one has a target of the held-out cases.
MCTrainSets   == {{Quiet}, {Quiet, Rain}, {Quiet, Wide}}
\* One edit leaves a case its id and offers a target that was trained on.
MCHoldoutSets == {{[HoldA EXCEPT !.candidates = {t1, t3, t4}, !.openings = {t1, t3, t4}]},
                  {HoldA, HoldB}, {HoldC}}
MCOrders      == {<<t1, t2, t3, t4>>, <<t3, t2, t1, t4>>, <<t4, t3, t2, t1>>}
Provenance(truth, ready, mode) == [engineering_truth |-> truth, engineering_ready |-> ready, mode |-> mode]
MCProvenances == {Provenance(TRUE, TRUE, "transient"), Provenance(TRUE, FALSE, "steady"),
                  Provenance(FALSE, TRUE, "transient")}

MCPlaces == {lamp, sash}
NoKey == [place |-> None, prop |-> None]
LampLevel == Place(lamp, "level")
Turn(op, targets, values, ref, cues) ==
    [cues |-> cues, delta |-> [op |-> op, targets |-> targets, values |-> values, ref |-> ref]]
Leave == Turn("ood", <<>>, <<>>, "none", {})
\* One suite asks everything, one takes nothing back, one names a device of
\* which both slots are asked for and words a retraction as the gate does not know it.
MCSuites ==
    {<<Turn("add", <<Lamp, Sash>>, <<2, 3>>, "explicit", {}),
       Turn("retract", <<Sash>>, <<0>>, "focus_coreference", {"retract"}), Leave>>,
     <<Turn("add", <<Lamp, Sash>>, <<2, 3>>, "explicit", {}), Leave,
       Turn("clear", <<>>, <<>>, "none", {"all"})>>,
     <<Turn("add", <<Lamp, LampLevel>>, <<2, 3>>, "explicit", {}),
       Turn("retract", <<Lamp>>, <<0>>, "explicit_named", {"retract"}),
       Turn("retract", <<LampLevel>>, <<0>>, "focus_coreference", {})>>}
Vector(op, count, ref, target, value) ==
    [op |-> op, count |-> count, ref |-> ref, target |-> target, value |-> value,
     second |-> NoKey, second_value |-> 0]
MCMistakes ==
    {Vector("add", 1, "explicit", Lamp, 2), Vector("retract", 1, "explicit_named", LampLevel, 0),
     Vector("clear", 0, "none", NoKey, 0), Vector("retain", 0, "none", NoKey, 0)}
MCThresholds == {<<1, 1>>, <<2, 3>>}

NoGoals == [k \in [place : MCPlaces, prop : {"power", "level"}] |-> 0]
MCSnapshots == {NoGoals, [NoGoals EXCEPT ![Lamp] = 1, ![Sash] = 3]}

Target(fields, filled) == [fields |-> fields, filled |-> filled]
Logical == {"area", "entity", "instance"}
Contextual(sections, targets) ==
    [contract_version |-> "contextual-state.v1", sections |-> sections, targets |-> targets]
FourSections == {"conversation", "tasks", "world", "execution"}
Expect(op, recommendation, safe, labels) ==
    [operation |-> op, commit_recommendation |-> recommendation, safe_for_commit |-> safe,
     ambiguity_contains |-> labels]
Question(id, state, expect) == [id |-> id, state |-> state, expect |-> expect]
MCCaseFiles ==
    {<<Question("open", None, Expect("add", "PROPOSE", TRUE, {}))>>,
     <<Question("open", None, Expect("add", "PROPOSE", TRUE, {})),
       Question("which", Contextual(FourSections, {Target(Logical, TRUE)}),
                Expect("add", "PROPOSE", FALSE, {"room"}))>>,
     <<Question("which", Contextual(FourSections, {}), Expect("retract", "CLARIFY", FALSE, {})),
       Question("physical", Contextual(FourSections, {Target(Logical \cup {"device_id"}, TRUE)}),
                Expect("add", "PROPOSE", TRUE, {}))>>,
     <<Question("bare", Contextual({"world"}, {}), Expect("add", "PROPOSE", TRUE, {}))>>,
     <<>>}
Proposal(op, recommendation) == [operation |-> op, frames |-> "list", commit_recommendation |-> recommendation]
MCReplies ==
    {None}
    \cup {[fence |-> f, json |-> j, proposal |-> Proposal("add", "PROPOSE")] :
              f \in {"none", "block", "one line"}, j \in BOOLEAN}
    \cup {[fence |-> "none", json |-> TRUE, proposal |-> p] :
              p \in {Proposal("add", "PROPOSE") @@ ("ambiguity" :> {"room"}),
                     Proposal("add", "PROPOSE") @@ ("confidence" :> "beyond 1"),
                     Proposal("retract", "CLARIFY") @@ ("ambiguity" :> {}),
                     Proposal("switch", "PROPOSE"), Proposal("add", "MAYBE"),
                     ("operation" :> "add") @@ ("frames" :> "list"),
                     [Proposal("add", "PROPOSE") EXCEPT !.frames = "object"]}}

Action(id, canonical, hash) == [id |-> id, canonical |-> canonical, paramsHash |-> hash]
Receipt(spec, action, governance) == [spec |-> spec, id |-> "rcpt", action |-> action, governance |-> governance]
Deploy == Action("deploy.apply", "deploy.apply:prod", "hash")
Known == "noa.receipt/0.1"
MCUpstreams ==
    {None,
     [approved |-> <<Receipt(Known, Deploy, [verdict |-> "ALLOWED", approval |-> "by a person"])>>,
      silent |-> <<Receipt("noa.receipt/9", Deploy, [verdict |-> "ALLOWED"]),
                   Receipt(Known, Deploy, [verdict |-> "EXECUTED"])>>,
      broken |-> <<Receipt(Known, Action("deploy.apply", "", "hash"), [verdict |-> "ALLOWED"]),
                   Receipt(Known, None, [verdict |-> "ALLOWED"]), Receipt(Known, Deploy, None)>>]}
Mutation(kind, path, value) == [kind |-> kind, path |-> path, value |-> value]
Mutations ==
    {Mutation("none", None, None), Mutation("transpose_action_fields", None, None), Mutation("unknown", None, None),
     Mutation("set", "action", "deploy"), Mutation("set", "approval", None), Mutation("set", "approval", "by a person"),
     Mutation("set", "action.paramsHash", "other"), Mutation("set", "outcome", "EXECUTED"),
     Mutation("set", "note", "extra"), Mutation("set", "physical_completion", "done")}
Verdicts == {<<"PASS", None>>, <<"REFUSE", "approval">>, <<"REFUSE", "physical_completion">>}
NoaCase(m, v) == [mutation |-> m, expected_status |-> v[1], expected_code |-> v[2]]
MCInventories ==
    [profile : {"noa-consumer-semantics-probe.v0", "v1"}, vector : {"approved", "silent", "broken", "missing"},
     chain_index : 0 .. 2,
     cases : {<<>>} \cup {<<NoaCase(m, v)>> : m \in Mutations, v \in Verdicts}
                  \cup {<<NoaCase(Mutation("none", None, None), <<"PASS", None>>), NoaCase(m, v)>> :
                            m \in Mutations, v \in Verdicts}]
=============================================================================
