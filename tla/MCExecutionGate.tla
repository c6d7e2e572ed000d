---- MODULE MCExecutionGate ----
(* Two windows and an air conditioner, actions on them that agree, conflict *)
(* or are ill formed, and a task and the next one.                          *)
EXTENDS ExecutionGate

Action(op, targets, slot, value) ==
  [op |-> op, targets |-> targets, slot |-> slot, value |-> value, leak |-> FALSE]
Open1  == Action("PATCH_SLOT", <<"w1">>, "opening", 1)
Wide1  == Action("PATCH_SLOT", <<"w1">>, "opening", 4)
Open2  == Action("PATCH_SLOT", <<"w2">>, "opening", 3)
More1  == Action("PATCH_RELATIVE", <<"w1">>, "opening", 1)
Cool   == Action("PATCH_SLOT", <<"ac">>, "temperature", 2)
Swap   == Action("REPLACE_TARGET", <<"w1", "w2">>, "opening", 1)
Beyond == Action("PATCH_SLOT", <<"w2">>, "opening", 5)
Leak   == [Open1 EXCEPT !.leak = TRUE]

Request(task, resolved, candidates) ==
  [task |-> task, context |-> "contextual-state.v1", leak |-> FALSE, resolved |-> resolved,
   candidates |-> candidates]
MCRequests ==
  {Request("t1", {"w1", "w2"}, <<Open1, Wide1, Open2>>),
   Request("t2", {"w1", "ac"}, <<Wide1, More1, Cool>>),
   Request("t2", {"w2"}, <<Open1, Open2>>), Request("t2", {"w1"}, <<Open1, Open1>>),
   Request("t2", {"w1", "w2"}, <<Swap, Open2, Beyond>>), Request("t1", {"w1"}, <<>>),
   Request("t1", {"w1"}, <<Leak>>), Request("t1", {"bad"}, <<>>)}

Lists == {<<>>} \cup {<<a>> : a \in {Open1, Wide1, Open2, More1, Cool, Swap, Leak, Beyond}}
  \cup {<<Open1, Wide1>>, <<Open1, Open2>>, <<Wide1, More1>>, <<Open2, Open1>>, <<Open2, Cool>>}
MCProposals ==
  [task : {"t1", "t2"}, decision : {"PROPOSE", "BLOCK"}, actions : Lists, score : {0, 36}]
MCStreamed == {<<Wide1>>, <<Open1, Open2>>, <<Open1, Wide1>>, <<Cool>>, <<Beyond>>}

Context(keys, rain, scene, criteria) ==
  [keys |-> keys, rain |-> rain, scene |-> scene, criteria |-> criteria]
MCContexts ==
  {Context({"w1", "w2"}, "dry", None, "none"), Context({"w1", "w2"}, "TRUE", None, "none"),
   Context({"w1"}, "wet", None, "one for each patch"), Context({}, "raining", None, "none"),
   Context({"w1"}, "raining", None, "too few"), Context({"w1", "w2"}, "drizzle", None, "none"),
   Context({"w1"}, "dry", "of these windows", "none"),
   Context({"w2"}, "wet", "of other windows", "none")}
====
