---- MODULE MCSemanticTurn ----
(* Four devices of a small home, the utterances the repository's tests use *)
(* (by their wording facts) and outputs of the networks that disagree.     *)
EXTENDS SemanticTurn

D(a, e) == [area |-> a, entity |-> e]
MCDevices == {D("living", "ac"), D("main", "ac"), D("main", "window")}

Slot(lo, hi, step) == [min |-> lo, max |-> hi, step |-> step]
MCCanonical ==
  [AWGD |-> [power |-> Slot(0, 0, 0), temperature |-> Slot(16, 30, 1)],
   CWDS |-> [power |-> Slot(0, 0, 0), opening |-> Slot(0, 100, 10)]]
MCWritable == [AWGD |-> {"power", "temperature"}, CWDS |-> {"opening"}]
MCBindings == {<<D("living", "ac"), "AWGD">>, <<D("main", "ac"), "AWGD">>, <<D("main", "ac"), "CWDS">>,
               <<D("main", "window"), "CWDS">>}

Text(named, joint, words, lifecycle, cue, number, unit) ==
  [named |-> named, joint |-> joint, words |-> words, lifecycle |-> lifecycle,
   cue |-> cue, number |-> number, unit |-> unit]
MCTexts ==
  {Text({D("living", "ac")}, FALSE, {"set_value"}, FALSE, "temperature", 22, "degrees"),
   Text({D("main", "window")}, FALSE, {"open", "set_value"}, FALSE, "opening", 22, "percent"),
   Text({D("main", "ac")}, FALSE, {"close"}, TRUE, "none", NoNumber, "none"),
   Text({D("living", "ac"), D("main", "window")}, TRUE, {"close"}, FALSE, "none", NoNumber, "none"),
   Text({}, FALSE, {"neg"}, FALSE, "temperature", NoNumber, "none"),
   Text({}, FALSE, {"pos"}, FALSE, "opening", NoNumber, "none"),
   Text({}, FALSE, {"open", "close"}, FALSE, "none", NoNumber, "none"),
   Text({}, FALSE, {"protect", "open"}, FALSE, "none", NoNumber, "none")}

Hint(focus, add) == [focus |-> focus, add |-> add]
MCHints == {Hint({}, {}), Hint({D("living", "ac")}, {D("main", "ac")})}

Raw(op, cardinality, direction, has_value) ==
  [op |-> op, cardinality |-> cardinality, direction |-> direction, has_value |-> has_value]
MCRaws ==
  {Raw("PATCH_SLOT", "ONE", "ZERO", TRUE), Raw("PATCH_RELATIVE", "SET", "POS", FALSE),
   Raw("CLOSE_DEVICE", "ONE", "NEG", TRUE), Raw("ADD_DEVICE", "SET", "ZERO", FALSE)}

Request(areas, entities, known, slot, value) ==
  [areas |-> areas, entities |-> entities, known |-> known, slot |-> slot, value |-> value]
MCRequests ==
  {Request({"living", "main"}, {"ac"}, TRUE, "temperature", 22),
   Request({"living", "main"}, {"ac"}, FALSE, "temperature", 31),
   Request({"main"}, {"ac", "window"}, TRUE, "opening", 30),
   Request({"living", "main"}, {"window"}, FALSE, "opening", 0)}
====
