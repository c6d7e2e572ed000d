---------------------------- MODULE DialogueState ----------------------------
(* What a bounded dialogue remembers and how one delta changes it:           *)
(* dialogue_delta_corpus.py's state and apply(), and the pointer resolver of *)
(* train_flywire_delta.py.  A key is a place (a device of a room) and one of *)
(* its two properties; 0 is "nothing asked", 1 and 2 are power values, 3 and *)
(* 4 are levels.                                                             *)
EXTENDS Integers, Sequences, FiniteSets, SequencesExt

CONSTANTS Places, None

Keys == [place : Places, prop : {"power", "level"}]

SlotFor(value) == IF value >= 3 THEN "level" ELSE "power"

EmptyState == [values |-> [k \in Keys |-> 0], paused |-> {}, focus |-> None, ood |-> FALSE]

Active(s) == {k \in Keys : s.values[k] # 0}

Delta(op, targets, values, reference) ==
    [op |-> op, targets |-> targets, values |-> values, ref |-> reference]

\* A target that is no key is skipped; the last value said of a key stands, and
\* the key named last is in focus.
Put(s, d) ==
    LET known == {i \in DOMAIN d.targets : d.targets[i] \in Keys}
        At(k) == {i \in known : d.targets[i] = k}
    IN [s EXCEPT !.values = [k \in Keys |-> IF At(k) = {} THEN @[k] ELSE d.values[Max(At(k))]],
                 !.paused = {k \in @ : At(k) = {}},
                 !.focus  = IF known = {} THEN @ ELSE d.targets[Max(known)]]

TakeBack(s, K) ==
    [s EXCEPT !.values = [k \in Keys |-> IF k \in K THEN 0 ELSE @[k]],
              !.paused = @ \ K, !.focus = IF @ \in K THEN None ELSE @]

Apply(s, d) ==
    LET hit == Range(d.targets) \cap Keys
    IN CASE d.op = "clear"   -> EmptyState
         [] d.op \in {"add", "revise"} -> Put(s, d)
         [] d.op = "retract" -> TakeBack(s, hit)
         [] d.op = "pause"   -> [s EXCEPT !.paused = @ \cup hit]
         [] d.op = "resume"  -> [s EXCEPT !.paused = @ \ hit]
         [] d.op = "ood"     -> [s EXCEPT !.ood = TRUE]
         [] OTHER -> s

\* A reference to the focus takes the focus for its place; a named place with
\* one active property takes that property.
Resolve(pred, focus, active) ==
    LET sets == pred.op \in {"add", "revise"}
        here == {k \in active : k.place = pred.target.place}
    IN CASE pred.ref = "focus_coreference" /\ focus # None ->
              [pred EXCEPT !.target = [place |-> focus.place,
                  prop |-> IF sets THEN pred.target.prop ELSE focus.prop]]
         [] pred.ref = "explicit_named" /\ Cardinality(here) = 1 /\ ~sets ->
              [pred EXCEPT !.target = CHOOSE k \in here : TRUE]
         [] OTHER -> pred
=============================================================================
