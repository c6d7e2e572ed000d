---------------------------- MODULE IntentCommit ----------------------------
(* The commit boundary of intent_state_commit.py: a network that predicts    *)
(* the whole dialogue state proposes, a persistent tree keeps.  The dialogue *)
(* and the state it should leave come from dialogue_state_corpus.py's        *)
(* oracle; once the network has proposed something else than the oracle's    *)
(* state, only the tree is followed, for any wording.                        *)
EXTENDS DialogueState

CONSTANTS
    Words,          \* values a text can ask for
    Snapshots,      \* goals a network that is wrong may propose
    MaxRevision     \* bound on accepted commits

VARIABLES
    oracle,         \* the state the dialogue should have, or None
    tree,           \* [goals, paused, focus, ood_pending, pending_ood, revision], or None
    said            \* the last utterance: "clear", "retract" (one of the exact commands) or "other"

Ops == {"add", "revise", "retract", "clear", "pause", "resume", "retain", "ood"}

Goals == {k \in Keys : tree.goals[k] # 0}

EmptyTree == [goals |-> EmptyState.values, paused |-> {}, focus |-> None,
              ood_pending |-> FALSE, pending_ood |-> {}, revision |-> 0]

-----------------------------------------------------------------------------
\* The oracle: edits and operation to the state they leave; whatever is not an
\* edit is about the focus.
Transition(s, op, edits) ==
    LET d == Delta(op, [i \in DOMAIN edits |-> edits[i][1]], [i \in DOMAIN edits |-> edits[i][2]], "none")
        atFocus == Delta(op, <<s.focus>>, <<0>>, "none")
    IN Apply(s, IF op \in {"retract", "pause", "resume"} THEN atFocus ELSE d)

\* One clause sets a key to a value of its slot; two set different keys.
Edits    == {e \in Keys \X Words : e[1].prop = SlotFor(e[2])}
AddEdits == {<<e>> : e \in Edits} \cup {q \in Edits \X Edits : q[1][1] # q[2][1]}

\* What make_split() may draw next: a revision keeps the slot of the focus.
Drawn(s) ==
    {<<"add", e>> : e \in AddEdits}
    \cup (IF s = EmptyState /\ tree.revision = 0 THEN {} ELSE
             {<<op, <<>>>> : op \in {"retain", "clear", "ood"}}
             \cup (IF s.focus = None THEN {} ELSE
                      {<<op, <<>>>> : op \in {"retract", "pause", "resume"}}
                      \cup {<<"revise", <<<<s.focus, v>>>>>> : v \in {w \in Words : SlotFor(w) = s.focus.prop}}))

\* A predicted state as a proposal.
Decode(s, op) == [operation |-> op, goals |-> s.values, focus |-> s.focus]

-----------------------------------------------------------------------------
\* mutant: what the network no longer lists is dropped
AddSnapshot(p) ==
    [tree EXCEPT !.goals = p.goals,
                 !.focus = IF p.focus # None /\ p.goals[p.focus] # 0 THEN p.focus ELSE @]

\* mutant: every goal proposed is taken
AddProposedWhole(p) ==
    [tree EXCEPT !.goals = [k \in Keys |-> IF p.goals[k] # 0 THEN p.goals[k] ELSE @[k]],
                 !.focus = IF p.focus # None /\ p.goals[p.focus] # 0 THEN p.focus ELSE @]

\* New goals are taken; an existing one changes only in the proposed focus.
AddProposed(p) ==
    [tree EXCEPT !.goals = [k \in Keys |-> IF p.goals[k] # 0 /\ (@[k] = 0 \/ k = p.focus)
                                           THEN p.goals[k] ELSE @[k]],
                 !.focus = IF p.focus # None /\ p.goals[p.focus] # 0 THEN p.focus ELSE @]

FocusHeld == tree.focus # None /\ tree.focus \in Goals

\* The operation's own condition; a proposal that fails it leaves the tree alone.
Accepts(p, text) ==
    CASE p.operation = "clear"   -> text = "clear"
      [] p.operation = "retract" -> text = "retract" /\ FocusHeld
      [] p.operation = "revise"  -> tree.focus # None /\ p.focus = tree.focus /\ p.goals[tree.focus] # 0
      [] p.operation \in {"pause", "resume"} -> FocusHeld
      [] OTHER -> p.operation \in Ops

Changed(p) ==
    CASE p.operation = "clear"   -> EmptyTree
      [] p.operation = "retract" -> [tree EXCEPT !.goals[tree.focus] = 0, !.paused = @ \ {tree.focus}, !.focus = None]
      [] p.operation = "add"     -> AddProposed(p)
      [] p.operation = "revise"  -> [tree EXCEPT !.goals[tree.focus] = p.goals[tree.focus]]
      [] p.operation = "pause"   -> [tree EXCEPT !.paused = @ \cup {tree.focus}]
      [] p.operation = "resume"  -> [tree EXCEPT !.paused = @ \ {tree.focus}]
      [] p.operation = "ood"     -> [tree EXCEPT !.ood_pending = TRUE, !.pending_ood = @ \cup {tree.revision + 1}]
      [] OTHER -> tree

Commit(p, text) ==
    IF Accepts(p, text) THEN [Changed(p) EXCEPT !.revision = tree.revision + 1] ELSE tree

-----------------------------------------------------------------------------
\* The texts drawn to clear and to retract are among the exact commands.
Spoken(op) == IF op \in {"clear", "retract"} THEN op ELSE "other"

\* A turn whose state and operation the network predicts as the oracle has them.
PredictedTurn ==
    /\ oracle # None /\ tree.revision < MaxRevision
    /\ \E turn \in Drawn(oracle) :
          /\ oracle' = Transition(oracle, turn[1], turn[2])
          /\ said' = Spoken(turn[1])
          /\ tree' = Commit(Decode(oracle', turn[1]), said')

\* A turn on which it predicts anything else.
MispredictedTurn ==
    /\ tree # None /\ tree.revision < MaxRevision
    /\ oracle' = None
    /\ said' \in {"clear", "retract", "other"}
    /\ \E op \in Ops \cup {"unknown"}, goals \in Snapshots, focus \in Keys \cup {None} :
          tree' = Commit([operation |-> op, goals |-> goals, focus |-> focus], said')

Unused == oracle = None /\ tree = None /\ said = None

Init == oracle = EmptyState /\ tree = EmptyTree /\ said = None

Next == PredictedTurn \/ MispredictedTurn

-----------------------------------------------------------------------------
\* "An omission cannot delete a node": whatever the network proposes, a goal is
\* gone only after one of the exact commands, and a retraction takes the focus
\* alone.
LossWasAsked ==
    tree # None =>
        \A k \in Goals : tree'.goals[k] = 0 =>
            said' = "clear" \/ (said' = "retract" /\ k = tree.focus)

\* "Only the proposed focused slot may revise an existing value": whatever the
\* network proposes, a goal that is there takes another value only when it is
\* what the tree speaks of after the commit, so one commit revises one goal.
RevisedInFocus ==
    tree # None =>
        \A k \in Goals : tree'.goals[k] \notin {0, tree.goals[k]} => k = tree'.focus

\* As long as the network predicts what the oracle has, the tree asks for a
\* value of the same keys, speaks of the same one with the oracle's value of it,
\* pauses all that the oracle pauses and remembers the same unserved request.
\* The values of the other keys may be older, and more may be paused.
TreeFollowsOracle ==
    oracle # None =>
        /\ Goals = Active(oracle)
        /\ tree.focus = oracle.focus
        /\ tree.focus # None => tree.goals[tree.focus] = oracle.values[tree.focus]
        /\ oracle.paused \subseteq tree.paused
        /\ tree.ood_pending = oracle.ood
=============================================================================
