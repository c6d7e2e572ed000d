--------------------------- MODULE DialogueCorpus ---------------------------
(* The labelled dialogues a delta network learns from (make_dialogues() of   *)
(* dialogue_delta_corpus.py).  A text is the template family it is taken     *)
(* from and the places and values put into it.                               *)
EXTENDS DialogueState

CONSTANT Words      \* values a text can ask for, a subset of 1 .. 4

VARIABLES
    asked,          \* the committed state of the dialogue, or None
    begun           \* a first turn was drawn

Text(family, at, values) == [family |-> family, at |-> at, values |-> values]

KeyFor(place, value) == [place |-> place, prop |-> SlotFor(value)]

\* The self-correction at the end of a text: the other value of the same slot.
Corrected(value) == CASE value = 1 -> 2 [] value = 2 -> 1 [] value = 3 -> 4 [] value = 4 -> 3

\* mutant: any active key can be called by its device
NamedAlone(s) == Active(s)

\* Active keys whose device has no other active key: the device's name is the key's.
Named(s) == {k \in Active(s) : \A other \in Active(s) : other.place = k.place => other = k}

AddTurns ==
    LET clauses == Places \X Words
        One(c) == KeyFor(c[1], c[2])
    IN {[text |-> Text("add", <<c[1]>>, <<c[2]>>),
         delta |-> Delta("add", <<One(c)>>, <<c[2]>>, "explicit")] : c \in clauses}
       \cup
       {[text |-> Text("corrected", <<c[1]>>, <<c[2]>>),
         delta |-> Delta("add", <<One(c)>>, <<Corrected(c[2])>>, "explicit")] : c \in clauses}
       \cup
       {[text |-> Text("multi", <<p[1][1], p[2][1]>>, <<p[1][2], p[2][2]>>),
         delta |-> Delta("add", <<One(p[1]), One(p[2])>>, <<p[1][2], p[2][2]>>, "explicit")] :
            p \in {q \in clauses \X clauses : One(q[1]) # One(q[2])}}

\* A reference is taught only where there is something to refer to.
Focused(s) == s.focus # None /\ s.values[s.focus] # 0

\* The device stays, the slot is the value's.
ReviseTurns(s) ==
    IF ~Focused(s) THEN {}
    ELSE {[text |-> Text("revise", <<>>, <<v>>),
           delta |-> Delta("revise", <<KeyFor(s.focus.place, v)>>, <<v>>, "focus_coreference")] : v \in Words}

FocusTurns(s) ==
    IF ~Focused(s) THEN {}
    ELSE {[text |-> Text(op, <<>>, <<>>), delta |-> Delta(op, <<s.focus>>, <<0>>, "focus_coreference")] :
             op \in {"retract", IF s.focus \in s.paused THEN "resume" ELSE "pause"}}

NamedTurns(s) ==
    {[text |-> Text("retract_named", <<k.place>>, <<>>),
      delta |-> Delta("retract", <<k>>, <<0>>, "explicit_named")] : k \in Named(s)}
    \cup
    {[text |-> Text("revise_named", <<c[1].place>>, <<c[2]>>),
      delta |-> Delta("revise", <<KeyFor(c[1].place, c[2])>>, <<c[2]>>, "explicit_named")] : c \in Named(s) \X Words}

OtherTurns ==
    {[text |-> Text(op, <<>>, <<>>), delta |-> Delta(op, <<>>, <<>>, "none")] : op \in {"retain", "ood", "clear"}}

Turns(s) ==
    IF ~begun THEN AddTurns
    ELSE AddTurns \cup ReviseTurns(s) \cup FocusTurns(s) \cup NamedTurns(s) \cup OtherTurns

-----------------------------------------------------------------------------
Say ==
    /\ \E t \in Turns(asked) : asked' = Apply(asked, t.delta)
    /\ begun' = TRUE

Unused == asked = None /\ begun = FALSE

Init == asked = EmptyState /\ begun = FALSE

Next == Say

-----------------------------------------------------------------------------
\* One wording has one label: what a text asks for in a state never depends on
\* which of several active keys the generator happened to draw.
WordingHasOneLabel ==
    asked # None =>
        \A t, u \in Turns(asked) : t.text = u.text => t.delta = u.delta

=============================================================================
