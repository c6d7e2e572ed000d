--------------------------- MODULE DialogueRollout ---------------------------
(* The trained delta network judged on an authored suite:                    *)
(* evaluate_flywire_delta_suite.py answers every turn twice, once from the   *)
(* suite's own history and once from what its own answers committed, with    *)
(* the commit gate of infer_flywire_delta.py in between, and                 *)
(* accuracy_gate.py passes or refuses the report.  The network is a function *)
(* of the text and the state before it: where both histories agree, so do    *)
(* its answers.                                                              *)
EXTENDS DialogueState

CONSTANTS
    Suites,             \* dialogues: sequences of [cues, delta]
    Mistakes,           \* vectors a network may answer instead of the label's
    Thresholds          \* accepted by accuracy_gate.py: <<numerator, denominator>>

VARIABLES
    suite,              \* the dialogue, or None
    expected,           \* its own state
    held,               \* the state the network's committed deltas made
    judged,             \* the turns answered so far
    verdict             \* [threshold, passed], or None

-----------------------------------------------------------------------------
NoKey == [place |-> None, prop |-> None]

\* A label as the network is asked for it.
Pack(d) ==
    LET two == <<NoKey, NoKey>>
        t   == d.targets \o two
        v   == d.values \o <<0, 0>>
    IN [op |-> d.op, count |-> Len(d.targets), ref |-> d.ref,
        target |-> t[1], value |-> v[1], second |-> t[2], second_value |-> v[2]]

\* A vector as a delta.
TensorDelta(v) ==
    Delta(v.op, SubSeq(<<v.target, v.second>>, 1, v.count),
                SubSeq(<<v.value, v.second_value>>, 1, v.count), v.ref)

\* The runtime gate: the two destructive operations need their words.
Authorized(d, cues) ==
    /\ d.op = "clear" => "all" \in cues
    /\ d.op = "retract" => "retract" \in cues

-----------------------------------------------------------------------------
Valued(gold) == gold.op \in {"add", "revise"}

TargetRight(r) == r.pred.target = r.gold.target

\* Every head the label asks for is right.
DeltaExact(r) ==
    /\ r.pred.op = r.gold.op /\ r.pred.count = r.gold.count
    /\ r.gold.count > 0 => TargetRight(r)
    /\ Valued(r.gold) => r.pred.value = r.gold.value
    /\ r.gold.count > 1 => r.pred.second = r.gold.second /\ r.pred.second_value = r.gold.second_value

\* mutant: a class without rows is counted as right
MeanOfNothing(right, of) == IF of = {} THEN <<1, 1>> ELSE <<Cardinality(right), Cardinality(of)>>

\* None for a class the suite has no row of.
Mean(right, of) == IF of = {} THEN None ELSE <<Cardinality(right), Cardinality(of)>>

Metrics(pairs) ==
    LET All == DOMAIN pairs
        Among(I, Right(_)) == Mean({i \in I : Right(pairs[i])}, I)
        Rows(Is(_)) == {i \in All : Is(pairs[i].gold)}
        targeted == Rows(LAMBDA g : g.count > 0)
    IN [operation   |-> Among(All, LAMBDA r : r.pred.op = r.gold.op),
        reference   |-> Among(All, LAMBDA r : r.pred.ref = r.gold.ref),
        count       |-> Among(All, LAMBDA r : r.pred.count = r.gold.count),
        delta_exact |-> Among(All, DeltaExact),
        target      |-> Among(targeted, TargetRight),
        place       |-> Among(targeted, LAMBDA r : r.pred.target.place = r.gold.target.place),
        property    |-> Among(targeted, LAMBDA r : r.pred.target.prop = r.gold.target.prop),
        value       |-> Among(Rows(Valued), LAMBDA r : r.pred.value = r.gold.value),
        coreference |-> Among(Rows(LAMBDA g : g.ref = "focus_coreference"), TargetRight),
        retraction  |-> Among(Rows(LAMBDA g : g.op = "retract"), DeltaExact),
        multi       |-> Among(Rows(LAMBDA g : g.count > 1), DeltaExact),
        ood         |-> Among(Rows(LAMBDA g : g.op = "ood"), LAMBDA r : r.pred.op = r.gold.op)]

AtLeast(ratio, t) == ratio[1] * t[2] >= t[1] * ratio[2]

Assess(metrics, t) == \A key \in DOMAIN metrics : metrics[key] # None /\ AtLeast(metrics[key], t)

-----------------------------------------------------------------------------
Answer ==
    /\ suite # None /\ verdict = None
    /\ Len(judged) < Len(suite)
    /\ LET turn == suite[Len(judged) + 1]
           gold == Pack(turn.delta)
           After(s, raw) ==
               LET v == Resolve(raw, s.focus, Active(s))
                   ok == Authorized(TensorDelta(v), turn.cues)
               IN [raw |-> raw, vector |-> v, accepted |-> ok, before |-> s,
                   state |-> IF ok THEN Apply(s, TensorDelta(v)) ELSE s]
       IN \E taught \in Mistakes \cup {gold} :
          \E own \in IF held = expected THEN {taught} ELSE Mistakes \cup {gold} :
             /\ expected' = Apply(expected, turn.delta)
             /\ held' = After(held, own).state
             /\ judged' = Append(judged, [gold |-> gold, taught |-> After(expected, taught),
                                      own |-> After(held, own), exact |-> held' = expected'])
    /\ UNCHANGED <<suite, verdict>>

\* The report's three views and the rollout's states, at one threshold.
AccuracyGate ==
    /\ suite # None
    /\ Len(judged) = Len(suite)
    /\ verdict = None
    /\ \E t \in Thresholds :
          LET View(V(_)) == Metrics([i \in DOMAIN judged |-> [pred |-> V(judged[i]), gold |-> judged[i].gold]])
              exact == <<Cardinality({i \in DOMAIN judged : judged[i].exact}), Len(judged)>>
          IN verdict' = [threshold |-> t,
                         passed |-> /\ Assess(View(LAMBDA r : r.taught.vector), t)
                                    /\ Assess(View(LAMBDA r : r.taught.raw), t)
                                    /\ Assess(View(LAMBDA r : r.own.vector), t)
                                    /\ AtLeast(exact, t)]
    /\ UNCHANGED <<suite, expected, held, judged>>

Unused == suite = None /\ expected = None /\ held = None /\ judged = <<>> /\ verdict = None

Init ==
    /\ suite \in Suites
    /\ expected = EmptyState /\ held = EmptyState
    /\ judged = <<>> /\ verdict = None

Next == Answer \/ AccuracyGate

-----------------------------------------------------------------------------
\* The gate fails closed on what a suite does not ask: it passes no network
\* that was never asked to follow a reference, take something back, do two
\* things, set a value or leave a request it cannot serve alone.
PassedOnEveryClass ==
    verdict # None /\ verdict.passed =>
        LET golds == {judged[i].gold : i \in DOMAIN judged}
        IN /\ \E g \in golds : g.ref = "focus_coreference"
           /\ \E g \in golds : g.op = "retract"
           /\ \E g \in golds : g.count > 1
           /\ \E g \in golds : g.op = "ood"
           /\ \E g \in golds : Valued(g)

=============================================================================
