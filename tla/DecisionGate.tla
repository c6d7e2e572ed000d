---------------------------- MODULE DecisionGate ----------------------------
(* The commit gate of a bounded kernel, benchmark_flywire_decision_gate.py:  *)
(* fit on training dialogues, keep the best epoch by the selection half of   *)
(* the development dialogues, choose a confidence threshold on the other     *)
(* half, freeze it and apply it to the sealed rows.  kernel_conformance.py   *)
(* repeats the last two steps on rows that any kernel wrote to a file.       *)
(* A network is what it answers: for a row, a predicted vector and how sure  *)
(* each of its heads is.  Confidences are small integers; the score that     *)
(* orders epochs is an ordinal.                                              *)
EXTENDS DialogueState

CONSTANTS
    Dialogues, TurnsPerDialogue,    \* the development set: whole dialogues, in order
    SealedRows,
    Shapes,             \* what a network may answer: [pred, gold, prob, before]
    Scores, Epochs,     \* bounds: values of the selection score, epochs of a fit
    TargetNum, TargetDen            \* the precision asked of the gate

DevRows == 0 .. Dialogues * TurnsPerDialogue - 1

VARIABLES
    stage,      \* "unused", "fit", "fitted", "answered", "calibrated", "sealed", "conformed"
    weights,      \* the weights, updated in place: [epoch, score]
    best,       \* the kept checkpoint: [epoch, score], or None
    history,    \* the score of every epoch so far
    answers,    \* the loaded network's answers: calibration and sealed rows
    gate,       \* the calibration result
    frozen,     \* the sealed result under the frozen threshold
    kernel      \* kernel_conformance.py's report of the same rows; None when it refused

vars == <<stage, weights, best, history, answers, gate, frozen, kernel>>

-----------------------------------------------------------------------------
Selection   == {i \in DevRows : (i \div TurnsPerDialogue) % 2 = 0}
Calibration == DevRows \ Selection

\* The heads an answer stands on, by what the answer itself says.
RequiredHeads(v) ==
    {"op", "count", "ref"}
        \cup (IF v.count > 0 THEN {"target"} ELSE {})
        \cup (IF v.count > 0 /\ v.op \in {"add", "revise"} THEN {"value"} ELSE {})
        \cup (IF v.count > 1 THEN {"second"} ELSE {})

ConfidenceRow(v, prob) == Min({prob[h] : h \in RequiredHeads(v)})

ExactRow(v, gold) == \A h \in RequiredHeads(v) : v[h] = gold[h]

\* A row as evaluate() sees it.
Answer(shape) ==
    LET v == Resolve(shape.pred, shape.before.focus, shape.before.active) IN
    [confidence |-> ConfidenceRow(v, shape.prob), exact |-> ExactRow(v, shape.gold),
     wrong_target |-> shape.gold.count > 0 /\ v.target # shape.gold.target,
     ood_false_commit |-> shape.gold.op = "ood" /\ v.op # "ood"]

-----------------------------------------------------------------------------
Precise(correct, committed) == correct * TargetDen >= TargetNum * committed

NoGate == [threshold |-> None, committed |-> 0, correct |-> 0]

Correct(rows, I) == Cardinality({i \in I : rows[i].exact})

\* mutant: the rows of a tie are committed one by one, the right ones first
CoverageRowByRow(rows) ==
    LET Key(i) == 2 * rows[i].confidence + (IF rows[i].exact THEN 1 ELSE 0)
        order  == SetToSortSeq(DOMAIN rows, LAMBDA i, j : Key(i) > Key(j) \/ (Key(i) = Key(j) /\ i < j))
        First(n) == {order[m] : m \in 1 .. n}
        good   == {n \in DOMAIN order : Precise(Correct(rows, First(n)), n)}
    IN IF good = {} THEN NoGate
       ELSE [threshold |-> rows[order[Max(good)]].confidence, committed |-> Max(good),
             correct |-> Correct(rows, First(Max(good)))]

Levels(rows) == {rows[i].confidence : i \in DOMAIN rows}

\* The rows of one confidence are committed as one group.
WithGroup(rows, sum, t) ==
    LET group == {i \in DOMAIN rows : rows[i].confidence = t}
    IN [threshold |-> t, committed |-> sum.committed + Cardinality(group),
        correct |-> sum.correct + Correct(rows, group)]

\* The sweep over thresholds from the highest down: of the levels it has been
\* at, the lowest comes last.  The last group that keeps the precision is the gate.
CoverageAtPrecision(rows) ==
    LET Sweep[L \in SUBSET Levels(rows)] ==
            IF L = {} THEN [sum |-> NoGate, best |-> NoGate]
            ELSE LET before == Sweep[L \ {Min(L)}]
                     now == WithGroup(rows, before.sum, Min(L))
                 IN [sum |-> now,
                     best |-> IF Precise(now.correct, now.committed) THEN now ELSE before.best]
    IN Sweep[Levels(rows)].best

FixedThreshold(rows, t) ==
    LET committed == {i \in DOMAIN rows : t # None /\ rows[i].confidence >= t}
    IN [threshold |-> t, committed |-> Cardinality(committed), correct |-> Correct(rows, committed)]

\* The gate of evaluate(): chosen on these rows, or the frozen threshold applied to them.
CommitCurve(rows, source, threshold) ==
    IF source = "this_split_calibration" THEN CoverageAtPrecision(rows) ELSE FixedThreshold(rows, threshold)

\* What evaluate() adds to a gate: the rows it would commit that move the
\* wrong device or act on a text that asks for nothing here.
Harm(rows, t) ==
    {i \in DOMAIN rows : /\ t # None /\ rows[i].confidence >= t
                         /\ rows[i].wrong_target \/ rows[i].ood_false_commit}

-----------------------------------------------------------------------------
Better(score) == best = None \/ score > best.score

\* One epoch of fit(): the optimizer moves the weights, development rows of
\* the selection half score them, a better epoch's weights are copied.
Epoch ==
    /\ stage = "fit"
    /\ Len(history) < Epochs
    /\ \E s \in Scores :
          /\ weights' = [epoch |-> Len(history) + 1, score |-> s]
          /\ history' = Append(history, s)
          /\ best' = IF Better(s) THEN weights' ELSE best
    /\ UNCHANGED <<stage, answers, gate, frozen, kernel>>

Load ==
    /\ stage = "fit"
    /\ Len(history) = Epochs
    /\ weights' = best
    /\ stage' = "fitted"
    /\ UNCHANGED <<best, history, answers, gate, frozen, kernel>>

Predict ==
    /\ stage = "fitted"
    /\ \E c \in [Calibration -> Shapes], s \in [SealedRows -> Shapes] :
          answers' = [calibration |-> [i \in Calibration |-> Answer(c[i])],
                      sealed      |-> [i \in SealedRows |-> Answer(s[i])]]
    /\ stage' = "answered"
    /\ UNCHANGED <<weights, best, history, gate, frozen, kernel>>

Calibrate ==
    /\ stage = "answered"
    /\ gate' = CommitCurve(answers.calibration, "this_split_calibration", None)
    /\ stage' = "calibrated"
    /\ UNCHANGED <<weights, best, history, answers, frozen, kernel>>

Seal ==
    /\ stage = "calibrated"
    /\ frozen' = CommitCurve(answers.sealed, "development_fixed", gate.threshold)
    /\ stage' = "sealed"
    /\ UNCHANGED <<weights, best, history, answers, gate, kernel>>

\* kernel_conformance.py: the same sweep over rows read from a file, where a
\* row written twice makes the file refused.
KernelLoad(rows) == \A r, s \in DOMAIN rows : rows[r].id = rows[s].id => r = s

\* The kernel's sweep is the gate's.
KernelCoverage(rows) == CoverageAtPrecision(rows)

KernelFixed(rows, t) ==
    LET committed == {i \in DOMAIN rows : t # None /\ rows[i].confidence >= t}
    IN [threshold |-> t, committed |-> Cardinality(committed), correct |-> Correct(rows, committed),
        wrong_target |-> Cardinality({i \in committed : rows[i].wrong_target}),
        ood_false_commit |-> Cardinality({i \in committed : rows[i].ood_false_commit})]

KernelRun(calibration, sealed) ==
    LET g == KernelCoverage(calibration)
    IN [gate |-> g, frozen |-> KernelFixed(sealed, g.threshold)]

Conform ==
    /\ stage = "sealed"
    /\ \E again \in {None} \cup Calibration :
          LET once == SetToSeq(Calibration)
              ids  == IF again = None THEN once ELSE Append(once, again)
              file == [n \in DOMAIN ids |-> answers.calibration[ids[n]] @@ [id |-> ids[n]]]
          IN kernel' = IF KernelLoad(file) THEN KernelRun(file, answers.sealed) ELSE None
    /\ stage' = "conformed"
    /\ UNCHANGED <<weights, best, history, answers, gate, frozen>>

-----------------------------------------------------------------------------
Idle == answers = None /\ gate = None /\ frozen = None /\ kernel = None

Unused == stage = "unused" /\ weights = None /\ best = None /\ history = <<>> /\ Idle

Init == stage = "fit" /\ weights = None /\ best = None /\ history = <<>> /\ Idle

Next == Epoch \/ Load \/ Predict \/ Calibrate \/ Seal \/ Conform

-----------------------------------------------------------------------------
\* The calibrated threshold can be deployed: cutting the calibration rows at it
\* commits exactly what the gate reports, at the precision asked, and no
\* threshold that keeps this precision commits more.
ThresholdIsBest ==
    stage = "calibrated" =>
        LET rows  == answers.calibration
            Cut(t) == FixedThreshold(rows, t)
            kept  == {t \in {rows[i].confidence : i \in DOMAIN rows} :
                          Precise(Cut(t).correct, Cut(t).committed)}
        IN /\ gate = Cut(gate.threshold)
           /\ gate.threshold = None <=> kept = {}
           /\ \A t \in kept : Cut(t).committed <= gate.committed

\* A gate at some precision bounds harm at the same rate: what it commits to
\* the wrong device, or for a text that asks for nothing, is among its inexact
\* rows, so the precision it was calibrated for covers them.
GateBoundsHarm ==
    stage \in {"calibrated", "sealed"} =>
        /\ Cardinality(Harm(answers.calibration, gate.threshold)) <= gate.committed - gate.correct
        /\ stage = "sealed" =>
              Cardinality(Harm(answers.sealed, gate.threshold)) <= frozen.committed - frozen.correct
=============================================================================
