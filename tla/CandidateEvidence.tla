-------------------------- MODULE CandidateEvidence --------------------------
(* Evidence for a learned candidate ranker, in four programs that meet only  *)
(* in files: train_pi_home_candidate_checkpoint.py fits it,                  *)
(* eval_pi_home_candidate_checkpoint.py and                                  *)
(* compare_pi_home_candidate_checkpoint.py judge it on held-out cases, and   *)
(* run_pi_home_learned_real_contam.py confronts its answers with a physics   *)
(* engine.  The benchmark file may be edited between two programs.  A ranker *)
(* is the order it puts targets in.                                          *)
EXTENDS Integers, Sequences, FiniteSets, SequencesExt

CONSTANTS
    TrainSets, HoldoutSets, \* what the benchmark file may hold: sets of cases
    Orders,                 \* rankings of all targets, best first
    Provenances,            \* of the physics project: [engineering_truth, engineering_ready, mode]
    Covered,                \* the dimensions the engine covers
    None

VARIABLES
    train, cases,       \* the benchmark file
    model,              \* model.pt: [train_fingerprint, order], and the cases that were
                        \* held out when it was fitted (history), or None
    learned,            \* the saved evaluation: its rows, and the ranker and the cases
                        \* they are of (history), or None
    report,             \* what the last program that exited 0 judged, or None
    evidence            \* the evidence file, whether its run was accepted, and the cases
                        \* of the benchmark and the evaluation then (history), or None

vars == <<train, cases, model, learned, report, evidence>>

-----------------------------------------------------------------------------
Identities(S) == UNION {c.candidates : c \in S}

Isolated(S, T) == Identities(S) \cap Identities(T) = {}

\* Pairs of the chosen candidate and each other one.
TrainingPairs(S) == UNION {{<<c.id, c.gold, other>> : other \in c.candidates \ {c.gold}} : c \in S}

\* What fit() may leave: any order, provided there is a pair to learn from.
Fit(S) == IF TrainingPairs(S) = {} THEN {} ELSE Orders

\* The first of the case's candidates in the ranker's order.
Ranked(order, c) == SelectSeq(order, LAMBDA t : t \in c.candidates)

Predicted(order, c) == Head(Ranked(order, c))

\* mutant: the fingerprint of the checkpoint is not compared
LoadAny(m) == m # None

LoadModel(m) == m # None /\ m.train_fingerprint = train

EvalRow(order, c) ==
    [id |-> c.id, predicted |-> Predicted(order, c), correct |-> Predicted(order, c) = c.gold]

\* The baseline's patch with its target replaced by the ranker's first.
Wrong(target, c) == IF target = c.gold THEN 0 ELSE 1

LearnedTarget(order, c) == IF c.baseline = None THEN None ELSE Predicted(order, c)

Judged(by) ==
    [by |-> by, fitted |-> model.train_fingerprint, held_out |-> model.held_out,
     train |-> train, cases |-> cases]

-----------------------------------------------------------------------------
EditBenchmark ==
    /\ \/ train' \in TrainSets /\ cases' = cases
       \/ cases' \in HoldoutSets /\ train' = train
    /\ UNCHANGED <<model, learned, report, evidence>>

Train ==
    /\ Isolated(train, cases)
    /\ \A c \in train : c.gold \in c.candidates
    /\ \E o \in Fit(train) :
          model' = [train_fingerprint |-> train, order |-> o, held_out |-> cases]
    /\ UNCHANGED <<train, cases, learned, report, evidence>>

\* The rows are printed, and saved by whoever asked, whatever the exit code.
Evaluate ==
    /\ LoadModel(model)
    /\ LET rows == {EvalRow(model.order, c) : c \in cases}
       IN /\ learned' = [rows |-> rows, order |-> model.order, cases |-> cases]
          /\ report' = IF rows # {} /\ \A r \in rows : r.correct THEN Judged("eval") ELSE report
    /\ UNCHANGED <<train, cases, model, evidence>>

\* Accepted only when the ranker is better than the baseline on both counts.
Compare ==
    /\ LoadModel(model)
    /\ LET Bad(T(_)) == Cardinality({c \in cases : Wrong(T(c), c) = 1})
           Learned(c) == LearnedTarget(model.order, c)
           Baseline(c) == c.baseline
           Done == Cardinality({c \in cases : c.baseline # None /\ Wrong(Learned(c), c) = 0})
           DoneBefore == Cardinality({c \in cases : c.completes /\ Wrong(c.baseline, c) = 0})
       IN /\ Bad(Baseline) - Bad(Learned) > 0
          /\ Done - DoneBefore > 0
    /\ report' = Judged("compare")
    /\ UNCHANGED <<train, cases, model, learned, evidence>>

-----------------------------------------------------------------------------
Ready(p) == p.engineering_truth /\ p.engineering_ready

EvidenceLevel(p) ==
    IF Ready(p) THEN "engineering-trusted"
    ELSE IF p.mode = "transient" THEN "real-contam-transient-demo-profile"
    ELSE "real-contam-demo-profile"

\* The profile the engine runs under: a demo project may run, and is not trusted.
Profile(p) == [trusted |-> Ready(p), level |-> EvidenceLevel(p)]

\* mutant: the saved evaluation is taken for one of this case
AnyLearnedRow(c) == CHOOSE r \in learned.rows : TRUE

LearnedRowFor(c) == CHOOSE r \in learned.rows : r.id = c.id

\* The engine branches on opening candidates only; a case with any other
\* candidate is blocked as a whole.
Modelled(c) == c.openings = c.candidates

Blocked(c) == [id |-> c.id, status |-> "BLOCKED", discriminative |-> FALSE, trusted |-> FALSE,
               predicted |-> None, winner |-> None]

\* The engine says which candidate wins, whether its branches differ and, in
\* flags of its own, whether its response is to be trusted.
RunCase(c, row, winner, disc, vouched) ==
    IF ~Modelled(c) THEN Blocked(c)
    ELSE [id |-> c.id, status |-> "REAL_CONTAM_EXECUTED", discriminative |-> disc,
          trusted |-> vouched /\ winner = row.predicted /\ c.required \subseteq Covered,
          predicted |-> row.predicted, winner |-> winner]

\* One candidate of each case has the greatest return.
Winners == {w \in [cases -> Identities(cases)] : \A c \in cases : w[c] \in c.candidates}

\* The evidence file is written before the run's own refusals.
RunContam ==
    /\ learned # None
    /\ \A c \in cases : \E r \in learned.rows : r.id = c.id
    /\ \E p \in Provenances, disc \in BOOLEAN, winner \in Winners, vouched \in SUBSET cases :
          LET results == {RunCase(c, LearnedRowFor(c), winner[c], disc, c \in vouched) : c \in cases}
              ran     == {r \in results : r.status = "REAL_CONTAM_EXECUTED"}
          IN evidence' = [profile |-> Profile(p), results |-> results, cases |-> cases,
                          evaluated |-> learned,
                          accepted |-> /\ ran # {}
                                       /\ ~Ready(p)
                                       /\ p.mode = "transient"
                                       /\ \A r \in ran : r.discriminative
                                       /\ \A r \in results : ~r.trusted]
    /\ UNCHANGED <<train, cases, model, learned, report>>

-----------------------------------------------------------------------------
Unused ==
    /\ train = {} /\ cases = {}
    /\ model = None /\ learned = None /\ report = None /\ evidence = None

Init ==
    /\ train \in TrainSets /\ cases \in HoldoutSets
    /\ model = None /\ learned = None /\ report = None /\ evidence = None

\* Bound: one evidence file.
Next == evidence = None /\ (EditBenchmark \/ Train \/ Evaluate \/ Compare \/ RunContam)
-----------------------------------------------------------------------------
\* Whatever is edited or retrained in between, a checkpoint that a program
\* judged and exited 0 was fitted on the training cases the file shows, and is
\* judged on targets it never saw - as long as no new target came among the
\* held-out cases since it was fitted, which only the training program checks.
JudgedOnUnseen ==
    report # None =>
        /\ report.fitted = report.train
        /\ Identities(report.cases) \subseteq Identities(report.held_out)
           => Isolated(report.fitted, report.cases)

\* The case is in the evaluation as it is, and no other has its id.
AsEvaluated(c, evaluated) == {d \in evaluated.cases : d.id = c.id} = {c}

\* A saved evaluation and the benchmark meet by the ids of their cases, and
\* either may have changed since.  What the engine was run for names the
\* target that the ranker puts first, unless the case was edited after it was
\* evaluated; and where generalization is claimed, edited or not, the target is
\* one that the case of that name offers, and the engine covers all it requires.
ClaimsFitTheCase ==
    evidence # None =>
        \A r \in evidence.results :
            r.status = "REAL_CONTAM_EXECUTED" =>
                \E c \in evidence.cases :
                    /\ c.id = r.id
                    /\ AsEvaluated(c, evidence.evaluated)
                       => r.predicted = Predicted(evidence.evaluated.order, c)
                    /\ r.trusted => r.predicted \in c.candidates /\ c.required \subseteq Covered

=============================================================================
