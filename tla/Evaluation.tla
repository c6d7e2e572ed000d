----------------------------- MODULE Evaluation -----------------------------
(* The offline studies: the benchmark and the rows taught from it, the       *)
(* hidden pack, the decision gate, the candidate evidence, and what becomes  *)
(* of a proposal.  They share no file and no process, so a behaviour is a    *)
(* behaviour of one of them while the others stay unused.                    *)
EXTENDS Integers, Sequences, FiniteSets

CONSTANTS
    None,
    Rooms, Entities, PairAllow, InitialLevel, RelativeDelta, Values, Lengths, Count, Limit,
    Packs, Answers, MaxReceipts, MaxRewrites,
    Dialogues, TurnsPerDialogue, SealedRows, Shapes, Scores, Epochs, TargetNum, TargetDen,
    TrainSets, HoldoutSets, Orders, Provenances, Covered,
    Places, Words, Suites, Mistakes, Thresholds, Snapshots, MaxRevision,
    CaseFiles, Replies, Upstreams, Inventories

\* A multi-target turn finds a second device of the entity it has drawn.
ASSUME PairsAssumption ==
    \A s \in DOMAIN PairAllow : \A p \in PairAllow[s] :
        \E q \in PairAllow[s] \ {p} : p[2] = q[2]

\* The splits name devices of the home, and a level is a whole number.
ASSUME HomesAssumption ==
    /\ PairAllow \in [{"train", "dev", "sealed"} -> SUBSET (Rooms \X Entities)]
    /\ InitialLevel \in [Entities -> Int] /\ RelativeDelta \in [Entities -> Int]
    /\ Values \in [Entities -> SUBSET Int]
    /\ None \notin Rooms \X Entities

\* A text asks for one of four values, and a network proposes nothing else.
ASSUME WordsAssumption ==
    LET keys == [place : Places, prop : {"power", "level"}] IN
    /\ Words \subseteq 1 .. 4
    /\ Snapshots \subseteq [keys -> 0 .. 4]
    /\ None \notin keys

\* A file of cases is a list.
ASSUME CaseFilesAssumption ==
    \A file \in CaseFiles : file \in Seq({file[i] : i \in DOMAIN file})

\* Rows can be counted and their confidences compared.
ASSUME RowsAssumption ==
    /\ Dialogues \in Nat /\ TurnsPerDialogue \in Nat
    /\ IsFiniteSet(SealedRows)
    /\ \A s \in Shapes : s.prob \in [{"op", "count", "ref", "target", "value", "second"} -> Nat]
    /\ None \notin Nat

VARIABLES
    phase, split, profile, length, home, turns, focus, ask, rows,
    input, gold, commitment, predictions, receipts, scoring,
    stage, weights, best, history, answers, gate, frozen, kernel,
    train, cases, model, learned, report, evidence,
    asked, begun, suite, expected, held, judged, verdict, oracle, tree, said,
    questions, scored, summary, upstream, inventory, noa

Trajectory == INSTANCE LongTrajectory
Hidden     == INSTANCE HiddenPack
Gate       == INSTANCE DecisionGate
Candidate  == INSTANCE CandidateEvidence
Proposals  == INSTANCE ProposalStudies

trajectoryVars == <<phase, split, profile, length, home, turns, focus, ask, rows>>
hiddenVars     == <<input, gold, commitment, predictions, receipts, scoring>>
gateVars       == <<stage, weights, best, history, answers, gate, frozen, kernel>>
candidateVars  == <<train, cases, model, learned, report, evidence>>

proposalVars   == <<asked, begun, suite, expected, held, judged, verdict, oracle, tree, said,
                    questions, scored, summary, upstream, inventory, noa>>

vars == <<trajectoryVars, hiddenVars, gateVars, candidateVars, proposalVars>>

OneStudy ==
    \/ Trajectory!Init /\ Hidden!Unused /\ Gate!Unused /\ Candidate!Unused
    \/ Trajectory!Unused /\ Hidden!Init /\ Gate!Unused /\ Candidate!Unused
    \/ Trajectory!Unused /\ Hidden!Unused /\ Gate!Init /\ Candidate!Unused
    \/ Trajectory!Unused /\ Hidden!Unused /\ Gate!Unused /\ Candidate!Init

Init ==
    \/ OneStudy /\ Proposals!Unused
    \/ Trajectory!Unused /\ Hidden!Unused /\ Gate!Unused /\ Candidate!Unused /\ Proposals!Init

InTrajectory == phase # "unused"
InGate       == stage # "unused"
InCandidate  == train # {}
InProposals  == ~Proposals!Unused
InHidden     == ~InTrajectory /\ ~InGate /\ ~InCandidate /\ ~InProposals

Next ==
    \/ InTrajectory /\ Trajectory!Next /\ UNCHANGED <<hiddenVars, gateVars, candidateVars, proposalVars>>
    \/ InHidden /\ Hidden!Next /\ UNCHANGED <<trajectoryVars, gateVars, candidateVars, proposalVars>>
    \/ InGate /\ Gate!Next /\ UNCHANGED <<trajectoryVars, hiddenVars, candidateVars, proposalVars>>
    \/ InCandidate /\ Candidate!Next /\ UNCHANGED <<trajectoryVars, hiddenVars, gateVars, proposalVars>>
    \/ InProposals /\ Proposals!Next /\ UNCHANGED <<trajectoryVars, hiddenVars, gateVars, candidateVars>>

Spec == Init /\ [][Next]_vars

-----------------------------------------------------------------------------
\* Every taught patch is the whole of the oracle's change (LongTrajectory).
TaughtPatchIsTheOracle == Trajectory!TaughtPatchIsTheOracle

\* The same background never has both answers (LongTrajectory).
BackgroundDecides == Trajectory!BackgroundDecides

\* A commitment and a prediction pack fix the score (HiddenPack).
CommitmentFixesScore == Hidden!CommitmentFixesScore

\* The calibrated threshold is deployable and maximal, and what it commits
\* does harm within the precision asked (DecisionGate).
GateIsSound == Gate!ThresholdIsBest /\ Gate!GateBoundsHarm

\* A checkpoint is judged on targets it never saw, and evidence is about the
\* cases it names (CandidateEvidence).
EvidenceIsSound == Candidate!JudgedOnUnseen /\ Candidate!ClaimsFitTheCase

\* One wording has one label (DialogueCorpus).
WordingHasOneLabel == Proposals!WordingHasOneLabel

\* What a judge of proposals passes was asked (DialogueRollout, ReasonerBenchmark).
VerdictsAreEarned == Proposals!VerdictsAreEarned

\* No proposal of any network makes the tree forget what nobody took back, nor
\* revise a goal it does not then speak of; as long as the network predicts what
\* the oracle has, the tree holds the oracle's keys and the oracle's value of
\* the one in focus (IntentCommit).
TreeHolds == []Proposals!TreeFollowsOracle /\ [][Proposals!ChangeWasAsked]_vars

\* A projection let through claims what the receipt claims (NoaProjection).
NothingUpgraded == Proposals!NothingUpgraded
=============================================================================
