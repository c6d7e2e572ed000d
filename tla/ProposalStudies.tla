--------------------------- MODULE ProposalStudies ---------------------------
(* Studies of what becomes of a proposal: dialogues drawn and labelled, a    *)
(* delta network judged on a suite, a state network's proposals committed to *)
(* a tree, a reasoner's proposals scored, a consumer's projection of a       *)
(* receipt.  A behaviour is a behaviour of one of them.                      *)
EXTENDS Integers, Sequences, FiniteSets

CONSTANTS
    None,
    Places, Words, Suites, Mistakes, Thresholds, Snapshots, MaxRevision,
    CaseFiles, Replies, Upstreams, Inventories

VARIABLES
    asked, begun,
    suite, expected, held, judged, verdict,
    oracle, tree, said,
    questions, scored, summary,
    upstream, inventory, noa

Corpus   == INSTANCE DialogueCorpus
Rollout  == INSTANCE DialogueRollout
Intent   == INSTANCE IntentCommit
Reasoner == INSTANCE ReasonerBenchmark
Noa      == INSTANCE NoaProjection

corpusVars   == <<asked, begun>>
rolloutVars  == <<suite, expected, held, judged, verdict>>
intentVars   == <<oracle, tree, said>>
reasonerVars == <<questions, scored, summary>>
noaVars      == <<upstream, inventory, noa>>

Unused == Corpus!Unused /\ Rollout!Unused /\ Intent!Unused /\ Reasoner!Unused /\ Noa!Unused

Init ==
    \/ Corpus!Init /\ Rollout!Unused /\ Intent!Unused /\ Reasoner!Unused /\ Noa!Unused
    \/ Corpus!Unused /\ Rollout!Init /\ Intent!Unused /\ Reasoner!Unused /\ Noa!Unused
    \/ Corpus!Unused /\ Rollout!Unused /\ Intent!Init /\ Reasoner!Unused /\ Noa!Unused
    \/ Corpus!Unused /\ Rollout!Unused /\ Intent!Unused /\ Reasoner!Init /\ Noa!Unused
    \/ Corpus!Unused /\ Rollout!Unused /\ Intent!Unused /\ Reasoner!Unused /\ Noa!Init

Next ==
    \/ asked # None /\ Corpus!Next /\ UNCHANGED <<rolloutVars, intentVars, reasonerVars, noaVars>>
    \/ suite # None /\ Rollout!Next /\ UNCHANGED <<corpusVars, intentVars, reasonerVars, noaVars>>
    \/ tree # None /\ Intent!Next /\ UNCHANGED <<corpusVars, rolloutVars, reasonerVars, noaVars>>
    \/ questions # None /\ Reasoner!Next /\ UNCHANGED <<corpusVars, rolloutVars, intentVars, noaVars>>
    \/ inventory # None /\ Noa!Next /\ UNCHANGED <<corpusVars, rolloutVars, intentVars, reasonerVars>>

WordingHasOneLabel == Corpus!WordingHasOneLabel
ChangeWasAsked     == Intent!LossWasAsked /\ Intent!RevisedInFocus
TreeFollowsOracle  == Intent!TreeFollowsOracle
NothingUpgraded    == Noa!NothingUpgraded

\* What is passed was asked: the accuracy gate of the delta network passes on
\* every class of turns, the reasoner's summary counts only what was answered.
VerdictsAreEarned == Rollout!PassedOnEveryClass /\ Reasoner!FullMarksAreEarned
=============================================================================
