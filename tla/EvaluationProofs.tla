--------------------------- MODULE EvaluationProofs ---------------------------
(***************************************************************************)
(* The offline studies, for any packs, rows, cases, dialogues, replies     *)
(* and receipts.  The studies share nothing, so each part of the module    *)
(* proves its own study's invariant from that study's steps alone; a study *)
(* that a behaviour is not about stays unused.                             *)
(***************************************************************************)
EXTENDS Evaluation, FiniteSetTheorems, FunctionTheorems, NaturalsInduction,
        WellFoundedInduction, TLAPS

-----------------------------------------------------------------------------
(* What a study sees of a step: one of its own, or none.                     *)

LEMMA ProposalsUnusedInit == Init => Proposals!Init \/ Proposals!Unused
BY DEF Init

\* The hidden pack is new, whichever study a behaviour is about.
LEMMA HiddenStarts == Init => Hidden!Init
BY DEF Init, OneStudy, Hidden!Init

LEMMA HiddenSteps == [Next]_vars => Hidden!Next \/ UNCHANGED hiddenVars
BY DEF Next, vars

LEMMA GateStarts == Init => Gate!Init \/ Gate!Unused
BY DEF Init, OneStudy

LEMMA GateSteps == [Next]_vars => Gate!Next \/ UNCHANGED gateVars
BY DEF Next, vars

LEMMA CandidateStarts == Init => Candidate!Init \/ Candidate!Unused
BY DEF Init, OneStudy

LEMMA CandidateSteps == [Next]_vars => Candidate!Next \/ UNCHANGED candidateVars
BY DEF Next, vars

LEMMA TrajectoryStarts == Init => Trajectory!Init \/ Trajectory!Unused
BY DEF Init, OneStudy

LEMMA TrajectorySteps == [Next]_vars => Trajectory!Next \/ UNCHANGED trajectoryVars
BY DEF Next, vars

LEMMA ProposalsSteps == [Next]_vars => Proposals!Next \/ UNCHANGED proposalVars
BY DEF Next, vars

-----------------------------------------------------------------------------
(* The hidden pack.                                                          *)

Files == {"input", "gold", "commitment", "predictions"}

Rewritings == {<<>>, <<"gold">>}

\* The files a running scoring has read, as long as only the gold is written and
\* at most once: every other file is still what was read of it, and of the gold
\* first the old content was read and then the new.
ReadsAgree(s) ==
    /\ \A i \in DOMAIN s.seen :
          Hidden!Reads[i] # "gold" \/ s.rewritten = <<>> => s.seen[i] = Hidden!Content(Hidden!Reads[i])
    /\ \A i, j \in DOMAIN s.seen :
          /\ Hidden!Reads[i] = "gold" /\ Hidden!Reads[j] = "gold" /\ i <= j
          /\ s.seen[j] # gold
          => s.seen[i] = s.seen[j]

\* A running scoring has compared the commitment with the digests it had then.
ScoringInv ==
    scoring # None =>
        /\ scoring = [seen |-> scoring.seen, rewritten |-> scoring.rewritten]
        /\ \E S : scoring.seen \in Seq(S)
        /\ scoring.rewritten \in Seq(Files)
        /\ Len(scoring.seen) <= 12
        /\ Len(scoring.seen) >= 4 => scoring.seen[4].input_pack = scoring.seen[2]
        /\ Len(scoring.seen) >= 5 => scoring.seen[4].gold_pack = scoring.seen[5]
        /\ scoring.rewritten \in Rewritings => ReadsAgree(scoring)

HiddenInv == ScoringInv /\ CommitmentFixesScore

LEMMA ReadsOfGold ==
    /\ DOMAIN Hidden!Reads = 1 .. 12 /\ Len(Hidden!Reads) = 12
    /\ \A i \in 1 .. 12 : Hidden!Reads[i] \in Files
    /\ \A i \in 1 .. 12 : Hidden!Reads[i] = "gold" <=> i \in {3, 5, 8, 10}
BY DEF Hidden!Reads, Files

\* The last of a number of files written.
LEMMA LastRewriting ==
    ASSUME NEW written \in Seq(Files), NEW file \in Files,
           written \o <<file>> \in Rewritings
    PROVE  written = <<>> /\ file = "gold"
<1>1. Len(written \o <<file>>) = Len(written) + 1 /\ Len(written) \in Nat
    OBVIOUS
<1>2. Len(written \o <<file>>) <= 1
    BY DEF Rewritings
<1>3. written = <<>>
    BY <1>1, <1>2
<1>4. written \o <<file>> = <<file>> /\ <<file>> # <<>> /\ <<file>>[1] = file
    BY <1>3
<1>5. <<file>> = <<"gold">>
    BY <1>4 DEF Rewritings
<1>6. QED
    BY <1>3, <1>4, <1>5

\* One file is written: a scoring keeps what it has read.
LEMMA WriteKeepsScoring ==
    ASSUME HiddenInv, NEW file \in Files, Hidden!Wrote(<<file>>),
           \A f \in Files \ {file} : Hidden!Content(f)' = Hidden!Content(f)
    PROVE  HiddenInv'
<1>1. CommitmentFixesScore'
    BY DEF HiddenInv, CommitmentFixesScore, Hidden!CommitmentFixesScore, Hidden!Wrote
<1>2. CASE scoring = None
    BY <1>1, <1>2 DEF HiddenInv, ScoringInv, Hidden!Wrote
<1>3. CASE scoring # None
    <2>1. PICK s : s = scoring
        OBVIOUS
    <2>2. PICK written : written = s.rewritten
        OBVIOUS
    <2>3. /\ s = [seen |-> s.seen, rewritten |-> written] /\ written \in Seq(Files)
          /\ scoring' = [s EXCEPT !.rewritten = @ \o <<file>>]
        BY <1>3, <2>1, <2>2 DEF HiddenInv, ScoringInv, Hidden!Wrote
    <2>4. PICK more : more = written \o <<file>>
        OBVIOUS
    <2>5. scoring' = [seen |-> s.seen, rewritten |-> more]
        BY <2>2, <2>3, <2>4
    <2>6. more \in Seq(Files)
        BY <2>3, <2>4
    <2>7. ASSUME more \in Rewritings
          PROVE  ReadsAgree(scoring)'
        <3>1. written = <<>> /\ file = "gold"
            BY <2>3, <2>4, <2>7, LastRewriting
        <3>2. ReadsAgree(s)
            BY <1>3, <2>1, <2>2, <3>1 DEF HiddenInv, ScoringInv, Rewritings
        <3>3. DOMAIN s.seen \subseteq 1 .. 12
            BY <1>3, <2>1 DEF HiddenInv, ScoringInv
        <3>4. \A i \in DOMAIN s.seen : s.seen[i] = Hidden!Content(Hidden!Reads[i])
            BY <2>2, <3>1, <3>2 DEF ReadsAgree
        <3>5. \A i \in DOMAIN s.seen : Hidden!Reads[i] # "gold" =>
                   s.seen[i] = Hidden!Content(Hidden!Reads[i])'
            <4> SUFFICES ASSUME NEW i \in DOMAIN s.seen, Hidden!Reads[i] # "gold"
                         PROVE  s.seen[i] = Hidden!Content(Hidden!Reads[i])'
                OBVIOUS
            <4>1. PICK f \in Files : f = Hidden!Reads[i]
                BY <3>3, ReadsOfGold
            <4>2. Hidden!Content(f)' = Hidden!Content(f)
                BY <3>1, <4>1
            <4>3. Hidden!Content(f)' = Hidden!Content(Hidden!Reads[i])'
                BY <4>1 DEF Hidden!Content, Hidden!Reads
            <4>4. QED
                BY <3>4, <4>1, <4>2, <4>3
        <3>6. \A i, j \in DOMAIN s.seen :
                  Hidden!Reads[i] = "gold" /\ Hidden!Reads[j] = "gold" => s.seen[i] = s.seen[j]
            BY <3>4
        <3>7. more # <<>>
            <4>1. Len(more) = Len(written) + 1 /\ Len(written) = 0
                BY <2>3, <2>4, <3>1
            <4>2. QED
                BY <4>1
        <3>8. PICK now : now = scoring'
            OBVIOUS
        <3>9. now.seen = s.seen /\ now.rewritten = more
            BY <2>5, <3>8
        <3>10. ReadsAgree(now)'
            BY <3>5, <3>6, <3>7, <3>9 DEF ReadsAgree, Hidden!Reads
        <3>11. QED
            BY <3>8, <3>10 DEF ReadsAgree
    <2>8. ScoringInv'
        BY <1>3, <2>1, <2>5, <2>6, <2>7 DEF HiddenInv, ScoringInv
    <2>9. QED
        BY <1>1, <2>8 DEF HiddenInv
<1>4. QED
    BY <1>2, <1>3

\* All four are written: no receipt of this scoring will be reliable.
LEMMA FixtureKeepsScoring ==
    ASSUME HiddenInv, Hidden!Fixture
    PROVE  HiddenInv'
<1> DEFINE all == <<"input", "gold", "commitment", "predictions">>
<1>1. Hidden!Wrote(all)
    BY DEF Hidden!Fixture
<1>2. CommitmentFixesScore'
    BY <1>1 DEF HiddenInv, CommitmentFixesScore, Hidden!CommitmentFixesScore, Hidden!Wrote
<1>3. CASE scoring = None
    BY <1>1, <1>2, <1>3 DEF HiddenInv, ScoringInv, Hidden!Wrote
<1>4. all \in Seq(Files) /\ Len(all) = 4
    BY DEF Files
<1> HIDE DEF all
<1>5. CASE scoring # None
    <2>1. PICK s, written, more : s = scoring /\ written = s.rewritten /\ more = written \o all
        OBVIOUS
    <2>2. /\ s = [seen |-> s.seen, rewritten |-> written] /\ written \in Seq(Files)
          /\ scoring' = [s EXCEPT !.rewritten = @ \o all]
        BY <1>1, <1>5, <2>1 DEF HiddenInv, ScoringInv, Hidden!Wrote
    <2>3. scoring' = [seen |-> s.seen, rewritten |-> more]
        BY <2>1, <2>2
    <2>4. more \in Seq(Files) /\ Len(more) = Len(written) + 4 /\ Len(written) \in Nat
        <3>1. written \in Seq(Files) /\ more = written \o all
            BY <2>1, <2>2
        <3>2. \A u, v \in Seq(Files) :
                  /\ u \o v \in Seq(Files) /\ Len(u) \in Nat
                  /\ Len(u \o v) = Len(u) + Len(v)
            OBVIOUS
        <3>3. QED
            BY <1>4, <3>1, <3>2
    <2>5. more \notin Rewritings
        <3>1. \A w \in Rewritings : Len(w) <= 1
            BY DEF Rewritings
        <3>2. QED
            BY <2>4, <3>1
    <2>6. ScoringInv'
        BY <1>5, <2>1, <2>3, <2>4, <2>5 DEF HiddenInv, ScoringInv
    <2>7. QED
        BY <1>2, <2>6 DEF HiddenInv
<1>6. QED
    BY <1>3, <1>5

\* The next file is read: it agrees with what was read of it before.
LEMMA ReadKeepsScoring ==
    ASSUME HiddenInv, Hidden!ReadNext
    PROVE  HiddenInv'
<1>1. CommitmentFixesScore'
    BY DEF HiddenInv, CommitmentFixesScore, Hidden!CommitmentFixesScore, Hidden!ReadNext
<1>2. PICK s, n, content : s = scoring /\ n = Len(s.seen) /\ content = Hidden!Content(Hidden!Reads[n + 1])
    OBVIOUS
<1>3. /\ scoring # None /\ n < 12
      /\ s = [seen |-> s.seen, rewritten |-> s.rewritten] /\ s.rewritten \in Seq(Files)
      /\ UNCHANGED <<input, gold, commitment, predictions>>
    BY <1>2, ReadsOfGold DEF HiddenInv, ScoringInv, Hidden!ReadNext
<1>4. PICK S : s.seen \in Seq(S)
    BY <1>2, <1>3 DEF HiddenInv, ScoringInv
<1>5. PICK seen : seen = Append(s.seen, content)
    OBVIOUS
<1>6. /\ n \in Nat /\ DOMAIN s.seen = 1 .. n /\ Len(seen) = n + 1 /\ DOMAIN seen = 1 .. (n + 1)
      /\ \A i \in 1 .. n : seen[i] = s.seen[i]
      /\ seen[n + 1] = content
    BY <1>2, <1>4, <1>5
<1>7. seen \in Seq(S \cup {content})
    <2>1. s.seen \in Seq(S \cup {content})
        BY <1>4
    <2>2. QED
        BY <1>5, <2>1
<1>8. CASE scoring' = None
    BY <1>1, <1>8 DEF HiddenInv, ScoringInv
<1>9. CASE scoring' = [s EXCEPT !.seen = seen] /\ Hidden!ValidateTriplet(seen)
    <2>1. scoring' = [seen |-> seen, rewritten |-> s.rewritten]
        BY <1>3, <1>9
    <2>2. n + 1 >= 4 => seen[4].input_pack = seen[2]
        <3>1. CASE n + 1 = 4
            BY <1>6, <1>9, <3>1 DEF Hidden!ValidateTriplet, Hidden!CommitmentBinds
        <3>2. CASE n >= 4
            BY <1>2, <1>3, <1>6, <3>2 DEF HiddenInv, ScoringInv
        <3>3. QED
            BY <1>6, <3>1, <3>2
    <2>3. n + 1 >= 5 => seen[4].gold_pack = seen[5]
        <3>1. CASE n + 1 = 5
            BY <1>6, <1>9, <3>1 DEF Hidden!ValidateTriplet
        <3>2. CASE n >= 5
            <4>1. s.seen[4].gold_pack = s.seen[5]
                BY <1>2, <1>3, <3>2 DEF HiddenInv, ScoringInv
            <4>2. 4 \in 1 .. n /\ 5 \in 1 .. n
                BY <1>6, <3>2
            <4>3. QED
                BY <1>6, <4>1, <4>2
        <3>3. QED
            BY <1>6, <3>1, <3>2
    <2>4. ASSUME s.rewritten \in Rewritings
          PROVE  ReadsAgree([seen |-> seen, rewritten |-> s.rewritten])
        <3>1. ReadsAgree(s)
            BY <1>2, <1>3, <2>4 DEF HiddenInv, ScoringInv
        <3>2. Hidden!Reads[n + 1] = "gold" => content = gold
            BY <1>2 DEF Hidden!Content
        <3>3. \A i \in 1 .. (n + 1) :
                  Hidden!Reads[i] # "gold" \/ s.rewritten = <<>>
                  => seen[i] = Hidden!Content(Hidden!Reads[i])
            BY <1>2, <1>6, <3>1 DEF ReadsAgree
        <3>4. \A i, j \in 1 .. (n + 1) :
                  /\ Hidden!Reads[i] = "gold" /\ Hidden!Reads[j] = "gold" /\ i <= j
                  /\ seen[j] # gold
                  => seen[i] = seen[j]
            <4> SUFFICES ASSUME NEW i \in 1 .. (n + 1), NEW j \in 1 .. (n + 1),
                                Hidden!Reads[i] = "gold", Hidden!Reads[j] = "gold", i <= j,
                                seen[j] # gold
                         PROVE  seen[i] = seen[j]
                OBVIOUS
            <4>1. j # n + 1
                BY <1>6, <3>2
            <4>2. i \in 1 .. n /\ j \in 1 .. n
                BY <1>6, <4>1
            <4>3. QED
                BY <1>6, <3>1, <4>2 DEF ReadsAgree
        <3>5. QED
            BY <1>6, <3>3, <3>4 DEF ReadsAgree
    <2>5. ScoringInv'
        <3>1. PICK now : now = scoring'
            OBVIOUS
        <3>2. now = [seen |-> seen, rewritten |-> s.rewritten]
            BY <2>1, <3>1
        <3>3. now.seen = seen /\ now.rewritten = s.rewritten
            BY <3>2
        <3>4. now.rewritten \in Rewritings => ReadsAgree(now)
            BY <2>4, <3>2, <3>3
        <3>5. ReadsAgree(now) => ReadsAgree(now)'
            BY <1>3 DEF ReadsAgree, Hidden!Content
        <3>6. QED
            BY <1>3, <1>6, <1>7, <2>2, <2>3, <3>1, <3>2, <3>3, <3>4, <3>5 DEF ScoringInv, ReadsAgree
    <2>6. QED
        BY <1>1, <2>5 DEF HiddenInv
<1>10. QED
    BY <1>2, <1>5, <1>8, <1>9 DEF Hidden!ReadNext

\* The receipt of a reliable scoring is about the gold of its commitment.
LEMMA ScoreKeepsScoring ==
    ASSUME HiddenInv, Hidden!Score
    PROVE  HiddenInv'
<1>1. PICK s, seen, r : s = scoring /\ seen = s.seen /\ r = Hidden!Receipt(seen, s.rewritten)
    OBVIOUS
<1>2. scoring # None /\ scoring' = None /\ receipts' = receipts \cup {r} /\ Len(seen) = 12
    BY <1>1, ReadsOfGold DEF Hidden!Score
<1>3. /\ r.gold = seen[10] /\ r.commitment = seen[11] /\ r.prediction = seen[12]
      /\ r.rows = Hidden!Rows(seen[7], seen[8], seen[9]) /\ r.rewritten = s.rewritten
    BY <1>1 DEF Hidden!Receipt
<1>4. /\ DOMAIN seen = 1 .. 12
      /\ seen[4].input_pack = seen[2] /\ seen[4].gold_pack = seen[5]
      /\ s.rewritten \in Rewritings => ReadsAgree(s)
    BY <1>1, <1>2 DEF HiddenInv, ScoringInv
<1>5. ASSUME Hidden!Reliable(r)
      PROVE  r.rows = Hidden!Rows(r.commitment.input_pack, r.commitment.gold_pack, r.prediction)
    <2>1. ReadsAgree(s) /\ seen[10] = seen[11].gold_pack
        BY <1>3, <1>4, <1>5 DEF Hidden!Reliable, Rewritings
    <2>2. /\ seen[2] = input /\ seen[7] = input /\ seen[4] = commitment
          /\ seen[11] = commitment /\ seen[9] = predictions /\ seen[12] = predictions
        BY <1>1, <1>4, <2>1 DEF ReadsAgree, Hidden!Reads, Hidden!Content
    <2>3. /\ seen[8] # gold => seen[5] = seen[8]
          /\ seen[10] # gold => seen[8] = seen[10]
        BY <1>1, <1>4, <2>1 DEF ReadsAgree, Hidden!Reads
    <2>4. seen[10] = seen[5]
        BY <1>4, <2>1, <2>2
    <2>5. seen[8] = seen[10]
        BY <2>3, <2>4
    <2>6. QED
        BY <1>3, <1>4, <2>1, <2>2, <2>5
<1>6. CommitmentFixesScore'
    BY <1>2, <1>5 DEF HiddenInv, CommitmentFixesScore, Hidden!CommitmentFixesScore
<1>7. QED
    BY <1>2, <1>6 DEF HiddenInv, ScoringInv

LEMMA HiddenStep ==
    ASSUME HiddenInv, [Next]_vars
    PROVE  HiddenInv'
<1>1. CASE Hidden!WriteInput
    <2>1. \A f \in Files \ {"input"} : Hidden!Content(f)' = Hidden!Content(f)
        BY <1>1 DEF Hidden!WriteInput, Hidden!Content, Files
    <2>2. Hidden!Wrote(<<"input">>) /\ "input" \in Files
        BY <1>1 DEF Hidden!WriteInput, Files
    <2>3. QED
        BY <2>1, <2>2, WriteKeepsScoring
<1>2. CASE Hidden!WriteGold
    <2>1. \A f \in Files \ {"gold"} : Hidden!Content(f)' = Hidden!Content(f)
        BY <1>2 DEF Hidden!WriteGold, Hidden!Content, Files
    <2>2. Hidden!Wrote(<<"gold">>) /\ "gold" \in Files
        BY <1>2 DEF Hidden!WriteGold, Files
    <2>3. QED
        BY <2>1, <2>2, WriteKeepsScoring
<1>3. CASE Hidden!Commit
    <2>1. \A f \in Files \ {"commitment"} : Hidden!Content(f)' = Hidden!Content(f)
        BY <1>3 DEF Hidden!Commit, Hidden!Content, Files
    <2>2. Hidden!Wrote(<<"commitment">>) /\ "commitment" \in Files
        BY <1>3 DEF Hidden!Commit, Files
    <2>3. QED
        BY <2>1, <2>2, WriteKeepsScoring
<1>4. CASE Hidden!Predict
    <2>1. \A f \in Files \ {"predictions"} : Hidden!Content(f)' = Hidden!Content(f)
        BY <1>4 DEF Hidden!Predict, Hidden!Content, Files
    <2>2. Hidden!Wrote(<<"predictions">>) /\ "predictions" \in Files
        BY <1>4 DEF Hidden!Predict, Files
    <2>3. QED
        BY <2>1, <2>2, WriteKeepsScoring
<1>5. CASE Hidden!Fixture
    BY <1>5, FixtureKeepsScoring
<1>6. CASE Hidden!StartScore
    <2>1. /\ scoring' = [seen |-> <<>>, rewritten |-> <<>>] /\ receipts' = receipts
        BY <1>6 DEF Hidden!StartScore
    <2>2. PICK now : now = scoring'
        OBVIOUS
    <2>3. now.seen = <<>> /\ now.rewritten = <<>> /\ DOMAIN now.seen = {} /\ Len(now.seen) = 0
          /\ now.seen \in Seq({}) /\ now.rewritten \in Seq(Files)
        BY <2>1, <2>2
    <2>4. ScoringInv'
        BY <2>1, <2>2, <2>3 DEF ScoringInv, ReadsAgree
    <2>5. QED
        BY <2>1, <2>4 DEF HiddenInv, CommitmentFixesScore, Hidden!CommitmentFixesScore
<1>7. CASE Hidden!ReadNext
    BY <1>7, ReadKeepsScoring
<1>8. CASE Hidden!Score
    BY <1>8, ScoreKeepsScoring
<1>9. CASE UNCHANGED hiddenVars
    BY <1>9 DEF hiddenVars, HiddenInv, ScoringInv, ReadsAgree, Hidden!Content,
                CommitmentFixesScore, Hidden!CommitmentFixesScore
<1>10. QED
    BY <1>1, <1>2, <1>3, <1>4, <1>5, <1>6, <1>7, <1>8, <1>9, HiddenSteps DEF Hidden!Next

\* Though the gold may be replaced at any moment of a scoring, a receipt that
\* carries the digest of the committed gold, made while nothing else was
\* written, has the rows of that gold (score_hidden_benchmark.py:12-40,
\* validate_hidden_benchmark_pack.py:73-97).
THEOREM CommitmentBindsScore == Spec => []CommitmentFixesScore
<1>1. Init => HiddenInv
    BY HiddenStarts DEF Hidden!Init, Hidden!Unused, HiddenInv, ScoringInv, CommitmentFixesScore,
                        Hidden!CommitmentFixesScore
<1>2. HiddenInv /\ [Next]_vars => HiddenInv'
    BY HiddenStep
<1>3. HiddenInv => CommitmentFixesScore
    BY DEF HiddenInv
<1>4. QED
    BY <1>1, <1>2, <1>3, PTL DEF Spec

-----------------------------------------------------------------------------
(* The candidate evidence.                                                   *)

\* A checkpoint was fitted beside held-out cases that share no target with its
\* training cases.
FittedApart ==
    model # None => Candidate!Isolated(model.train_fingerprint, model.held_out)

\* The rows of a saved evaluation are those of one ranker on one set of cases.
RowsAreOfTheCases ==
    learned # None => learned.rows = {Candidate!EvalRow(learned.order, c) : c \in learned.cases}

CandidateInv == FittedApart /\ RowsAreOfTheCases /\ EvidenceIsSound

LEMMA TrainKeepsCandidate ==
    ASSUME CandidateInv, Candidate!Train
    PROVE  CandidateInv'
<1>1. PICK o \in Orders : model' = [train_fingerprint |-> train, order |-> o, held_out |-> cases]
    BY DEF Candidate!Train, Candidate!Fit
<1>2. model'.train_fingerprint = train /\ model'.held_out = cases
    BY <1>1
<1>3. Candidate!Isolated(train, cases) /\ UNCHANGED <<train, cases, learned, report, evidence>>
    BY DEF Candidate!Train
<1>4. FittedApart'
    BY <1>2, <1>3 DEF FittedApart
<1>5. QED
    BY <1>3, <1>4 DEF CandidateInv, RowsAreOfTheCases, EvidenceIsSound, Candidate!JudgedOnUnseen,
                      Candidate!ClaimsFitTheCase

\* Whoever judges a checkpoint has compared its fingerprint with the file.
LEMMA JudgedIsUnseen ==
    ASSUME FittedApart, Candidate!LoadModel(model), NEW by, report' = Candidate!Judged(by)
    PROVE  Candidate!JudgedOnUnseen'
<1>1. model # None /\ model.train_fingerprint = train
    BY DEF Candidate!LoadModel
<1>2. PICK t, h, c : t = train /\ h = model.held_out /\ c = cases
    OBVIOUS
<1>3. report'.fitted = t /\ report'.train = t /\ report'.held_out = h /\ report'.cases = c
    BY <1>1, <1>2 DEF Candidate!Judged
<1>4. Candidate!Isolated(t, h)
    BY <1>1, <1>2 DEF FittedApart
<1>5. Candidate!Identities(c) \subseteq Candidate!Identities(h) => Candidate!Isolated(t, c)
    BY <1>4 DEF Candidate!Isolated
<1>6. QED
    BY <1>3, <1>5 DEF Candidate!JudgedOnUnseen

LEMMA JudgingKeepsCandidate ==
    ASSUME CandidateInv, Candidate!Evaluate \/ Candidate!Compare
    PROVE  CandidateInv'
<1>1. Candidate!LoadModel(model) /\ UNCHANGED <<train, cases, model, evidence>>
    BY DEF Candidate!Evaluate, Candidate!Compare
<1>2. report' = report \/ \E by \in {"eval", "compare"} : report' = Candidate!Judged(by)
    BY DEF Candidate!Evaluate, Candidate!Compare
<1>3. Candidate!JudgedOnUnseen'
    BY <1>1, <1>2, JudgedIsUnseen DEF CandidateInv, EvidenceIsSound, Candidate!JudgedOnUnseen
<1>4. RowsAreOfTheCases'
    <2>1. CASE Candidate!Evaluate
        <3>1. PICK order, C : order = model.order /\ C = cases
            OBVIOUS
        <3>2. learned' = [rows |-> {Candidate!EvalRow(order, c) : c \in C}, order |-> order, cases |-> C]
            BY <2>1, <3>1 DEF Candidate!Evaluate
        <3>3. QED
            BY <3>2 DEF RowsAreOfTheCases
    <2>2. CASE Candidate!Compare
        BY <2>2 DEF Candidate!Compare, CandidateInv, RowsAreOfTheCases
    <2>3. QED
        BY <2>1, <2>2
<1>5. QED
    BY <1>1, <1>3, <1>4 DEF CandidateInv, FittedApart, EvidenceIsSound, Candidate!ClaimsFitTheCase

\* The row that is found by the id of a case that was evaluated is the row of that case.
LEMMA RowOfTheCase ==
    ASSUME RowsAreOfTheCases, learned # None, NEW c, Candidate!AsEvaluated(c, learned)
    PROVE  Candidate!LearnedRowFor(c).predicted = Candidate!Predicted(learned.order, c)
<1>1. PICK order, C : order = learned.order /\ C = learned.cases
    OBVIOUS
<1>2. learned.rows = {Candidate!EvalRow(order, d) : d \in C}
    BY <1>1 DEF RowsAreOfTheCases
<1>3. c \in C /\ \A d \in C : d.id = c.id => d = c
    BY <1>1 DEF Candidate!AsEvaluated
<1>4. \A d : Candidate!EvalRow(order, d).id = d.id
              /\ Candidate!EvalRow(order, d).predicted = Candidate!Predicted(order, d)
    BY DEF Candidate!EvalRow
<1>5. \E r \in learned.rows : r.id = c.id
    BY <1>2, <1>3, <1>4
<1>6. PICK row : row = Candidate!LearnedRowFor(c)
    OBVIOUS
<1>7. row \in learned.rows /\ row.id = c.id
    BY <1>5, <1>6 DEF Candidate!LearnedRowFor
<1>8. PICK d \in C : row = Candidate!EvalRow(order, d)
    BY <1>2, <1>7
<1>9. d = c
    BY <1>3, <1>4, <1>7, <1>8
<1>10. QED
    BY <1>1, <1>4, <1>6, <1>8, <1>9

\* What the engine was run for, and what its row may then claim.
LEMMA ExecutedRow ==
    ASSUME NEW c, NEW row, NEW winner, NEW disc, NEW vouched, winner \in c.candidates,
           NEW r, r = Candidate!RunCase(c, row, winner, disc, vouched),
           r.status = "REAL_CONTAM_EXECUTED"
    PROVE  /\ r.id = c.id /\ r.predicted = row.predicted
           /\ r.trusted => r.predicted \in c.candidates /\ c.required \subseteq Covered
<1>1. Candidate!Modelled(c)
    BY DEF Candidate!RunCase, Candidate!Blocked
<1>2. PICK claim : claim = (vouched /\ winner = row.predicted /\ c.required \subseteq Covered)
    OBVIOUS
<1>3. r = [id |-> c.id, status |-> "REAL_CONTAM_EXECUTED", discriminative |-> disc,
           trusted |-> claim, predicted |-> row.predicted, winner |-> winner]
    BY <1>1, <1>2, Zenon DEF Candidate!RunCase
<1>4. r.id = c.id /\ r.predicted = row.predicted /\ r.trusted = claim
    BY <1>3
<1>5. r.trusted => winner = row.predicted /\ c.required \subseteq Covered
    BY <1>2, <1>4, Zenon
<1>6. QED
    BY <1>4, <1>5

LEMMA RunContamKeepsCandidate ==
    ASSUME CandidateInv, Candidate!RunContam
    PROVE  CandidateInv'
<1>1. PICK p \in Provenances, disc \in BOOLEAN, winner \in Candidate!Winners, vouched \in SUBSET cases :
          LET results == {Candidate!RunCase(c, Candidate!LearnedRowFor(c), winner[c], disc, c \in vouched) :
                              c \in cases}
              ran     == {r \in results : r.status = "REAL_CONTAM_EXECUTED"}
          IN evidence' = [profile |-> Candidate!Profile(p), results |-> results, cases |-> cases,
                          evaluated |-> learned,
                          accepted |-> /\ ran # {}
                                       /\ ~Candidate!Ready(p)
                                       /\ p.mode = "transient"
                                       /\ \A r \in ran : r.discriminative
                                       /\ \A r \in results : ~r.trusted]
    BY DEF Candidate!RunContam
<1>2. /\ evidence'.cases = cases /\ evidence'.evaluated = learned
      /\ evidence'.results = {Candidate!RunCase(c, Candidate!LearnedRowFor(c), winner[c], disc,
                                               c \in vouched) : c \in cases}
    BY <1>1
<1>3. learned # None /\ UNCHANGED <<train, cases, model, learned, report>>
    BY DEF Candidate!RunContam
<1>4. ASSUME NEW r \in evidence'.results, r.status = "REAL_CONTAM_EXECUTED"
      PROVE  \E c \in evidence'.cases :
                 /\ c.id = r.id
                 /\ Candidate!AsEvaluated(c, evidence'.evaluated)
                    => r.predicted = Candidate!Predicted(evidence'.evaluated.order, c)
                 /\ r.trusted => r.predicted \in c.candidates /\ c.required \subseteq Covered
    <2>1. PICK c \in cases :
              r = Candidate!RunCase(c, Candidate!LearnedRowFor(c), winner[c], disc, c \in vouched)
        BY <1>2, <1>4
    <2>2. PICK row, w, v : row = Candidate!LearnedRowFor(c) /\ w = winner[c] /\ v = (c \in vouched)
        OBVIOUS
    <2>3. w \in c.candidates
        BY <2>2 DEF Candidate!Winners
    <2>4. r = Candidate!RunCase(c, row, w, disc, v)
        BY <2>1, <2>2, Zenon
    <2>5. /\ r.id = c.id /\ r.predicted = row.predicted
          /\ r.trusted => r.predicted \in c.candidates /\ c.required \subseteq Covered
        BY <1>4, <2>3, <2>4, ExecutedRow
    <2>6. Candidate!AsEvaluated(c, learned) => r.predicted = Candidate!Predicted(learned.order, c)
        BY <1>3, <2>2, <2>5, RowOfTheCase DEF CandidateInv
    <2>7. QED
        BY <1>2, <2>5, <2>6
<1>5. Candidate!ClaimsFitTheCase'
    BY <1>4 DEF Candidate!ClaimsFitTheCase
<1>6. QED
    BY <1>3, <1>5 DEF CandidateInv, FittedApart, RowsAreOfTheCases, EvidenceIsSound,
                      Candidate!JudgedOnUnseen

LEMMA StepKeepsCandidate ==
    ASSUME CandidateInv, [Next]_vars
    PROVE  CandidateInv'
<1>1. CASE Candidate!EditBenchmark \/ UNCHANGED candidateVars
    BY <1>1 DEF Candidate!EditBenchmark, candidateVars, CandidateInv, FittedApart, RowsAreOfTheCases,
                EvidenceIsSound, Candidate!JudgedOnUnseen, Candidate!ClaimsFitTheCase
<1>2. QED
    BY <1>1, TrainKeepsCandidate, JudgingKeepsCandidate, RunContamKeepsCandidate, CandidateSteps
    DEF Candidate!Next

\* Whatever is edited, fitted again or evaluated before between the four
\* programs: a checkpoint that passed was judged on targets it never saw (as
\* long as none came among the held-out cases since), and evidence names what
\* the ranker put first of a case nobody edited since, and claims no
\* generalization to a target the case does not offer
\* (eval_pi_home_candidate_checkpoint.py:20-28,
\* run_pi_home_learned_real_contam.py:143-252).
THEOREM EvidenceStaysSound == Spec => []EvidenceIsSound
<1>1. Init => CandidateInv
    BY CandidateStarts
    DEF Candidate!Init, Candidate!Unused, CandidateInv, FittedApart, RowsAreOfTheCases,
        EvidenceIsSound, Candidate!JudgedOnUnseen, Candidate!ClaimsFitTheCase
<1>2. CandidateInv /\ [Next]_vars => CandidateInv'
    BY StepKeepsCandidate
<1>3. CandidateInv => EvidenceIsSound
    BY DEF CandidateInv
<1>4. QED
    BY <1>1, <1>2, <1>3, PTL DEF Spec

-----------------------------------------------------------------------------
(* The labelled dialogues.                                                   *)

Text(family, at, values) == Proposals!Corpus!Text(family, at, values)
Key(place, value)        == Proposals!Corpus!KeyFor(place, value)
Label(op, at, values, r) == Proposals!Corpus!Delta(op, at, values, r)

\* The key a device's name stands for.
NamedKey(s, place) == CHOOSE k \in Proposals!Corpus!Named(s) : k.place = place

\* What a text asks for in a state, read off the text alone.
LabelOf(s, x) ==
    CASE x.family = "add" -> Label("add", <<Key(x.at[1], x.values[1])>>, <<x.values[1]>>, "explicit")
      [] x.family = "corrected" ->
            Label("add", <<Key(x.at[1], x.values[1])>>,
                  <<Proposals!Corpus!Corrected(x.values[1])>>, "explicit")
      [] x.family = "multi" ->
            Label("add", <<Key(x.at[1], x.values[1]), Key(x.at[2], x.values[2])>>,
                  <<x.values[1], x.values[2]>>, "explicit")
      [] x.family = "revise" ->
            Label("revise", <<Key(s.focus.place, x.values[1])>>, <<x.values[1]>>, "focus_coreference")
      [] x.family \in {"retract", "pause", "resume"} ->
            Label(x.family, <<s.focus>>, << 0 >>, "focus_coreference")
      [] x.family = "retract_named" ->
            Label("retract", <<NamedKey(s, x.at[1])>>, << 0 >>, "explicit_named")
      [] x.family = "revise_named" ->
            Label("revise", <<Key(x.at[1], x.values[1])>>, <<x.values[1]>>, "explicit_named")
      [] OTHER -> Label(x.family, <<>>, <<>>, "none")

LEMMA TextFields ==
    ASSUME NEW family, NEW at, NEW values
    PROVE  /\ Text(family, at, values).family = family
           /\ Text(family, at, values).at = at
           /\ Text(family, at, values).values = values
BY DEF Text, Proposals!Corpus!Text

\* A device's name stands for one key: named keys of one device are equal.
LEMMA NamedIsOne ==
    ASSUME NEW s, NEW k \in Proposals!Corpus!Named(s)
    PROVE  NamedKey(s, k.place) = k
BY DEF Proposals!Corpus!Named, NamedKey

LEMMA AddLabels ==
    ASSUME NEW s, NEW t \in Proposals!Corpus!AddTurns
    PROVE  t.delta = LabelOf(s, t.text)
<1>1. \/ \E c \in Places \X Words :
            t = [text  |-> Text("add", <<c[1]>>, <<c[2]>>),
                 delta |-> Label("add", <<Key(c[1], c[2])>>, <<c[2]>>, "explicit")]
      \/ \E c \in Places \X Words :
            t = [text  |-> Text("corrected", <<c[1]>>, <<c[2]>>),
                 delta |-> Label("add", <<Key(c[1], c[2])>>,
                                 <<Proposals!Corpus!Corrected(c[2])>>, "explicit")]
      \/ \E p \in (Places \X Words) \X (Places \X Words) :
            t = [text  |-> Text("multi", <<p[1][1], p[2][1]>>, <<p[1][2], p[2][2]>>),
                 delta |-> Label("add", <<Key(p[1][1], p[1][2]), Key(p[2][1], p[2][2])>>,
                                 <<p[1][2], p[2][2]>>, "explicit")]
    BY Zenon DEF Proposals!Corpus!AddTurns, Text, Key, Label
<1>2. ASSUME NEW c \in Places \X Words,
             t = [text  |-> Text("add", <<c[1]>>, <<c[2]>>),
                  delta |-> Label("add", <<Key(c[1], c[2])>>, <<c[2]>>, "explicit")]
      PROVE  t.delta = LabelOf(s, t.text)
    <2>1. t.text.family = "add" /\ t.text.at[1] = c[1] /\ t.text.values[1] = c[2]
        BY <1>2, TextFields
    <2>2. QED
        BY <1>2, <2>1 DEF LabelOf
<1>3. ASSUME NEW c \in Places \X Words,
             t = [text  |-> Text("corrected", <<c[1]>>, <<c[2]>>),
                  delta |-> Label("add", <<Key(c[1], c[2])>>,
                                 <<Proposals!Corpus!Corrected(c[2])>>, "explicit")]
      PROVE  t.delta = LabelOf(s, t.text)
    <2>1. t.text.family = "corrected" /\ t.text.at[1] = c[1] /\ t.text.values[1] = c[2]
        BY <1>3, TextFields
    <2>2. QED
        BY <1>3, <2>1 DEF LabelOf
<1>4. ASSUME NEW p \in (Places \X Words) \X (Places \X Words),
             t = [text  |-> Text("multi", <<p[1][1], p[2][1]>>, <<p[1][2], p[2][2]>>),
                  delta |-> Label("add", <<Key(p[1][1], p[1][2]), Key(p[2][1], p[2][2])>>,
                                  <<p[1][2], p[2][2]>>, "explicit")]
      PROVE  t.delta = LabelOf(s, t.text)
    <2>1. /\ t.text.family = "multi"
          /\ t.text.at[1] = p[1][1] /\ t.text.at[2] = p[2][1]
          /\ t.text.values[1] = p[1][2] /\ t.text.values[2] = p[2][2]
        BY <1>4, TextFields
    <2>2. QED
        BY <1>4, <2>1 DEF LabelOf
<1>5. QED
    BY <1>1, <1>2, <1>3, <1>4

LEMMA ReviseLabels ==
    ASSUME NEW s, NEW t \in Proposals!Corpus!ReviseTurns(s)
    PROVE  t.delta = LabelOf(s, t.text)
<1>1. \E v \in Words :
          t = [text  |-> Text("revise", <<>>, <<v>>),
               delta |-> Label("revise", <<Key(s.focus.place, v)>>, <<v>>, "focus_coreference")]
    BY Zenon DEF Proposals!Corpus!ReviseTurns, Text, Key, Label
<1>2. QED
    BY <1>1, TextFields DEF LabelOf

LEMMA FocusLabels ==
    ASSUME NEW s, NEW t \in Proposals!Corpus!FocusTurns(s)
    PROVE  t.delta = LabelOf(s, t.text)
<1>1. \E op \in {"retract", IF s.focus \in s.paused THEN "resume" ELSE "pause"} :
          t = [text  |-> Text(op, <<>>, <<>>),
               delta |-> Label(op, <<s.focus>>, << 0 >>, "focus_coreference")]
    BY Zenon DEF Proposals!Corpus!FocusTurns, Text, Label
<1>2. QED
    BY <1>1, TextFields DEF LabelOf

LEMMA NamedLabels ==
    ASSUME NEW s, NEW t \in Proposals!Corpus!NamedTurns(s)
    PROVE  t.delta = LabelOf(s, t.text)
<1>1. \/ \E k \in Proposals!Corpus!Named(s) :
            t = [text  |-> Text("retract_named", <<k.place>>, <<>>),
                 delta |-> Label("retract", <<k>>, << 0 >>, "explicit_named")]
      \/ \E c \in Proposals!Corpus!Named(s) \X Words :
            t = [text  |-> Text("revise_named", <<c[1].place>>, <<c[2]>>),
                 delta |-> Label("revise", <<Key(c[1].place, c[2])>>, <<c[2]>>, "explicit_named")]
    BY Zenon DEF Proposals!Corpus!NamedTurns, Text, Key, Label
<1>2. ASSUME NEW k \in Proposals!Corpus!Named(s),
             t = [text  |-> Text("retract_named", <<k.place>>, <<>>),
                  delta |-> Label("retract", <<k>>, << 0 >>, "explicit_named")]
      PROVE  t.delta = LabelOf(s, t.text)
    <2>1. t.text.family = "retract_named" /\ t.text.at[1] = k.place
        BY <1>2, TextFields
    <2>2. LabelOf(s, t.text) = Label("retract", <<NamedKey(s, t.text.at[1])>>, << 0 >>, "explicit_named")
        BY <2>1 DEF LabelOf
    <2>3. QED
        BY <1>2, <2>1, <2>2, NamedIsOne
<1>3. ASSUME NEW c \in Proposals!Corpus!Named(s) \X Words,
             t = [text  |-> Text("revise_named", <<c[1].place>>, <<c[2]>>),
                  delta |-> Label("revise", <<Key(c[1].place, c[2])>>, <<c[2]>>, "explicit_named")]
      PROVE  t.delta = LabelOf(s, t.text)
    <2>1. t.text.family = "revise_named" /\ t.text.at[1] = c[1].place /\ t.text.values[1] = c[2]
        BY <1>3, TextFields
    <2>2. QED
        BY <1>3, <2>1 DEF LabelOf
<1>4. QED
    BY <1>1, <1>2, <1>3

LEMMA OtherLabels ==
    ASSUME NEW s, NEW t \in Proposals!Corpus!OtherTurns
    PROVE  t.delta = LabelOf(s, t.text)
<1>1. \E op \in {"retain", "ood", "clear"} :
          t = [text |-> Text(op, <<>>, <<>>), delta |-> Label(op, <<>>, <<>>, "none")]
    BY Zenon DEF Proposals!Corpus!OtherTurns, Text, Label
<1>2. QED
    BY <1>1, TextFields DEF LabelOf

LEMMA TurnLabels ==
    ASSUME NEW s, NEW t \in Proposals!Corpus!Turns(s)
    PROVE  t.delta = LabelOf(s, t.text)
BY AddLabels, ReviseLabels, FocusLabels, NamedLabels, OtherLabels DEF Proposals!Corpus!Turns

\* Whatever was said before, a text drawn for a state has one delta
\* (make_dialogues() in dialogue_delta_corpus.py).
THEOREM WordingKeepsOneLabel == Spec => []WordingHasOneLabel
<1>1. WordingHasOneLabel
    <2>1. SUFFICES ASSUME NEW t \in Proposals!Corpus!Turns(asked),
                          NEW u \in Proposals!Corpus!Turns(asked), t.text = u.text
                   PROVE  t.delta = u.delta
        BY DEF WordingHasOneLabel, Proposals!WordingHasOneLabel, Proposals!Corpus!WordingHasOneLabel
    <2>2. PICK s : s = asked
        OBVIOUS
    <2>3. t \in Proposals!Corpus!Turns(s) /\ u \in Proposals!Corpus!Turns(s)
        BY <2>2, Zenon
    <2>4. QED
        BY <2>1, <2>3, TurnLabels, Zenon
<1>2. QED
    BY <1>1, PTL

-----------------------------------------------------------------------------
(* The long trajectories.                                                    *)

Homes   == [Trajectory!Keys -> [power : Int, level : Int]]
Patch(fields) ==
    [f \in {"op", "slot", "value", "delta", "slots"} \cap DOMAIN fields |-> fields[f]]

\* What the adapter needs of a turn whose text names no device.
SaysEnough(i) ==
    LET t == turns[i].what IN
    /\ t.family = "relative_coreference" => t.decision = "EXECUTE" /\ t.hint # None
    /\ t.family = "ambiguous_clarify" =>
          /\ t.decision = "CLARIFY" /\ t.hint = None
          /\ Len(Trajectory!Previous(i)) # 1

\* The patch of a turn says its whole change.
SaysAll(i) ==
    LET t == turns[i].what IN
    t.decision = "EXECUTE" =>
        /\ Patch(t.gold).op = "PATCH_RELATIVE" => "delta" \in DOMAIN Patch(t.gold)
        /\ Trajectory!Patched(Trajectory!GoldBefore(i), t.targets, Patch(t.gold))
             = turns[i].gold_state

\* While turns are made, the home is the last gold state.
HomeIsGold ==
    /\ home \in Homes /\ focus \in Trajectory!Keys \cup {None}
    /\ home = Trajectory!GoldBefore(Len(turns) + 1)
    /\ split \in {"train", "dev", "sealed"}

\* A question may follow two targets.
AskedOfTwo == ask => turns # <<>> /\ Len(turns[Len(turns)].what.targets) = 2

TurnsInv ==
    /\ \E T : turns \in Seq(T)
    /\ \A i \in DOMAIN turns : SaysEnough(i) /\ SaysAll(i)

MakingInv == HomeIsGold /\ AskedOfTwo

TrajectoryInv == TurnsInv /\ (phase = "make" => MakingInv)

LEMMA AppendOne ==
    ASSUME NEW T, NEW s \in Seq(T), NEW e
    PROVE  /\ Append(s, e) \in Seq(T \cup {e})
           /\ Len(s) \in Nat /\ Len(Append(s, e)) = Len(s) + 1
           /\ DOMAIN s = 1 .. Len(s) /\ DOMAIN Append(s, e) = 1 .. Len(s) + 1
           /\ \A i \in 1 .. Len(s) : Append(s, e)[i] = s[i]
           /\ Append(s, e)[Len(s) + 1] = e
<1>1. s \in Seq(T \cup {e})
    OBVIOUS
<1>2. QED
    BY <1>1

\* A turn keeps the invariant when its patch says its whole change and what it
\* says is enough.
LEMMA EmitKeeps ==
    ASSUME NEW what, NEW naming, NEW after \in Homes, NEW newFocus \in Trajectory!Keys \cup {None},
           NEW drawnMulti,
           TrajectoryInv, phase = "make",
           Trajectory!Emit(what, naming, after, newFocus, drawnMulti),
           what.family = "relative_coreference" => what.decision = "EXECUTE" /\ what.hint # None,
           what.family = "ambiguous_clarify" =>
               /\ what.decision = "CLARIFY" /\ what.hint = None
               /\ turns # <<>> => Len(turns[Len(turns)].what.targets) # 1,
           what.decision = "EXECUTE" =>
               /\ Patch(what.gold).op = "PATCH_RELATIVE" => "delta" \in DOMAIN Patch(what.gold)
               /\ Trajectory!Patched(home, what.targets, Patch(what.gold)) = after,
           drawnMulti => Len(what.targets) = 2
    PROVE  TrajectoryInv'
<1>1. PICK T : turns \in Seq(T)
    BY DEF TrajectoryInv, TurnsInv
<1>2. PICK turn : turn = Trajectory!Turn(what, naming, after)
    OBVIOUS
<1>3. turn.what = what /\ turn.gold_state = after
    BY <1>2 DEF Trajectory!Turn
<1>4. PICK n : n = Len(turns)
    OBVIOUS
<1>5. /\ turns' = Append(turns, turn)
      /\ home' = after /\ focus' = newFocus /\ ask' = drawnMulti
      /\ split' = split
    BY <1>2 DEF Trajectory!Emit
<1>6. /\ turns' \in Seq(T \cup {turn}) /\ n \in Nat
      /\ DOMAIN turns = 1 .. n /\ DOMAIN turns' = 1 .. n + 1 /\ Len(turns') = n + 1
      /\ \A i \in 1 .. n : turns'[i] = turns[i]
      /\ turns'[n + 1] = turn
    BY <1>1, <1>4, <1>5, AppendOne
<1>7. HomeIsGold /\ AskedOfTwo /\ \A i \in 1 .. n : SaysEnough(i) /\ SaysAll(i)
    BY <1>6 DEF TrajectoryInv, TurnsInv, MakingInv
<1>8. \A i \in 1 .. n : SaysEnough(i)' /\ SaysAll(i)'
    <2>1. TAKE i \in 1 .. n
    <2>2. /\ turns'[i] = turns[i] /\ (i > 1 => turns'[i - 1] = turns[i - 1])
        BY <1>6
    <2>3. /\ Trajectory!Previous(i)' = Trajectory!Previous(i)
          /\ Trajectory!GoldBefore(i)' = Trajectory!GoldBefore(i)
        BY <1>6, <2>2 DEF Trajectory!Previous, Trajectory!GoldBefore, Trajectory!StateTemplate,
                          Trajectory!Keys
    <2>4. SaysEnough(i) /\ SaysAll(i)
        BY <1>7
    <2>5. QED
        BY <2>2, <2>3, <2>4 DEF SaysEnough, SaysAll, Trajectory!Patched
<1>9. SaysEnough(n + 1)'
    <2>1. Trajectory!Previous(n + 1)' = IF n > 0 THEN turns[n].what.targets ELSE <<>>
        BY <1>6 DEF Trajectory!Previous
    <2>2. n > 0 => turns # <<>>
        BY <1>1, <1>4
    <2>3. QED
        BY <1>3, <1>4, <1>6, <2>1, <2>2 DEF SaysEnough
<1>10. SaysAll(n + 1)'
    <2>1. Trajectory!GoldBefore(n + 1)' = Trajectory!GoldBefore(n + 1)
        BY <1>6 DEF Trajectory!GoldBefore, Trajectory!StateTemplate, Trajectory!Keys
    <2>2. Trajectory!GoldBefore(n + 1)' = home
        BY <1>4, <1>7, <2>1 DEF HomeIsGold
    <2>3. QED
        BY <1>3, <1>6, <2>2 DEF SaysAll, Trajectory!Patched
<1>11. HomeIsGold'
    <2>1. Trajectory!GoldBefore(n + 2)' = after
        BY <1>3, <1>6 DEF Trajectory!GoldBefore
    <2>2. QED
        BY <1>5, <1>6, <1>7, <2>1 DEF HomeIsGold, Homes, Trajectory!Keys
<1>12. AskedOfTwo'
    BY <1>3, <1>5, <1>6 DEF AskedOfTwo
<1>13. QED
    BY <1>6, <1>8, <1>9, <1>10, <1>11, <1>12 DEF TrajectoryInv, TurnsInv, MakingInv

\* The gold fields of every family are fields the adapter knows.
LEMMA PatchIsGold ==
    /\ \A slot, v : Patch(Trajectory!SetSlot(slot, v)) = Trajectory!SetSlot(slot, v)
    /\ \A on : Patch(Trajectory!PowerPatch(on)) = Trajectory!PowerPatch(on)
    /\ \A slot, d : LET move == [op |-> "PATCH_RELATIVE", slot |-> slot, delta |-> d]
                    IN Patch(move) = move
BY DEF Patch, Trajectory!SetSlot, Trajectory!PowerPatch

\* A list of one or two devices names them and no other.
LEMMA RangeOfFew ==
    /\ \A p : Trajectory!Range(<<p>>) = {p}
    /\ \A p, q : Trajectory!Range(<<p, q>>) = {p, q}
BY DEF Trajectory!Range

LEMMA SetLevel ==
    ASSUME NEW h \in Homes, NEW v \in Int, NEW targets
    PROVE  Trajectory!Patched(h, targets, Trajectory!SetSlot("level", v))
             = [k \in Trajectory!Keys |-> IF k \in Trajectory!Range(targets)
                                          THEN [h[k] EXCEPT !.level = v] ELSE h[k]]
<1>1. /\ Trajectory!SetSlot("level", v).op = "PATCH_SLOT"
      /\ Trajectory!SetSlot("level", v).slot = "level"
      /\ Trajectory!SetSlot("level", v).value = v
    BY DEF Trajectory!SetSlot
<1>2. QED
    BY <1>1 DEF Trajectory!Patched

LEMMA SlotTurn ==
    ASSUME NEW h \in Homes, NEW v \in Int, NEW p \in Trajectory!Keys
    PROVE  /\ [h EXCEPT ![p].level = v] \in Homes
           /\ Trajectory!Patched(h, <<p>>, Trajectory!SetSlot("level", v)) = [h EXCEPT ![p].level = v]
<1>1. [h EXCEPT ![p].level = v] \in Homes
    BY DEF Homes
<1>2. Trajectory!Patched(h, <<p>>, Trajectory!SetSlot("level", v))
        = [k \in Trajectory!Keys |-> IF k \in {p} THEN [h[k] EXCEPT !.level = v] ELSE h[k]]
    BY SetLevel, RangeOfFew
<1>3. QED
    BY <1>1, <1>2 DEF Homes

LEMMA PairTurn ==
    ASSUME NEW h \in Homes, NEW v \in Int,
           NEW p \in Trajectory!Keys, NEW q \in Trajectory!Keys, p # q,
           NEW after, after = [h EXCEPT ![p].level = v, ![q].level = v]
    PROVE  /\ after \in Homes
           /\ Trajectory!Patched(h, <<p, q>>, Trajectory!SetSlot("level", v)) = after
<1> DEFINE both == [k \in Trajectory!Keys |-> IF k \in {p, q} THEN [h[k] EXCEPT !.level = v]
                                               ELSE h[k]]
<1>1. both \in Homes
    BY DEF Homes
<1>2. Trajectory!Patched(h, <<p, q>>, Trajectory!SetSlot("level", v)) = both
    BY SetLevel, RangeOfFew
<1>3. after = both
    BY DEF Homes
<1> HIDE DEF both
<1>4. QED
    BY <1>1, <1>2, <1>3

LEMMA RelativeTurn ==
    ASSUME NEW h \in Homes, NEW by \in Int, NEW p \in Trajectory!Keys
    PROVE  /\ [h EXCEPT ![p].level = @ + by] \in Homes
           /\ Trajectory!Patched(h, <<p>>, [op |-> "PATCH_RELATIVE", slot |-> "level", delta |-> by])
                = [h EXCEPT ![p].level = @ + by]
<1> DEFINE move == [op |-> "PATCH_RELATIVE", slot |-> "level", delta |-> by]
<1>1. move.op = "PATCH_RELATIVE" /\ move.slot = "level" /\ move.delta = by
    OBVIOUS
<1> HIDE DEF move
<1>2. Trajectory!Patched(h, <<p>>, move)
        = [k \in Trajectory!Keys |-> IF k \in Trajectory!Range(<<p>>)
                                     THEN [h[k] EXCEPT !.level = @ + by] ELSE h[k]]
    BY <1>1 DEF Trajectory!Patched
<1>3. Trajectory!Patched(h, <<p>>, move) = [h EXCEPT ![p].level = @ + by]
    BY <1>2, RangeOfFew DEF Homes
<1>4. QED
    BY <1>3 DEF move, Homes

LEMMA PowerTurn ==
    ASSUME NEW h \in Homes, NEW on \in {0, 1}, NEW p \in Trajectory!Keys
    PROVE  /\ [h EXCEPT ![p].power = on] \in Homes
           /\ Trajectory!Patched(h, <<p>>, Trajectory!PowerPatch(on)) = [h EXCEPT ![p].power = on]
           /\ Trajectory!PowerPatch(on).op # "PATCH_RELATIVE"
<1>1. [h EXCEPT ![p].power = on] \in Homes
    BY DEF Homes
<1>2. CASE on = 0
    <2>1. Trajectory!PowerPatch(on).op = "CLOSE_DEVICE"
        BY <1>2 DEF Trajectory!PowerPatch
    <2>2. Trajectory!Patched(h, <<p>>, Trajectory!PowerPatch(on))
            = [k \in Trajectory!Keys |-> IF k \in Trajectory!Range(<<p>>)
                                         THEN [h[k] EXCEPT !.power = 0] ELSE h[k]]
        BY <2>1 DEF Trajectory!Patched
    <2>3. QED
        BY <1>1, <1>2, <2>1, <2>2, RangeOfFew DEF Homes
<1>3. CASE on = 1 /\ profile = "legacy"
    <2>1. /\ Trajectory!PowerPatch(on).op = "ADD_DEVICE"
          /\ Trajectory!PowerPatch(on).slots = [power |-> 1]
        BY <1>3 DEF Trajectory!PowerPatch
    <2>2. \A k \in Trajectory!Keys :
             [s \in Trajectory!Slots |-> IF s \in DOMAIN [power |-> 1] THEN [power |-> 1][s]
                                         ELSE h[k][s]]
               = [h[k] EXCEPT !.power = 1]
        BY DEF Trajectory!Slots, Homes
    <2>3. Trajectory!Patched(h, <<p>>, Trajectory!PowerPatch(on))
            = [k \in Trajectory!Keys |-> IF k \in Trajectory!Range(<<p>>)
                                         THEN [h[k] EXCEPT !.power = 1] ELSE h[k]]
        BY <2>1, <2>2 DEF Trajectory!Patched
    <2>4. QED
        BY <1>1, <1>3, <2>1, <2>3, RangeOfFew DEF Homes
<1>4. CASE on = 1 /\ profile # "legacy"
    <2>1. /\ Trajectory!PowerPatch(on).op = "PATCH_SLOT"
          /\ Trajectory!PowerPatch(on).slot = "power"
          /\ Trajectory!PowerPatch(on).value = 1
        BY <1>4 DEF Trajectory!PowerPatch, Trajectory!SetSlot
    <2>2. Trajectory!Patched(h, <<p>>, Trajectory!PowerPatch(on))
            = [k \in Trajectory!Keys |-> IF k \in Trajectory!Range(<<p>>)
                                         THEN [h[k] EXCEPT !.power = 1] ELSE h[k]]
        BY <2>1 DEF Trajectory!Patched
    <2>3. QED
        BY <1>1, <1>4, <2>1, <2>2, RangeOfFew DEF Homes
<1>5. QED
    BY <1>2, <1>3, <1>4

\* The devices a split may name are devices of the home.
LEMMA NamedDevices ==
    ASSUME HomeIsGold, NEW p \in PairAllow[split]
    PROVE  /\ p \in Trajectory!Keys /\ p # None
           /\ p[1] \in Rooms /\ p[2] \in Entities /\ Values[p[2]] \subseteq Int
BY HomesAssumption DEF HomesAssumption, HomeIsGold, Trajectory!Keys

LEMMA MakeSlotKeeps ==
    ASSUME TrajectoryInv, Trajectory!MakeSlot
    PROVE  TrajectoryInv'
<1>1. phase = "make" /\ HomeIsGold
    BY DEF Trajectory!MakeSlot, Trajectory!Making, TrajectoryInv, MakingInv
<1>2. PICK p \in PairAllow[split], n \in Trajectory!SurfaceEntity : \E v \in Values[p[2]] :
          Trajectory!Emit(Trajectory!Execute("direct_slot", <<p>>, p, Trajectory!SetSlot("level", v)),
                          n, [home EXCEPT ![p].level = v], p, FALSE)
    BY DEF Trajectory!MakeSlot
<1>3. PICK v \in Values[p[2]] :
          Trajectory!Emit(Trajectory!Execute("direct_slot", <<p>>, p, Trajectory!SetSlot("level", v)),
                          n, [home EXCEPT ![p].level = v], p, FALSE)
    BY <1>2
<1>4. PICK h, after : h = home /\ after = [home EXCEPT ![p].level = v]
    OBVIOUS
<1>5. h \in Homes /\ p \in Trajectory!Keys /\ v \in Int
    BY <1>1, <1>4, NamedDevices DEF HomeIsGold
<1>6. /\ after \in Homes
      /\ Trajectory!Patched(h, <<p>>, Trajectory!SetSlot("level", v)) = after
    BY <1>4, <1>5, SlotTurn
<1>7. PICK what : what = Trajectory!Execute("direct_slot", <<p>>, p, Trajectory!SetSlot("level", v))
    OBVIOUS
<1>8. /\ what.family = "direct_slot" /\ what.decision = "EXECUTE" /\ what.targets = <<p>>
      /\ what.gold = Trajectory!SetSlot("level", v)
    BY <1>7 DEF Trajectory!Execute
<1>9. Patch(what.gold) = what.gold /\ Patch(what.gold).op = "PATCH_SLOT"
    BY <1>8, PatchIsGold DEF Trajectory!SetSlot
<1>10. Trajectory!Emit(what, n, after, p, FALSE)
    BY <1>3, <1>4, <1>7
<1>11. Trajectory!Patched(home, what.targets, Patch(what.gold)) = after
    BY <1>4, <1>6, <1>8, <1>9
<1>12. QED
    BY <1>1, <1>5, <1>6, <1>8, <1>9, <1>10, <1>11, EmitKeeps

LEMMA MakePowerKeeps ==
    ASSUME TrajectoryInv, Trajectory!MakePower
    PROVE  TrajectoryInv'
<1>1. phase = "make" /\ HomeIsGold
    BY DEF Trajectory!MakePower, Trajectory!Making, TrajectoryInv, MakingInv
<1>2. PICK p \in PairAllow[split], on \in {0, 1}, n \in Trajectory!SurfaceEntity :
          Trajectory!Emit(Trajectory!Execute("direct_power", <<p>>, p, Trajectory!PowerPatch(on)),
                          n, [home EXCEPT ![p].power = on], p, FALSE)
    BY DEF Trajectory!MakePower
<1>3. PICK h, after : h = home /\ after = [home EXCEPT ![p].power = on]
    OBVIOUS
<1>4. h \in Homes /\ p \in Trajectory!Keys
    BY <1>1, <1>3, NamedDevices DEF HomeIsGold
<1>5. /\ after \in Homes
      /\ Trajectory!Patched(h, <<p>>, Trajectory!PowerPatch(on)) = after
      /\ Trajectory!PowerPatch(on).op # "PATCH_RELATIVE"
    <2>1. after = [h EXCEPT ![p].power = on]
        BY <1>3
    <2>2. QED
        BY <1>4, <2>1, PowerTurn, Zenon
<1>6. PICK what : what = Trajectory!Execute("direct_power", <<p>>, p, Trajectory!PowerPatch(on))
    OBVIOUS
<1>7. /\ what.family = "direct_power" /\ what.decision = "EXECUTE" /\ what.targets = <<p>>
      /\ what.gold = Trajectory!PowerPatch(on)
    BY <1>6 DEF Trajectory!Execute
<1>8. Patch(what.gold) = what.gold
    BY <1>7, PatchIsGold
<1>9. Trajectory!Emit(what, n, after, p, FALSE)
    BY <1>2, <1>3, <1>6
<1>10. Trajectory!Patched(home, what.targets, Patch(what.gold)) = after
    BY <1>3, <1>5, <1>7, <1>8
<1>11. Patch(what.gold).op # "PATCH_RELATIVE"
    BY <1>5, <1>7, <1>8
<1>12. QED
    BY <1>1, <1>4, <1>5, <1>7, <1>9, <1>10, <1>11, EmitKeeps

LEMMA MakeRelativeKeeps ==
    ASSUME TrajectoryInv, Trajectory!MakeRelative
    PROVE  TrajectoryInv'
<1>1. phase = "make" /\ HomeIsGold
    BY DEF Trajectory!MakeRelative, Trajectory!Making, TrajectoryInv, MakingInv
<1>2. PICK p, by : p = focus /\ by = RelativeDelta[focus[2]]
    OBVIOUS
<1>3. p # None /\ p \in Trajectory!Keys
    BY <1>1, <1>2 DEF Trajectory!MakeRelative, HomeIsGold
<1>4. by \in Int
    BY <1>2, <1>3, HomesAssumption DEF HomesAssumption, Trajectory!Keys
<1>5. PICK h, after : h = home /\ after = [home EXCEPT ![p].level = @ + by]
    OBVIOUS
<1>6. PICK move : move = [op |-> "PATCH_RELATIVE", slot |-> "level", delta |-> by]
    OBVIOUS
<1>7. PICK what : what = Trajectory!Execute("relative_coreference", <<p>>, p, move)
    OBVIOUS
<1>8. Trajectory!Emit(what, "not_mentioned", after, p, FALSE)
    BY <1>2, <1>5, <1>6, <1>7 DEF Trajectory!MakeRelative
<1>9. h \in Homes
    BY <1>1, <1>5 DEF HomeIsGold
<1>10. after \in Homes /\ Trajectory!Patched(h, <<p>>, move) = after
    BY <1>3, <1>4, <1>5, <1>6, <1>9, RelativeTurn
<1>11. /\ what.family = "relative_coreference" /\ what.decision = "EXECUTE"
       /\ what.targets = <<p>> /\ what.hint = p /\ what.gold = move
    BY <1>7 DEF Trajectory!Execute
<1>12. Patch(what.gold) = what.gold
    BY <1>6, <1>11, PatchIsGold
<1>13. "delta" \in DOMAIN Patch(what.gold)
    BY <1>6, <1>11, <1>12
<1>14. Trajectory!Patched(home, what.targets, Patch(what.gold)) = after
    BY <1>5, <1>10, <1>11, <1>12
<1>15. QED
    BY <1>1, <1>3, <1>8, <1>10, <1>11, <1>13, <1>14, EmitKeeps

LEMMA MakeCorrectionKeeps ==
    ASSUME TrajectoryInv, Trajectory!MakeCorrection
    PROVE  TrajectoryInv'
<1>1. phase = "make" /\ HomeIsGold
    BY DEF Trajectory!MakeCorrection, Trajectory!Making, TrajectoryInv, MakingInv
<1>2. PICK p \in PairAllow[split], n \in Trajectory!SurfaceEntity :
          \E wrong \in Rooms \ {p[1]}, v \in Values[p[2]] :
             Trajectory!Emit(Trajectory!Execute("explicit_correction", <<p>>, <<wrong, p[2]>>,
                                                Trajectory!SetSlot("level", v)),
                             n, [home EXCEPT ![p].level = v], p, FALSE)
    BY DEF Trajectory!MakeCorrection
<1>3. PICK wrong \in Rooms \ {p[1]}, v \in Values[p[2]] :
             Trajectory!Emit(Trajectory!Execute("explicit_correction", <<p>>, <<wrong, p[2]>>,
                                                Trajectory!SetSlot("level", v)),
                             n, [home EXCEPT ![p].level = v], p, FALSE)
    BY <1>2
<1>4. PICK h, after : h = home /\ after = [home EXCEPT ![p].level = v]
    OBVIOUS
<1>5. h \in Homes /\ p \in Trajectory!Keys /\ v \in Int
    BY <1>1, <1>4, NamedDevices DEF HomeIsGold
<1>6. /\ after \in Homes
      /\ Trajectory!Patched(h, <<p>>, Trajectory!SetSlot("level", v)) = after
    BY <1>4, <1>5, SlotTurn
<1>7. PICK what : what = Trajectory!Execute("explicit_correction", <<p>>, <<wrong, p[2]>>,
                                            Trajectory!SetSlot("level", v))
    OBVIOUS
<1>8. /\ what.family = "explicit_correction" /\ what.decision = "EXECUTE" /\ what.targets = <<p>>
      /\ what.gold = Trajectory!SetSlot("level", v)
    BY <1>7 DEF Trajectory!Execute
<1>9. Patch(what.gold) = what.gold /\ Patch(what.gold).op = "PATCH_SLOT"
    BY <1>8, PatchIsGold DEF Trajectory!SetSlot
<1>10. Trajectory!Emit(what, n, after, p, FALSE)
    BY <1>3, <1>4, <1>7
<1>11. Trajectory!Patched(home, what.targets, Patch(what.gold)) = after
    BY <1>4, <1>6, <1>8, <1>9
<1>12. QED
    BY <1>1, <1>5, <1>6, <1>8, <1>9, <1>10, <1>11, EmitKeeps

LEMMA MakeMultiKeeps ==
    ASSUME TrajectoryInv, Trajectory!MakeMulti
    PROVE  TrajectoryInv'
<1>1. phase = "make" /\ HomeIsGold
    BY DEF Trajectory!MakeMulti, Trajectory!Making, TrajectoryInv, MakingInv
<1>2. PICK p \in PairAllow[split], q \in PairAllow[split], n \in Trajectory!SurfaceEntity :
          \E v \in Values[p[2]] :
             /\ p[2] = q[2] /\ p # q
             /\ Trajectory!Emit(Trajectory!Execute("multi_target", <<p, q>>, None,
                                                   Trajectory!SetSlot("level", v)),
                                n, [home EXCEPT ![p].level = v, ![q].level = v], q, TRUE)
    BY DEF Trajectory!MakeMulti
<1>3. PICK v \in Values[p[2]] :
             /\ p # q
             /\ Trajectory!Emit(Trajectory!Execute("multi_target", <<p, q>>, None,
                                                   Trajectory!SetSlot("level", v)),
                                n, [home EXCEPT ![p].level = v, ![q].level = v], q, TRUE)
    BY <1>2
<1>4. PICK h, after : h = home /\ after = [home EXCEPT ![p].level = v, ![q].level = v]
    OBVIOUS
<1>5. h \in Homes /\ p \in Trajectory!Keys /\ q \in Trajectory!Keys /\ v \in Int
    BY <1>1, <1>4, NamedDevices DEF HomeIsGold
<1>6. /\ after \in Homes
      /\ Trajectory!Patched(h, <<p, q>>, Trajectory!SetSlot("level", v)) = after
    <2>1. after = [h EXCEPT ![p].level = v, ![q].level = v]
        BY <1>4
    <2>2. p # q
        BY <1>3
    <2>3. QED
        BY <1>5, <2>1, <2>2, PairTurn
<1>7. PICK what : what = Trajectory!Execute("multi_target", <<p, q>>, None,
                                            Trajectory!SetSlot("level", v))
    OBVIOUS
<1>8. /\ what.family = "multi_target" /\ what.decision = "EXECUTE" /\ what.targets = <<p, q>>
      /\ what.gold = Trajectory!SetSlot("level", v)
    BY <1>7 DEF Trajectory!Execute
<1>9. Patch(what.gold) = what.gold /\ Patch(what.gold).op = "PATCH_SLOT"
    BY <1>8, PatchIsGold DEF Trajectory!SetSlot
<1>10. Trajectory!Emit(what, n, after, q, TRUE)
    BY <1>3, <1>4, <1>7
<1>11. Trajectory!Patched(home, what.targets, Patch(what.gold)) = after
    BY <1>4, <1>6, <1>8, <1>9
<1>12. Len(what.targets) = 2
    BY <1>8
<1>13. QED
    BY <1>1, <1>5, <1>6, <1>8, <1>9, <1>10, <1>11, <1>12, EmitKeeps

\* A question comes first, or after two devices.
LEMMA AskKeepsTurns ==
    ASSUME TrajectoryInv, Trajectory!AskFirst \/ Trajectory!AskAfterMulti
    PROVE  TrajectoryInv'
<1>1. phase = "make" /\ HomeIsGold /\ AskedOfTwo
    BY DEF Trajectory!AskFirst, Trajectory!AskAfterMulti, Trajectory!Making, TrajectoryInv, MakingInv
<1>2. PICK basis : Trajectory!MakeClarify(basis)
    BY DEF Trajectory!AskFirst, Trajectory!AskAfterMulti
<1>3. turns # <<>> => Len(turns[Len(turns)].what.targets) = 2
    BY <1>1 DEF Trajectory!AskFirst, Trajectory!AskAfterMulti, AskedOfTwo
<1>4. PICK what, after, at : /\ what = Trajectory!Clarify(basis)
                             /\ after = home /\ at = focus
    OBVIOUS
<1>5. what.family = "ambiguous_clarify" /\ what.decision = "CLARIFY" /\ what.hint = None
    BY <1>4 DEF Trajectory!Clarify
<1>6. Trajectory!Emit(what, "not_applicable", after, at, FALSE)
    BY <1>2, <1>4 DEF Trajectory!MakeClarify
<1>7. after \in Homes /\ at \in Trajectory!Keys \cup {None}
    BY <1>1, <1>4 DEF HomeIsGold
<1>8. what.decision # "EXECUTE" /\ (turns # <<>> => Len(turns[Len(turns)].what.targets) # 1)
    BY <1>3, <1>5
<1>9. QED
    BY <1>1, <1>5, <1>6, <1>7, <1>8, EmitKeeps

\* Once made, a trajectory is only read.
LEMMA ReadKeepsTurns ==
    ASSUME TrajectoryInv,
           Trajectory!Made \/ Trajectory!Validate \/ Trajectory!Adapt \/ UNCHANGED trajectoryVars
    PROVE  TrajectoryInv'
<1>1. turns' = turns /\ (phase' = "make" => UNCHANGED <<home, split, focus, ask, phase>>)
    BY DEF Trajectory!Made, Trajectory!Validate, Trajectory!Adapt, trajectoryVars
<1>2. TurnsInv'
    <2>1. TurnsInv /\ (\E T : turns \in Seq(T))'
        BY <1>1 DEF TrajectoryInv, TurnsInv
    <2>2. ASSUME NEW i \in DOMAIN turns
          PROVE  SaysEnough(i)' /\ SaysAll(i)'
        <3>1. /\ turns'[i] = turns[i]
              /\ Trajectory!Previous(i)' = Trajectory!Previous(i)
              /\ Trajectory!GoldBefore(i)' = Trajectory!GoldBefore(i)
            BY <1>1 DEF Trajectory!Previous, Trajectory!GoldBefore, Trajectory!StateTemplate,
                        Trajectory!Keys
        <3>2. SaysEnough(i) /\ SaysAll(i)
            BY <2>1 DEF TurnsInv
        <3>3. QED
            BY <3>1, <3>2 DEF SaysEnough, SaysAll, Trajectory!Patched
    <2>3. QED
        BY <1>1, <2>1, <2>2 DEF TurnsInv
<1>3. ASSUME phase' = "make"
      PROVE  MakingInv'
    BY <1>1, <1>3 DEF TrajectoryInv, MakingInv, HomeIsGold, AskedOfTwo, Trajectory!GoldBefore
<1>4. QED
    BY <1>2, <1>3 DEF TrajectoryInv

LEMMA TrajectoryInvStarts == Init => TrajectoryInv
<1>1. Trajectory!StateTemplate \in Homes
    BY HomesAssumption DEF HomesAssumption, Trajectory!StateTemplate, Homes, Trajectory!Keys
<1>2. \A i \in 0 .. Count - 1 : Trajectory!SplitFor(i) \in {"train", "dev", "sealed"}
    BY DEF Trajectory!SplitFor
<1>3. Trajectory!Init \/ Trajectory!Unused => turns = <<>>
    BY DEF Trajectory!Init, Trajectory!Unused
<1>4. turns = <<>> => TurnsInv
    <2>1. <<>> \in Seq({}) /\ DOMAIN <<>> = {}
        OBVIOUS
    <2>2. QED
        BY <2>1 DEF TurnsInv
<1>5. Trajectory!Init => MakingInv
    BY <1>1, <1>2 DEF Trajectory!Init, MakingInv, HomeIsGold, AskedOfTwo, Trajectory!GoldBefore
<1>6. Trajectory!Unused => phase # "make"
    BY DEF Trajectory!Unused
<1>7. QED
    BY <1>3, <1>4, <1>5, <1>6, TrajectoryStarts DEF TrajectoryInv

LEMMA StepKeepsTurns == TrajectoryInv /\ [Next]_vars => TrajectoryInv'
BY TrajectorySteps, MakeSlotKeeps, MakePowerKeeps, MakeRelativeKeeps, MakeCorrectionKeeps,
   MakeMultiKeeps, AskKeepsTurns, ReadKeepsTurns DEF Trajectory!Next

\* For any devices, levels and lengths: a taught patch, applied to the home as
\* the oracle had it, gives the gold state (_semantic_row() in
\* benchmark_v3_training_adapter.py, make_execute_turn() in the generator).
THEOREM TaughtPatchIsAlwaysTheOracle == Spec => []TaughtPatchIsTheOracle
<1>1. TrajectoryInv => TaughtPatchIsTheOracle
    BY DEF TrajectoryInv, TurnsInv, SaysAll, Patch, TaughtPatchIsTheOracle,
           Trajectory!TaughtPatchIsTheOracle, Trajectory!SemanticRow, Trajectory!RowOf
<1>2. QED
    BY <1>1, TrajectoryInvStarts, StepKeepsTurns, PTL DEF Spec

\* The background of a text that names no device decides its judgement
\* (_context_before() in benchmark_v3_training_adapter.py).
THEOREM BackgroundAlwaysDecides == Spec => []BackgroundDecides
<1>1. TrajectoryInv => BackgroundDecides
    BY DEF TrajectoryInv, TurnsInv, SaysEnough, BackgroundDecides, Trajectory!BackgroundDecides,
           Trajectory!JudgementRow, Trajectory!ContextBefore
<1>2. QED
    BY <1>1, TrajectoryInvStarts, StepKeepsTurns, PTL DEF Spec

-----------------------------------------------------------------------------
(* The tree that keeps what is asked.                                        *)

Asked == [Proposals!Intent!Keys -> 0 .. 4]
Spot  == Proposals!Intent!Keys \cup {None}

OracleStates == [values : Asked, paused : SUBSET Proposals!Intent!Keys, focus : Spot, ood : BOOLEAN]

Trees == [goals : Asked, paused : SUBSET Proposals!Intent!Keys, focus : Spot,
          ood_pending : BOOLEAN, pending_ood : SUBSET Nat, revision : Nat]

\* The oracle speaks of something that is asked for.
FocusIsAsked(s) == s.focus # None => s.values[s.focus] # 0

IntentInv ==
    /\ oracle # None => oracle \in OracleStates /\ FocusIsAsked(oracle) /\ tree \in Trees
    /\ tree # None => tree \in Trees
    /\ Proposals!Intent!TreeFollowsOracle

LEMMA IntentStarts == Init => Proposals!Intent!Init \/ Proposals!Intent!Unused
BY DEF Init, OneStudy, Proposals!Init, Proposals!Unused

LEMMA IntentSteps ==
    [Next]_vars => \/ tree # None /\ Proposals!Intent!Next
                   \/ UNCHANGED <<oracle, tree, said>>
<1>1. [Next]_vars => Proposals!Next \/ UNCHANGED proposalVars
    BY ProposalsSteps
<1>2. QED
    BY <1>1 DEF proposalVars, Proposals!Next, Proposals!intentVars

LEMMA NoneIsNoKey == None \notin Proposals!Intent!Keys
BY WordsAssumption DEF WordsAssumption, Proposals!Intent!Keys

LEMMA LastOfTwo ==
    ASSUME NEW S \in SUBSET (1 .. 2), S # {}
    PROVE  /\ Proposals!Intent!Max(S) \in S
           /\ \A i \in S : i <= Proposals!Intent!Max(S)
<1>1. \E x \in S : \A y \in S : x >= y
    <2>1. CASE 2 \in S
        BY <2>1
    <2>2. CASE 2 \notin S
        <3>1. \A y \in S : y = 1
            BY <2>2
        <3>2. PICK y \in S : TRUE
            OBVIOUS
        <3>3. QED
            BY <3>1, <3>2
    <2>3. QED
        BY <2>1, <2>2
<1>2. QED
    BY <1>1 DEF Proposals!Intent!Max

\* What was asked for stays asked for, and the last key edited is in focus with
\* what is asked of it.
Edited(s, n, edits, t) ==
    /\ t \in OracleStates
    /\ t.focus = edits[n][1] /\ t.focus # None /\ t.values[t.focus] # 0
    /\ \A k \in Proposals!Intent!Keys : s.values[k] # 0 => t.values[k] # 0
    /\ n = 1 => \A k \in Proposals!Intent!Keys \ {t.focus} : t.values[k] = s.values[k]
    /\ t.paused \subseteq s.paused /\ t.ood = s.ood

\* One or two edits do that.
LEMMA PutFacts ==
    ASSUME NEW s \in OracleStates, NEW n \in 1 .. 2, NEW edits \in [1 .. n -> Proposals!Intent!Edits],
           NEW op \in {"add", "revise"}
    PROVE  Edited(s, n, edits, Proposals!Intent!Transition(s, op, edits))
<1> DEFINE d == Proposals!Intent!Delta(op, [i \in DOMAIN edits |-> edits[i][1]],
                                       [i \in DOMAIN edits |-> edits[i][2]], "none")
           named == {i \in DOMAIN d.targets : d.targets[i] \in Proposals!Intent!Keys}
           At(k) == {i \in named : d.targets[i] = k}
           t == Proposals!Intent!Put(s, d)
<1>1. Proposals!Intent!Transition(s, op, edits) = t
    BY DEF Proposals!Intent!Transition, Proposals!Intent!Apply, Proposals!Intent!Delta
<1>2. \A i \in 1 .. n : edits[i][1] \in Proposals!Intent!Keys /\ edits[i][2] \in 1 .. 4
    BY WordsAssumption DEF WordsAssumption, Proposals!Intent!Edits
<1>3. /\ DOMAIN d.targets = 1 .. n /\ DOMAIN d.values = 1 .. n
      /\ \A i \in 1 .. n : d.targets[i] = edits[i][1] /\ d.values[i] = edits[i][2]
    BY DEF Proposals!Intent!Delta
<1> HIDE DEF d
<1>4. /\ named = 1 .. n
      /\ \A k : At(k) \in SUBSET (1 .. 2) /\ At(k) \subseteq 1 .. n
    BY <1>2, <1>3
<1>5. Proposals!Intent!Max(1 .. n) = n
    <2>1. 1 .. n \in SUBSET (1 .. 2) /\ 1 .. n # {} /\ n \in 1 .. n
        OBVIOUS
    <2>2. /\ Proposals!Intent!Max(1 .. n) \in 1 .. n
          /\ n <= Proposals!Intent!Max(1 .. n)
        BY <2>1, LastOfTwo
    <2>3. QED
        BY <2>2
<1>6. \A k : At(k) # {} => Proposals!Intent!Max(At(k)) \in At(k)
    BY <1>4, LastOfTwo
<1> DEFINE new == [k \in Proposals!Intent!Keys |->
                     IF At(k) = {} THEN s.values[k] ELSE d.values[Proposals!Intent!Max(At(k))]]
           left == {k \in s.paused : At(k) = {}}
           last == IF named = {} THEN s.focus ELSE d.targets[Proposals!Intent!Max(named)]
<1>7. t.values = new /\ t.paused = left /\ t.focus = last /\ t.ood = s.ood
      /\ t = [values |-> new, paused |-> left, focus |-> last, ood |-> s.ood]
    <2>1. t = [s EXCEPT !.values = new, !.paused = left, !.focus = last]
        BY Zenon DEF Proposals!Intent!Put
    <2> HIDE DEF new, left, last, t
    <2>2. t = [values |-> new, paused |-> left, focus |-> last, ood |-> s.ood]
        BY <2>1 DEF OracleStates
    <2>3. QED
        BY <2>2
<1> HIDE DEF t
<1>8. last = d.targets[n] /\ left \subseteq s.paused
    <2>1. named # {}
        BY <1>4
    <2>2. Proposals!Intent!Max(named) = n
        <3> HIDE DEF named
        <3>1. QED
            BY <1>4, <1>5
    <2> HIDE DEF named
    <2>3. QED
        BY <2>1, <2>2
<1>9. ASSUME NEW k \in Proposals!Intent!Keys, At(k) # {}
      PROVE  t.values[k] \in 1 .. 4
    <2>1. PICK i : i = Proposals!Intent!Max(At(k))
        OBVIOUS
    <2>2. i \in 1 .. n
        BY <1>4, <1>6, <1>9, <2>1
    <2>3. t.values[k] = d.values[i]
        <3> HIDE DEF At
        <3>1. QED
            BY <1>7, <1>9, <2>1
    <2>4. QED
        BY <1>2, <1>3, <2>2, <2>3
<1>10. n \in At(d.targets[n]) /\ d.targets[n] \in Proposals!Intent!Keys
    BY <1>2, <1>3, <1>4
<1> HIDE DEF At, named
<1>11. t.focus = edits[n][1] /\ t.focus \in Proposals!Intent!Keys /\ t.values[t.focus] # 0
    BY <1>3, <1>7, <1>8, <1>9, <1>10
<1>12. \A k \in Proposals!Intent!Keys : t.values[k] \in 0 .. 4 /\ (s.values[k] # 0 => t.values[k] # 0)
    BY <1>7, <1>9 DEF OracleStates, Asked
<1>13. n = 1 => \A k \in Proposals!Intent!Keys \ {t.focus} : t.values[k] = s.values[k]
    <2>1. n = 1 => \A k \in Proposals!Intent!Keys \ {d.targets[n]} : At(k) = {}
        BY <1>4 DEF At
    <2>2. QED
        BY <1>7, <1>8, <2>1
<1>14. t \in OracleStates
    <2>1. t.values \in Asked
        BY <1>7, <1>12 DEF Asked
    <2> HIDE DEF new, left, last
    <2>2. t.focus \in Spot /\ left \subseteq Proposals!Intent!Keys /\ s.ood \in BOOLEAN
        BY <1>8, <1>11 DEF OracleStates, Spot
    <2>3. QED
        BY <1>7, <2>1, <2>2 DEF OracleStates
<1>15. QED
    BY <1>1, <1>7, <1>8, <1>11, <1>12, <1>13, <1>14, NoneIsNoKey DEF Edited

\* What an operation on the focus, or on nothing, does to the oracle's state.
LEMMA PlainFacts ==
    ASSUME NEW s \in OracleStates, FocusIsAsked(s),
           NEW op \in {"retract", "pause", "resume", "clear", "retain", "ood"},
           op \in {"retract", "pause", "resume"} => s.focus # None
    PROVE  LET t == Proposals!Intent!Transition(s, op, <<>>) IN
           /\ t \in OracleStates /\ FocusIsAsked(t)
           /\ op = "retract" => /\ t.values = [s.values EXCEPT ![s.focus] = 0]
                                /\ t.focus = None /\ t.ood = s.ood
                                /\ t.paused = s.paused \ {s.focus}
           /\ op \in {"pause", "resume", "retain"} =>
                 t.values = s.values /\ t.focus = s.focus /\ t.ood = s.ood
           /\ op = "pause"  => t.paused = s.paused \cup {s.focus}
           /\ op = "resume" => t.paused = s.paused \ {s.focus}
           /\ op \in {"retain", "ood"} => t.paused = s.paused
           /\ op = "ood"   => t.values = s.values /\ t.focus = s.focus /\ t.ood
           /\ op = "clear" => t = Proposals!Intent!EmptyState
<1> DEFINE t == Proposals!Intent!Transition(s, op, <<>>)
           d == Proposals!Intent!Delta(op, <<s.focus>>, << 0 >>, "none")
           hit == Proposals!Intent!Range(d.targets) \cap Proposals!Intent!Keys
<1>1. /\ s.values \in Asked /\ s.paused \in SUBSET Proposals!Intent!Keys /\ s.focus \in Spot
      /\ s.ood \in BOOLEAN
      /\ s = [values |-> s.values, paused |-> s.paused, focus |-> s.focus, ood |-> s.ood]
    BY DEF OracleStates
<1>2. d.op = op /\ d.targets = <<s.focus>>
    BY DEF Proposals!Intent!Delta
<1>3. hit = {s.focus} \cap Proposals!Intent!Keys
    BY <1>2 DEF Proposals!Intent!Range
<1>4. s.focus # None => s.focus \in Proposals!Intent!Keys /\ hit = {s.focus}
    BY <1>1, <1>3 DEF Spot
<1>5. CASE op = "retract"
    <2>1. t = Proposals!Intent!TakeBack(s, {s.focus})
        BY <1>2, <1>4, <1>5 DEF Proposals!Intent!Transition, Proposals!Intent!Apply
    <2>2. /\ t.values = [k \in Proposals!Intent!Keys |-> IF k \in {s.focus} THEN 0 ELSE s.values[k]]
          /\ t.paused = s.paused \ {s.focus} /\ t.focus = None /\ t.ood = s.ood
          /\ t = [values |-> t.values, paused |-> t.paused, focus |-> t.focus, ood |-> t.ood]
        <3> HIDE DEF t
        <3>1. t = [s EXCEPT !.values = [k \in Proposals!Intent!Keys |-> IF k \in {s.focus} THEN 0 ELSE @[k]],
                            !.paused = @ \ {s.focus}, !.focus = IF @ \in {s.focus} THEN None ELSE @]
            BY <2>1 DEF Proposals!Intent!TakeBack
        <3>2. QED
            BY <1>1, <3>1
    <2> HIDE DEF t
    <2>3. t.values = [s.values EXCEPT ![s.focus] = 0] /\ t.values \in Asked
        BY <1>1, <1>4, <1>5, <2>2 DEF Asked
    <2>4. t \in OracleStates
        BY <1>1, <2>2, <2>3 DEF OracleStates, Spot
    <2>5. QED
        BY <1>5, <2>2, <2>3, <2>4 DEF FocusIsAsked, t
<1>6. CASE op \in {"pause", "resume"}
    <2>1. \/ op = "pause" /\ t = [s EXCEPT !.paused = @ \cup hit]
          \/ op = "resume" /\ t = [s EXCEPT !.paused = @ \ hit]
        BY <1>2, <1>6 DEF Proposals!Intent!Transition, Proposals!Intent!Apply
    <2>2. hit \subseteq Proposals!Intent!Keys
        OBVIOUS
    <2> HIDE DEF t, hit
    <2>3. /\ t.values = s.values /\ t.focus = s.focus /\ t.ood = s.ood
          /\ t.paused \in SUBSET Proposals!Intent!Keys
          /\ op = "pause"  => t.paused = s.paused \cup hit
          /\ op = "resume" => t.paused = s.paused \ hit
          /\ t = [values |-> t.values, paused |-> t.paused, focus |-> t.focus, ood |-> t.ood]
        BY <1>1, <2>1, <2>2
    <2>4. t \in OracleStates
        BY <1>1, <2>3 DEF OracleStates
    <2>5. hit = {s.focus}
        BY <1>4, <1>6
    <2>6. QED
        BY <1>6, <2>3, <2>4, <2>5 DEF FocusIsAsked, t
<1>7. CASE op = "clear"
    <2>1. t = Proposals!Intent!EmptyState
        BY <1>7 DEF Proposals!Intent!Transition, Proposals!Intent!Apply, Proposals!Intent!Delta
    <2>2. Proposals!Intent!EmptyState \in OracleStates /\ FocusIsAsked(Proposals!Intent!EmptyState)
        BY DEF Proposals!Intent!EmptyState, OracleStates, Asked, Spot, FocusIsAsked
    <2>3. QED
        BY <1>7, <2>1, <2>2
<1>8. CASE op = "ood"
    <2>1. t = [s EXCEPT !.ood = TRUE]
        BY <1>8 DEF Proposals!Intent!Transition, Proposals!Intent!Apply, Proposals!Intent!Delta
    <2> HIDE DEF t
    <2>2. /\ t.values = s.values /\ t.focus = s.focus /\ t.ood /\ t.paused = s.paused
          /\ t \in OracleStates
        BY <1>1, <2>1 DEF OracleStates
    <2>3. QED
        BY <1>8, <2>2 DEF FocusIsAsked, t
<1>9. CASE op = "retain"
    <2>1. t = s
        BY <1>9 DEF Proposals!Intent!Transition, Proposals!Intent!Apply, Proposals!Intent!Delta
    <2>2. QED
        BY <1>9, <2>1
<1>10. QED
    BY <1>5, <1>6, <1>7, <1>8, <1>9

\* The tree asks for the same keys as the oracle, speaks of the same one with the
\* same value, and pauses what the oracle pauses.
Follows(tr, s) ==
    /\ \A k \in Proposals!Intent!Keys : (tr.goals[k] # 0) = (s.values[k] # 0)
    /\ tr.focus = s.focus /\ tr.ood_pending = s.ood
    /\ tr.focus # None => tr.goals[tr.focus] = s.values[tr.focus]
    /\ s.paused \subseteq tr.paused

LEMMA FollowsIsTheProperty ==
    Proposals!Intent!TreeFollowsOracle <=> (oracle # None => Follows(tree, oracle))
BY DEF Proposals!Intent!TreeFollowsOracle, Proposals!Intent!Goals, Proposals!Intent!Active, Follows

\* The four fields of a tree that a commit can change, by operation.
LEMMA ChangedFields ==
    ASSUME tree \in Trees, NEW op, NEW goals \in Asked, NEW at \in Spot
    PROVE  LET p == [operation |-> op, goals |-> goals, focus |-> at]
               new == Proposals!Intent!Changed(p)
               new_focus == IF at # None /\ goals[at] # 0 THEN at ELSE tree.focus
           IN /\ op = "clear"   => new = Proposals!Intent!EmptyTree
              /\ op = "retract" => /\ new.goals = [tree.goals EXCEPT ![tree.focus] = 0]
                                   /\ new.focus = None /\ new.ood_pending = tree.ood_pending
              /\ op = "add"     => /\ new.goals = [k \in Proposals!Intent!Keys |->
                                          IF goals[k] # 0 /\ (tree.goals[k] = 0 \/ k = at)
                                          THEN goals[k] ELSE tree.goals[k]]
                                   /\ new.focus = new_focus /\ new.ood_pending = tree.ood_pending
              /\ op = "revise"  => /\ new.goals = [tree.goals EXCEPT ![tree.focus] = goals[tree.focus]]
                                   /\ new.focus = tree.focus /\ new.ood_pending = tree.ood_pending
              /\ op = "ood"     => /\ new.goals = tree.goals /\ new.focus = tree.focus
                                   /\ new.ood_pending
              /\ op \notin {"clear", "retract", "add", "revise", "ood"} =>
                    /\ new.goals = tree.goals /\ new.focus = tree.focus
                    /\ new.ood_pending = tree.ood_pending
<1> DEFINE p == [operation |-> op, goals |-> goals, focus |-> at]
<1>1. p.operation = op /\ p.goals = goals /\ p.focus = at
    OBVIOUS
<1> HIDE DEF p
<1>2. QED
    BY <1>1 DEF Proposals!Intent!Changed, Proposals!Intent!AddProposed, Trees, p

LEMMA EmptyTreeIsTree == Proposals!Intent!EmptyTree \in Trees
BY DEF Proposals!Intent!EmptyTree, Proposals!Intent!EmptyState, Trees, Asked, Spot

LEMMA ChangedIsTree ==
    ASSUME tree \in Trees, NEW op, NEW goals \in Asked, NEW at \in Spot, NEW text,
           Proposals!Intent!Accepts([operation |-> op, goals |-> goals, focus |-> at], text)
    PROVE  Proposals!Intent!Changed([operation |-> op, goals |-> goals, focus |-> at]) \in Trees
<1> DEFINE p == [operation |-> op, goals |-> goals, focus |-> at]
<1>1. p.operation = op /\ p.goals = goals /\ p.focus = at
    OBVIOUS
<1> HIDE DEF p
<1>2. Proposals!Intent!Accepts(p, text)
    BY DEF p
<1>3. ASSUME op \in {"retract", "revise", "pause", "resume"}
      PROVE  tree.focus \in Proposals!Intent!Keys
    <2>1. tree.focus # None
        BY <1>1, <1>2, <1>3 DEF Proposals!Intent!Accepts, Proposals!Intent!FocusHeld
    <2>2. QED
        BY <2>1 DEF Trees, Spot
<1> DEFINE changed == Proposals!Intent!Changed(p)
<1>4. changed \in Trees
    <2>1. CASE op = "clear"
        BY <1>1, <2>1, EmptyTreeIsTree DEF Proposals!Intent!Changed
    <2>2. CASE op = "add"
        BY <1>1, <2>2 DEF Proposals!Intent!Changed, Proposals!Intent!AddProposed, Trees, Asked, Spot
    <2>3. CASE op = "retract"
        <3>1. changed = [tree EXCEPT !.goals = [tree.goals EXCEPT ![tree.focus] = 0],
                                     !.paused = @ \ {tree.focus}, !.focus = None]
            BY <1>1, <2>3 DEF Proposals!Intent!Changed, Trees
        <3> HIDE DEF changed
        <3>2. [tree.goals EXCEPT ![tree.focus] = 0] \in Asked
            BY <1>3, <2>3 DEF Trees, Asked
        <3>3. QED
            BY <3>1, <3>2 DEF Trees, Spot
    <2>4. CASE op = "revise"
        <3>1. changed = [tree EXCEPT !.goals = [tree.goals EXCEPT ![tree.focus] = goals[tree.focus]]]
            BY <1>1, <2>4 DEF Proposals!Intent!Changed, Trees
        <3> HIDE DEF changed
        <3>2. [tree.goals EXCEPT ![tree.focus] = goals[tree.focus]] \in Asked
            BY <1>3, <2>4 DEF Trees, Asked
        <3>3. QED
            BY <3>1, <3>2 DEF Trees
    <2>5. CASE op \in {"pause", "resume"}
        <3>1. changed = [tree EXCEPT !.paused = @ \cup {tree.focus}]
              \/ changed = [tree EXCEPT !.paused = @ \ {tree.focus}]
            BY <1>1, <2>5 DEF Proposals!Intent!Changed
        <3> HIDE DEF changed
        <3>2. QED
            BY <1>3, <2>5, <3>1 DEF Trees
    <2>6. CASE op = "ood"
        <3>1. changed = [tree EXCEPT !.ood_pending = TRUE, !.pending_ood = @ \cup {tree.revision + 1}]
            BY <1>1, <2>6 DEF Proposals!Intent!Changed
        <3> HIDE DEF changed
        <3>2. tree.revision + 1 \in Nat
            BY DEF Trees
        <3>3. QED
            BY <3>1, <3>2 DEF Trees
    <2>7. CASE op \notin {"clear", "retract", "add", "revise", "pause", "resume", "ood"}
        BY <1>1, <2>7 DEF Proposals!Intent!Changed
    <2>8. QED
        BY <2>1, <2>2, <2>3, <2>4, <2>5, <2>6, <2>7
<1>5. QED
    BY <1>4 DEF p

\* What a commit may do to goals: a goal goes only when it was said, and takes
\* another value only when the tree then speaks of it.
Changes(new, text) ==
    \A k \in Proposals!Intent!Keys : tree.goals[k] # 0 =>
        /\ new.goals[k] = 0 => text = "clear" \/ (text = "retract" /\ k = tree.focus)
        /\ new.goals[k] \notin {0, tree.goals[k]} => k = new.focus

\* Whatever is proposed, the tree stays a tree and changes goals only so.
LEMMA CommitFacts ==
    ASSUME tree \in Trees, NEW op, NEW goals \in Asked, NEW at \in Spot, NEW text
    PROVE  LET new == Proposals!Intent!Commit([operation |-> op, goals |-> goals, focus |-> at], text)
           IN new \in Trees /\ Changes(new, text)
<1> DEFINE p == [operation |-> op, goals |-> goals, focus |-> at]
           new == Proposals!Intent!Commit(p, text)
           changed == Proposals!Intent!Changed(p)
<1>1. p.operation = op /\ p.goals = goals /\ p.focus = at
    OBVIOUS
<1>2. CASE ~Proposals!Intent!Accepts(p, text)
    BY <1>2 DEF Proposals!Intent!Commit, Changes
<1>3. CASE Proposals!Intent!Accepts(p, text)
    <2>1. changed \in Trees
        BY <1>3, ChangedIsTree
    <2>2. new = [changed EXCEPT !.revision = tree.revision + 1]
        BY <1>3 DEF Proposals!Intent!Commit
    <2>3. /\ op = "clear" => text = "clear"
          /\ op = "retract" => text = "retract"
          /\ op = "revise" => goals[tree.focus] # 0
        BY <1>3 DEF Proposals!Intent!Accepts
    <2>4. Changes(changed, text)
        <3>1. CASE op = "clear"
            <4>1. changed = Proposals!Intent!EmptyTree
                BY <3>1, ChangedFields
            <4> HIDE DEF changed, p, new
            <4>2. changed.goals = [k \in Proposals!Intent!Keys |-> 0]
                BY <4>1 DEF Proposals!Intent!EmptyTree, Proposals!Intent!EmptyState
            <4>3. QED
                BY <2>3, <3>1, <4>2 DEF Changes
        <3>2. CASE op = "retract"
            <4>1. changed.goals = [tree.goals EXCEPT ![tree.focus] = 0]
                <5> HIDE DEF p
                <5>1. QED
                    BY <1>1, <3>2 DEF Proposals!Intent!Changed, Trees
            <4> HIDE DEF changed
            <4>2. QED
                BY <2>3, <3>2, <4>1 DEF Changes, Trees, Asked
        <3>3. CASE op = "add"
            <4>1. /\ changed.goals = [j \in Proposals!Intent!Keys |->
                                         IF goals[j] # 0 /\ (tree.goals[j] = 0 \/ j = at)
                                         THEN goals[j] ELSE tree.goals[j]]
                  /\ at # None /\ goals[at] # 0 => changed.focus = at
                <5> HIDE DEF p
                <5>1. QED
                    BY <1>1, <3>3
                    DEF Proposals!Intent!Changed, Proposals!Intent!AddProposed, Trees
            <4> HIDE DEF changed, p, new
            <4>2. SUFFICES ASSUME NEW k \in Proposals!Intent!Keys, tree.goals[k] # 0
                           PROVE  /\ changed.goals[k] # 0
                                  /\ changed.goals[k] # tree.goals[k] => k = changed.focus
                BY DEF Changes
            <4>3. CASE goals[k] # 0 /\ k = at
                BY <4>1, <4>3, NoneIsNoKey
            <4>4. CASE ~(goals[k] # 0 /\ k = at)
                <5>1. changed.goals[k] = tree.goals[k]
                    BY <4>1, <4>2, <4>4
                <5>2. QED
                    BY <4>2, <5>1
            <4>5. QED
                BY <4>3, <4>4
        <3>4. CASE op = "revise"
            <4>1. /\ changed.goals = [tree.goals EXCEPT ![tree.focus] = goals[tree.focus]]
                  /\ changed.focus = tree.focus
                <5> HIDE DEF p
                <5>1. QED
                    BY <1>1, <3>4 DEF Proposals!Intent!Changed, Trees
            <4> HIDE DEF changed, p, new
            <4>2. SUFFICES ASSUME NEW k \in Proposals!Intent!Keys, tree.goals[k] # 0
                           PROVE  /\ changed.goals[k] # 0
                                  /\ changed.goals[k] # tree.goals[k] => k = changed.focus
                BY DEF Changes
            <4>3. CASE k = tree.focus
                <5>1. changed.goals[k] = goals[tree.focus]
                    BY <4>1, <4>3 DEF Trees, Asked
                <5>2. QED
                    BY <2>3, <3>4, <4>1, <4>3, <5>1
            <4>4. CASE k # tree.focus
                <5>1. changed.goals[k] = tree.goals[k]
                    BY <4>1, <4>4 DEF Trees, Asked
                <5>2. QED
                    BY <4>2, <5>1
            <4>5. QED
                BY <4>3, <4>4
        <3>5. CASE op \notin {"clear", "retract", "add", "revise"}
            <4>1. changed.goals = tree.goals
                <5> HIDE DEF p
                <5>1. QED
                    BY <1>1, <3>5 DEF Proposals!Intent!Changed, Trees
            <4> HIDE DEF changed
            <4>2. QED
                BY <4>1 DEF Changes
        <3>6. QED
            BY <3>1, <3>2, <3>3, <3>4, <3>5
    <2> HIDE DEF changed
    <2>5. new.goals = changed.goals /\ new.focus = changed.focus /\ new \in Trees
        <3> HIDE DEF new
        <3>1. tree.revision + 1 \in Nat
            BY DEF Trees
        <3>2. QED
            BY <2>1, <2>2, <3>1 DEF Trees
    <2> HIDE DEF new
    <2>6. Changes(new, text)
        BY <2>4, <2>5 DEF Changes
    <2>7. QED
        BY <2>5, <2>6 DEF new
<1>4. QED
    BY <1>2, <1>3

\* A right network's proposal takes the tree where the oracle goes.
LEMMA CommitFollows ==
    ASSUME tree \in Trees, NEW s \in OracleStates, FocusIsAsked(s), Follows(tree, s),
           NEW t \in OracleStates, NEW op,
           Proposals!Intent!Accepts(Proposals!Intent!Decode(t, op), Proposals!Intent!Spoken(op)),
           LET new == Proposals!Intent!Changed(Proposals!Intent!Decode(t, op)) IN Follows(new, t)
    PROVE  Follows(Proposals!Intent!Commit(Proposals!Intent!Decode(t, op),
                                           Proposals!Intent!Spoken(op)), t)
<1> DEFINE p == Proposals!Intent!Decode(t, op)
           changed == Proposals!Intent!Changed(p)
<1>1. t.values \in Asked /\ t.focus \in Spot
    BY DEF OracleStates
<1>2. p = [operation |-> op, goals |-> t.values, focus |-> t.focus]
    BY DEF Proposals!Intent!Decode
<1>3. changed \in Trees
    BY <1>1, <1>2, ChangedIsTree
<1>4. Proposals!Intent!Commit(p, Proposals!Intent!Spoken(op))
        = [changed EXCEPT !.revision = tree.revision + 1]
    BY DEF Proposals!Intent!Commit
<1> HIDE DEF changed
<1>5. Follows(changed, t)
    BY DEF changed
<1>6. QED
    BY <1>3, <1>4, <1>5 DEF Follows, Trees

\* What may be drawn next: one or two edits, an edit of the focus, an operation.
LEMMA DrawnTurns ==
    ASSUME NEW s \in OracleStates, NEW turn \in Proposals!Intent!Drawn(s)
    PROVE  \/ /\ turn[1] = "add"
              /\ \E n \in 1 .. 2 : turn[2] \in [1 .. n -> Proposals!Intent!Edits]
           \/ /\ turn[1] = "revise" /\ s.focus # None
              /\ turn[2] \in [1 .. 1 -> Proposals!Intent!Edits] /\ turn[2][1][1] = s.focus
           \/ /\ turn[1] \in {"retract", "pause", "resume", "clear", "retain", "ood"}
              /\ turn[1] \in {"retract", "pause", "resume"} => s.focus # None
              /\ turn[2] = <<>>
<1>1. \/ turn \in {<<"add", e>> : e \in Proposals!Intent!AddEdits}
      \/ turn \in {<<op, <<>>>> : op \in {"retain", "clear", "ood"}}
      \/ s.focus # None /\ turn \in {<<op, <<>>>> : op \in {"retract", "pause", "resume"}}
      \/ /\ s.focus # None
         /\ turn \in {<<"revise", <<<<s.focus, v>>>>>> :
                         v \in {w \in Words : Proposals!Intent!SlotFor(w) = s.focus.prop}}
    BY Zenon DEF Proposals!Intent!Drawn
<1>2. CASE turn \in {<<"add", e>> : e \in Proposals!Intent!AddEdits}
    <2>1. PICK e \in Proposals!Intent!AddEdits : turn = <<"add", e>>
        BY <1>2
    <2>2. \/ e \in {<<f>> : f \in Proposals!Intent!Edits}
          \/ e \in Proposals!Intent!Edits \X Proposals!Intent!Edits
        BY Zenon DEF Proposals!Intent!AddEdits
    <2>3. CASE e \in {<<f>> : f \in Proposals!Intent!Edits}
        <3>1. PICK f \in Proposals!Intent!Edits : e = <<f>>
            BY <2>3
        <3>2. e \in [1 .. 1 -> Proposals!Intent!Edits]
            BY <3>1
        <3>3. QED
            BY <2>1, <3>2
    <2>4. CASE e \in Proposals!Intent!Edits \X Proposals!Intent!Edits
        <3>1. e \in [1 .. 2 -> Proposals!Intent!Edits]
            BY <2>4
        <3>2. QED
            BY <2>1, <3>1
    <2>5. QED
        BY <2>2, <2>3, <2>4
<1>3. CASE turn \in {<<op, <<>>>> : op \in {"retain", "clear", "ood"}}
    BY <1>3
<1>4. CASE s.focus # None /\ turn \in {<<op, <<>>>> : op \in {"retract", "pause", "resume"}}
    BY <1>4
<1>5. CASE /\ s.focus # None
           /\ turn \in {<<"revise", <<<<s.focus, v>>>>>> :
                           v \in {w \in Words : Proposals!Intent!SlotFor(w) = s.focus.prop}}
    <2>1. PICK v \in Words : /\ turn = <<"revise", <<<<s.focus, v>>>>>>
                             /\ Proposals!Intent!SlotFor(v) = s.focus.prop
        BY <1>5
    <2>2. PICK edit : edit = <<s.focus, v>>
        OBVIOUS
    <2>3. edit \in Proposals!Intent!Edits /\ edit[1] = s.focus
        BY <1>5, <2>1, <2>2 DEF Proposals!Intent!Edits, OracleStates, Spot
    <2>4. turn[1] = "revise" /\ turn[2] = <<edit>>
        BY <2>1, <2>2
    <2>5. turn[2] \in [1 .. 1 -> Proposals!Intent!Edits] /\ turn[2][1] = edit
        BY <2>3, <2>4
    <2>6. QED
        BY <1>5, <2>3, <2>4, <2>5
<1>6. QED
    BY <1>1, <1>2, <1>3, <1>4, <1>5

\* A turn that is drawn and predicted right takes both to the same place.
LEMMA DrawnFollows ==
    ASSUME tree \in Trees, NEW s \in OracleStates, FocusIsAsked(s), Follows(tree, s),
           NEW turn \in Proposals!Intent!Drawn(s)
    PROVE  LET t == Proposals!Intent!Transition(s, turn[1], turn[2]) IN
           /\ t \in OracleStates /\ FocusIsAsked(t)
           /\ Follows(Proposals!Intent!Commit(Proposals!Intent!Decode(t, turn[1]),
                                              Proposals!Intent!Spoken(turn[1])), t)
<1>1. PICK op, edits, t : /\ op = turn[1] /\ edits = turn[2]
                          /\ t = Proposals!Intent!Transition(s, op, edits)
    OBVIOUS
<1> DEFINE p == Proposals!Intent!Decode(t, op)
           text == Proposals!Intent!Spoken(op)
           new == Proposals!Intent!Changed(p)
<1>2. p = [operation |-> op, goals |-> t.values, focus |-> t.focus]
    BY DEF Proposals!Intent!Decode
<1>3. p.operation = op /\ p.goals = t.values /\ p.focus = t.focus
    BY <1>2
<1>4. tree.focus = s.focus /\ (s.focus # None => s.focus \in Proposals!Intent!Keys)
    BY DEF Follows, OracleStates, Spot
<1>5. s.focus # None => Proposals!Intent!FocusHeld
    BY <1>4 DEF Proposals!Intent!FocusHeld, Proposals!Intent!Goals, Follows, FocusIsAsked
<1>6. SUFFICES /\ t \in OracleStates /\ FocusIsAsked(t)
               /\ Proposals!Intent!Accepts(p, text) /\ Follows(new, t)
    BY <1>1, CommitFollows, Zenon
<1>7. CASE op \in {"add", "revise"}
    <2>1. PICK n \in 1 .. 2 : /\ edits \in [1 .. n -> Proposals!Intent!Edits]
                              /\ op = "revise" => n = 1 /\ edits[1][1] = s.focus /\ s.focus # None
        BY <1>1, <1>7, DrawnTurns
    <2>2. /\ t \in OracleStates
          /\ t.focus = edits[n][1] /\ t.focus # None /\ t.values[t.focus] # 0
          /\ \A k \in Proposals!Intent!Keys : s.values[k] # 0 => t.values[k] # 0
          /\ n = 1 => \A k \in Proposals!Intent!Keys \ {t.focus} : t.values[k] = s.values[k]
          /\ t.paused \subseteq s.paused /\ t.ood = s.ood
        <3>1. Edited(s, n, edits, Proposals!Intent!Transition(s, op, edits))
            BY <1>7, <2>1, PutFacts
        <3>2. Edited(s, n, edits, t)
            BY <1>1, <3>1
        <3>3. QED
            BY <3>2 DEF Edited
    <2>3. t.values \in Asked /\ t.focus \in Spot
        BY <2>2 DEF OracleStates
    <2> HIDE DEF p, new, text
    <2>4. CASE op = "add"
        <3>1. Proposals!Intent!Accepts(p, text)
            BY <1>3, <2>4 DEF Proposals!Intent!Accepts, Proposals!Intent!Ops
        <3>2. /\ new.goals = [k \in Proposals!Intent!Keys |->
                                 IF t.values[k] # 0 /\ (tree.goals[k] = 0 \/ k = t.focus)
                                 THEN t.values[k] ELSE tree.goals[k]]
              /\ new.focus = t.focus /\ new.ood_pending = tree.ood_pending
              /\ new.paused = tree.paused
            BY <1>3, <2>2, <2>4
            DEF new, Proposals!Intent!Changed, Proposals!Intent!AddProposed, Trees
        <3>3. t.focus \in Proposals!Intent!Keys
            BY <2>2, <2>3 DEF Spot
        <3>4. Follows(new, t)
            BY <2>2, <3>2, <3>3 DEF Follows
        <3>5. QED
            BY <2>2, <3>1, <3>4 DEF FocusIsAsked
    <2>5. CASE op = "revise"
        <3>1. n = 1 /\ t.focus = s.focus /\ t.focus = tree.focus
            BY <1>4, <2>1, <2>2, <2>5
        <3>2. Proposals!Intent!Accepts(p, text)
            BY <1>3, <2>2, <2>5, <3>1 DEF Proposals!Intent!Accepts
        <3>3. /\ new.goals = [tree.goals EXCEPT ![tree.focus] = t.values[tree.focus]]
              /\ new.focus = tree.focus /\ new.ood_pending = tree.ood_pending
              /\ new.paused = tree.paused
            BY <1>3, <2>5 DEF new, Proposals!Intent!Changed, Trees
        <3>4. Follows(new, t)
            BY <1>4, <2>1, <2>2, <3>1, <3>3 DEF Follows, Trees, Asked
        <3>5. QED
            BY <2>2, <3>2, <3>4 DEF FocusIsAsked
    <2>6. QED
        BY <1>7, <2>4, <2>5
<1>8. CASE op \in {"retract", "pause", "resume", "clear", "retain", "ood"}
    <2>1. edits = <<>> /\ (op \in {"retract", "pause", "resume"} => s.focus # None)
        BY <1>1, <1>8, DrawnTurns
    <2>2. /\ t \in OracleStates /\ FocusIsAsked(t)
          /\ op = "retract" => /\ t.values = [s.values EXCEPT ![s.focus] = 0]
                               /\ t.focus = None /\ t.ood = s.ood
                               /\ t.paused = s.paused \ {s.focus}
          /\ op \in {"pause", "resume", "retain"} =>
                t.values = s.values /\ t.focus = s.focus /\ t.ood = s.ood
          /\ op = "pause"  => t.paused = s.paused \cup {s.focus}
          /\ op = "resume" => t.paused = s.paused \ {s.focus}
          /\ op \in {"retain", "ood"} => t.paused = s.paused
          /\ op = "ood"   => t.values = s.values /\ t.focus = s.focus /\ t.ood
          /\ op = "clear" => t = Proposals!Intent!EmptyState
        BY <1>1, <1>8, <2>1, PlainFacts
    <2>3. text = IF op \in {"clear", "retract"} THEN op ELSE "other"
        BY DEF Proposals!Intent!Spoken
    <2> HIDE DEF p, new, text
    <2>4. Proposals!Intent!Accepts(p, text)
        BY <1>3, <1>5, <1>8, <2>1, <2>3 DEF Proposals!Intent!Accepts, Proposals!Intent!Ops
    <2>5. CASE op = "retract"
        <3>1. /\ new.goals = [tree.goals EXCEPT ![tree.focus] = 0]
              /\ new.focus = None /\ new.ood_pending = tree.ood_pending
              /\ new.paused = tree.paused \ {tree.focus}
            BY <1>3, <2>5 DEF new, Proposals!Intent!Changed, Trees
        <3>2. Follows(new, t)
            BY <1>4, <2>1, <2>2, <2>5, <3>1 DEF Follows, Trees, Asked, OracleStates
        <3>3. QED
            BY <2>2, <2>4, <3>2
    <2>6. CASE op \in {"pause", "resume", "retain"}
        <3>1. /\ new.goals = tree.goals /\ new.focus = tree.focus
              /\ new.ood_pending = tree.ood_pending
              /\ op = "pause"  => new.paused = tree.paused \cup {tree.focus}
              /\ op = "resume" => new.paused = tree.paused \ {tree.focus}
              /\ op = "retain" => new.paused = tree.paused
            BY <1>3, <2>6 DEF new, Proposals!Intent!Changed, Trees
        <3>2. Follows(new, t)
            BY <1>4, <2>2, <2>6, <3>1 DEF Follows
        <3>3. QED
            BY <2>2, <2>4, <3>2
    <2>7. CASE op = "ood"
        <3>1. /\ new.goals = tree.goals /\ new.focus = tree.focus /\ new.ood_pending = TRUE
              /\ new.paused = tree.paused
            BY <1>3, <2>7 DEF new, Proposals!Intent!Changed, Trees
        <3>2. t.ood = TRUE
            BY <2>2, <2>7 DEF OracleStates
        <3>3. Follows(new, t)
            BY <2>2, <2>7, <3>1, <3>2 DEF Follows
        <3>4. QED
            BY <2>2, <2>4, <3>3
    <2>8. CASE op = "clear"
        <3>1. new = Proposals!Intent!EmptyTree
            BY <1>3, <2>8 DEF new, Proposals!Intent!Changed
        <3>2. /\ new.goals = Proposals!Intent!EmptyState.values
              /\ new.focus = None /\ new.ood_pending = FALSE
            BY <3>1 DEF Proposals!Intent!EmptyTree
        <3>3. /\ t.values = Proposals!Intent!EmptyState.values
              /\ t.focus = None /\ t.ood = FALSE /\ t.paused = {}
            BY <2>2, <2>8 DEF Proposals!Intent!EmptyState
        <3>4. Follows(new, t)
            BY <3>2, <3>3 DEF Follows
        <3>5. QED
            BY <2>2, <2>4, <3>4
    <2>9. QED
        BY <1>8, <2>5, <2>6, <2>7, <2>8
<1>9. QED
    BY <1>1, <1>7, <1>8, DrawnTurns

ChangeIsAsked == Proposals!Intent!LossWasAsked /\ Proposals!Intent!RevisedInFocus

LEMMA PredictedKeeps ==
    ASSUME IntentInv, Proposals!Intent!PredictedTurn
    PROVE  IntentInv' /\ ChangeIsAsked
<1>1. /\ tree \in Trees /\ oracle \in OracleStates /\ FocusIsAsked(oracle) /\ oracle # None
      /\ Follows(tree, oracle)
    BY FollowsIsTheProperty DEF IntentInv, Proposals!Intent!PredictedTurn
<1>2. PICK turn \in Proposals!Intent!Drawn(oracle) :
          /\ oracle' = Proposals!Intent!Transition(oracle, turn[1], turn[2])
          /\ said' = Proposals!Intent!Spoken(turn[1])
          /\ tree' = Proposals!Intent!Commit(Proposals!Intent!Decode(oracle', turn[1]), said')
    BY DEF Proposals!Intent!PredictedTurn
<1>3. PICK s, t, op, text : /\ s = oracle /\ t = Proposals!Intent!Transition(oracle, turn[1], turn[2])
                            /\ op = turn[1] /\ text = Proposals!Intent!Spoken(turn[1])
    OBVIOUS
<1>4. /\ t \in OracleStates /\ FocusIsAsked(t)
      /\ Follows(Proposals!Intent!Commit(Proposals!Intent!Decode(t, op), text), t)
    BY <1>1, <1>2, <1>3, DrawnFollows
<1>5. /\ Proposals!Intent!Commit(Proposals!Intent!Decode(t, op), text) \in Trees
      /\ Changes(Proposals!Intent!Commit(Proposals!Intent!Decode(t, op), text), text)
    <2>1. t.values \in Asked /\ t.focus \in Spot
        BY <1>4 DEF OracleStates
    <2>2. Proposals!Intent!Decode(t, op) = [operation |-> op, goals |-> t.values, focus |-> t.focus]
        BY DEF Proposals!Intent!Decode
    <2>3. QED
        BY <1>1, <2>1, <2>2, CommitFacts
<1>6. oracle' = t /\ said' = text /\ tree' = Proposals!Intent!Commit(Proposals!Intent!Decode(t, op), text)
    BY <1>2, <1>3
<1>7. oracle' \in OracleStates /\ FocusIsAsked(oracle') /\ tree' \in Trees /\ Follows(tree', oracle')
    BY <1>4, <1>5, <1>6
<1>8. Proposals!Intent!TreeFollowsOracle'
    BY <1>7 DEF Proposals!Intent!TreeFollowsOracle, Proposals!Intent!Goals, Proposals!Intent!Active,
                Follows
<1>9. ChangeIsAsked
    BY <1>5, <1>6 DEF ChangeIsAsked, Proposals!Intent!LossWasAsked, Proposals!Intent!RevisedInFocus,
        Proposals!Intent!Goals, Changes
<1>10. IntentInv'
    BY <1>7, <1>8 DEF IntentInv, FocusIsAsked
<1>11. QED
    BY <1>9, <1>10

LEMMA MispredictedKeeps ==
    ASSUME IntentInv, Proposals!Intent!MispredictedTurn
    PROVE  IntentInv' /\ ChangeIsAsked
<1>1. tree \in Trees /\ oracle' = None
    BY DEF IntentInv, Proposals!Intent!MispredictedTurn
<1>2. PICK op \in Proposals!Intent!Ops \cup {"unknown"}, goals \in Snapshots,
           at \in Proposals!Intent!Keys \cup {None} :
          tree' = Proposals!Intent!Commit([operation |-> op, goals |-> goals, focus |-> at], said')
    BY DEF Proposals!Intent!MispredictedTurn
<1>3. PICK text : text = said'
    OBVIOUS
<1>4. goals \in Asked /\ at \in Spot
    BY WordsAssumption DEF WordsAssumption, Asked, Spot, Proposals!Intent!Keys
<1>5. /\ Proposals!Intent!Commit([operation |-> op, goals |-> goals, focus |-> at], text) \in Trees
      /\ Changes(Proposals!Intent!Commit([operation |-> op, goals |-> goals, focus |-> at], text), text)
    BY <1>1, <1>4, CommitFacts
<1>6. tree' = Proposals!Intent!Commit([operation |-> op, goals |-> goals, focus |-> at], text)
    BY <1>2, <1>3
<1>7. ChangeIsAsked
    BY <1>3, <1>5, <1>6 DEF ChangeIsAsked, Proposals!Intent!LossWasAsked, Proposals!Intent!RevisedInFocus,
        Proposals!Intent!Goals, Changes
<1>8. tree' \in Trees
    BY <1>5, <1>6
<1>9. IntentInv'
    BY <1>1, <1>8 DEF IntentInv, Proposals!Intent!TreeFollowsOracle
<1>10. QED
    BY <1>7, <1>9

LEMMA IntentKept ==
    ASSUME IntentInv, [Next]_vars
    PROVE  IntentInv' /\ ChangeIsAsked
<1>1. CASE Proposals!Intent!PredictedTurn
    BY <1>1, PredictedKeeps
<1>2. CASE Proposals!Intent!MispredictedTurn
    BY <1>2, MispredictedKeeps
<1>3. CASE UNCHANGED <<oracle, tree, said>>
    <2>1. oracle' = oracle /\ tree' = tree
        BY <1>3
    <2>2. IntentInv'
        BY <2>1 DEF IntentInv, Proposals!Intent!TreeFollowsOracle, Proposals!Intent!Goals,
                    Proposals!Intent!Active, FocusIsAsked
    <2>3. ChangeIsAsked
        BY <2>1 DEF ChangeIsAsked, Proposals!Intent!LossWasAsked, Proposals!Intent!RevisedInFocus,
        Proposals!Intent!Goals, Changes
    <2>4. QED
        BY <2>2, <2>3
<1>4. QED
    BY <1>1, <1>2, <1>3, IntentSteps DEF Proposals!Intent!Next

LEMMA IntentAtFirst == ASSUME Init PROVE IntentInv
<1>1. CASE Proposals!Intent!Unused
    BY <1>1 DEF Proposals!Intent!Unused, IntentInv, Proposals!Intent!TreeFollowsOracle
<1>2. CASE Proposals!Intent!Init
    <2>1. oracle = Proposals!Intent!EmptyState /\ tree = Proposals!Intent!EmptyTree
        BY <1>2 DEF Proposals!Intent!Init
    <2>2. /\ tree.goals = Proposals!Intent!EmptyState.values /\ tree.paused = {}
          /\ tree.focus = None /\ tree.ood_pending = FALSE
        BY <2>1 DEF Proposals!Intent!EmptyTree
    <2>3. /\ oracle.values = Proposals!Intent!EmptyState.values /\ oracle.paused = {}
          /\ oracle.focus = None /\ oracle.ood = FALSE
        BY <2>1 DEF Proposals!Intent!EmptyState
    <2>4. oracle \in OracleStates
        BY <2>1 DEF Proposals!Intent!EmptyState, OracleStates, Asked, Spot
    <2>5. Proposals!Intent!TreeFollowsOracle
        BY <2>2, <2>3 DEF Proposals!Intent!TreeFollowsOracle, Proposals!Intent!Goals,
                          Proposals!Intent!Active
    <2>6. QED
        BY <2>1, <2>3, <2>4, <2>5, EmptyTreeIsTree DEF IntentInv, FocusIsAsked
<1>3. QED
    BY <1>1, <1>2, IntentStarts

\* No proposal of any network makes the tree forget what nobody took back, nor
\* revise a goal it does not then speak of; and the tree of a right network asks
\* for the oracle's keys, speaks of the same one with the oracle's value of it,
\* and pauses what the oracle pauses (intent_state_commit.py's commit).
THEOREM TreeAlwaysHolds == Spec => TreeHolds
<1>1. Init => IntentInv
    BY IntentAtFirst
<1>2. IntentInv /\ [Next]_vars => IntentInv'
    BY IntentKept
<1>3. IntentInv /\ [Next]_vars => [Proposals!ChangeWasAsked]_vars
    BY IntentKept DEF Proposals!ChangeWasAsked, ChangeIsAsked
<1>4. IntentInv => Proposals!TreeFollowsOracle
    BY DEF IntentInv, Proposals!TreeFollowsOracle
<1>5. QED
    BY <1>1, <1>2, <1>3, <1>4, PTL DEF Spec, TreeHolds

-----------------------------------------------------------------------------
(* The consumer's projection.                                                *)

LEMMA NoaStarts == Init => Proposals!Noa!Init \/ Proposals!Noa!Unused
BY DEF Init, OneStudy, Proposals!Init, Proposals!Unused

LEMMA NoaSteps == [Next]_vars => Proposals!Noa!Run \/ UNCHANGED <<upstream, inventory, noa>>
<1>1. [Next]_vars => Proposals!Next \/ UNCHANGED proposalVars
    BY ProposalsSteps
<1>2. QED
    BY <1>1 DEF proposalVars, Proposals!Next, Proposals!noaVars, Proposals!Noa!Next

Paths == {"profile", "source_revision", "source_receipt_id", "action.id", "action.canonical",
          "action.paramsHash", "outcome", "approval", "controller_report", "physical_completion"}

LEMMA ChecksAreAllPaths ==
    /\ Proposals!Noa!Range(Proposals!Noa!Checks) = Paths
    /\ \A path \in Paths : \E i \in DOMAIN Proposals!Noa!Checks : Proposals!Noa!Checks[i] = path
<1>1. /\ DOMAIN Proposals!Noa!Checks = 1 .. 10
      /\ Proposals!Noa!Checks[1] = "profile" /\ Proposals!Noa!Checks[2] = "source_revision"
      /\ Proposals!Noa!Checks[3] = "source_receipt_id" /\ Proposals!Noa!Checks[4] = "action.id"
      /\ Proposals!Noa!Checks[5] = "action.canonical" /\ Proposals!Noa!Checks[6] = "action.paramsHash"
      /\ Proposals!Noa!Checks[7] = "outcome" /\ Proposals!Noa!Checks[8] = "approval"
      /\ Proposals!Noa!Checks[9] = "controller_report"
      /\ Proposals!Noa!Checks[10] = "physical_completion"
    BY DEF Proposals!Noa!Checks
<1>2. \A i \in 1 .. 10 : Proposals!Noa!Checks[i] \in Paths
    BY <1>1 DEF Paths
<1>3. \A path \in Paths : \E i \in 1 .. 10 : Proposals!Noa!Checks[i] = path
    BY <1>1 DEF Paths
<1>4. QED
    BY <1>1, <1>2, <1>3 DEF Proposals!Noa!Range

\* A candidate that passes agrees with the source in every field compared.
LEMMA PassAgrees ==
    ASSUME NEW r, NEW candidate,
           Proposals!Noa!ValidateProjection(r, candidate).status = "PASS",
           NEW path \in Paths
    PROVE  candidate[path] = Proposals!Noa!ProjectSource(r)[path]
<1>1. \A i \in DOMAIN Proposals!Noa!Checks :
          candidate[Proposals!Noa!Checks[i]] = Proposals!Noa!ProjectSource(r)[Proposals!Noa!Checks[i]]
    BY DEF Proposals!Noa!ValidateProjection
<1>2. QED
    BY <1>1, ChecksAreAllPaths

\* The fields of the source that a verdict is about.
LEMMA SourceFields ==
    ASSUME NEW r
    PROVE  LET source == Proposals!Noa!ProjectSource(r) IN
           /\ source["action.id"] = r.action.id
           /\ source["action.canonical"] = r.action.canonical
           /\ source["action.paramsHash"] = r.action.paramsHash
           /\ source["outcome"] = r.governance.verdict
           /\ source["approval"] = Proposals!Noa!Approval(r.governance)
           /\ source["controller_report"] = Proposals!Noa!Absent
           /\ source["physical_completion"] = Proposals!Noa!Absent
BY ChecksAreAllPaths DEF Proposals!Noa!ProjectSource, Paths

LEMMA RunUpgradesNothing ==
    ASSUME Proposals!Noa!Run
    PROVE  NothingUpgraded'
<1>1. PICK receipt : receipt = Proposals!Noa!SelectSource(upstream, inventory)
    OBVIOUS
<1>2. \/ noa'.rows = <<>>
      \/ /\ noa'.receipt = receipt
         /\ noa'.rows = [i \in DOMAIN inventory.cases |->
                             Proposals!Noa!Row(receipt, inventory.cases[i])]
    BY <1>1 DEF Proposals!Noa!Run, Proposals!Noa!Report
<1>3. SUFFICES ASSUME NEW i \in DOMAIN noa'.rows, noa'.rows[i].verdict.status = "PASS"
               PROVE  LET c == noa'.rows[i].candidate
                          r == noa'.receipt
                      IN /\ <<c["action.id"], c["action.canonical"]>> = <<r.action.id, r.action.canonical>>
                         /\ c["action.paramsHash"] = r.action.paramsHash
                         /\ c["outcome"] = r.governance.verdict
                         /\ IF "approval" \in DOMAIN r.governance
                            THEN c["approval"] = r.governance.approval
                            ELSE c["approval"] = Proposals!Noa!Absent
                         /\ c["controller_report"] = Proposals!Noa!Absent
                         /\ c["physical_completion"] = Proposals!Noa!Absent
    BY DEF NothingUpgraded, Proposals!NothingUpgraded, Proposals!Noa!NothingUpgraded
<1>4. PICK case : case = inventory.cases[i]
    OBVIOUS
<1>5. /\ noa'.receipt = receipt
      /\ noa'.rows[i] = Proposals!Noa!Row(receipt, case)
    BY <1>2, <1>3, <1>4
<1>6. PICK candidate : candidate = Proposals!Noa!MutateProjection(
                                        Proposals!Noa!ProjectSource(receipt), case.mutation)
    OBVIOUS
<1>7. /\ noa'.rows[i].candidate = candidate
      /\ noa'.rows[i].verdict = Proposals!Noa!ValidateProjection(receipt, candidate)
    BY <1>5, <1>6 DEF Proposals!Noa!Row
<1>8. \A path \in Paths : candidate[path] = Proposals!Noa!ProjectSource(receipt)[path]
    BY <1>3, <1>7, PassAgrees
<1>9. QED
    BY <1>5, <1>7, <1>8, SourceFields DEF Paths, Proposals!Noa!Approval

\* For any receipts, mutations and expected verdicts: what the probe lets
\* through claims what the receipt claims (validate_projection() in
\* noa_consumer_semantics_probe.py).
THEOREM NothingIsEverUpgraded == Spec => []NothingUpgraded
<1>1. Init => NothingUpgraded
    BY NoaStarts DEF Proposals!Noa!Init, Proposals!Noa!Unused, NothingUpgraded,
                     Proposals!NothingUpgraded, Proposals!Noa!NothingUpgraded
<1>2. NothingUpgraded /\ [Next]_vars => NothingUpgraded'
    <2>1. CASE Proposals!Noa!Run
        BY <2>1, RunUpgradesNothing
    <2>2. NothingUpgraded /\ UNCHANGED <<upstream, inventory, noa>> => NothingUpgraded'
        BY DEF NothingUpgraded, Proposals!NothingUpgraded, Proposals!Noa!NothingUpgraded
    <2>3. QED
        BY <2>1, <2>2, NoaSteps
<1>3. QED
    BY <1>1, <1>2, PTL DEF Spec

-----------------------------------------------------------------------------
(* The judges of proposals: the accuracy gate and the reasoner's benchmark.  *)

LEMMA RolloutStarts == Init => Proposals!Rollout!Init \/ Proposals!Rollout!Unused
BY DEF Init, OneStudy, Proposals!Init, Proposals!Unused

LEMMA RolloutSteps ==
    [Next]_vars => Proposals!Rollout!Next \/ UNCHANGED <<suite, expected, held, judged, verdict>>
<1>1. [Next]_vars => Proposals!Next \/ UNCHANGED proposalVars
    BY ProposalsSteps
<1>2. QED
    BY <1>1 DEF proposalVars, Proposals!Next, Proposals!rolloutVars

\* A ratio at all is one of a class that has rows.
LEMMA MeanHasRows ==
    ASSUME NEW right, NEW of, Proposals!Rollout!Mean(right, of) # None
    PROVE  of # {}
BY DEF Proposals!Rollout!Mean

LEMMA AssessedClasses ==
    ASSUME NEW pairs, NEW t,
           Proposals!Rollout!Assess(Proposals!Rollout!Metrics(pairs), t)
    PROVE  /\ \E i \in DOMAIN pairs : pairs[i].gold.ref = "focus_coreference"
           /\ \E i \in DOMAIN pairs : pairs[i].gold.op = "retract"
           /\ \E i \in DOMAIN pairs : pairs[i].gold.count > 1
           /\ \E i \in DOMAIN pairs : pairs[i].gold.op = "ood"
           /\ \E i \in DOMAIN pairs : Proposals!Rollout!Valued(pairs[i].gold)
<1>1. \A key \in {"coreference", "retraction", "multi", "ood", "value"} :
          Proposals!Rollout!Metrics(pairs)[key] # None
    BY DEF Proposals!Rollout!Assess, Proposals!Rollout!Metrics
<1>2. \E i \in DOMAIN pairs : pairs[i].gold.ref = "focus_coreference"
    BY <1>1, MeanHasRows DEF Proposals!Rollout!Metrics
<1>3. \E i \in DOMAIN pairs : pairs[i].gold.op = "retract"
    BY <1>1, MeanHasRows DEF Proposals!Rollout!Metrics
<1>4. \E i \in DOMAIN pairs : pairs[i].gold.count > 1
    BY <1>1, MeanHasRows DEF Proposals!Rollout!Metrics
<1>5. \E i \in DOMAIN pairs : pairs[i].gold.op = "ood"
    BY <1>1, MeanHasRows DEF Proposals!Rollout!Metrics
<1>6. \E i \in DOMAIN pairs : Proposals!Rollout!Valued(pairs[i].gold)
    BY <1>1, MeanHasRows DEF Proposals!Rollout!Metrics
<1>7. QED
    BY <1>2, <1>3, <1>4, <1>5, <1>6

LEMMA GatePassesClasses ==
    ASSUME Proposals!Rollout!AccuracyGate
    PROVE  Proposals!Rollout!PassedOnEveryClass'
<1> DEFINE pairs == [i \in DOMAIN judged |->
                        [pred |-> judged[i].taught.vector, gold |-> judged[i].gold]]
<1>1. SUFFICES ASSUME verdict'.passed
               PROVE  LET golds == {judged[i].gold : i \in DOMAIN judged}
                      IN /\ \E g \in golds : g.ref = "focus_coreference"
                         /\ \E g \in golds : g.op = "retract"
                         /\ \E g \in golds : g.count > 1
                         /\ \E g \in golds : g.op = "ood"
                         /\ \E g \in golds : Proposals!Rollout!Valued(g)
    BY DEF Proposals!Rollout!AccuracyGate, Proposals!Rollout!PassedOnEveryClass
<1>2. \E t \in Thresholds : Proposals!Rollout!Assess(Proposals!Rollout!Metrics(pairs), t)
    <2> DEFINE Judged(p, t) == Proposals!Rollout!Assess(Proposals!Rollout!Metrics(p), t)
               raw   == [i \in DOMAIN judged |->
                            [pred |-> judged[i].taught.raw, gold |-> judged[i].gold]]
               own   == [i \in DOMAIN judged |->
                            [pred |-> judged[i].own.vector, gold |-> judged[i].gold]]
               exact == <<Proposals!Rollout!Cardinality({i \in DOMAIN judged : judged[i].exact}),
                          Len(judged)>>
    <2>1. \E t \in Thresholds :
              verdict' = [threshold |-> t,
                          passed    |-> /\ Judged(pairs, t) /\ Judged(raw, t) /\ Judged(own, t)
                                        /\ Proposals!Rollout!AtLeast(exact, t)]
        BY Zenon DEF Proposals!Rollout!AccuracyGate
    <2> HIDE DEF raw, own, exact, pairs, Judged
    <2>2. \E t \in Thresholds : Judged(pairs, t)
        BY <1>1, <2>1
    <2>3. QED
        BY <2>2 DEF Judged
<1>3. PICK p : p = pairs
    OBVIOUS
<1>4. /\ \E i \in DOMAIN p : p[i].gold.ref = "focus_coreference"
      /\ \E i \in DOMAIN p : p[i].gold.op = "retract"
      /\ \E i \in DOMAIN p : p[i].gold.count > 1
      /\ \E i \in DOMAIN p : p[i].gold.op = "ood"
      /\ \E i \in DOMAIN p : Proposals!Rollout!Valued(p[i].gold)
    <2> HIDE DEF pairs
    <2>1. QED
        BY <1>2, <1>3, AssessedClasses
<1>5. DOMAIN p = DOMAIN judged /\ \A i \in DOMAIN judged : p[i].gold = judged[i].gold
    BY <1>3
<1>6. QED
    BY <1>4, <1>5

\* Once judged, a suite gets no more answers.
LEMMA StepKeepsPassed ==
    ASSUME Proposals!Rollout!PassedOnEveryClass, [Next]_vars
    PROVE  Proposals!Rollout!PassedOnEveryClass'
<1>1. CASE Proposals!Rollout!Answer
    BY <1>1 DEF Proposals!Rollout!Answer, Proposals!Rollout!PassedOnEveryClass
<1>2. CASE UNCHANGED <<suite, expected, held, judged, verdict>>
    BY <1>2 DEF Proposals!Rollout!PassedOnEveryClass
<1>3. QED
    BY <1>1, <1>2, GatePassesClasses, RolloutSteps DEF Proposals!Rollout!Next

LEMMA ReasonerStarts == Init => Proposals!Reasoner!Init \/ Proposals!Reasoner!Unused
BY DEF Init, OneStudy, Proposals!Init, Proposals!Unused

LEMMA ReasonerSteps ==
    [Next]_vars => \/ questions # None /\ Proposals!Reasoner!Next
                   \/ UNCHANGED <<questions, scored, summary>>
<1>1. [Next]_vars => Proposals!Next \/ UNCHANGED proposalVars
    BY ProposalsSteps
<1>2. QED
    BY <1>1 DEF proposalVars, Proposals!Next, Proposals!reasonerVars

\* What a row may be for these questions.
ScoredRows == [id : {questions[i].id : i \in DOMAIN questions},
               proposal : {r.proposal : r \in Replies \ {None}}, pass : BOOLEAN]

\* A row is about the question at its place, and a written summary counts the
\* rows that passed, one row for each question.
RowsFollow ==
    questions # None =>
        /\ questions \in CaseFiles
        /\ scored \in Seq(ScoredRows) /\ Len(scored) <= Len(questions)
        /\ \A i \in DOMAIN scored :
              /\ scored[i].id = questions[i].id
              /\ scored[i].pass = Proposals!Reasoner!Pass(scored[i].proposal, questions[i].expect)

SummaryCounts ==
    questions # None /\ summary # None /\ summary.status = "written" =>
        /\ Len(scored) = Len(questions)
        /\ summary.passed = Cardinality({i \in DOMAIN scored : scored[i].pass})

ReasonerInv == RowsFollow /\ SummaryCounts /\ (questions = None => summary = None)

LEMMA QuestionsList ==
    ASSUME NEW file \in CaseFiles
    PROVE  file \in Seq({file[i] : i \in DOMAIN file})
BY CaseFilesAssumption DEF CaseFilesAssumption

LEMMA SameCardinality ==
    ASSUME NEW S
    PROVE  Proposals!Reasoner!Cardinality(S) = Cardinality(S)
BY DEF Proposals!Reasoner!Cardinality, Cardinality

\* Only an answer of the endpoint becomes a proposal.
LEMMA ProposalIsReplied ==
    ASSUME NEW context, NEW reply \in Replies,
           Proposals!Reasoner!Propose(context, reply) # None
    PROVE  Proposals!Reasoner!Propose(context, reply) \in {r.proposal : r \in Replies \ {None}}
BY DEF Proposals!Reasoner!Propose

LEMMA AskKeeps ==
    ASSUME ReasonerInv, questions # None, Proposals!Reasoner!Ask
    PROVE  ReasonerInv'
<1>1. PICK case : case = questions[Len(scored) + 1]
    OBVIOUS
<1>2. PICK reply \in Replies :
          LET p == Proposals!Reasoner!Propose(Proposals!Reasoner!ContextFor(case), reply) IN
          IF p = None
          THEN /\ summary' = [status |-> "raised", cases |-> 0, passed |-> 0]
               /\ scored' = scored
          ELSE /\ scored' = Append(scored, [id |-> case.id, proposal |-> p,
                                            pass |-> Proposals!Reasoner!Pass(p, case.expect)])
               /\ summary' = summary
    BY <1>1 DEF Proposals!Reasoner!Ask
<1>3. PICK p : p = Proposals!Reasoner!Propose(Proposals!Reasoner!ContextFor(case), reply)
    OBVIOUS
<1>4. questions' = questions /\ summary = None /\ Len(scored) < Len(questions)
    BY DEF Proposals!Reasoner!Ask
<1>5. ScoredRows' = ScoredRows
    BY <1>4 DEF ScoredRows
<1>6. CASE p = None
    <2>1. summary'.status # "written" /\ scored' = scored
        BY <1>2, <1>3, <1>6
    <2>2. QED
        BY <1>4, <1>5, <2>1 DEF ReasonerInv, RowsFollow, SummaryCounts
<1>7. CASE p # None
    <2> DEFINE new == [id |-> case.id, proposal |-> p, pass |-> Proposals!Reasoner!Pass(p, case.expect)]
    <2>1. scored' = Append(scored, new) /\ summary' = None
        BY <1>2, <1>3, <1>4, <1>7
    <2>2. /\ questions \in Seq({questions[i] : i \in DOMAIN questions})
          /\ scored \in Seq(ScoredRows)
        BY QuestionsList DEF ReasonerInv, RowsFollow
    <2>3. Len(scored) + 1 \in DOMAIN questions
        BY <1>4, <2>2
    <2>4. new \in ScoredRows
        <3>1. case.id \in {questions[i].id : i \in DOMAIN questions}
            BY <1>1, <2>3
        <3>2. p \in {r.proposal : r \in Replies \ {None}}
            BY <1>3, <1>7, ProposalIsReplied
        <3>3. Proposals!Reasoner!Pass(p, case.expect) \in BOOLEAN
            BY DEF Proposals!Reasoner!Pass
        <3>4. QED
            BY <3>1, <3>2, <3>3 DEF ScoredRows
    <2>5. /\ new.id = case.id /\ new.proposal = p
          /\ new.pass = Proposals!Reasoner!Pass(p, case.expect)
        OBVIOUS
    <2> HIDE DEF new
    <2>6. /\ scored' \in Seq(ScoredRows) /\ Len(scored') = Len(scored) + 1
          /\ \A i \in 1 .. Len(scored) : scored'[i] = scored[i]
          /\ scored'[Len(scored) + 1] = new
        BY <2>1, <2>2, <2>4
    <2>7. Len(scored') <= Len(questions)
        BY <1>4, <2>2, <2>6
    <2>8. ASSUME NEW i \in DOMAIN scored'
          PROVE  /\ scored'[i].id = questions[i].id
                 /\ scored'[i].pass = Proposals!Reasoner!Pass(scored'[i].proposal, questions[i].expect)
        <3>1. CASE i = Len(scored) + 1
            BY <1>1, <2>5, <2>6, <3>1
        <3>2. CASE i \in DOMAIN scored
            BY <2>2, <2>6, <3>2 DEF ReasonerInv, RowsFollow
        <3>3. QED
            BY <2>2, <2>6, <3>1, <3>2
    <2>9. QED
        BY <1>4, <1>5, <2>1, <2>6, <2>7, <2>8 DEF ReasonerInv, RowsFollow, SummaryCounts
<1>8. QED
    BY <1>6, <1>7

LEMMA SummariseKeeps ==
    ASSUME ReasonerInv, questions # None, Proposals!Reasoner!Summarise
    PROVE  ReasonerInv'
<1>1. /\ questions' = questions /\ scored' = scored /\ Len(scored) = Len(questions)
      /\ summary'.passed = Proposals!Reasoner!Cardinality({i \in DOMAIN scored : scored[i].pass})
    BY DEF Proposals!Reasoner!Summarise
<1>2. summary'.passed = Cardinality({i \in DOMAIN scored : scored[i].pass})
    BY <1>1, SameCardinality
<1>3. QED
    BY <1>1, <1>2 DEF ReasonerInv, RowsFollow, SummaryCounts, ScoredRows

LEMMA StepKeepsReasoner ==
    ASSUME ReasonerInv, [Next]_vars
    PROVE  ReasonerInv'
<1>1. CASE UNCHANGED <<questions, scored, summary>>
    BY <1>1 DEF ReasonerInv, RowsFollow, SummaryCounts, ScoredRows
<1>2. QED
    BY <1>1, AskKeeps, SummariseKeeps, ReasonerSteps DEF Proposals!Reasoner!Next

\* When all of n rows are counted, each of them passed.
LEMMA AllCounted ==
    ASSUME NEW n \in Nat, NEW S \in SUBSET (1 .. n), Cardinality(S) = n
    PROVE  S = 1 .. n
<1>1. IsFiniteSet(1 .. n) /\ Cardinality(1 .. n) = n
    BY FS_Interval
<1>2. QED
    BY <1>1, FS_Subset

LEMMA FullMarks == ReasonerInv => Proposals!Reasoner!FullMarksAreEarned
<1>1. SUFFICES ASSUME ReasonerInv, summary # None, summary.status = "written",
                      summary.passed = Len(questions), NEW i \in DOMAIN questions
               PROVE  LET p == scored[i].proposal IN
                      /\ scored[i].id = questions[i].id
                      /\ questions[i].expect.safe_for_commit <=>
                            /\ p.commit_recommendation = "PROPOSE"
                            /\ Proposals!Reasoner!Ambiguity(p) = {}
    BY DEF Proposals!Reasoner!FullMarksAreEarned
<1>2. questions # None
    BY <1>1 DEF ReasonerInv
<1>3. /\ questions \in Seq({questions[j] : j \in DOMAIN questions})
      /\ scored \in Seq(ScoredRows) /\ Len(scored) = Len(questions)
    BY <1>1, <1>2, QuestionsList DEF ReasonerInv, RowsFollow, SummaryCounts
<1>4. {j \in DOMAIN scored : scored[j].pass} = 1 .. Len(questions)
    <2>1. Cardinality({j \in DOMAIN scored : scored[j].pass}) = Len(questions)
        BY <1>1, <1>2 DEF ReasonerInv, SummaryCounts
    <2>2. {j \in DOMAIN scored : scored[j].pass} \in SUBSET (1 .. Len(questions))
        BY <1>3
    <2>3. Len(questions) \in Nat
        BY <1>3
    <2>4. QED
        BY <2>1, <2>2, <2>3, AllCounted
<1>5. i \in DOMAIN scored /\ scored[i].pass
    BY <1>3, <1>4
<1>6. PICK p, expect : p = scored[i].proposal /\ expect = questions[i].expect
    OBVIOUS
<1>7. /\ scored[i].id = questions[i].id
      /\ Proposals!Reasoner!Pass(p, expect)
    BY <1>1, <1>2, <1>5, <1>6 DEF ReasonerInv, RowsFollow
<1>8. Proposals!Reasoner!SafeForCommit(p) = expect.safe_for_commit
    BY <1>7 DEF Proposals!Reasoner!Pass
<1>9. QED
    BY <1>6, <1>7, <1>8 DEF Proposals!Reasoner!SafeForCommit

LEMMA ReasonerInit == Init => ReasonerInv
<1>1. CASE Proposals!Reasoner!Unused
    BY <1>1 DEF Proposals!Reasoner!Unused, ReasonerInv, RowsFollow, SummaryCounts
<1>2. CASE Proposals!Reasoner!Init
    <2>1. questions \in CaseFiles /\ scored = <<>> /\ summary = None
        BY <1>2 DEF Proposals!Reasoner!Init
    <2>2. PICK file \in CaseFiles : file = questions
        BY <2>1
    <2>3. Len(questions) \in Nat
        BY <2>2, QuestionsList
    <2>4. scored \in Seq(ScoredRows) /\ Len(scored) = 0 /\ DOMAIN scored = {}
        BY <2>1
    <2>5. QED
        BY <2>1, <2>3, <2>4 DEF ReasonerInv, RowsFollow, SummaryCounts
<1>3. QED
    BY <1>1, <1>2, ReasonerStarts

\* Whatever a network or an endpoint answers: what the two judges pass was
\* asked (accuracy_gate.py, evaluate_reasoning_backends.py).
THEOREM VerdictsAreAlwaysEarned == Spec => []VerdictsAreEarned
<1>1. Init => ReasonerInv /\ Proposals!Rollout!PassedOnEveryClass
    <2>1. Proposals!Rollout!Init \/ Proposals!Rollout!Unused => Proposals!Rollout!PassedOnEveryClass
        BY DEF Proposals!Rollout!Init, Proposals!Rollout!Unused,
               Proposals!Rollout!PassedOnEveryClass
    <2>2. QED
        BY <2>1, ReasonerInit, RolloutStarts
<1>2. /\ ReasonerInv /\ Proposals!Rollout!PassedOnEveryClass /\ [Next]_vars
      => (ReasonerInv /\ Proposals!Rollout!PassedOnEveryClass)'
    BY StepKeepsReasoner, StepKeepsPassed
<1>3. ReasonerInv /\ Proposals!Rollout!PassedOnEveryClass => VerdictsAreEarned
    BY FullMarks DEF VerdictsAreEarned, Proposals!VerdictsAreEarned
<1>4. QED
    BY <1>1, <1>2, <1>3, PTL DEF Spec

-----------------------------------------------------------------------------
(* The decision gate.                                                        *)

\* A set of numbers that is not empty has a least one.
LEMMA Least ==
    ASSUME NEW S \in SUBSET Nat, S # {}
    PROVE  \E x \in S : \A y \in S : x <= y
<1> DEFINE R == OpToRel(<, Nat)
<1>1. \A x, y \in Nat : x < y => <<x, y>> \in R
    BY DEF OpToRel
<1> HIDE DEF R
<1>2. IsWellFoundedOn(R, Nat)
    BY NatLessThanWellFounded DEF R
<1>3. PICK x \in S : \A y \in S : ~(<<y, x>> \in R)
    BY <1>2, WFMin
<1>4. \A y \in S : ~(y < x)
    BY <1>1, <1>3
<1>5. QED
    BY <1>4

\* The heads a network answers with.
GateHeads == {"op", "count", "ref", "target", "value", "second"}

LEMMA GateCardinality ==
    ASSUME NEW S
    PROVE  Gate!Cardinality(S) = Cardinality(S)
BY DEF Gate!Cardinality, Cardinality

LEMMA GateMin ==
    ASSUME NEW S \in SUBSET Nat, S # {}
    PROVE  Gate!Min(S) \in S /\ \A y \in S : Gate!Min(S) <= y
BY Least DEF Gate!Min

RowsFit(r) == IsFiniteSet(DOMAIN r) /\ \A i \in DOMAIN r : r[i].confidence \in Nat

\* What a sweep has summed up at these levels, and which of them it could stop at.
RowsAt(r, L) == {i \in DOMAIN r : r[i].confidence \in L}
SweptOver(r, L) == [threshold |-> IF L = {} THEN None ELSE Gate!Min(L),
                    committed |-> Cardinality(RowsAt(r, L)), correct |-> Gate!Correct(r, RowsAt(r, L))]
LevelsFrom(L, t) == {u \in L : u >= t}
IsPrecise(sum) == Gate!Precise(sum.correct, sum.committed)
Stops(r, L) == {t \in L : IsPrecise(SweptOver(r, LevelsFrom(L, t)))}
BestStop(r, L) == IF Stops(r, L) = {} THEN Gate!NoGate
                  ELSE SweptOver(r, LevelsFrom(L, Gate!Min(Stops(r, L))))

\* One group more.
SweepStep(r, f, L) ==
    IF L = {} THEN [sum |-> Gate!NoGate, best |-> Gate!NoGate]
    ELSE LET before == f[L \ {Gate!Min(L)}]
             now == Gate!WithGroup(r, before.sum, Gate!Min(L))
         IN [sum |-> now,
             best |-> IF Gate!Precise(now.correct, now.committed) THEN now ELSE before.best]

IsSweep(r, f) == f = [L \in SUBSET Gate!Levels(r) |-> SweepStep(r, f, L)]

LEMMA CountsOfRows ==
    ASSUME NEW r, RowsFit(r), NEW I \in SUBSET DOMAIN r
    PROVE  /\ IsFiniteSet(I) /\ Cardinality(I) \in Nat
           /\ Gate!Correct(r, I) = Cardinality({i \in I : r[i].exact})
           /\ Gate!Correct(r, I) \in Nat
<1>1. IsFiniteSet(I) /\ Cardinality(I) \in Nat
    BY FS_Subset, FS_CardinalityType DEF RowsFit
<1>2. IsFiniteSet({i \in I : r[i].exact}) /\ Cardinality({i \in I : r[i].exact}) \in Nat
    BY <1>1, FS_Subset, FS_CardinalityType
<1>3. Gate!Correct(r, I) = Cardinality({i \in I : r[i].exact})
    BY GateCardinality DEF Gate!Correct
<1>4. QED
    BY <1>1, <1>2, <1>3

LEMMA DisjointCounts ==
    ASSUME NEW r, RowsFit(r), NEW I \in SUBSET DOMAIN r, NEW J \in SUBSET DOMAIN r, I \cap J = {}
    PROVE  /\ Cardinality(I \cup J) = Cardinality(I) + Cardinality(J)
           /\ Gate!Correct(r, I \cup J) = Gate!Correct(r, I) + Gate!Correct(r, J)
<1> DEFINE X(K) == {i \in K : r[i].exact}
<1>1. IsFiniteSet(I) /\ IsFiniteSet(J) /\ Cardinality(I) \in Nat /\ Cardinality(J) \in Nat
    BY CountsOfRows
<1>2. Cardinality(I \cup J) = Cardinality(I) + Cardinality(J)
    <2>1. Cardinality(I \cap J) = 0
        BY FS_EmptySet
    <2>2. Cardinality(I \cup J) = Cardinality(I) + Cardinality(J) - Cardinality(I \cap J)
        BY <1>1, FS_Union
    <2>3. QED
        BY <1>1, <2>1, <2>2
<1>3. Cardinality(X(I \cup J)) = Cardinality(X(I)) + Cardinality(X(J))
    <2>1. X(I \cup J) = X(I) \cup X(J) /\ X(I) \cap X(J) = {}
        OBVIOUS
    <2>2. IsFiniteSet(X(I)) /\ IsFiniteSet(X(J))
        BY <1>1, FS_Subset
    <2>3. Cardinality(X(I)) \in Nat /\ Cardinality(X(J)) \in Nat
        BY <2>2, FS_CardinalityType
    <2>4. Cardinality(X(I) \cap X(J)) = 0
        BY <2>1, FS_EmptySet
    <2>5. PICK A, B : A = X(I) /\ B = X(J)
        OBVIOUS
    <2>6. Cardinality(A \cup B) = Cardinality(A) + Cardinality(B) - Cardinality(A \cap B)
        BY <2>2, <2>5, FS_Union
    <2>7. Cardinality(A \cup B) = Cardinality(A) + Cardinality(B)
        <3> HIDE DEF X
        <3>1. QED
            BY <2>3, <2>4, <2>5, <2>6
    <2>8. X(I \cup J) = A \cup B
        BY <2>1, <2>5
    <2> HIDE DEF X
    <2>9. QED
        BY <2>5, <2>7, <2>8
<1>4. QED
    BY <1>2, <1>3, CountsOfRows

\* The first level is the highest, and so on down: adding the lowest level is one step.
LEMMA SweepOneMore ==
    ASSUME NEW r, RowsFit(r), NEW L \in SUBSET Gate!Levels(r), L # {},
           NEW t, t = Gate!Min(L), NEW K, K = L \ {t}
    PROVE  /\ SweptOver(r, L) = Gate!WithGroup(r, SweptOver(r, K), t)
           /\ BestStop(r, L) = IF IsPrecise(SweptOver(r, L)) THEN SweptOver(r, L)
                               ELSE BestStop(r, K)
<1>1. L \in SUBSET Nat
    BY DEF RowsFit, Gate!Levels
<1>2. t \in L /\ \A u \in L : t <= u
    BY <1>1, GateMin
<1> DEFINE group == {i \in DOMAIN r : r[i].confidence = t}
<1>3. SweptOver(r, L) = Gate!WithGroup(r, SweptOver(r, K), t)
    <2>1. RowsAt(r, L) = RowsAt(r, K) \cup group /\ RowsAt(r, K) \cap group = {}
        BY <1>2 DEF RowsAt
    <2>2. RowsAt(r, K) \in SUBSET DOMAIN r /\ group \in SUBSET DOMAIN r
        BY DEF RowsAt
    <2>3. Gate!WithGroup(r, SweptOver(r, K), t)
            = [threshold |-> t, committed |-> Cardinality(RowsAt(r, K)) + Cardinality(group),
               correct |-> Gate!Correct(r, RowsAt(r, K)) + Gate!Correct(r, group)]
        BY GateCardinality DEF Gate!WithGroup, SweptOver
    <2> HIDE DEF group
    <2>4. PICK A, B : A = RowsAt(r, K) /\ B = group
        OBVIOUS
    <2>5. A \in SUBSET DOMAIN r /\ B \in SUBSET DOMAIN r /\ A \cap B = {}
        BY <2>1, <2>2, <2>4
    <2>6. /\ Cardinality(A \cup B) = Cardinality(A) + Cardinality(B)
          /\ Gate!Correct(r, A \cup B) = Gate!Correct(r, A) + Gate!Correct(r, B)
        BY <2>5, DisjointCounts
    <2>7. RowsAt(r, L) = A \cup B
        BY <2>1, <2>4
    <2>8. /\ Cardinality(RowsAt(r, L)) = Cardinality(RowsAt(r, K)) + Cardinality(group)
          /\ Gate!Correct(r, RowsAt(r, L)) = Gate!Correct(r, RowsAt(r, K)) + Gate!Correct(r, group)
        BY <2>4, <2>6, <2>7
    <2>9. QED
        BY <1>2, <2>3, <2>8 DEF SweptOver
<1>4. LevelsFrom(L, t) = L
    BY <1>2 DEF LevelsFrom
<1>5. \A u \in K : LevelsFrom(L, u) = LevelsFrom(K, u)
    <2>1. \A u \in K : u \in Nat /\ t \in Nat /\ t <= u /\ t # u
        BY <1>1, <1>2
    <2>2. QED
        BY <2>1 DEF LevelsFrom
<1>6. Stops(r, L) = Stops(r, K) \cup (IF IsPrecise(SweptOver(r, L)) THEN {t} ELSE {})
    BY <1>2, <1>4, <1>5 DEF Stops
<1>7. CASE IsPrecise(SweptOver(r, L))
    <2>1. t \in Stops(r, L) /\ Stops(r, L) \in SUBSET Nat /\ \A u \in Stops(r, L) : t <= u
        BY <1>1, <1>2, <1>6, <1>7 DEF Stops
    <2>2. Gate!Min(Stops(r, L)) \in Stops(r, L) /\ Gate!Min(Stops(r, L)) <= t
        BY <2>1, GateMin
    <2>3. Gate!Min(Stops(r, L)) = t
        BY <2>1, <2>2
    <2>4. BestStop(r, L) = SweptOver(r, LevelsFrom(L, t))
        BY <2>1, <2>3 DEF BestStop
    <2>5. QED
        BY <1>3, <1>4, <1>7, <2>4
<1>8. CASE ~IsPrecise(SweptOver(r, L))
    <2>1. Stops(r, L) = Stops(r, K)
        BY <1>6, <1>8
    <2>2. Stops(r, K) # {} => Gate!Min(Stops(r, K)) \in K
        <3>1. Stops(r, K) \in SUBSET Nat /\ Stops(r, K) \subseteq K
            BY <1>1 DEF Stops
        <3>2. QED
            BY <3>1, GateMin
    <2>3. Stops(r, K) # {} => LevelsFrom(L, Gate!Min(Stops(r, K))) = LevelsFrom(K, Gate!Min(Stops(r, K)))
        BY <1>5, <2>2
    <2>4. BestStop(r, L) = BestStop(r, K)
        BY <2>1, <2>3 DEF BestStop
    <2>5. QED
        BY <1>3, <1>8, <2>4
<1>9. QED
    BY <1>3, <1>7, <1>8

\* So there is a sweep,
LEMMA ASweep ==
    ASSUME NEW r, RowsFit(r)
    PROVE  IsSweep(r, [L \in SUBSET Gate!Levels(r) |->
                         [sum |-> SweptOver(r, L), best |-> BestStop(r, L)]])
<1> DEFINE g == [L \in SUBSET Gate!Levels(r) |->
                   [sum |-> SweptOver(r, L), best |-> BestStop(r, L)]]
<1>1. ASSUME NEW L \in SUBSET Gate!Levels(r)
      PROVE  g[L] = SweepStep(r, g, L)
    <2>1. CASE L = {}
        <3>1. RowsAt(r, {}) = {} /\ Stops(r, {}) = {}
            BY DEF RowsAt, Stops
        <3>2. Gate!Correct(r, {}) = 0 /\ Cardinality({}) = 0
            <4>1. {i \in {} : r[i].exact} = {}
                OBVIOUS
            <4>2. QED
                BY <4>1, CountsOfRows, FS_EmptySet
        <3>3. SweptOver(r, {}) = Gate!NoGate /\ BestStop(r, {}) = Gate!NoGate
            BY <3>1, <3>2 DEF SweptOver, BestStop, Gate!NoGate
        <3>4. QED
            BY <2>1, <3>3 DEF SweepStep
    <2>2. CASE L # {}
        <3>1. PICK t : t = Gate!Min(L)
            OBVIOUS
        <3>2. PICK K : K = L \ {t}
            OBVIOUS
        <3>3. K \in SUBSET Gate!Levels(r)
            BY <3>2
        <3>4. g[K] = [sum |-> SweptOver(r, K), best |-> BestStop(r, K)]
            BY <3>3
        <3>5. /\ SweptOver(r, L) = Gate!WithGroup(r, SweptOver(r, K), t)
              /\ BestStop(r, L) = IF IsPrecise(SweptOver(r, L)) THEN SweptOver(r, L)
                                  ELSE BestStop(r, K)
            BY <2>2, <3>1, <3>2, SweepOneMore
        <3>6. g[L] = [sum |-> SweptOver(r, L), best |-> BestStop(r, L)]
            OBVIOUS
        <3> HIDE DEF g
        <3>7. QED
            BY <2>2, <3>1, <3>2, <3>4, <3>5, <3>6 DEF SweepStep, IsPrecise
    <2>3. QED
        BY <2>1, <2>2
<1>2. g = [L \in SUBSET Gate!Levels(r) |-> SweepStep(r, g, L)]
    <2>1. g = [L \in SUBSET Gate!Levels(r) |-> g[L]]
        OBVIOUS
    <2> HIDE DEF g
    <2>2. QED
        BY <1>1, <2>1
<1>3. QED
    BY <1>2 DEF IsSweep

\* and only one: two that differ differ at some smallest set of levels.
LEMMA OneSweep ==
    ASSUME NEW r, RowsFit(r), NEW f, NEW g, IsSweep(r, f), IsSweep(r, g),
           NEW L \in SUBSET Gate!Levels(r)
    PROVE  f[L] = g[L]
<1> DEFINE All == SUBSET Gate!Levels(r)
           Differ == {n \in Nat : \E M \in All : f[M] # g[M] /\ Cardinality(M) = n}
<1>1. IsFiniteSet(Gate!Levels(r))
    <2> DEFINE level == [i \in DOMAIN r |-> r[i].confidence]
    <2>1. level \in Surjection(DOMAIN r, Gate!Levels(r))
        BY DEF Gate!Levels, Surjection
    <2> HIDE DEF level
    <2>2. QED
        BY <2>1, FS_Surjection DEF RowsFit
<1>2. \A M \in All : IsFiniteSet(M) /\ Cardinality(M) \in Nat
    BY <1>1, FS_Subset, FS_CardinalityType
<1>3. SUFFICES ASSUME f[L] # g[L] PROVE FALSE
    OBVIOUS
<1>4. Differ \in SUBSET Nat /\ Differ # {}
    BY <1>2, <1>3
<1>5. PICK n \in Differ : \A m \in Differ : n <= m
    <2> HIDE DEF Differ
    <2>1. QED
        BY <1>4, Least
<1>6. PICK M \in All : f[M] # g[M] /\ Cardinality(M) = n
    OBVIOUS
<1>7. f[M] = SweepStep(r, f, M) /\ g[M] = SweepStep(r, g, M)
    BY DEF IsSweep
<1>8. M # {}
    BY <1>6, <1>7 DEF SweepStep
<1>9. PICK t : t = Gate!Min(M)
    OBVIOUS
<1>10. t \in M
    <2>1. M \in SUBSET Nat
        BY DEF RowsFit, Gate!Levels
    <2>2. QED
        BY <1>8, <1>9, <2>1, GateMin
<1>11. M \ {t} \in All /\ Cardinality(M \ {t}) = n - 1 /\ n \in Nat
    BY <1>2, <1>4, <1>6, <1>10, FS_RemoveElement
<1>12. f[M \ {t}] = g[M \ {t}]
    <2>1. CASE f[M \ {t}] # g[M \ {t}]
        <3>1. n - 1 \in Differ
            BY <1>2, <1>11, <2>1
        <3>2. QED
            BY <1>5, <1>11, <3>1
    <2>2. QED
        BY <2>1
<1>13. QED
    BY <1>6, <1>7, <1>8, <1>9, <1>12 DEF SweepStep

\* The gate is the lowest level the sweep could stop at.
LEMMA CoverageIsBestStop ==
    ASSUME NEW r, RowsFit(r)
    PROVE  Gate!CoverageAtPrecision(r) = BestStop(r, Gate!Levels(r))
<1> DEFINE f == CHOOSE f : f = [L \in SUBSET Gate!Levels(r) |-> SweepStep(r, f, L)]
           g == [L \in SUBSET Gate!Levels(r) |->
                   [sum |-> SweptOver(r, L), best |-> BestStop(r, L)]]
<1>1. Gate!CoverageAtPrecision(r) = f[Gate!Levels(r)].best
    BY DEF Gate!CoverageAtPrecision, SweepStep
<1>2. IsSweep(r, g)
    BY ASweep
<1>3. IsSweep(r, f)
    BY <1>2 DEF IsSweep
<1>4. Gate!Levels(r) \in SUBSET Gate!Levels(r)
    OBVIOUS
<1>5. g[Gate!Levels(r)].best = BestStop(r, Gate!Levels(r))
    OBVIOUS
<1> HIDE DEF f, g
<1>6. f[Gate!Levels(r)] = g[Gate!Levels(r)]
    BY <1>2, <1>3, <1>4, OneSweep
<1>7. QED
    BY <1>1, <1>5, <1>6

\* Cutting at a level commits what the sweep has committed when it is there.
LEMMA CutAtLevel ==
    ASSUME NEW r, RowsFit(r), NEW t \in Gate!Levels(r)
    PROVE  Gate!FixedThreshold(r, t) = SweptOver(r, LevelsFrom(Gate!Levels(r), t))
<1> DEFINE L == LevelsFrom(Gate!Levels(r), t)
           committed == {i \in DOMAIN r : t # None /\ r[i].confidence >= t}
<1>1. Gate!Levels(r) \in SUBSET Nat
    BY DEF RowsFit, Gate!Levels
<1>2. t # None
    BY <1>1, RowsAssumption
<1>3. committed = RowsAt(r, L)
    BY <1>2 DEF RowsAt, LevelsFrom, Gate!Levels
<1>4. t \in L /\ L \in SUBSET Nat /\ \A u \in L : t <= u
    BY <1>1 DEF LevelsFrom
<1>5. Gate!Min(L) = t
    <2>1. PICK M : M = L
        OBVIOUS
    <2>2. t \in M /\ M \in SUBSET Nat /\ \A u \in M : t <= u
        BY <1>4, <2>1
    <2>3. PICK m : m = Gate!Min(M)
        OBVIOUS
    <2>4. m \in M /\ m <= t
        BY <2>2, <2>3, GateMin
    <2>5. m = t
        BY <2>2, <2>4
    <2>6. QED
        BY <2>1, <2>3, <2>5
<1>6. Gate!FixedThreshold(r, t) = [threshold |-> t, committed |-> Cardinality(committed),
                                   correct |-> Gate!Correct(r, committed)]
    BY GateCardinality DEF Gate!FixedThreshold
<1> HIDE DEF L, committed
<1>7. SweptOver(r, L) = [threshold |-> t, committed |-> Cardinality(committed),
                         correct |-> Gate!Correct(r, committed)]
    BY <1>3, <1>4, <1>5 DEF SweptOver
<1>8. QED
    BY <1>6, <1>7 DEF L

\* What a gate promises of the rows it was chosen on (DecisionGate, ThresholdIsBest).
Kept(r) == {t \in Gate!Levels(r) : IsPrecise(Gate!FixedThreshold(r, t))}

Best(r, chosen) ==
    /\ chosen = Gate!FixedThreshold(r, chosen.threshold)
    /\ chosen.threshold = None <=> Kept(r) = {}
    /\ \A t \in Kept(r) : Gate!FixedThreshold(r, t).committed <= chosen.committed

\* A lower cut commits every row a higher one does.
LEMMA LowerCutCommitsMore ==
    ASSUME NEW r, RowsFit(r), NEW t \in Gate!Levels(r), NEW u \in Gate!Levels(r), t <= u
    PROVE  Gate!FixedThreshold(r, u).committed <= Gate!FixedThreshold(r, t).committed
<1> DEFINE committed(x) == {i \in DOMAIN r : x # None /\ r[i].confidence >= x}
<1>1. t \in Nat /\ u \in Nat /\ t # None /\ u # None
    BY RowsAssumption DEF RowsFit, Gate!Levels
<1>2. committed(u) \subseteq committed(t)
    BY <1>1 DEF RowsFit
<1>3. IsFiniteSet(committed(t)) /\ committed(t) \subseteq DOMAIN r
    BY FS_Subset DEF RowsFit
<1>4. /\ Gate!FixedThreshold(r, u).committed = Cardinality(committed(u))
      /\ Gate!FixedThreshold(r, t).committed = Cardinality(committed(t))
    BY GateCardinality DEF Gate!FixedThreshold
<1> HIDE DEF committed
<1>5. Cardinality(committed(u)) <= Cardinality(committed(t))
    BY <1>2, <1>3, FS_Subset
<1>6. QED
    BY <1>4, <1>5

\* The sweep keeps no rows in the end only if every level was imprecise, and no
\* precise level commits more than the one it kept.
LEMMA SweepIsBest ==
    ASSUME NEW r, RowsFit(r)
    PROVE  Best(r, Gate!CoverageAtPrecision(r))
<1> DEFINE chosen == Gate!CoverageAtPrecision(r)
           L == Gate!Levels(r)
<1>1. L \in SUBSET Nat
    BY DEF RowsFit, Gate!Levels
<1>2. chosen = BestStop(r, L)
    BY CoverageIsBestStop
<1>3. Kept(r) = Stops(r, L)
    BY CutAtLevel DEF Kept, Stops
<1> HIDE DEF chosen, L
<1>4. CASE Stops(r, L) = {}
    <2>1. chosen = Gate!NoGate
        BY <1>2, <1>4 DEF BestStop
    <2>2. Gate!FixedThreshold(r, None) = Gate!NoGate
        <3>1. Gate!Correct(r, {}) = 0 /\ Cardinality({}) = 0
            <4>1. {i \in {} : r[i].exact} = {}
                OBVIOUS
            <4>2. QED
                BY <4>1, CountsOfRows, FS_EmptySet
        <3>2. QED
            BY <3>1, GateCardinality DEF Gate!FixedThreshold, Gate!NoGate
    <2>3. QED
        BY <1>3, <1>4, <2>1, <2>2 DEF Best, chosen, Gate!NoGate
<1>5. CASE Stops(r, L) # {}
    <2>1. PICK t : t = Gate!Min(Stops(r, L))
        OBVIOUS
    <2>2. t \in Stops(r, L) /\ t \in L /\ \A u \in Stops(r, L) : t <= u
        <3>1. Stops(r, L) \in SUBSET Nat /\ Stops(r, L) \subseteq L
            BY <1>1 DEF Stops
        <3>2. QED
            BY <1>5, <2>1, <3>1, GateMin
    <2>3. chosen = Gate!FixedThreshold(r, t)
        BY <1>2, <1>5, <2>1, <2>2, CutAtLevel DEF BestStop, L
    <2>4. chosen.threshold = t /\ t # None
        BY <1>1, <2>2, <2>3, RowsAssumption DEF Gate!FixedThreshold
    <2>5. ASSUME NEW u \in Stops(r, L)
          PROVE  Gate!FixedThreshold(r, u).committed <= chosen.committed
        <3>1. u \in L /\ t <= u
            BY <2>2 DEF Stops
        <3>2. QED
            BY <2>2, <2>3, <3>1, LowerCutCommitsMore DEF L
    <2>6. QED
        BY <1>3, <1>5, <2>3, <2>4, <2>5 DEF Best, chosen
<1>6. QED
    BY <1>4, <1>5

\* An exact row moves the right device and asks for something here.
RowsHonest(r) ==
    \A i \in DOMAIN r : r[i].exact => ~r[i].wrong_target /\ ~r[i].ood_false_commit

LEMMA AnswerFits ==
    ASSUME NEW shape \in Shapes
    PROVE  /\ Gate!Answer(shape).confidence \in Nat
           /\ Gate!Answer(shape).exact =>
                ~Gate!Answer(shape).wrong_target /\ ~Gate!Answer(shape).ood_false_commit
<1>1. PICK v : v = Gate!Resolve(shape.pred, shape.before.focus, shape.before.active)
    OBVIOUS
<1>2. Gate!Answer(shape) =
        [confidence |-> Gate!ConfidenceRow(v, shape.prob), exact |-> Gate!ExactRow(v, shape.gold),
         wrong_target |-> shape.gold.count > 0 /\ v.target # shape.gold.target,
         ood_false_commit |-> shape.gold.op = "ood" /\ v.op # "ood"]
    BY <1>1 DEF Gate!Answer
<1>3. Gate!ConfidenceRow(v, shape.prob) \in Nat
    <2> DEFINE sure == {shape.prob[h] : h \in Gate!RequiredHeads(v)}
    <2>1. Gate!RequiredHeads(v) \subseteq GateHeads /\ "op" \in Gate!RequiredHeads(v)
        BY DEF Gate!RequiredHeads, GateHeads
    <2>2. shape.prob \in [GateHeads -> Nat]
        BY RowsAssumption DEF GateHeads
    <2>3. sure \in SUBSET Nat /\ sure # {}
        BY <2>1, <2>2
    <2>4. Gate!ConfidenceRow(v, shape.prob) = Gate!Min(sure)
        BY DEF Gate!ConfidenceRow
    <2> HIDE DEF sure
    <2>5. QED
        BY <2>3, <2>4, GateMin
<1>4. Gate!ExactRow(v, shape.gold) =>
        /\ v.op = shape.gold.op /\ v.count = shape.gold.count
        /\ v.count > 0 => v.target = shape.gold.target
    BY DEF Gate!ExactRow, Gate!RequiredHeads
<1>5. PICK a : a = Gate!Answer(shape)
    OBVIOUS
<1>6. /\ a.confidence = Gate!ConfidenceRow(v, shape.prob)
      /\ a.exact = Gate!ExactRow(v, shape.gold)
      /\ a.wrong_target = (shape.gold.count > 0 /\ v.target # shape.gold.target)
      /\ a.ood_false_commit = (shape.gold.op = "ood" /\ v.op # "ood")
    BY <1>2, <1>5
<1>7. a.exact => ~a.wrong_target /\ ~a.ood_false_commit
    <2>1. SUFFICES ASSUME a.exact PROVE ~a.wrong_target /\ ~a.ood_false_commit
        OBVIOUS
    <2>2. /\ v.op = shape.gold.op /\ v.count = shape.gold.count
          /\ v.count > 0 => v.target = shape.gold.target
        BY <1>4, <1>6, <2>1, Zenon
    <2>3. QED
        BY <1>6, <2>2, Zenon
<1>8. QED
    BY <1>3, <1>5, <1>6, <1>7

\* What a cut commits that does harm is among its inexact rows.
LEMMA HarmIsInexact ==
    ASSUME NEW r, RowsFit(r), RowsHonest(r), NEW t
    PROVE  Cardinality(Gate!Harm(r, t))
             <= Gate!FixedThreshold(r, t).committed - Gate!FixedThreshold(r, t).correct
<1> DEFINE committed == {i \in DOMAIN r : t # None /\ r[i].confidence >= t}
           exact == {i \in committed : r[i].exact}
<1>1. /\ Gate!FixedThreshold(r, t).committed = Cardinality(committed)
      /\ Gate!FixedThreshold(r, t).correct = Cardinality(exact)
    BY GateCardinality DEF Gate!FixedThreshold, Gate!Correct
<1>2. Gate!Harm(r, t) \subseteq committed /\ Gate!Harm(r, t) \cap exact = {}
    BY DEF Gate!Harm, RowsHonest
<1>3. IsFiniteSet(committed)
    BY FS_Subset DEF RowsFit
<1>4. exact \subseteq committed
    OBVIOUS
<1> HIDE DEF committed, exact
<1>5. IsFiniteSet(exact) /\ IsFiniteSet(Gate!Harm(r, t))
    BY <1>2, <1>3, <1>4, FS_Subset
<1>6. PICK H : H = Gate!Harm(r, t)
    OBVIOUS
<1>7. Cardinality(H \cup exact) = Cardinality(H) + Cardinality(exact) - Cardinality(H \cap exact)
    BY <1>5, <1>6, FS_Union
<1>8. Cardinality(H \cap exact) = 0
    BY <1>2, <1>6, FS_EmptySet
<1>9. Cardinality(H \cup exact) <= Cardinality(committed)
    BY <1>2, <1>3, <1>4, <1>6, FS_Subset
<1>10. /\ Cardinality(H) \in Nat /\ Cardinality(exact) \in Nat /\ Cardinality(committed) \in Nat
       /\ Cardinality(H \cup exact) \in Nat
    BY <1>2, <1>3, <1>4, <1>5, <1>6, FS_CardinalityType, FS_Union
<1>11. QED
    BY <1>1, <1>6, <1>7, <1>8, <1>9, <1>10

RowsSound(r) == RowsFit(r) /\ RowsHonest(r)

\* From the prediction on, the gate is what the sweep found on the calibration
\* rows, and the sealed result is what its threshold commits of the others.
GateInv ==
    /\ stage \in {"answered", "calibrated", "sealed"} =>
          RowsSound(answers.calibration) /\ RowsSound(answers.sealed)
    /\ stage \in {"calibrated", "sealed"} => gate = Gate!CoverageAtPrecision(answers.calibration)
    /\ stage = "sealed" => frozen = Gate!FixedThreshold(answers.sealed, gate.threshold)

LEMMA PredictedRowsSound ==
    ASSUME NEW D, IsFiniteSet(D), NEW c \in [D -> Shapes]
    PROVE  RowsSound([i \in D |-> Gate!Answer(c[i])])
<1>1. \A i \in D : /\ Gate!Answer(c[i]).confidence \in Nat
                   /\ Gate!Answer(c[i]).exact =>
                        ~Gate!Answer(c[i]).wrong_target /\ ~Gate!Answer(c[i]).ood_false_commit
    BY AnswerFits
<1>2. QED
    BY <1>1 DEF RowsSound, RowsFit, RowsHonest

LEMMA CalibrationIsFinite == IsFiniteSet(Gate!Calibration)
<1>1. Dialogues * TurnsPerDialogue - 1 \in Int
    BY RowsAssumption
<1>2. IsFiniteSet(0 .. Dialogues * TurnsPerDialogue - 1)
    BY <1>1, FS_Interval
<1>3. QED
    BY <1>2, FS_Subset DEF Gate!Calibration, Gate!DevRows

LEMMA StepKeepsGate ==
    ASSUME GateInv, [Next]_vars
    PROVE  GateInv'
<1>1. CASE Gate!Epoch \/ Gate!Load \/ Gate!Conform
    BY <1>1 DEF Gate!Epoch, Gate!Load, Gate!Conform, GateInv
<1>2. CASE Gate!Predict
    <2>1. PICK c \in [Gate!Calibration -> Shapes], s \in [SealedRows -> Shapes] :
              answers' = [calibration |-> [i \in Gate!Calibration |-> Gate!Answer(c[i])],
                          sealed      |-> [i \in SealedRows |-> Gate!Answer(s[i])]]
        BY <1>2 DEF Gate!Predict
    <2>2. RowsSound(answers'.calibration) /\ RowsSound(answers'.sealed)
        BY <2>1, PredictedRowsSound, CalibrationIsFinite, RowsAssumption
    <2>3. stage' = "answered"
        BY <1>2 DEF Gate!Predict
    <2>4. QED
        BY <2>2, <2>3 DEF GateInv
<1>3. CASE Gate!Calibrate
    BY <1>3 DEF Gate!Calibrate, Gate!CommitCurve, GateInv
<1>4. CASE Gate!Seal
    BY <1>4 DEF Gate!Seal, Gate!CommitCurve, GateInv
<1>5. CASE UNCHANGED gateVars
    BY <1>5 DEF GateInv, gateVars
<1>6. QED
    BY <1>1, <1>2, <1>3, <1>4, <1>5, GateSteps DEF Gate!Next

LEMMA GateInvIsSound == GateInv => GateIsSound
<1> SUFFICES ASSUME GateInv PROVE GateIsSound
    OBVIOUS
<1>1. Gate!ThresholdIsBest
    <2>1. SUFFICES ASSUME stage = "calibrated"
                   PROVE  Best(answers.calibration, gate)
        BY DEF Gate!ThresholdIsBest, Best, Kept, IsPrecise, Gate!Levels
    <2>2. PICK r : r = answers.calibration
        OBVIOUS
    <2>3. RowsFit(r) /\ gate = Gate!CoverageAtPrecision(r)
        BY <2>1, <2>2 DEF GateInv, RowsSound
    <2>4. QED
        BY <2>2, <2>3, SweepIsBest
<1>2. ASSUME stage \in {"calibrated", "sealed"}
      PROVE  Cardinality(Gate!Harm(answers.calibration, gate.threshold))
               <= gate.committed - gate.correct
    <2>1. PICK r, t : r = answers.calibration /\ t = gate.threshold
        OBVIOUS
    <2>2. RowsFit(r) /\ RowsHonest(r) /\ gate = Gate!CoverageAtPrecision(r)
        BY <1>2, <2>1 DEF GateInv, RowsSound
    <2>3. gate = Gate!FixedThreshold(r, t)
        BY <2>1, <2>2, SweepIsBest DEF Best
    <2>4. QED
        BY <2>1, <2>2, <2>3, HarmIsInexact
<1>3. ASSUME stage = "sealed"
      PROVE  Cardinality(Gate!Harm(answers.sealed, gate.threshold))
               <= frozen.committed - frozen.correct
    <2>1. PICK r, t : r = answers.sealed /\ t = gate.threshold
        OBVIOUS
    <2>2. RowsFit(r) /\ RowsHonest(r) /\ frozen = Gate!FixedThreshold(r, t)
        BY <1>3, <2>1 DEF GateInv, RowsSound
    <2>3. QED
        BY <2>1, <2>2, HarmIsInexact
<1>4. Gate!GateBoundsHarm
    BY <1>2, <1>3, GateCardinality DEF Gate!GateBoundsHarm
<1>5. QED
    BY <1>1, <1>4 DEF GateIsSound

\* For any answers of a network, the calibrated threshold commits what the gate
\* reports, as much as the precision asked allows, and what a cut commits that
\* does harm is among its inexact rows (benchmark_flywire_decision_gate.py).
THEOREM GateStaysSound == Spec => []GateIsSound
<1>1. Init => GateInv
    BY GateStarts DEF Gate!Init, Gate!Unused, GateInv
<1>2. GateInv /\ [Next]_vars => GateInv'
    BY StepKeepsGate
<1>3. QED
    BY <1>1, <1>2, GateInvIsSound, PTL DEF Spec
=============================================================================
