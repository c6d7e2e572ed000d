----------------------------- MODULE HiddenPack -----------------------------
(* The hidden benchmark: an input pack, a gold pack, a commitment to the     *)
(* gold and a prediction pack are four files written by different parties;   *)
(* score_hidden_benchmark.py scores the predictions that                     *)
(* validate_hidden_benchmark_pack.py accepts and leaves a receipt.  It opens *)
(* every file several times, and a file may be written again at any moment,  *)
(* between two of its reads too (each write is one step).  A digest is the   *)
(* content it is of.                                                         *)
EXTENDS Integers, Sequences, FiniteSets

CONSTANTS
    Packs,          \* the input packs: [pack_id, cases]
    Answers,        \* what gold or a prediction says of one case: [decision, patches]
    MaxReceipts,    \* bound: receipts kept
    MaxRewrites,    \* bound: files written while one scoring runs
    None

VARIABLES input, gold, commitment, predictions,     \* the files
          receipts,                                 \* every receipt written
          scoring   \* the running scoring, or None: [seen: what it has read, in order,
                    \* rewritten: the files written since it began (history)]

vars == <<input, gold, commitment, predictions, receipts, scoring>>

-----------------------------------------------------------------------------
\* A file that is well formed: its cases are listed once each, and not none.
ValidateInput(x)      == x.cases # {}
ValidateGold(g)       == DOMAIN g.gold # {}
ValidatePrediction(p) == DOMAIN p.predictions # {}

\* The input pack is opened twice, for its content and for its digest.
GoldBinds(x, digest, g) ==
    /\ ValidateGold(g)
    /\ g.pack_id = x.pack_id
    /\ g.input_pack = digest
    /\ DOMAIN g.gold = x.cases

CommitmentBinds(x, digest, c) ==
    /\ c.pack_id = x.pack_id
    /\ c.input_pack = digest

PredictionBinds(x, digest, p) ==
    /\ ValidatePrediction(p)
    /\ p.pack_id = x.pack_id
    /\ p.input_pack = digest
    /\ DOMAIN p.predictions = x.cases

\* The files in the order in which score() opens them: validate_triplet() first,
\* then the three it scores from, then those whose digests the receipt carries.
Reads ==
    <<"input", "input", "gold", "commitment", "gold", "predictions",
      "input", "gold", "predictions",
      "gold", "commitment", "predictions">>

Content(file) ==
    CASE file = "input" -> input [] file = "gold" -> gold
      [] file = "commitment" -> commitment [] file = "predictions" -> predictions

\* What the last read must satisfy for score() to go on: the checks of
\* validate_triplet(), and that every case is found in gold and predictions.
ValidateTriplet(seen) ==
    LET n == Len(seen) IN
    /\ seen[n] # None
    /\ n = 1 => ValidateInput(seen[1])
    /\ n = 3 => GoldBinds(seen[1], seen[2], seen[3])
    /\ n = 4 => CommitmentBinds(seen[1], seen[2], seen[4])
    /\ n = 5 => seen[4].gold_pack = seen[5]
    /\ n = 6 => PredictionBinds(seen[1], seen[2], seen[6])
    /\ n = 9 => seen[7].cases \subseteq DOMAIN seen[8].gold \cap DOMAIN seen[9].predictions

Exact(a, b) == a.patches = b.patches

ScoreRow(g, p) ==
    [decision_exact |-> p.decision = g.decision, patch_exact |-> Exact(p, g),
     full_exact |-> p.decision = g.decision /\ Exact(p, g)]

Rows(x, g, p) == [c \in x.cases |-> ScoreRow(g.gold[c], p.predictions[c])]

\* mutant: the gold digest of the receipt is the one validate_triplet() compared
ReceiptOfValidation(seen, rewritten) ==
    [input |-> seen[2], gold |-> seen[5], commitment |-> seen[11], prediction |-> seen[12],
     rows |-> Rows(seen[7], seen[8], seen[9]), rewritten |-> rewritten]

\* The input digest is validate_triplet()'s, the others are taken at the end.
Receipt(seen, rewritten) ==
    [input |-> seen[2], gold |-> seen[10], commitment |-> seen[11], prediction |-> seen[12],
     rows |-> Rows(seen[7], seen[8], seen[9]), rewritten |-> rewritten]

-----------------------------------------------------------------------------
\* A running scoring is not told that files are written.
Wrote(files) ==
    /\ Cardinality(receipts) < MaxReceipts /\ UNCHANGED receipts
    /\ IF scoring = None THEN UNCHANGED scoring
       ELSE /\ Len(scoring.rewritten) + Len(files) <= MaxRewrites
            /\ scoring' = [scoring EXCEPT !.rewritten = @ \o files]

WriteInput ==
    /\ \E x \in Packs : input' = x
    /\ Wrote(<<"input">>) /\ UNCHANGED <<gold, commitment, predictions>>

\* The writers of gold and predictions bind the input they have before them.
WriteGold ==
    /\ input # None
    /\ \E a \in [input.cases -> Answers] :
          gold' = [pack_id |-> input.pack_id, input_pack |-> input, gold |-> a]
    /\ Wrote(<<"gold">>) /\ UNCHANGED <<input, commitment, predictions>>

Commit ==
    /\ input # None /\ gold # None
    /\ commitment' = [pack_id |-> input.pack_id, input_pack |-> input, gold_pack |-> gold]
    /\ Wrote(<<"commitment">>) /\ UNCHANGED <<input, gold, predictions>>

Predict ==
    /\ input # None
    /\ \E a \in [input.cases -> Answers] :
          predictions' = [pack_id |-> input.pack_id, input_pack |-> input, predictions |-> a]
    /\ Wrote(<<"predictions">>) /\ UNCHANGED <<input, gold, commitment>>

\* build_fixture() writes all four.
Fixture ==
    \E x \in Packs : \E all \in [x.cases -> Answers] :
        LET g == [pack_id |-> x.pack_id, input_pack |-> x, gold |-> all]
        IN /\ input' = x
           /\ gold' = g
           /\ commitment' = [pack_id |-> x.pack_id, input_pack |-> x, gold_pack |-> g]
           /\ predictions' = [pack_id |-> x.pack_id, input_pack |-> x, predictions |-> all]
           /\ Wrote(<<"input", "gold", "commitment", "predictions">>)

-----------------------------------------------------------------------------
\* The program is started.
StartScore ==
    /\ scoring = None /\ Cardinality(receipts) < MaxReceipts
    /\ scoring' = [seen |-> <<>>, rewritten |-> <<>>]
    /\ UNCHANGED <<input, gold, commitment, predictions, receipts>>

\* It opens the next file, and ends with an exception if it cannot go on.
ReadNext ==
    /\ scoring # None /\ Len(scoring.seen) < Len(Reads)
    /\ LET seen == Append(scoring.seen, Content(Reads[Len(scoring.seen) + 1]))
       IN scoring' = IF ValidateTriplet(seen) THEN [scoring EXCEPT !.seen = seen] ELSE None
    /\ UNCHANGED <<input, gold, commitment, predictions, receipts>>

\* It writes the receipt.
Score ==
    /\ scoring # None /\ Len(scoring.seen) = Len(Reads)
    /\ receipts' = receipts \cup {Receipt(scoring.seen, scoring.rewritten)}
    /\ scoring' = None
    /\ UNCHANGED <<input, gold, commitment, predictions>>

-----------------------------------------------------------------------------
Unused ==
    /\ input = None /\ gold = None /\ commitment = None /\ predictions = None
    /\ receipts = {} /\ scoring = None

Init == Unused

Next ==
    \/ WriteInput \/ WriteGold \/ Commit \/ Predict \/ Fixture
    \/ StartScore \/ ReadNext \/ Score

Spec == Init /\ [][Next]_vars

-----------------------------------------------------------------------------
\* The receipt carries the digest of the gold that was committed to, and while
\* it was made nobody wrote another file than the gold, nor the gold twice.
Reliable(r) ==
    r.gold = r.commitment.gold_pack /\ r.rewritten \in {<<>>, <<"gold">>}

\* A published commitment and a prediction pack fix the score, though the gold
\* may be replaced at any moment, between two of the reads of a scoring too: the
\* rows of a reliable receipt are those of the predictions against the gold that
\* was committed to, so two such receipts never differ in their rows.
CommitmentFixesScore ==
    \A r \in receipts :
        Reliable(r) =>
            r.rows = Rows(r.commitment.input_pack, r.commitment.gold_pack, r.prediction)
=============================================================================
