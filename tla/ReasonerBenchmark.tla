-------------------------- MODULE ReasonerBenchmark --------------------------
(* evaluate_reasoning_backends.py: every case of a file is put to an         *)
(* OpenAI-compatible endpoint through reasoning_backend.py, and the proposal *)
(* that comes back is compared with what the case expects.  An exception     *)
(* ends the program: there is a summary of all cases or none.                *)
EXTENDS Integers, Sequences, FiniteSets

CONSTANTS
    CaseFiles,      \* sequences of [id, state, expect]
    Replies,        \* what the endpoint may answer: [fence, json, proposal], or None
    None

VARIABLES
    questions,      \* the cases of the file, or None
    scored,         \* the rows so far: [id, proposal, pass]
    summary         \* [status, cases, passed], or None

Sections == {"conversation", "tasks", "world", "execution"}
Contract == "contextual-state.v1"

-----------------------------------------------------------------------------
\* Targets are logical: an area, an entity and an instance, none of them empty.
ValidContext(s) ==
    /\ s.contract_version = Contract
    /\ s.sections = Sections
    /\ \A t \in s.targets : t.fields = {"area", "entity", "instance"} /\ t.filled

\* A state of another contract travels inside an empty canonical one.
LegacyStateToContextState(s) ==
    [contract_version |-> Contract, sections |-> Sections, targets |-> {}]

ContextFor(case) ==
    IF case.state # None /\ case.state.contract_version = Contract
    THEN case.state ELSE LegacyStateToContextState(case.state)

\* The text inside a code fence, if its first line is the fence alone.
StripCodeFence(reply) == IF reply.fence = "one line" THEN None ELSE reply.proposal

ValidShape(p) ==
    /\ {"operation", "frames", "commit_recommendation"} \subseteq DOMAIN p
    /\ p.operation \in {"retain", "add", "revise", "retract", "clear", "ood"}
    /\ p.commit_recommendation \in {"PROPOSE", "CLARIFY", "BLOCK"}
    /\ p.frames = "list"
    /\ "confidence" \in DOMAIN p => p.confidence = "within 0..1"

Ambiguity(p) == IF "ambiguity" \in DOMAIN p THEN p.ambiguity ELSE {}

SafeForCommit(p) == p.commit_recommendation = "PROPOSE" /\ Ambiguity(p) = {}

\* The proposal of a reply, or None where propose() raises.
Propose(context, reply) ==
    IF ~ValidContext(context) \/ reply = None THEN None
    ELSE IF ~reply.json \/ StripCodeFence(reply) = None THEN None
    ELSE IF ValidShape(reply.proposal) THEN reply.proposal ELSE None

Pass(p, expect) ==
    /\ p.operation = expect.operation
    /\ p.commit_recommendation = expect.commit_recommendation
    /\ SafeForCommit(p) = expect.safe_for_commit
    /\ expect.ambiguity_contains \subseteq Ambiguity(p)

-----------------------------------------------------------------------------
Ask ==
    /\ questions # None /\ summary = None
    /\ Len(scored) < Len(questions)
    /\ LET case == questions[Len(scored) + 1] IN
       \E reply \in Replies :
          LET p == Propose(ContextFor(case), reply) IN
          IF p = None
          THEN /\ summary' = [status |-> "raised", cases |-> 0, passed |-> 0]
               /\ scored' = scored
          ELSE /\ scored' = Append(scored, [id |-> case.id, proposal |-> p, pass |-> Pass(p, case.expect)])
               /\ summary' = summary
    /\ UNCHANGED questions

Summarise ==
    /\ questions # None /\ summary = None
    /\ Len(scored) = Len(questions)
    /\ summary' = [status |-> "written", cases |-> Len(scored),
                   passed |-> Cardinality({i \in DOMAIN scored : scored[i].pass})]
    /\ UNCHANGED <<questions, scored>>

Unused == questions = None /\ scored = <<>> /\ summary = None

Init == questions \in CaseFiles /\ scored = <<>> /\ summary = None

Next == Ask \/ Summarise
-----------------------------------------------------------------------------
\* A summary that counts every case as passed was earned: every case of the
\* file was answered, no answer that is to be committed leaves anything open,
\* and none that is not to be committed could be.
FullMarksAreEarned ==
    summary # None /\ summary.status = "written" /\ summary.passed = Len(questions) =>
        \A i \in DOMAIN questions :
            LET p == scored[i].proposal IN
            /\ scored[i].id = questions[i].id
            /\ questions[i].expect.safe_for_commit <=>
                  p.commit_recommendation = "PROPOSE" /\ Ambiguity(p) = {}
=============================================================================
