---------------------------- MODULE NoaProjection ----------------------------
(* noa_consumer_semantics_probe.py: does a consumer of a signed receipt keep *)
(* what the receipt says, and nothing it does not say?  The source is        *)
(* projected on ten fields, every case of an inventory alters the projection *)
(* and states the verdict it expects, and the report counts disagreements.   *)
(* A projection is a function from its dotted paths to values; a path that   *)
(* is missing reads as None, as a null does.                                 *)
EXTENDS Integers, Sequences, FiniteSets, SequencesExt

CONSTANTS
    Upstreams,      \* upstream files: functions from vector names to receipt chains, or None
    Inventories,    \* [profile, vector, chain_index, cases]
    None

VARIABLES
    upstream, inventory,
    noa             \* [status, receipt, rows], "failed" by an exception, or None

Profile == "noa-consumer-semantics-probe.v0"
Absent  == "SOURCE_ABSENT"

\* The fields compared, in the order a mismatch is named.
Checks ==
    <<"profile", "source_revision", "source_receipt_id", "action.id", "action.canonical",
      "action.paramsHash", "outcome", "approval", "controller_report", "physical_completion">>

-----------------------------------------------------------------------------
\* A receipt that can be projected: its revision is known, and action and
\* governance hold what is read from them.
Projectable(r) ==
    /\ r.spec = "noa.receipt/0.1"
    /\ r.action # None /\ \A field \in {"id", "canonical", "paramsHash"} : r.action[field] \notin {None, ""}
    /\ r.governance # None /\ r.governance.verdict \notin {None, ""}

\* mutant: an approval the source does not speak of is read as null
ApprovalOrNull(governance) ==
    IF "approval" \in DOMAIN governance THEN governance.approval ELSE None

Approval(governance) ==
    IF "approval" \in DOMAIN governance THEN governance.approval ELSE Absent

ProjectSource(r) ==
    [path \in Range(Checks) |->
        CASE path = "profile"           -> Profile
          [] path = "source_revision"   -> r.spec
          [] path = "source_receipt_id" -> r.id
          [] path = "action.id"         -> r.action.id
          [] path = "action.canonical"  -> r.action.canonical
          [] path = "action.paramsHash" -> r.action.paramsHash
          [] path = "outcome"           -> r.governance.verdict
          [] path = "approval"          -> Approval(r.governance)
          [] OTHER                      -> Absent]

\* A field may be set, a whole section overwritten, an unrelated key added.
MutateProjection(projection, m) ==
    CASE m.kind = "none" -> projection
      [] m.kind = "transpose_action_fields" ->
            [projection EXCEPT !["action.id"] = projection["action.canonical"],
                               !["action.canonical"] = projection["action.id"]]
      [] m.kind = "set" /\ m.path = "action" ->
            [path \in DOMAIN projection |->
                IF path \in {"action.id", "action.canonical", "action.paramsHash"} THEN None ELSE projection[path]]
      [] OTHER -> [path \in DOMAIN projection |-> IF path = m.path THEN m.value ELSE projection[path]]

ValidateProjection(r, candidate) ==
    LET expected == ProjectSource(r)
        wrong == {i \in DOMAIN Checks : candidate[Checks[i]] # expected[Checks[i]]}
    IN IF wrong = {} THEN [status |-> "PASS", code |-> None]
       ELSE [status |-> "REFUSE", code |-> Checks[CHOOSE i \in wrong : \A j \in wrong : i <= j]]

\* The receipt the inventory selects, or None.
SelectSource(vectors, inv) ==
    IF vectors = None \/ inv.vector \notin DOMAIN vectors THEN None
    ELSE IF inv.chain_index + 1 \in DOMAIN vectors[inv.vector]
         THEN vectors[inv.vector][inv.chain_index + 1] ELSE None

-----------------------------------------------------------------------------
Row(receipt, case) ==
    LET candidate == MutateProjection(ProjectSource(receipt), case.mutation)
        verdict   == ValidateProjection(receipt, candidate)
    IN [candidate |-> candidate, verdict |-> verdict, expected |-> case.expected_status,
        matched |-> verdict.status = case.expected_status /\ verdict.code = case.expected_code]

\* The report of one receipt and inventory; "failed" by an exception has none.
Report(vectors, inv) ==
    LET receipt == SelectSource(vectors, inv)
        rows    == [i \in DOMAIN inv.cases |-> Row(receipt, inv.cases[i])]
        failed  == \/ inv.profile # Profile
                   \/ receipt = None
                   \/ receipt # None /\ ~Projectable(receipt)
                   \/ \E i \in DOMAIN inv.cases : inv.cases[i].mutation.kind = "unknown"
    IN IF failed THEN [status |-> "failed", receipt |-> None, rows |-> <<>>]
       ELSE [status |-> IF rows # <<>> /\ \A i \in DOMAIN rows : rows[i].matched THEN "PASS" ELSE "FAIL",
             receipt |-> receipt, rows |-> rows]

\* The command: what it reports decides its exit code, after the report is
\* written; an exception leaves no report and fails as well.
Run ==
    /\ inventory # None /\ noa = None
    /\ LET r == Report(upstream, inventory) IN
           noa' = [status |-> r.status, receipt |-> r.receipt, rows |-> r.rows,
                   written |-> r.status # "failed", exit |-> IF r.status = "PASS" THEN 0 ELSE 1]
    /\ UNCHANGED <<upstream, inventory>>

Unused == upstream = None /\ inventory = None /\ noa = None

Init == upstream \in Upstreams /\ inventory \in Inventories /\ noa = None

Next == Run
-----------------------------------------------------------------------------
\* What is let through says what the receipt says: same action, same outcome,
\* its approval and nothing in place of one it does not have, and no word of a
\* controller or of a physical completion.
NothingUpgraded ==
    noa # None =>
        \A i \in DOMAIN noa.rows :
            LET c == noa.rows[i].candidate
                r == noa.receipt
            IN noa.rows[i].verdict.status = "PASS" =>
                  /\ <<c["action.id"], c["action.canonical"]>> = <<r.action.id, r.action.canonical>>
                  /\ c["action.paramsHash"] = r.action.paramsHash
                  /\ c["outcome"] = r.governance.verdict
                  /\ IF "approval" \in DOMAIN r.governance THEN c["approval"] = r.governance.approval
                     ELSE c["approval"] = Absent
                  /\ c["controller_report"] = Absent /\ c["physical_completion"] = Absent
=============================================================================
