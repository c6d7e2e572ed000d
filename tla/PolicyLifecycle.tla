---------------------------- MODULE PolicyLifecycle ----------------------------
(***************************************************************************)
(* Which policy the Pi home decides with: the registry of policies         *)
(* (scripts/pi_home_policy_registry.cjs), their shadow canaries            *)
(* (pi_home_policy_canary.cjs, pi_home_canary_rollback.cjs) and the        *)
(* orchestrator that writes every decision into the evidence journal       *)
(* before and after it changes the registry (pi_home_policy_lifecycle.cjs).*)
(*                                                                         *)
(* The calls are synchronous, so each is one step; what can come between   *)
(* its parts is an append that throws (the lock of the journal is held, or *)
(* the disk is full), which leaves the registry changed and the journal    *)
(* silent.  Plans and evaluations are in the hands of the callers, who may *)
(* use them late and again.  What the promotion gate and the canary make   *)
(* of their evidence is nondeterministic.                                  *)
(***************************************************************************)
EXTENDS SequencesExt

CONSTANTS Policy,
          None,            \* no policy
          MaxRecords,      \* bound on the records of the journal
          MaxFaults        \* bound on the appends that throw

ASSUME LifecycleAssumption == /\ None \notin Policy
                              /\ {MaxRecords, MaxFaults} \subseteq Nat

VARIABLES status,          \* of each policy in the registry
          active,          \* the active policy
          history,         \* events of the registry
          journal,         \* records of the evidence journal
          plans,           \* canary plans that callers hold
          faults           \* how many appends threw

vars == <<status, active, history, journal, plans, faults>>
registryVars == <<status, active, history>>

\* An event of the registry refers to the journal record it rests on, by place.
Promotion == [type: {"PROMOTION"}, from: Policy \cup {None}, to: Policy,
              evidence: 1..MaxRecords, undone: BOOLEAN]
Rollback == [type: {"ROLLBACK"}, from: Policy, to: Policy,
             evidence: 1..MaxRecords, undone: {FALSE}]

Plan == [candidate: Policy, control: Policy \cup {None}]

\* The records of the journal: the gates and evaluations that decide nothing
\* are not told apart.
Authorized(c) == [type |-> "PROMOTION_GATE", to |-> c]
Promoted(c, changed) == [type |-> "POLICY_PROMOTION", to |-> c, changed |-> changed]
Planned(plan) == [type |-> "CANARY_PLAN", plan |-> plan]
Aborted(plan) == [type |-> "CANARY_EVALUATION", plan |-> plan]
RolledBack(to) == [type |-> "POLICY_ROLLBACK", to |-> to]
NoChange == [type |-> "NO_CHANGE"]

TypeOK == /\ status \in [Policy -> {"unregistered", "candidate", "active",
                                    "inactive", "rolled_back"}]
          /\ active \in Policy \cup {None}
          /\ history \in Seq(Promotion \cup Rollback)
          /\ Len(journal) \in 0..MaxRecords
          /\ plans \subseteq Plan
          /\ faults \in 0..MaxFaults

\* The registry starts with one active policy or none, and with candidates.
Init == /\ active \in Policy \cup {None}
        /\ status \in [Policy -> {"unregistered", "candidate", "active"}]
        /\ \A p \in Policy : status[p] = "active" <=> p = active
        /\ history = <<>>
        /\ journal = <<>>
        /\ plans = {}
        /\ faults = 0
-----------------------------------------------------------------------------
(* The journal *)

Recorded(records) == /\ Len(journal) + Len(records) <= MaxRecords
                     /\ journal' = journal \o records
                     /\ UNCHANGED faults

\* The last append of a call throws, after these records were written: the lock
\* is held or the disk refuses.
RecordFails(records) == /\ faults < MaxFaults
                        /\ faults' = faults + 1
                        /\ Len(journal) + Len(records) <= MaxRecords
                        /\ journal' = journal \o records
-----------------------------------------------------------------------------
(* Promotion *)

\* register() with its default status.
Register(p) == /\ status[p] = "unregistered"
               /\ status' = [status EXCEPT ![p] = "candidate"]
               /\ UNCHANGED <<active, history, journal, plans, faults>>

\* For a mutant: the policy that was active is left as it is.
PromoteBeside(c, evidence) ==
  /\ status' = [status EXCEPT ![c] = "active"]
  /\ active' = c
  /\ history' = Append(history, [type |-> "PROMOTION", from |-> active, to |-> c,
                                 evidence |-> evidence, undone |-> FALSE])

\* registry.promote(): the policy that was active becomes inactive.
Promote(c, evidence) ==
  /\ status' = [p \in Policy |-> CASE p = c -> "active"
                                   [] p = active /\ p # c -> "inactive"
                                   [] OTHER -> status[p]]
  /\ active' = c
  /\ history' = Append(history, [type |-> "PROMOTION", from |-> active, to |-> c,
                                 evidence |-> evidence, undone |-> FALSE])

\* The gate holds the candidate back, or its own record cannot be written.
HoldGate == /\ Recorded(<<NoChange>>) \/ RecordFails(<<>>)
            /\ UNCHANGED <<registryVars, plans>>

\* For a mutant: the promotion is written down before it is made.
GateWrittenFirst(c) ==
  LET gate == Authorized(c) IN
  /\ Recorded(<<gate, Promoted(c, TRUE)>>)
  /\ IF status[c] = "unregistered" \/ c = active
       THEN UNCHANGED registryVars
       ELSE Promote(c, Len(journal) + 1)
  /\ UNCHANGED plans

\* applyPromotionGate() of an authorized gate: the gate is written, the registry
\* changes, the promotion is written.  A candidate that is not registered makes
\* it throw in between, one that is active already changes nothing.
ApplyGate(c) ==
  LET gate == Authorized(c) IN
  /\ \/ /\ status[c] = "unregistered"
        /\ Recorded(<<gate>>)
        /\ UNCHANGED registryVars
     \/ /\ c = active
        /\ Recorded(<<gate, Promoted(c, FALSE)>>) \/ RecordFails(<<gate>>)
        /\ UNCHANGED registryVars
     \/ /\ status[c] # "unregistered"
        /\ c # active
        /\ Recorded(<<gate, Promoted(c, TRUE)>>) \/ RecordFails(<<gate>>)
        /\ Promote(c, Len(journal) + 1)
  /\ UNCHANGED plans
-----------------------------------------------------------------------------
(* Canary and rollback *)

\* Promotions to the active policy that were not rolled back.
Standing == {i \in DOMAIN history : /\ history[i].type = "PROMOTION"
                                    /\ history[i].to = active
                                    /\ ~history[i].undone}

\* For a mutant: the first of them instead of the latest.
FirstPromotion(standing) == CHOOSE i \in standing : \A j \in standing : i <= j

LastPromotion(standing) == CHOOSE i \in standing : \A j \in standing : j <= i

\* createCanaryPlan() for the active policy; it throws without a promotion.
CreatePlan ==
  /\ Standing # {}
  /\ LET plan == [candidate |-> active,
                  control |-> history[LastPromotion(Standing)].from] IN
       Recorded(<<Planned(plan)>>) /\ plans' = plans \cup {plan}
  /\ UNCHANGED registryVars

\* evaluateCanary() of any plan ever made.
Evaluate(plan) == /\ Recorded(<<Aborted(plan)>>) \/ Recorded(<<NoChange>>)
                  /\ UNCHANGED <<registryVars, plans>>

\* registry.rollback(): back to the policy before the latest promotion of the
\* active one; it throws if there is none.
RollBack(evidence) ==
  /\ Standing # {}
  /\ LET i == LastPromotion(Standing)
         to == history[i].from
     IN  /\ to # None
         /\ status' = [status EXCEPT ![active] = "rolled_back", ![to] = "active"]
         /\ active' = to
         /\ history' = Append([history EXCEPT ![i].undone = TRUE],
                              [type |-> "ROLLBACK", from |-> active, to |-> to,
                               evidence |-> evidence, undone |-> FALSE])

\* For a mutant: the evaluation is looked for in the whole journal.
ApplyOldEvaluation(plan) ==
  /\ \E i \in DOMAIN journal : journal[i] = Aborted(plan) /\ RollBack(i)
  /\ Recorded(<<RolledBack(active')>>)
  /\ UNCHANGED plans

\* applyCanaryEvaluation() of an evaluation that aborts the canary: it must be
\* the last record of the journal.  Another verdict changes nothing.
ApplyEvaluation(plan) ==
  /\ journal # <<>>
  /\ Last(journal) = Aborted(plan)
  /\ RollBack(Len(journal))
  /\ Recorded(<<RolledBack(active')>>) \/ RecordFails(<<>>)
  /\ UNCHANGED plans

Next == \/ CreatePlan
        \/ HoldGate
        \/ \E p \in Policy : Register(p) \/ ApplyGate(p)
        \/ \E plan \in plans :
             Evaluate(plan) \/ ApplyEvaluation(plan)

Spec == Init /\ [][Next]_vars
-----------------------------------------------------------------------------
(* Properties *)

\* The registry never has two active policies, nor one that is not the active
\* one, through any sequence of promotions and rollbacks.
OneActive == \A p \in Policy : status[p] = "active" <=> p = active

\* Rollbacks undo promotions in the reverse order, also when a policy was
\* promoted several times: the active policy is the one that replaying the
\* history as a stack leaves on top.
RollbackUndoesLatest ==
  LET first == IF history = <<>> THEN active ELSE history[1].from
      stack[n \in 0..Len(history)] ==
        IF n = 0 THEN <<first>>
        ELSE IF history[n].type = "PROMOTION" THEN Append(stack[n - 1], history[n].to)
        ELSE Front(stack[n - 1])
  IN  active = Last(stack[Len(history)])

\* Every change of the registry rests on a record the journal had before: a
\* promotion on an authorized gate of its candidate, a rollback on an aborted
\* canary, and no record carries two changes as long as every append succeeds.
EvidenceFirst ==
  /\ \A i \in DOMAIN history :
       /\ history[i].evidence \in DOMAIN journal
       /\ LET record == journal[history[i].evidence] IN
            IF history[i].type = "PROMOTION"
              THEN record = Authorized(history[i].to)
              ELSE record.type = "CANARY_EVALUATION"
  /\ faults = 0 => \A i, j \in DOMAIN history :
                     history[i].evidence = history[j].evidence => i = j

\* Records that tell of a change of the registry.
TellsChange(record) == \/ record.type = "POLICY_ROLLBACK"
                       \/ record.type = "POLICY_PROMOTION" /\ record.changed

\* As long as every append succeeds, the journal alone tells which policy is
\* active, although promotions that change nothing are written into it too: its
\* last record of a change names it, and without one there was no change.
JournalTellsActive ==
  LET changes == {i \in DOMAIN journal : TellsChange(journal[i])}
  IN  faults = 0 => /\ changes = {} => history = <<>>
                    /\ \A i \in changes :
                         (\A j \in changes : j <= i) => active = journal[i].to

\* A rollback hits the policy whose canary failed, unless the registry changed
\* between the plan of the canary and the rollback.
RollbackHitsCandidate ==
  \A k \in DOMAIN history : history[k].type = "ROLLBACK" =>
    LET plan == journal[history[k].evidence].plan
        made == {i \in 1..history[k].evidence : journal[i] = Planned(plan)}
    IN  \/ history[k].from = plan.candidate
        \/ \E i \in 1..k - 1 : \A m \in made : history[i].evidence > m

\* A rollback goes back the way the promotions came, and from the policy whose
\* canary failed.
RollbackHolds == TypeOK /\ RollbackUndoesLatest /\ RollbackHitsCandidate
===============================================================================
