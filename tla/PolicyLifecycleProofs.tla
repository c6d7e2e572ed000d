------------------------ MODULE PolicyLifecycleProofs ------------------------
(***************************************************************************)
(* For every set of policies, every length of the journal and every number *)
(* of failed appends: one policy is active; every change of the registry   *)
(* rests on a record that the journal had before; without a failed append  *)
(* the journal tells which policy is active; rollbacks undo promotions in  *)
(* the reverse order and hit the policy whose canary failed.               *)
(*                                                                         *)
(* That no record carries two changes is not inductive alone: it holds     *)
(* because a change that is recorded puts its evidence behind the end of   *)
(* the journal, and rollbacks and promotions take theirs from the end.     *)
(* That the active policy is on top of the stack which replaying the       *)
(* history leaves (RollbackUndoesLatest) needs all of that stack: its      *)
(* entries are the promotions that stand, in their order (Fits).           *)
(***************************************************************************)
EXTENDS PolicyLifecycle, SequenceTheorems, WellFoundedInduction, TLAPS

\* A nonempty set of naturals has a least element, and a bounded one a greatest.
LEMMA Least ==
  ASSUME NEW S \in SUBSET Nat, S # {}
  PROVE  \E x \in S : \A y \in S : x <= y
<1> DEFINE R == OpToRel(<, Nat)
<1>1. \A x, y \in Nat : x < y => <<x, y>> \in R
  BY DEF OpToRel
<1> HIDE DEF R
<1>2. IsWellFoundedOn(R, Nat)
  BY NatLessThanWellFounded DEF R
<1>3. PICK x \in S : \A y \in S : ~(<<y, x>> \in R)
  BY <1>2, WFMin
<1>4. \A y \in S : ~(y < x)
  BY <1>1, <1>3
<1>5. QED  BY <1>4

LEMMA Greatest ==
  ASSUME NEW n \in Nat, NEW S \in SUBSET (1..n), S # {}
  PROVE  \E i \in S : \A j \in S : j <= i
<1> DEFINE T == {m \in Nat : \E i \in S : m = n - i}
<1>1. \A j \in S : n - j \in T /\ j \in Int
  OBVIOUS
<1>2. T \in SUBSET Nat /\ T # {}
  BY <1>1
<1>3. PICK x \in T : \A y \in T : x <= y
  <2> HIDE DEF T
  <2>1. QED  BY <1>2, Least
<1>4. PICK i \in S : x = n - i
  BY <1>3
<1>5. \A j \in S : n - i <= n - j
  BY <1>1, <1>3, <1>4
<1> HIDE DEF T
<1>6. QED  BY <1>1, <1>5

-----------------------------------------------------------------------------
(* The inductive invariant *)

Event == Promotion \cup Rollback

Entry == [type : {"PROMOTION_GATE", "POLICY_ROLLBACK"}, to : Policy]
           \cup [type : {"POLICY_PROMOTION"}, to : Policy, changed : BOOLEAN]
           \cup [type : {"CANARY_PLAN", "CANARY_EVALUATION"}, plan : Plan]
           \cup [type : {"NO_CHANGE"}]

\* What an event of the registry rests on.
Supports(record, event) == IF event.type = "PROMOTION"
                             THEN record = Authorized(event.to)
                             ELSE record.type = "CANARY_EVALUATION"

EvidenceStands == \A i \in DOMAIN history :
                    /\ history[i].evidence \in DOMAIN journal
                    /\ Supports(journal[history[i].evidence], history[i])

\* While no append has failed, the record of every change follows the evidence
\* of the change, so that the end of the journal is evidence of none yet.
EvidenceIsFresh ==
  faults = 0 =>
    /\ \A i \in DOMAIN history : history[i].evidence < Len(journal)
    /\ \A i, j \in DOMAIN history :
         history[i].evidence = history[j].evidence => i = j

IInv == /\ TypeOK
        /\ journal \in Seq(Entry)
        /\ OneActive
        /\ EvidenceStands
        /\ EvidenceIsFresh

\* The invariant says what the properties say.
LEMMA Enough == IInv => TypeOK /\ OneActive /\ EvidenceFirst
  BY DEF IInv, EvidenceStands, EvidenceIsFresh, EvidenceFirst, Supports

\* The registry starts without a history, so there is nothing to rest on.
LEMMA Initially == Init => IInv
<1> SUFFICES ASSUME Init PROVE IInv
  OBVIOUS
<1>1. history \in Seq(Promotion \cup Rollback) /\ journal \in Seq(Entry)
  BY DEF Init
<1>2. Len(journal) = 0 /\ DOMAIN history = {}
  BY DEF Init
<1>3. TypeOK
  BY <1>1, <1>2, LifecycleAssumption DEF Init, TypeOK
<1>4. OneActive
  BY DEF Init, OneActive
<1>5. QED  BY <1>1, <1>2, <1>3, <1>4 DEF IInv, EvidenceStands, EvidenceIsFresh
-----------------------------------------------------------------------------
(* What the parts of a step do *)

\* The latest standing promotion is a standing promotion, and the latest.
LEMMA LatestStands ==
  ASSUME TypeOK, Standing # {}
  PROVE  LastPromotion(Standing) \in Standing
<1>1. DOMAIN history = 1..Len(history) /\ Len(history) \in Nat
  BY DEF TypeOK
<1>2. Standing \in SUBSET (1..Len(history))
  BY <1>1 DEF Standing
<1>3. \E i \in Standing : \A j \in Standing : j <= i
  BY <1>1, <1>2, Greatest
<1>4. QED  BY <1>3 DEF LastPromotion

\* The journal grows by these records and keeps what it has.
Grows(records) == /\ journal' \in Seq(Entry)
                  /\ Len(journal') = Len(journal) + Len(records)
                  /\ Len(journal') <= MaxRecords
                  /\ \A i \in 1..Len(journal) : journal'[i] = journal[i]
                  /\ \A i \in 1..Len(records) :
                       journal'[Len(journal) + i] = records[i]

\* An append, and one that throws after earlier ones worked, only extends the
\* journal.
LEMMA Growth ==
  ASSUME NEW records \in Seq(Entry), journal \in Seq(Entry),
         Recorded(records) \/ RecordFails(records)
  PROVE  Grows(records)
<1>1. /\ journal' = journal \o records
      /\ Len(journal) + Len(records) <= MaxRecords
  BY DEF Recorded, RecordFails
<1>2. QED  BY <1>1, ConcatProperties DEF Grows

\* The history grows by one event and keeps all that is said of the others but
\* whether they are undone.
Happens(type, to, evidence) ==
  /\ history' \in Seq(Event)
  /\ Len(history') = Len(history) + 1
  /\ \A i \in 1..Len(history) : /\ history'[i].type = history[i].type
                                /\ history'[i].to = history[i].to
                                /\ history'[i].evidence = history[i].evidence
  /\ LET event == history'[Len(history) + 1] IN
       event.type = type /\ event.to = to /\ event.evidence = evidence

\* A promotion adds one event to the history and leaves one policy active.
LEMMA PromoteStep ==
  ASSUME IInv, NEW c \in Policy, NEW e \in 1..MaxRecords, Promote(c, e)
  PROVE  /\ Happens("PROMOTION", c, e)
         /\ status' \in [Policy -> {"unregistered", "candidate", "active",
                                    "inactive", "rolled_back"}]
         /\ active' \in Policy
         /\ OneActive'
<1> DEFINE event == [type |-> "PROMOTION", from |-> active, to |-> c,
                     evidence |-> e, undone |-> FALSE]
<1>1. history \in Seq(Event) /\ event \in Event
  BY DEF IInv, TypeOK, Event, Promotion
<1>2. history' = Append(history, event)
  BY DEF Promote
<1>3. /\ history' \in Seq(Event)
      /\ Len(history') = Len(history) + 1
      /\ \A i \in 1..Len(history) : history'[i] = history[i]
      /\ history'[Len(history) + 1] = event
  <2> HIDE DEF event
  <2>1. QED  BY <1>1, <1>2, AppendProperties
<1>4. Happens("PROMOTION", c, e)
  BY <1>3 DEF Happens
<1>5. status' \in [Policy -> {"unregistered", "candidate", "active",
                              "inactive", "rolled_back"}]
  BY DEF IInv, TypeOK, Promote
<1>6. OneActive'
  BY DEF IInv, TypeOK, OneActive, Promote
<1>7. QED  BY <1>4, <1>5, <1>6 DEF Promote

\* So does a rollback, which also marks the promotion it undoes.
LEMMA RollBackStep ==
  ASSUME IInv, NEW e \in 1..MaxRecords, RollBack(e)
  PROVE  /\ Happens("ROLLBACK", active', e)
         /\ status' \in [Policy -> {"unregistered", "candidate", "active",
                                    "inactive", "rolled_back"}]
         /\ active' \in Policy
         /\ OneActive'
<1> DEFINE i == LastPromotion(Standing)
           to == history[i].from
           undone == [history[i] EXCEPT !.undone = TRUE]
           rest == [history EXCEPT ![i] = undone]
           event == [type |-> "ROLLBACK", from |-> active, to |-> to,
                     evidence |-> e, undone |-> FALSE]
<1>1. i \in Standing
  BY LatestStands DEF RollBack, IInv
<1>2. history \in Seq(Event) /\ i \in 1..Len(history)
  BY <1>1 DEF IInv, TypeOK, Event, Standing
<1>3. history[i] \in Event /\ history[i].type = "PROMOTION" /\ history[i].to = active
  BY <1>1, <1>2, ElementOfSeq DEF Standing
<1>4. history[i] \in Promotion
  BY <1>3 DEF Event, Rollback
<1>5. active \in Policy /\ to \in Policy
  BY <1>3, <1>4 DEF Promotion, RollBack
<1>6. /\ undone \in Event
      /\ undone.type = history[i].type
      /\ undone.to = history[i].to
      /\ undone.evidence = history[i].evidence
  BY <1>4 DEF Promotion, Event
<1>7. event \in Event
  BY <1>5 DEF Event, Rollback
<1>8. /\ rest \in Seq(Event)
      /\ Len(rest) = Len(history)
      /\ \A j \in 1..Len(history) : rest[j] = IF j = i THEN undone ELSE history[j]
  <2> HIDE DEF undone, i
  <2>1. QED  BY <1>2, <1>6, ExceptSeq
<1>9. /\ history' = Append(rest, event)
      /\ active' = to
      /\ status' = [status EXCEPT ![active] = "rolled_back", ![to] = "active"]
  BY DEF RollBack
<1>10. /\ history' \in Seq(Event)
       /\ Len(history') = Len(history) + 1
       /\ \A j \in 1..Len(history) : history'[j] = rest[j]
       /\ history'[Len(history) + 1] = event
  <2> HIDE DEF event, rest
  <2>1. QED  BY <1>7, <1>8, <1>9, AppendProperties
<1>11. Happens("ROLLBACK", active', e)
  <2>1. \A j \in 1..Len(history) : /\ rest[j].type = history[j].type
                                   /\ rest[j].to = history[j].to
                                   /\ rest[j].evidence = history[j].evidence
    <3> HIDE DEF undone, rest, i
    <3>1. QED  BY <1>6, <1>8
  <2>2. event.type = "ROLLBACK" /\ event.to = to /\ event.evidence = e
    OBVIOUS
  <2> HIDE DEF event, rest, to
  <2>3. QED  BY <1>9, <1>10, <2>1, <2>2 DEF Happens
<1>12. status' \in [Policy -> {"unregistered", "candidate", "active",
                               "inactive", "rolled_back"}]
  <2> HIDE DEF to
  <2>1. QED  BY <1>5, <1>9 DEF IInv, TypeOK
<1>13. OneActive'
  <2> HIDE DEF to
  <2>1. QED  BY <1>5, <1>9 DEF IInv, TypeOK, OneActive
<1>14. QED  BY <1>5, <1>9, <1>11, <1>12, <1>13

\* The counter of failed appends: zero only if it was zero before and the last
\* append of the step worked.
Counts(failed) == /\ faults' \in 0..MaxFaults
                  /\ faults' = 0 => faults = 0 /\ ~failed

\* What a step does to the journal tells what it does to the counter.
LEMMA Counting ==
  ASSUME IInv, NEW records
  PROVE  /\ Recorded(records) => Counts(FALSE)
         /\ RecordFails(records) => Counts(TRUE)
  BY LifecycleAssumption DEF IInv, TypeOK, Recorded, RecordFails, Counts

\* A step that leaves the registry alone.
LEMMA EvidenceKept ==
  ASSUME IInv, NEW records \in Seq(Entry), Grows(records), NEW failed \in BOOLEAN,
         Counts(failed), UNCHANGED registryVars, plans' \subseteq Plan
  PROVE  IInv'
<1>1. /\ history \in Seq(Event) /\ DOMAIN history = 1..Len(history)
      /\ DOMAIN journal = 1..Len(journal) /\ DOMAIN journal' = 1..Len(journal')
      /\ Len(journal) \in Nat /\ Len(records) \in Nat /\ Len(journal') \in Nat
  BY DEF IInv, TypeOK, Event, Grows
<1>2. TypeOK' /\ OneActive' /\ journal' \in Seq(Entry)
  BY <1>1 DEF IInv, TypeOK, OneActive, Grows, Counts, registryVars
<1>3. Len(journal') >= Len(journal)
  BY <1>1 DEF Grows
<1>4. EvidenceStands'
  BY <1>1, <1>3 DEF IInv, EvidenceStands, Supports, Grows, registryVars, Authorized
<1>5. EvidenceIsFresh'
  <2> SUFFICES ASSUME faults' = 0
               PROVE  /\ \A i \in DOMAIN history' : history'[i].evidence < Len(journal')
                      /\ \A i, j \in DOMAIN history' :
                           history'[i].evidence = history'[j].evidence => i = j
    BY DEF EvidenceIsFresh
  <2>1. faults = 0 /\ history' = history
    BY DEF Counts, registryVars
  <2>2. \A i \in DOMAIN history : history[i].evidence \in 1..Len(journal)
    BY <1>1 DEF IInv, EvidenceStands
  <2>3. QED  BY <1>1, <1>3, <2>1, <2>2 DEF IInv, EvidenceIsFresh
<1>6. QED  BY <1>2, <1>4, <1>5 DEF IInv

\* A step that changes the registry on evidence from the end of the journal.
LEMMA EvidenceAdded ==
  ASSUME IInv, NEW records \in Seq(Entry), Grows(records), NEW failed \in BOOLEAN,
         Counts(failed), plans' \subseteq Plan,
         NEW type \in {"PROMOTION", "ROLLBACK"}, NEW to, NEW e \in 1..Len(journal'),
         Happens(type, to, e), OneActive', active' \in Policy,
         status' \in [Policy -> {"unregistered", "candidate", "active",
                                "inactive", "rolled_back"}],
         IF type = "PROMOTION" THEN journal'[e] = Authorized(to)
                               ELSE journal'[e].type = "CANARY_EVALUATION",
         Len(journal) <= e,
         failed \/ e < Len(journal')
  PROVE  IInv'
<1> DEFINE n == Len(history)
<1>1. /\ history \in Seq(Event) /\ DOMAIN history = 1..n /\ n \in Nat
      /\ DOMAIN journal = 1..Len(journal) /\ DOMAIN journal' = 1..Len(journal')
      /\ Len(journal) \in Nat /\ Len(records) \in Nat /\ Len(journal') \in Nat
  BY DEF IInv, TypeOK, Event, Grows
<1>2. TypeOK' /\ journal' \in Seq(Entry)
  BY <1>1 DEF IInv, TypeOK, Happens, Event, Grows, Counts
<1>3. /\ DOMAIN history' = 1..(n + 1)
      /\ \A i \in 1..n : /\ history'[i].type = history[i].type
                         /\ history'[i].to = history[i].to
                         /\ history'[i].evidence = history[i].evidence
      /\ history'[n + 1].type = type
      /\ history'[n + 1].to = to
      /\ history'[n + 1].evidence = e
  BY <1>1 DEF Happens
<1>4. \A i \in 1..n : /\ history[i].evidence \in 1..Len(journal)
                     /\ Supports(journal[history[i].evidence], history[i])
  BY <1>1 DEF IInv, EvidenceStands
<1>5. Len(journal') >= Len(journal)
  BY <1>1 DEF Grows
<1> HIDE DEF n
<1>6. EvidenceStands'
  <2> SUFFICES ASSUME NEW i \in 1..(n + 1)
               PROVE  /\ history'[i].evidence \in 1..Len(journal')
                      /\ Supports(journal'[history'[i].evidence], history'[i])
    BY <1>1, <1>3 DEF EvidenceStands, Supports, Authorized
  <2>1. CASE i = n + 1
    BY <1>3, <2>1 DEF Supports
  <2>2. CASE i \in 1..n
    <3>1. journal'[history[i].evidence] = journal[history[i].evidence]
      BY <1>4, <2>2 DEF Grows
    <3>2. QED  BY <1>1, <1>3, <1>4, <1>5, <2>2, <3>1 DEF Supports
  <2>3. QED  BY <1>1, <2>1, <2>2
<1>7. EvidenceIsFresh'
  <2> SUFFICES ASSUME faults' = 0
               PROVE  /\ \A i \in 1..(n + 1) : history'[i].evidence < Len(journal')
                      /\ \A i, j \in 1..(n + 1) :
                           history'[i].evidence = history'[j].evidence => i = j
    BY <1>3 DEF EvidenceIsFresh
  <2>1. faults = 0 /\ e < Len(journal')
    BY DEF Counts
  <2>2. \A i \in 1..n : history[i].evidence < Len(journal)
    BY <1>1, <2>1 DEF IInv, EvidenceIsFresh
  <2>3. \A i, j \in 1..n : history[i].evidence = history[j].evidence => i = j
    BY <1>1, <2>1 DEF IInv, EvidenceIsFresh
  <2>4. \A i \in 1..n : history'[i].evidence < e /\ history'[i].evidence < Len(journal')
    BY <1>1, <1>3, <1>4, <1>5, <2>2
  <2>5. \A i \in 1..(n + 1) : i \in 1..n \/ i = n + 1
    BY <1>1
  <2>6. \A i \in 1..(n + 1) : history'[i].evidence < Len(journal')
    BY <1>3, <2>1, <2>4, <2>5
  <2>7. ASSUME NEW i \in 1..(n + 1), NEW j \in 1..(n + 1),
               history'[i].evidence = history'[j].evidence
        PROVE  i = j
    <3>1. CASE i \in 1..n /\ j \in 1..n
      BY <1>3, <2>3, <2>7, <3>1
    <3>2. CASE i = n + 1 \/ j = n + 1
      <4>1. ~(i \in 1..n /\ j = n + 1) /\ ~(j \in 1..n /\ i = n + 1)
        BY <1>3, <2>4, <2>7
      <4>2. QED  BY <2>5, <3>2, <4>1
    <3>3. QED  BY <2>5, <3>1, <3>2
  <2>8. QED  BY <2>6, <2>7
<1>8. QED  BY <1>2, <1>6, <1>7 DEF IInv
-----------------------------------------------------------------------------
(* The steps *)

\* Registering a policy touches neither history nor journal.
LEMMA KeepsRegister ==
  ASSUME IInv, NEW p \in Policy, Register(p)
  PROVE  IInv'
<1>1. TypeOK' /\ OneActive'
  BY DEF IInv, TypeOK, OneActive, Register
<1>2. QED
  BY <1>1 DEF IInv, EvidenceStands, EvidenceIsFresh, Supports, Authorized, Register

\* A gate that authorizes nothing changes nothing.
LEMMA KeepsHoldGate ==
  ASSUME IInv, HoldGate
  PROVE  IInv'
<1>1. <<NoChange>> \in Seq(Entry) /\ <<>> \in Seq(Entry)
  BY DEF Entry, NoChange
<1>2. journal \in Seq(Entry) /\ plans \subseteq Plan
  BY DEF IInv, TypeOK
<1>3. UNCHANGED registryVars /\ plans' \subseteq Plan
  BY <1>2 DEF HoldGate
<1>4. CASE Recorded(<<NoChange>>)
  BY <1>1, <1>2, <1>3, <1>4, Growth, Counting, EvidenceKept
<1>5. CASE RecordFails(<<>>)
  BY <1>1, <1>2, <1>3, <1>5, Growth, Counting, EvidenceKept
<1>6. QED  BY <1>4, <1>5 DEF HoldGate

\* A promotion rests on the gate that was written just before it.
LEMMA KeepsApplyGate ==
  ASSUME IInv, NEW c \in Policy, ApplyGate(c)
  PROVE  IInv'
<1> DEFINE gate == Authorized(c)
           e == Len(journal) + 1
           promoted(changed) == Promoted(c, changed)
<1>1. /\ journal \in Seq(Entry) /\ plans' \subseteq Plan
      /\ Len(journal) \in Nat
  BY DEF IInv, TypeOK, ApplyGate
<1>2. /\ gate \in Entry
      /\ \A changed \in BOOLEAN : promoted(changed) \in Entry
  BY DEF Entry, Authorized, Promoted
<1> HIDE DEF gate, promoted
<1>3. /\ <<gate>> \in Seq(Entry) /\ Len(<<gate>>) = 1
      /\ \A changed \in BOOLEAN : /\ <<gate, promoted(changed)>> \in Seq(Entry)
                                  /\ Len(<<gate, promoted(changed)>>) = 2
                                  /\ <<gate, promoted(changed)>>[1] = gate
  BY <1>2
<1>4. CASE Recorded(<<gate>>) /\ UNCHANGED registryVars
  BY <1>1, <1>3, <1>4, Growth, Counting, EvidenceKept
<1>5. CASE RecordFails(<<gate>>) /\ UNCHANGED registryVars
  BY <1>1, <1>3, <1>5, Growth, Counting, EvidenceKept
<1>6. CASE Recorded(<<gate, promoted(FALSE)>>) /\ UNCHANGED registryVars
  BY <1>1, <1>3, <1>6, Growth, Counting, EvidenceKept
<1>7. CASE /\ \/ Recorded(<<gate, promoted(TRUE)>>)
              \/ RecordFails(<<gate>>)
           /\ Promote(c, e)
  <2>1. PICK records \in Seq(Entry), failed \in BOOLEAN :
          /\ Grows(records) /\ Counts(failed)
          /\ Len(records) = IF failed THEN 1 ELSE 2
          /\ records[1] = gate
    <3>1. CASE Recorded(<<gate, promoted(TRUE)>>)
      <4>1. Grows(<<gate, promoted(TRUE)>>) /\ Counts(FALSE)
        BY <1>1, <1>3, <3>1, Growth, Counting
      <4>2. QED  BY <1>3, <4>1
    <3>2. CASE RecordFails(<<gate>>)
      <4>1. Grows(<<gate>>) /\ Counts(TRUE)
        BY <1>1, <1>3, <3>2, Growth, Counting
      <4>2. QED  BY <1>3, <4>1
    <3>3. QED  BY <1>7, <3>1, <3>2
  <2>2. /\ e \in 1..Len(journal') /\ e \in 1..MaxRecords
        /\ Len(journal) <= e
        /\ failed \/ e < Len(journal')
        /\ journal'[e] = gate
    BY <1>1, <2>1, LifecycleAssumption DEF Grows
  <2>3. /\ Happens("PROMOTION", c, e) /\ OneActive' /\ active' \in Policy
        /\ status' \in [Policy -> {"unregistered", "candidate", "active",
                                   "inactive", "rolled_back"}]
    BY <1>7, <2>2, PromoteStep
  <2> HIDE DEF e
  <2>4. QED  BY <1>1, <2>1, <2>2, <2>3, EvidenceAdded DEF gate
<1>8. QED  BY <1>4, <1>5, <1>6, <1>7 DEF ApplyGate, gate, promoted

\* A plan names the active policy and the one before it.
LEMMA KeepsCreatePlan ==
  ASSUME IInv, CreatePlan
  PROVE  IInv'
<1> DEFINE i == LastPromotion(Standing)
           plan == [candidate |-> active, control |-> history[i].from]
<1>1. journal \in Seq(Entry) /\ plans \subseteq Plan /\ history \in Seq(Event)
  BY DEF IInv, TypeOK, Event
<1>2. i \in 1..Len(history) /\ history[i].type = "PROMOTION" /\ history[i].to = active
  BY <1>1, LatestStands DEF CreatePlan, IInv, Standing
<1>3. history[i] \in Promotion
  <2> HIDE DEF i
  <2>1. history[i] \in Event
    BY <1>1, <1>2, ElementOfSeq
  <2>2. QED  BY <1>2, <2>1 DEF Event, Rollback
<1>4. plan \in Plan
  <2> HIDE DEF i
  <2>1. QED  BY <1>2, <1>3 DEF Promotion, Plan
<1>5. <<Planned(plan)>> \in Seq(Entry)
  <2> HIDE DEF plan
  <2>1. QED  BY <1>4 DEF Planned, Entry
<1>6. Recorded(<<Planned(plan)>>) /\ plans' = plans \cup {plan} /\ UNCHANGED registryVars
  BY DEF CreatePlan
<1> HIDE DEF plan
<1>7. QED  BY <1>1, <1>4, <1>5, <1>6, Growth, Counting, EvidenceKept

\* An evaluation is written down.
LEMMA KeepsEvaluate ==
  ASSUME IInv, NEW plan \in plans, Evaluate(plan)
  PROVE  IInv'
<1>1. journal \in Seq(Entry) /\ plans \subseteq Plan
  BY DEF IInv, TypeOK
<1>2. <<Aborted(plan)>> \in Seq(Entry) /\ <<NoChange>> \in Seq(Entry)
  BY <1>1 DEF Aborted, NoChange, Entry
<1>3. UNCHANGED registryVars /\ plans' \subseteq Plan
  BY <1>1 DEF Evaluate
<1>4. CASE Recorded(<<Aborted(plan)>>)
  BY <1>1, <1>2, <1>3, <1>4, Growth, Counting, EvidenceKept
<1>5. CASE Recorded(<<NoChange>>)
  BY <1>1, <1>2, <1>3, <1>5, Growth, Counting, EvidenceKept
<1>6. QED  BY <1>4, <1>5 DEF Evaluate

\* A rollback rests on the evaluation at the end of the journal.
LEMMA KeepsApplyEvaluation ==
  ASSUME IInv, NEW plan \in plans, ApplyEvaluation(plan)
  PROVE  IInv'
<1> DEFINE e == Len(journal)
           change == RolledBack(active')
<1>1. /\ journal \in Seq(Entry) /\ plans' \subseteq Plan /\ e \in 1..MaxRecords
      /\ journal[e].type = "CANARY_EVALUATION"
  BY LifecycleAssumption DEF IInv, TypeOK, ApplyEvaluation, Last, Aborted
<1>2. /\ Happens("ROLLBACK", active', e) /\ OneActive' /\ active' \in Policy
      /\ status' \in [Policy -> {"unregistered", "candidate", "active",
                                 "inactive", "rolled_back"}]
  BY <1>1, RollBackStep DEF ApplyEvaluation
<1>3. change \in Entry
  BY <1>2 DEF RolledBack, Entry
<1> HIDE DEF change
<1>4. /\ <<change>> \in Seq(Entry) /\ Len(<<change>>) = 1
      /\ <<>> \in Seq(Entry) /\ Len(<<>>) = 0
  BY <1>3
<1>5. PICK records \in Seq(Entry), failed \in BOOLEAN :
        /\ Grows(records) /\ Counts(failed)
        /\ failed \/ Len(records) = 1
  <2>1. CASE Recorded(<<change>>)
    <3>1. Grows(<<change>>) /\ Counts(FALSE)
      BY <1>1, <1>4, <2>1, Growth, Counting
    <3>2. QED  BY <1>4, <3>1
  <2>2. CASE RecordFails(<<>>)
    <3>1. Grows(<<>>) /\ Counts(TRUE)
      BY <1>1, <1>4, <2>2, Growth, Counting
    <3>2. QED  BY <1>4, <3>1
  <2>3. QED  BY <2>1, <2>2 DEF ApplyEvaluation, change
<1>6. /\ e \in 1..Len(journal') /\ e <= e
      /\ failed \/ e < Len(journal')
      /\ journal'[e].type = "CANARY_EVALUATION"
  <2>1. e \in Nat /\ e >= 1 /\ Len(records) \in Nat
    BY <1>1, LifecycleAssumption
  <2>2. Len(journal') = e + Len(records)
    BY <1>5 DEF Grows
  <2>3. journal'[e] = journal[e]
    BY <1>5, <2>1 DEF Grows
  <2>4. journal'[e].type = "CANARY_EVALUATION"
    BY <1>1, <2>3
  <2> HIDE DEF e
  <2>5. e \in 1..Len(journal') /\ e <= e
    BY <2>1, <2>2
  <2>6. Len(records) = 1 => e < Len(journal')
    BY <2>1, <2>2
  <2>7. QED  BY <1>5, <2>4, <2>5, <2>6, Zenon
<1>7. QED  BY <1>1, <1>2, <1>5, <1>6, EvidenceAdded
-----------------------------------------------------------------------------
(* The theorems *)

\* The strengthening holds for every set of policies and every length of the
\* journal.
THEOREM Inductive == Spec => []IInv
<1>1. IInv /\ [Next]_vars => IInv'
  <2> SUFFICES ASSUME IInv, [Next]_vars
               PROVE  IInv'
    OBVIOUS
  <2>1. CASE UNCHANGED vars
    BY <2>1 DEF vars, IInv, TypeOK, OneActive, EvidenceStands, EvidenceIsFresh,
                Supports, Authorized
  <2>2. CASE Next
    BY <2>2, KeepsRegister, KeepsHoldGate, KeepsApplyGate, KeepsCreatePlan,
       KeepsEvaluate, KeepsApplyEvaluation DEF Next
  <2>3. QED  BY <2>1, <2>2
<1>2. QED  BY Initially, <1>1, PTL DEF Spec

\* The registry never has two active policies, nor an active one whose status
\* says otherwise, through any sequence of promotions and rollbacks.
THEOREM StaysOneActive == Spec => []OneActive
  BY Inductive, Enough, PTL

\* Every promotion rests on an authorized gate of its candidate and every
\* rollback on an aborted canary that the journal had before the change; no
\* record carries two changes while every append succeeds.
THEOREM RestsOnEvidence == Spec => []EvidenceFirst
  BY Inductive, Enough, PTL
-----------------------------------------------------------------------------
(* What a step is: it leaves the registry's history alone, or changes it on *)
(* evidence from the end of the journal                                     *)

Unchanging(records) ==
  /\ Grows(records)
  /\ faults' = 0 => faults = 0
  /\ active' = active /\ history' = history
  /\ \A i \in 1..Len(records) : ~TellsChange(records[i])
  /\ \A i \in 1..Len(records), plan \in Plan : records[i] = Planned(plan) => plan.candidate = active
  /\ \A plan \in plans' : plan \in plans \/ plan.candidate = active

Changing(records, e) ==
  /\ Grows(records)
  /\ faults' = 0 => faults = 0 /\ records # <<>>
                    /\ TellsChange(records[Len(records)])
                    /\ records[Len(records)].to = active'
  /\ \A i \in 1..Len(records), plan \in Plan : records[i] # Planned(plan)
  /\ plans' = plans
  /\ e \in DOMAIN journal'
  /\ \/ e = Len(journal) + 1 /\ \E c \in Policy : Promote(c, e)
     \/ e = Len(journal) /\ RollBack(e) /\ \E plan \in plans : journal[e] = Aborted(plan)

\* The kinds of records differ in what they tell.
LEMMA Tells ==
  /\ \A c : /\ Authorized(c) \in [type : {"PROMOTION_GATE"}, to : {c}]
            /\ ~TellsChange(Authorized(c))
            /\ ~TellsChange(Promoted(c, FALSE))
            /\ TellsChange(Promoted(c, TRUE)) /\ Promoted(c, TRUE).to = c
            /\ TellsChange(RolledBack(c)) /\ RolledBack(c).to = c
  /\ \A plan : ~TellsChange(Planned(plan)) /\ ~TellsChange(Aborted(plan))
  /\ ~TellsChange(NoChange)
  BY DEF TellsChange, Authorized, Promoted, Planned, Aborted, RolledBack, NoChange

LEMMA PlansDiffer ==
  /\ \A c, plan : Authorized(c) # Planned(plan)
  /\ \A c, plan : Promoted(c, TRUE) # Planned(plan) /\ Promoted(c, FALSE) # Planned(plan)
  /\ \A c, plan : RolledBack(c) # Planned(plan)
  /\ \A plan : NoChange # Planned(plan)
  /\ \A plan, other : Aborted(other) # Planned(plan)
  /\ \A plan, other : Planned(other) = Planned(plan) => other = plan
<1>1. \A plan : Planned(plan).type = "CANARY_PLAN" /\ Planned(plan).plan = plan
  BY DEF Planned
<1>2. \A c, plan : /\ Authorized(c).type # "CANARY_PLAN"
                   /\ Promoted(c, TRUE).type # "CANARY_PLAN"
                   /\ Promoted(c, FALSE).type # "CANARY_PLAN"
                   /\ RolledBack(c).type # "CANARY_PLAN"
                   /\ NoChange.type # "CANARY_PLAN"
                   /\ Aborted(plan).type # "CANARY_PLAN"
  BY DEF Authorized, Promoted, RolledBack, NoChange, Aborted
<1>3. QED  BY <1>1, <1>2

\* Every record is of one of these kinds.
LEMMA Entries ==
  /\ \A c \in Policy : /\ Authorized(c) \in Entry /\ RolledBack(c) \in Entry
                       /\ Promoted(c, TRUE) \in Entry /\ Promoted(c, FALSE) \in Entry
  /\ \A plan \in Plan : Planned(plan) \in Entry /\ Aborted(plan) \in Entry
  /\ NoChange \in Entry
  BY DEF Entry, Authorized, RolledBack, Promoted, Planned, Aborted, NoChange

\* A step that writes nothing, or one record that tells of no change.
LEMMA OneRecord ==
  ASSUME IInv, NEW r \in Entry, ~TellsChange(r), Recorded(<<r>>) \/ RecordFails(<<r>>),
         \A plan \in Plan : r = Planned(plan) => plan.candidate = active,
         UNCHANGED registryVars, \A plan \in plans' : plan \in plans \/ plan.candidate = active
  PROVE  Unchanging(<<r>>) /\ <<r>> \in Seq(Entry)
<1>1. <<r>> \in Seq(Entry) /\ Len(<<r>>) = 1 /\ <<r>>[1] = r
  OBVIOUS
<1>2. Grows(<<r>>)
  BY <1>1, Growth DEF IInv
<1>3. faults' = 0 => faults = 0
  BY Counting DEF Counts
<1>4. \A i \in 1..Len(<<r>>) : i = 1
  BY <1>1
<1>5. QED  BY <1>1, <1>2, <1>3, <1>4 DEF Unchanging, registryVars

LEMMA NoRecord ==
  ASSUME IInv, Recorded(<<>>) \/ RecordFails(<<>>) \/ (UNCHANGED <<journal, faults>>),
         active' = active, history' = history, plans' = plans
  PROVE  Unchanging(<<>>) /\ <<>> \in Seq(Entry)
<1>1. <<>> \in Seq(Entry) /\ Len(<<>>) = 0
  OBVIOUS
<1>2. Grows(<<>>)
  <2>1. CASE Recorded(<<>>) \/ RecordFails(<<>>)
    BY <1>1, <2>1, Growth DEF IInv
  <2>2. CASE UNCHANGED <<journal, faults>>
    BY <2>2 DEF IInv, TypeOK, Grows
  <2>3. QED  BY <2>1, <2>2
<1>3. faults' = 0 => faults = 0
  BY Counting DEF Counts
<1>4. QED  BY <1>1, <1>2, <1>3 DEF Unchanging

LEMMA GateShape ==
  ASSUME IInv, NEW c \in Policy, ApplyGate(c)
  PROVE  \/ \E records \in Seq(Entry) : Unchanging(records)
         \/ \E records \in Seq(Entry), e \in Nat : Changing(records, e)
<1> DEFINE gate == Authorized(c)
           e == Len(journal) + 1
<1>1. gate \in Entry /\ ~TellsChange(gate) /\ \A plan \in Plan : gate # Planned(plan)
  BY Entries, Tells, PlansDiffer
<1>2. plans' = plans
  BY DEF ApplyGate
<1>3. CASE (Recorded(<<gate>>) \/ RecordFails(<<gate>>)) /\ UNCHANGED registryVars
  BY <1>1, <1>2, <1>3, OneRecord
<1>4. CASE Recorded(<<gate, Promoted(c, FALSE)>>) /\ UNCHANGED registryVars
  <2> DEFINE last == Promoted(c, FALSE)
             records == <<gate, last>>
  <2>1. last \in Entry /\ ~TellsChange(last) /\ \A plan \in Plan : last # Planned(plan)
    BY Entries, Tells, PlansDiffer
  <2>2. /\ records \in Seq(Entry) /\ Len(records) = 2
        /\ \A i \in 1..2 : records[i] \in {gate, last}
    <3> HIDE DEF gate, last
    <3>1. QED  BY <1>1, <2>1
  <2>3. Grows(records) /\ (faults' = 0 => faults = 0)
    BY <1>4, <2>2, Growth, Counting DEF IInv, Counts
  <2> HIDE DEF records, last
  <2>4. Unchanging(records)
    BY <1>1, <1>2, <1>4, <2>1, <2>2, <2>3 DEF Unchanging, registryVars
  <2>5. QED  BY <2>2, <2>4
<1>5. CASE /\ Recorded(<<gate, Promoted(c, TRUE)>>) \/ RecordFails(<<gate>>)
           /\ Promote(c, e)
  <2>0. e \in Nat /\ active' = c /\ Len(journal) \in Nat
    BY <1>5 DEF IInv, TypeOK, Promote
  <2>1. CASE Recorded(<<gate, Promoted(c, TRUE)>>)
    <3> DEFINE last == Promoted(c, TRUE)
               records == <<gate, last>>
    <3>1. last \in Entry /\ TellsChange(last) /\ last.to = c
          /\ \A plan \in Plan : last # Planned(plan)
      BY Entries, Tells, PlansDiffer
    <3>2. /\ records \in Seq(Entry) /\ Len(records) = 2 /\ records[2] = last
          /\ \A i \in 1..2 : records[i] \in {gate, last}
      <4> HIDE DEF gate, last
      <4>1. QED  BY <1>1, <3>1
    <3>3. Grows(records) /\ (faults' = 0 => faults = 0)
      BY <2>1, <3>2, Growth, Counting DEF IInv, Counts
    <3>4. e \in DOMAIN journal'
      <4> HIDE DEF records
      <4>1. QED  BY <2>0, <3>2, <3>3 DEF Grows
    <3> HIDE DEF records, last, gate
    <3>5. Changing(records, e)
      <4>1. \A i \in 1..Len(records), plan \in Plan : records[i] # Planned(plan)
        BY <1>1, <3>1, <3>2
      <4>2. faults' = 0 => /\ faults = 0 /\ records # <<>>
                           /\ TellsChange(records[Len(records)])
                           /\ records[Len(records)].to = active'
        BY <2>0, <3>1, <3>2, <3>3
      <4>3. QED  BY <1>2, <1>5, <3>3, <3>4, <4>1, <4>2 DEF Changing
    <3>6. QED  BY <2>0, <3>2, <3>5
  <2>2. CASE RecordFails(<<gate>>)
    <3> DEFINE records == <<gate>>
    <3>1. /\ records \in Seq(Entry) /\ Len(records) = 1 /\ records[1] = gate
      <4> HIDE DEF gate
      <4>1. QED  BY <1>1
    <3>2. Grows(records) /\ faults' # 0
      BY <2>2, <3>1, Growth, Counting DEF IInv, Counts
    <3>3. e \in DOMAIN journal'
      <4> HIDE DEF records
      <4>1. QED  BY <2>0, <3>1, <3>2 DEF Grows
    <3> HIDE DEF records
    <3>4. \A i \in 1..Len(records), plan \in Plan : records[i] # Planned(plan)
      BY <1>1, <3>1
    <3>5. Changing(records, e)
      BY <1>2, <1>5, <2>0, <3>2, <3>3, <3>4 DEF Changing
    <3>6. QED  BY <2>0, <3>1, <3>5
  <2>3. QED  BY <1>5, <2>1, <2>2
<1>6. QED  BY <1>3, <1>4, <1>5 DEF ApplyGate

LEMMA EvaluationShape ==
  ASSUME IInv, NEW plan \in plans, ApplyEvaluation(plan)
  PROVE  \E records \in Seq(Entry), e \in Nat : Changing(records, e)
<1> DEFINE e == Len(journal)
           last == RolledBack(active')
<1>0. e \in Nat /\ journal # <<>> /\ journal[e] = Aborted(plan) /\ RollBack(e) /\ plans' = plans
  BY DEF IInv, TypeOK, ApplyEvaluation, Last
<1>1. active' \in Policy
  <2>1. e \in 1..MaxRecords
    BY <1>0, LifecycleAssumption DEF IInv, TypeOK
  <2>2. QED  BY <1>0, <2>1, RollBackStep
<1>2. /\ last \in Entry /\ TellsChange(last) /\ last.to = active'
      /\ \A p \in Plan : last # Planned(p)
  BY <1>1, Entries, Tells, PlansDiffer
<1>3. ASSUME NEW records \in Seq(Entry), Grows(records)
      PROVE  e \in DOMAIN journal'
  <2>1. Len(records) \in Nat /\ e \in 1..e
    BY <1>0 DEF IInv
  <2>2. QED  BY <1>0, <1>3, <2>1 DEF Grows
<1>4. CASE Recorded(<<last>>)
  <2> DEFINE records == <<last>>
  <2>1. records \in Seq(Entry) /\ Len(records) = 1 /\ records[1] = last
    <3> HIDE DEF last
    <3>1. QED  BY <1>2
  <2>2. Grows(records) /\ (faults' = 0 => faults = 0)
    BY <1>4, <2>1, Growth, Counting DEF IInv, Counts
  <2>3. e \in DOMAIN journal'
    BY <1>3, <2>1, <2>2
  <2> HIDE DEF records, last
  <2>4. Changing(records, e)
    <3>1. \A i \in 1..Len(records), p \in Plan : records[i] # Planned(p)
      BY <1>2, <2>1
    <3>2. faults' = 0 => /\ faults = 0 /\ records # <<>>
                         /\ TellsChange(records[Len(records)])
                         /\ records[Len(records)].to = active'
      <4>1. records # <<>> /\ records[Len(records)] = last
        BY <2>1
      <4>2. QED  BY <1>2, <2>2, <4>1
    <3>3. QED  BY <1>0, <2>2, <2>3, <3>1, <3>2 DEF Changing
  <2>5. QED  BY <1>0, <2>1, <2>4
<1>5. CASE RecordFails(<<>>)
  <2>1. <<>> \in Seq(Entry) /\ Len(<<>>) = 0
    OBVIOUS
  <2>2. Grows(<<>>) /\ faults' # 0
    BY <1>5, <2>1, Growth, Counting DEF IInv, Counts
  <2>3. e \in DOMAIN journal'
    BY <1>3, <2>1, <2>2
  <2>4. Changing(<<>>, e)
    BY <1>0, <2>1, <2>2, <2>3 DEF Changing
  <2>5. QED  BY <1>0, <2>1, <2>4
<1>6. QED  BY <1>4, <1>5 DEF ApplyEvaluation

LEMMA StepShape ==
  ASSUME IInv, [Next]_vars
  PROVE  \/ \E records \in Seq(Entry) : Unchanging(records)
         \/ \E records \in Seq(Entry), e \in Nat : Changing(records, e)
<1>1. CASE UNCHANGED vars
  BY <1>1, NoRecord DEF vars
<1>2. CASE CreatePlan
  <2>1. PICK plan \in Plan : /\ Recorded(<<Planned(plan)>>)
                             /\ plan.candidate = active
                             /\ plans' = plans \cup {plan}
                             /\ UNCHANGED registryVars
    <3>1. PICK plan : /\ plan.candidate = active
                      /\ Recorded(<<Planned(plan)>>) /\ plans' = plans \cup {plan}
      BY <1>2 DEF CreatePlan
    <3>2. plan \in Plan
      BY <1>2, <3>1, KeepsCreatePlan DEF IInv, TypeOK
    <3>3. QED  BY <1>2, <3>1, <3>2 DEF CreatePlan
  <2>2. /\ Planned(plan) \in Entry /\ ~TellsChange(Planned(plan))
        /\ \A p \in Plan : Planned(plan) = Planned(p) => p.candidate = active
    BY <2>1, Entries, Tells, PlansDiffer
  <2>3. \A p \in plans' : p \in plans \/ p.candidate = active
    BY <2>1
  <2>4. QED  BY <2>1, <2>2, <2>3, OneRecord
<1>3. CASE HoldGate
  <2>1. CASE Recorded(<<NoChange>>)
    BY <1>3, <2>1, Entries, Tells, PlansDiffer, OneRecord DEF HoldGate
  <2>2. CASE RecordFails(<<>>)
    BY <1>3, <2>2, NoRecord DEF HoldGate, registryVars
  <2>3. QED  BY <1>3, <2>1, <2>2 DEF HoldGate
<1>4. ASSUME NEW p \in Policy, Register(p)
      PROVE  \E records \in Seq(Entry) : Unchanging(records)
  BY <1>4, NoRecord DEF Register
<1>5. ASSUME NEW p \in Policy, ApplyGate(p)
      PROVE  \/ \E records \in Seq(Entry) : Unchanging(records)
             \/ \E records \in Seq(Entry), e \in Nat : Changing(records, e)
  BY <1>5, GateShape
<1>6. ASSUME NEW plan \in plans, Evaluate(plan)
      PROVE  \E records \in Seq(Entry) : Unchanging(records)
  <2>1. plan \in Plan
    BY DEF IInv, TypeOK
  <2>2. CASE Recorded(<<NoChange>>)
    BY <1>6, <2>2, Entries, Tells, PlansDiffer, OneRecord DEF Evaluate
  <2>3. CASE Recorded(<<Aborted(plan)>>)
    <3>1. /\ Aborted(plan) \in Entry /\ ~TellsChange(Aborted(plan))
          /\ \A p \in Plan : Aborted(plan) # Planned(p)
      BY <2>1, Entries, Tells, PlansDiffer
    <3>2. QED  BY <1>6, <2>3, <3>1, OneRecord DEF Evaluate
  <2>4. QED  BY <1>6, <2>2, <2>3 DEF Evaluate
<1>7. ASSUME NEW plan \in plans, ApplyEvaluation(plan)
      PROVE  \E records \in Seq(Entry), e \in Nat : Changing(records, e)
  BY <1>7, EvaluationShape
<1>8. QED  BY <1>1, <1>2, <1>3, <1>4, <1>5, <1>6, <1>7 DEF Next
-----------------------------------------------------------------------------
(* The journal tells which policy is active *)

LEMMA TellsStep ==
  ASSUME IInv, JournalTellsActive, [Next]_vars
  PROVE  JournalTellsActive'
<1> DEFINE changes == {i \in DOMAIN journal : TellsChange(journal[i])}
<1>0. /\ DOMAIN journal = 1..Len(journal) /\ Len(journal) \in Nat
      /\ faults = 0 => /\ changes = {} => history = <<>>
                       /\ \A i \in changes :
                            (\A j \in changes : j <= i) => active = journal[i].to
  BY DEF IInv, JournalTellsActive
<1> HIDE DEF changes
<1>1. ASSUME NEW records \in Seq(Entry), Unchanging(records)
      PROVE  JournalTellsActive'
  <2>1. /\ DOMAIN journal' = 1..(Len(journal) + Len(records))
        /\ Len(records) \in Nat
        /\ \A i \in 1..Len(journal) : journal'[i] = journal[i]
        /\ \A i \in 1..Len(records) : journal'[Len(journal) + i] = records[i]
    BY <1>1 DEF Unchanging, Grows
  <2>2. ASSUME NEW i \in DOMAIN journal', TellsChange(journal'[i])
        PROVE  i \in changes
    <3>1. CASE i \in 1..Len(journal)
      BY <1>0, <2>1, <2>2, <3>1 DEF changes
    <3>2. CASE i \notin 1..Len(journal)
      <4>1. PICK k \in 1..Len(records) : i = Len(journal) + k
        <5>1. i - Len(journal) \in 1..Len(records) /\ i = Len(journal) + (i - Len(journal))
          BY <1>0, <2>1, <3>2
        <5>2. QED  BY <5>1
      <4>2. QED  BY <1>1, <2>1, <2>2, <4>1 DEF Unchanging
    <3>3. QED  BY <3>1, <3>2
  <2>3. ASSUME NEW i \in changes
        PROVE  i \in DOMAIN journal' /\ journal'[i] = journal[i]
    BY <1>0, <2>1 DEF changes
  <2>4. {i \in DOMAIN journal' : TellsChange(journal'[i])} = changes
    BY <2>2, <2>3 DEF changes
  <2>5. (faults' = 0 => faults = 0) /\ active' = active /\ history' = history
    BY <1>1 DEF Unchanging
  <2>6. QED  BY <1>0, <2>3, <2>4, <2>5 DEF JournalTellsActive, TellsChange
<1>2. ASSUME NEW records \in Seq(Entry), NEW e \in Nat, Changing(records, e)
      PROVE  JournalTellsActive'
  <2> SUFFICES ASSUME faults' = 0
               PROVE  /\ {i \in DOMAIN journal' : TellsChange(journal'[i])} # {}
                      /\ \A i \in DOMAIN journal' :
                           (\A j \in DOMAIN journal' : TellsChange(journal'[j]) => j <= i)
                             => active' = journal'[i].to
    BY DEF JournalTellsActive, TellsChange
  <2> DEFINE n == Len(journal')
  <2>1. /\ DOMAIN journal' = 1..n /\ n \in Nat
        /\ n = Len(journal) + Len(records) /\ Len(records) \in Nat /\ Len(records) # 0
        /\ journal'[n] = records[Len(records)]
        /\ TellsChange(records[Len(records)])
        /\ records[Len(records)].to = active'
    <3>1. Grows(records) /\ records # <<>>
      BY <1>2 DEF Changing
    <3>2. Len(records) \in 1..Len(records)
      BY <3>1
    <3>3. journal'[Len(journal) + Len(records)] = records[Len(records)]
      BY <3>1, <3>2 DEF Grows
    <3>4. n = Len(journal) + Len(records) /\ Len(records) # 0 /\ Len(records) \in Nat
      BY <3>1 DEF Grows
    <3>5. DOMAIN journal' = 1..n
      BY <3>1 DEF Grows
    <3>6. /\ TellsChange(records[Len(records)])
          /\ records[Len(records)].to = active'
      BY <1>2 DEF Changing
    <3>7. journal'[n] = records[Len(records)]
      BY <3>3, <3>4
    <3> HIDE DEF n
    <3>8. n \in Nat
      BY <1>0, <3>4
    <3>9. QED  BY <3>4, <3>5, <3>6, <3>7, <3>8, Zenon
  <2> HIDE DEF n
  <2>2. n \in DOMAIN journal' /\ TellsChange(journal'[n])
    BY <1>0, <2>1
  <2>3. QED  BY <2>1, <2>2
<1>3. QED  BY <1>1, <1>2, StepShape

\* As long as every append succeeds, the last record of a change in the journal
\* names the active policy, through every sequence of promotions, promotions of
\* the active policy, canaries and rollbacks.
THEOREM JournalAlwaysTellsActive == Spec => []JournalTellsActive
<1>1. Init => JournalTellsActive
  BY DEF Init, JournalTellsActive
<1>2. IInv /\ JournalTellsActive /\ [Next]_vars => JournalTellsActive'
  BY TellsStep
<1>3. QED  BY <1>1, <1>2, Inductive, PTL DEF Spec
-----------------------------------------------------------------------------
(* Rollbacks hit the policy whose canary failed *)

\* A plan is for the active policy, or the registry changed after every record
\* of it.
PlansFit ==
  \A plan \in plans :
    \/ active = plan.candidate
    \/ \E i \in DOMAIN history : \A m \in DOMAIN journal :
         journal[m] = Planned(plan) => history[i].evidence > m

\* The part of the property that is about one rollback.
HitsCandidate(k) ==
  history[k].type = "ROLLBACK" =>
    LET plan == journal[history[k].evidence].plan
        made == {i \in 1..history[k].evidence : journal[i] = Planned(plan)}
    IN  \/ history[k].from = plan.candidate
        \/ \E i \in 1..k - 1 : \A m \in made : history[i].evidence > m

\* A promotion adds an event.
LEMMA PromoteDoes ==
  ASSUME IInv, NEW c \in Policy, NEW e \in Nat, Promote(c, e)
  PROVE  /\ Len(history) \in Nat
         /\ Len(history') = Len(history) + 1 /\ DOMAIN history' = 1..(Len(history) + 1)
         /\ \A j \in 1..Len(history) : history'[j] = history[j]
         /\ LET event == history'[Len(history) + 1] IN
              /\ event.type = "PROMOTION" /\ event.from = active /\ event.to = c
              /\ event.evidence = e /\ event.undone = FALSE
         /\ active' = c
  BY DEF Promote, IInv, TypeOK

\* A rollback marks the promotion it undoes, and adds an event.
LEMMA RollBackDoes ==
  ASSUME IInv, NEW e \in Nat, RollBack(e)
  PROVE  LET i == LastPromotion(Standing) IN
         /\ Len(history) \in Nat
         /\ Len(history') = Len(history) + 1 /\ DOMAIN history' = 1..(Len(history) + 1)
         /\ i \in Standing /\ i \in 1..Len(history)
         /\ \A j \in 1..Len(history) : /\ history'[j].type = history[j].type
                                       /\ history'[j].to = history[j].to
                                       /\ history'[j].from = history[j].from
                                       /\ history'[j].evidence = history[j].evidence
                                       /\ j # i => history'[j] = history[j]
         /\ history'[i].undone
         /\ LET event == history'[Len(history) + 1] IN
              event.type = "ROLLBACK" /\ event.from = active /\ event.evidence = e
         /\ active' = history[i].from
<1> DEFINE i == LastPromotion(Standing)
           undone == [history[i] EXCEPT !.undone = TRUE]
           rest == [history EXCEPT ![i].undone = TRUE]
           event == [type |-> "ROLLBACK", from |-> active, to |-> history[i].from,
                     evidence |-> e, undone |-> FALSE]
<1>0. history \in Seq(Event) /\ DOMAIN history = 1..Len(history) /\ Len(history) \in Nat
  BY DEF IInv, TypeOK, Event
<1>1. i \in Standing /\ i \in 1..Len(history) /\ history[i] \in Promotion
  <2>1. i \in Standing
    BY LatestStands DEF RollBack, IInv
  <2>2. i \in 1..Len(history) /\ history[i].type = "PROMOTION"
    BY <1>0, <2>1 DEF Standing
  <2> HIDE DEF i
  <2>3. history[i] \in Event
    BY <1>0, <2>2
  <2>4. QED  BY <2>1, <2>2, <2>3 DEF Event, Rollback
<1>2. history' = Append(rest, event) /\ active' = history[i].from
  BY DEF RollBack
<1> HIDE DEF i
<1>3. /\ undone.type = history[i].type /\ undone.to = history[i].to
      /\ undone.from = history[i].from /\ undone.evidence = history[i].evidence
      /\ undone.undone /\ undone \in Event
  BY <1>1 DEF Promotion, Event
<1>4. /\ rest \in Seq(Event) /\ Len(rest) = Len(history)
      /\ \A j \in 1..Len(history) : rest[j] = IF j = i THEN undone ELSE history[j]
  <2>1. rest = [history EXCEPT ![i] = undone]
    OBVIOUS
  <2> HIDE DEF rest, undone
  <2>2. QED  BY <1>0, <1>1, <1>3, <2>1, ExceptSeq
<1> HIDE DEF rest, undone
<1>5. /\ DOMAIN history' = 1..(Len(history) + 1)
      /\ Len(history') = Len(history) + 1
      /\ \A j \in 1..Len(history) : history'[j] = rest[j]
      /\ history'[Len(history) + 1] = event
  <2> HIDE DEF event
  <2>1. QED  BY <1>0, <1>2, <1>4
<1>6. \A j \in 1..Len(history) : /\ history'[j].type = history[j].type
                                 /\ history'[j].to = history[j].to
                                 /\ history'[j].from = history[j].from
                                 /\ history'[j].evidence = history[j].evidence
                                 /\ j # i => history'[j] = history[j]
  BY <1>3, <1>4, <1>5
<1>7. history'[i].undone
  BY <1>1, <1>3, <1>4, <1>5
<1>8. QED  BY <1>0, <1>1, <1>2, <1>5, <1>6, <1>7 DEF i

\* What a change of the registry keeps of the history, and what it adds.
LEMMA ChangeDoes ==
  ASSUME IInv, NEW records \in Seq(Entry), NEW e \in Nat, Changing(records, e)
  PROVE  /\ DOMAIN history = 1..Len(history) /\ Len(history) \in Nat
         /\ DOMAIN history' = 1..(Len(history) + 1)
         /\ \A i \in 1..Len(history) : /\ history'[i].type = history[i].type
                                       /\ history'[i].from = history[i].from
                                       /\ history'[i].evidence = history[i].evidence
         /\ history'[Len(history) + 1].from = active
         /\ history'[Len(history) + 1].evidence = e
         /\ history'[Len(history) + 1].type = "ROLLBACK" =>
              \E plan \in plans : journal[e] = Aborted(plan) /\ e \in DOMAIN journal
<1>0. DOMAIN history = 1..Len(history)
  BY DEF IInv, TypeOK
<1>1. ASSUME NEW c \in Policy, Promote(c, e)
      PROVE  /\ Len(history) \in Nat
             /\ DOMAIN history' = 1..(Len(history) + 1)
             /\ \A i \in 1..Len(history) : history'[i] = history[i]
             /\ history'[Len(history) + 1].from = active
             /\ history'[Len(history) + 1].evidence = e
             /\ history'[Len(history) + 1].type = "PROMOTION"
  BY <1>1, PromoteDoes
<1>2. CASE e = Len(journal) /\ RollBack(e) /\ \E plan \in plans : journal[e] = Aborted(plan)
  <2>1. e \in DOMAIN journal
    <3>1. e \in DOMAIN journal' /\ DOMAIN journal' = 1..Len(journal')
      BY DEF Changing, Grows
    <3>2. e # 0
      BY <3>1
    <3>3. QED  BY <1>2, <3>2 DEF IInv
  <2>2. /\ Len(history) \in Nat
        /\ DOMAIN history' = 1..(Len(history) + 1)
        /\ \A j \in 1..Len(history) : /\ history'[j].type = history[j].type
                                       /\ history'[j].from = history[j].from
                                       /\ history'[j].evidence = history[j].evidence
        /\ history'[Len(history) + 1].from = active
        /\ history'[Len(history) + 1].evidence = e
    BY <1>2, RollBackDoes
  <2>3. QED  BY <1>0, <1>2, <2>1, <2>2
<1>3. QED  BY <1>0, <1>1, <1>2 DEF Changing

LEMMA PlansStep ==
  ASSUME IInv, PlansFit, [Next]_vars
  PROVE  PlansFit'
<1>0. DOMAIN journal = 1..Len(journal) /\ Len(journal) \in Nat
  BY DEF IInv
<1>1. ASSUME NEW records \in Seq(Entry), Unchanging(records), NEW plan \in plans',
             active' # plan.candidate
      PROVE  \E i \in DOMAIN history' : \A m \in DOMAIN journal' :
               journal'[m] = Planned(plan) => history'[i].evidence > m
  <2>1. plan \in plans /\ history' = history /\ active' = active
    BY <1>1 DEF Unchanging
  <2>2. PICK i \in DOMAIN history : \A m \in DOMAIN journal :
          journal[m] = Planned(plan) => history[i].evidence > m
    BY <1>1, <2>1 DEF PlansFit
  <2>3. plan \in Plan
    BY <2>1 DEF IInv, TypeOK
  <2>4. ASSUME NEW m \in DOMAIN journal', journal'[m] = Planned(plan)
        PROVE  m \in DOMAIN journal /\ journal[m] = Planned(plan)
    <3>1. /\ DOMAIN journal' = 1..(Len(journal) + Len(records)) /\ Len(records) \in Nat
          /\ \A k \in 1..Len(journal) : journal'[k] = journal[k]
          /\ \A k \in 1..Len(records) : journal'[Len(journal) + k] = records[k]
      BY <1>1 DEF Unchanging, Grows
    <3>2. CASE m \in 1..Len(journal)
      BY <1>0, <2>4, <3>1, <3>2
    <3>3. CASE m \notin 1..Len(journal)
      <4>1. PICK k \in 1..Len(records) : m = Len(journal) + k
        <5>1. m - Len(journal) \in 1..Len(records) /\ m = Len(journal) + (m - Len(journal))
          BY <1>0, <3>1, <3>3
        <5>2. QED  BY <5>1
      <4>2. records[k] = Planned(plan)
        BY <2>4, <3>1, <4>1
      <4>3. QED  BY <1>1, <2>1, <2>3, <4>2 DEF Unchanging
    <3>4. QED  BY <3>2, <3>3
  <2>5. QED  BY <2>1, <2>2, <2>4
<1>2. ASSUME NEW records \in Seq(Entry), NEW e \in Nat, Changing(records, e),
             NEW plan \in plans'
      PROVE  \E i \in DOMAIN history' : \A m \in DOMAIN journal' :
               journal'[m] = Planned(plan) => history'[i].evidence > m
  <2> DEFINE n == Len(history) + 1
  <2>1. n \in DOMAIN history' /\ history'[n].evidence = e
    BY <1>2, ChangeDoes
  <2>2. plan \in Plan
    BY <1>2 DEF Changing, IInv, TypeOK
  <2>3. ASSUME NEW m \in DOMAIN journal', journal'[m] = Planned(plan)
        PROVE  e > m
    <3>1. /\ DOMAIN journal' = 1..(Len(journal) + Len(records)) /\ Len(records) \in Nat
          /\ \A k \in 1..Len(journal) : journal'[k] = journal[k]
          /\ \A k \in 1..Len(records) : journal'[Len(journal) + k] = records[k]
      BY <1>2 DEF Changing, Grows
    <3>2. m \in 1..Len(journal)
      <4>1. ASSUME m \notin 1..Len(journal)
            PROVE  FALSE
        <5>1. PICK k \in 1..Len(records) : m = Len(journal) + k
          <6>1. m - Len(journal) \in 1..Len(records) /\ m = Len(journal) + (m - Len(journal))
            BY <1>0, <3>1, <4>1
          <6>2. QED  BY <6>1
        <5>2. records[k] = Planned(plan)
          BY <2>3, <3>1, <5>1
        <5>3. QED  BY <1>2, <2>2, <5>2 DEF Changing
      <4>2. QED  BY <4>1
    <3>3. CASE e = Len(journal) + 1
      BY <1>0, <3>2, <3>3
    <3>4. CASE e = Len(journal) /\ \E p \in plans : journal[e] = Aborted(p)
      <4>1. journal[m] = Planned(plan)
        BY <2>3, <3>1, <3>2
      <4>2. m # e
        BY <3>4, <4>1, PlansDiffer
      <4>3. QED  BY <1>0, <3>2, <3>4, <4>2
    <3>5. QED  BY <1>2, <3>3, <3>4 DEF Changing
  <2> HIDE DEF n
  <2>4. QED  BY <2>1, <2>3
<1>3. QED  BY <1>1, <1>2, StepShape DEF PlansFit

\* What was said of earlier rollbacks stays true as the journal grows.
LEMMA HitsKept ==
  ASSUME IInv, NEW records \in Seq(Entry), Grows(records),
         NEW k \in DOMAIN history, HitsCandidate(k), k \in DOMAIN history',
         \A i \in DOMAIN history : /\ history'[i].type = history[i].type
                                   /\ history'[i].from = history[i].from
                                   /\ history'[i].evidence = history[i].evidence
  PROVE  HitsCandidate(k)'
<1> DEFINE e == history[k].evidence
<1>1. /\ e \in 1..Len(journal)
      /\ DOMAIN history = 1..Len(history) /\ Len(history) \in Nat
      /\ \A i \in 1..Len(journal) : journal'[i] = journal[i]
  BY DEF IInv, TypeOK, EvidenceStands, Grows
<1>2. history'[k].evidence = e /\ history'[k].type = history[k].type
      /\ history'[k].from = history[k].from
  OBVIOUS
<1>3. \A i \in 1..e : journal'[i] = journal[i]
  <2> HIDE DEF e
  <2>1. \A i \in 1..e : i \in 1..Len(journal)
    BY <1>1 DEF IInv
  <2>2. QED  BY <1>1, <2>1
<1>4. \A i \in 1..k - 1 : i \in DOMAIN history
  BY <1>1
<1>5. e \in 1..e
  BY <1>1
<1> HIDE DEF e
<1>6. SUFFICES ASSUME history[k].type = "ROLLBACK"
               PROVE  \/ history[k].from = journal[e].plan.candidate
                      \/ \E i \in 1..k - 1 : \A m \in 1..e :
                           journal[m] = Planned(journal[e].plan) => history'[i].evidence > m
  BY <1>2, <1>3, <1>5 DEF HitsCandidate
<1>7. \/ history[k].from = journal[e].plan.candidate
      \/ \E i \in 1..k - 1 : \A m \in 1..e :
           journal[m] = Planned(journal[e].plan) => history[i].evidence > m
  BY <1>6 DEF HitsCandidate, e
<1>8. QED  BY <1>4, <1>7

LEMMA HitsStep ==
  ASSUME IInv, PlansFit, RollbackHitsCandidate, [Next]_vars
  PROVE  RollbackHitsCandidate'
<1>0. /\ \A k \in DOMAIN history : HitsCandidate(k)
      /\ DOMAIN history = 1..Len(history) /\ Len(history) \in Nat
  BY DEF RollbackHitsCandidate, HitsCandidate, IInv, TypeOK
<1>1. ASSUME NEW records \in Seq(Entry), Unchanging(records), NEW k \in DOMAIN history'
      PROVE  HitsCandidate(k)'
  <2>1. Grows(records) /\ history' = history
    BY <1>1 DEF Unchanging
  <2>2. QED  BY <1>0, <1>1, <2>1, HitsKept
<1>2. ASSUME NEW records \in Seq(Entry), NEW e \in Nat, Changing(records, e),
             NEW k \in DOMAIN history'
      PROVE  HitsCandidate(k)'
  <2> DEFINE n == Len(history) + 1
  <2>1. CASE k \in 1..Len(history)
    <3>1. Grows(records)
      BY <1>2 DEF Changing
    <3>2. \A i \in DOMAIN history : /\ history'[i].type = history[i].type
                                    /\ history'[i].from = history[i].from
                                    /\ history'[i].evidence = history[i].evidence
      BY <1>2, ChangeDoes
    <3>3. k \in DOMAIN history /\ HitsCandidate(k)
      BY <1>0, <2>1
    <3>4. QED  BY <1>2, <3>1, <3>2, <3>3, HitsKept
  <2>2. CASE k = n
    <3> SUFFICES ASSUME history'[k].type = "ROLLBACK"
                 PROVE  \/ history'[k].from = journal'[e].plan.candidate
                        \/ \E i \in 1..k - 1 : \A m \in 1..e :
                             journal'[m] = Planned(journal'[e].plan) => history'[i].evidence > m
      <4>1. history'[k].evidence = e
        BY <1>2, <2>2, ChangeDoes
      <4>2. QED  BY <4>1 DEF HitsCandidate
    <3>1. PICK plan \in plans : journal[e] = Aborted(plan) /\ e \in DOMAIN journal
      BY <1>2, <2>2, ChangeDoes
    <3>2. /\ DOMAIN journal = 1..Len(journal) /\ Len(journal) \in Nat
          /\ \A m \in 1..Len(journal) : journal'[m] = journal[m]
      BY <1>2 DEF IInv, Changing, Grows
    <3>3. \A m \in 1..e : m \in DOMAIN journal /\ journal'[m] = journal[m]
      BY <3>1, <3>2
    <3>4. journal'[e].plan = plan
      <4>1. e \in 1..e
        BY <3>1, <3>2
      <4>2. journal'[e] = Aborted(plan)
        BY <3>1, <3>3, <4>1
      <4>3. QED  BY <4>2 DEF Aborted
    <3>5. history'[k].from = active
      BY <1>2, <2>2, ChangeDoes
    <3>6. CASE active = plan.candidate
      BY <3>4, <3>5, <3>6
    <3>7. CASE active # plan.candidate
      <4>1. PICK i \in DOMAIN history : \A m \in DOMAIN journal :
              journal[m] = Planned(plan) => history[i].evidence > m
        BY <3>7 DEF PlansFit
      <4>2. i \in 1..k - 1 /\ history'[i].evidence = history[i].evidence
        BY <1>0, <1>2, <2>2, ChangeDoes
      <4>3. QED  BY <3>3, <3>4, <4>1, <4>2
    <3>8. QED  BY <3>6, <3>7
  <2>3. QED
    <3>1. k \in 1..n
      BY <1>2, ChangeDoes
    <3>2. QED  BY <1>0, <2>1, <2>2, <3>1
<1>3. QED
  <2>1. \A k \in DOMAIN history' : HitsCandidate(k)'
    BY <1>1, <1>2, StepShape
  <2>2. QED  BY <2>1 DEF RollbackHitsCandidate, HitsCandidate
-----------------------------------------------------------------------------
(* Rollbacks undo promotions in the reverse order *)

\* The policy that was active before the history begins.
Bottom == IF history = <<>> THEN active ELSE history[1].from

\* The stacks that replaying the history leaves after each of its events.
Replayed(stack, n) == IF n = 0 THEN <<Bottom>>
                      ELSE IF history[n].type = "PROMOTION" THEN Append(stack[n - 1], history[n].to)
                      ELSE Front(stack[n - 1])
IsReplay(stack) == stack = [n \in 0..Len(history) |-> Replayed(stack, n)]

\* The promotions that stand are those whose policies are on the stack, in that
\* order, each made from the policy below its own; idx tells where they are.
Fits(top, idx) ==
  /\ top \in Seq(Policy \cup {None}) /\ idx \in Seq(Nat)
  /\ Len(top) = Len(idx) + 1
  /\ active = top[Len(top)]
  /\ \A k \in 1..Len(idx) :
       /\ idx[k] \in DOMAIN history
       /\ history[idx[k]].type = "PROMOTION" /\ ~history[idx[k]].undone
       /\ history[idx[k]].to = top[k + 1] /\ history[idx[k]].from = top[k]
  /\ \A k, l \in 1..Len(idx) : k < l => idx[k] < idx[l]
  /\ \A i \in DOMAIN history : history[i].type = "PROMOTION" /\ ~history[i].undone =>
       \E k \in 1..Len(idx) : idx[k] = i

StackFits == \E stack, idx : IsReplay(stack) /\ Fits(stack[Len(history)], idx)

\* There is one way to replay a history.
LEMMA OneReplay ==
  ASSUME Len(history) \in Nat, NEW s, NEW t, IsReplay(s), IsReplay(t)
  PROVE  s = t
<1> DEFINE differ == {n \in 0..Len(history) : s[n] # t[n]}
<1>1. /\ \A n \in 0..Len(history) : s[n] = Replayed(s, n) /\ t[n] = Replayed(t, n)
      /\ s = [n \in 0..Len(history) |-> s[n]] /\ t = [n \in 0..Len(history) |-> t[n]]
  BY DEF IsReplay
<1>2. ASSUME differ # {}
      PROVE  FALSE
  <2>1. differ \in SUBSET Nat
    OBVIOUS
  <2>2. PICK x \in differ : \A y \in differ : x <= y
    <3> HIDE DEF differ
    <3>1. QED  BY <1>2, <2>1, Least
  <2>3. CASE x = 0
    BY <1>1, <2>3 DEF Replayed
  <2>4. CASE x # 0
    <3>1. x - 1 \in 0..Len(history) /\ x - 1 \notin differ
      BY <2>1, <2>2, <2>4
    <3>2. s[x - 1] = t[x - 1]
      BY <3>1
    <3>3. s[x] = t[x]
      BY <1>1, <2>4, <3>2 DEF Replayed
    <3>4. QED  BY <3>3
  <2>5. QED  BY <2>3, <2>4
<1>3. QED  BY <1>1, <1>2

\* The stack of the property is that one.
LEMMA StackTells ==
  ASSUME IInv, StackFits
  PROVE  RollbackUndoesLatest
<1>1. PICK stack, idx : IsReplay(stack) /\ Fits(stack[Len(history)], idx)
  BY DEF StackFits
<1>2. Len(history) \in Nat
  BY DEF IInv, TypeOK
<1>3. stack = CHOOSE s : IsReplay(s)
  BY <1>1, <1>2, OneReplay
<1>4. active = Last(stack[Len(history)])
  BY <1>1 DEF Fits, Last
<1>5. QED  BY <1>3, <1>4 DEF RollbackUndoesLatest, IsReplay, Replayed, Bottom

\* A history that goes on is replayed from where it was.
LEMMA ReplayGrows ==
  ASSUME NEW stack, IsReplay(stack), Len(history) \in Nat, Len(history') = Len(history) + 1,
         \A i \in 1..Len(history) : /\ history'[i].type = history[i].type
                                    /\ history'[i].to = history[i].to,
         Bottom' = Bottom
  PROVE  \E next : /\ IsReplay(next)'
                   /\ next[Len(history')] =
                        LET event == history'[Len(history) + 1] IN
                        IF event.type = "PROMOTION"
                          THEN Append(stack[Len(history)], event.to)
                          ELSE Front(stack[Len(history)])
<1> DEFINE n == Len(history)
           top == IF history'[n + 1].type = "PROMOTION"
                    THEN Append(stack[n], history'[n + 1].to)
                    ELSE Front(stack[n])
<1>1. \A m \in 0..n : stack[m] = Replayed(stack, m)
  BY DEF IsReplay
<1> HIDE DEF n, top
<1>2. n \in Nat /\ Len(history') = n + 1
  BY DEF n
<1>3. PICK next : next = [m \in 0..(n + 1) |-> IF m = n + 1 THEN top ELSE stack[m]]
  OBVIOUS
<1>4. /\ next[n + 1] = top
      /\ \A m \in 0..n : next[m] = stack[m]
      /\ next = [m \in 0..(n + 1) |-> next[m]]
  BY <1>2, <1>3
<1>5. ASSUME NEW m \in 0..(n + 1)
      PROVE  next[m] = Replayed(next, m)'
  <2>1. CASE m = 0
    BY <1>1, <1>2, <1>4, <2>1 DEF Replayed
  <2>2. CASE m \in 1..n
    <3>0. m \in 0..n /\ m - 1 \in 0..n /\ m # 0
      BY <1>2, <2>2
    <3>1. next[m] = stack[m] /\ next[m - 1] = stack[m - 1] /\ m # 0
      BY <1>4, <3>0
    <3>2. history'[m].type = history[m].type /\ history'[m].to = history[m].to
      BY <2>2 DEF n
    <3>3. stack[m] = Replayed(stack, m)
      BY <1>1, <2>2
    <3>4. QED  BY <3>1, <3>2, <3>3 DEF Replayed
  <2>3. CASE m = n + 1
    <3>0. m - 1 = n /\ n \in 0..n /\ m # 0
      BY <1>2, <2>3
    <3>1. next[m] = top /\ next[m - 1] = stack[n] /\ m # 0
      BY <1>4, <2>3, <3>0
    <3>2. QED  BY <2>3, <3>1 DEF Replayed, top
  <2>4. QED  BY <1>2, <2>1, <2>2, <2>3
<1>6. IsReplay(next)'
  BY <1>2, <1>4, <1>5 DEF IsReplay
<1>7. QED  BY <1>2, <1>4, <1>6 DEF n, top

\* A history that is not longer is replayed the same way.
LEMMA ReplayKept ==
  ASSUME NEW stack, IsReplay(stack), history' = history, active' = active
  PROVE  IsReplay(stack)'
  BY DEF IsReplay, Replayed, Bottom

\* What Front leaves of a sequence.
LEMMA FrontDoes ==
  ASSUME NEW S, NEW s \in Seq(S), Len(s) # 0
  PROVE  /\ Front(s) \in Seq(S) /\ Len(Front(s)) = Len(s) - 1
         /\ \A k \in 1..(Len(s) - 1) : Front(s)[k] = s[k]
<1> DEFINE n == Len(s) - 1
<1>1. n \in Nat /\ 1 \in Int /\ n \in Int
  OBVIOUS
<1>2. \A k \in 1..n : s[k] \in S
  OBVIOUS
<1>3. Front(s) = SubSeq(s, 1, n)
  BY DEF Front
<1> HIDE DEF n
<1>4. /\ SubSeq(s, 1, n) \in Seq(S)
      /\ Len(SubSeq(s, 1, n)) = IF 1 <= n THEN n - 1 + 1 ELSE 0
      /\ \A k \in 1..(n - 1 + 1) : SubSeq(s, 1, n)[k] = s[1 + k - 1]
  BY <1>1, <1>2, SubSeqProperties
<1>5. Len(SubSeq(s, 1, n)) = n /\ n - 1 + 1 = n /\ \A k \in 1..n : 1 + k - 1 = k
  BY <1>1, <1>4
<1>6. \A k \in 1..n : SubSeq(s, 1, n)[k] = s[k]
  BY <1>4, <1>5
<1>7. QED  BY <1>3, <1>4, <1>5, <1>6 DEF n

\* What Append adds to a sequence.
LEMMA AppendShape ==
  ASSUME NEW S, NEW s \in Seq(S), NEW x
  PROVE  /\ Len(Append(s, x)) = Len(s) + 1 /\ DOMAIN Append(s, x) = 1..(Len(s) + 1)
         /\ \A k \in 1..Len(s) : Append(s, x)[k] = s[k]
         /\ Append(s, x)[Len(s) + 1] = x
  OBVIOUS

\* A promotion puts its policy on the stack.
LEMMA PromotionFits ==
  ASSUME IInv, StackFits, NEW c \in Policy, NEW e \in Nat, Promote(c, e)
  PROVE  StackFits'
<1> DEFINE n == Len(history)
<1>1. PICK stack, idx : IsReplay(stack) /\ Fits(stack[n], idx)
  BY DEF StackFits
<1>2. /\ n \in Nat /\ Len(history') = n + 1 /\ DOMAIN history' = 1..(n + 1)
      /\ \A j \in 1..n : history'[j] = history[j]
      /\ history'[n + 1].type = "PROMOTION" /\ history'[n + 1].from = active
      /\ history'[n + 1].to = c /\ history'[n + 1].undone = FALSE
      /\ active' = c
      /\ DOMAIN history = 1..n
  <2>1. /\ n \in Nat /\ DOMAIN history = 1..n
    BY DEF IInv, TypeOK
  <2>2. PICK new : new = [type |-> "PROMOTION", from |-> active, to |-> c,
                          evidence |-> e, undone |-> FALSE]
    OBVIOUS
  <2>3. history' = Append(history, new) /\ active' = c
    BY <2>2 DEF Promote
  <2>4. history \in Seq(Promotion \cup Rollback)
    BY DEF IInv, TypeOK
  <2>5. /\ Len(history') = n + 1 /\ DOMAIN history' = 1..(n + 1)
        /\ \A j \in 1..n : history'[j] = history[j]
        /\ history'[n + 1] = new
    BY <2>1, <2>3, <2>4, AppendShape
  <2>6. QED  BY <2>1, <2>2, <2>3, <2>5
<1>3. Bottom' = Bottom
  <2>1. history' # <<>> /\ (history = <<>> <=> n = 0)
    BY <1>2 DEF IInv, TypeOK
  <2>2. QED  BY <1>2, <2>1 DEF Bottom
<1>4. PICK next : IsReplay(next)' /\ next[n + 1] = Append(stack[n], c)
  <2>1. \A i \in 1..n : history'[i].type = history[i].type /\ history'[i].to = history[i].to
    BY <1>2
  <2>2. QED  BY <1>1, <1>2, <1>3, <2>1, ReplayGrows
<1> HIDE DEF n
<1>5. PICK top : top = stack[n]
  OBVIOUS
<1>6. /\ top \in Seq(Policy \cup {None}) /\ idx \in Seq(Nat) /\ Len(top) = Len(idx) + 1
      /\ Len(idx) \in Nat
  BY <1>1, <1>5 DEF Fits
<1>7. /\ Append(top, c) \in Seq(Policy \cup {None}) /\ Len(Append(top, c)) = Len(idx) + 2
      /\ \A k \in 1..(Len(idx) + 1) : Append(top, c)[k] = top[k]
      /\ Append(top, c)[Len(idx) + 2] = c
  BY <1>6
<1>8. /\ Append(idx, n + 1) \in Seq(Nat) /\ Len(Append(idx, n + 1)) = Len(idx) + 1
      /\ \A k \in 1..Len(idx) : Append(idx, n + 1)[k] = idx[k]
      /\ Append(idx, n + 1)[Len(idx) + 1] = n + 1
  BY <1>2, <1>6
<1>9. PICK top2, idx2 : top2 = Append(top, c) /\ idx2 = Append(idx, n + 1)
  OBVIOUS
<1>10. top[Len(idx) + 1] = active
  BY <1>1, <1>5, <1>6 DEF Fits
<1>11. \A k \in 1..Len(idx2) :
         /\ idx2[k] \in DOMAIN history'
         /\ history'[idx2[k]].type = "PROMOTION" /\ ~history'[idx2[k]].undone
         /\ history'[idx2[k]].to = top2[k + 1] /\ history'[idx2[k]].from = top2[k]
  <2> SUFFICES ASSUME NEW k \in 1..(Len(idx) + 1)
               PROVE  /\ idx2[k] \in DOMAIN history'
                      /\ history'[idx2[k]].type = "PROMOTION" /\ ~history'[idx2[k]].undone
                      /\ history'[idx2[k]].to = top2[k + 1] /\ history'[idx2[k]].from = top2[k]
    BY <1>8, <1>9
  <2>1. CASE k = Len(idx) + 1
    BY <1>2, <1>6, <1>7, <1>8, <1>9, <1>10, <2>1
  <2>2. CASE k \in 1..Len(idx)
    <3>1. /\ idx2[k] = idx[k] /\ top2[k] = top[k] /\ top2[k + 1] = top[k + 1]
      BY <1>6, <1>7, <1>8, <1>9, <2>2
    <3>2. /\ idx[k] \in DOMAIN history
          /\ history[idx[k]].type = "PROMOTION" /\ ~history[idx[k]].undone
          /\ history[idx[k]].to = top[k + 1] /\ history[idx[k]].from = top[k]
      BY <1>1, <1>5, <2>2 DEF Fits
    <3>3. QED  BY <1>2, <3>1, <3>2
  <2>3. QED  BY <1>6, <2>1, <2>2
<1>12. \A k, l \in 1..Len(idx2) : k < l => idx2[k] < idx2[l]
  <2>1. \A k \in 1..Len(idx) : idx[k] \in 1..n
    BY <1>1, <1>2 DEF Fits
  <2>2. \A k, l \in 1..Len(idx) : k < l => idx[k] < idx[l]
    BY <1>1 DEF Fits
  <2> SUFFICES ASSUME NEW k \in 1..(Len(idx) + 1), NEW l \in 1..(Len(idx) + 1), k < l
               PROVE  idx2[k] < idx2[l]
    BY <1>8, <1>9
  <2>3. k \in 1..Len(idx) /\ idx2[k] = idx[k] /\ idx[k] < n + 1
    <3>1. k \in 1..Len(idx)
      BY <1>6
    <3>2. idx[k] < n + 1
      BY <1>2, <2>1, <3>1
    <3>3. QED  BY <1>8, <1>9, <3>1, <3>2
  <2>4. CASE l = Len(idx) + 1
    BY <1>8, <1>9, <2>3, <2>4
  <2>5. CASE l \in 1..Len(idx)
    BY <1>8, <1>9, <2>2, <2>3, <2>5
  <2>6. QED  BY <1>6, <2>4, <2>5
<1>13. ASSUME NEW i \in DOMAIN history', history'[i].type = "PROMOTION", ~history'[i].undone
       PROVE  \E k \in 1..Len(idx2) : idx2[k] = i
  <2>1. CASE i = n + 1
    BY <1>6, <1>8, <1>9, <2>1
  <2>2. CASE i \in 1..n
    <3>1. PICK k \in 1..Len(idx) : idx[k] = i
      BY <1>1, <1>2, <1>13, <2>2 DEF Fits
    <3>2. QED  BY <1>6, <1>8, <1>9, <3>1
  <2>3. QED  BY <1>2, <2>1, <2>2
<1>14. Fits(top2, idx2)'
  <2>1. active' = top2[Len(top2)]
    BY <1>2, <1>7, <1>9
  <2>2. Len(top2) = Len(idx2) + 1
    BY <1>6, <1>7, <1>8, <1>9
  <2>3. QED  BY <1>7, <1>8, <1>9, <1>11, <1>12, <1>13, <2>1, <2>2 DEF Fits
<1>15. QED  BY <1>2, <1>4, <1>5, <1>9, <1>14 DEF StackFits

\* A rollback undoes the promotion that put the top policy on the stack.
LEMMA RollbackFits ==
  ASSUME IInv, StackFits, NEW e \in Nat, RollBack(e)
  PROVE  StackFits'
<1> DEFINE n == Len(history)
           i == LastPromotion(Standing)
<1>1. PICK stack, idx : IsReplay(stack) /\ Fits(stack[n], idx)
  BY DEF StackFits
<1>2. /\ n \in Nat /\ Len(history') = n + 1 /\ DOMAIN history' = 1..(n + 1)
      /\ i \in Standing /\ i \in 1..n
      /\ \A j \in 1..n : /\ history'[j].type = history[j].type
                         /\ history'[j].to = history[j].to
                         /\ history'[j].from = history[j].from
                         /\ j # i => history'[j] = history[j]
      /\ history'[i].undone
      /\ history'[n + 1].type = "ROLLBACK"
      /\ active' = history[i].from
      /\ DOMAIN history = 1..n
  BY RollBackDoes DEF IInv, TypeOK
<1>3. Bottom' = Bottom
  <2>1. history' # <<>> /\ history # <<>> /\ 1 \in 1..n
    BY <1>2
  <2>2. history'[1].from = history[1].from
    BY <1>2, <2>1
  <2>3. QED  BY <2>1, <2>2 DEF Bottom
<1>4. PICK next : IsReplay(next)' /\ next[n + 1] = Front(stack[n])
  <2>1. \A j \in 1..n : history'[j].type = history[j].type /\ history'[j].to = history[j].to
    BY <1>2
  <2>2. QED  BY <1>1, <1>2, <1>3, <2>1, ReplayGrows
<1>5. PICK top : top = stack[n]
  OBVIOUS
<1> DEFINE last == Len(idx)
<1>6. /\ top \in Seq(Policy \cup {None}) /\ idx \in Seq(Nat) /\ Len(top) = last + 1
      /\ last \in Nat
      /\ \A k \in 1..last :
           /\ idx[k] \in 1..n
           /\ history[idx[k]].type = "PROMOTION" /\ ~history[idx[k]].undone
           /\ history[idx[k]].to = top[k + 1] /\ history[idx[k]].from = top[k]
      /\ \A k, l \in 1..last : k < l => idx[k] < idx[l]
      /\ active = top[last + 1]
  BY <1>1, <1>2, <1>5 DEF Fits
<1>7. \A j \in 1..n : history[j].type = "PROMOTION" /\ ~history[j].undone =>
        \E k \in 1..last : idx[k] = j
  BY <1>1, <1>2, <1>5 DEF Fits
<1>8. last \in 1..last /\ i = idx[last]
  <2>1. /\ \A j \in Standing : j \in 1..n /\ history[j].type = "PROMOTION" /\ ~history[j].undone
        /\ i \in Standing
    BY <1>2 DEF Standing
  <2>2. last \in 1..last
    BY <1>6, <1>7, <2>1
  <2>3. idx[last] \in Standing
    <3>1. idx[last] \in DOMAIN history
      BY <1>2, <1>6, <2>2
    <3>2. QED  BY <1>6, <2>2, <3>1 DEF Standing
  <2>4. \A j \in Standing : j <= idx[last]
    <3>1. \A k \in 1..last : k = last \/ k < last
      BY <1>6
    <3>2. \A k \in 1..last : idx[k] <= idx[last]
      <4> SUFFICES ASSUME NEW k \in 1..last PROVE idx[k] <= idx[last]
        OBVIOUS
      <4>1. idx[k] \in 1..n /\ idx[last] \in 1..n
        BY <1>6, <2>2
      <4>2. CASE k = last
        BY <1>2, <4>1, <4>2
      <4>3. CASE k < last
        <5>1. idx[k] < idx[last]
          BY <1>6, <2>2, <4>3
        <5> HIDE DEF n, last
        <5>2. QED  BY <1>2, <4>1, <5>1
      <4>4. QED  BY <3>1, <4>2, <4>3
    <3>3. QED  BY <1>7, <2>1, <3>2
  <2>5. \A j \in Standing : j <= i
    BY <2>3, <2>4 DEF LastPromotion
  <2>6. idx[last] <= i /\ i <= idx[last] /\ idx[last] \in Nat /\ i \in Nat
    BY <1>2, <1>6, <2>2, <2>3, <2>4, <2>5
  <2> HIDE DEF i, last
  <2>7. QED  BY <2>2, <2>6
<1> HIDE DEF n, i, last
<1>9. PICK top2, idx2 : top2 = Front(top) /\ idx2 = Front(idx)
  OBVIOUS
<1>10. /\ top2 \in Seq(Policy \cup {None}) /\ Len(top2) = last
       /\ \A k \in 1..last : top2[k] = top[k]
  <2>1. Len(top) # 0 /\ Len(top) - 1 = last
    BY <1>6
  <2>2. QED  BY <1>6, <1>9, <2>1, FrontDoes
<1>11. /\ idx2 \in Seq(Nat) /\ Len(idx2) = last - 1
       /\ \A k \in 1..(last - 1) : idx2[k] = idx[k]
  <2>1. Len(idx) # 0 /\ Len(idx) = last
    BY <1>6, <1>8 DEF last
  <2>2. QED  BY <1>6, <1>9, <2>1, FrontDoes
<1>12. active' = top2[last]
  BY <1>2, <1>6, <1>8, <1>10
<1>13. ASSUME NEW k \in 1..(last - 1)
       PROVE  /\ idx2[k] \in DOMAIN history'
              /\ history'[idx2[k]].type = "PROMOTION" /\ ~history'[idx2[k]].undone
              /\ history'[idx2[k]].to = top2[k + 1] /\ history'[idx2[k]].from = top2[k]
  <2>1. /\ k \in 1..last /\ k + 1 \in 1..last /\ k < last
    BY <1>6
  <2>2. idx[k] \in 1..n /\ idx[k] # i
    <3>1. idx[k] \in 1..n /\ i \in 1..n /\ idx[k] < i
      BY <1>2, <1>6, <1>8, <2>1
    <3>2. QED  BY <1>2, <3>1
  <2>3. history'[idx[k]] = history[idx[k]] /\ idx[k] \in DOMAIN history'
    BY <1>2, <2>2
  <2>4. /\ history[idx[k]].type = "PROMOTION" /\ ~history[idx[k]].undone
        /\ history[idx[k]].to = top[k + 1] /\ history[idx[k]].from = top[k]
    BY <1>6, <2>1
  <2>5. top2[k] = top[k] /\ top2[k + 1] = top[k + 1] /\ idx2[k] = idx[k]
    BY <1>10, <1>11, <2>1
  <2>6. QED  BY <2>3, <2>4, <2>5
<1>14. \A k, l \in 1..(last - 1) : k < l => idx2[k] < idx2[l]
  <2>1. \A k \in 1..(last - 1) : k \in 1..last
    BY <1>6
  <2>2. QED  BY <1>6, <1>11, <2>1
<1>15. ASSUME NEW j \in DOMAIN history', history'[j].type = "PROMOTION", ~history'[j].undone
       PROVE  \E k \in 1..(last - 1) : idx2[k] = j
  <2>1. j \in 1..n /\ j # i
    BY <1>2, <1>15
  <2>2. history'[j] = history[j]
    BY <1>2, <2>1
  <2>3. PICK k \in 1..last : idx[k] = j
    BY <1>7, <1>15, <2>1, <2>2
  <2>4. k # last
    BY <1>8, <2>1, <2>3
  <2>5. k \in 1..(last - 1)
    BY <1>6, <2>4
  <2>6. QED  BY <1>11, <2>3, <2>5
<1>16. Fits(top2, idx2)'
  <2>1. Len(top2) = Len(idx2) + 1
    BY <1>6, <1>10, <1>11
  <2>2. QED  BY <1>10, <1>11, <1>12, <1>13, <1>14, <1>15, <2>1 DEF Fits
<1>17. QED  BY <1>2, <1>4, <1>5, <1>9, <1>16 DEF StackFits

LEMMA StackStep ==
  ASSUME IInv, StackFits, [Next]_vars
  PROVE  StackFits'
<1>1. ASSUME history' = history, active' = active
      PROVE  StackFits'
  <2>1. PICK stack, idx : IsReplay(stack) /\ Fits(stack[Len(history)], idx)
    BY DEF StackFits
  <2>2. IsReplay(stack)'
    BY <1>1, <2>1, ReplayKept
  <2>3. PICK top : top = stack[Len(history)]
    OBVIOUS
  <2>4. Fits(top, idx)'
    BY <1>1, <2>1, <2>3 DEF Fits
  <2>5. stack[Len(history')] = top
    BY <1>1, <2>3
  <2>6. QED  BY <2>2, <2>4, <2>5 DEF StackFits
<1>2. ASSUME NEW records \in Seq(Entry), NEW e \in Nat, Changing(records, e)
      PROVE  StackFits'
  BY <1>2, PromotionFits, RollbackFits DEF Changing
<1>3. QED  BY <1>1, <1>2, StepShape DEF Unchanging

\* Rollbacks undo promotions in the reverse order, and a rollback hits the policy
\* whose canary failed unless the registry changed since the plan of the canary,
\* for every sequence of promotions, plans, late evaluations and failed appends.
THEOREM RollbackAlwaysHolds == Spec => []RollbackHolds
<1> DEFINE Inv == PlansFit /\ RollbackHitsCandidate /\ StackFits
<1>1. Init => Inv
  <2> SUFFICES ASSUME Init PROVE Inv
    OBVIOUS
  <2>1. history = <<>> /\ plans = {} /\ Len(history) = 0 /\ active \in Policy \cup {None}
    BY DEF Init
  <2>2. PlansFit /\ RollbackHitsCandidate
    BY <2>1 DEF PlansFit, RollbackHitsCandidate
  <2>3. PICK stack : stack = [n \in 0..0 |-> <<active>>]
    OBVIOUS
  <2>4. stack = [n \in 0..0 |-> Replayed(stack, n)]
    BY <2>1, <2>3 DEF Replayed, Bottom
  <2>5. IsReplay(stack)
    BY <2>1, <2>4 DEF IsReplay
  <2>6. Fits(stack[0], <<>>)
    BY <2>1, <2>3 DEF Fits
  <2>7. StackFits
    BY <2>1, <2>5, <2>6 DEF StackFits
  <2>8. QED  BY <2>2, <2>7
<1>2. IInv /\ Inv /\ [Next]_vars => Inv'
  BY PlansStep, HitsStep, StackStep
<1>3. IInv /\ Inv => RollbackHolds
  BY StackTells DEF IInv, RollbackHolds
<1> HIDE DEF Inv
<1>4. QED  BY <1>1, <1>2, <1>3, Inductive, PTL DEF Spec
=============================================================================
