--------------------------- MODULE ExecutionRuntime ---------------------------
(***************************************************************************)
(* scripts/flythink_execution_runtime.cjs: class FlyThinkExecutionRuntime, *)
(* the governed path from a proposal to a physical driver, with the        *)
(* executors it calls (physical_runtime.cjs, atomic_physical_set.cjs) and  *)
(* the recovery transaction (recovery_transaction.cjs).                    *)
(*                                                                         *)
(* execute(), executeDecisionProposal() and recover() are asynchronous:    *)
(* each reads this.runtime when it is called, awaits the authorizer, the   *)
(* driver or the state of the device, and assigns its own copy back to     *)
(* this.runtime when it ends.  A step of the model is what runs between    *)
(* two awaits; the steps of several calls interleave.                      *)
(*                                                                         *)
(* External, and nondeterministic here: the reasoner that proposes writes, *)
(* the authorizer (it may refuse, lower or raise a value, and present an   *)
(* id twice), the driver (it may move the devices anywhere before it       *)
(* answers, answer with any status its reports allow, or throw) and the    *)
(* readings of a device.  What a driver observes of the target it names is *)
(* what the device does, and "applied" means the requested position.       *)
(* The ledger is what SingleUse promises of it: one atomic test and set.   *)
(***************************************************************************)
EXTENDS PhysicalRuntime, FiniteSets

CONSTANTS Call,          \* calls of the runtime that may overlap
          AuthId         \* authorization ids (bounds the dispatches)

VARIABLES runtime,       \* this.runtime
          world,         \* where the devices really are
          consumed,      \* authorization ids the ledger has given away
          pc,            \* where each call is
          copy,          \* the runtime each call works on and will assign
          writes,        \* the device positions each call wants
          status,        \* what each call returns
          dispatches,    \* how many driver calls each authorization id bought
          doubt,         \* devices whose last driver call threw or was unsure,
                         \* and that no recovery has verified since
          unread         \* devices whose last driver call gave no observation

vars == <<runtime, world, consumed, pc, copy, writes, status, dispatches, doubt,
          unread>>

Writes == UNION {[targets -> Pct] : targets \in (SUBSET Device) \ {{}}}
NoWrites == [d \in {} |-> 0]

Position == {"idle", "authorizing", "driving", "moved", "install",
             "readiness", "reading", "recovering", "recovered", "rereading",
             "rechecking"}
Status == {"none", "BLOCKED", "EXECUTED", "PHYSICAL_NOT_COMMITTED",
           "RECOVERED", "QUARANTINED", "threw"}

TypeOK == /\ runtime \in Runtime
          /\ world \in [Device -> Pct]
          /\ consumed \subseteq AuthId
          /\ pc \in [Call -> Position]
          /\ copy \in [Call -> Runtime]
          /\ writes \in [Call -> Writes \cup {NoWrites}]
          /\ status \in [Call -> Status]
          /\ dispatches \in [AuthId -> Nat]
          /\ doubt \subseteq Device
          /\ unread \subseteq Device

\* Every device is mounted where the runtime believes it to be.
Init == /\ world \in [Device -> Pct]
        /\ runtime = [slots |-> world, protected |-> {}, quarantined |-> {}]
        /\ consumed = {}
        /\ pc = [c \in Call |-> "idle"]
        /\ copy = [c \in Call |-> runtime]
        /\ writes = [c \in Call |-> NoWrites]
        /\ status = [c \in Call |-> "none"]
        /\ dispatches = [i \in AuthId |-> 0]
        /\ doubt = {}
        /\ unread = {}

Goto(c, position) == pc' = [pc EXCEPT ![c] = position]

\* The call has its result; it assigns it to this.runtime when it resumes.
Ends(c, rt, s) == /\ Goto(c, "install")
                  /\ copy' = [copy EXCEPT ![c] = rt]
                  /\ status' = [status EXCEPT ![c] = s]

\* The call throws: nothing is assigned.
Throws(c) == /\ Goto(c, "idle")
             /\ writes' = [writes EXCEPT ![c] = NoWrites]
             /\ status' = [status EXCEPT ![c] = "threw"]
             /\ UNCHANGED copy
-----------------------------------------------------------------------------
(* execute() and executeDecisionProposal() *)

\* The decision is DEFER or BLOCK, too uncertain, about another world
\* snapshot, without a driver or an authorizer, or for a quarantined device.
NoExecution(c) == /\ pc[c] = "idle"
                  /\ Ends(c, runtime, "BLOCKED")
                  /\ UNCHANGED <<runtime, world, consumed, writes, dispatches, doubt, unread>>

Execute(c, requested) == /\ pc[c] = "idle"
                         /\ QuarantinePreflight(runtime, requested)
                         /\ Goto(c, "authorizing")
                         /\ copy' = [copy EXCEPT ![c] = runtime]
                         /\ writes' = [writes EXCEPT ![c] = requested]
                         /\ status' = [status EXCEPT ![c] = "none"]
                         /\ UNCHANGED <<runtime, world, consumed, dispatches, doubt, unread>>

\* The authorizer throws or refuses, its receipt is not valid for the request,
\* or there is no ledger.
Refused(c) == /\ pc[c] = "authorizing"
              /\ Ends(c, copy[c], "BLOCKED")
              /\ UNCHANGED <<runtime, world, consumed, writes, dispatches, doubt, unread>>

\* The ledger answers false: the id was consumed before.
Replayed(c, id) == /\ pc[c] = "authorizing"
                   /\ id \in consumed
                   /\ Ends(c, copy[c], "BLOCKED")
                   /\ UNCHANGED <<runtime, world, consumed, writes, dispatches, doubt, unread>>

\* The id is consumed, and the call goes no further: the ledger threw after it
\* linked the marker, the authorized positions break the quarantine, or the
\* driver cannot execute a set atomically.
Burned(c, id, authorized) ==
  /\ pc[c] = "authorizing"
  /\ id \notin consumed
  /\ DOMAIN authorized = DOMAIN writes[c]
  /\ consumed' = consumed \cup {id}
  /\ \/ Ends(c, copy[c], "BLOCKED")
     \/ /\ Cardinality(DOMAIN authorized) > 1
        /\ Ends(c, copy[c], "PHYSICAL_NOT_COMMITTED")
  /\ UNCHANGED <<runtime, world, writes, dispatches, doubt, unread>>

\* For a mutant: the answer of the ledger is not looked at.
DispatchReplayed(c, id, authorized) ==
  /\ pc[c] = "authorizing"
  /\ DOMAIN authorized = DOMAIN writes[c]
  /\ QuarantinePreflight(copy[c], authorized)
  /\ consumed' = consumed \cup {id}
  /\ dispatches' = [dispatches EXCEPT ![id] = @ + 1]
  /\ writes' = [writes EXCEPT ![c] = authorized]
  /\ Goto(c, "driving")
  /\ UNCHANGED <<runtime, world, copy, status, doubt, unread>>

\* The id is consumed and the driver is called with what was authorized.
Dispatch(c, id, authorized) ==
  /\ pc[c] = "authorizing"
  /\ id \notin consumed
  /\ DOMAIN authorized = DOMAIN writes[c]
  /\ QuarantinePreflight(copy[c], authorized)
  /\ consumed' = consumed \cup {id}
  /\ dispatches' = [dispatches EXCEPT ![id] = @ + 1]
  /\ writes' = [writes EXCEPT ![c] = authorized]
  /\ Goto(c, "driving")
  /\ UNCHANGED <<runtime, world, copy, status, doubt, unread>>
-----------------------------------------------------------------------------
(* The driver, while a call awaits it *)

Driving == {"driving", "moved", "recovering", "recovered"}
Recovering == {"recovering", "recovered"}

\* The targets move: as requested, part of the way, or some of them only.
Effect(c) == /\ pc[c] \in {"driving", "recovering"}
             /\ \E position \in [DOMAIN writes[c] -> Pct] :
                  world' = [d \in Device |->
                              IF d \in DOMAIN position THEN position[d] ELSE world[d]]
             /\ Goto(c, IF pc[c] = "driving" THEN "moved" ELSE "recovered")
             /\ UNCHANGED <<runtime, consumed, copy, writes, status, dispatches, doubt, unread>>

\* The observations of the targets are written into the copy of the call.
Observed(c) == [copy[c] EXCEPT !.slots =
                  [d \in Device |-> IF d \in DOMAIN writes[c] THEN world[d] ELSE @[d]]]

Failed(c) == IF pc[c] \in Recovering THEN "QUARANTINED" ELSE "PHYSICAL_NOT_COMMITTED"

\* For a mutant: the exception is a plain failure.
AmbiguousIgnored(c) == /\ pc[c] \in Driving
                       /\ Ends(c, copy[c], Failed(c))
                       /\ doubt' = doubt \cup DOMAIN writes[c]
                       /\ UNCHANGED <<runtime, world, consumed, writes, dispatches, unread>>
\* The driver call threw, or answered for another target than the one asked
\* for, or a batch answered with receipts of different or unsure outcomes: all
\* targets are quarantined and no observation is believed.
Ambiguous(c) == /\ pc[c] \in Driving
                /\ Ends(c, MarkQuarantined(copy[c], DOMAIN writes[c]), Failed(c))
                /\ doubt' = doubt \cup DOMAIN writes[c]
                /\ UNCHANGED <<runtime, world, consumed, writes, dispatches, unread>>

\* A single target answers "uncertain" or "unsafe" with an observation.
Unsure(c) == /\ pc[c] \in Driving
             /\ Cardinality(DOMAIN writes[c]) = 1
             /\ Ends(c, MarkQuarantined(Observed(c), DOMAIN writes[c]), Failed(c))
             /\ doubt' = doubt \cup DOMAIN writes[c]
             /\ unread' = unread \ DOMAIN writes[c]
             /\ UNCHANGED <<runtime, world, consumed, writes, dispatches>>

\* For a mutant: only an applied command is reconciled.
NotAppliedUnread(c) == /\ pc[c] \in Driving
                       /\ Cardinality(DOMAIN writes[c]) = 1
                       /\ Ends(c, copy[c], Failed(c))
                       /\ UNCHANGED <<runtime, world, consumed, writes, dispatches, doubt, unread>>

\* "rejected", "blocked" or "timeout" with an observation of a single target,
\* or a batch that rejected as a whole and touched nothing.
NotApplied(c) == /\ pc[c] \in Driving
                 /\ \/ Cardinality(DOMAIN writes[c]) = 1
                    \/ pc[c] = "driving"
                 /\ IF Cardinality(DOMAIN writes[c]) = 1
                      THEN /\ Ends(c, Observed(c), Failed(c))
                           /\ unread' = unread \ DOMAIN writes[c]
                      ELSE /\ Ends(c, copy[c], Failed(c))
                           /\ UNCHANGED unread
                 /\ UNCHANGED <<runtime, world, consumed, writes, dispatches, doubt>>

\* Every target answers "applied".
Applied(c) ==
  /\ pc[c] \in Driving
  /\ \A d \in DOMAIN writes[c] : world[d] = writes[c][d]
  /\ IF pc[c] \in Recovering
       THEN /\ copy' = [copy EXCEPT ![c] = Observed(c)]
            /\ Goto(c, "rereading")
            /\ UNCHANGED status
       ELSE Ends(c, Observed(c), "EXECUTED")
  /\ unread' = unread \ DOMAIN writes[c]
  /\ UNCHANGED <<runtime, world, consumed, writes, dispatches, doubt>>

\* An answer without an observation: a single executor throws and its call
\* assigns nothing, a batch is not committed and its targets stay trusted.
NoObservation(c) ==
  /\ pc[c] \in Driving
  /\ IF Cardinality(DOMAIN writes[c]) = 1
       THEN Throws(c)
       ELSE Ends(c, copy[c], Failed(c)) /\ UNCHANGED writes
  /\ unread' = unread \cup DOMAIN writes[c]
  /\ UNCHANGED <<runtime, world, consumed, dispatches, doubt>>
-----------------------------------------------------------------------------
(* recover() *)

\* The target is quarantined and the patch lowers what the runtime believes.
Recover(c, d, v) == /\ pc[c] = "idle"
                    /\ IsQuarantined(runtime, d)
                    /\ IsSafetyReducing(runtime, d, v)
                    /\ Goto(c, "readiness")
                    /\ copy' = [copy EXCEPT ![c] = runtime]
                    /\ writes' = [writes EXCEPT ![c] = [target \in {d} |-> v]]
                    /\ status' = [status EXCEPT ![c] = "none"]
                    /\ UNCHANGED <<runtime, world, consumed, dispatches, doubt, unread>>

\* Readiness and the identity of the hardware, then a valid reading; after it
\* the single executor calls the driver.
Prepare(c) == /\ \/ pc[c] = "readiness" /\ Goto(c, "reading")
                 \/ pc[c] = "reading" /\ Goto(c, "recovering")
              /\ UNCHANGED <<runtime, world, consumed, copy, writes, status,
                             dispatches, doubt, unread>>

\* For a mutant: the position that was read is not looked at.
RereadAnywhere(c) == /\ pc[c] = "rereading"
                     /\ copy' = [copy EXCEPT ![c] = Observed(c)]
                     /\ Goto(c, "rechecking")
                     /\ UNCHANGED <<runtime, world, consumed, writes, status,
                                    dispatches, doubt, unread>>

\* A fresh reading after the action must show the window shut.
Reread(c) == /\ pc[c] = "rereading"
             /\ \A d \in DOMAIN writes[c] : world[d] = 0
             /\ copy' = [copy EXCEPT ![c] = Observed(c)]
             /\ Goto(c, "rechecking")
             /\ UNCHANGED <<runtime, world, consumed, writes, status, dispatches,
                            doubt, unread>>

\* Readiness and identity again: trust is restored.
Restore(c) ==
  /\ pc[c] = "rechecking"
  /\ Ends(c, [copy[c] EXCEPT !.quarantined = @ \ DOMAIN writes[c]], "RECOVERED")
  /\ UNCHANGED <<runtime, world, consumed, writes, dispatches, doubt, unread>>

\* A check of the recovery fails: not ready, another identity, an invalid or a
\* stale reading, or a window that is not shut.
NotRecovered(c) == /\ pc[c] \in {"readiness", "reading", "rereading", "rechecking"}
                   /\ Ends(c, copy[c], "QUARANTINED")
                   /\ UNCHANGED <<runtime, world, consumed, writes, dispatches, doubt, unread>>

\* readiness() or state() of the driver rejects and recover() with it: nothing is
\* assigned, also when the device has been moved and read already.
RecoveryThrows(c) == /\ pc[c] \in {"readiness", "reading", "rereading", "rechecking"}
                     /\ Throws(c)
                     /\ UNCHANGED <<runtime, world, consumed, dispatches, doubt, unread>>
-----------------------------------------------------------------------------
\* this.runtime = out.runtime
Install(c) == /\ pc[c] = "install"
              /\ runtime' = copy[c]
              /\ doubt' = IF status[c] = "RECOVERED"
                            THEN doubt \ DOMAIN writes[c] ELSE doubt
              /\ writes' = [writes EXCEPT ![c] = NoWrites]
              /\ Goto(c, "idle")
              /\ UNCHANGED <<world, consumed, copy, status, dispatches, unread>>

Next == \E c \in Call :
          \/ NoExecution(c) \/ Refused(c)
          \/ \E requested \in Writes : Execute(c, requested)
          \/ \E id \in AuthId :
               \/ Replayed(c, id)
               \/ \E authorized \in Writes :
                    Burned(c, id, authorized) \/ Dispatch(c, id, authorized)
          \/ Effect(c) \/ Ambiguous(c) \/ Unsure(c) \/ NotApplied(c)
          \/ Applied(c) \/ NoObservation(c)
          \/ \E d \in Window, v \in Pct : Recover(c, d, v)
          \/ Prepare(c) \/ Reread(c) \/ Restore(c) \/ NotRecovered(c)
          \/ RecoveryThrows(c) \/ Install(c)

Spec == Init /\ [][Next]_vars

\* The authorizer, the driver and the device answer, whatever they answer.
Answer(c) == \/ Refused(c) \/ Effect(c) \/ Ambiguous(c) \/ Unsure(c)
             \/ NotApplied(c) \/ Applied(c) \/ NoObservation(c)
             \/ Prepare(c) \/ Reread(c) \/ Restore(c) \/ NotRecovered(c)
             \/ RecoveryThrows(c) \/ Install(c)

FairSpec == Spec /\ \A c \in Call : WF_vars(Answer(c))
-----------------------------------------------------------------------------
(* Properties *)

Quiet == \A c \in Call : pc[c] = "idle"

\* Every call returns or throws: no outcome of the driver is left unhandled.
CallsEnd == \A c \in Call : pc[c] # "idle" ~> pc[c] = "idle"

\* An authorization id buys at most one driver call, however the calls of the
\* runtime overlap and however often the authorizer presents it.
SingleDispatch == \A id \in AuthId : dispatches[id] <= 1

\* A device whose driver call ended in doubt is quarantined until a recovery
\* has verified it.
QuarantineHeld == Quiet => doubt \subseteq runtime.quarantined

\* A device that is neither quarantined nor left unread by its last command is
\* where the runtime believes it is.
BeliefIsWorld ==
  Quiet => \A d \in Device \ (runtime.quarantined \cup unread) :
             runtime.slots[d] = world[d]

\* EXECUTED means the devices are where the authorizer allowed them to go, and
\* the runtime knows it.
ExecutedIsReal ==
  \A c \in Call : pc[c] = "install" /\ status[c] = "EXECUTED" =>
    \A d \in DOMAIN writes[c] : /\ world[d] = writes[c][d]
                                /\ copy[c].slots[d] = world[d]

\* What the runtime tells is so, of its state and of its last answer: the
\* position of a device it trusts, and an execution it reports.
BeliefIsReal == TypeOK /\ BeliefIsWorld /\ ExecutedIsReal

\* Only a verified recovery ends a quarantine, and it leaves the window shut.
EndsShut ==
  \A d \in runtime.quarantined \ runtime'.quarantined :
    /\ \E c \in Call : pc[c] = "install" /\ status[c] = "RECOVERED"
    /\ runtime'.slots[d] = 0
    /\ world[d] = 0
QuarantineEndsShut == [][EndsShut]_vars

\* A quarantine is left through a verified recovery alone, and the calls that
\* meet one end all the same: no outcome of the driver leaves one waiting.
QuarantineEnds == QuarantineEndsShut /\ CallsEnd
==============================================================================
