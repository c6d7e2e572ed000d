---------------------------- MODULE RuntimeProofs ----------------------------
(***************************************************************************)
(* The governed execution runtime and the wrapper that starts it on spoken *)
(* commands, two components that share no state.                           *)
(*                                                                         *)
(* The runtime, for every set of devices, overlapping calls, authorization *)
(* ids and driver faults: an authorization id buys at most one driver      *)
(* call.  The property is not inductive alone: what makes it so is that    *)
(* the ledger has given away every id that ever bought a driver call.      *)
(* For a caller that awaits each call before it makes the next one, what   *)
(* the runtime believes is true and quarantine holds; the first theorem    *)
(* needs no such caller.                                                   *)
(*                                                                         *)
(* A live run, for any texts, number of repeats, command lines, crashes    *)
(* and interrupts: what was said reaches the node process once, in order,  *)
(* and the window is opened only for the one thing that was said.          *)
(***************************************************************************)
EXTENDS ExecutionRuntime, LiveAcoustic, FiniteSetTheorems, FunctionTheorems, SequenceTheorems,
        TLAPS

-----------------------------------------------------------------------------
(* The governed execution runtime *)

\* The counters of the dispatches, and that a dispatch has a consumed id.
DispatchInv == /\ dispatches \in [AuthId -> {0, 1}]
               /\ \A id \in AuthId : dispatches[id] > 0 => id \in consumed

\* No id has bought anything when the runtime starts.
LEMMA InitDispatch == Init => DispatchInv
  BY DEF Init, DispatchInv

\* Consuming an id for nothing keeps the invariant.
LEMMA BurnedDispatch ==
  ASSUME DispatchInv, NEW c \in Call, NEW id \in AuthId, NEW authorized \in Writes,
         Burned(c, id, authorized)
  PROVE  DispatchInv'
  BY DEF DispatchInv, Burned

\* A dispatch is the first one of an id that was not consumed.
LEMMA FirstDispatch ==
  ASSUME DispatchInv, NEW c \in Call, NEW id \in AuthId, NEW authorized \in Writes,
         Dispatch(c, id, authorized)
  PROVE  DispatchInv'
<1>1. dispatches[id] = 0
  BY DEF DispatchInv, Dispatch
<1>2. dispatches' = [dispatches EXCEPT ![id] = 1]
  BY <1>1 DEF Dispatch
<1>3. consumed' = consumed \cup {id}
  BY DEF Dispatch
<1>4. QED  BY <1>2, <1>3 DEF DispatchInv

\* No other step of a call touches the ledger or calls the driver.
LEMMA OtherDispatch ==
  ASSUME NEW c \in Call,
         \/ NoExecution(c) \/ Refused(c) \/ Install(c)
         \/ \E requested \in Writes : Execute(c, requested)
         \/ \E id \in AuthId : Replayed(c, id)
         \/ Effect(c) \/ Ambiguous(c) \/ Unsure(c) \/ NotApplied(c)
         \/ Applied(c) \/ NoObservation(c)
         \/ \E d \in Window, v \in Pct : Recover(c, d, v)
         \/ Prepare(c) \/ Reread(c) \/ Restore(c) \/ NotRecovered(c) \/ RecoveryThrows(c)
  PROVE  UNCHANGED <<consumed, dispatches>>
  BY DEF NoExecution, Refused, Install, Execute, Replayed, Effect, Ambiguous, Unsure,
     NotApplied, Applied, NoObservation, Recover, Prepare, Reread, Restore, NotRecovered,
     RecoveryThrows

\* However the calls of the runtime overlap, an authorization id buys at most
\* one driver call.
THEOREM DispatchesOnce == Spec => []SingleDispatch
<1>1. Init => DispatchInv
  BY InitDispatch
<1>2. DispatchInv /\ [Next]_vars => DispatchInv'
  <2> SUFFICES ASSUME DispatchInv, [Next]_vars
               PROVE  DispatchInv'
    OBVIOUS
  <2>1. CASE UNCHANGED vars
    BY <2>1 DEF vars, DispatchInv
  <2>2. CASE Next
    <3>1. PICK c \in Call :
            \/ UNCHANGED <<consumed, dispatches>>
            \/ \E id \in AuthId, authorized \in Writes :
                 Burned(c, id, authorized) \/ Dispatch(c, id, authorized)
      BY <2>2, OtherDispatch DEF Next
    <3>2. CASE UNCHANGED <<consumed, dispatches>>
      BY <3>2 DEF DispatchInv
    <3>3. QED  BY <3>1, <3>2, BurnedDispatch, FirstDispatch
  <2>3. QED  BY <2>1, <2>2
<1>3. DispatchInv => SingleDispatch
  BY DEF DispatchInv, SingleDispatch
<1>4. QED  BY <1>1, <1>2, <1>3, PTL DEF Spec

-----------------------------------------------------------------------------
(* Types *)

\* What a call may write to the runtime is a runtime.
LEMMA ObservedIsRuntime ==
  ASSUME TypeOK, NEW c \in Call
  PROVE  /\ Observed(c) \in Runtime
         /\ \A rt \in Runtime : \A targets \in SUBSET Device :
              /\ MarkQuarantined(rt, targets) \in Runtime
              /\ [rt EXCEPT !.quarantined = @ \ targets] \in Runtime
<1>1. copy[c] \in Runtime /\ world \in [Device -> Pct]
  BY DEF TypeOK
<1>2. Observed(c) \in Runtime
  BY <1>1 DEF Observed, Runtime
<1>3. QED  BY <1>2 DEF MarkQuarantined, Runtime

\* What a call may want written, positions of devices.
LEMMA WritesAreWrites ==
  /\ \A w \in Writes \cup {NoWrites} : DOMAIN w \subseteq Device /\ w \in [DOMAIN w -> Pct]
  /\ \A d \in Window, v \in Pct : [target \in {d} |-> v] \in Writes
<1>1. \A w \in Writes : DOMAIN w \subseteq Device /\ w \in [DOMAIN w -> Pct]
  BY DEF Writes
<1>2. DOMAIN NoWrites \subseteq Device /\ NoWrites \in [DOMAIN NoWrites -> Pct]
  BY DEF NoWrites
<1>3. ASSUME NEW d \in Window, NEW v \in Pct
      PROVE  [target \in {d} |-> v] \in Writes
  <2>1. {d} \in (SUBSET Device) \ {{}}
    BY DeviceAssumption
  <2>2. [target \in {d} |-> v] \in [{d} -> Pct]
    OBVIOUS
  <2>3. QED  BY <2>1, <2>2 DEF Writes
<1>4. QED  BY <1>1, <1>2, <1>3

\* A result of a call and an exception are well formed.
LEMMA EndsType ==
  ASSUME TypeOK, NEW c \in Call,
         \/ \E rt \in Runtime, s \in Status : Ends(c, rt, s)
         \/ Throws(c)
  PROVE  /\ pc' \in [Call -> Position]
         /\ copy' \in [Call -> Runtime]
         /\ status' \in [Call -> Status]
         /\ writes' \in [Call -> Writes \cup {NoWrites}] \/ ~Throws(c)
  BY DEF TypeOK, Ends, Throws, Goto, Position, Status

\* Every step keeps the types.
LEMMA StepType ==
  ASSUME TypeOK, [Next]_vars
  PROVE  TypeOK'
<1> USE DEF TypeOK
<1>1. CASE UNCHANGED vars
  BY <1>1 DEF vars
<1>2. ASSUME NEW c \in Call,
             \/ NoExecution(c) \/ Refused(c) \/ NotRecovered(c) \/ Restore(c)
             \/ \E id \in AuthId : Replayed(c, id)
             \/ \E id \in AuthId, authorized \in Writes : Burned(c, id, authorized)
      PROVE  TypeOK'
  <2>1. /\ runtime \in Runtime /\ copy[c] \in Runtime
        /\ [copy[c] EXCEPT !.quarantined = @ \ DOMAIN writes[c]] \in Runtime
    <3>1. DOMAIN writes[c] \subseteq Device
      BY WritesAreWrites
    <3>2. QED  BY <3>1, ObservedIsRuntime
  <2>2. {"BLOCKED", "QUARANTINED", "RECOVERED", "PHYSICAL_NOT_COMMITTED"} \subseteq Status
    BY DEF Status
  <2>3. /\ \E rt \in Runtime, s \in Status : Ends(c, rt, s)
        /\ consumed' \subseteq AuthId
        /\ UNCHANGED <<runtime, world, writes, dispatches, doubt, unread>>
    BY <1>2, <2>1, <2>2 DEF NoExecution, Refused, NotRecovered, Restore, Replayed, Burned
  <2>4. QED  BY <2>3, EndsType
<1>3. ASSUME NEW c \in Call, Ambiguous(c) \/ Unsure(c) \/ NotApplied(c) \/ NoObservation(c)
      PROVE  TypeOK'
  <2>1. DOMAIN writes[c] \subseteq Device
    BY WritesAreWrites
  <2>2. /\ copy[c] \in Runtime /\ Observed(c) \in Runtime
        /\ MarkQuarantined(copy[c], DOMAIN writes[c]) \in Runtime
        /\ MarkQuarantined(Observed(c), DOMAIN writes[c]) \in Runtime
    BY <2>1, ObservedIsRuntime
  <2>3. Failed(c) \in Status
    BY DEF Failed, Status
  <2>4. CASE Ambiguous(c) \/ Unsure(c) \/ NotApplied(c)
    <3>1. /\ \E rt \in Runtime, s \in Status : Ends(c, rt, s)
          /\ UNCHANGED <<runtime, world, consumed, writes, dispatches>>
          /\ doubt' \subseteq Device /\ unread' \subseteq Device
      BY <2>1, <2>2, <2>3, <2>4 DEF Ambiguous, Unsure, NotApplied
    <3>2. QED  BY <3>1, EndsType
  <2>5. CASE NoObservation(c)
    <3>1. /\ Throws(c) \/ (Ends(c, copy[c], Failed(c)) /\ UNCHANGED writes)
          /\ UNCHANGED <<runtime, world, consumed, dispatches, doubt>>
          /\ unread' \subseteq Device
      BY <2>1, <2>5 DEF NoObservation
    <3>2. QED  BY <2>2, <2>3, <3>1, EndsType
  <2>6. QED  BY <1>3, <2>4, <2>5
<1>4. ASSUME NEW c \in Call, Applied(c)
      PROVE  TypeOK'
  <2>1. Observed(c) \in Runtime /\ "EXECUTED" \in Status /\ "rereading" \in Position
    BY ObservedIsRuntime DEF Status, Position
  <2>2. CASE pc[c] \in Recovering
    BY <1>4, <2>1, <2>2 DEF Applied, Goto
  <2>3. CASE pc[c] \notin Recovering
    <3>1. /\ \E rt \in Runtime, s \in Status : Ends(c, rt, s)
          /\ UNCHANGED <<runtime, world, consumed, writes, dispatches, doubt>>
          /\ unread' \subseteq Device
      BY <1>4, <2>1, <2>3 DEF Applied
    <3>2. QED  BY <3>1, EndsType
  <2>4. QED  BY <2>2, <2>3
<1>5. ASSUME NEW c \in Call, NEW requested \in Writes, Execute(c, requested)
      PROVE  TypeOK'
  BY <1>5 DEF Execute, Goto, Position, Status
<1>6. ASSUME NEW c \in Call, NEW id \in AuthId, NEW authorized \in Writes,
             Dispatch(c, id, authorized)
      PROVE  TypeOK'
  BY <1>6 DEF Dispatch, Goto, Position
<1>7. ASSUME NEW c \in Call, Effect(c)
      PROVE  TypeOK'
  <2>1. world' \in [Device -> Pct]
    <3>1. PICK position \in [DOMAIN writes[c] -> Pct] :
            world' = [d \in Device |-> IF d \in DOMAIN position THEN position[d] ELSE world[d]]
      BY <1>7 DEF Effect
    <3>2. QED  BY <3>1
  <2>2. pc' \in [Call -> Position]
    BY <1>7 DEF Effect, Goto, Position
  <2>3. QED  BY <1>7, <2>1, <2>2 DEF Effect
<1>8. ASSUME NEW c \in Call, NEW d \in Window, NEW v \in Pct, Recover(c, d, v)
      PROVE  TypeOK'
  <2>1. [target \in {d} |-> v] \in Writes
    BY WritesAreWrites
  <2>2. QED  BY <1>8, <2>1 DEF Recover, Goto, Position, Status
<1>9. ASSUME NEW c \in Call, Prepare(c)
      PROVE  TypeOK'
  BY <1>9 DEF Prepare, Goto, Position
<1>10. ASSUME NEW c \in Call, Reread(c)
       PROVE  TypeOK'
  BY <1>10, ObservedIsRuntime DEF Reread, Goto, Position
<1>11. ASSUME NEW c \in Call, Install(c)
       PROVE  TypeOK'
  BY <1>11 DEF Install, Goto, Position
<1>12. ASSUME NEW c \in Call, RecoveryThrows(c)
       PROVE  TypeOK'
  <2>1. Throws(c) /\ UNCHANGED <<runtime, world, consumed, dispatches, doubt, unread>>
    BY <1>12 DEF RecoveryThrows
  <2>2. QED  BY <2>1, EndsType
<1>13. QED
  BY <1>1, <1>2, <1>3, <1>4, <1>5, <1>6, <1>7, <1>8, <1>9, <1>10, <1>11, <1>12 DEF Next

-----------------------------------------------------------------------------
(* What a call carries from one await to the next *)

\* Outside quarantine, of what was read and besides some devices, rt is right.
Believed(rt, besides) ==
  \A d \in Device \ (rt.quarantined \cup unread \cup besides) : rt.slots[d] = world[d]

\* The same of a given runtime after a step.
RightAfter(rt) ==
  \A d \in Device \ (rt.quarantined \cup unread') : rt.slots[d] = world'[d]

\* The call still has the runtime it started from.
Early == {"authorizing", "driving", "moved", "readiness", "reading", "recovering", "recovered"}

\* What the effect of the driver call may have made untrue in that runtime.
Moved(c) == IF pc[c] \in {"moved", "recovered"} THEN DOMAIN writes[c] ELSE {}

\* The devices whose recovery the call is about to install.
Trusted(c) == IF status[c] = "RECOVERED" THEN DOMAIN writes[c] ELSE {}

AtRest == doubt \subseteq runtime.quarantined /\ Believed(runtime, {})

UnderWay(c) == /\ copy[c] = runtime
               /\ doubt \subseteq runtime.quarantined
               /\ Believed(runtime, Moved(c))

Verifying(c) == /\ doubt \cup runtime.quarantined \subseteq copy[c].quarantined
                /\ AtRest
                /\ Believed(copy[c], {})
                /\ \A d \in DOMAIN writes[c] : copy[c].slots[d] = world[d]

Installable(c) ==
  /\ doubt \cup runtime.quarantined \subseteq copy[c].quarantined \cup Trusted(c)
  /\ Believed(copy[c], {})
  /\ \A d \in Trusted(c) : copy[c].slots[d] = 0 /\ world[d] = 0
  /\ status[c] = "EXECUTED" =>
       \A d \in DOMAIN writes[c] : world[d] = writes[c][d] /\ copy[c].slots[d] = world[d]

\* A recovery is of quarantined devices; when it throws they still are.
Recovery == {"readiness", "reading", "recovering", "recovered", "rereading", "rechecking"}

CallerInv(c) ==
  /\ pc[c] = "idle" => AtRest
  /\ pc[c] \in Recovery => DOMAIN writes[c] \subseteq runtime.quarantined
  /\ pc[c] \in Early => UnderWay(c)
  /\ pc[c] \in {"rereading", "rechecking"} => Verifying(c)
  /\ pc[c] = "rechecking" => \A d \in DOMAIN writes[c] : world[d] = 0
  /\ pc[c] = "install" => Installable(c)

\* Reconciling with the observations changes the targets' slots alone.
LEMMA ObservedFields ==
  ASSUME TypeOK, NEW c \in Call
  PROVE  /\ Observed(c).quarantined = copy[c].quarantined
         /\ \A d \in Device : Observed(c).slots[d] =
              IF d \in DOMAIN writes[c] THEN world[d] ELSE copy[c].slots[d]
<1>1. copy[c] \in Runtime
  BY DEF TypeOK
<1>2. QED  BY <1>1 DEF Observed, Runtime

\* Quarantining changes no slot.
LEMMA MarkedFields ==
  ASSUME NEW rt \in Runtime, NEW targets
  PROVE  /\ MarkQuarantined(rt, targets).slots = rt.slots
         /\ MarkQuarantined(rt, targets).quarantined = rt.quarantined \cup targets
  BY DEF MarkQuarantined, Runtime

\* Where a call is when it has its result.
LEMMA EndsAt ==
  ASSUME TypeOK, NEW c \in Call, NEW rt, NEW s, Ends(c, rt, s)
  PROVE  pc'[c] = "install" /\ copy'[c] = rt /\ status'[c] = s
  BY DEF TypeOK, Ends, Goto

\* A result that claims nothing keeps the invariant if it is as good as the runtime.
LEMMA PlainResult ==
  ASSUME TypeOK, NEW c \in Call, NEW rt, NEW s \in Status \ {"RECOVERED", "EXECUTED"},
         Ends(c, rt, s),
         doubt' \cup runtime'.quarantined \subseteq rt.quarantined, RightAfter(rt)
  PROVE  CallerInv(c)'
<1>1. pc'[c] = "install" /\ copy'[c] = rt /\ status'[c] = s
  BY EndsAt
<1>2. Installable(c)'
  BY <1>1 DEF Installable, Trusted, Believed, RightAfter
<1>3. QED  BY <1>1, <1>2 DEF CallerInv, Early, Recovery

\* A call that is refused, or a recovery that is given up, returns what it has.
LEMMA BlockedStep ==
  ASSUME TypeOK, NEW c \in Call, CallerInv(c),
         \/ NoExecution(c) \/ Refused(c) \/ NotRecovered(c)
         \/ \E id \in AuthId : Replayed(c, id)
         \/ \E id \in AuthId, authorized \in Writes : Burned(c, id, authorized)
  PROVE  CallerInv(c)'
<1>1. PICK rt, s :
         /\ s \in Status \ {"RECOVERED", "EXECUTED"}
         /\ Ends(c, rt, s)
         /\ rt = IF pc[c] = "idle" THEN runtime ELSE copy[c]
  BY DEF NoExecution, Refused, NotRecovered, Replayed, Burned, Status
<1>2. UNCHANGED <<runtime, world, doubt, unread>>
  BY DEF NoExecution, Refused, NotRecovered, Replayed, Burned
<1>3. pc[c] \in {"idle", "authorizing", "readiness", "reading", "rereading", "rechecking"}
  BY DEF NoExecution, Refused, NotRecovered, Replayed, Burned
<1>4. /\ doubt \cup runtime.quarantined \subseteq rt.quarantined
      /\ \A d \in Device \ (rt.quarantined \cup unread) : rt.slots[d] = world[d]
  BY <1>1, <1>3 DEF CallerInv, AtRest, UnderWay, Verifying, Early, Moved, Believed
<1>5. doubt' \cup runtime'.quarantined \subseteq rt.quarantined /\ RightAfter(rt)
  BY <1>2, <1>4 DEF RightAfter
<1>6. QED  BY <1>1, <1>5, PlainResult

\* A call that starts, or goes on without a driver call, keeps the runtime it has.
LEMMA UnderWayStep ==
  ASSUME TypeOK, NEW c \in Call, CallerInv(c),
         \/ \E requested \in Writes : Execute(c, requested)
         \/ \E id \in AuthId, authorized \in Writes : Dispatch(c, id, authorized)
         \/ \E d \in Window, v \in Pct : Recover(c, d, v)
         \/ Prepare(c)
  PROVE  CallerInv(c)'
<1>1. /\ pc[c] \in {"idle", "authorizing", "readiness", "reading"}
      /\ pc'[c] \in {"authorizing", "driving", "readiness", "reading", "recovering"}
      /\ copy'[c] = IF pc[c] = "idle" THEN runtime ELSE copy[c]
      /\ UNCHANGED <<runtime, world, doubt, unread>>
  BY DEF TypeOK, Execute, Dispatch, Recover, Prepare, Goto
<1>2. copy'[c] = runtime /\ doubt \subseteq runtime.quarantined /\ Believed(runtime, {})
  BY <1>1 DEF CallerInv, AtRest, UnderWay, Early, Moved
<1>3. UnderWay(c)'
  BY <1>1, <1>2 DEF UnderWay, Believed, Moved
<1>4. pc'[c] \in Recovery => DOMAIN writes'[c] \subseteq runtime'.quarantined
  <2>1. CASE Prepare(c)
    BY <2>1 DEF Prepare, CallerInv, Recovery
  <2>2. CASE \E d \in Window, v \in Pct : Recover(c, d, v)
    BY <2>2 DEF Recover, IsQuarantined, TypeOK
  <2>3. CASE \/ \E requested \in Writes : Execute(c, requested)
             \/ \E id \in AuthId, authorized \in Writes : Dispatch(c, id, authorized)
    BY <2>3 DEF Execute, Dispatch, Goto, Recovery, TypeOK
  <2>4. QED  BY <2>1, <2>2, <2>3
<1>5. QED  BY <1>1, <1>3, <1>4 DEF CallerInv, Early

\* The devices move and nobody knows yet: only the targets may be elsewhere.
LEMMA EffectStep ==
  ASSUME TypeOK, NEW c \in Call, CallerInv(c), Effect(c)
  PROVE  CallerInv(c)'
<1>1. /\ pc[c] \in {"driving", "recovering"} /\ pc'[c] \in {"moved", "recovered"}
      /\ UNCHANGED <<runtime, copy, writes, doubt, unread>>
  BY DEF TypeOK, Effect, Goto
<1>2. \A d \in Device \ DOMAIN writes[c] : world'[d] = world[d]
  BY DEF Effect
<1>3. UnderWay(c)
  BY <1>1 DEF CallerInv, Early
<1>4. UnderWay(c)'
  BY <1>1, <1>2, <1>3 DEF UnderWay, Believed, Moved
<1>5. pc'[c] \in Recovery => DOMAIN writes'[c] \subseteq runtime'.quarantined
  BY <1>1 DEF CallerInv, Recovery, Effect, Goto, TypeOK
<1>6. QED  BY <1>1, <1>4, <1>5 DEF CallerInv, Early

\* A driver call that failed claims nothing.
LEMMA FailedStatus ==
  ASSUME NEW c \in Call
  PROVE  Failed(c) \in Status \ {"RECOVERED", "EXECUTED"}
  BY DEF Failed, Status

\* While the driver is awaited, the copy is the runtime, right but for what moved.
LEMMA AtDriver ==
  ASSUME TypeOK, NEW c \in Call, CallerInv(c), pc[c] \in Driving
  PROVE  /\ copy[c] = runtime /\ copy[c] \in Runtime
         /\ doubt \subseteq runtime.quarantined
         /\ \A d \in Device \ (runtime.quarantined \cup unread \cup DOMAIN writes[c]) :
              runtime.slots[d] = world[d]
         /\ pc[c] \in {"driving", "recovering"} => Believed(runtime, {})
  BY DEF CallerInv, UnderWay, Early, Driving, Moved, Believed, TypeOK

\* After an exception the targets are quarantined, wherever they are.
LEMMA AmbiguousStep ==
  ASSUME TypeOK, NEW c \in Call, CallerInv(c), Ambiguous(c)
  PROVE  CallerInv(c)'
<1>0. PICK rt, s : rt = MarkQuarantined(copy[c], DOMAIN writes[c]) /\ s = Failed(c)
  OBVIOUS
<1>1. pc[c] \in Driving /\ Ends(c, rt, s) /\ doubt' = doubt \cup DOMAIN writes[c]
      /\ UNCHANGED <<runtime, world, unread>>
  BY <1>0 DEF Ambiguous
<1>2. rt.slots = runtime.slots /\ rt.quarantined = runtime.quarantined \cup DOMAIN writes[c]
  BY <1>0, <1>1, AtDriver, MarkedFields
<1>3. doubt' \cup runtime'.quarantined \subseteq rt.quarantined
  BY <1>1, <1>2, AtDriver
<1>4. RightAfter(rt)
  BY <1>1, <1>2, AtDriver DEF RightAfter
<1>5. QED  BY <1>0, <1>1, <1>3, <1>4, FailedStatus, PlainResult

\* An unsure answer quarantines the target and tells where it is.
LEMMA UnsureStep ==
  ASSUME TypeOK, NEW c \in Call, CallerInv(c), Unsure(c)
  PROVE  CallerInv(c)'
<1>0. PICK rt, s : rt = MarkQuarantined(Observed(c), DOMAIN writes[c]) /\ s = Failed(c)
  OBVIOUS
<1>1. pc[c] \in Driving /\ Ends(c, rt, s) /\ doubt' = doubt \cup DOMAIN writes[c]
      /\ unread' = unread \ DOMAIN writes[c] /\ UNCHANGED <<runtime, world>>
  BY <1>0 DEF Unsure
<1>2. /\ rt.slots = Observed(c).slots
      /\ rt.quarantined = runtime.quarantined \cup DOMAIN writes[c]
  BY <1>0, <1>1, AtDriver, ObservedIsRuntime, MarkedFields, ObservedFields
<1>3. doubt' \cup runtime'.quarantined \subseteq rt.quarantined
  BY <1>1, <1>2, AtDriver
<1>4. RightAfter(rt)
  BY <1>1, <1>2, AtDriver, ObservedFields DEF RightAfter
<1>5. QED  BY <1>0, <1>1, <1>3, <1>4, FailedStatus, PlainResult

\* A target that was not moved as requested is read; a set that was rejected is not moved.
LEMMA NotAppliedStep ==
  ASSUME TypeOK, NEW c \in Call, CallerInv(c), NotApplied(c)
  PROVE  CallerInv(c)'
<1>1. pc[c] \in Driving /\ UNCHANGED <<runtime, world, doubt>>
  BY DEF NotApplied
<1>2. CASE Cardinality(DOMAIN writes[c]) = 1
  <2>1. Ends(c, Observed(c), Failed(c)) /\ unread' = unread \ DOMAIN writes[c]
    BY <1>2 DEF NotApplied
  <2>2. doubt' \cup runtime'.quarantined \subseteq Observed(c).quarantined
    BY <1>1, AtDriver, ObservedFields
  <2>3. \A d \in Device \ (Observed(c).quarantined \cup unread') : Observed(c).slots[d] = world'[d]
    BY <1>1, <2>1, AtDriver, ObservedFields
  <2>4. PICK rt, s : rt = Observed(c) /\ s = Failed(c)
    OBVIOUS
  <2>5. QED  BY <2>1, <2>2, <2>3, <2>4, FailedStatus, PlainResult DEF RightAfter
<1>3. CASE Cardinality(DOMAIN writes[c]) # 1
  <2>1. Ends(c, runtime, Failed(c)) /\ pc[c] = "driving" /\ unread' = unread
    BY <1>1, <1>3, AtDriver DEF NotApplied
  <2>2. Believed(runtime, {}) /\ doubt \subseteq runtime.quarantined
    BY <1>1, <2>1, AtDriver
  <2>3. PICK rt, s : rt = runtime /\ s = Failed(c)
    OBVIOUS
  <2>4. RightAfter(rt)
    BY <1>1, <2>1, <2>2, <2>3 DEF RightAfter, Believed
  <2>5. QED  BY <1>1, <2>1, <2>2, <2>3, <2>4, FailedStatus, PlainResult
<1>4. QED  BY <1>2, <1>3

\* An applied command is read: the copy has what the device does.
LEMMA AppliedStep ==
  ASSUME TypeOK, NEW c \in Call, CallerInv(c), Applied(c)
  PROVE  CallerInv(c)'
<1>1. /\ pc[c] \in Driving /\ UNCHANGED <<runtime, world, writes, doubt>>
      /\ unread' = unread \ DOMAIN writes[c]
      /\ \A d \in DOMAIN writes[c] : world[d] = writes[c][d]
  BY DEF Applied
<1>2. copy'[c] = Observed(c)
  BY EndsAt DEF Applied, TypeOK
<1>3. /\ doubt' \cup runtime'.quarantined \subseteq copy'[c].quarantined
      /\ \A d \in DOMAIN writes[c] : copy'[c].slots[d] = world[d]
      /\ Believed(copy[c], {})'
  <2>1. DOMAIN writes[c] \subseteq Device
    BY WritesAreWrites DEF TypeOK
  <2>2. QED  BY <1>1, <1>2, <2>1, AtDriver, ObservedFields DEF Believed
<1>4. CASE pc[c] \in Recovering
  <2>1. pc'[c] = "rereading"
    BY <1>4 DEF Applied, TypeOK, Goto
  <2>2. DOMAIN writes[c] \subseteq runtime.quarantined
    BY <1>4 DEF CallerInv, Recovering, Recovery
  <2>3. AtRest'
    BY <1>1, <2>2, AtDriver DEF AtRest, Believed
  <2>4. QED  BY <1>1, <1>3, <2>1, <2>2, <2>3 DEF CallerInv, Verifying, Early
<1>5. CASE pc[c] \notin Recovering
  <2>1. pc'[c] = "install" /\ status'[c] = "EXECUTED"
    BY <1>5, EndsAt DEF Applied
  <2>2. QED  BY <1>1, <1>3, <2>1 DEF CallerInv, Installable, Trusted, Early, Recovery
<1>6. QED  BY <1>4, <1>5

\* Without an observation the targets are unread, and the rest is as it was.
LEMMA NoObservationStep ==
  ASSUME TypeOK, NEW c \in Call, CallerInv(c), NoObservation(c)
  PROVE  CallerInv(c)'
<1>1. /\ pc[c] \in Driving /\ UNCHANGED <<runtime, world, doubt>>
      /\ unread' = unread \cup DOMAIN writes[c]
  BY DEF NoObservation
<1>2. doubt' \cup runtime'.quarantined \subseteq runtime.quarantined /\ Believed(runtime, {})'
  BY <1>1, AtDriver DEF Believed
<1>3. CASE Throws(c)
  <2>1. pc'[c] = "idle"
    BY <1>3 DEF Throws, Goto, TypeOK
  <2>2. QED  BY <1>1, <1>2, <2>1 DEF CallerInv, AtRest, Early, Recovery
<1>4. CASE Ends(c, copy[c], Failed(c))
  <2>1. PICK rt, s : rt = runtime /\ s = Failed(c)
    OBVIOUS
  <2>2. Ends(c, rt, s) /\ RightAfter(rt)
    BY <1>1, <1>2, <1>4, <2>1, AtDriver DEF Believed, RightAfter
  <2>3. QED  BY <1>1, <1>2, <2>1, <2>2, FailedStatus, PlainResult
<1>5. QED  BY <1>3, <1>4 DEF NoObservation

\* The second reading of a recovery finds the device shut.
LEMMA RereadStep ==
  ASSUME TypeOK, NEW c \in Call, CallerInv(c), Reread(c)
  PROVE  CallerInv(c)'
<1>1. /\ pc[c] = "rereading" /\ pc'[c] = "rechecking" /\ copy'[c] = Observed(c)
      /\ UNCHANGED <<runtime, world, writes, doubt, unread>>
      /\ \A d \in DOMAIN writes[c] : world[d] = 0
  BY DEF Reread, Goto, TypeOK
<1>2. Verifying(c) /\ DOMAIN writes[c] \subseteq Device
  BY <1>1, WritesAreWrites DEF CallerInv, TypeOK
<1>3. Verifying(c)'
  BY <1>1, <1>2, ObservedFields DEF Verifying, AtRest, Believed
<1>4. QED  BY <1>1, <1>3 DEF CallerInv, Early, Recovery

\* Trust is restored in a device that was read where the copy has it.
LEMMA RestoreStep ==
  ASSUME TypeOK, NEW c \in Call, CallerInv(c), Restore(c)
  PROVE  CallerInv(c)'
<1> DEFINE rt == [copy[c] EXCEPT !.quarantined = @ \ DOMAIN writes[c]]
<1>1. pc[c] = "rechecking" /\ Ends(c, rt, "RECOVERED")
      /\ UNCHANGED <<runtime, world, writes, doubt, unread>>
  BY DEF Restore
<1>2. pc'[c] = "install" /\ copy'[c] = rt /\ status'[c] = "RECOVERED"
  BY <1>1, EndsAt
<1>3. rt.slots = copy[c].slots /\ rt.quarantined = copy[c].quarantined \ DOMAIN writes[c]
  BY DEF TypeOK, Runtime
<1>4. Verifying(c) /\ \A d \in DOMAIN writes[c] : world[d] = 0
  BY <1>1 DEF CallerInv
<1>5. Installable(c)'
  BY <1>1, <1>2, <1>3, <1>4 DEF Installable, Trusted, Verifying, Believed
<1>6. QED  BY <1>2, <1>5 DEF CallerInv, Early, Recovery

\* A recovery that throws leaves the runtime, whose targets are quarantined.
LEMMA RecoveryThrowsStep ==
  ASSUME TypeOK, NEW c \in Call, CallerInv(c), RecoveryThrows(c)
  PROVE  CallerInv(c)'
<1>1. /\ pc[c] \in {"readiness", "reading", "rereading", "rechecking"} /\ pc'[c] = "idle"
      /\ UNCHANGED <<runtime, world, doubt, unread>>
  BY DEF RecoveryThrows, Throws, Goto, TypeOK
<1>2. AtRest
  BY <1>1 DEF CallerInv, UnderWay, Verifying, AtRest, Early, Moved, Believed
<1>3. AtRest'
  BY <1>1, <1>2 DEF AtRest, Believed
<1>4. QED  BY <1>1, <1>3 DEF CallerInv, Early, Recovery

\* The result becomes the runtime, and its recovery is over.
LEMMA InstallStep ==
  ASSUME TypeOK, NEW c \in Call, CallerInv(c), Install(c)
  PROVE  CallerInv(c)'
<1>1. /\ pc[c] = "install" /\ pc'[c] = "idle" /\ runtime' = copy[c]
      /\ doubt' = doubt \ Trusted(c) /\ UNCHANGED <<world, unread>>
  BY DEF Install, Goto, TypeOK, Trusted
<1>2. Installable(c)
  BY <1>1 DEF CallerInv
<1>3. AtRest'
  BY <1>1, <1>2 DEF AtRest, Installable, Believed
<1>4. QED  BY <1>1, <1>3 DEF CallerInv, Early, Recovery

-----------------------------------------------------------------------------
(* One caller *)

OneCallInv(c) == TypeOK /\ CallerInv(c)

\* The only call of a caller that awaits has not been made yet.
LEMMA OneCallInit ==
  ASSUME NEW c, Call = {c}
  PROVE  Init => OneCallInv(c)
<1> SUFFICES ASSUME Init
             PROVE  OneCallInv(c)
  OBVIOUS
<1>1. runtime \in Runtime
  BY DEF Init, Runtime
<1>2. TypeOK
  BY <1>1 DEF Init, TypeOK, Position, Status
<1>3. pc[c] = "idle" /\ AtRest
  BY DEF Init, AtRest, Believed
<1>4. QED  BY <1>2, <1>3 DEF OneCallInv, CallerInv, Early, Recovery

\* Every step is one of this call.
LEMMA OneCallStep ==
  ASSUME NEW c, Call = {c}, OneCallInv(c), [Next]_vars
  PROVE  OneCallInv(c)'
<1>1. TypeOK /\ TypeOK' /\ CallerInv(c) /\ c \in Call
  BY StepType DEF OneCallInv
<1>2. CASE UNCHANGED vars
  BY <1>1, <1>2 DEF vars, OneCallInv, CallerInv, AtRest, UnderWay, Verifying, Installable,
     Believed, Moved, Trusted
<1>3. CASE Next
  <2>1. CallerInv(c)'
    BY <1>1, <1>3, BlockedStep, UnderWayStep, EffectStep, AmbiguousStep, UnsureStep,
       NotAppliedStep, AppliedStep, NoObservationStep, RereadStep, RestoreStep,
       RecoveryThrowsStep, InstallStep
       DEF Next
  <2>2. QED  BY <1>1, <2>1 DEF OneCallInv
<1>4. QED  BY <1>2, <1>3

\* The invariant contains the properties.
LEMMA OneCallTells ==
  ASSUME NEW c, Call = {c}, OneCallInv(c)
  PROVE  QuarantineHeld /\ BeliefIsReal
<1>1. QuarantineHeld
  BY DEF OneCallInv, CallerInv, AtRest, QuarantineHeld, Quiet
<1>2. BeliefIsWorld
  BY DEF OneCallInv, CallerInv, AtRest, Believed, BeliefIsWorld, Quiet
<1>3. ExecutedIsReal
  BY DEF OneCallInv, CallerInv, Installable, ExecutedIsReal
<1>4. QED  BY <1>1, <1>2, <1>3 DEF OneCallInv, BeliefIsReal

\* Of a caller that awaits each call, whatever driver and authorizer do: a device
\* whose command ended in doubt is quarantined until a recovery has verified it.
THEOREM OneCallerKeepsQuarantine ==
  ASSUME NEW c, Call = {c}
  PROVE  Spec => []QuarantineHeld
<1>1. OneCallInv(c) => QuarantineHeld
  BY OneCallTells
<1>2. OneCallInv(c) /\ [Next]_vars => OneCallInv(c)'
  BY OneCallStep
<1>3. QED  BY <1>1, <1>2, OneCallInit, PTL DEF Spec

\* Of such a caller: a device that is trusted and was read is where the runtime
\* believes it to be, and EXECUTED is true.
THEOREM OneCallerBelievesTheWorld ==
  ASSUME NEW c, Call = {c}
  PROVE  Spec => []BeliefIsReal
<1>1. OneCallInv(c) => BeliefIsReal
  BY OneCallTells
<1>2. OneCallInv(c) /\ [Next]_vars => OneCallInv(c)'
  BY OneCallStep
<1>3. QED  BY <1>1, <1>2, OneCallInit, PTL DEF Spec

\* Of such a caller, only the installation of a verified recovery ends a
\* quarantine, and the window is shut then.
THEOREM OneCallerEndsShut ==
  ASSUME NEW c, Call = {c}
  PROVE  Spec => QuarantineEndsShut
<1>1. Init => OneCallInv(c)
  BY OneCallInit
<1>2. OneCallInv(c) /\ [Next]_vars => OneCallInv(c)'
  BY OneCallStep
<1>3. OneCallInv(c) /\ [Next]_vars => [EndsShut]_vars
  <2> SUFFICES ASSUME OneCallInv(c), [Next]_vars
               PROVE  EndsShut
    OBVIOUS
  <2>1. CASE Install(c)
    <3>1. /\ runtime' = copy[c] /\ pc[c] = "install" /\ Installable(c)
      BY <2>1 DEF Install, OneCallInv, CallerInv
    <3>2. QED  BY <3>1 DEF Installable, Trusted, EndsShut
  <2>2. CASE runtime' = runtime
    BY <2>2 DEF EndsShut
  <2>3. QED
    BY <2>1, <2>2 DEF Next, vars, NoExecution, Refused, Execute, Replayed, Burned,
       Dispatch, Effect, Ambiguous, Unsure, NotApplied, Applied, NoObservation, Recover,
       Prepare, Reread, Restore, NotRecovered, RecoveryThrows
<1>4. QED  BY <1>1, <1>2, <1>3, PTL DEF Spec, QuarantineEndsShut

-----------------------------------------------------------------------------
(* What is said, on its way through the pipe *)

EventType == [kind : Kinds, text : Texts, segment : Nat, revision : Nat]

\* What was said, accepted and is on its way fits together.
Matches(spoken, taken, coming) ==
    /\ Len(spoken) = Len(taken) + Cardinality(FinalAt(coming))
    /\ \A k \in DOMAIN taken : spoken[k] = taken[k]
    /\ \A i \in FinalAt(coming) : spoken[Len(taken) + UpTo(coming, i)] = coming[i].text

\* The places of a sequence without its head.
Shift(A) == {i \in Nat \ {0} : i + 1 \in A}

\* Without the head there is one place less, or none.
LEMMA ShiftCount ==
    ASSUME NEW A \in SUBSET (Nat \ {0}), IsFiniteSet(A)
    PROVE  /\ Cardinality(A) \in Nat /\ Cardinality(Shift(A)) \in Nat
           /\ Cardinality(A) = Cardinality(Shift(A)) + (IF 1 \in A THEN 1 ELSE 0)
<1> DEFINE B == A \ {1}
           f == [i \in Shift(A) |-> i + 1]
<1>1. f \in Bijection(Shift(A), B)
    <2>1. f \in [Shift(A) -> B]
        BY DEF Shift
    <2>2. \A i, j \in Shift(A) : f[i] = f[j] => i = j
        BY DEF Shift
    <2>3. \A b \in B : b - 1 \in Shift(A) /\ f[b - 1] = b
        BY DEF Shift
    <2>4. \A b \in B : \E i \in Shift(A) : f[i] = b
        BY <2>3
    <2>5. QED
        BY <2>1, <2>2, <2>4 DEF Bijection, Injection, Surjection, IsInjective
<1>2. IsFiniteSet(B) /\ Cardinality(B) = Cardinality(A) - (IF 1 \in A THEN 1 ELSE 0)
    <2>1. CASE 1 \in A
        BY <2>1, FS_RemoveElement
    <2>2. CASE 1 \notin A
        <3>1. B = A
            BY <2>2
        <3>2. Cardinality(A) \in Nat
            BY FS_CardinalityType
        <3>3. Cardinality(A) = Cardinality(A) - 0
            BY <3>2
        <3>4. QED
            BY <2>2, <3>1, <3>3
    <2>3. QED
        BY <2>1, <2>2
<1>3. ExistsBijection(Shift(A), B)
    BY <1>1 DEF ExistsBijection
<1>4. ExistsBijection(B, Shift(A))
    BY <1>3, Fun_ExistsBijSymmetric
<1>5. IsFiniteSet(Shift(A)) /\ Cardinality(Shift(A)) = Cardinality(B)
    BY <1>2, <1>4, FS_Bijection
<1>6. QED
    BY <1>2, <1>5, FS_CardinalityType

\* The finals of a sequence, and those up to one of them, can be counted.
LEMMA CountingFinals ==
    ASSUME NEW p \in Seq(EventType)
    PROVE  /\ FinalAt(p) \in SUBSET (Nat \ {0}) /\ IsFiniteSet(FinalAt(p))
           /\ Cardinality(FinalAt(p)) \in Nat
           /\ \A n \in Nat : LET U == {j \in FinalAt(p) : j <= n} IN
                /\ U \in SUBSET (Nat \ {0}) /\ IsFiniteSet(U) /\ Cardinality(U) \in Nat
                /\ Cardinality(U) <= Cardinality(FinalAt(p))
           /\ \A i \in FinalAt(p) : UpTo(p, i) \in 1..Cardinality(FinalAt(p))
<1>1. FinalAt(p) \subseteq 1..Len(p) /\ Len(p) \in Nat
    BY DEF FinalAt
<1>2. IsFiniteSet(1..Len(p))
    BY <1>1, FS_Interval
<1>3. IsFiniteSet(FinalAt(p)) /\ Cardinality(FinalAt(p)) \in Nat
    BY <1>1, <1>2, FS_Subset, FS_CardinalityType
<1>4. ASSUME NEW n \in Nat
      PROVE  LET U == {j \in FinalAt(p) : j <= n} IN
               /\ U \in SUBSET (Nat \ {0}) /\ IsFiniteSet(U) /\ Cardinality(U) \in Nat
               /\ Cardinality(U) <= Cardinality(FinalAt(p))
    <2> DEFINE U == {j \in FinalAt(p) : j <= n}
    <2>1. U \subseteq FinalAt(p) /\ U \subseteq Nat \ {0}
        BY <1>1
    <2>2. IsFiniteSet(U) /\ Cardinality(U) <= Cardinality(FinalAt(p))
        BY <2>1, <1>3, FS_Subset
    <2>3. QED
        BY <2>1, <2>2, FS_CardinalityType
<1>5. ASSUME NEW i \in FinalAt(p)
      PROVE  UpTo(p, i) \in 1..Cardinality(FinalAt(p))
    <2>1. i \in Nat
        BY <1>1
    <2> DEFINE U == {j \in FinalAt(p) : j <= i}
    <2>2. i \in U /\ IsFiniteSet(U) /\ Cardinality(U) \in Nat
          /\ Cardinality(U) <= Cardinality(FinalAt(p))
        BY <2>1, <1>4
    <2>3. Cardinality(U) # 0
        BY <2>2, FS_EmptySet
    <2>4. Cardinality(U) = UpTo(p, i)
        BY DEF UpTo
    <2> HIDE DEF U
    <2>5. QED
        BY <2>2, <2>3, <2>4, <1>3
<1>6. QED
    BY <1>1, <1>3, <1>4, <1>5

\* A partial or stable event on its way changes nothing.
LEMMA MatchesOther ==
    ASSUME NEW s \in Seq(Texts), NEW h \in Seq(Texts), NEW p \in Seq(EventType),
           Matches(s, h, p), NEW e \in EventType, e.kind # "final"
    PROVE  Matches(s, h, Append(p, e))
<1> DEFINE q == Append(p, e)
<1>1. /\ Len(q) = Len(p) + 1 /\ Len(p) \in Nat /\ q[Len(p) + 1] = e
      /\ \A i \in 1..Len(p) : q[i] = p[i]
      /\ DOMAIN p = 1..Len(p) /\ DOMAIN q = 1..Len(p) + 1
    OBVIOUS
<1>2. FinalAt(q) = FinalAt(p)
    <2> HIDE DEF q
    <2>1. QED
        BY <1>1 DEF FinalAt
<1>3. \A i \in FinalAt(q) : UpTo(q, i) = UpTo(p, i) /\ q[i] = p[i]
    <2> HIDE DEF q
    <2>1. QED
        BY <1>1, <1>2 DEF UpTo, FinalAt
<1> HIDE DEF q
<1>4. Matches(s, h, q)
    BY <1>2, <1>3 DEF Matches
<1>5. QED
    BY <1>4 DEF q

\* A final event on its way is one utterance more.
LEMMA MatchesFinal ==
    ASSUME NEW s \in Seq(Texts), NEW h \in Seq(Texts), NEW p \in Seq(EventType),
           Matches(s, h, p), NEW e \in EventType, e.kind = "final"
    PROVE  Matches(Append(s, e.text), h, Append(p, e))
<1> DEFINE q == Append(p, e)
           t == Append(s, e.text)
           new == Len(p) + 1
<1>1. /\ Len(q) = Len(p) + 1 /\ Len(p) \in Nat /\ q[Len(p) + 1] = e
      /\ \A i \in 1..Len(p) : q[i] = p[i]
      /\ DOMAIN p = 1..Len(p) /\ DOMAIN q = 1..Len(p) + 1
    OBVIOUS
<1>2. /\ Len(t) = Len(s) + 1 /\ Len(s) \in Nat /\ t[Len(s) + 1] = e.text /\ Len(h) \in Nat
      /\ \A k \in 1..Len(s) : t[k] = s[k]
      /\ DOMAIN h = 1..Len(h)
    BY DEF EventType
<1>3. q \in Seq(EventType)
    OBVIOUS
<1> HIDE DEF q, t
<1>4. FinalAt(q) = FinalAt(p) \cup {new} /\ new \notin FinalAt(p)
    BY <1>1 DEF FinalAt
<1>5. Cardinality(FinalAt(q)) = Cardinality(FinalAt(p)) + 1
    BY <1>4, CountingFinals, FS_AddElement
<1>6. \A i \in FinalAt(p) : UpTo(q, i) = UpTo(p, i) /\ q[i] = p[i]
    <2>1. \A i \in FinalAt(p) : i \in 1..Len(p)
        BY <1>1 DEF FinalAt
    <2>2. \A i \in FinalAt(p) : {j \in FinalAt(q) : j <= i} = {j \in FinalAt(p) : j <= i}
        BY <2>1, <1>1, <1>4
    <2>3. QED
        BY <2>1, <2>2, <1>1 DEF UpTo
<1>7. UpTo(q, new) = Cardinality(FinalAt(q)) /\ q[new] = e
    <2>1. \A i \in FinalAt(q) : i <= new
        BY <1>1 DEF FinalAt
    <2>2. {j \in FinalAt(q) : j <= new} = FinalAt(q)
        BY <2>1
    <2>3. QED
        BY <2>2, <1>1 DEF UpTo
<1>8. Len(s) = Len(h) + Cardinality(FinalAt(p)) /\ Cardinality(FinalAt(p)) \in Nat
    BY CountingFinals DEF Matches
<1>9. Len(t) = Len(h) + Cardinality(FinalAt(q))
    BY <1>2, <1>5, <1>8
<1>10. \A k \in DOMAIN h : t[k] = h[k]
    BY <1>2, <1>8 DEF Matches
<1>11. ASSUME NEW i \in FinalAt(q)
       PROVE  t[Len(h) + UpTo(q, i)] = q[i].text
    <2>1. CASE i = new
        <3>1. Len(h) + UpTo(q, i) = Len(s) + 1
            BY <2>1, <1>2, <1>7, <1>5, <1>8
        <3>2. QED
            BY <3>1, <2>1, <1>2, <1>7
    <2>2. CASE i \in FinalAt(p)
        <3>1. UpTo(q, i) = UpTo(p, i) /\ q[i] = p[i]
              /\ UpTo(p, i) \in 1..Cardinality(FinalAt(p))
            BY <2>2, <1>6, CountingFinals
        <3>2. Len(h) + UpTo(p, i) \in 1..Len(s)
            BY <3>1, <1>2, <1>8
        <3>3. s[Len(h) + UpTo(p, i)] = p[i].text
            BY <2>2 DEF Matches
        <3>4. QED
            BY <3>1, <3>2, <3>3, <1>2
    <2>3. QED
        BY <2>1, <2>2, <1>4
<1>12. Matches(t, h, q)
    BY <1>9, <1>10, <1>11 DEF Matches
<1>13. QED
    BY <1>12 DEF q, t

\* The finals of the rest of a sequence are those of the sequence, moved up.
LEMMA RestOfFinals ==
    ASSUME NEW p \in Seq(EventType), p # <<>>
    PROVE  /\ FinalAt(Tail(p)) = Shift(FinalAt(p))
           /\ \A i \in FinalAt(Tail(p)) :
                /\ i + 1 \in FinalAt(p) /\ Tail(p)[i] = p[i + 1]
                /\ UpTo(p, i + 1) = UpTo(Tail(p), i) + (IF 1 \in FinalAt(p) THEN 1 ELSE 0)
                /\ UpTo(Tail(p), i) \in Nat
           /\ 1 \in FinalAt(p) <=> Head(p).kind = "final"
<1> DEFINE q == Tail(p)
<1>1. /\ Len(p) \in Nat \ {0} /\ Len(q) = Len(p) - 1 /\ DOMAIN q = 1..Len(p) - 1
      /\ DOMAIN p = 1..Len(p) /\ \A i \in 1..Len(p) - 1 : q[i] = p[i + 1]
      /\ Head(p) = p[1]
    OBVIOUS
<1> HIDE DEF q
<1>2. FinalAt(q) = Shift(FinalAt(p))
    BY <1>1 DEF FinalAt, Shift
<1>3. ASSUME NEW i \in FinalAt(q)
      PROVE  /\ i + 1 \in FinalAt(p) /\ q[i] = p[i + 1]
             /\ UpTo(p, i + 1) = UpTo(q, i) + (IF 1 \in FinalAt(p) THEN 1 ELSE 0)
             /\ UpTo(q, i) \in Nat
    <2>1. i \in 1..Len(p) - 1 /\ i \in Nat /\ i + 1 \in Nat
        BY <1>1 DEF FinalAt
    <2>2. i + 1 \in FinalAt(p) /\ q[i] = p[i + 1]
        BY <1>1, <1>2, <2>1 DEF Shift
    <2> DEFINE U == {j \in FinalAt(p) : j <= i + 1}
               V == {j \in FinalAt(q) : j <= i}
    <2>3. V = Shift(U)
        BY <1>2, <2>1 DEF Shift
    <2>4. U \in SUBSET (Nat \ {0}) /\ IsFiniteSet(U)
        BY <2>1, CountingFinals
    <2>5. 1 \in U <=> 1 \in FinalAt(p)
        BY <2>1
    <2>6. UpTo(p, i + 1) = Cardinality(U) /\ UpTo(q, i) = Cardinality(V)
        BY DEF UpTo
    <2> HIDE DEF U, V
    <2>7. QED
        BY <2>2, <2>3, <2>4, <2>5, <2>6, ShiftCount
<1>4. 1 \in FinalAt(p) <=> Head(p).kind = "final"
    BY <1>1 DEF FinalAt
<1>5. QED
    BY <1>2, <1>3, <1>4 DEF q

\* A partial or stable event that was read changes nothing.
LEMMA MatchesRead ==
    ASSUME NEW s \in Seq(Texts), NEW h \in Seq(Texts), NEW p \in Seq(EventType), p # <<>>,
           Matches(s, h, p), Head(p).kind # "final"
    PROVE  Matches(s, h, Tail(p))
<1>1. 1 \notin FinalAt(p) /\ FinalAt(p) \in SUBSET (Nat \ {0}) /\ IsFiniteSet(FinalAt(p))
    BY RestOfFinals, CountingFinals
<1>2. Cardinality(FinalAt(p)) = Cardinality(FinalAt(Tail(p)))
    BY <1>1, RestOfFinals, ShiftCount
<1>3. \A i \in FinalAt(Tail(p)) : /\ i + 1 \in FinalAt(p) /\ Tail(p)[i] = p[i + 1]
                                  /\ UpTo(p, i + 1) = UpTo(Tail(p), i)
    <2>1. TAKE i \in FinalAt(Tail(p))
    <2>2. /\ i + 1 \in FinalAt(p) /\ Tail(p)[i] = p[i + 1] /\ UpTo(Tail(p), i) \in Nat
          /\ UpTo(p, i + 1) = UpTo(Tail(p), i) + (IF 1 \in FinalAt(p) THEN 1 ELSE 0)
        BY RestOfFinals
    <2>3. UpTo(Tail(p), i) + 0 = UpTo(Tail(p), i)
        BY <2>2
    <2>4. QED
        BY <1>1, <2>2, <2>3
<1>4. QED
    BY <1>2, <1>3 DEF Matches

\* A final event that was accepted is what was said next.
LEMMA MatchesTaken ==
    ASSUME NEW s \in Seq(Texts), NEW h \in Seq(Texts), NEW p \in Seq(EventType), p # <<>>,
           Matches(s, h, p), Head(p).kind = "final"
    PROVE  Matches(s, Append(h, Head(p).text), Tail(p))
<1> DEFINE g == Append(h, Head(p).text)
           q == Tail(p)
<1>1. 1 \in FinalAt(p) /\ FinalAt(p) \in SUBSET (Nat \ {0}) /\ IsFiniteSet(FinalAt(p))
    BY RestOfFinals, CountingFinals
<1>2. Cardinality(FinalAt(p)) = Cardinality(FinalAt(q)) + 1 /\ Cardinality(FinalAt(q)) \in Nat
    BY <1>1, RestOfFinals, ShiftCount
<1>3. Head(p) \in EventType /\ Head(p) = p[1]
    OBVIOUS
<1>4. Head(p).text \in Texts
    BY <1>3 DEF EventType
<1>5. /\ Len(g) = Len(h) + 1 /\ Len(h) \in Nat /\ g[Len(h) + 1] = Head(p).text
      /\ \A k \in 1..Len(h) : g[k] = h[k]
      /\ DOMAIN h = 1..Len(h) /\ DOMAIN g = 1..Len(h) + 1
    BY <1>4
<1>6. Shift({1}) = {}
    BY DEF Shift
<1>7. UpTo(p, 1) = 1
    <2>1. {j \in FinalAt(p) : j <= 1} = {1}
        BY <1>1
    <2>2. QED
        BY <2>1, FS_Singleton DEF UpTo
<1> HIDE DEF g, q
<1>8. Len(s) = Len(g) + Cardinality(FinalAt(q))
    BY <1>2, <1>5 DEF Matches
<1>9. \A k \in DOMAIN g : s[k] = g[k]
    <2>1. s[Len(h) + 1] = p[1].text
        BY <1>1, <1>7 DEF Matches
    <2>2. \A k \in 1..Len(h) : s[k] = h[k]
        BY <1>5 DEF Matches
    <2>3. QED
        BY <2>1, <2>2, <1>3, <1>5
<1>10. ASSUME NEW i \in FinalAt(q)
       PROVE  s[Len(g) + UpTo(q, i)] = q[i].text
    <2>1. /\ i + 1 \in FinalAt(p) /\ q[i] = p[i + 1] /\ UpTo(q, i) \in Nat
          /\ UpTo(p, i + 1) = UpTo(q, i) + 1
        BY <1>1, RestOfFinals DEF q
    <2>2. s[Len(h) + UpTo(p, i + 1)] = p[i + 1].text
        BY <2>1 DEF Matches
    <2>3. Len(h) + UpTo(p, i + 1) = Len(g) + UpTo(q, i)
        BY <2>1, <1>5
    <2>4. QED
        BY <2>1, <2>2, <2>3
<1>11. Matches(s, g, q)
    BY <1>8, <1>9, <1>10 DEF Matches
<1>12. QED
    BY <1>11 DEF g, q
-----------------------------------------------------------------------------
(* The emitter and the pipe *)

Said == Texts \cup {NoText}
EmitterType == [segment : Nat, revision : Nat, last : Said, same : Nat, stable : Said]

LEMMA RevisedIs ==
    ASSUME NEW e \in EmitterType, NEW text \in Said
    PROVE  /\ Revised(e, text) \in EmitterType /\ Revised(e, text).last = text
           /\ Revised(e, text).segment = e.segment
<1>1. CASE text = e.last
    BY <1>1 DEF Revised, EmitterType
<1>2. CASE text # e.last
    BY <1>2 DEF Revised, EmitterType, Said
<1>3. QED
    BY <1>1, <1>2

\* Observing says at most one thing, which is not final.
LEMMA ObserveSays ==
    ASSUME NEW e \in EmitterType, NEW text \in Said
    PROVE  /\ Observe(e, text).em \in EmitterType
           /\ Observe(e, text).em.last = IF text = NoText THEN e.last ELSE text
           /\ Observe(e, text).out # <<>>
                => \E v \in EventType : v.kind # "final" /\ Observe(e, text).out = <<v>>
<1>1. CASE text = NoText
    BY <1>1 DEF Observe
<1>2. CASE text # NoText /\ text # e.last
    <2>1. Observe(e, text) = [em |-> Revised(e, text),
                              out |-> <<Event("partial", text, Revised(e, text))>>]
        BY <1>2 DEF Observe
    <2>2. Event("partial", text, Revised(e, text)) \in EventType
        BY <1>2, RevisedIs DEF Event, EventType, EmitterType, Kinds, Said
    <2>3. Event("partial", text, Revised(e, text)).kind # "final"
        BY DEF Event
    <2>4. QED
        BY <1>2, <2>1, <2>2, <2>3, RevisedIs
<1>3. CASE text # NoText /\ text = e.last
    <2>0. PICK again : again = [e EXCEPT !.same = @ + 1]
        OBVIOUS
    <2>1. again \in EmitterType /\ again.last = e.last
        BY <2>0 DEF EmitterType
    <2> DEFINE stable == [again EXCEPT !.stable = text]
    <2>5. stable \in EmitterType /\ stable.last = e.last
        BY <2>1 DEF EmitterType
    <2>2. Event("stable", text, e) \in EventType /\ Event("stable", text, e).kind # "final"
        BY <1>3 DEF Event, EventType, EmitterType, Kinds, Said
    <2>3. \/ Observe(e, text) = [em |-> stable, out |-> <<Event("stable", text, e)>>]
          \/ Observe(e, text) = [em |-> again, out |-> <<>>]
        BY <1>3, <2>0 DEF Observe
    <2> HIDE DEF stable
    <2>4. CASE Observe(e, text) = [em |-> stable, out |-> <<Event("stable", text, e)>>]
        BY <1>3, <2>4, <2>5, <2>2
    <2>6. CASE Observe(e, text) = [em |-> again, out |-> <<>>]
        BY <1>3, <2>6, <2>1
    <2>7. QED
        BY <2>3, <2>4, <2>6
<1>4. QED
    BY <1>1, <1>2, <1>3

\* The last words are final once, and the next segment starts without any.
LEMMA FinalizeSays ==
    ASSUME NEW e \in EmitterType, NEW text \in Said
    PROVE  LET t == IF text = NoText THEN e.last ELSE text IN
           /\ Finalize(e, text).em \in EmitterType /\ Finalize(e, text).em.last = NoText
           /\ t = NoText => Finalize(e, text).out = <<>>
           /\ t # NoText => \E v \in EventType : /\ v.kind = "final" /\ v.text = t
                                                 /\ Finalize(e, text).out = <<v>>
<1> DEFINE t == IF text = NoText THEN e.last ELSE text
           v == Event("final", t, Revised(e, t))
<1>1. t \in Said
    BY DEF EmitterType
<1>2. Revised(e, t) \in EmitterType
    BY <1>1, RevisedIs
<1>3. t # NoText => v \in EventType
    BY <1>1, <1>2 DEF Event, EventType, EmitterType, Kinds, Said
<1>4. v.kind = "final" /\ v.text = t
    BY DEF Event
<1>5. Emitter(e.segment + 1) \in EmitterType /\ Emitter(e.segment + 1).last = NoText
    BY DEF Emitter, EmitterType, Said
<1>6. Finalize(e, text) = [em |-> Emitter(e.segment + 1),
                           out |-> IF t = NoText THEN <<>> ELSE <<v>>]
    BY DEF Finalize
<1> HIDE DEF t, v
<1>7. /\ Finalize(e, text).em \in EmitterType /\ Finalize(e, text).em.last = NoText
      /\ t = NoText => Finalize(e, text).out = <<>>
      /\ t # NoText => /\ v \in EventType /\ v.kind = "final" /\ v.text = t
                       /\ Finalize(e, text).out = <<v>>
    BY <1>3, <1>4, <1>5, <1>6
<1>8. QED
    BY <1>7 DEF t

LEMMA OneMore ==
    ASSUME NEW p \in Seq(EventType), NEW v \in EventType
    PROVE  p \o <<v>> = Append(p, v) /\ p \o <<>> = p /\ Append(p, v) \in Seq(EventType)
OBVIOUS

\* What is heard goes on its way and fits.
LEMMA ObserveFlows ==
    ASSUME NEW e \in EmitterType, NEW text \in Said, NEW p \in Seq(EventType)
    PROVE  /\ Observe(e, text).out \in Seq(EventType)
           /\ p \o Observe(e, text).out \in Seq(EventType)
           /\ \A s, h \in Seq(Texts) :
                Matches(s, h, p) => Matches(s, h, p \o Observe(e, text).out)
<1>1. CASE Observe(e, text).out = <<>>
    BY <1>1, p \o <<>> = p
<1>2. CASE Observe(e, text).out # <<>>
    <2>1. PICK v \in EventType : v.kind # "final" /\ Observe(e, text).out = <<v>>
        BY <1>2, ObserveSays
    <2>2. p \o <<v>> = Append(p, v) /\ Append(p, v) \in Seq(EventType) /\ <<v>> \in Seq(EventType)
        OBVIOUS
    <2>3. QED
        BY <2>1, <2>2, MatchesOther
<1>3. QED
    BY <1>1, <1>2

LEMMA FinalizeFlows ==
    ASSUME NEW e \in EmitterType, NEW text \in Said, NEW p \in Seq(EventType)
    PROVE  LET t == IF text = NoText THEN e.last ELSE text
               q == p \o Finalize(e, text).out
           IN  /\ q \in Seq(EventType) /\ Finalize(e, text).out \in Seq(EventType)
               /\ \A s, h \in Seq(Texts) : Matches(s, h, p) =>
                    Matches(IF t = NoText THEN s ELSE Append(s, t), h, q)
<1> DEFINE t == IF text = NoText THEN e.last ELSE text
           o == Finalize(e, text).out
<1>1. CASE t = NoText
    <2>1. o = <<>> /\ p \o <<>> = p
        BY <1>1, FinalizeSays
    <2> HIDE DEF o, t
    <2>2. p \o o = p /\ o \in Seq(EventType)
        BY <2>1
    <2>3. QED
        BY <1>1, <2>2 DEF o, t
<1>2. CASE t # NoText
    <2>1. PICK v \in EventType : v.kind = "final" /\ v.text = t /\ o = <<v>>
        BY <1>2, FinalizeSays
    <2>2. p \o <<v>> = Append(p, v) /\ Append(p, v) \in Seq(EventType) /\ <<v>> \in Seq(EventType)
        OBVIOUS
    <2> HIDE DEF o, t
    <2>3. \A s, h \in Seq(Texts) : Matches(s, h, p) => Matches(Append(s, t), h, p \o o)
        BY <2>1, <2>2, MatchesFinal
    <2>4. QED
        BY <1>2, <2>1, <2>2, <2>3 DEF o, t
<1>3. QED
    BY <1>1, <1>2
-----------------------------------------------------------------------------
(* The invariant of a run *)

Mains == {"idle", "build", "node", "asr", "close", "wait asr", "kill", "wait node", "done"}

RunTypeOK ==
    /\ main \in Mains /\ asr \in {"off", "starting", "decoding", "exited", "failed"}
    /\ node \in {"off", "starting", "reading", "acting", "closing", "closeout", "ended",
                   "killed"}
    /\ em \in EmitterType /\ lastText \in Said
    /\ said \in Seq(Texts) /\ heard \in Seq(Texts) /\ pipe \in Seq(EventType)
    /\ window \in [position : {"shut", "open"}, writes : Nat, closeouts : Nat]
    /\ writers \subseteq {"main", "asr"}

\* As long as the node process reads, nothing that was said is lost.
NothingLost == node \in {"off", "starting", "reading"} => Matches(said, heard, pipe)

\* The wrapper starts the processes in order, and holds the pipe until both run.  The
\* emitter and decode() agree on the last words.
InOrder ==
    /\ main \in {"idle", "build", "node"} => node = "off"
    /\ main \in {"idle", "build", "node", "asr"} => asr = "off"
    /\ main \in {"wait node", "kill", "done"} => asr \notin {"starting", "decoding"}
    /\ main \in {"asr", "close"} => "main" \in writers
    /\ asr \in {"starting", "decoding"} => "asr" \in writers
    /\ asr \in {"off", "starting", "decoding"} => em.last = lastText

\* All input has come, and one thing was said.
OneThingSaid == writers = {} /\ Len(heard) = 1 /\ Len(said) = 1

\* A probe comes after all input, only with --apply, and a node process that ends without
\* an error has closed the window it opened.
ProbesLast ==
    /\ Given("apply") => Len(heard) <= 1
    /\ node \in {"off", "starting", "reading", "acting"} => window.writes = 0
    /\ node \in {"off", "starting", "reading", "acting", "closing", "closeout"}
         => window.closeouts = 0
    /\ node = "acting" => OneThingSaid /\ Given("apply")
    /\ window.writes > 0 =>
         /\ window.writes = 1 /\ OneThingSaid /\ Given("apply")
         /\ node = "ended" /\ ok => window.closeouts = 1 /\ window.position = "shut"

\* The recording was checked before anything was started.
Checked ==
    Given("fixture_manifest") =>
        /\ main \notin {"idle", "build", "done"} => FixtureGate
        /\ audio # <<>> =>
             /\ main \notin {"idle", "build"}
             /\ audio[1] = manifest[1].sha256
             /\ Given("require_human_fixture") => manifest[1].kind = "human_recording"

RunInv == RunTypeOK /\ NothingLost /\ InOrder /\ ProbesLast

LEMMA RunStartsSound == RunInit => RunInv /\ Checked
<1> SUFFICES ASSUME RunInit PROVE RunInv /\ Checked
    OBVIOUS
<1> USE DEF RunInit
<1>1. em \in EmitterType /\ em.last = lastText
    BY DEF Emitter, EmitterType, Said
<1>2. pipe \in Seq(EventType) /\ said \in Seq(Texts) /\ heard \in Seq(Texts) /\ Len(said) = 0
      /\ Len(heard) = 0 /\ DOMAIN heard = {} /\ DOMAIN pipe = {}
    OBVIOUS
<1>3. FinalAt(pipe) = {}
    BY <1>2 DEF FinalAt
<1>4. Cardinality(FinalAt(pipe)) = 0
    BY <1>3, FS_EmptySet
<1>5. Matches(said, heard, pipe)
    BY <1>2, <1>3, <1>4 DEF Matches
<1>6. RunTypeOK
    BY <1>1, <1>2 DEF RunTypeOK, Mains, Said
<1>7. NothingLost /\ InOrder /\ ProbesLast /\ Checked
    BY <1>1, <1>2, <1>5 DEF NothingLost, InOrder, ProbesLast, Checked
<1>8. QED
    BY <1>6, <1>7 DEF RunInv

\* The files change only before the processes are started.
LEMMA FilesKeep ==
    ASSUME RunInv, \/ \E kind \in SourceKinds, note \in BOOLEAN : Freeze(kind, note)
                   \/ \E w \in Recordings : Replace(w)
    PROVE  RunInv'
<1>1. UNCHANGED <<args, main, asr, em, lastText, audio, said, chunks, pipe, writers>>
      /\ UNCHANGED <<node, guard, heard, ok, window>>
    BY DEF Freeze, Replace, asrVars, nodeVars
<1>2. QED
    BY <1>1 DEF RunInv, RunTypeOK, NothingLost, InOrder, ProbesLast, OneThingSaid, Given

\* The wrapper touches neither what was said nor the window.
LEMMA WrapperKeeps ==
    ASSUME RunInv, Wrapper \/ Interrupt
    PROVE  RunInv'
<1>1. UNCHANGED <<args, em, lastText, said, pipe, heard, window, ok>>
    BY DEF Wrapper, Parse, Build, StartNode, StartAsr, AsrNotFound, CloseEnd, WaitAsr, Kill,
           WaitNode, Interrupt, WrapperOnly, asrVars, nodeVars
<1>2. /\ main' \in Mains /\ asr' \in {"off", "starting", "decoding", "exited", "failed"}
      /\ node' \in {"off", "starting", "reading", "acting", "closing", "closeout", "ended",
                   "killed"}
      /\ writers' \subseteq {"main", "asr"}
    BY DEF Wrapper, Parse, Build, StartNode, StartAsr, AsrNotFound, CloseEnd, WaitAsr, Kill,
           WaitNode, Interrupt, WrapperOnly, asrVars, nodeVars, Mains, RunInv, RunTypeOK
<1>3. RunTypeOK'
    BY <1>1, <1>2 DEF RunInv, RunTypeOK
<1>4. InOrder'
    BY <1>1 DEF Wrapper, Parse, Build, StartNode, StartAsr, AsrNotFound, CloseEnd, WaitAsr, Kill,
           WaitNode, Interrupt, WrapperOnly, asrVars, nodeVars, RunInv, RunTypeOK, InOrder, Mains
<1>5. /\ node' = node \/ (node = "off" /\ node' = "starting") \/ node' = "killed"
      /\ writers = {} => writers' = {} \/ node = "off"
    BY DEF Wrapper, Parse, Build, StartNode, StartAsr, AsrNotFound, CloseEnd, WaitAsr, Kill,
           WaitNode, Interrupt, WrapperOnly, asrVars, nodeVars, RunInv, RunTypeOK, InOrder
<1>6. NothingLost'
    BY <1>1, <1>5 DEF RunInv, NothingLost
<1>7. ProbesLast'
    BY <1>1, <1>5 DEF RunInv, RunTypeOK, ProbesLast, OneThingSaid, Given
<1>8. QED
    BY <1>3, <1>4, <1>6, <1>7 DEF RunInv

\* While the recognizer runs the pipe has a writer, so there was no probe.
LEMMA NoProbeYet ==
    ASSUME RunInv, asr \in {"starting", "decoding"}
    PROVE  window.writes = 0 /\ node # "acting"
<1>1. ~OneThingSaid
    BY DEF RunInv, InOrder, OneThingSaid
<1>2. window.writes \in Nat
    BY DEF RunInv, RunTypeOK
<1>3. QED
    BY <1>1, <1>2 DEF RunInv, ProbesLast

\* What the recognizer may do to the rest: it speaks, or ends.
LEMMA RecognizerKeeps ==
    ASSUME RunInv, asr \in {"starting", "decoding"}, AsrOnly,
           asr' \in {"starting", "decoding", "exited", "failed"},
           asr' \in {"starting", "decoding"} => writers' = writers /\ em'.last = lastText',
           writers' \in {writers, writers \ {"asr"}},
           em' \in EmitterType, lastText' \in Said, said' \in Seq(Texts),
           pipe' \in Seq(EventType),
           Matches(said, heard, pipe) => Matches(said', heard, pipe')
    PROVE  RunInv'
<1>1. UNCHANGED <<args, main, node, heard, window, ok>>
    BY DEF AsrOnly, nodeVars
<1>2. RunTypeOK'
    BY <1>1 DEF RunInv, RunTypeOK
<1>3. NothingLost'
    BY <1>1 DEF RunInv, NothingLost
<1>4. InOrder'
    BY <1>1 DEF RunInv, InOrder, RunTypeOK, Mains
<1>5. ProbesLast'
    BY <1>1, NoProbeYet DEF RunInv, ProbesLast, Given
<1>6. QED
    BY <1>2, <1>3, <1>4, <1>5 DEF RunInv

LEMMA AsrFailsKeeps ==
    ASSUME RunInv, asr \in {"starting", "decoding"}, AsrOnly, AsrFails
    PROVE  RunInv'
<1>1. /\ asr' = "failed" /\ writers' \in {writers, writers \ {"asr"}}
      /\ UNCHANGED <<em, lastText, said, pipe>>
    BY DEF AsrFails
<1>2. QED
    BY <1>1, RecognizerKeeps DEF RunInv, RunTypeOK

LEMMA OpenAudioKeeps ==
    ASSUME RunInv, OpenAudio
    PROVE  RunInv'
<1>1. CASE AsrFails
    BY <1>1, AsrFailsKeeps DEF OpenAudio
<1>2. CASE asr' = "decoding" /\ UNCHANGED <<em, lastText, said, chunks, pipe, writers>>
    <2>1. asr = "starting" /\ AsrOnly /\ em.last = lastText
        BY DEF OpenAudio, RunInv, InOrder
    <2>2. QED
        BY <1>2, <2>1, RecognizerKeeps DEF RunInv, RunTypeOK
<1>3. QED
    BY <1>1, <1>2 DEF OpenAudio

LEMMA Regroup ==
    ASSUME NEW p \in Seq(EventType), NEW q \in Seq(EventType), NEW r \in Seq(EventType)
    PROVE  p \o (q \o r) = (p \o q) \o r
BY ConcatAssociative

LEMMA ChunkKeeps ==
    ASSUME RunInv, NEW text \in Said, NEW endpoint \in BOOLEAN, Chunk(text, endpoint)
    PROVE  RunInv'
<1> DEFINE seen == Observe(em, text)
           done == Finalize(seen.em, text)
           last == IF text = NoText THEN lastText ELSE text
           out  == IF endpoint THEN seen.out \o done.out ELSE seen.out
<1>1. CASE AsrFails
    BY <1>1, AsrFailsKeeps DEF Chunk
<1>2. CASE /\ em' = IF endpoint THEN done.em ELSE seen.em
           /\ lastText' = IF endpoint THEN NoText ELSE last
           /\ said' = IF endpoint /\ last # NoText THEN Append(said, last) ELSE said
           /\ pipe' = pipe \o out
           /\ UNCHANGED <<asr, audio, writers>>
    <2>1. asr = "decoding" /\ AsrOnly
        BY DEF Chunk
    <2>2. /\ em \in EmitterType /\ lastText \in Said /\ said \in Seq(Texts)
          /\ heard \in Seq(Texts) /\ pipe \in Seq(EventType) /\ em.last = lastText
        BY <2>1 DEF RunInv, RunTypeOK, InOrder
    <2>3. seen.em \in EmitterType /\ seen.em.last = last
        BY <2>2, ObserveSays
    <2>4. done.em \in EmitterType /\ done.em.last = NoText
        BY <2>3, FinalizeSays
    <2>5. seen.out \in Seq(EventType) /\ pipe \o seen.out \in Seq(EventType)
          /\ (Matches(said, heard, pipe) => Matches(said, heard, pipe \o seen.out))
        BY <2>2, ObserveFlows
    <2>6. last \in Said /\ last = IF text = NoText THEN seen.em.last ELSE text
        BY <2>2, <2>3
    <2>7. /\ done.out \in Seq(EventType) /\ (pipe \o seen.out) \o done.out \in Seq(EventType)
          /\ Matches(said, heard, pipe \o seen.out)
               => Matches(IF last = NoText THEN said ELSE Append(said, last), heard,
                          (pipe \o seen.out) \o done.out)
        <3> HIDE DEF last
        <3>1. QED
            BY <2>2, <2>3, <2>5, <2>6, FinalizeFlows
    <2>8. pipe \o (seen.out \o done.out) = (pipe \o seen.out) \o done.out
        <3>1. seen.out \in Seq(EventType) /\ done.out \in Seq(EventType)
              /\ pipe \in Seq(EventType)
            BY <2>2, <2>5, <2>7
        <3> HIDE DEF seen, done
        <3>2. QED
            BY <3>1, Regroup
    <2>9. last # NoText => Append(said, last) \in Seq(Texts)
        BY <2>2, <2>6 DEF Said
    <2> HIDE DEF seen, done, last
    <2>10. em' \in EmitterType /\ lastText' \in Said /\ em'.last = lastText'
        BY <1>2, <2>3, <2>4, <2>6 DEF Said
    <2>11. said' \in Seq(Texts) /\ pipe' \in Seq(EventType)
           /\ (Matches(said, heard, pipe) => Matches(said', heard, pipe'))
        BY <1>2, <2>2, <2>5, <2>7, <2>8, <2>9
    <2>12. asr' = asr /\ writers' = writers
        BY <1>2
    <2>13. QED
        BY <2>1, <2>10, <2>11, <2>12, RecognizerKeeps
<1>3. QED
    BY <1>1, <1>2 DEF Chunk

LEMMA EndOfAudioKeeps ==
    ASSUME RunInv, NEW tail \in Said, EndOfAudio(tail)
    PROVE  RunInv'
<1> DEFINE text == IF tail = NoText THEN lastText ELSE tail
           seen == Observe(em, text)
           done == Finalize(seen.em, text)
<1>1. CASE AsrFails
    BY <1>1, AsrFailsKeeps DEF EndOfAudio
<1>2. CASE /\ em' = done.em /\ asr' = "exited"
           /\ said' = IF text = NoText THEN said ELSE Append(said, text)
           /\ pipe' = pipe \o seen.out \o done.out /\ writers' = writers \ {"asr"}
           /\ UNCHANGED <<lastText, audio, chunks>>
    <2>1. asr = "decoding" /\ AsrOnly
        BY DEF EndOfAudio
    <2>2. /\ em \in EmitterType /\ lastText \in Said /\ said \in Seq(Texts)
          /\ heard \in Seq(Texts) /\ pipe \in Seq(EventType) /\ em.last = lastText
        BY <2>1 DEF RunInv, RunTypeOK, InOrder
    <2>3. text \in Said
        BY <2>2
    <2> HIDE DEF text
    <2>4. seen.em \in EmitterType /\ (text = NoText => seen.em.last = lastText)
        BY <2>2, <2>3, ObserveSays
    <2>5. text = NoText => lastText = NoText
        BY DEF text
    <2>6. text = IF text = NoText THEN seen.em.last ELSE text
        BY <2>4, <2>5
    <2>7. done.em \in EmitterType
        BY <2>3, <2>4, FinalizeSays
    <2>8. pipe \o seen.out \in Seq(EventType)
          /\ (Matches(said, heard, pipe) => Matches(said, heard, pipe \o seen.out))
        BY <2>2, <2>3, ObserveFlows
    <2>9. /\ (pipe \o seen.out) \o done.out \in Seq(EventType)
          /\ Matches(said, heard, pipe \o seen.out)
               => Matches(IF text = NoText THEN said ELSE Append(said, text), heard,
                          (pipe \o seen.out) \o done.out)
        BY <2>2, <2>3, <2>4, <2>6, <2>8, FinalizeFlows
    <2>10. text # NoText => Append(said, text) \in Seq(Texts)
        BY <2>2, <2>3 DEF Said
    <2> HIDE DEF seen, done
    <2>11. said' \in Seq(Texts) /\ pipe' \in Seq(EventType) /\ em' \in EmitterType
           /\ lastText' \in Said
           /\ (Matches(said, heard, pipe) => Matches(said', heard, pipe'))
        BY <1>2, <2>2, <2>7, <2>8, <2>9, <2>10
    <2>12. asr' = "exited" /\ writers' \in {writers, writers \ {"asr"}}
        BY <1>2
    <2>13. QED
        BY <2>1, <2>11, <2>12, RecognizerKeeps
<1>3. QED
    BY <1>1, <1>2 DEF EndOfAudio

\* The node process: one line, or the end of its input, or the probe.
LEMMA ReadKeeps ==
    ASSUME RunInv, NEW processed \in BOOLEAN, Read(processed)
    PROVE  RunInv'
<1> DEFINE e == Head(pipe)
           second == Given("apply") /\ e.kind = "final" /\ heard # <<>>
<1>1. /\ node = "reading" /\ pipe # <<>> /\ pipe' = Tail(pipe) /\ window' = window
      /\ UNCHANGED <<args, main, asr, em, lastText, said, writers>>
    BY DEF Read, NodeOnly, asrVars
<1>2. pipe \in Seq(EventType) /\ said \in Seq(Texts) /\ heard \in Seq(Texts)
      /\ Matches(said, heard, pipe)
    BY <1>1 DEF RunInv, RunTypeOK, NothingLost
<1>3. pipe' \in Seq(EventType) /\ e \in EventType /\ e.text \in Texts
    <2>1. pipe' \in Seq(EventType) /\ e \in EventType
        BY <1>1, <1>2
    <2>2. e.text \in Texts
        BY <2>1 DEF EventType
    <2>3. QED
        BY <2>1, <2>2
<1>4. window.writes = 0 /\ window.closeouts = 0
    BY <1>1 DEF RunInv, ProbesLast
<1>5. InOrder'
    <2>1. main \notin {"idle", "build", "node"}
        BY <1>1 DEF RunInv, InOrder
    <2>2. QED
        BY <1>1, <2>1 DEF RunInv, InOrder
<1>6. CASE Stop(FALSE) /\ UNCHANGED <<guard, heard>>
    <2>1. node' = "closing" /\ heard' = heard
        BY <1>6 DEF Stop
    <2>2. RunTypeOK'
        BY <1>1, <1>3, <2>1 DEF RunInv, RunTypeOK
    <2>3. NothingLost'
        BY <2>1 DEF NothingLost
    <2>4. ProbesLast'
        BY <1>1, <1>4, <2>1 DEF RunInv, ProbesLast, Given
    <2>5. QED
        BY <1>5, <2>2, <2>3, <2>4 DEF RunInv
<1>7. CASE /\ ~second /\ UNCHANGED <<node, ok>>
           /\ heard' = IF e.kind = "final" THEN Append(heard, e.text) ELSE heard
    <2>1. heard' \in Seq(Texts) /\ Matches(said, heard', Tail(pipe))
        <3>1. CASE e.kind = "final"
            BY <3>1, <1>1, <1>2, <1>3, <1>7, MatchesTaken
        <3>2. CASE e.kind # "final"
            BY <3>2, <1>1, <1>2, <1>7, MatchesRead
        <3>3. QED
            BY <3>1, <3>2
    <2>2. RunTypeOK'
        BY <1>1, <1>3, <1>7, <2>1 DEF RunInv, RunTypeOK
    <2>3. NothingLost'
        BY <1>1, <2>1 DEF NothingLost
    <2>4. Given("apply") => Len(heard') <= 1
        <3>1. CASE Given("apply") /\ e.kind = "final"
            BY <3>1, <1>3, <1>7
        <3>2. CASE Given("apply") /\ e.kind # "final"
            BY <3>2, <1>7 DEF RunInv, ProbesLast
        <3>3. QED
            BY <3>1, <3>2
    <2>5. ProbesLast'
        BY <1>1, <1>4, <1>7, <2>4 DEF ProbesLast, Given
    <2>6. QED
        BY <1>5, <2>2, <2>3, <2>5 DEF RunInv
<1>8. QED
    BY <1>6, <1>7 DEF Read

LEMMA EndOfInputKeeps ==
    ASSUME RunInv, EndOfInput
    PROVE  RunInv'
<1>1. /\ node = "reading" /\ pipe = <<>> /\ writers = {}
      /\ UNCHANGED <<args, main, asr, em, lastText, said, writers, pipe, heard, window>>
      /\ node' \in {"acting", "closing"}
      /\ node' = "acting" => Given("apply") /\ heard # <<>>
    BY DEF EndOfInput, NodeOnly, asrVars, Stop
<1>2. heard \in Seq(Texts) /\ said \in Seq(Texts) /\ Matches(said, heard, pipe)
    BY <1>1 DEF RunInv, RunTypeOK, NothingLost
<1>3. FinalAt(pipe) = {}
    BY <1>1 DEF FinalAt
<1>4. Len(said) = Len(heard)
    <2>1. Cardinality(FinalAt(pipe)) = 0
        BY <1>3, FS_EmptySet
    <2>2. QED
        BY <1>2, <2>1 DEF Matches
<1>5. node' = "acting" => OneThingSaid'
    <2>1. Given("apply") => Len(heard) <= 1
        BY DEF RunInv, ProbesLast
    <2>2. heard # <<>> => Len(heard) # 0
        BY <1>2
    <2>3. Len(heard) \in Nat
        BY <1>2
    <2>4. QED
        BY <1>1, <1>4, <2>1, <2>2, <2>3 DEF OneThingSaid
<1>6. RunTypeOK'
    BY <1>1 DEF RunInv, RunTypeOK
<1>7. NothingLost'
    BY <1>1 DEF NothingLost
<1>8. InOrder'
    BY <1>1 DEF RunInv, InOrder
<1>9. ProbesLast'
    BY <1>1, <1>5 DEF RunInv, ProbesLast, Given
<1>10. QED
    BY <1>6, <1>7, <1>8, <1>9 DEF RunInv

LEMMA ProbeKeeps ==
    ASSUME RunInv, NEW b \in BOOLEAN, NodeStart(b) \/ Act(b) \/ CloseClient(b) \/ Closeout(b)
    PROVE  RunInv'
<1>1. /\ UNCHANGED <<args, main, asr, em, lastText, said, writers, pipe, heard>>
      /\ node \notin {"off"}
    BY DEF NodeStart, Act, CloseClient, Closeout, NodeOnly, asrVars
<1>2. InOrder'
    BY <1>1 DEF RunInv, InOrder
<1>3. CASE NodeStart(b)
    <2>1. node = "starting" /\ node' \in {"reading", "ended"} /\ window' = window
        BY <1>3 DEF NodeStart
    <2>2. RunTypeOK' /\ NothingLost' /\ ProbesLast'
        BY <1>1, <2>1 DEF RunInv, RunTypeOK, NothingLost, ProbesLast, OneThingSaid, Given
    <2>3. QED
        BY <1>2, <2>2 DEF RunInv
<1>4. CASE Act(b)
    <2>1. node = "acting" /\ node' = "closing"
        BY <1>4 DEF Act
    <2>2. window.writes = 0 /\ window.closeouts = 0 /\ OneThingSaid /\ Given("apply")
        BY <2>1 DEF RunInv, ProbesLast
    <2>3. /\ window' \in [position : {"shut", "open"}, writes : Nat, closeouts : Nat]
          /\ window'.writes \in {0, 1} /\ window'.closeouts = 0
        <3>1. CASE b
            <4>1. PICK w : w = [window EXCEPT !.position = "open"]
                OBVIOUS
            <4>2. window' = [w EXCEPT !.writes = @ + 1]
                BY <3>1, <1>4, <4>1 DEF Act
            <4>3. w \in [position : {"shut", "open"}, writes : Nat, closeouts : Nat]
                  /\ w.writes = 0 /\ w.closeouts = 0
                BY <4>1, <2>2 DEF RunInv, RunTypeOK
            <4>4. QED
                BY <4>2, <4>3
        <3>2. CASE ~b
            BY <3>2, <1>4, <2>2 DEF Act, RunInv, RunTypeOK
        <3>3. QED
            BY <3>1, <3>2
    <2>4. RunTypeOK' /\ NothingLost'
        BY <1>1, <2>1, <2>3 DEF RunInv, RunTypeOK, NothingLost
    <2>5. ProbesLast'
        BY <1>1, <2>1, <2>2, <2>3 DEF RunInv, ProbesLast, OneThingSaid, Given
    <2>6. QED
        BY <1>2, <2>4, <2>5 DEF RunInv
<1>5. CASE Closeout(b)
    <2>1. node = "closeout" /\ node' = "ended"
        BY <1>5 DEF Closeout
    <2>2. window.closeouts = 0
          /\ window \in [position : {"shut", "open"}, writes : Nat, closeouts : Nat]
        BY <2>1 DEF RunInv, RunTypeOK, ProbesLast
    <2>3. /\ window' \in [position : {"shut", "open"}, writes : Nat, closeouts : Nat]
          /\ window'.writes = window.writes /\ window'.closeouts = 1
          /\ ok' => window'.position = "shut"
        <3>1. PICK w : w = [window EXCEPT !.closeouts = @ + 1]
            OBVIOUS
        <3>2. window' = [w EXCEPT !.position = IF b THEN "shut" ELSE @]
            BY <1>5, <3>1 DEF Closeout
        <3>3. w \in [position : {"shut", "open"}, writes : Nat, closeouts : Nat]
              /\ w.writes = window.writes /\ w.closeouts = 1
            BY <3>1, <2>2
        <3>4. ok' => window'.position = "shut"
            BY <1>5 DEF Closeout
        <3>5. QED
            BY <3>2, <3>3, <3>4
    <2>4. RunTypeOK' /\ NothingLost'
        BY <1>1, <2>1, <2>3 DEF RunInv, RunTypeOK, NothingLost
    <2>5. ProbesLast'
        BY <1>1, <2>1, <2>3 DEF RunInv, RunTypeOK, ProbesLast, OneThingSaid, Given
    <2>6. QED
        BY <1>2, <2>4, <2>5 DEF RunInv
<1>6. CASE CloseClient(b)
    <2>1. /\ node = "closing" /\ node' \in {"closeout", "ended"} /\ window' = window
          /\ Given("apply") /\ node' = "ended" => ~ok'
        BY <1>6 DEF CloseClient
    <2>2. RunTypeOK' /\ NothingLost'
        BY <1>1, <2>1 DEF RunInv, RunTypeOK, NothingLost
    <2>3. ProbesLast'
        BY <1>1, <2>1 DEF RunInv, ProbesLast, OneThingSaid, Given
    <2>4. QED
        BY <1>2, <2>2, <2>3 DEF RunInv
<1>7. QED
    BY <1>3, <1>4, <1>5, <1>6

LEMMA RunStep ==
    ASSUME RunInv, [RunNext]_runVars
    PROVE  RunInv'
<1>1. CASE UNCHANGED runVars
    BY <1>1 DEF runVars, asrVars, nodeVars, RunInv, RunTypeOK, NothingLost, InOrder, ProbesLast,
                OneThingSaid, Given
<1>2. CASE \/ \E kind \in SourceKinds, note \in BOOLEAN : Freeze(kind, note)
           \/ \E w \in Recordings : Replace(w)
    BY <1>2, FilesKeep
<1>3. CASE Wrapper \/ Interrupt
    BY <1>3, WrapperKeeps
<1>4. CASE OpenAudio
    BY <1>4, OpenAudioKeeps
<1>5. CASE \E t \in Texts \cup {NoText} : EndOfAudio(t)
    BY <1>5, EndOfAudioKeeps DEF Said
<1>6. CASE AsrCrash
    BY <1>6, AsrFailsKeeps DEF AsrCrash
<1>7. CASE \E t \in Texts \cup {NoText}, endpoint \in BOOLEAN : Chunk(t, endpoint)
    BY <1>7, ChunkKeeps DEF Said
<1>8. CASE EndOfInput
    BY <1>8, EndOfInputKeeps
<1>9. CASE \E b \in BOOLEAN : NodeStart(b) \/ Read(b) \/ Act(b) \/ CloseClient(b) \/ Closeout(b)
    BY <1>9, ReadKeeps, ProbeKeeps
<1>10. QED
    BY <1>1, <1>2, <1>3, <1>4, <1>5, <1>6, <1>7, <1>8, <1>9 DEF RunNext, Recognizer, NodeStep

\* Once the processes may start nobody touches the recording, which was checked.
LEMMA CheckedStep ==
    ASSUME Swapping \subseteq {"idle", "build"}, RunInv, Checked, [RunNext]_runVars
    PROVE  Checked'
<1>1. CASE UNCHANGED <<args, wav, manifest, main, audio>>
    BY <1>1 DEF Checked, FixtureGate, VerifyManifest, Inspects, Given
<1>2. CASE \E kind \in SourceKinds, note \in BOOLEAN : Freeze(kind, note)
    <2>1. main = "idle" /\ UNCHANGED <<args, main, audio>>
        BY <1>2 DEF Freeze, asrVars
    <2>2. QED
        BY <2>1 DEF Checked, Given
<1>3. CASE \E w \in Recordings : Replace(w)
    <2>1. main \in {"idle", "build"} /\ UNCHANGED <<args, main, audio, manifest>>
        BY <1>3 DEF Replace, asrVars
    <2>2. QED
        BY <2>1 DEF Checked, Given
<1>4. CASE Wrapper \/ Interrupt
    <2>1. UNCHANGED <<args, wav, manifest, audio>>
        BY <1>4 DEF Wrapper, Parse, Build, StartNode, StartAsr, AsrNotFound, CloseEnd, WaitAsr,
              Kill, WaitNode, Interrupt, WrapperOnly, asrVars, fileVars
    <2>2. /\ main' \notin {"idle", "build", "done"} /\ main \in {"idle", "build", "done"}
               => FixtureGate
          /\ main' \in {"idle", "build"} => main \in {"idle", "build"}
        BY <1>4 DEF Wrapper, Parse, Build, BuildCommands, StartNode, StartAsr, AsrNotFound,
              CloseEnd, WaitAsr, Kill, WaitNode, Interrupt
    <2>3. FixtureGate' <=> FixtureGate
        BY <2>1 DEF FixtureGate, VerifyManifest, Inspects, Given
    <2>4. QED
        BY <2>1, <2>2, <2>3 DEF Checked, Given
<1>5. CASE OpenAudio
    <2>1. UNCHANGED <<args, wav, manifest, main>> /\ asr = "starting"
          /\ (audio' = audio \/ audio' = <<wav>>)
        BY <1>5 DEF OpenAudio, AsrOnly, AsrFails, fileVars
    <2>2. main \notin {"idle", "build", "done"}
        BY <2>1 DEF RunInv, InOrder
    <2>3. FixtureGate' <=> FixtureGate
        BY <2>1 DEF FixtureGate, VerifyManifest, Inspects, Given
    <2>4. CASE audio' = audio
        BY <2>1, <2>3, <2>4 DEF Checked, Given
    <2>5. CASE audio' = <<wav>>
        <3>1. audio'[1] = wav
            BY <2>5
        <3>2. Given("fixture_manifest") =>
                /\ FixtureGate /\ manifest[1].sha256 = wav
                /\ Given("require_human_fixture") => manifest[1].kind = "human_recording"
            BY <2>2 DEF Checked, FixtureGate, VerifyManifest
        <3>3. QED
            BY <2>1, <2>2, <2>3, <3>1, <3>2 DEF Checked, Given
    <2>6. QED
        BY <2>1, <2>4, <2>5
<1>6. CASE \/ AsrCrash \/ \E t \in Texts \cup {NoText} : EndOfAudio(t)
           \/ \E t \in Texts \cup {NoText}, endpoint \in BOOLEAN : Chunk(t, endpoint)
    <2>1. UNCHANGED <<args, wav, manifest, main, audio>>
        BY <1>6 DEF AsrCrash, EndOfAudio, Chunk, AsrOnly, AsrFails, fileVars
    <2>2. QED
        BY <1>1, <2>1
<1>7. CASE NodeStep
    <2>1. UNCHANGED <<args, wav, manifest, main, audio>>
        BY <1>7 DEF NodeStep, EndOfInput, NodeStart, Read, Act, CloseClient, Closeout, NodeOnly,
              asrVars, fileVars
    <2>2. QED
        BY <1>1, <2>1
<1>8. CASE UNCHANGED runVars
    BY <1>8, <1>1 DEF runVars, fileVars, asrVars
<1>9. QED
    BY <1>2, <1>3, <1>4, <1>5, <1>6, <1>7, <1>8 DEF RunNext, Recognizer

LEMMA RunAlwaysSound == RunSpec => []RunInv
<1>1. RunInit => RunInv
    BY RunStartsSound
<1>2. RunInv /\ [RunNext]_runVars => RunInv'
    BY RunStep
<1>3. QED
    BY <1>1, <1>2, PTL DEF RunSpec

\* However the recognizer revises, falls silent, ends or crashes: each acoustic
\* segment in which something was said is one final event, with its last words.
THEOREM AlwaysOneFinal == RunSpec => []OneFinalPerUtterance
<1>1. RunInv => OneFinalPerUtterance
    BY DEF RunInv, NothingLost, OneFinalPerUtterance, Matches
<1>2. QED
    BY <1>1, RunAlwaysSound, PTL

\* The window is opened for the only thing that was said, once and after all input, and a
\* node process that ends without an error has closed it again.
THEOREM ProbeAlwaysAccountable == RunSpec => []ProbeAccountable
<1>1. RunInv => ProbeAccountable
    BY DEF RunInv, RunTypeOK, ProbesLast, OneThingSaid, InOrder, ProbeAccountable
<1>2. QED
    BY <1>1, RunAlwaysSound, PTL

\* Where nobody replaces the recording after it was checked, what is decoded under a
\* fixture manifest is what was frozen.
THEOREM FixtureAlwaysHeld ==
    ASSUME Swapping \subseteq {"idle", "build"}
    PROVE  RunSpec => []FixtureHeld
<1>1. RunInit => RunInv /\ Checked
    BY RunStartsSound
<1>2. (RunInv /\ Checked) /\ [RunNext]_runVars => (RunInv /\ Checked)'
    BY RunStep, CheckedStep
<1>3. RunInv /\ Checked => FixtureHeld
    BY DEF Checked, FixtureHeld
<1>4. QED
    BY <1>1, <1>2, <1>3, PTL DEF RunSpec

=============================================================================
