----------------------------- MODULE DeviceProofs -----------------------------
(***************************************************************************)
(* What reaches a device, in two components that share no state and whose  *)
(* theorems share no lemma.                                                *)
(*                                                                         *)
(* The execution gate, for any windows, requests, proposals, streamed      *)
(* patches and contexts: what a receipt may say follows from the checks of *)
(* the authorizer, and what is executed follows from the receipt and the   *)
(* contract.                                                               *)
(*                                                                         *)
(* The physical turn, for any finite set of devices and any patches: a     *)
(* session that is stopped at any point of a turn still knows the devices  *)
(* it does not distrust, and what it has taken back.                       *)
(***************************************************************************)
EXTENDS ExecutionGate, PhysicalTurn, FiniteSetTheorems, FunctionTheorems, SequenceTheorems, TLAPS

-----------------------------------------------------------------------------
(* The execution gate *)

WindowOf(list, i) == list[i].targets[1]

\* What an allowing receipt promises about the request it answers.
Sound(r, ask) ==
    /\ DOMAIN r.patches = DOMAIN ask.patches
    /\ \A i \in DOMAIN ask.patches :
          /\ WindowOf(ask.patches, i) \in DOMAIN ask.runtime
          /\ r.patches[i] = [ask.patches[i] EXCEPT !.value = r.patches[i].value]
          /\ r.patches[i].value \in 0 .. Full
          /\ NormalizeRain(ask.context.rain) = "wet"
                /\ WindowOf(ask.patches, i) \in ask.context.keys
             => r.patches[i].value <= ask.runtime[WindowOf(ask.patches, i)]
    /\ \A i, j \in DOMAIN ask.patches :
          WindowOf(ask.patches, i) = WindowOf(ask.patches, j) => i = j

Openings == [Windows -> 0 .. Full]

\* The change the session commits is one towards what was asked.
LEMMA SessionBounds ==
    ASSUME NEW current \in 0 .. Full, NEW wanted \in 0 .. Full, NEW forced \in BOOLEAN,
           NEW o \in SessionOutcomes(current, wanted, forced), o.decision = "commit"
    PROVE  /\ o.value \in 0 .. Full
           /\ forced => o.value <= current
<1>1. MaxDelta \in Nat
    BY GateAssumption
<1>2. o.value \in 0 .. Full
    BY <1>1 DEF SessionOutcomes, Full
<1>3. forced => o.value <= current
    BY <1>1 DEF SessionOutcomes, Full
<1>4. QED
    BY <1>2, <1>3

\* As many windows as patches: no two patches have the same window.
LEMMA OneEach ==
    ASSUME NEW list, IsList(list), Cardinality(Targets(list)) = Len(list)
    PROVE  \A i, j \in DOMAIN list : WindowOf(list, i) = WindowOf(list, j) => i = j
<1> DEFINE S == 1 .. Len(list)
           f == [i \in S |-> WindowOf(list, i)]
<1>1. DOMAIN list = S /\ Len(list) \in Nat
    BY DEF IsList
<1>2. Targets(list) = {WindowOf(list, i) : i \in S}
    BY <1>1 DEF Targets, Elements, WindowOf
<1>3. f \in Surjection(S, Targets(list))
    BY <1>2 DEF Surjection
<1>4. IsFiniteSet(S) /\ Cardinality(S) = Len(list)
    <2>1. 1 \in Int /\ Len(list) \in Int
        BY <1>1
    <2>2. IsFiniteSet(S) /\ Cardinality(S) = IF 1 > Len(list) THEN 0 ELSE Len(list) - 1 + 1
        BY <2>1, FS_Interval
    <2>3. QED
        BY <1>1, <2>2
<1>5. f \in Injection(S, Targets(list))
    BY <1>3, <1>4, FS_Surjection
<1>6. \A i, j \in S : f[i] = f[j] => i = j
    BY <1>5 DEF Injection, IsInjective
<1>7. QED
    BY <1>1, <1>6

\* When each window has one patch, that patch is the last one for it.
LEMMA LastIsOnly ==
    ASSUME NEW list, DOMAIN list \subseteq Nat, NEW i \in DOMAIN list,
           \A k, j \in DOMAIN list : WindowOf(list, k) = WindowOf(list, j) => k = j
    PROVE  LastFor(list, WindowOf(list, i)) = list[i]
<1> DEFINE Is(k) == /\ list[k].targets[1] = WindowOf(list, i)
                    /\ \A j \in DOMAIN list : list[j].targets[1] = WindowOf(list, i) => j <= k
<1>1. Is(i)
    BY DEF WindowOf
<1>2. \A k \in DOMAIN list : Is(k) => k = i
    BY DEF WindowOf
<1>3. (CHOOSE k \in DOMAIN list : Is(k)) = i
    BY <1>1, <1>2
<1>4. QED
    BY <1>3 DEF LastFor

LEMMA AuthorizedIsSound ==
    ASSUME NEW ask, IsList(ask.patches), ask.runtime \in Openings,
           NEW r \in Authorize(ask), r.allow
    PROVE  Sound(r, ask)
<1> DEFINE list == ask.patches
           W(i) == WindowOf(list, i)
<1>1. PICK f \in Decisions(ask) : /\ Accepted(ask)
                                  /\ Allow(f, list, TRUE)
                                  /\ r.patches = Authorized(list, f)
    <2>1. r # Refused
        BY DEF Refused
    <2>2. PICK f \in {g \in (IF Accepted(ask) THEN Decisions(ask) ELSE {}) : Allow(g, list, TRUE)} :
              r = [allow |-> TRUE, patches |-> Authorized(list, f),
                   id |-> <<ask.task, ask.runtime, Authorized(list, f), ask.context>>]
        BY <2>1 DEF Authorize
    <2>3. r.patches = Authorized(list, f)
        BY <2>2
    <2>4. QED
        BY <2>2, <2>3
<1>2. DOMAIN f = Targets(list) /\ \A w \in Targets(list) : f[w] \in Outcomes(ask, w)
    BY DEF Decisions
<1>3. \A i, j \in DOMAIN list : W(i) = W(j) => i = j
    BY <1>1, <1>2, OneEach DEF Allow
<1>4. ASSUME NEW i \in DOMAIN list
      PROVE  /\ W(i) \in DOMAIN ask.runtime
             /\ r.patches[i] = [list[i] EXCEPT !.value = r.patches[i].value]
             /\ r.patches[i].value \in 0 .. Full
             /\ NormalizeRain(ask.context.rain) = "wet" /\ W(i) \in ask.context.keys
                  => r.patches[i].value <= ask.runtime[W(i)]
    <2> DEFINE forced == NormalizeRain(ask.context.rain) = "wet" /\ W(i) \in ask.context.keys
               o == f[W(i)]
    <2>1. list[i] \in Elements(list) /\ W(i) \in Targets(list)
        BY DEF Elements, Targets, WindowOf
    <2>2. W(i) \in DOMAIN ask.runtime /\ list[i].value \in 0 .. Full
        BY <1>1, <2>1 DEF Accepted, WindowPatch, WindowOf
    <2>3. ask.runtime[W(i)] \in 0 .. Full
        BY <2>2 DEF Openings
    <2>4. o \in SessionOutcomes(ask.runtime[W(i)], list[i].value, forced)
        <3>1. LastFor(list, W(i)) = list[i]
            BY <1>3, LastIsOnly DEF IsList
        <3>2. QED
            BY <1>2, <2>1, <3>1 DEF Outcomes
    <2>5. o.decision = "commit"
        BY <1>1, <1>2, <2>1 DEF Allow
    <2>6. o.value \in 0 .. Full /\ (forced => o.value <= ask.runtime[W(i)])
        <3> HIDE DEF forced, o
        <3>1. forced \in BOOLEAN
            BY DEF forced
        <3>2. QED
            BY <2>2, <2>3, <2>4, <2>5, <3>1, SessionBounds
    <2>7. r.patches[i] = [list[i] EXCEPT !.value = o.value]
        BY <1>1 DEF Authorized, WindowOf
    <2>8. [list[i] EXCEPT !.value = o.value].value = o.value
        BY <2>1 DEF IsList, IsAction
    <2>9. QED
        BY <2>2, <2>6, <2>7, <2>8
<1>5. DOMAIN r.patches = DOMAIN list
    BY <1>1 DEF Authorized
<1>6. QED
    BY <1>3, <1>4, <1>5 DEF Sound

-----------------------------------------------------------------------------
(* Every step *)

RequestOK ==
    request # Nil =>
        /\ ValidateExecutionRequest(request)
        /\ IsList(request.candidates)
        /\ Elements(patches) \subseteq Elements(request.candidates)

AskedOK ==
    asked # Nil => patches # <<>> /\ asked.patches = patches /\ asked.runtime \in Openings

ReceiptOK == receipt # Nil => asked # Nil /\ receipt \in Authorize(asked)

DoneOK == CommandsComeFromTheOffer /\ RainOpensNothing

IInv == opening \in Openings /\ IsList(patches) /\ RequestOK /\ AskedOK /\ ReceiptOK /\ DoneOK

LEMMA NoPatches == IsList(<<>>) /\ Elements(<<>>) = {}
    BY DEF IsList, Elements

\* Steps that leave the latest execution alone leave what is said of it alone.
LEMMA DoneKept ==
    ASSUME DoneOK, done' = done
    PROVE  DoneOK'
    BY DEF DoneOK, CommandsComeFromTheOffer, OfferedOnly, OneCommandEach, RainOpensNothing

LEMMA ProposedIsList ==
    ASSUME NEW p, request # Nil, IsList(request.candidates),
           p \in Proposals \/ p = RuleProposal(request), AdvisorySafe(p, request)
    PROVE  IsList(p.actions) /\ Elements(p.actions) \subseteq Elements(request.candidates)
<1>1. Elements(p.actions) \subseteq Elements(request.candidates)
    BY DEF AdvisorySafe, ValidateProposal
<1>2. CASE p \in Proposals
    BY <1>1, <1>2, GateAssumption
<1>3. CASE p = RuleProposal(request)
    <2> DEFINE c == request.candidates
    <2>1. c # <<>> /\ p.actions = <<Head(c)>>
        BY <1>3 DEF AdvisorySafe, RuleProposal
    <2>2. Elements(p.actions) = {Head(c)}
        BY <2>1 DEF Elements
    <2>3. IsAction(Head(c))
        BY <1>1, <2>2 DEF IsList
    <2>4. p.actions \in Seq({Head(c)})
        BY <2>1
    <2>5. QED
        BY <1>1, <2>2, <2>3, <2>4 DEF IsList
<1>4. QED
    BY <1>2, <1>3

\* What is executed is what an allowing receipt says of patches that were offered.
LEMMA ExecuteKeepsInv ==
    ASSUME IInv, Execute
    PROVE  IInv'
<1> DEFINE list == asked.patches
           out  == receipt.patches
<1>1. /\ asked # Nil /\ list = patches /\ asked.runtime \in Openings
      /\ receipt \in Authorize(asked) /\ receipt.allow /\ IsList(list)
    BY DEF IInv, AskedOK, ReceiptOK, Execute
<1>2. Sound(receipt, asked)
    BY <1>1, AuthorizedIsSound
<1>3. DOMAIN out = DOMAIN list /\ DOMAIN list \subseteq Nat
    BY <1>1, <1>2 DEF Sound, IsList
<1>4. ASSUME NEW i \in DOMAIN out
      PROVE  /\ out[i].targets = list[i].targets
             /\ ActionIdentity(out[i]) = ActionIdentity(list[i])
    <2>1. IsAction(list[i])
        BY <1>1, <1>3 DEF IsList, Elements
    <2>2. out[i] = [list[i] EXCEPT !.value = out[i].value]
        BY <1>2, <1>3 DEF Sound
    <2>3. out[i].targets = list[i].targets /\ out[i].op = list[i].op /\ out[i].slot = list[i].slot
        BY <2>1, <2>2 DEF IsAction
    <2>4. QED
        BY <2>3 DEF ActionIdentity
<1>5. \A i, j \in DOMAIN out : WindowOf(out, i) = WindowOf(out, j) => i = j
    BY <1>2, <1>3, <1>4 DEF Sound, WindowOf
<1>6. opening' \in Openings
    <2>1. ASSUME NEW a \in Elements(out)
          PROVE  LastFor(out, a.targets[1]).value \in 0 .. Full
        <3>1. PICK i \in DOMAIN out : a = out[i]
            BY DEF Elements
        <3>2. LastFor(out, WindowOf(out, i)) = out[i]
            BY <1>3, <1>5, LastIsOnly
        <3>3. out[i].value \in 0 .. Full
            BY <1>2, <1>3 DEF Sound
        <3>4. QED
            BY <3>1, <3>2, <3>3 DEF WindowOf
    <2>2. opening \in Openings
        BY DEF IInv
    <2>3. QED
        BY <2>1, <2>2 DEF Execute, Openings
<1>7. done' = [request |-> request, asked |-> asked, patches |-> out]
    BY DEF Execute
<1>8. OfferedOnly'
    <2> SUFFICES ASSUME request # Nil, NEW i \in DOMAIN out
                 PROVE  /\ list[i] \in Elements(request.candidates)
                        /\ ActionIdentity(out[i]) = ActionIdentity(list[i])
                        /\ Elements(out[i].targets) \subseteq request.resolved
        BY <1>7 DEF OfferedOnly
    <2>1. list[i] \in Elements(request.candidates)
        BY <1>1, <1>3 DEF IInv, RequestOK, Elements
    <2>2. Elements(list[i].targets) \subseteq request.resolved
        BY <2>1 DEF IInv, RequestOK, ValidateExecutionRequest
    <2>3. QED
        BY <1>4, <2>1, <2>2
<1>9. OneCommandEach'
    BY <1>5, <1>7 DEF OneCommandEach, WindowOf
<1>10. RainOpensNothing'
    <2> SUFFICES ASSUME asked.context.rain \in {"wet", "raining", "TRUE"}, NEW i \in DOMAIN out,
                        out[i].targets[1] \in asked.context.keys
                 PROVE  out[i].value <= asked.runtime[out[i].targets[1]]
        BY <1>7 DEF RainOpensNothing, Elements
    <2>1. NormalizeRain(asked.context.rain) = "wet"
        BY DEF NormalizeRain
    <2>2. WindowOf(list, i) = out[i].targets[1]
        BY <1>4 DEF WindowOf
    <2>3. QED
        BY <1>2, <1>3, <2>1, <2>2 DEF Sound
<1>11. IsList(patches') /\ RequestOK' /\ AskedOK' /\ ReceiptOK'
    BY NoPatches DEF Execute, Idle, RequestOK, AskedOK, ReceiptOK
<1>12. QED
    BY <1>6, <1>8, <1>9, <1>10, <1>11 DEF IInv, DoneOK, CommandsComeFromTheOffer

LEMMA StepKeepsInv ==
    ASSUME IInv, [Next]_vars
    PROVE  IInv'
<1> USE DEF IInv, RequestOK, AskedOK, ReceiptOK, home
<1>1. CASE UNCHANGED vars
    BY <1>1, DoneKept DEF vars
<1>2. ASSUME NEW r \in Requests, Ask(r)
      PROVE  IInv'
    BY <1>2, DoneKept, GateAssumption, NoPatches DEF Ask
<1>3. CASE Abandon
    BY <1>3, DoneKept DEF Abandon
<1>4. ASSUME NEW p, p \in Proposals \/ p = RuleProposal(request), Propose(p)
      PROVE  IInv'
    <2>1. IsList(p.actions) /\ Elements(p.actions) \subseteq Elements(request.candidates)
        BY <1>4, ProposedIsList DEF Propose
    <2>2. QED
        BY <1>4, <2>1, DoneKept DEF Propose
<1>5. ASSUME NEW list \in Streamed, Stream(list)
      PROVE  IInv'
    BY <1>5, DoneKept, GateAssumption DEF Stream
<1>6. ASSUME NEW c \in Contexts, Send(c)
      PROVE  IInv'
    BY <1>6, DoneKept DEF Send
<1>7. CASE Decide
    BY <1>7, DoneKept DEF Decide
<1>8. CASE Drop
    BY <1>8, DoneKept, NoPatches DEF Drop, Idle
<1>9. CASE Execute
    BY <1>9, ExecuteKeepsInv
<1>10. ASSUME NEW w \in Windows, Hand(w)
       PROVE  IInv'
    <2>1. opening' \in Openings
        BY <1>10 DEF Hand, Openings, Full
    <2>2. QED
        BY <1>10, <2>1, DoneKept DEF Hand
<1>11. QED
    BY <1>1, <1>2, <1>3, <1>4, <1>5, <1>6, <1>7, <1>8, <1>9, <1>10 DEF Next

LEMMA InitInv == Init => IInv
<1> SUFFICES ASSUME Init
             PROVE  IInv
    OBVIOUS
<1>1. opening \in Openings
    BY DEF Init, Openings, Full
<1>2. IsList(patches) /\ RequestOK /\ AskedOK /\ ReceiptOK
    BY NoPatches DEF Init, RequestOK, AskedOK, ReceiptOK
<1>3. DoneOK
    BY DEF Init, DoneOK, CommandsComeFromTheOffer, OfferedOnly, OneCommandEach, RainOpensNothing
<1>4. QED
    BY <1>1, <1>2, <1>3 DEF IInv

-----------------------------------------------------------------------------
\* Whatever models and streams propose and whoever moves the windows meanwhile,
\* a window gets at most one command of an execution, and one offered for it.
THEOREM ExecutesTheOffer == Spec => []CommandsComeFromTheOffer
<1>1. IInv => CommandsComeFromTheOffer
    BY DEF IInv, DoneOK
<1>2. QED
    BY <1>1, InitInv, StepKeepsInv, PTL DEF Spec

\* In the rain nothing is opened further, from whatever opening and for
\* whatever change a step may make.
THEOREM RainIsRespected == Spec => []RainOpensNothing
<1>1. IInv => RainOpensNothing
    BY DEF IInv, DoneOK
<1>2. QED
    BY <1>1, InitInv, StepKeepsInv, PTL DEF Spec

-----------------------------------------------------------------------------
(* The physical turn *)

\* While a driver is called it executes the head of the turn, which was allowed.
CallingIsAllowed ==
    Calling => /\ turn # <<>> /\ ~Protects(Patch1)
               /\ Patch1.op = "UNDO" => UndoAllowed(Patch1)
               /\ commands + Cardinality(P.at) <= MaxCommands
               /\ P.at \subseteq touched

IdleIsQuiet == pc = "idle" => touched = {} /\ local = session

\* The copy knows every device, until the driver has moved some; the session knows
\* those the turn has not touched.
KnowsDevices ==
    \A d \in Device \ doubt :
        /\ d \notin session.rt.quarantined \cup touched => session.rt.slots[d] = world[d]
        /\ d \notin local.rt.quarantined /\ (pc = "moved" => d \notin P.at)
             => local.rt.slots[d] = world[d]

\* The copy has all executions of the session; numbers not used yet are not undone.
Numbered ==
    /\ \A i \in DOMAIN local.ledger : i <= commands
    /\ \A i \in 1..MaxCommands : i > commands => compensations[i] = 0
    /\ \A i \in DOMAIN session.ledger :
         i \in DOMAIN local.ledger /\ local.ledger[i] = session.ledger[i]

\* What a ledger says was undone bounds what was taken back, of the devices it can
\* speak of.
CountsFit(s, beyond) ==
    \A i \in DOMAIN s.ledger : s.ledger[i].at \notin beyond =>
        compensations[i] <= IF i \in s.undone THEN 1 ELSE 0

TakenBack == CountsFit(local, doubt) /\ CountsFit(session, doubt \cup touched)

\* The copy protects what the session protects, and has left it alone.
Shields == \A d \in Device : <<d, "*">> \in session.rt.protected =>
               <<d, "*">> \in local.rt.protected /\ local.rt.slots[d] = session.rt.slots[d]

TurnInv == /\ TypeOK /\ CallingIsAllowed /\ IdleIsQuiet /\ KnowsDevices
           /\ Numbered /\ TakenBack /\ Shields

\* What a step may do to a protected device.
KeepsProtected == \A d \in Device : <<d, "*">> \in session.rt.protected
                      => session'.rt.slots[d] = session.rt.slots[d]

LEMMA TurnFacts == /\ IsFiniteSet(Device) /\ Patch \subseteq PatchType /\ MaxCommands \in Nat
                   /\ Pct \subseteq Int /\ 0 \in Pct /\ Absent \notin Pct /\ Unset \notin Pct
                   /\ Absent # Unset
BY TurnAssumption, DeviceAssumption DEF Pct

-----------------------------------------------------------------------------
(* Patches and observations *)

PhysicalPatch == [op : {"SET", "ADD", "REMOVE", "REPLACE"},
                  at : (SUBSET Device) \ {{}}, value : Pct]

LEMMA PhysicalIsTyped ==
    ASSUME TypeOK, turn # <<>>, ~Protects(Patch1), Patch1.op = "UNDO" => UndoAllowed(Patch1)
    PROVE  /\ Patch1 \in PatchType /\ P \in PhysicalPatch
           /\ IsFiniteSet(P.at) /\ Cardinality(P.at) \in Nat \ {0}
           /\ Patch1.op = "UNDO" => /\ Patch1.id \in DOMAIN local.ledger
                                    /\ Patch1.id \in 1..MaxCommands
                                    /\ Patch1.id \notin local.undone
                                    /\ P.at = {local.ledger[Patch1.id].at}
<1>1. Patch1 \in Patch
    BY HeadTailProperties DEF TypeOK, Patch1
<1>2. Patch1 \in PatchType
    BY <1>1, TurnFacts
<1>3. CASE Patch1.op = "UNDO"
    <2>1. /\ Patch1.id \in DOMAIN local.ledger /\ Patch1.id \notin local.undone
        BY <1>3 DEF UndoAllowed
    <2>2. local.ledger \in Ledger
        BY DEF TypeOK, Session
    <2>3. PICK s \in SUBSET (1..MaxCommands) : local.ledger \in [s -> Entry]
        BY <2>2 DEF Ledger
    <2>4. /\ Patch1.id \in 1..MaxCommands /\ local.ledger[Patch1.id] \in Entry
        BY <2>1, <2>3
    <2>5. P = [op |-> "SET", at |-> {local.ledger[Patch1.id].at},
               value |-> local.ledger[Patch1.id].before]
        BY <1>3 DEF P, Physical, UndoOf
    <2>6. P \in PhysicalPatch /\ P.at = {local.ledger[Patch1.id].at}
        BY <2>4, <2>5 DEF PhysicalPatch, Entry
    <2>7. IsFiniteSet(P.at) /\ Cardinality(P.at) = 1
        <3>1. PICK e : e = local.ledger[Patch1.id].at
            OBVIOUS
        <3>2. IsFiniteSet({e}) /\ Cardinality({e}) = 1
            BY FS_Singleton
        <3>3. QED
            BY <2>6, <3>1, <3>2
    <2>8. QED
        BY <1>2, <1>3, <2>1, <2>4, <2>6, <2>7
<1>4. CASE Patch1.op # "UNDO"
    <2>1. P = Patch1
        BY <1>4 DEF P, Physical
    <2>2. Patch1 \in PhysicalPatch
        BY <1>2, <1>4 DEF PatchType, PhysicalPatch, Protects
    <2>3. P.at \in SUBSET Device /\ P.at # {}
        BY <2>1, <2>2 DEF PhysicalPatch
    <2>4. IsFiniteSet(P.at) /\ Cardinality(P.at) \in Nat /\ Cardinality(P.at) # 0
        BY <2>3, TurnFacts, FS_Subset, FS_CardinalityType, FS_EmptySet
    <2>5. QED
        BY <1>2, <1>4, <2>1, <2>2, <2>4
<1>5. QED
    BY <1>3, <1>4

\* An observation writes the slots of the targets down as they are.
LEMMA ReadSlots ==
    ASSUME world \in World, NEW rt \in Runtime, P.at \in SUBSET Device
    PROVE  /\ Read(rt) \in Runtime
           /\ Read(rt).protected = rt.protected /\ Read(rt).quarantined = rt.quarantined
           /\ \A d \in Device : Read(rt).slots[d] = IF d \in P.at THEN world[d] ELSE rt.slots[d]
<1>1. \A d \in Device : world[d] \in Pct \cup {Absent} /\ world[d] # Unset
    BY TurnFacts DEF World
<1>2. rt.slots \in [Device -> Pct \cup {Absent, Unset}]
    BY DEF Runtime
<1>3. \A d \in Device : Reconcile(rt, d, world[d]).slots[d] = world[d]
    BY <1>1, <1>2 DEF Reconcile, Runtime
<1>4. PICK slots : slots = [d \in Device |-> IF d \in P.at THEN Reconcile(rt, d, world[d]).slots[d]
                                             ELSE rt.slots[d]]
    OBVIOUS
<1>5. Read(rt) = [rt EXCEPT !.slots = slots]
    BY <1>4 DEF Read
<1>6. slots \in [Device -> Pct \cup {Absent, Unset}]
    BY <1>1, <1>2, <1>3, <1>4
<1>7. \A d \in Device : slots[d] = IF d \in P.at THEN world[d] ELSE rt.slots[d]
    BY <1>3, <1>4
<1>8. rt \in [slots : [Device -> Pct \cup {Absent, Unset}], protected : SUBSET Path,
             quarantined : SUBSET Device]
    BY DEF Runtime
<1>9. /\ Read(rt) \in Runtime /\ Read(rt).protected = rt.protected
      /\ Read(rt).quarantined = rt.quarantined /\ Read(rt).slots = slots
    BY <1>5, <1>6, <1>8 DEF Runtime
<1>10. QED
    BY <1>7, <1>9

\* One of a device that is protected throws, or says what is known.
LEMMA ProtectedReads ==
    ASSUME world \in World, NEW rt \in Runtime, P.at \in SUBSET Device, ~ReadThrows(rt),
           NEW d \in Device, <<d, "*">> \in rt.protected
    PROVE  Read(rt).slots[d] = rt.slots[d]
<1>1. SlotProtected(rt, d) /\ world[d] # Unset
    BY TurnFacts DEF SlotProtected, World
<1>2. d \in P.at => ~ReconcileThrows(rt, d, world[d])
    BY DEF ReadThrows
<1>3. d \in P.at => world[d] = rt.slots[d]
    BY <1>1, <1>2 DEF ReconcileThrows
<1>4. QED
    BY <1>3, ReadSlots

LEMMA QuarantineMarks ==
    ASSUME NEW rt \in Runtime, NEW q \in SUBSET Device
    PROVE  /\ MarkQuarantined(rt, q) \in Runtime
           /\ MarkQuarantined(rt, q).slots = rt.slots
           /\ MarkQuarantined(rt, q).protected = rt.protected
           /\ MarkQuarantined(rt, q).quarantined = rt.quarantined \cup q
BY DEF MarkQuarantined, Runtime

-----------------------------------------------------------------------------
(* The ledger of executions *)

\* Targets can be numbered with as many numbers as there are devices.
LEMMA CanNumber ==
    ASSUME NEW S, IsFiniteSet(S), NEW n \in Nat, NEW T \in SUBSET S
    PROVE  \E f \in [T -> n + 1 .. n + Cardinality(S)] : IsInjective(f)
<1>1. Cardinality(S) \in Nat /\ ExistsBijection(1..Cardinality(S), S)
    BY FS_CardinalityType
<1>2. PICK f \in Bijection(1..Cardinality(S), S) : TRUE
    BY <1>1 DEF ExistsBijection
<1>3. /\ f \in [1..Cardinality(S) -> S]
      /\ \A t \in S : \E i \in 1..Cardinality(S) : f[i] = t
    BY <1>2 DEF Bijection, Injection, Surjection
<1>4. PICK g : g = [t \in T |-> CHOOSE i \in 1..Cardinality(S) : f[i] = t]
    OBVIOUS
<1>5. \A t \in T : g[t] \in 1..Cardinality(S) /\ f[g[t]] = t
    BY <1>3, <1>4
<1>6. PICK h : h = [t \in T |-> n + g[t]]
    OBVIOUS
<1>7. h \in [T -> n + 1 .. n + Cardinality(S)]
    BY <1>1, <1>5, <1>6
<1>8. ASSUME NEW a \in T, NEW b \in T, h[a] = h[b]
      PROVE  a = b
    <2>1. g[a] = g[b]
        BY <1>1, <1>5, <1>6, <1>8
    <2>2. QED
        BY <1>5, <2>1
<1>9. IsInjective(h)
    BY <1>7, <1>8 DEF IsInjective
<1>10. QED
    BY <1>7, <1>9

\* New executions get new numbers; those there were stay.
LEMMA LedgerGrows ==
    ASSUME TypeOK, Numbered, P.at \in SUBSET Device, IsFiniteSet(P.at),
           commands + Cardinality(P.at) <= MaxCommands
    PROVE  /\ Recorded(local.ledger) \in Ledger
           /\ \A i \in DOMAIN local.ledger : /\ i \in DOMAIN Recorded(local.ledger)
                                             /\ Recorded(local.ledger)[i] = local.ledger[i]
           /\ \A i \in DOMAIN Recorded(local.ledger) :
                /\ i \in 1..MaxCommands /\ i <= commands + Cardinality(P.at)
                /\ i \notin DOMAIN local.ledger => i > commands
<1> DEFINE T == {d \in P.at : P.op = "SET" /\ local.rt.slots[d] \in Pct}
           ids == commands + 1 .. commands + Cardinality(P.at)
           id == CHOOSE f \in [T -> ids] : IsInjective(f)
           Of(i) == CHOOSE d \in T : id[d] = i
           L == Recorded(local.ledger)
<1>1. commands \in Nat /\ Cardinality(P.at) \in Nat /\ MaxCommands \in Nat
    BY TurnFacts, FS_CardinalityType DEF TypeOK
<1>2. PICK s \in SUBSET (1..MaxCommands) : local.ledger \in [s -> Entry]
    BY DEF TypeOK, Session, Ledger
<1>3. id \in [T -> ids] /\ IsInjective(id)
    <2>1. T \in SUBSET P.at
        OBVIOUS
    <2>2. \E f \in [T -> ids] : IsInjective(f)
        BY <1>1, <2>1, CanNumber
    <2>3. QED
        BY <2>2
<1>4. L = [i \in DOMAIN local.ledger \cup Range(id) |->
             IF i \in DOMAIN local.ledger THEN local.ledger[i]
             ELSE [at |-> Of(i), before |-> local.rt.slots[Of(i)]]]
    BY DEF Recorded, WithExecutions
<1>5. \A i \in Range(id) : Of(i) \in T /\ i \in ids
    BY <1>3 DEF Range
<1> HIDE DEF id, Of, L
<1>6. \A i \in Range(id) : [at |-> Of(i), before |-> local.rt.slots[Of(i)]] \in Entry
    BY <1>5 DEF Entry
<1>7. \A i \in Range(id) : i \in 1..MaxCommands /\ i > commands /\ i <= commands + Cardinality(P.at)
    BY <1>1, <1>5
<1>8. L \in [s \cup Range(id) -> Entry]
    BY <1>2, <1>4, <1>6
<1>9. s \cup Range(id) \in SUBSET (1..MaxCommands)
    BY <1>7
<1>10. L \in Ledger
    BY <1>8, <1>9 DEF Ledger
<1>11. \A i \in DOMAIN local.ledger : i \in DOMAIN L /\ L[i] = local.ledger[i]
    BY <1>4
<1>12. ASSUME NEW i \in DOMAIN L
       PROVE  /\ i \in 1..MaxCommands /\ i <= commands + Cardinality(P.at)
              /\ i \notin DOMAIN local.ledger => i > commands
    <2>1. CASE i \in DOMAIN local.ledger
        <3>1. i \in 1..MaxCommands /\ i <= commands
            BY <1>2, <2>1 DEF Numbered
        <3>2. QED
            BY <1>1, <2>1, <3>1
    <2>2. CASE i \in Range(id)
        BY <1>7, <2>2
    <2>3. QED
        BY <1>4, <1>12, <2>1, <2>2
<1>13. QED
    BY <1>10, <1>11, <1>12 DEF L

-----------------------------------------------------------------------------
(* How turns end and go on *)

\* The turn returns a runtime that knows every device not in doubt and leaves what is
\* protected alone.
LEMMA ReturnsKeeps ==
    ASSUME TurnInv, NEW rt \in Runtime, Returns(rt),
           UNCHANGED <<world, compensations>>, commands' \in 0..MaxCommands, commands <= commands',
           doubt \subseteq doubt', doubt' \subseteq Device,
           \A d \in Device \ doubt' : d \notin rt.quarantined => rt.slots[d] = world[d],
           \A d \in Device : <<d, "*">> \in local.rt.protected => rt.slots[d] = local.rt.slots[d]
    PROVE  TurnInv' /\ KeepsProtected
<1>1. /\ turn' = <<>> /\ pc' = "idle" /\ touched' = {}
      /\ session' = [local EXCEPT !.rt = rt] /\ local' = session'
    BY DEF Returns, TurnOver
<1>2. /\ session' \in Session /\ session'.rt = rt /\ session'.ledger = local.ledger
      /\ session'.undone = local.undone
    BY <1>1 DEF TurnInv, TypeOK, Session
<1>3. TypeOK'
    BY <1>1, <1>2, EmptySeq DEF TurnInv, TypeOK
<1>4. CallingIsAllowed' /\ IdleIsQuiet'
    BY <1>1 DEF CallingIsAllowed, Calling, IdleIsQuiet
<1>5. KnowsDevices'
    BY <1>1, <1>2 DEF KnowsDevices
<1>6. Numbered'
    <2>1. \A i \in DOMAIN local.ledger : i \in 1..MaxCommands /\ i <= commands
        BY DEF TurnInv, TypeOK, Session, Ledger, Numbered
    <2>2. \A i \in 1..MaxCommands : i > commands => compensations[i] = 0
        BY DEF TurnInv, Numbered
    <2>3. commands \in Int /\ commands' \in Int
        BY DEF TurnInv, TypeOK
    <2>4. \A i \in DOMAIN local.ledger : i <= commands'
        BY <2>1, <2>3
    <2>5. \A i \in 1..MaxCommands : i > commands' => compensations[i] = 0
        BY <2>2, <2>3
    <2>6. QED
        BY <1>1, <1>2, <2>4, <2>5 DEF Numbered
<1>7. TakenBack'
    <2>1. CountsFit(local, doubt)
        BY DEF TurnInv, TakenBack
    <2>2. \A i \in DOMAIN local.ledger : local.ledger[i].at \notin doubt' =>
             compensations[i] <= IF i \in local.undone THEN 1 ELSE 0
        BY <2>1 DEF CountsFit
    <2>3. QED
        BY <1>1, <1>2, <2>2 DEF TakenBack, CountsFit
<1>8. Shields'
    BY <1>1 DEF Shields
<1>9. KeepsProtected
    BY <1>2 DEF TurnInv, Shields, KeepsProtected
<1>10. QED
    BY <1>3, <1>4, <1>5, <1>6, <1>7, <1>8, <1>9 DEF TurnInv

\* The turn throws: what it has touched is in doubt, undone or not.
LEMMA ThrowsKeeps ==
    ASSUME TurnInv, Throws, UNCHANGED world,
           commands' \in 0..MaxCommands, commands <= commands',
           compensations' \in [1..MaxCommands -> Nat],
           \A i \in 1..MaxCommands : compensations'[i] # compensations[i] =>
               i \in DOMAIN local.ledger /\ local.ledger[i].at \in touched
    PROVE  TurnInv' /\ KeepsProtected
<1>1. /\ turn' = <<>> /\ pc' = "idle" /\ touched' = {}
      /\ session' = session /\ local' = session /\ doubt' = doubt \cup touched
    BY DEF Throws, TurnOver
<1>2. \A i \in DOMAIN session.ledger :
          /\ i \in 1..MaxCommands /\ i \in DOMAIN local.ledger /\ i <= commands
          /\ local.ledger[i] = session.ledger[i]
    BY DEF TurnInv, TypeOK, Session, Ledger, Numbered
<1>3. TypeOK'
    BY <1>1, EmptySeq DEF TurnInv, TypeOK
<1>4. CallingIsAllowed' /\ IdleIsQuiet'
    BY <1>1 DEF CallingIsAllowed, Calling, IdleIsQuiet
<1>5. KnowsDevices'
    BY <1>1 DEF TurnInv, KnowsDevices
<1>6. commands \in Int /\ commands' \in Int
    BY DEF TurnInv, TypeOK
<1>7. Numbered'
    <2>1. \A i \in DOMAIN session.ledger : i <= commands'
        BY <1>2, <1>6
    <2>2. ASSUME NEW i \in 1..MaxCommands, i > commands'
          PROVE  compensations'[i] = 0
        <3>1. i > commands
            BY <1>6, <2>2
        <3>2. compensations[i] = 0 /\ i \notin DOMAIN local.ledger
            BY <1>6, <3>1 DEF TurnInv, Numbered
        <3>3. QED
            BY <3>2
    <2>3. QED
        BY <1>1, <2>1, <2>2 DEF Numbered
<1>8. TakenBack'
    <2>1. \A i \in DOMAIN session.ledger : session.ledger[i].at \notin doubt \cup touched =>
              /\ compensations'[i] = compensations[i]
              /\ compensations[i] <= IF i \in session.undone THEN 1 ELSE 0
        BY <1>2 DEF TurnInv, TakenBack, CountsFit
    <2>2. QED
        BY <1>1, <2>1 DEF TakenBack, CountsFit
<1>9. Shields' /\ KeepsProtected
    BY <1>1 DEF Shields, KeepsProtected
<1>10. QED
    BY <1>3, <1>4, <1>5, <1>7, <1>8, <1>9 DEF TurnInv

\* The turn goes on with a copy that still knows, numbers, counts and protects.
LEMMA ContinueKeeps ==
    ASSUME TurnInv, turn # <<>>, pc # "idle", NEW next \in Session, Continue(next),
           UNCHANGED <<world, doubt>>, commands' \in 0..MaxCommands, commands <= commands',
           compensations' \in [1..MaxCommands -> Nat],
           \A d \in Device \ doubt : d \notin next.rt.quarantined => next.rt.slots[d] = world[d],
           \A i \in DOMAIN local.ledger : i \in DOMAIN next.ledger /\ next.ledger[i] = local.ledger[i],
           \A i \in DOMAIN next.ledger : i \in 1..MaxCommands /\ i <= commands',
           \A i \in 1..MaxCommands : compensations'[i] # compensations[i] =>
               i \in DOMAIN local.ledger /\ local.ledger[i].at \in touched,
           CountsFit(next, doubt)',
           \A d \in Device : <<d, "*">> \in local.rt.protected =>
               <<d, "*">> \in next.rt.protected /\ next.rt.slots[d] = local.rt.slots[d]
    PROVE  TurnInv' /\ KeepsProtected
<1>1. /\ turn' = Tail(turn) /\ pc' = "next" /\ local' = next
      /\ session' = session /\ touched' = touched
    BY DEF Continue
<1>2. turn' \in Seq(Patch)
    BY <1>1, HeadTailProperties DEF TurnInv, TypeOK
<1>3. TypeOK'
    BY <1>1, <1>2 DEF TurnInv, TypeOK
<1>4. CallingIsAllowed' /\ IdleIsQuiet'
    BY <1>1 DEF CallingIsAllowed, Calling, IdleIsQuiet
<1>5. KnowsDevices'
    BY <1>1 DEF TurnInv, KnowsDevices
<1>6. commands \in Int /\ commands' \in Int
    BY DEF TurnInv, TypeOK
<1>7. \A i \in DOMAIN session.ledger :
          /\ i \in 1..MaxCommands /\ i \in DOMAIN local.ledger
          /\ local.ledger[i] = session.ledger[i]
    BY DEF TurnInv, TypeOK, Session, Ledger, Numbered
<1>8. Numbered'
    <2>1. ASSUME NEW i \in 1..MaxCommands, i > commands'
          PROVE  compensations'[i] = 0
        <3>1. i > commands
            BY <1>6, <2>1
        <3>2. compensations[i] = 0 /\ i \notin DOMAIN local.ledger
            BY <1>6, <3>1 DEF TurnInv, Numbered
        <3>3. QED
            BY <3>2
    <2>2. QED
        BY <1>1, <1>7, <2>1 DEF Numbered
<1>9. TakenBack'
    <2>1. \A i \in DOMAIN session.ledger : session.ledger[i].at \notin doubt \cup touched =>
              /\ compensations'[i] = compensations[i]
              /\ compensations[i] <= IF i \in session.undone THEN 1 ELSE 0
        BY <1>7 DEF TurnInv, TakenBack, CountsFit
    <2>2. CountsFit(session, doubt \cup touched)'
        BY <1>1, <2>1 DEF CountsFit
    <2>3. CountsFit(local, doubt)'
        BY <1>1 DEF CountsFit
    <2>4. QED
        BY <2>2, <2>3 DEF TakenBack
<1>10. Shields' /\ KeepsProtected
    BY <1>1 DEF TurnInv, Shields, KeepsProtected
<1>11. QED
    BY <1>3, <1>4, <1>5, <1>8, <1>9, <1>10 DEF TurnInv

-----------------------------------------------------------------------------
(* The steps of a turn *)

LEMMA BeginKeeps ==
    ASSUME TurnInv, NEW offered \in Turns, Begin(offered)
    PROVE  TurnInv' /\ KeepsProtected
<1>1. /\ turn' = offered /\ local' = session /\ pc' = "next" /\ touched' = {} /\ pc = "idle"
      /\ UNCHANGED <<session, world, commands, doubt, compensations>>
    BY DEF Begin
<1>2. offered \in Seq(Patch)
    <2>1. PICK n \in 1..MaxTurn : offered \in [1..n -> Patch]
        BY DEF Turns
    <2>2. n \in Nat
        BY TurnAssumption
    <2>3. QED
        BY <2>1, <2>2, IsASeq
<1>3. touched = {} /\ local = session
    BY <1>1 DEF TurnInv, IdleIsQuiet
<1>4. TypeOK'
    BY <1>1, <1>2 DEF TurnInv, TypeOK
<1>5. CallingIsAllowed' /\ IdleIsQuiet'
    BY <1>1 DEF CallingIsAllowed, Calling, IdleIsQuiet
<1>6. KnowsDevices' /\ Numbered' /\ Shields'
    BY <1>1, <1>3 DEF TurnInv, KnowsDevices, Numbered, Shields
<1>7. TakenBack'
    BY <1>1, <1>3 DEF TurnInv, TakenBack, CountsFit
<1>8. QED
    BY <1>1, <1>4, <1>5, <1>6, <1>7 DEF TurnInv, KeepsProtected

LEMMA LocalFacts ==
    ASSUME TurnInv
    PROVE  /\ session \in Session /\ local \in Session /\ local.rt \in Runtime /\ world \in World
           /\ commands \in 0..MaxCommands /\ doubt \subseteq Device
           /\ compensations \in [1..MaxCommands -> Nat]
           /\ commands \in Nat /\ commands <= MaxCommands
BY TurnFacts DEF TurnInv, TypeOK, Session

LEMMA FinishKeeps == ASSUME TurnInv, Finish PROVE TurnInv' /\ KeepsProtected
<1>1. /\ pc = "next" /\ Returns(local.rt) /\ UNCHANGED <<world, commands, doubt, compensations>>
    BY DEF Finish
<1>2. \A d \in Device \ doubt' : d \notin local.rt.quarantined => local.rt.slots[d] = world[d]
    BY <1>1 DEF TurnInv, KnowsDevices
<1>3. QED
    BY <1>1, <1>2, LocalFacts, ReturnsKeeps

LEMMA ProtectKeeps == ASSUME TurnInv, Protect PROVE TurnInv' /\ KeepsProtected
<1>1. /\ pc = "next" /\ turn # <<>> /\ UNCHANGED <<world, commands, compensations>>
      /\ Protects(Patch1)
    BY DEF Protect
<1>2. CASE Throws
    BY <1>1, <1>2, LocalFacts, ThrowsKeeps
<1>3. PICK path : path = IF Patch1.op = "PROTECT" THEN "slot" ELSE "*"
    OBVIOUS
<1>4. PICK more : more = {<<d, path>> : d \in Patch1.at}
    OBVIOUS
<1>5. CASE /\ Continue([local EXCEPT !.rt.protected = @ \cup more])
           /\ UNCHANGED doubt
    <2>1. PICK rt : rt = [local.rt EXCEPT !.protected = @ \cup more]
        OBVIOUS
    <2>2. PICK next : next = [local EXCEPT !.rt = rt]
        OBVIOUS
    <2>3. Continue(next)
        BY <1>5, <2>1, <2>2
    <2>4. more \in SUBSET Path
        <3>1. Patch1 \in PatchType
            BY <1>1, HeadTailProperties, TurnFacts DEF TurnInv, TypeOK, Patch1
        <3>2. Patch1.at \in SUBSET Device
            BY <1>1, <3>1 DEF PatchType, Protects
        <3>3. QED
            BY <1>3, <1>4, <3>2 DEF Path
    <2>5. /\ rt \in Runtime /\ rt.slots = local.rt.slots /\ rt.quarantined = local.rt.quarantined
          /\ rt.protected = local.rt.protected \cup more
        BY <2>1, <2>4, LocalFacts DEF Runtime
    <2>6. /\ next \in Session /\ next.rt = rt /\ next.ledger = local.ledger
          /\ next.undone = local.undone
        BY <2>2, <2>5, LocalFacts DEF Session
    <2>7. \A d \in Device \ doubt : d \notin next.rt.quarantined => next.rt.slots[d] = world[d]
        BY <1>1, <2>5, <2>6 DEF TurnInv, KnowsDevices
    <2>8. \A i \in DOMAIN next.ledger : i \in 1..MaxCommands /\ i <= commands'
        BY <1>1, <2>6 DEF TurnInv, Numbered, TypeOK, Session, Ledger
    <2>9. CountsFit(next, doubt)'
        BY <1>1, <1>5, <2>6 DEF TurnInv, TakenBack, CountsFit
    <2>10. QED
        BY <1>1, <1>5, <2>3, <2>5, <2>6, <2>7, <2>8, <2>9, LocalFacts, ContinueKeeps
<1>6. QED
    BY <1>2, <1>3, <1>4, <1>5 DEF Protect

LEMMA StopKeeps == ASSUME TurnInv, Stop PROVE TurnInv' /\ KeepsProtected
<1>1. /\ pc = "next" /\ UNCHANGED <<world, commands, compensations>>
    BY DEF Stop
<1>2. CASE Throws
    BY <1>1, <1>2, LocalFacts, ThrowsKeeps
<1>3. CASE Returns(local.rt) /\ UNCHANGED doubt
    <2>1. \A d \in Device \ doubt' : d \notin local.rt.quarantined => local.rt.slots[d] = world[d]
        BY <1>1, <1>3 DEF TurnInv, KnowsDevices
    <2>2. QED
        BY <1>1, <1>3, <2>1, LocalFacts, ReturnsKeeps
<1>4. QED
    BY <1>2, <1>3 DEF Stop

LEMMA CommandKeeps == ASSUME TurnInv, Command PROVE TurnInv' /\ KeepsProtected
<1>1. /\ pc = "next" /\ turn # <<>> /\ ~Protects(Patch1)
      /\ Patch1.op = "UNDO" => UndoAllowed(Patch1)
      /\ commands + Cardinality(P.at) <= MaxCommands
      /\ pc' = "driving" /\ touched' = touched \cup P.at
      /\ UNCHANGED <<session, local, world, turn, commands, doubt, compensations>>
    BY DEF Command, P
<1>2. P.at \in SUBSET Device
    BY <1>1, PhysicalIsTyped DEF TurnInv, PhysicalPatch
<1>3. TypeOK'
    BY <1>1, <1>2 DEF TurnInv, TypeOK
<1>4. P' = P /\ Patch1' = Patch1 /\ (UndoAllowed(Patch1) => UndoAllowed(Patch1)')
    BY <1>1 DEF P, Physical, UndoOf, Patch1, UndoAllowed
<1>5. CallingIsAllowed'
    BY <1>1, <1>4 DEF CallingIsAllowed, Protects
<1>6. IdleIsQuiet' /\ KnowsDevices' /\ Numbered' /\ Shields' /\ KeepsProtected
    BY <1>1 DEF TurnInv, IdleIsQuiet, KnowsDevices, Numbered, Shields, KeepsProtected
<1>7. TakenBack'
    BY <1>1 DEF TurnInv, TakenBack, CountsFit
<1>8. QED
    BY <1>3, <1>5, <1>6, <1>7 DEF TurnInv

-----------------------------------------------------------------------------
(* The driver and its answers *)

LEMMA CallingFacts ==
    ASSUME TurnInv, Calling
    PROVE  /\ turn # <<>> /\ pc # "idle" /\ P \in PhysicalPatch /\ P.at \in SUBSET Device
           /\ IsFiniteSet(P.at) /\ Cardinality(P.at) \in Nat \ {0}
           /\ commands + Cardinality(P.at) <= MaxCommands
           /\ commands + Cardinality(P.at) \in 0..MaxCommands
           /\ commands <= commands + Cardinality(P.at)
           /\ P.at \subseteq touched /\ touched \subseteq Device
           /\ Patch1.op = "UNDO" => /\ Patch1.id \in DOMAIN local.ledger
                                    /\ Patch1.id \in 1..MaxCommands
                                    /\ Patch1.id \notin local.undone
                                    /\ P.at = {local.ledger[Patch1.id].at}
<1>1. /\ turn # <<>> /\ ~Protects(Patch1) /\ (Patch1.op = "UNDO" => UndoAllowed(Patch1))
      /\ commands + Cardinality(P.at) <= MaxCommands /\ P.at \subseteq touched
    BY DEF TurnInv, CallingIsAllowed
<1>2. /\ P \in PhysicalPatch /\ IsFiniteSet(P.at) /\ Cardinality(P.at) \in Nat \ {0}
      /\ Patch1.op = "UNDO" => /\ Patch1.id \in DOMAIN local.ledger
                               /\ Patch1.id \in 1..MaxCommands
                               /\ Patch1.id \notin local.undone
                               /\ P.at = {local.ledger[Patch1.id].at}
    BY <1>1, PhysicalIsTyped DEF TurnInv
<1>3. P.at \in SUBSET Device
    BY <1>2 DEF PhysicalPatch
<1>4. /\ commands + Cardinality(P.at) \in 0..MaxCommands
      /\ commands <= commands + Cardinality(P.at)
    BY <1>1, <1>2, LocalFacts
<1>5. pc # "idle" /\ touched \subseteq Device
    BY DEF Calling, TurnInv, TypeOK
<1>6. QED
    BY <1>1, <1>2, <1>3, <1>4, <1>5

LEMMA EffectKeeps == ASSUME TurnInv, Effect PROVE TurnInv' /\ KeepsProtected
<1>1. /\ pc = "driving" /\ pc' = "moved" /\ Calling
      /\ UNCHANGED <<session, local, turn, commands, touched, doubt, compensations>>
    BY DEF Effect, Calling
<1>2. PICK to \in [P.at -> UNION {Reached(d) : d \in P.at}] :
          /\ \A d \in P.at : to[d] \in Reached(d)
          /\ world' = [d \in Device |-> IF d \in P.at THEN to[d] ELSE world[d]]
    BY DEF Effect
<1>3. \A d \in P.at : Reached(d) \subseteq Pct \cup {Absent}
    BY <1>1, CallingFacts, LocalFacts DEF Reached, Outcome, PhysicalPatch, World
<1>4. world' \in World
    BY <1>2, <1>3, LocalFacts DEF World
<1>5. TypeOK'
    BY <1>1, <1>4 DEF TurnInv, TypeOK
<1>6. P' = P /\ Patch1' = Patch1 /\ (UndoAllowed(Patch1) => UndoAllowed(Patch1)')
    BY <1>1 DEF P, Physical, UndoOf, Patch1, UndoAllowed
<1>7. CallingIsAllowed'
    BY <1>1, <1>6 DEF TurnInv, CallingIsAllowed, Protects
<1>8. \A d \in Device : d \notin P.at => world'[d] = world[d]
    BY <1>2
<1>9. KnowsDevices'
    BY <1>1, <1>6, <1>8, CallingFacts DEF TurnInv, KnowsDevices
<1>10. IdleIsQuiet' /\ Numbered' /\ Shields' /\ KeepsProtected
    BY <1>1 DEF TurnInv, IdleIsQuiet, Numbered, Shields, KeepsProtected
<1>11. TakenBack'
    BY <1>1 DEF TurnInv, TakenBack, CountsFit
<1>12. QED
    BY <1>5, <1>7, <1>9, <1>10, <1>11 DEF TurnInv

\* What was read is known, and what was not asked about is known as before.
LEMMA ReadKnows ==
    ASSUME TurnInv, Calling
    PROVE  /\ Read(local.rt) \in Runtime
           /\ \A d \in Device \ doubt : d \notin Read(local.rt).quarantined =>
                 Read(local.rt).slots[d] = world[d]
           /\ ~ReadThrows(local.rt) =>
                 \A d \in Device : <<d, "*">> \in local.rt.protected =>
                     /\ <<d, "*">> \in Read(local.rt).protected
                     /\ Read(local.rt).slots[d] = local.rt.slots[d]
<1>1. /\ Read(local.rt) \in Runtime
      /\ Read(local.rt).protected = local.rt.protected
      /\ Read(local.rt).quarantined = local.rt.quarantined
      /\ \A d \in Device : Read(local.rt).slots[d] = IF d \in P.at THEN world[d]
                                                    ELSE local.rt.slots[d]
    BY CallingFacts, LocalFacts, ReadSlots
<1>2. ASSUME ~ReadThrows(local.rt), NEW d \in Device, <<d, "*">> \in local.rt.protected
      PROVE  Read(local.rt).slots[d] = local.rt.slots[d]
    BY <1>2, CallingFacts, LocalFacts, ProtectedReads
<1>3. QED
    BY <1>1, <1>2 DEF TurnInv, KnowsDevices

LEMMA AppliedKeeps == ASSUME TurnInv, Applied PROVE TurnInv' /\ KeepsProtected
<1>1. /\ Calling /\ world' = world /\ commands' = commands + Cardinality(P.at)
      /\ compensations' = IF Patch1.op = "UNDO"
                            THEN [compensations EXCEPT ![Patch1.id] = @ + 1] ELSE compensations
    BY DEF Applied, Counted
<1>2. commands' \in 0..MaxCommands /\ commands <= commands'
    BY <1>1, CallingFacts
<1>3. compensations' \in [1..MaxCommands -> Nat]
    BY <1>1, LocalFacts, CallingFacts
<1>4. \A i \in 1..MaxCommands : /\ compensations'[i] = IF Patch1.op = "UNDO" /\ i = Patch1.id
                                      THEN compensations[i] + 1 ELSE compensations[i]
                                /\ compensations'[i] # compensations[i] =>
                                     i \in DOMAIN local.ledger /\ local.ledger[i].at \in touched
    BY <1>1, LocalFacts, CallingFacts
<1>5. CASE Throws
    BY <1>1, <1>2, <1>3, <1>4, <1>5, ThrowsKeeps
<1>6. CASE /\ ~ReadThrows(local.rt) /\ UNCHANGED doubt
           /\ Continue([local EXCEPT !.rt = Read(@), !.ledger = Recorded(@),
                          !.undone = IF Patch1.op = "UNDO" THEN @ \cup {Patch1.id} ELSE @])
    <2>1. PICK ledger : ledger = Recorded(local.ledger)
        OBVIOUS
    <2>2. PICK undone : undone = IF Patch1.op = "UNDO" THEN local.undone \cup {Patch1.id}
                                 ELSE local.undone
        OBVIOUS
    <2>3. PICK next : next = [rt |-> Read(local.rt), ledger |-> ledger, undone |-> undone]
        OBVIOUS
    <2>4. Continue(next)
        <3>1. local = [rt |-> local.rt, ledger |-> local.ledger, undone |-> local.undone]
            BY LocalFacts DEF Session
        <3>2. [local EXCEPT !.rt = Read(local.rt), !.ledger = ledger, !.undone = undone] = next
            <4>1. PICK a : a = [local EXCEPT !.rt = Read(local.rt)]
                OBVIOUS
            <4>2. PICK b : b = [a EXCEPT !.ledger = ledger]
                OBVIOUS
            <4>3. a = [rt |-> Read(local.rt), ledger |-> local.ledger, undone |-> local.undone]
                BY <3>1, <4>1
            <4>4. b = [rt |-> Read(local.rt), ledger |-> ledger, undone |-> local.undone]
                BY <4>2, <4>3
            <4>5. [b EXCEPT !.undone = undone] = next
                BY <2>3, <4>4
            <4>6. QED
                BY <4>1, <4>2, <4>5
        <3>3. Continue([local EXCEPT !.rt = Read(local.rt), !.ledger = ledger, !.undone = undone])
            BY <1>6, <2>1, <2>2
        <3>4. QED
            BY <3>2, <3>3
    <2>5. /\ ledger \in Ledger
          /\ \A i \in DOMAIN local.ledger : i \in DOMAIN ledger /\ ledger[i] = local.ledger[i]
          /\ \A i \in DOMAIN ledger : /\ i \in 1..MaxCommands /\ i <= commands'
                                      /\ i \notin DOMAIN local.ledger => i > commands
        BY <1>1, <2>1, CallingFacts, LedgerGrows DEF TurnInv
    <2>6. undone \in SUBSET (1..MaxCommands)
        BY <1>1, <2>2, LocalFacts, CallingFacts DEF Session
    <2>7. next \in Session
        BY <1>1, <2>3, <2>5, <2>6, ReadKnows DEF Session
    <2>8. ASSUME NEW i \in DOMAIN ledger, ledger[i].at \notin doubt
          PROVE  compensations'[i] <= IF i \in undone THEN 1 ELSE 0
        <3>1. i \in 1..MaxCommands /\ compensations[i] \in Nat
            BY <2>5, <2>8, LocalFacts
        <3>2. CASE i \notin DOMAIN local.ledger
            <4>1. compensations[i] = 0
                BY <2>5, <2>8, <3>1, <3>2 DEF TurnInv, Numbered
            <4>2. compensations'[i] = compensations[i]
                BY <1>4, <3>1, <3>2
            <4>3. QED
                BY <4>1, <4>2
        <3>3. CASE i \in DOMAIN local.ledger
            <4>1. compensations[i] <= IF i \in local.undone THEN 1 ELSE 0
                BY <2>5, <2>8, <3>3 DEF TurnInv, TakenBack, CountsFit
            <4>2. CASE Patch1.op = "UNDO" /\ i = Patch1.id
                <5>1. i \notin local.undone /\ i \in undone
                    BY <1>1, <2>2, <4>2, CallingFacts
                <5>2. compensations[i] <= 0 /\ compensations'[i] = compensations[i] + 1
                    BY <1>4, <3>1, <4>1, <4>2, <5>1
                <5>3. QED
                    BY <3>1, <5>1, <5>2
            <4>3. CASE ~(Patch1.op = "UNDO" /\ i = Patch1.id)
                <5>1. compensations'[i] = compensations[i] /\ (i \in local.undone => i \in undone)
                    BY <1>4, <2>2, <3>1, <4>3
                <5>2. QED
                    BY <3>1, <4>1, <5>1
            <4>4. QED
                BY <4>2, <4>3
        <3>4. QED
            BY <3>2, <3>3
    <2>9. CountsFit(next, doubt)'
        BY <1>6, <2>3, <2>8 DEF CountsFit
    <2>10. \A d \in Device \ doubt : d \notin next.rt.quarantined => next.rt.slots[d] = world[d]
        BY <1>1, <2>3, ReadKnows
    <2>11. \A d \in Device : <<d, "*">> \in local.rt.protected =>
               <<d, "*">> \in next.rt.protected /\ next.rt.slots[d] = local.rt.slots[d]
        BY <1>1, <1>6, <2>3, ReadKnows
    <2>12. /\ \A i \in DOMAIN local.ledger : /\ i \in DOMAIN next.ledger
                                              /\ next.ledger[i] = local.ledger[i]
           /\ \A i \in DOMAIN next.ledger : i \in 1..MaxCommands /\ i <= commands'
        BY <2>3, <2>5
    <2>13. QED
        BY <1>1, <1>2, <1>3, <1>4, <1>6, <2>4, <2>7, <2>9, <2>10, <2>11, <2>12, CallingFacts,
           ContinueKeeps
<1>7. QED
    BY <1>5, <1>6 DEF Applied

LEMMA NotAppliedKeeps == ASSUME TurnInv, NotApplied PROVE TurnInv' /\ KeepsProtected
<1>1. /\ Calling /\ UNCHANGED <<world, compensations>>
      /\ commands' = commands + Cardinality(P.at)
    BY DEF NotApplied, Counted
<1>2. commands' \in 0..MaxCommands /\ commands <= commands'
    BY <1>1, CallingFacts
<1>3. CASE Throws
    BY <1>1, <1>2, <1>3, LocalFacts, ThrowsKeeps
<1>4. ASSUME NEW q \in {{}} \cup (IF P.op = "REPLACE" THEN {} ELSE {P.at}),
             ~ReadThrows(local.rt), UNCHANGED doubt,
             IF Patch1.op = "UNDO" THEN Returns(MarkQuarantined(Read(local.rt), q))
             ELSE Continue([local EXCEPT !.rt = MarkQuarantined(Read(local.rt), q)])
      PROVE  TurnInv' /\ KeepsProtected
    <2>1. q \in SUBSET Device
        BY <1>1, CallingFacts
    <2>2. PICK rt : rt = MarkQuarantined(Read(local.rt), q)
        OBVIOUS
    <2>3. /\ rt \in Runtime /\ rt.slots = Read(local.rt).slots
          /\ rt.protected = Read(local.rt).protected
          /\ rt.quarantined = Read(local.rt).quarantined \cup q
        BY <1>1, <2>1, <2>2, ReadKnows, QuarantineMarks
    <2>4. \A d \in Device \ doubt : d \notin rt.quarantined => rt.slots[d] = world[d]
        BY <1>1, <2>3, ReadKnows
    <2>5. \A d \in Device : <<d, "*">> \in local.rt.protected =>
              <<d, "*">> \in rt.protected /\ rt.slots[d] = local.rt.slots[d]
        BY <1>1, <1>4, <2>3, ReadKnows
    <2>6. CASE Returns(rt)
        BY <1>1, <1>2, <1>4, <2>3, <2>4, <2>5, <2>6, LocalFacts, ReturnsKeeps
    <2>7. CASE Continue([local EXCEPT !.rt = rt])
        <3>1. PICK next : next = [local EXCEPT !.rt = rt]
            OBVIOUS
        <3>2. /\ next \in Session /\ next.rt = rt /\ next.ledger = local.ledger
              /\ next.undone = local.undone
            BY <2>3, <3>1, LocalFacts DEF Session
        <3>3. \A i \in DOMAIN next.ledger : i \in 1..MaxCommands /\ i <= commands'
            <4>1. \A i \in DOMAIN local.ledger : i \in 1..MaxCommands /\ i <= commands
                BY DEF TurnInv, Numbered, TypeOK, Session, Ledger
            <4>2. commands \in Nat /\ commands' \in Nat
                BY <1>2, LocalFacts, TurnFacts
            <4>3. QED
                BY <1>2, <3>2, <4>1, <4>2
        <3>4. CountsFit(next, doubt)'
            BY <1>1, <1>4, <3>2 DEF TurnInv, TakenBack, CountsFit
        <3>5. QED
            BY <1>1, <1>2, <1>4, <2>4, <2>5, <2>7, <3>1, <3>2, <3>3, <3>4, LocalFacts, CallingFacts,
               ContinueKeeps
    <2>8. QED
        BY <1>4, <2>2, <2>6, <2>7
<1>5. QED
    BY <1>3, <1>4 DEF NotApplied

\* The turn stops with the copy as it is, the targets quarantined or in doubt, or not
\* moved at all.
LEMMA StoppedKeeps ==
    ASSUME TurnInv, Calling, NEW rt \in Runtime, Returns(rt), Counted,
           UNCHANGED <<world, compensations>>, doubt \subseteq doubt', doubt' \subseteq Device,
           rt.slots = local.rt.slots, rt.quarantined \in {local.rt.quarantined,
                                                         local.rt.quarantined \cup P.at},
           pc = "moved" => \A d \in P.at : d \in doubt' \/ d \in rt.quarantined
    PROVE  TurnInv' /\ KeepsProtected
<1>1. commands' \in 0..MaxCommands /\ commands <= commands'
    BY CallingFacts DEF Counted
<1>2. \A d \in Device \ doubt' : d \notin rt.quarantined => rt.slots[d] = world[d]
    BY DEF TurnInv, KnowsDevices
<1>3. QED
    BY <1>1, <1>2, ReturnsKeeps

LEMMA AmbiguousKeeps == ASSUME TurnInv, Ambiguous PROVE TurnInv' /\ KeepsProtected
<1>1. /\ Calling /\ Counted /\ Returns(MarkQuarantined(local.rt, P.at))
      /\ UNCHANGED <<world, doubt, compensations>>
    BY DEF Ambiguous
<1>2. PICK rt : rt = MarkQuarantined(local.rt, P.at)
    OBVIOUS
<1>3. /\ rt \in Runtime /\ rt.slots = local.rt.slots
      /\ rt.quarantined = local.rt.quarantined \cup P.at
    BY <1>1, <1>2, LocalFacts, CallingFacts, QuarantineMarks
<1>4. QED
    BY <1>1, <1>2, <1>3, LocalFacts, StoppedKeeps

LEMMA ReplaceLostKeeps == ASSUME TurnInv, ReplaceLost PROVE TurnInv' /\ KeepsProtected
<1>1. /\ Calling /\ Counted /\ Returns(local.rt) /\ doubt' = doubt \cup P.at
      /\ UNCHANGED <<world, compensations>>
    BY DEF ReplaceLost
<1>2. QED
    BY <1>1, LocalFacts, CallingFacts, StoppedKeeps

LEMMA SetRejectedKeeps == ASSUME TurnInv, SetRejected PROVE TurnInv' /\ KeepsProtected
<1>1. /\ pc = "driving" /\ Calling /\ Counted /\ Returns(local.rt)
      /\ UNCHANGED <<world, doubt, compensations>>
    BY DEF SetRejected, Calling
<1>2. QED
    BY <1>1, LocalFacts, CallingFacts, StoppedKeeps

LEMMA UnobservedTurnKeeps == ASSUME TurnInv, Unobserved PROVE TurnInv' /\ KeepsProtected
<1>1. /\ Calling /\ Counted /\ UNCHANGED <<world, compensations>>
    BY DEF Unobserved
<1>2. CASE Throws
    <2>1. commands' \in 0..MaxCommands /\ commands <= commands'
        BY <1>1, CallingFacts DEF Counted
    <2>2. QED
        BY <1>1, <1>2, <2>1, LocalFacts, ThrowsKeeps
<1>3. CASE Returns(local.rt) /\ doubt' = doubt \cup P.at
    BY <1>1, <1>3, LocalFacts, CallingFacts, StoppedKeeps
<1>4. QED
    BY <1>2, <1>3 DEF Unobserved

-----------------------------------------------------------------------------
(* The theorems *)

LEMMA TurnStartsSound == TurnInit => TurnInv
<1> SUFFICES ASSUME TurnInit PROVE TurnInv
    OBVIOUS
<1>1. /\ world \in World
      /\ session = [rt |-> [slots |-> world, protected |-> {}, quarantined |-> {}],
                    ledger |-> NoLedger, undone |-> {}]
      /\ local = session /\ turn = <<>> /\ pc = "idle" /\ commands = 0 /\ touched = {}
      /\ doubt = {} /\ compensations = [i \in 1..MaxCommands |-> 0]
    BY DEF TurnInit
<1>2. NoLedger \in Ledger /\ DOMAIN NoLedger = {}
    <2>1. DOMAIN NoLedger = {} /\ NoLedger \in [{} -> Entry]
        BY DEF NoLedger
    <2>2. {} \in SUBSET (1..MaxCommands)
        OBVIOUS
    <2>3. QED
        BY <2>1, <2>2 DEF Ledger
<1>3. [slots |-> world, protected |-> {}, quarantined |-> {}] \in Runtime
    BY <1>1 DEF World, Runtime
<1>4. session \in Session
    BY <1>1, <1>2, <1>3 DEF Session
<1>5. 0 \in 0..MaxCommands
    BY TurnFacts
<1>6. TypeOK
    BY <1>1, <1>4, <1>5, EmptySeq DEF TypeOK
<1>7. CallingIsAllowed /\ IdleIsQuiet /\ KnowsDevices /\ Shields
    BY <1>1 DEF CallingIsAllowed, Calling, IdleIsQuiet, KnowsDevices, Shields
<1>8. Numbered /\ TakenBack
    BY <1>1, <1>2 DEF Numbered, TakenBack, CountsFit
<1>9. QED
    BY <1>6, <1>7, <1>8 DEF TurnInv

LEMMA TurnStep == ASSUME TurnInv, [TurnNext]_turnVars PROVE TurnInv' /\ KeepsProtected
<1>1. CASE UNCHANGED turnVars
    <2>1. UNCHANGED <<session, local, world, turn, pc, commands, touched, doubt, compensations>>
        BY <1>1 DEF turnVars
    <2>2. TypeOK' /\ IdleIsQuiet' /\ Numbered' /\ Shields' /\ KeepsProtected
        BY <2>1 DEF TurnInv, TypeOK, IdleIsQuiet, Numbered, Shields, KeepsProtected
    <2>3. P' = P /\ Patch1' = Patch1 /\ (UndoAllowed(Patch1) => UndoAllowed(Patch1)')
        BY <2>1 DEF P, Physical, UndoOf, Patch1, UndoAllowed
    <2>4. CallingIsAllowed' /\ KnowsDevices'
        BY <2>1, <2>3 DEF TurnInv, CallingIsAllowed, Calling, Protects, KnowsDevices
    <2>5. TakenBack'
        BY <2>1 DEF TurnInv, TakenBack, CountsFit
    <2>6. QED
        BY <2>2, <2>4, <2>5 DEF TurnInv
<1>2. CASE \E offered \in Turns : Begin(offered)
    BY <1>2, BeginKeeps
<1>3. CASE Finish \/ Protect \/ Stop \/ Command
    BY <1>3, FinishKeeps, ProtectKeeps, StopKeeps, CommandKeeps
<1>4. CASE Effect \/ Applied \/ NotApplied
    BY <1>4, EffectKeeps, AppliedKeeps, NotAppliedKeeps
<1>5. CASE Ambiguous \/ ReplaceLost \/ SetRejected \/ Unobserved
    BY <1>5, AmbiguousKeeps, ReplaceLostKeeps, SetRejectedKeeps, UnobservedTurnKeeps
<1>6. QED
    BY <1>1, <1>2, <1>3, <1>4, <1>5 DEF TurnNext

LEMMA TurnInvIsEnough == TurnInv => TurnHolds
<1> SUFFICES ASSUME TurnInv PROVE TurnHolds
    OBVIOUS
<1>1. BeliefIsWorld
    BY DEF TurnInv, IdleIsQuiet, KnowsDevices, BeliefIsWorld
<1>2. ASSUME NEW i \in DOMAIN session.ledger, session.ledger[i].at \notin doubt
      PROVE  compensations[i] <= 1
    <2>1. i \in DOMAIN local.ledger /\ local.ledger[i] = session.ledger[i]
        BY <1>2 DEF TurnInv, Numbered
    <2>2. i \in 1..MaxCommands /\ compensations[i] \in Nat
        BY <2>1 DEF TurnInv, TypeOK, Session, Ledger
    <2>3. compensations[i] <= IF i \in local.undone THEN 1 ELSE 0
        BY <1>2, <2>1 DEF TurnInv, TakenBack, CountsFit
    <2>4. QED
        BY <2>2, <2>3
<1>3. QED
    BY <1>1, <1>2 DEF TurnInv, TurnHolds, UndoneOnce

LEMMA TurnAlwaysSound == TurnSpec => []TurnInv
<1>1. TurnInit => TurnInv
    BY TurnStartsSound
<1>2. TurnInv /\ [TurnNext]_turnVars => TurnInv'
    BY TurnStep
<1>3. QED
    BY <1>1, <1>2, PTL DEF TurnSpec

\* Between turns the session knows every device that is neither in quarantine nor left
\* unread, and an execution is taken back at most once, however turns stop, throw and
\* are repeated (executePhysicalTurn, executePhysicalUndo).
THEOREM TurnAlwaysHolds == TurnSpec => []TurnHolds
    BY TurnAlwaysSound, TurnInvIsEnough, PTL

\* No turn changes the slot the session believes of a device it protects as a whole.
THEOREM ProtectionAlwaysHolds == TurnSpec => ProtectionHolds
<1>1. TurnInv /\ [TurnNext]_turnVars
        => [\A d \in Device : <<d, "*">> \in session.rt.protected
              => session'.rt.slots[d] = session.rt.slots[d]]_turnVars
    BY TurnStep DEF KeepsProtected
<1>2. QED
    BY <1>1, TurnAlwaysSound, PTL DEF TurnSpec, ProtectionHolds
===============================================================================
