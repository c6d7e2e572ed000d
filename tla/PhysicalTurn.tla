----------------------------- MODULE PhysicalTurn -----------------------------
(***************************************************************************)
(* One turn of the home on its way to the devices: the patches of a        *)
(* committed hypothesis, executed in order by executePhysicalTurn()        *)
(* (scripts/physical_runtime.cjs) with the set executor                    *)
(* (atomic_physical_set.cjs) and the physical undo, for a session that     *)
(* adopts the runtime the turn returns (streaming_slu_e2e.cjs).            *)
(*                                                                         *)
(* A turn works on a copy.  When it returns, complete or stopped, the      *)
(* session takes the copy; when it throws, the session keeps what it had,  *)
(* whatever the driver has done by then.  Where a device is mounted is     *)
(* part of the world, so that a patch may add or remove one.               *)
(***************************************************************************)
EXTENDS PhysicalRuntime, Sequences, FiniteSets, Functions

CONSTANTS Patch,         \* the patches a turn is made of
          MaxTurn,       \* bound on the patches of a turn
          MaxCommands    \* bound on the driver commands

\* A patch is an operation on devices; UNDO_EXECUTED names an execution.
PatchType == [op : {"SET", "ADD", "REMOVE", "REPLACE", "PROTECT", "PROTECT_ALL"},
              at : (SUBSET Device) \ {{}}, value : Pct]
             \cup [op : {"UNDO"}, id : 1..MaxCommands]

ASSUME TurnAssumption == /\ IsFiniteSet(Device)
                         /\ Patch \subseteq PatchType
                         /\ {MaxTurn, MaxCommands} \subseteq Nat

VARIABLES session,       \* runtime and execution ledger of the session
          local,         \* the copy the turn works on
          world,         \* where the devices are, Absent if nowhere
          turn,          \* patches left
          pc,            \* idle, next patch, driver called, devices moved
          commands,      \* driver commands so far: they number the executions
          touched,       \* devices of the commands of this turn
          doubt,         \* devices a driver command left unread
          compensations  \* compensations reported applied, per execution

turnVars == <<session, local, world, turn, pc, commands, touched, doubt, compensations>>

World == [Device -> Pct \cup {Absent}]

\* Executions the ledger has as applied, with what they did, and those undone.
Entry == [at : Device, before : Pct]
Ledger == UNION {[s -> Entry] : s \in SUBSET (1..MaxCommands)}
Session == [rt : Runtime, ledger : Ledger, undone : SUBSET (1..MaxCommands)]

TypeOK == /\ session \in Session
          /\ local \in Session
          /\ world \in World
          /\ turn \in Seq(Patch)
          /\ pc \in {"idle", "next", "driving", "moved"}
          /\ commands \in 0..MaxCommands
          /\ touched \subseteq Device
          /\ doubt \subseteq Device
          /\ compensations \in [1..MaxCommands -> Nat]

NoLedger == [i \in {} |-> [at |-> CHOOSE d \in Device : TRUE, before |-> 0]]

\* Every device that is mounted is where the session believes it to be.
TurnInit == /\ world \in World
            /\ session = [rt |-> [slots |-> world, protected |-> {}, quarantined |-> {}],
                          ledger |-> NoLedger, undone |-> {}]
            /\ local = session
            /\ turn = <<>>
            /\ pc = "idle"
            /\ commands = 0
            /\ touched = {}
            /\ doubt = {}
            /\ compensations = [i \in 1..MaxCommands |-> 0]
-----------------------------------------------------------------------------
(* The head of the turn *)

Patch1 == Head(turn)
Protects(p) == p.op \in {"PROTECT", "PROTECT_ALL"}

\* The execution an undo takes back, and the physical patch it stands for.
UndoOf(p) == local.ledger[p.id]
Physical(p) == IF p.op = "UNDO"
                 THEN [op |-> "SET", at |-> {UndoOf(p).at}, value |-> UndoOf(p).before]
                 ELSE p

\* Only a slot patch can reduce the risk of a device in quarantine; a target
\* that is replaced is not looked up there at all.
Blocked(rt, p) ==
  /\ p.op # "REPLACE"
  /\ \E d \in p.at : /\ IsQuarantined(rt, d)
                     /\ ~(p.op = "SET" /\ IsSafetyReducing(rt, d, p.value))

\* For a mutant: an execution may be undone again.
UndoAgain(p) == /\ p.id \in DOMAIN local.ledger
                /\ Mounted(local.rt, UndoOf(p).at)
                /\ ~SlotProtected(local.rt, UndoOf(p).at)

\* The compensation of an undo must be one the patch contract accepts, of an
\* execution that is in the ledger and was not undone before.
UndoAllowed(p) == /\ p.id \in DOMAIN local.ledger
                  /\ p.id \notin local.undone
                  /\ Mounted(local.rt, UndoOf(p).at)
                  /\ ~SlotProtected(local.rt, UndoOf(p).at)

\* What the device is once the patch is applied to it.
Outcome(p, d) == IF p.op = "REMOVE" THEN Absent ELSE p.value
-----------------------------------------------------------------------------
(* A turn begins and ends *)

\* The session checks the quarantine of the whole turn first.
Begin(patches) == /\ pc = "idle"
                  /\ \A i \in DOMAIN patches :
                       patches[i].op \in {"SET", "ADD", "REMOVE", "REPLACE"}
                         => ~Blocked(session.rt, patches[i])
                  /\ turn' = patches
                  /\ local' = session
                  /\ pc' = "next"
                  /\ touched' = {}
                  /\ UNCHANGED <<session, world, commands, doubt, compensations>>

TurnOver == /\ turn' = <<>>
            /\ pc' = "idle"
            /\ touched' = {}

\* The turn returns: the session takes rt, with the executions recorded.
Returns(rt) == /\ TurnOver
               /\ session' = [local EXCEPT !.rt = rt]
               /\ local' = session'

\* The turn throws: the session takes nothing.
Throws == /\ TurnOver
          /\ UNCHANGED session
          /\ local' = session
          /\ doubt' = doubt \cup touched

\* The next patch, with this copy.
Continue(next) == /\ turn' = Tail(turn)
                  /\ pc' = "next"
                  /\ local' = next
                  /\ UNCHANGED <<session, touched>>

Finish == /\ pc = "next"
          /\ turn = <<>>
          /\ Returns(local.rt)
          /\ UNCHANGED <<world, commands, doubt, compensations>>

\* PROTECT is local: it throws for a target that is not there.
Protect ==
  /\ pc = "next"
  /\ turn # <<>>
  /\ Protects(Patch1)
  /\ LET path == IF Patch1.op = "PROTECT" THEN "slot" ELSE "*" IN
       IF \A d \in Patch1.at : Mounted(local.rt, d)
         THEN /\ Continue([local EXCEPT !.rt.protected =
                            @ \cup {<<d, path>> : d \in Patch1.at}])
              /\ UNCHANGED doubt
         ELSE Throws
  /\ UNCHANGED <<world, commands, compensations>>

\* A device in quarantine, or a driver that cannot execute a set, stops it; an
\* undo that is not allowed throws.
Stop ==
  /\ pc = "next"
  /\ turn # <<>>
  /\ ~Protects(Patch1)
  /\ IF Patch1.op = "UNDO" /\ ~UndoAllowed(Patch1)
       THEN Throws
       ELSE LET p == Physical(Patch1) IN
              /\ Blocked(local.rt, p) \/ Cardinality(p.at) > 1
              /\ Returns(local.rt)
              /\ UNCHANGED doubt
  /\ UNCHANGED <<world, commands, compensations>>

\* The driver is called.  A protected slot is not asked about.
Command ==
  /\ pc = "next"
  /\ turn # <<>>
  /\ ~Protects(Patch1)
  /\ Patch1.op = "UNDO" => UndoAllowed(Patch1)
  /\ ~Blocked(local.rt, Physical(Patch1))
  /\ commands + Cardinality(Physical(Patch1).at) <= MaxCommands
  /\ pc' = "driving"
  /\ touched' = touched \cup Physical(Patch1).at
  /\ UNCHANGED <<session, local, world, turn, commands, doubt, compensations>>
-----------------------------------------------------------------------------
(* The driver *)

P == Physical(Patch1)
Calling == pc \in {"driving", "moved"}

\* What the driver can have done to a device: a position that is not the one
\* asked for is possible for a window that is mounted and stays mounted.
Reached(d) == {world[d], Outcome(P, d)}
              \cup (IF d \in Window /\ world[d] \in Pct /\ P.op = "SET" THEN Pct ELSE {})

Effect == /\ pc = "driving"
          /\ \E to \in [P.at -> UNION {Reached(d) : d \in P.at}] :
               /\ \A d \in P.at : to[d] \in Reached(d)
               /\ world' = [d \in Device |-> IF d \in P.at THEN to[d] ELSE world[d]]
          /\ pc' = "moved"
          /\ UNCHANGED <<session, local, turn, commands, touched, doubt, compensations>>

\* The observations of the targets, one applyPatch() each.
Read(rt) == [rt EXCEPT !.slots = [d \in Device |->
               IF d \in P.at THEN Reconcile(rt, d, world[d]).slots[d] ELSE @[d]]]
ReadThrows(rt) == \E d \in P.at : ReconcileThrows(rt, d, world[d])

\* The ledger with an execution for each of these targets.
WithExecutions(ledger, targets) ==
  LET ids == commands + 1 .. commands + Cardinality(P.at)
      id == CHOOSE f \in [targets -> ids] : IsInjective(f)
      Of(i) == CHOOSE d \in targets : id[d] = i
  IN  [i \in DOMAIN ledger \cup Range(id) |->
         IF i \in DOMAIN ledger THEN ledger[i]
         ELSE [at |-> Of(i), before |-> local.rt.slots[Of(i)]]]

\* A command appends one execution per target; those of a slot that had a
\* value are the ones an undo can name.
Recorded(ledger) ==
  WithExecutions(ledger, {d \in P.at : P.op = "SET" /\ local.rt.slots[d] \in Pct})

Counted == commands' = commands + Cardinality(P.at)

\* For a mutant: an observation is written over a protected slot.
AppliedUnprotected ==
  /\ Calling
  /\ Patch1.op # "UNDO"
  /\ Counted
  /\ Continue([local EXCEPT !.rt = Read(@)])
  /\ UNCHANGED <<world, doubt, compensations>>

\* "applied" with an observation of every target.
Applied ==
  /\ Calling
  /\ \A d \in P.at : world[d] = Outcome(P, d)
  /\ Counted
  /\ compensations' = IF Patch1.op = "UNDO"
                        THEN [compensations EXCEPT ![Patch1.id] = @ + 1]
                        ELSE compensations
  /\ IF ReadThrows(local.rt)
       THEN Throws
       ELSE /\ Continue([local EXCEPT !.rt = Read(@),
                          !.ledger = Recorded(@),
                          !.undone = IF Patch1.op = "UNDO" THEN @ \cup {Patch1.id}
                                                           ELSE @])
            /\ UNCHANGED doubt
  /\ UNCHANGED world

\* Any other status of a single target, with an observation; "uncertain" and
\* "unsafe" quarantine it.  The turn goes on, an undo ends here.
NotApplied ==
  /\ Calling
  /\ Cardinality(P.at) = 1
  /\ Counted
  /\ IF ReadThrows(local.rt)
       THEN Throws
       ELSE /\ \E q \in {{}} \cup (IF P.op = "REPLACE" THEN {} ELSE {P.at}) :
                 LET rt == MarkQuarantined(Read(local.rt), q) IN
                   IF Patch1.op = "UNDO"
                     THEN Returns(rt)
                     ELSE Continue([local EXCEPT !.rt = rt])
            /\ UNCHANGED doubt
  /\ UNCHANGED <<world, compensations>>

\* The driver throws, answers for another target, or a set is answered with
\* different statuses: every target is quarantined and the turn stops.
Ambiguous == /\ Calling
             /\ Counted
             /\ Returns(MarkQuarantined(local.rt, P.at))
             /\ UNCHANGED <<world, doubt, compensations>>

\* The driver throws for a replacement: the patch has no target of its own, so
\* the turn stops and nothing is quarantined.
ReplaceLost == /\ Calling
               /\ P.op = "REPLACE"
               /\ Counted
               /\ Returns(local.rt)
               /\ doubt' = doubt \cup P.at
               /\ UNCHANGED <<world, compensations>>

\* A set that no target accepted is not committed, and the turn stops.
SetRejected == /\ pc = "driving"
               /\ Cardinality(P.at) > 1
               /\ Counted
               /\ Returns(local.rt)
               /\ UNCHANGED <<world, doubt, compensations>>

\* No observation: a single target throws, a set is not committed.
Unobserved == /\ Calling
              /\ Counted
              /\ IF Cardinality(P.at) = 1
                   THEN Throws
                   ELSE Returns(local.rt) /\ doubt' = doubt \cup P.at
              /\ UNCHANGED <<world, compensations>>

Turns == UNION {[1..n -> Patch] : n \in 1..MaxTurn}

TurnNext == \/ \E patches \in Turns : Begin(patches)
            \/ Finish \/ Protect \/ Stop \/ Command
            \/ Effect \/ Applied \/ NotApplied \/ Ambiguous \/ ReplaceLost
            \/ SetRejected \/ Unobserved

TurnSpec == TurnInit /\ [][TurnNext]_turnVars
-----------------------------------------------------------------------------
(* Properties *)

\* Between turns the session knows where every device is that is neither in
\* quarantine nor left unread by a command: also after a turn that stopped in
\* the middle, and after one that undid an earlier execution.
BeliefIsWorld ==
  pc = "idle" => \A d \in Device \ (session.rt.quarantined \cup doubt) :
                   session.rt.slots[d] = world[d]

\* An execution is compensated at most once, however turns fail and repeat,
\* unless a turn that threw has dropped the record of it.
UndoneOnce == \A i \in DOMAIN session.ledger :
                session.ledger[i].at \notin doubt => compensations[i] <= 1

\* A session that was stopped in the middle of a turn still knows its devices,
\* and knows what it has already taken back.
TurnHolds == TypeOK /\ BeliefIsWorld /\ UndoneOnce

\* What is protected as a whole keeps its believed slot for good.
ProtectionHolds ==
  [][\A d \in Device : <<d, "*">> \in session.rt.protected
       => session'.rt.slots[d] = session.rt.slots[d]]_turnVars

=============================================================================
