------------------------------- MODULE HomeGoal -------------------------------
(***************************************************************************)
(* scripts/home_goal_runtime.cjs: HomeGoalRuntime, one goal episode of the *)
(* home, worked on by autonomous runs and overruled by people.  Everything *)
(* happens in one JavaScript process; a run awaits its observer, its       *)
(* planner and the driver, and other calls run meanwhile.                  *)
(*                                                                         *)
(* The episode is kept in this.runtime.tasks.  A call that drives devices  *)
(* gives executePhysicalTurn a copy of the whole runtime, the episode      *)
(* included, and assigns the copy back when the driver has answered.       *)
(* A patch writes one slot; scores, strategies and feedback only decide    *)
(* when a run stops, which the model leaves open.                          *)
(***************************************************************************)
EXTENDS Naturals, FiniteSets

CONSTANTS Slot,           \* device slots, all mounted
          MaxValue,       \* slot values are 0..MaxValue
          Call,           \* calls of the runtime that may be under way
          MaxSteps,       \* max_steps of a run
          MaxActions,     \* max_actions of a run
          MaxEpisodes,    \* bound on the episodes begun
          Overlap         \* does other code run while the driver is awaited?

ASSUME GoalAssumption == /\ IsFiniteSet(Slot)
                         /\ MaxSteps \in Nat \ {0}
                         /\ {MaxValue, MaxActions, MaxEpisodes} \subseteq Nat
                         /\ Overlap \in BOOLEAN

VARIABLES runtime,        \* slots, status and ownership of the episode
          world,          \* where the slots really are
          pc,             \* what each call awaits
          op,             \* agent, user or cancel
          copy,           \* the runtime its turn works on
          held,           \* the ownership its episode reference shows
          todo,           \* patches of its turn that the driver has not seen
          asked,          \* slots of its turn
          steps,          \* steps taken by its run
          actions,        \* driver commands its run has counted
          spent,          \* those recorded since its step was observed, up to MaxActions
          sent,           \* driver commands of its run
          refused,        \* the last turn of a cancellation was not applied
          episode         \* how many goals were begun

goalVars == <<runtime, world, pc, op, copy, held, todo, asked, steps, actions, spent,
          sent, refused, episode>>
callVars == <<pc, op, copy, held, todo, asked, steps, actions, spent, sent>>

Value == 0..MaxValue
Slots == [Slot -> Value]
Ownership == [owned: SUBSET Slot, override: SUBSET Slot, baseline: Slots]
Status == {"none", "active", "completed", "cancelled", "handed_off"}
Runtime == [slots: Slots, status: Status, ownership: Ownership]
Patches == UNION {[d -> Value] : d \in SUBSET Slot}
NoPatches == [s \in {} |-> 0]

\* The episode object a call holds is still the one in this.runtime.
Live == "live"

TypeOK == /\ runtime \in Runtime
          /\ world \in Slots
          /\ pc \in [Call -> {"idle", "observing", "planning", "driving"}]
          /\ op \in [Call -> {"agent", "user", "cancel"}]
          /\ copy \in [Call -> Runtime]
          /\ \A c \in Call : held[c] = Live \/ held[c] \in Ownership
          /\ todo \in [Call -> Patches]
          /\ asked \in [Call -> SUBSET Slot]
          /\ steps \in [Call -> 0..MaxSteps]
          /\ actions \in [Call -> 0..MaxActions]
          /\ spent \in [Call -> 0..MaxActions]
          /\ sent \in [Call -> Nat]
          /\ refused \in BOOLEAN
          /\ episode \in 0..MaxEpisodes

Nothing == [owned |-> {}, override |-> {}, baseline |-> [s \in Slot |-> 0]]

NoRuntime == [slots |-> [s \in Slot |-> 0], status |-> "none",
              ownership |-> Nothing]

GoalInit ==
  /\ world \in Slots
  /\ runtime = [slots |-> world, status |-> "none", ownership |-> Nothing]
  /\ pc = [c \in Call |-> "idle"]
  /\ op = [c \in Call |-> "agent"]
  /\ copy = [c \in Call |-> NoRuntime]
  /\ held = [c \in Call |-> Live]
  /\ todo = [c \in Call |-> NoPatches]
  /\ asked = [c \in Call |-> {}]
  /\ steps = [c \in Call |-> 0]
  /\ actions = [c \in Call |-> 0]
  /\ spent = [c \in Call |-> 0]
  /\ sent = [c \in Call |-> 0]
  /\ refused = FALSE
  /\ episode = 0

Active == runtime.status = "active"

\* No driver is awaited, or other calls begin and go on while one is.
MayRun == Overlap \/ \A c \in Call : pc[c] # "driving"
-----------------------------------------------------------------------------
(* How calls end and turns start *)

\* Only the episode reference of a turn outlives the call.
Ends(c) == /\ pc' = [pc EXCEPT ![c] = "idle"]
           /\ op' = [op EXCEPT ![c] = "agent"]
           /\ copy' = [copy EXCEPT ![c] = NoRuntime]
           /\ todo' = [todo EXCEPT ![c] = NoPatches]
           /\ asked' = [asked EXCEPT ![c] = {}]
           /\ steps' = [steps EXCEPT ![c] = 0]
           /\ actions' = [actions EXCEPT ![c] = 0]
           /\ spent' = [spent EXCEPT ![c] = 0]
           /\ sent' = [sent EXCEPT ![c] = 0]

\* executePhysicalTurn copies this.runtime, as it is after the step.
Turn(c, o, patches) == /\ MayRun
                       /\ pc' = [pc EXCEPT ![c] = "driving"]
                       /\ op' = [op EXCEPT ![c] = o]
                       /\ copy' = [copy EXCEPT ![c] = runtime']
                       /\ todo' = [todo EXCEPT ![c] = patches]
                       /\ asked' = [asked EXCEPT ![c] = DOMAIN patches]
                       /\ UNCHANGED <<held, steps, actions, spent, sent>>

\* A step of a run is over, and only now are the commands recorded since it was
\* observed added to its count: the next step, a budget that is used up, or a
\* stop for the time it took, for no progress or for strategies that oscillate.
NextStep(c) ==
  \/ Ends(c)
  \/ /\ steps[c] + 1 < MaxSteps
     /\ actions[c] + spent[c] < MaxActions
     /\ pc' = [pc EXCEPT ![c] = "observing"]
     /\ copy' = [copy EXCEPT ![c] = NoRuntime]
     /\ asked' = [asked EXCEPT ![c] = {}]
     /\ steps' = [steps EXCEPT ![c] = @ + 1]
     /\ actions' = [actions EXCEPT ![c] = @ + spent[c]]
     /\ spent' = [spent EXCEPT ![c] = 0]
     /\ UNCHANGED <<op, todo, sent>>

\* Whoever replaces the episode object leaves the old one to the runs that
\* hold it.
Detach(but) == [d \in Call |->
                  IF d # but /\ pc[d] = "driving" /\ op[d] = "agent" /\ held[d] = Live
                    THEN runtime.ownership
                    ELSE IF d = but THEN Live ELSE held[d]]

\* captureOwnership: the first write of the agent fixes the baseline of a slot,
\* a later one takes back what a user overrode.
Captured(own, slots) ==
  [owned |-> own.owned \cup slots,
   override |-> own.override \ slots,
   baseline |-> [s \in Slot |-> IF s \in slots \ own.owned THEN runtime.slots[s]
                               ELSE own.baseline[s]]]
-----------------------------------------------------------------------------
(* People *)

BeginGoal == /\ ~Active
             /\ MayRun
             /\ episode < MaxEpisodes
             /\ episode' = episode + 1
             /\ runtime' = [runtime EXCEPT !.status = "active", !.ownership = Nothing]
             /\ held' = [d \in Call |-> IF pc[d] = "driving" /\ op[d] = "agent"
                                             /\ held[d] = Live
                                        THEN runtime.ownership ELSE held[d]]
             /\ refused' = FALSE
             /\ UNCHANGED <<world, pc, op, copy, todo, asked, steps, actions, spent, sent>>

\* handleHumanIntervention of a TAKEOVER.
Takeover == /\ Active
            /\ MayRun
            /\ runtime' = [runtime EXCEPT !.status = "handed_off",
                             !.ownership.override = runtime.ownership.owned]
            /\ UNCHANGED <<world, callVars, refused, episode>>

\* applyUserPatches
UserPatch(c, patches) == /\ pc[c] = "idle"
                         /\ Active
                         /\ UNCHANGED runtime
                         /\ Turn(c, "user", patches)
                         /\ UNCHANGED <<world, refused, episode>>

\* What a cancellation takes back.
Compensation == {s \in runtime.ownership.owned \ runtime.ownership.override :
                   runtime.slots[s] # runtime.ownership.baseline[s]}

\* cancelGoal
Cancel(c) ==
  /\ pc[c] = "idle"
  /\ Active
  /\ refused' = FALSE
  /\ IF Compensation = {}
       THEN /\ MayRun
            /\ runtime' = [runtime EXCEPT !.status = "cancelled"]
            /\ UNCHANGED callVars
       ELSE /\ UNCHANGED runtime
            /\ Turn(c, "cancel",
                    [s \in Compensation |-> runtime.ownership.baseline[s]])
  /\ UNCHANGED <<world, episode>>
-----------------------------------------------------------------------------
(* A run *)

Run(c) == /\ pc[c] = "idle"
          /\ Active
          /\ MaxActions > 0
          /\ pc' = [pc EXCEPT ![c] = "observing"]
          /\ UNCHANGED <<runtime, world, op, copy, held, todo, asked, steps, actions,
                         spent, sent, refused, episode>>

\* For a mutant: the observation completes whatever became of the episode.
ObserveInactive(c) ==
  /\ pc[c] = "observing"
  /\ runtime' = [runtime EXCEPT !.status = "completed"]
  /\ Ends(c)
  /\ UNCHANGED <<world, held, refused, episode>>

\* The observer answers: the episode is not active any more (throws), evidence
\* is missing (stop), the goal is reached, or the planner is asked.
Observe(c) ==
  /\ pc[c] = "observing"
  /\ MayRun
  /\ \/ Ends(c) /\ UNCHANGED runtime
     \/ /\ Active
        /\ runtime' = [runtime EXCEPT !.status = "completed"]
        /\ Ends(c)
     \/ /\ Active
        /\ pc' = [pc EXCEPT ![c] = "planning"]
        /\ UNCHANGED <<runtime, op, copy, todo, asked, steps, actions, spent, sent>>
  /\ UNCHANGED <<world, held, refused, episode>>

AgentTurn(c, patches) ==
  /\ runtime' = [runtime EXCEPT !.ownership = Captured(@, DOMAIN patches)]
  /\ Turn(c, "agent", patches)

\* The planner answers: too many patches for what was left of the budget when
\* the step began (stop), an episode that is not active any more (throws),
\* nothing to do, or a turn.
PlannerAnswers(c, patches) ==
  /\ pc[c] = "planning"
  /\ MayRun
  /\ \/ /\ Ends(c)
        /\ UNCHANGED <<runtime, held>>
     \/ /\ Active
        /\ patches = NoPatches
        /\ NextStep(c)
        /\ UNCHANGED <<runtime, held>>
     \/ /\ Active
        /\ patches # NoPatches
        /\ Cardinality(DOMAIN patches) <= MaxActions - actions[c]
        /\ AgentTurn(c, patches)
  /\ UNCHANGED <<world, refused, episode>>
-----------------------------------------------------------------------------
(* The driver *)

\* A command reaches the driver, which records it: every run between its
\* observation and the end of its step will count it.
Recorded(c) ==
  /\ spent' = [d \in Call |->
                 IF op[d] = "agent" /\ pc[d] \in {"planning", "driving"}
                    /\ spent[d] < MaxActions
                   THEN spent[d] + 1 ELSE spent[d]]
  /\ sent' = [sent EXCEPT ![c] = IF op[c] = "agent" THEN @ + 1 ELSE @]

Moves(c, s) == \E v \in {todo[c][s], world[s]} : world' = [world EXCEPT ![s] = v]

\* A patch is answered, applied or not, and its observation is written down.
Drive(c, s) ==
  /\ pc[c] = "driving"
  /\ s \in DOMAIN todo[c]
  /\ Moves(c, s)
  /\ copy' = [copy EXCEPT ![c].slots[s] = world'[s]]
  /\ todo' = [todo EXCEPT ![c] = [t \in DOMAIN @ \ {s} |-> @[t]]]
  /\ refused' = (refused \/ (op[c] = "cancel" /\ world'[s] # todo[c][s]))
  /\ Recorded(c)
  /\ UNCHANGED <<runtime, pc, op, held, asked, steps, actions, episode>>

\* The driver throws before it recorded the command, or answers for another
\* target after: the turn ends there, nothing is known of the slot.
DriverFails(c, s) ==
  /\ pc[c] = "driving"
  /\ s \in DOMAIN todo[c]
  /\ Moves(c, s)
  /\ todo' = [todo EXCEPT ![c] = NoPatches]
  /\ refused' = (refused \/ op[c] = "cancel")
  /\ Recorded(c) \/ UNCHANGED <<spent, sent>>
  /\ UNCHANGED <<runtime, pc, op, copy, held, asked, steps, actions, episode>>

\* An answer without an observation makes the call throw.
Unobserved(c, s) ==
  /\ pc[c] = "driving"
  /\ s \in DOMAIN todo[c]
  /\ Moves(c, s)
  /\ Ends(c)
  /\ held' = [held EXCEPT ![c] = Live]
  /\ UNCHANGED <<runtime, refused, episode>>

\* this.runtime = applied.runtime, whose episode the call then completes.
Resume(c) ==
  /\ pc[c] = "driving"
  /\ todo[c] = NoPatches
  /\ \/ /\ op[c] = "agent"
        /\ runtime' = [copy[c] EXCEPT !.ownership = IF held[c] = Live
                                      THEN runtime.ownership ELSE held[c]]
        /\ NextStep(c)
     \/ /\ op[c] = "user"
        /\ runtime' = [copy[c] EXCEPT !.ownership.override =
                         @ \cup (asked[c] \cap copy[c].ownership.owned)]
        /\ Ends(c)
     \/ /\ op[c] = "cancel"
        /\ runtime' = [copy[c] EXCEPT !.status = "cancelled"]
        /\ Ends(c)
  /\ held' = Detach(c)
  /\ UNCHANGED <<world, refused, episode>>

GoalNext ==
  \/ BeginGoal
  \/ Takeover
  \/ \E c \in Call :
       \/ Run(c) \/ Cancel(c) \/ Observe(c) \/ Resume(c)
       \/ \E patches \in Patches :
            \/ patches # NoPatches /\ UserPatch(c, patches)
            \/ PlannerAnswers(c, patches)
       \/ \E s \in Slot : Drive(c, s) \/ DriverFails(c, s) \/ Unobserved(c, s)

GoalSpec == GoalInit /\ [][GoalNext]_goalVars

-----------------------------------------------------------------------------
(* Properties *)

\* An episode that was completed, cancelled or handed over to a person stays
\* so: no call that was under way brings it back to life.
StopIsFinal ==
  [][runtime.status \in {"completed", "cancelled", "handed_off"}
       => runtime'.status = runtime.status \/ episode' # episode]_goalVars

\* No command of the agent is under way in an episode people have stopped,
\* although a run awaits its observer and its planner in between.
NoCommandWhenStopped ==
  \A c \in Call : pc[c] = "driving" /\ op[c] = "agent" => Active

\* A run sends no more commands that the driver records than its budget allows,
\* over all its steps.
BudgetKept == \A c \in Call : sent[c] <= MaxActions

\* When the driver applied every compensation, a cancelled goal leaves each slot
\* the agent held, and no person overrode, at the value from before the agent.
CancelRestores ==
  runtime.status = "cancelled" /\ ~refused =>
    \A s \in runtime.ownership.owned \ runtime.ownership.override :
      runtime.slots[s] = runtime.ownership.baseline[s]

\* People have the last word: a stopped episode gets no command, stays stopped
\* and is put back as it was, and a running one stays within its budget.
GoalHolds == /\ [](TypeOK /\ NoCommandWhenStopped /\ BudgetKept /\ CancelRestores)
             /\ StopIsFinal
===============================================================================
