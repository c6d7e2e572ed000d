---------------------------- MODULE ExecutionGate ----------------------------
(***************************************************************************)
(* How a proposal of a reasoning model becomes commands for windows:       *)
(* scripts/execution_reasoning_backend.py and reasoning_backend.py check   *)
(* what the model returns, spatialruntime_window_authorizer.py decides on  *)
(* the patches in a process of its own, and spatialruntime_authorizer.cjs  *)
(* checks its receipt and lets it be used once.                            *)
(*                                                                         *)
(* The model and the caller are the environment: requests, proposals and   *)
(* patches may be anything of a set of well and ill formed ones.  Between  *)
(* the steps people move windows and the weather turns.  RuntimeSession is *)
(* external: what it decides about a window is bounded by how the code     *)
(* uses it.  Openings are in steps of a quarter.                           *)
(***************************************************************************)
EXTENDS Integers, Sequences, FiniteSets

CONSTANTS
  Windows,     \* the windows of the runtime
  Requests,    \* execution requests, see ValidateExecutionRequest
  Proposals,   \* what a model may return, see ValidateProposal
  Streamed,    \* patches of the streaming session, which come unchecked
  Contexts,    \* spatial contexts: [keys, rain, scene, criteria]
  MaxDelta,    \* max_open_ratio_delta
  MaxMoves,    \* bound: windows moved by hand
  MaxUsed      \* bound: authorizations used

None == "none"
Nil  == [nil |-> TRUE]     \* where a record is expected
Full == 4

VARIABLES
  opening,   \* window |-> 0 .. Full
  named,     \* windows whose device has a model id
  request,   \* the execution request at work, or Nil
  patches,   \* patches on their way to the authorizer
  asked,     \* the authorization request, or Nil
  receipt,   \* the authorizer's answer, or Nil
  used,      \* authorization ids consumed
  moves,     \* counts up to MaxMoves
  done       \* ghost: the latest execution and what it came from

vars == <<opening, named, request, patches, asked, receipt, used, moves, done>>

-----------------------------------------------------------------------------
(* The contract of requests and proposals.  An action is a record [op,     *)
(* targets, slot, value, leak]: its targets in order (two for a            *)
(* replacement), and whether it carries a semantic key somewhere.  "bad"   *)
(* is a target that is not a logical one.                                  *)

Ops == {"PATCH_SLOT", "PATCH_RELATIVE", "CLOSE_DEVICE", "ADD_DEVICE", "REMOVE_DEVICE",
        "REPLACE_TARGET"}

Elements(s) == {s[i] : i \in DOMAIN s}

\* Lists of actions, well formed or not, that have these five fields.
IsAction(a) ==
  a = [op |-> a.op, targets |-> a.targets, slot |-> a.slot, value |-> a.value, leak |-> a.leak]
IsList(s) == s \in Seq(Elements(s)) /\ \A a \in Elements(s) : IsAction(a)

ASSUME GateAssumption ==
  /\ MaxDelta \in Nat
  /\ \A r \in Requests : IsList(r.candidates)
  /\ \A p \in Proposals : IsList(p.actions)
  /\ \A list \in Streamed : IsList(list)

Distinct(s) == Cardinality(Elements(s)) = Len(s)

\* validate_candidate_action()
ValidateCandidateAction(a) ==
  a.op \in Ops /\ ~a.leak /\ "bad" \notin Elements(a.targets)

\* action_identity(): what an action is about, without its value.
ActionIdentity(a) == [op |-> a.op, targets |-> a.targets, slot |-> a.slot]

\* validate_context_state() and validate_execution_request()
ValidateExecutionRequest(r) ==
  /\ r.context \in {"contextual-state.v1", "legacy"}
  /\ ~r.leak /\ r.task # None
  /\ "bad" \notin r.resolved
  /\ \A a \in Elements(r.candidates) :
       ValidateCandidateAction(a) /\ Elements(a.targets) \subseteq r.resolved
  /\ Distinct(r.candidates)

\* validate_proposal_shape(): score 0 .. 100.
ValidateShape(p) ==
  /\ p.decision \in {"PROPOSE", "DEFER", "BLOCK"}
  /\ p.task # None
  /\ \A a \in Elements(p.actions) : ValidateCandidateAction(a)
  /\ p.score \in 0 .. 100
  /\ p.decision = "PROPOSE" <=> p.actions # <<>>

\* mutant: actions are not looked up among the candidates.
ValidateAnyAction(p, r) ==
  ValidateShape(p) /\ p.task = r.task
  /\ Distinct([i \in DOMAIN p.actions |-> ActionIdentity(p.actions[i])])

\* validate_execution_proposal(): for this task, candidates only, each about
\* something of its own.
ValidateProposal(p, r) ==
  /\ ValidateShape(p)
  /\ p.task = r.task
  /\ Elements(p.actions) \subseteq Elements(r.candidates)
  /\ Distinct([i \in DOMAIN p.actions |-> ActionIdentity(p.actions[i])])

\* advisory_safe_for_authorization()
AdvisorySafe(p, r) ==
  ValidateProposal(p, r) /\ p.decision = "PROPOSE" /\ p.score <= 35

\* RuleExecutionBackend.propose(): the first candidate, when there is one.
RuleProposal(r) ==
  LET first == IF r.candidates = <<>> THEN <<>> ELSE <<Head(r.candidates)>> IN
  [task |-> r.task, decision |-> IF first = <<>> THEN "DEFER" ELSE "PROPOSE",
   actions |-> first, score |-> IF first = <<>> THEN 100 ELSE 0]

-----------------------------------------------------------------------------
(* The authorizer.                                                         *)

\* mutant: a text that is not "wet" is dry.
RainOnlyWet(text) == IF text = "wet" THEN "wet" ELSE "dry"

\* normalize_rain(): a few words mean rain, and every other one means none.
NormalizeRain(text) ==
  IF text \in {"wet", "rain", "raining", "true", "1", "yes", "TRUE"} THEN "wet" ELSE "dry"

\* The scene's own list of exterior windows is that of the context, and its
\* digest that of its contents.
SceneAccepted(c) == c.scene \in {None, "of these windows"}

\* The checks of one patch: a window of the runtime, its opening, in range.
WindowPatch(a, runtime) ==
  /\ a.op = "PATCH_SLOT" /\ a.slot = "opening"
  /\ a.targets[1] \in DOMAIN runtime
  /\ a.value \in 0 .. Full

\* registry_digest(): every device of the runtime has a model id.
RegistryAccepted(ask) == DOMAIN ask.runtime \subseteq ask.named

\* One criterion for each patch, with the digest of its contents, or none.
CriteriaAccepted(c) == c.criteria \in {"none", "one for each patch"}

\* RuntimeSession.execute(), external: a change of at most MaxDelta towards
\* what is asked; an exterior window in the rain is closed, at once or step
\* by step, instead; or the window is held.
SessionOutcomes(current, wanted, forced) ==
  LET step(to) == IF to > current + MaxDelta THEN current + MaxDelta
                  ELSE IF to < current - MaxDelta THEN current - MaxDelta ELSE to
      commit(v) == [decision |-> "commit", value |-> v]
  IN {[decision |-> "hold", value |-> current]} \cup
     (IF forced THEN {commit(0), commit(step(0))} ELSE {commit(step(wanted))})

\* allow: the session completed, nothing is blocked, and there are as many
\* windows as patches.
Allow(decided, list, ready) ==
  /\ ready
  /\ \A w \in DOMAIN decided : decided[w].decision = "commit"
  /\ Cardinality(DOMAIN decided) = Len(list)

\* The last patch of a window stands for it.
LastFor(list, w) ==
  list[CHOOSE i \in DOMAIN list :
         list[i].targets[1] = w /\ \A j \in DOMAIN list : list[j].targets[1] = w => j <= i]

Refused == [allow |-> FALSE, patches |-> <<>>, id |-> <<>>]

Targets(list) == {a.targets[1] : a \in Elements(list)}

\* The checks of authorize() before the session decides.
Accepted(ask) ==
  /\ RegistryAccepted(ask) /\ ask.patches # <<>>
  /\ CriteriaAccepted(ask.context) /\ SceneAccepted(ask.context)
  /\ \A a \in Elements(ask.patches) : WindowPatch(a, ask.runtime)

\* What the session may make of the patches of a window.
Outcomes(ask, w) ==
  SessionOutcomes(ask.runtime[w], LastFor(ask.patches, w).value,
                  NormalizeRain(ask.context.rain) = "wet" /\ w \in ask.context.keys)
Decisions(ask) ==
  {f \in [Targets(ask.patches) -> UNION {Outcomes(ask, w) : w \in Targets(ask.patches)}] :
     \A w \in Targets(ask.patches) : f[w] \in Outcomes(ask, w)}

\* The patches with the values that were decided.
Authorized(list, decided) ==
  [i \in DOMAIN list |-> [list[i] EXCEPT !.value = decided[list[i].targets[1]].value]]

\* authorize(): the receipts that the process can print for a request.
Authorize(ask) ==
  {Refused} \cup
  {LET out == Authorized(ask.patches, f)
   IN  [allow |-> TRUE, patches |-> out, id |-> <<ask.task, ask.runtime, out, ask.context>>] :
     f \in {g \in (IF Accepted(ask) THEN Decisions(ask) ELSE {}) : Allow(g, ask.patches, TRUE)}}

-----------------------------------------------------------------------------
Init ==
  /\ opening \in [Windows -> {0, 2}]
  /\ named \in {Windows, Windows \ {CHOOSE w \in Windows : TRUE}}
  /\ request = Nil /\ patches = <<>> /\ asked = Nil /\ receipt = Nil
  /\ used = {} /\ moves = 0 /\ done = Nil

home == <<opening, named, moves>>

\* A task comes from upstream and its request is checked.
Ask(r) ==
  /\ Cardinality(used) < MaxUsed
  /\ request = Nil /\ patches = <<>>
  /\ ValidateExecutionRequest(r)
  /\ request' = r
  /\ UNCHANGED <<home, patches, asked, receipt, used, done>>

\* What comes back is not acceptable, or nothing comes back: no action.
Abandon ==
  /\ request # Nil /\ patches = <<>>
  /\ request' = Nil
  /\ UNCHANGED <<home, patches, asked, receipt, used, done>>

\* propose() of the model's backend or of the rule baseline, and the advice.
Propose(p) ==
  /\ request # Nil /\ patches = <<>>
  /\ AdvisorySafe(p, request)
  /\ patches' = p.actions
  /\ UNCHANGED <<home, request, asked, receipt, used, done>>

\* The streaming session's patches have not been through that contract.
Stream(list) ==
  /\ Cardinality(used) < MaxUsed
  /\ request = Nil /\ patches = <<>>
  /\ patches' = list
  /\ UNCHANGED <<home, request, asked, receipt, used, done>>

\* The runtime, the registry and the context as they are now go to a process.
Send(c) ==
  /\ patches # <<>> /\ asked = Nil
  /\ c.scene # None => Targets(patches) \subseteq c.keys
  /\ asked' = [task |-> IF request = Nil THEN "streamed" ELSE request.task,
               runtime |-> opening, named |-> named, patches |-> patches, context |-> c]
  /\ UNCHANGED <<home, request, patches, receipt, used, done>>

\* main(): the process prints its receipt.
Decide ==
  /\ asked # Nil /\ receipt = Nil
  /\ receipt' \in Authorize(asked)
  /\ UNCHANGED <<home, request, patches, asked, used, done>>

Idle ==
  /\ request' = Nil /\ patches' = <<>> /\ asked' = Nil /\ receipt' = Nil

\* The process is killed after its time, has refused, or its receipt is one
\* that was used.
Drop ==
  /\ asked # Nil
  /\ receipt # Nil => ~receipt.allow \/ receipt.id \in used
  /\ Idle
  /\ UNCHANGED <<home, used, done>>

\* The receipt matches the request: its id is consumed and the windows move.
Execute ==
  /\ receipt # Nil
  /\ receipt.allow /\ receipt.id \notin used
  /\ Len(receipt.patches) = Len(patches)
  /\ \A i \in DOMAIN patches : ActionIdentity(receipt.patches[i]) = ActionIdentity(patches[i])
  /\ used' = used \cup {receipt.id}
  /\ opening' = [w \in Windows |->
                   IF \E a \in Elements(receipt.patches) : a.targets[1] = w
                   THEN LastFor(receipt.patches, w).value ELSE opening[w]]
  /\ done' = [request |-> request, asked |-> asked, patches |-> receipt.patches]
  /\ Idle
  /\ UNCHANGED <<named, moves>>

\* Somebody moves a window.
Hand(w) ==
  /\ moves < MaxMoves /\ moves' = moves + 1
  /\ opening' = [opening EXCEPT ![w] = IF @ = 0 THEN 3 ELSE 0]
  /\ UNCHANGED <<named, request, patches, asked, receipt, used, done>>

Next ==
  \/ \E r \in Requests : Ask(r)
  \/ Abandon
  \/ \E p \in Proposals : Propose(p)
  \/ request # Nil /\ Propose(RuleProposal(request))
  \/ \E list \in Streamed : Stream(list)
  \/ \E c \in Contexts : Send(c)
  \/ Decide \/ Drop \/ Execute
  \/ \E w \in Windows : Hand(w)

Spec == Init /\ [][Next]_vars

-----------------------------------------------------------------------------
(* Properties.                                                             *)

\* Whatever a model returns: what is done for a task was offered as it was
\* asked, on targets resolved upstream, and only the value may be another.
OfferedOnly ==
  done # Nil /\ done.request # Nil =>
    \A i \in DOMAIN done.patches :
      /\ done.asked.patches[i] \in Elements(done.request.candidates)
      /\ ActionIdentity(done.patches[i]) = ActionIdentity(done.asked.patches[i])
      /\ Elements(done.patches[i].targets) \subseteq done.request.resolved

\* Two patches of one execution never go to the same window, not even when
\* they come from the stream and no contract has compared them.
OneCommandEach ==
  done # Nil =>
    \A i, j \in DOMAIN done.patches :
      done.patches[i].targets[1] = done.patches[j].targets[1] => i = j

\* Models and streams propose, the contract disposes: each window gets at most
\* one command, and one that was offered for it.
CommandsComeFromTheOffer == OfferedOnly /\ OneCommandEach

\* In the rain no reviewed exterior window is opened further, in whatever of
\* the words for rain a sensor reports it.
RainOpensNothing ==
  done # Nil /\ done.asked.context.rain \in {"wet", "raining", "TRUE"} =>
    \A a \in Elements(done.patches) :
      a.targets[1] \in done.asked.context.keys => a.value <= done.asked.runtime[a.targets[1]]
=============================================================================
