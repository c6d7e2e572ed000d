# FlyThink: TLA+ models, model checking and proofs

FlyThink turns an utterance into patches of a home's believed state, lets an
authorizer allow them, and drives physical devices (windows, lamps) with them.
Around that path it listens to a recognizer, lets reasoning models propose, records
trajectories, learns from them and judges what it learned. What can go wrong is rarely
in one function. It is in what happens *between* two steps: while a driver is awaited,
after a driver call threw, when two processes share a file, when a network, a caller or
the weather is not what the previous step assumed. This directory models those parts of
`src/scripts/`, checks them with TLC on small instances, and proves with TLAPS what
matters most for every number of processes, calls, ids, policies and turns.

`PROJECT.json` holds the index: components, runs, the source lines of every
definition, hazards, findings, theorems.

## 1. The system

| component (`scripts/`) | state | operations | talks to | what is hard | correct means |
|---|---|---|---|---|---|
| Authorization ledger (`authorization_ledger.cjs`) | marker files, JSON snapshot, cached state | `add`, `has` | file system shared by processes; called by the execution runtime and the planner commit | races of processes, kills, power loss, errors of any call | an id is granted once, and for good |
| Governed execution runtime (`flythink_execution_runtime.cjs`) | `this.runtime` | `execute`, `executeDecisionProposal`, `recover` | reasoner, authorizer, ledger, driver; all awaited | calls overlap and each assigns its own copy of the runtime | one driver call per id; a doubtful device stays in quarantine until verified |
| Physical executor, undo, turns (`physical_runtime.cjs`, `physical_transaction_router.cjs`, `physical_driver_capabilities.cjs`) | believed slots, quarantine, execution ledger | one patch, undo, a turn of patches, reconciliation | driver, patch contract | a turn fails in the middle; the driver acts and does not answer | belief follows observation; one compensation per execution |
| Atomic set (`atomic_physical_set.cjs`) | none of its own | `executeAtomicPhysicalSet` | driver | some targets move, some do not | all applied, or not committed and, in doubt, quarantined |
| Recovery (`recovery_transaction.cjs`) | none of its own | `runRecoveryTransaction` | driver, readings | stale readings, failure in each step | trust is restored only for a window verified shut |
| Whole-home patch contract (`whole_home_patch_contract.cjs`) | slots, devices, protected paths | `applyPatch`, `applyTurn` | every executor | throws for protected or missing targets | protection is enforced |
| Home goal runtime (`home_goal_runtime.cjs`) | goal episode, ownership, budgets | begin, autonomous run, agent and user patches, takeover, cancel | observer, planner, driver; all awaited | people overrule a run that is awaiting | what people stopped stays stopped; a cancellation restores |
| Evidence journal, decision receipts, anchors (`pi_home_evidence_journal.cjs`, `pi_home_decision_receipt_ledger.cjs`, `pi_home_journal_anchor_store.cjs`) | two JSONL files, lock files, cached records | append, append a receipt, seal, publish, verify | file system shared by processes | cached records, partial writes, stale locks, lost tails | records chain; seals and anchors stay true |
| Streaming session, commit gates (`streaming_slu_e2e.cjs`, `commit_gate.cjs`) | hypothesis per utterance, session runtime | partial, final, commit | ASR, gate, physical turns | reordered and revised hypotheses | one commit per utterance |
| Live acoustic run (`live_acoustic_windowpilot.py`, `sherpa_streaming_asr.py`, `asr_event_protocol.py`, `acoustic_fixture_manifest.py`, `run_acoustic_windowpilot_e2e.cjs`) | three processes, a pipe, a frozen recording | start, decode, accept events, probe, close out, kill | recognizer, node process, home runtime | any of them dies or is interrupted | one final per utterance, one probe for it, no process left |
| Semantic turn (`checkpoint_runtime.py`, `context_*_resolver.py`, `context_patch_composer.py`, `lexical_operation_evidence.py`, `authorized_patch_planner.py`, ...) | focus, registry, mounted devices | judge, override, resolve, materialize, plan | networks, registry, planner commit | networks that disagree with the wording, a registry that changes | what was said is what is patched |
| Proof-derived undo (`proof_derived_undo.cjs`) | none | plan and run an undo | proof bundles, turns | - | undoes what was proved to be done |
| Authorized planner commit (`atomic_authorized_commit.cjs`) | none | check a plan, `add` | ledger | the plan is older than the home | all of it once, or nothing |
| Execution reasoning and authorizer (`execution_reasoning_backend.py`, `reasoning_backend.py`, `spatialruntime_window_authorizer.py`, `spatialruntime_authorizer.cjs`) | a request, a proposal, a receipt, consumed ids | propose, validate, ask, decide, check the receipt, use it | reasoning model, `RuntimeSession`, execution runtime | ill-formed and belated proposals, windows and weather that change | a command per window, one that was offered, none against the rain |
| WindowPilot driver (`windowpilot_http_driver.cjs`) | last tick | ready, actuate, poll, safety stop | HTTP device | late acknowledgement against timeout | reports what the window did |
| Receipts, proof bundles (`execution_receipt.cjs`, `execution_proof_bundle.cjs`, ...) | none | build, verify | - | pure data | hashes match |
| Policy registry, canary, rollback (`pi_home_policy_*.cjs`, ...) | policies with their status, history of changes | register, promote, plan a canary, evaluate it, roll back | evidence journal | late and repeated evaluations; an append that throws after the registry changed | every change has its evidence; a rollback undoes the latest promotion |
| Provider trust (`pi_home_provider_trust*.cjs`, ...) | chain of trust snapshots | observe, recalibrate | receipts | forks of the chain | each snapshot continues the last |
| Adjudication (`pi_home_evidence_adjudicator.cjs`, ...) | none | adjudicate, build a receipt | receipt ledger | pure data | - |
| Trajectory store and telemetry (`trajectory_store.py`, `telemetry_cli.py`, `phoenix_trajectory.py`, `infer_flywire_delta.py`, `index.html`) | SQLite, upload queues, saved sessions, Phoenix | record a turn, feedback, finish, import, replay, export | browser tabs, collector, drain thread, command line | lost answers, two tabs, processes that die, overlapping replays | no gap, no fork; closed is closed; exported is exported |
| Long-trajectory benchmark (`generate_*_v3.py`, `validate_*_v3.py`, `benchmark_v3_training_adapter.py`) | a trajectory, its oracle, its rows | a turn, validate, teach | training | what is taught depends on the whole history | a taught patch is the oracle's change |
| Hidden benchmark (`validate_hidden_benchmark_pack.py`, `score_hidden_benchmark.py`) | four files, a receipt | write, commit, predict, score | parties that do not trust each other | files written again between programs | a commitment fixes the score |
| Decision gate (`benchmark_flywire_decision_gate.py`, `kernel_conformance.py`) | a best epoch, a threshold | fit, select, calibrate, freeze, apply | kernels | ties, empty sets, unreachable precision | what is committed harms no more than promised |
| Candidate evidence (`train_/eval_/compare_pi_home_candidate_checkpoint.py`, `run_pi_home_learned_real_contam.py`) | checkpoint, reports, evidence | train, evaluate, compare, confront | physics engine | four programs, files edited in between | evidence claims what was asked of the engine |
| Dialogue deltas and intent commit (`dialogue_*_corpus.py`, `evaluate_flywire_delta_suite.py`, `infer_flywire_delta.py`, `accuracy_gate.py`, `intent_state_commit.py`) | dialogue state, persistent tree | draw, label, roll out, gate, commit | delta and state networks | errors that compound over turns | nothing nobody took back is lost; a verdict is earned |
| Reasoner benchmark, NOA probe (`evaluate_reasoning_backends.py`, `noa_consumer_semantics_probe.py`) | rows, a summary | ask, score; project, mutate, judge | endpoint; signed receipts | malformed answers, missing members | nothing passes that was not asked or claimed |
| Networks, other training scripts, corpora; the rest of the browser demo | files | batch | - | - | - |

How they meet: the live acoustic run feeds finals to the node process, whose probe is
one turn of the home runtime; the streaming session commits a hypothesis as a *turn* of patches
(`PhysicalTurn`); the home goal runtime starts turns of its own (`HomeGoal`); the
governed runtime sends a proposal through authorizer and ledger to the same
executors (`ExecutionRuntime`). All three keep one runtime object and *copy* it
over an await: the source of most hazards. Ledger and journal are files that
several processes share.

## 2. Modules

| module | models | depends on |
|---|---|---|
| `SingleUse` | abstract: what a ledger promises (taken ids, uses) | |
| `AuthorizationLedger` | every file-system call of `add()` and `has()` | implements `SingleUse` |
| `AuthorizationLedgerProofs` | theorems about it | `AuthorizationLedger`, TLAPS |
| `PhysicalRuntime` | operators on the believed runtime: quarantine, safety-reducing patches, protection, reconciliation | |
| `ExecutionRuntime` | overlapping calls of the governed runtime, the executors and the recovery they run | `PhysicalRuntime`; uses the ledger as `SingleUse`'s atomic claim |
| `RuntimeProofs` | theorems about the runtime and about the live run | `ExecutionRuntime`, `LiveAcoustic`, TLAPS |
| `ReceiptJournal` | journal, receipt ledger and anchors of several processes | |
| `ReceiptJournalProofs` | theorems about it | `ReceiptJournal`, TLAPS |
| `HomeGoal` | one goal episode with its overlapping calls | |
| `PhysicalTurn` | a session's turns of patches: sets, undo, protection, devices that come and go | `PhysicalRuntime` |
| `PolicyLifecycle` | the policy registry, its canaries and the journal of their decisions | |
| `PolicyLifecycleProofs` | theorems about it | `PolicyLifecycle`, TLAPS |
| `ExecutionGate` | from an execution request over proposal, authorization and receipt to the execution that consumes it | |
| `DeviceProofs` | theorems about the gate and about the turns | `ExecutionGate`, `PhysicalTurn`, TLAPS |
| `SemanticTurn` | utterance to patch, plan to commit, in a home that changes | |
| `HomeProofs` | theorems about the semantic turn and the home's goal | `SemanticTurn`, `HomeGoal`, TLAPS |
| `LiveAcoustic` | wrapper, recognizer and node process of one live run | |
| `TrajectoryStore` | the SQLite store, one action per transaction | |
| `Telemetry` | everybody who calls the store, and the export to Phoenix | `TrajectoryStore` |
| `TelemetryProofs` | theorems about the store's transactions and about everybody who uses them | `Telemetry`, TLAPS |
| `LongTrajectory`, `HiddenPack`, `DecisionGate`, `CandidateEvidence` | the offline studies of the table above | the gate: `DialogueState` |
| `DialogueState` | dialogue states and deltas, as operators | |
| `DialogueCorpus`, `DialogueRollout`, `IntentCommit`, `ReasonerBenchmark`, `NoaProjection` | studies of what becomes of a proposal | the first three: `DialogueState` |
| `ProposalStudies`, `Evaluation` | compose them: a behaviour is one of one study | all of the above |
| `EvaluationProofs` | theorems about every study | `Evaluation`, TLAPS |
| `MC*` | model values and small sets for TLC | their module |

Three proof modules hold the theorems of two components each. These share no variable, and no proof
uses facts of both; that is why `HomeGoal`, `PhysicalTurn` and `LiveAcoustic` call their specifications
`GoalSpec`, `TurnSpec` and `RunSpec`.

### Correspondence to the code

**AuthorizationLedger.** `marker` is the set of reservation files, `snapshot` the
JSON file, `cache` the `this.state` a call works with, `pc` the position in the
call. `Link` is `linkSync` (atomic, fails on an existing name), `FsyncDir` the sync
of the reservation directory, `Persist` the rename of the snapshot. `Throw` ends a
call at any file-system call, `Crash` kills a process there, `PowerLoss` keeps the
synced markers, any subset of the others, and any version of the snapshot renamed
since the last loss. Temporary files are private to a call and left out.

**ExecutionRuntime.** A step is the code between two awaits. `Execute` reads `this.runtime` into `copy[c]`;
`Dispatch` is the answer of the authorizer, the validation, the ledger's `add()` and the call of the driver,
which run without an await; the driver's answer is one of `Ambiguous`, `Unsure`, `NotApplied`, `Applied`,
`NoObservation`; `Install` is `this.runtime = out.runtime`. `recover()` is `Recover`, `Prepare` (readiness and
a reading), the same driver answers, `Reread`, `Restore`; `RecoveryThrows` is the rejection of any await in
it, after which `recover()` assigns nothing, even if the device has moved: it stays quarantined. `world` is
where the devices are: `Effect` moves them anywhere, at most once per command, before the answer. `doubt`, a
history variable, is the set of devices whose last command ended in doubt; `unread`, another, those whose last
driver call threw for want of an observation, which the code neither reads nor quarantines.

**ReceiptJournal.** A hash commits to everything before it, so a record *is* the
history up to it: two records have one hash iff they have one history. `log` holds
the records of each file, `tail` whether its last line is whole, lacks its newline,
or does not parse. `Lock`, `Read`, `Write`, `Unlock` are the critical section of
`append()` and `publish()`; `Begin` of a receipt has the look-up of the decision in
the *cached* records, which the code makes before the lock.

**HomeGoal.** `runtime` holds believed slots, status and ownership of the episode.
A turn works on `copy[c]`, made when the turn starts, and `Resume` assigns it. The
agent's `captureOwnership` writes to the episode object it read before; `held`
says whether that object is still the live one. `Recorded` counts a command in every run that is
under way (`spent`), as the shared driver log does. `actions` is what a run knew it had used when its step was
observed: `PlannerAnswers` compares a plan with what was left *then*, and `NextStep` adds `spent`
to it. For a driver that keeps no list of commands the code counts the patches of its proposals instead
(`home_goal_runtime.cjs:386`), commands of other runs not at all; the model has a driver with the list.

**PhysicalTurn.** `session` is what the streaming session keeps, `local` the copy a
turn works on. `Finish` and `Stop` return the copy; where the code throws, the
session keeps the old runtime (`Throws`), whatever the devices did. Executions are
numbered by the commands; only those of slots that had a value can be undone. `Command` is a call of the driver,
`TurnOver` the session between two turns. `WithExecutions` numbers the executions of a set, in an
order nothing depends on.

**PolicyLifecycle.** `status`, `active` and `history` are the fields of the registry,
`journal` the records its orchestrator appends, `plans` what callers hold. Each call
is synchronous, hence one step. An append that throws (the lock is held, the disk is full)
leaves what came before it: `RecordFails` instead of `Recorded`. The `evidence_ref` of an event
is the place of the record it names. Whether a gate authorizes or a canary aborts
is nondeterministic; thresholds and summaries are data. `HoldGate` is also an authorized
gate whose own record cannot be written.

**ExecutionGate.** `Propose` is `validate_proposal()` with the normalization of actions
and their identities, `Stream` the patches of a streaming session, which nobody checked;
`Send` builds the authorization request from the opening each window has *then*; `Decide`
is the Python process with `normalize_rain()`, `MAX_DELTA` and one result per patch;
`Execute` is the receipt check of the node side with its digest of the request, and the id it
consumes. `Hand` moves a window between any two of them.

**SemanticTurn.** `Speak` is one call of the checkpoint runtime: judgement, evidence read off the wording,
overrides, target and slot resolution, materialization. An utterance is a record of what the code's regular
expressions find in it; a hint is what the caller puts over the session's context, a focus or devices to be
added (`add_target`). `pointed` is a history variable: what anybody has spoken of or pointed to. `MakePlan`
and `Commit` are `plan()` and `atomicApplyAuthorizedPlan()`; `Register`, `Reprovision` and `World` change the
home in between.

**LiveAcoustic.** `main`, `asr` and `node` are where the three processes are; `em` is the
`HypothesisEmitter`, `guard` the `AsrEventSequenceGuard`, `pipe` the node's standard input
with `writers`, the processes that hold its other end (end of input is when nobody does).
`said` is a history variable: what the recording contained. The finally block of the node process is two steps:
`CloseClient`, the end of its checkpoint server, which throws when the server failed, and `Closeout` after it. A
server that never exits and a Python that cannot be started are left out.

**TrajectoryStore, Telemetry.** `turns`, `outcome`, `feedback` are the tables; every action of
`TrajectoryStore` is a transaction. `Telemetry` splits each call of the store into its look-up and its
transaction (`job`), which two processes interleave. `tab` holds what a page has in memory, `saved` the
session in local storage, `inbox` what the collector accepted. The two transactions of a flag, the judgement
(`Flags`) and the corrected sentence (`Candidate`), are two steps; what the sentence says is left out, so
whether a repeated one conflicts with the stored one is nondeterministic. `Reset(t)` is the button, which
closes the episode first, or a change of scene, which forgets it. `exp` is a replay with the rows it read,
`collector` the spans Phoenix has, `trace` and `fbDone` what the database says about them.

**Evaluation and its parts.** A network or model is its answers, chosen freely from a small set; a digest is
the content it is of; a file is a variable that may be written between two programs. In `HiddenPack` the
scoring program opens its files one at a time (`ReadNext`, in the order `Reads`), and any of them may be
written again between two reads; each write is one step. In `CandidateEvidence` the engine's own trust flags
(`vouched`) are free, so that the refusal of a run that trusts a result is reached, and the evidence file is
written before that refusal, as in the code. In `LongTrajectory` an action is one generated turn: `what` is
the turn as the generator writes it, `surface` what the adapter can read off it. In `DecisionGate` the sweep
is a recursive function of the set of confidences seen so far: rows of one confidence are one group. In
`DialogueRollout` every turn is answered twice, from the suite's own history (`expected`) and from what the
answers committed (`held`). In `IntentCommit` `oracle` is the state the dialogue should have, `tree` the
persistent one. `NoaProjection` and `ReasonerBenchmark` judge one case per step.

Definitions that a comment introduces with the word "mutant" are plausible defects,
never part of `Next`: replacing the definition they vary by them must break the
property they are listed with, which shows the property can fail at all.

## 3. Runs

| run | module, cfg | question | answer |
|---|---|---|---|
| `ledger` | `AuthorizationLedger.cfg` | two processes, two ids, all interleavings and failures: is an id granted once (`SingleGrant`) and for good (`GrantIsDurable`), is `SingleUse` implemented and no grant ever denied (`KeepsPromise`), does every call end (`EveryCallEnds`)? | yes |
| `execution` | `ExecutionRuntime.cfg` | a caller that awaits each call, every driver fault: one driver call per id (`SingleDispatch`), quarantine until a verified recovery (`QuarantineHeld`, `QuarantineEnds`), belief is the world outside quarantine and `unread` and EXECUTED is true (`BeliefIsReal`), every call ends (`QuarantineEnds`)? | yes |
| `quarantine_lost` | `QuarantineLost.cfg` | does quarantine hold when two calls overlap? | **no** |
| `journal` | `ReceiptJournal.cfg` | do the records chain and seals stay true (`JournalHolds`), do anchors advance (`AnchorsAdvance`) under all failures? | yes |
| `goal` | `HomeGoal.cfg` | driver calls not interleaved with others: do stopped episodes stay stopped and silent, do budgets hold although a plan meets an older count, does a cancellation restore (`GoalHolds`)? | yes |
| `turn` | `PhysicalTurn.cfg` | does the session know where devices are after turns that stop, throw or undo, is an execution compensated once (`TurnHolds`); does protection hold for the believed state (`ProtectionHolds`)? | yes |
| `policy` | `PolicyLifecycle.cfg` | is one policy active (`OneActive`), does a rollback undo the latest promotion and whom does it hit (`RollbackHolds`), does every change rest on a record (`EvidenceFirst`), does the journal alone tell the active policy (`JournalTellsActive`)? | yes: the journal unless an append failed, and a stale plan can hit another policy than the one it failed |
| `telemetry` | `Telemetry.cfg` | is what was acknowledged stored, and an episode closed only with all its turns (`AckedIsKept`); are episodes without gap or fork and closed ones shut (`EpisodesAreSound`); does everything reach Phoenix (`ExportedInTheEnd`); is what is marked exported there (`PhoenixHasIt`); is a training row closed, real and rated (`TrainingRowsHold`)? | yes |
| `live_acoustic` | `LiveAcoustic.cfg` | is every utterance final once with its last words (`OneFinalPerUtterance`), is a probe opened once for the only one and closed by a node that ends by itself without an error (`ProbeAccountable`), is the frozen recording decoded (`FixtureHeld`), does the run end (`RunEnds`)? | yes; a node process that the wrapper kills, or whose checkpoint server fails at its end, leaves the window open |
| `semantic_turn` | `SemanticTurn.cfg` | does a patch reach only what was spoken of, as it was spoken (`DoesAsSpoken`), what may a refusal of the network become (`RefusalStands`), is a late plan applied whole to the devices it was made for (`PlanHolds`)? | yes |
| `execution_gate` | `ExecutionGate.cfg` | does each window get at most one command, one that was offered for it (`CommandsComeFromTheOffer`), and is none opened further in the rain (`RainOpensNothing`)? | yes, for the words for rain the code lists |
| `evaluation` | `Evaluation.cfg` | the offline studies: `TaughtPatchIsTheOracle`, `BackgroundDecides`, `CommitmentFixesScore`, `GateIsSound`, `EvidenceIsSound`, `WordingHasOneLabel`, `VerdictsAreEarned`, `TreeHolds`, `NothingUpgraded` | yes |

The type invariants are conjuncts of `BeliefIsReal`, `JournalHolds`, `GoalHolds`, `TurnHolds`,
`RollbackHolds` and `AckedIsKept`. All the safety properties of the table are also proved for every value of the
constants (section 4): those of `execution` for one caller, `GoalHolds` for driver calls that are not
interleaved with others, `FixtureHeld` for a recording nobody replaces once it was checked, as in their runs.

### What the violation shows

`quarantine_lost`: calls A and B read `this.runtime`; A's driver throws, A installs
the quarantine; B ends and installs its own copy, without it
(`flythink_execution_runtime.cjs:558`). The overlap needs a caller that does not
await the first call; nothing in the class prevents it.

### What the code does not promise

The models show these behaviours too. The repository states nothing to the contrary, or
states it for one process or for the in-memory contract only (of the named but unbound device below a comment says
more than the code does), so they are described here and bound the properties above:

* After a driver call threw, the belief is the position from before; a quarantined window the
  call had shut is opened by a patch that "lowers" that belief (`physical_runtime.cjs:34`).
* Two processes may record one decision: both look for it in their cached records before
  either takes the lock (`pi_home_decision_receipt_ledger.cjs:107`). Afterwards the
  constructors refuse the journal.
* `publish()` compares counts, not histories (`pi_home_journal_anchor_store.cjs:115`). After a
  power loss took anchored records and others were appended, the new anchor accepts what
  the older one refuses. The older one is still in the chain; only `verifyJournal()` does not ask it.
* A takeover while an agent patch awaits the driver is overwritten by the runtime the turn
  copied before (`home_goal_runtime.cjs:495`). `Overlap` = TRUE in `HomeGoal` has this behaviour, the run
  has FALSE: a caller that serializes turns, or a driver that answers at once.
* The driver acts before `reconcileObservation()` looks at the protection and throws
  (`physical_runtime.cjs:305`): the believed slot is protected, the device is not.
* `finish()` tests the outcome outside its transaction: two closings that race may both be
  acknowledged, and the later one stays (`trajectory_store.py:84`). Closed stays closed.
* A tab uploads its log before it trims it to 200 events (`index.html:2512`), so one upload holds 201 and is
  refused (`telemetry_cli.py:20`); a tab restored from a log that lost the beginning of its
  episode is refused from then on and its episode stays open. No turn is ever skipped.
* A replay that dies after Phoenix took a span and before the row is marked sends it again: export is at least once.
* Between the check of the frozen recording and the recognizer's own open the file is not held.
* A checkpoint server that exits with an error makes `client.close()` throw inside the finally block, before the
  closeout (`run_acoustic_windowpilot_e2e.cjs:419`): the window stays open, and the process ends with an error.
* A change of scene, and the composer, call `reset()` without closing the episode (`index.html:2882`, `:1159`): the
  episode stays open, and nothing of it becomes a training row.
* A named device that is not bound (any more) is not refused: the focus or the last targets are patched in its
  place, although `context_target_resolver.py:59` says "A target named in the current utterance must beat stale
  focus/referents." The code finds named targets among the bound ones only.
* Words for two areas and two entities name all four combinations that exist (`context_target_resolver.py:41`).
* A CLARIFY of the network is overruled by plain wording in rain and under protections too (`checkpoint_runtime.py:16`).
* The scoring of a hidden pack notices a gold that is replaced once while it reads, since the gold digest of the receipt
  is then not the committed one, but not a gold that is put back, nor input, predictions or
  commitment replaced meanwhile; its receipt says that the gold matches the commitment all the same
  (`score_hidden_benchmark.py:14-16`, `30-32`).
* Only training checks that training and held-out cases share no target; held-out cases that are edited later may
  (`train_pi_home_candidate_checkpoint.py`). Saved rows meet edited cases by their id alone
  (`run_pi_home_learned_real_contam.py:143`): what is run for the edited case is the choice made for the old one.
* Weather words that `normalize_rain()` does not list are dry.
* Wording that names several devices of the registry exactly patches all of them
  (`context_target_resolver.py:41`).
* An add whose value is 0 erases a goal without a word of retraction in a delta
  rollout; a revision of a paused goal leaves it paused (`intent_state_commit.py:44`); of a right network's
  turn that sets several goals the tree takes new ones and the focused one, an older value of the others stays
  (`intent_state_commit.py:40-43` against `dialogue_state_corpus.py:43-46`); a revision or a
  clearing by the network needs no explicit wording where the code asks for none.
* `compare_pi_home_candidate_checkpoint.py:36` sets `goal_completed` of the baseline without looking.

### Bounds, and why they are enough

* Two processes, calls or devices: every hazard listed is between two actors. The
  proofs hold for any number of them, and for any value of the other bounds of this list, but that the
  belief of the runtime needs one caller. One window and one lamp are the two kinds
  of slot the quarantine rule tells apart.
* `AuthId` = 2 ids bounds the dispatches: a command that ends in doubt, recoveries
  (which need no authorization) and another command follow each other. The passing
  run has one call at a time, any number of them; overlap is where
  `quarantine_lost` breaks, and `DispatchesOnce` is proved for any overlap.
* `MaxPct` = 1 or 2: the positions of a window are shut, open and, for
  `execution`, one between. The code only compares.
* `MaxLength` = 2 records per file and `MaxFaults` = 2: the loss of a record and another one in its
  place, or a partial write and an append behind it, need two of each.
* `MaxSteps`, `MaxActions` = 2, `MaxEpisodes` = 1, `MaxValue` = 1: a second step, a budget that
  is used up over two steps, slots that differ from their baseline or not.
* `MaxTurn` = 2, `MaxCommands` = 3: a patch that fails after one that worked, an undo
  after an execution, and an undo after that. A turn that would exceed `MaxCommands` stops there in
  the model, which is why that run does not check deadlock.
* Three policies, `MaxRecords` = 8: the shortest history in which a policy is promoted
  twice, from different ones, and rolled back takes nine records, or eight and one append that
  throws (`MaxFaults` = 1). Policies are interchangeable, hence the symmetry.
* `telemetry` (144,149 states): a tab keeps and uploads at most two events where the code says 200 (`Window`,
  `MaxEvents`), so the limit is met by the third turn. `MCBudgets` says how often a behaviour may
  take the actions nothing else bounds; each budget aims at a few hazards together
  (two tabs and a dying collector; an import that races with the upload it repeats; two
  replays that overlap and fail; ...), and TLC explores all of them.
* `live_acoustic` (518,320 states): two texts, three chunks of audio: a revision, an endpoint and another
  segment. The command lines are a complete one and every neighbour with one flag more or less.
  `Swapping` lets the recording be replaced until the wrapper starts to check it.
* `semantic_turn` (578,229 states): three devices, two models, a hint of either kind or none, two changes of
  the home, one plan that waits while they happen; utterances and raw patches are those that disagree in one
  respect each.
* `execution_gate`: two windows and an air conditioner, openings in quarters, `MaxDelta` = 1 quarter,
  one window moved by hand, two authorizations used: a request and the next one.
* `evaluation` (511,852 states): trajectories of two or three turns over three rooms and two entities; four
  goldens, predictions and commitments over two versions of a pack, one receipt and one file written again
  while it is made (more than one is outside what a receipt can notice, see above); six development and one
  sealed row, three epochs, a precision of 2/3 for the code's 0.99; five candidate cases, one of which is
  edited and keeps its id; dialogues of three turns over two places and, for the intent tree, three values a
  text may ask for (a revision out of focus needs them), four commits to the tree. Every one of these contains
  a history in which an off-by-one or a skipped step changes the result, as the mutants show.
* Deadlock is not checked where a bound, or a file that no longer parses, stops the
  model; the ledger and the execution run do check it, and the latter's authorizer may always
  refuse.
* `Overlap` says whether other calls run while a driver is awaited. FALSE is a caller
  that serializes turns (or a driver that answers at once); TRUE is what the
  language allows.

### Fairness

Safety properties hold under plain `Spec`; runs that also check liveness use the fair one. `FairSpec` of the
ledger has weak fairness of `Step(p)`: the call is synchronous code, it goes on while its process lives (a
`Crash` or `Throw` ends it too). `FairSpec` of the execution runtime has weak fairness of `Answer(c)`:
authorizer, driver and device answer something, eventually; the code has no timeout of its own around those
awaits, so the end of every call is conditional on them. Calls need never begin. `Telemetry` has weak fairness
of the drain thread's replay (it loops every two seconds while its process lives, `telemetry_cli.py:130`) and
of the collector being started again; the faults a behaviour may have are bounded. `LiveAcoustic` has weak
fairness of each of its processes: one that can go on does, and the audio ends; that a checkpoint server whose
input has ended exits is assumed with it, since `client.close()` waits for it without a timeout. A run that
may be interrupted or crash at any step still ends.

## 4. Proofs

`AuthorizationLedgerProofs` proves, for all sets `Process` and `Id`, and from
the one assumption `NoId \notin Id`:

| theorem | statement |
|---|---|
| `Inductive` | `Spec => []IInv` (type correctness included) |
| `GrantsOnce` | `Spec => []SingleGrant` |
| `GrantsAreDurable` | `Spec => []GrantIsDurable` |
| `NeverForgets` | `Spec => HasNeverForgets`, an action property |
| `Implements` | `Spec => KeepsPromise`: the ledger implements `SingleUse`, and never forgets |

`SingleGrant` alone is not inductive: it does not say that a process about to
return is alone. `IInv` adds that a process past its own link owns the marker, is
the only one for its id and has not been answered (`LinkOwnsMarker`); that past the
directory sync the marker survives a power loss (`SyncedIsDurable`); that what caches and
old snapshots know is still visible, and that the process that rewrites the
snapshot carries over what only the snapshot knew (`KnownIsTaken`); and that a
running call has its id (`RunningCall`). Each step has a lemma.
For the refinement, `Link` claims, `Return` uses, `PowerLoss` loses only unused
ids, everything else stutters.

`RuntimeProofs` proves of the runtime, for any devices, calls, ids and faults:

| theorem | statement |
|---|---|
| `DispatchesOnce` | `Spec => []SingleDispatch`, however many calls overlap |

Its invariant adds that an id that bought a driver call is consumed. For a caller that awaits
each call (`Call = {c}`, which `quarantine_lost` shows to be needed), and from `DeviceAssumption`, it proves

| theorem | statement |
|---|---|
| `OneCallerKeepsQuarantine` | `Spec => []QuarantineHeld` |
| `OneCallerBelievesTheWorld` | `Spec => []BeliefIsReal` (type correctness included) |
| `OneCallerEndsShut` | `Spec => QuarantineEndsShut`, the safety part of `QuarantineEnds` |

These speak of the moments when nothing runs, so the invariant (`OneCallInv`) says what a call carries in
between: until the driver has answered its copy *is* the runtime, right but for the targets of
an effect that may have happened (`UnderWay`); during a recovery the copy is right everywhere and
trusts nobody more than the runtime does (`Verifying`); a result may drop from the quarantine only what
was recovered, where the copy has it (`Installable`). Types hold for any number of calls.

Of a live run it proves, for any texts, command lines, manifests, repeats, crashes and interrupts, with no
assumption on a constant:

| theorem | statement |
|---|---|
| `AlwaysOneFinal` | `RunSpec => []OneFinalPerUtterance` |
| `ProbeAlwaysAccountable` | `RunSpec => []ProbeAccountable` |
| `FixtureAlwaysHeld` | `RunSpec => []FixtureHeld`, if `Swapping \subseteq {"idle", "build"}` |

`RunInv` says that as long as the node process reads, what it has heard and the finals still in the pipe are, one for
one and in order, what was said (`NothingLost`): a final is written only when the emitter's last words are decode()'s
(`InOrder`), and a probe comes after the pipe is closed and one thing was said (`ProbesLast`). The finals of a
pipe are counted by place (`FinalAt`), so that one line more, or one line taken, shifts or adds one
place. `FixtureHeld` needs `Checked`, and that nobody replaces the recording after its check; the code does not
hold the file (section 3), so without the hypothesis the property is false.

`PolicyLifecycleProofs` proves, for any policies, journal length and failed appends, from
`LifecycleAssumption` (`None` is no policy, the bounds are naturals):

| theorem | statement |
|---|---|
| `Inductive` | `Spec => []IInv` (type correctness included) |
| `StaysOneActive` | `Spec => []OneActive` |
| `RestsOnEvidence` | `Spec => []EvidenceFirst` |
| `JournalAlwaysTellsActive` | `Spec => []JournalTellsActive` |
| `RollbackAlwaysHolds` | `Spec => []RollbackHolds` |

`EvidenceFirst` needs `EvidenceIsFresh`: while no append has failed, the evidence of
every change lies before the end of the journal, since the record of the change
follows it; a new change takes its evidence from the end, so it cannot meet an older
one. That a rollback's promotion exists rests on `Greatest`, a bounded set of
naturals has a greatest element, itself from the well-foundedness of `<`.

`RollbackHolds` compares the active policy with the top of a stack that replays the history, a
recursive function. It is not unfolded: `StackFits` says that *some* function is the replay and
that the policies on its stack are those of the promotions that still stand, each made from the one below, so
that the latest of them is the one a rollback finds. Two replays of one history agree, or there would be a
least place where they differ (`OneReplay`). `PlansFit` carries the other half: a plan is for the active policy,
or the registry has changed since every record of it.

`ReceiptJournalProofs` proves, for any finite number of processes, any receipts, bounds and faults, from
`JournalAssumption` (`NoProcess` is none of them, `Process` is finite, the bounds are naturals):

| theorem | statement |
|---|---|
| `Inductive` | `Spec => []IInv` (type correctness included) |
| `JournalAlwaysHolds` | `Spec => []JournalHolds` |
| `AnchorsAlwaysAdvance` | `Spec => []AnchorsAdvance` |
| `OneInsideEachFile` | no two processes are inside the critical section of one file |

Locks survive their owners and are removed by hand, so holding one is not enough: `Alone` says who is inside owns
the lock, `Current` that what is about to be written continues the file as it is *now*, not only as it was
read. `RoomLeft` counts those who may still write; it keeps the bound, and is the reason `Process` must be finite.

`TelemetryProofs` proves, for any tabs, budgets, episodes, events and states:

| theorem | statement |
|---|---|
| `StoreStaysWhole` | `StoreSpec => [](EpisodeWhole /\ NoGap)`: the transactions alone suffice |
| `EpisodesStaySound` | `Spec => EpisodesAreSound`, for `Telemetry`'s `Spec` |
| `AckedAlwaysKept` | `Spec => []AckedIsKept` |
| `PhoenixAlwaysHasIt` | `Spec => []PhoenixHasIt` |
| `TrainingRowsAlwaysHold` | `Spec => []TrainingRowsHold` |

The lemmas about a transaction are stated for *any* event, since nothing checks an event's
type before the transaction; that steps are naturals follows from the transaction's own
test. `EpisodeWhole` with `StepsCount` is inductive. A step of `Telemetry` records an event,
closes an episode with one of `Closings`, or leaves turns and outcomes alone (`StepUsesStore`); that needs
`JobOK`, what a writer may be about to do. These two rest on no assumption; the others on
`TelemetryAssumption` (`Window` is a natural, "nobody" is no tab, budgets name tabs), and each needs
what lies between a page and the database:

* `AckedIsKept` needs `Sync`. The last upload in a tab's queue holds all the tab retains, a finish follows
  the upload of what it closes (`TabsFit`); of a tab at most one request is under way, the head of its queue,
  in the inbox (`InboxFits`) or in one writer (`JobsFit`), and what the writer no longer has to do is stored.
* `PhoenixHasIt` needs `Exported`: a replay past its answer names a span that arrived (`Arrived`), however many
  replays overlap, and marks only grow (`MarksOK`).
* `TrainingRowsHold` needs `ReadHolds`: what the export read of an episode that was over then stays all
  there is of it, although it reads the ratings later.

`HomeProofs` proves of the semantic turn, for any home, networks, texts and requests, from `WordingAssumption`
(steps of a slot are naturals, a unit comes with its number, hints are of devices, the inputs are records):

| theorem | statement |
|---|---|
| `AlwaysDoesAsSpoken` | `Spec => []DoesAsSpoken` |
| `RefusalAlwaysStands` | `Spec => []RefusalStands` |
| `PlanAlwaysHolds` | `Spec => []PlanHolds` |

The three properties are about the latest answer, so the invariant (`SemanticInv`) adds only what the home is
(`HomeOK`), that what a session may refer back to was pointed at (`last \subseteq pointed`), and what a
waiting plan still means (`PlansFit`: its targets and values fit the registry it was made from). Most of the
proof is about operators: the target resolver ends, on each of its paths, at what was named, hinted or spoken
of before, the slot and the operation at those the evidence gives, and materialization changes none of them.

Of the home's goal it proves, for any slots, calls, budgets and values, from `GoalAssumption` (the slots are finitely
many, the bounds are naturals):

| theorem | statement |
|---|---|
| `GoalAlwaysHolds` | `GoalSpec => GoalHolds`, invariants and action properties, if `~Overlap` |

The hypothesis is the caller that serializes turns; with overlap a takeover is overwritten (section 3) and the
property is false. `GoalInv` says that a call that drives is the only one, in an active episode, on a copy
that is the live runtime but for the slots (`DrivesAlone`); that what its turn still has to send fits in the
budget the step began with (`RoomLeft`, with `sent` at most `actions` and `spent` together); and that of a
cancellation each slot is either still to be sent back or restored (`TakesBack`). `AllLive`, that every call
holds the live ownership record, is where `~Overlap` is used.

`DeviceProofs` proves of the gate, for any windows, requests, proposals, streamed lists and contexts, from
`GateAssumption` (`MaxDelta` is a natural, the lists are lists of records with an action's fields):

| theorem | statement |
|---|---|
| `ExecutesTheOffer` | `Spec => []CommandsComeFromTheOffer` |
| `RainIsRespected` | `Spec => []RainOpensNothing` |

The argument is what an allowing receipt promises about its request (`AuthorizedIsSound`). That two
patches never share a window is not checked anywhere: it follows from the count of decided
windows being that of the patches, since a map onto a set of the same size is one-to-one
(`OneEach`); only then is the last patch of a window the one decided on (`LastIsOnly`). The
invariant adds that what was asked is still what is on its way, that openings stay in range, and that
the patches of a task are among its candidates.

Of the turns it proves, for any devices, patches, lengths and driver answers, from `TurnAssumption` (the devices
are finitely many, patches have their type, the bounds are naturals):

| theorem | statement |
|---|---|
| `TurnAlwaysHolds` | `TurnSpec => []TurnHolds` |
| `ProtectionAlwaysHolds` | `TurnSpec => ProtectionHolds`, an action property |

A turn may stop or throw anywhere, and then the session keeps one of two runtimes. `TurnInv` therefore speaks of both: the
copy knows every device but those the driver has just moved, the session those the turn has not touched
(`KnowsDevices`); the copy has all executions of the session (`Numbered`), and what is marked undone bounds what was
compensated, in each as far as it can know (`TakenBack`); the copy protects what the session protects and has left
it alone (`Shields`). `Shields` is what makes the action property hold when a whole turn is installed at once.

`EvaluationProofs` proves, for `Evaluation`'s `Spec`:

| theorem | statement | assumptions |
|---|---|---|
| `CommitmentBindsScore` | `Spec => []CommitmentFixesScore` | |
| `TaughtPatchIsAlwaysTheOracle` | `Spec => []TaughtPatchIsTheOracle` | `PairsAssumption`, `HomesAssumption` |
| `BackgroundAlwaysDecides` | `Spec => []BackgroundDecides` | `PairsAssumption`, `HomesAssumption` |
| `EvidenceStaysSound` | `Spec => []EvidenceIsSound` | |
| `WordingKeepsOneLabel` | `Spec => []WordingHasOneLabel` | |
| `VerdictsAreAlwaysEarned` | `Spec => []VerdictsAreEarned` | `CaseFilesAssumption` |
| `GateStaysSound` | `Spec => []GateIsSound` | `RowsAssumption` |
| `TreeAlwaysHolds` | `Spec => TreeHolds`, an invariant and an action property | `WordsAssumption` |
| `NothingIsEverUpgraded` | `Spec => []NothingUpgraded` | |

`PairsAssumption` is that a split has a second device of an entity it draws for two targets; the others say
what type a constant has (devices of the home and whole-number levels; four values a text can ask for; lists
of cases; finitely many rows with confidences that are naturals). Every study has an invariant of its own,
kept by its own steps and by the others, which leave its variables alone:

* Hidden pack: `ScoringInv`. A scoring is stopped between any two reads, so the invariant says what was read so far:
  of a file nobody wrote since, what it still is; of the gold, written at most once, first the old content and from some
  read on the new one (`ReadsAgree`). The gold the rows are computed from is then that of the receipt's digest or
  that of the commitment, which was compared with an earlier read; a reliable receipt has both equal.
* Trajectories: `TrajectoryInv`. A turn says its whole change (`SaysAll`) and, where its text names no device,
  enough for the adapter to find it (`SaysEnough`); while turns are made the home is the last gold state
  (`HomeIsGold`) and a question follows two targets (`AskedOfTwo`). Both properties are then about the adapter
  alone.
* Labels: no invariant. `LabelOf` reads the label off the wording and the focus, so two turns
  with one wording have one label; the work is that a device is *named* only if the name stands for one key.
* Verdicts: `RowsFollow` and `SummaryCounts`; full marks need as many passing rows as there are questions, hence
  every one (the cardinality of a subset).
* Decision gate: `GateInv`, that the gate is what the sweep found. The sweep is a recursive function, which
  the prover does not unfold: *some* function satisfies its recursion, the closed form (`ASweep`), and only
  one does, since two would differ at a smallest set of levels (`OneSweep`). So the gate is the lowest level
  at which everything from the top down is precise (`CoverageIsBestStop`), and a cut there commits most
  (`SweepIsBest`). Harm is inexact because an answer's exactness always covers its operation and, where the
  truth has a target, its target (`AnswerFits`).
* Intent tree: `IntentInv`, `TreeFollowsOracle` with the types and `FocusIsAsked`: what the oracle speaks of
  is asked for. `CommitFacts` (what is lost or revised) holds for *any* proposal, `DrawnFollows` for a right
  one: keys, focus with its value, unserved requests agree and the tree pauses at least what the oracle does.
  The other values need not agree (section 3).
* Candidates: `FittedApart`, that a checkpoint was fitted beside held-out cases that share no target with its
  training cases, and `RowsAreOfTheCases`, that saved rows are those of one ranker on one set of cases. Both
  outlive every edit of the benchmark; the property says what follows for the cases as they are when they meet
  (`RowOfTheCase`).
* NOA: the property is inductive; the projection's check covers all ten members (`ChecksAreAllPaths`).

Model-checked only, and why:

* All liveness (`EveryCallEnds`, the ends of calls in `QuarantineEnds`, of runs in `RunEnds`,
  `ExportedInTheEnd`): fairness and `ENABLED` are beyond the prover.
* `GoalHolds` with `Overlap` = TRUE and `FixtureHeld` where the recording is replaced after its check: false,
  see section 3.
* `QuarantineHeld` and `BeliefIsReal` for overlapping calls: false (`quarantine_lost`).

## 5. Assumptions and limits

* A hash commits to its history; collisions do not occur.
* After an fsync of the reservation directory its entries and the directory itself
  survive. The code never syncs its parent (listed as a hazard).
* Drivers name the target they observe and observe truthfully; "applied" means the
  requested position. (`MockThingDriver` has a `transform` option that breaks this.)
  A set that is rejected as a whole touched nothing.
* After an answer without an observation the executor throws, and the device is neither read nor quarantined:
  the belief of both runtimes (`BeliefIsReal`, `TurnHolds`) leaves out exactly these devices (`unread`, and
  `doubt` in `PhysicalTurn`) until the next command reads them.
* A caller may register a policy with any status, "active" too, which the registry does
  not compare with the active one; `PolicyLifecycle` registers with the default.
* `ExecutionRuntime` has no protected paths; they are in `PhysicalTurn`.
* `GoalHolds` (its part `CancelRestores`) is about cancellations whose compensations were applied. The code
  marks the episode cancelled also when they were not.
* Left out of modelled parts: `remove_old` of a replacement, sets of replacements,
  `CANCEL_PENDING`, relative patches before they are materialized, pending tasks,
  scores and strategies of a goal, hardware identities (the outcome of a check).
* `TurnHolds` (`UndoneOnce`) leaves out devices of a turn that threw: the session lost the record.

## 6. Not modelled, and what is next

* `WindowPilotDriver` (`windowpilot_http_driver.cjs`): readiness, acknowledgement, polling for a
  fresh tick, timeout and safety stop. `ExecutionRuntime` assumes a driver with an effect and
  then one truthful answer, or none; a module for this driver would have to implement it.
* `StreamingSession`: the commit gate of revised hypotheses and the quarantine after a failed
  authorization binding (`streaming_slu_e2e.cjs:269`). The turns it starts are `PhysicalTurn`.
* Provider-trust lineage, receipts, proof bundles and their verifiers: construction and
  comparison of hashed documents. What is stateful about them, the journal, is `ReceiptJournal`.
* Networks, feature extraction, fitting and generated sentence lists: numerical batch
  computations without an actor or a decision. Where a decision is taken on their results
  (thresholds, gates, promotions, commits) it is modelled with the network as a free choice.
* The simulation of the home in `index.html`, the layout, and the Go profile under `interop/`.
* Of the patch contract: `CANCEL_PENDING`, relative patches before they are materialized, and the in-memory undo.

Proofs worth having next: the parts of `GoalHolds` that overlapping calls do not break; which quarantine overlapping
calls of the runtime still keep; and, with a module for `WindowPilotDriver`, that it implements the driver
`ExecutionRuntime` assumes.
