--------------------------- MODULE LongTrajectory ---------------------------
(* The long-trajectory benchmark: one trajectory is generated turn by turn   *)
(* together with its oracle (generate_long_trajectory_benchmark_v3.py), is   *)
(* checked (validate_long_trajectory_benchmark_v3.py), and its turns become  *)
(* the rows two checkpoints are trained on                                   *)
(* (benchmark_v3_training_adapter.py).  A random draw is a choice, a device  *)
(* is its room and entity, and the one numeric slot an entity has            *)
(* (temperature, brightness, opening) is "level"; power is 0 or 1.           *)
EXTENDS Integers, Sequences, FiniteSets, SequencesExt

CONSTANTS
    Rooms, Entities,
    PairAllow,      \* split -> the devices its texts may name
    InitialLevel,   \* entity -> the level a home starts with
    RelativeDelta,  \* entity -> what "a little more" adds to the level
    Values,         \* entity -> the levels a text may ask for
    Lengths,        \* bound: how many turns a trajectory may be given
    Count,          \* trajectories of a release
    Limit,          \* rows kept per decision, and per family
    None

Keys  == Rooms \X Entities
Slots == {"power", "level"}

VARIABLES
    phase,      \* "unused", "make", "made", "valid", "refused", "adapted"
    split, profile, length,
    home,       \* the state the oracle keeps while turns are made
    turns, focus,
    ask,        \* the last turn was drawn as "multi": a question may follow
    rows        \* what the adapter returned

vars == <<phase, split, profile, length, home, turns, focus, ask, rows>>

-----------------------------------------------------------------------------
StateTemplate == [k \in Keys |-> [power |-> 0, level |-> InitialLevel[k[2]]]]

ChangedPaths(before, after) ==
    {c \in Keys \X Slots : before[c[1]][c[2]] # after[c[1]][c[2]]}

\* New profiles hold device names out by split; training keeps the canonical.
\* The legacy profile writes neither a naming nor a shape into its turns.
SurfaceEntity ==
    IF profile = "legacy" \/ split = "train" THEN {"canonical"}
    ELSE {"canonical", "non_standard_alias"}

Annotate(family, naming) ==
    IF profile = "legacy" THEN [naming |-> None, shape |-> None]
    ELSE [naming |-> naming,
          shape  |-> CASE family = "multi_target"         -> "multi_intent"
                       [] family = "relative_coreference" -> "omitted_attribute"
                       [] family = "ambiguous_clarify"    -> "underspecified_target"
                       [] OTHER                           -> "single_intent"]

\* Whether a turn asks for pairs that no training text names.
GeneralizationClass(decision, targets) ==
    IF decision # "EXECUTE" THEN "ambiguity_holdout"
    ELSE IF Range(targets) \subseteq PairAllow.train THEN "seen_combo"
    ELSE "compositional_holdout"

\* What is said of a turn: its family, its decision and the devices it is about,
\* the device in focus it hints at, the gold_* fields of its patch.
Execute(family, targets, hint, gold) ==
    [family |-> family, decision |-> "EXECUTE", targets |-> targets, hint |-> hint,
     gold |-> gold, basis |-> None]

Clarify(basis) ==
    [family |-> "ambiguous_clarify", decision |-> "CLARIFY", targets |-> <<>>, hint |-> None,
     gold |-> <<>>, basis |-> basis]

Turn(what, naming, after) ==
    [what |-> what, surface |-> Annotate(what.family, naming),
     write_set |-> ChangedPaths(home, after), gold_state |-> after,
     generalization_class |-> GeneralizationClass(what.decision, what.targets)]

Emit(what, naming, after, newFocus, drawnMulti) ==
    /\ turns' = Append(turns, Turn(what, naming, after))
    /\ home' = after
    /\ focus' = newFocus
    /\ ask' = drawnMulti
    /\ UNCHANGED <<phase, split, profile, length, rows>>

SetSlot(slot, value) == [op |-> "PATCH_SLOT", slot |-> slot, value |-> value]

Making == phase = "make" /\ Len(turns) < length

\* make_execute_turn, one action per scenario family.  A relative turn drawn
\* while there is no focus becomes a direct one, which MakeSlot covers.
MakeSlot ==
    /\ Making
    /\ \E p \in PairAllow[split], n \in SurfaceEntity : \E v \in Values[p[2]] :
          Emit(Execute("direct_slot", <<p>>, p, SetSlot("level", v)),
               n, [home EXCEPT ![p].level = v], p, FALSE)

\* A device that is there is switched on as a slot; the legacy profile adds it.
PowerPatch(on) ==
    IF on = 0 THEN [op |-> "CLOSE_DEVICE"]
    ELSE IF profile = "legacy" THEN [op |-> "ADD_DEVICE", slots |-> [power |-> 1]]
    ELSE SetSlot("power", 1)

MakePower ==
    /\ Making
    /\ \E p \in PairAllow[split], on \in {0, 1}, n \in SurfaceEntity :
          Emit(Execute("direct_power", <<p>>, p, PowerPatch(on)),
               n, [home EXCEPT ![p].power = on], p, FALSE)

MakeRelative ==
    /\ Making
    /\ focus # None
    /\ LET by == RelativeDelta[focus[2]] IN
       Emit(Execute("relative_coreference", <<focus>>, focus,
                    [op |-> "PATCH_RELATIVE", slot |-> "level", delta |-> by]),
            "not_mentioned", [home EXCEPT ![focus].level = @ + by], focus, FALSE)

MakeCorrection ==
    /\ Making
    /\ \E p \in PairAllow[split], n \in SurfaceEntity :
          \E wrong \in Rooms \ {p[1]}, v \in Values[p[2]] :
             Emit(Execute("explicit_correction", <<p>>, <<wrong, p[2]>>, SetSlot("level", v)),
                  n, [home EXCEPT ![p].level = v], p, FALSE)

MakeMulti ==
    /\ Making
    /\ \E p, q \in PairAllow[split], n \in SurfaceEntity : \E v \in Values[p[2]] :
          /\ p[2] = q[2] /\ p # q
          /\ Emit(Execute("multi_target", <<p, q>>, None, SetSlot("level", v)),
                  n, [home EXCEPT ![p].level = v, ![q].level = v], q, TRUE)

MakeClarify(basis) == Emit(Clarify(basis), "not_applicable", home, focus, FALSE)

AskFirst == phase = "make" /\ turns = <<>> /\ MakeClarify("no_prior_focus")

AskAfterMulti == Making /\ ask /\ MakeClarify("multi_referent_set")

Made ==
    /\ phase = "make"
    /\ Len(turns) >= length
    /\ phase' = "made"
    /\ UNCHANGED <<split, profile, length, home, turns, focus, ask, rows>>

-----------------------------------------------------------------------------
GoldBefore(i) == IF i = 1 THEN StateTemplate ELSE turns[i - 1].gold_state

BasisProven(i) ==
    CASE turns[i].what.basis = "no_prior_focus"     -> i = 1
      [] turns[i].what.basis = "multi_referent_set" ->
            /\ i > 1
            /\ turns[i - 1].what.decision = "EXECUTE"
            /\ Len(turns[i - 1].what.targets) >= 2
      [] OTHER -> FALSE

TurnAccepted(i) ==
    LET t == turns[i].what  surface == turns[i].surface IN
    /\ (profile = "legacy") = (surface = [naming |-> None, shape |-> None])
    /\ split = "train" /\ profile # "legacy" => surface.naming # "non_standard_alias"
    /\ ChangedPaths(GoldBefore(i), turns[i].gold_state) = turns[i].write_set
    /\ t.family = "direct_power" =>
          IF profile = "legacy" THEN t.gold.op \in {"ADD_DEVICE", "CLOSE_DEVICE"}
          ELSE t.gold.op = "CLOSE_DEVICE" \/ t.gold = SetSlot("power", 1)
    /\ t.decision # "EXECUTE" => turns[i].write_set = {} /\ BasisProven(i)

Validate ==
    /\ phase = "made"
    /\ phase' = IF \A i \in DOMAIN turns : TurnAccepted(i) THEN "valid" ELSE "refused"
    /\ UNCHANGED <<split, profile, length, home, turns, focus, ask, rows>>

-----------------------------------------------------------------------------
\* The devices the turn before was about.
Previous(i) == IF i > 1 THEN turns[i - 1].what.targets ELSE <<>>

\* mutant: the last of several targets stays in focus
ContextBeforeLast(i) ==
    [focused_target |-> IF turns[i].what.hint # None THEN turns[i].what.hint
                        ELSE IF Previous(i) # <<>> THEN Last(Previous(i)) ELSE None,
     referent_set   |-> Previous(i)]

\* What a row says was known before the turn: the previous gold turn's single
\* target, overruled by the turn's own hint.
ContextBefore(i) ==
    [focused_target |-> IF turns[i].what.hint # None THEN turns[i].what.hint
                        ELSE IF Len(Previous(i)) = 1 THEN Previous(i)[1] ELSE None,
     referent_set   |-> Previous(i)]

JudgementRow(i) ==
    [background |-> ContextBefore(i), decision |-> turns[i].what.decision,
     missing |-> IF turns[i].what.decision = "CLARIFY" THEN {"referent"} ELSE {},
     family |-> turns[i].what.family, turn |-> i]

\* A row's patch is the gold fields the adapter knows, as far as the turn has them.
RowOf(i, known) ==
    LET gold == turns[i].what.gold IN
    [targets |-> turns[i].what.targets, patch |-> [f \in known \cap DOMAIN gold |-> gold[f]],
     lifecycle |-> ContextBefore(i), family |-> turns[i].what.family, turn |-> i]

\* mutant: the row forgets how far a relative patch moves the slot
SemanticRowUnmoved(i) == RowOf(i, {"op", "slot", "value", "slots"})

SemanticRow(i) == RowOf(i, {"op", "slot", "value", "delta", "slots"})

\* The families in the order sorted() gives their names.
Families == <<"ambiguous_clarify", "direct_power", "direct_slot", "explicit_correction",
              "multi_target", "relative_coreference">>

GroupsOf(xs) ==
    LET present == SelectSeq(Families, LAMBDA f : \E j \in DOMAIN xs : xs[j].family = f)
    IN [k \in DOMAIN present |-> SelectSeq(xs, LAMBDA x : x.family = present[k])]

\* One queue of rows per family: queue k is due, until the limit.
Deal(table, k) ==
    IF Len(table.out) >= Limit \/ table.groups[k] = <<>> THEN table
    ELSE [groups |-> [table.groups EXCEPT ![k] = Tail(@)],
          out    |-> Append(table.out, Head(table.groups[k]))]

\* Each queue is due in turn, at most as often as there are rows.
RoundRobinCap(xs) ==
    LET groups == GroupsOf(xs)
        due    == [n \in 1 .. Len(groups) * Len(xs) |-> ((n - 1) % Len(groups)) + 1]
    IN FoldLeft(Deal, [groups |-> groups, out |-> <<>>], due).out

JudgementRows ==
    LET all == [i \in DOMAIN turns |-> JudgementRow(i)]
        Of(d) == SelectSeq(all, LAMBDA x : x.decision = d)
    IN RoundRobinCap(Of("EXECUTE")) \o RoundRobinCap(Of("CLARIFY"))

SemanticRows ==
    LET meant == SelectSeq([i \in DOMAIN turns |-> i], LAMBDA i : turns[i].what.decision = "EXECUTE")
        groups == GroupsOf([j \in DOMAIN meant |-> SemanticRow(meant[j])])
    IN FlattenSeq([k \in DOMAIN groups |->
            SubSeq(groups[k], 1, IF Len(groups[k]) < Limit THEN Len(groups[k]) ELSE Limit)])

\* Sealed turns and the legacy profile never reach a checkpoint.
Adapt ==
    /\ phase = "valid"
    /\ split \in {"train", "dev"}
    /\ profile # "legacy"
    /\ rows' = [judgement |-> JudgementRows, semantic |-> SemanticRows]
    /\ phase' = "adapted"
    /\ UNCHANGED <<split, profile, length, home, turns, focus, ask>>

-----------------------------------------------------------------------------
Unused ==
    /\ phase = "unused"
    /\ split = None /\ profile = None /\ length = 0 /\ focus = None /\ ask = FALSE
    /\ home = <<>> /\ turns = <<>> /\ rows = <<>>

\* Two thirds of a release train, the rest is halved.
SplitFor(i) ==
    LET train == (Count * 2) \div 3
        dev   == (Count - train) \div 2
    IN IF i < train THEN "train" ELSE IF i < train + dev THEN "dev" ELSE "sealed"

Init ==
    /\ phase = "make"
    /\ split \in {SplitFor(i) : i \in 0 .. Count - 1}
    /\ profile \in {"legacy", "v3_2"}
    /\ length \in Lengths
    /\ home = StateTemplate /\ turns = <<>> /\ focus = None /\ ask = FALSE /\ rows = <<>>

Next ==
    \/ MakeSlot \/ MakePower \/ MakeRelative \/ MakeCorrection \/ MakeMulti
    \/ AskFirst \/ AskAfterMulti \/ Made \/ Validate \/ Adapt

-----------------------------------------------------------------------------
\* What the executor does with a taught patch.
Patched(st, targets, p) ==
    LET Wrote(slots) ==
            CASE p.op = "PATCH_SLOT"     -> [slots EXCEPT ![p.slot] = p.value]
              [] p.op = "PATCH_RELATIVE" -> [slots EXCEPT ![p.slot] = @ + p.delta]
              [] p.op = "CLOSE_DEVICE"   -> [slots EXCEPT !.power = 0]
              [] OTHER -> [s \in Slots |-> IF s \in DOMAIN p.slots THEN p.slots[s] ELSE slots[s]]
    IN [k \in Keys |-> IF k \in Range(targets) THEN Wrote(st[k]) ELSE st[k]]

\* Every row the semantic checkpoint is taught says the whole change: applied
\* by the executor to the home as the oracle had it, the row's patch gives
\* exactly the gold state, so no row teaches a patch that the scorer of the
\* same benchmark would call wrong.
TaughtPatchIsTheOracle ==
    \A i \in DOMAIN turns :
        turns[i].what.decision = "EXECUTE" =>
            LET row == SemanticRow(i) IN
            /\ row.patch.op = "PATCH_RELATIVE" => "delta" \in DOMAIN row.patch
            /\ Patched(GoldBefore(i), row.targets, row.patch) = turns[i].gold_state

\* Of the texts that name no device, a row asks back exactly when its
\* background has no device in focus: the judgement checkpoint is never shown
\* the same background with both answers.
BackgroundDecides ==
    \A i \in DOMAIN turns :
        turns[i].what.family \in {"ambiguous_clarify", "relative_coreference"} =>
            LET row == JudgementRow(i) IN
            (row.decision = "CLARIFY") = (row.background.focused_target = None)

=============================================================================
