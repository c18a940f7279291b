------------------------------ MODULE TaskGraph ------------------------------
(***************************************************************************)
(* The kernel lowering of a guide (compiler/src/kernel): which steps and     *)
(* actions are left for one archetype, the routes and ops they become, and    *)
(* the task graph over the survivors: links, dependencies, lifetimes, derived  *)
(* predicates, combat policies, header and tag census.                        *)
(*                                                                          *)
(* A step is a record of the authoring model's Operation with the fields      *)
(* used below; an action is [enabled, gate, p] with a payload [kind, ...].     *)
(* A gated entry is [value, gate, line].  Positions are small points.         *)
(***************************************************************************)
EXTENDS GuideGates, Conditions, FiniteSetsExt

CONSTANTS
    GoalBandEnd,            \* the last band of GOAL_BAND, 49 in the code
    MaxReward,              \* the largest u8 reward index
    NoPosition, NoTarget,
    ObjectiveItem(_, _)     \* QuestMeta::objective_item, 0 for none

FirstHoldingBand == 34
RideAlongBand == 30
OwnBudget == 60
RideAlongBudget == 30
DefaultArrivalRadius == 5
DefaultLeash == 40

\* The indices of a sequence whose elements pass, and a sequence without repetitions in
\* the order in which its elements are first seen.
Where(s, Test(_)) == {i \in DOMAIN s : Test(s[i])}
Distinct(s) == FoldLeft(LAMBDA seen, x : IF Contains(seen, x) THEN seen ELSE Append(seen, x), <<>>, s)
MapSeq(s, F(_)) == [i \in DOMAIN s |-> F(s[i])]

\* A set of positions, from the first to the last.
Ascending(positions) == SelectSeq([i \in 1..Max({0} \cup positions) |-> i], LAMBDA i : i \in positions)

NoPredicate == [t |-> "none"]
Given(p, otherwise) == IF p # NoPredicate THEN p ELSE otherwise
And(terms) == IF terms = <<>> THEN NoPredicate ELSE Combine("And", terms)

Note(code, about) == <<code, about>>

-----------------------------------------------------------------------------
(* What is left for an archetype. *)

GateOutcome(gate, a) == ResolveGate(gate, a).outcome
Kept(entries, a) == SelectSeq(entries, LAMBDA e : GateOutcome(e.gate, a) = "Applies")
Values(entries) == MapSeq(entries, LAMBDA e : e.value)
AnyRefused(entries, a) == \E i \in DOMAIN entries : GateOutcome(entries[i].gate, a) = "Refused"

\* Mutant: the step's gate alone decides.
GateVerdict(outcomes) == outcomes[1]

\* The first verdict that is not "Applies": later ones are never asked for.
Verdict(outcomes) ==
    LET stops == Where(outcomes, LAMBDA o : o # "Applies")
    IN  IF stops = {} THEN "Applies" ELSE outcomes[Min(stops)]

StepVerdict(step, a) ==
    IF ~step.enabled THEN "Disabled"
    ELSE Verdict(<<GateOutcome(step.gate, a)>>
                 \o MapSeq(step.directives, LAMBDA d : ResolveDirective(d, a).outcome))

Enabled(step) == SelectSeq(step.actions, LAMBDA act : act.enabled)
SurvivingActions(step, a) == Kept(Enabled(step), a)
Payloads(step, a) == MapSeq(SurvivingActions(step, a), LAMBDA act : act.p)
OfKind(payloads, kind) == SelectSeq(payloads, LAMBDA p : p.kind = kind)

\* The lowered conditions of a role, in authored order.
Terms(payloads, role) ==
    LET conditions == SelectSeq(OfKind(payloads, "Condition"), LAMBDA p : p.role = role)
    IN  MapSeq(conditions, LAMBDA p : LowerPredicate(p.expression).p)

\* Everything about a step that can refuse the whole compilation, as far as it is looked at.
StepRefused(step, a) ==
    LET verdict == StepVerdict(step, a)
        survivors == SurvivingActions(step, a)
    IN  \/ verdict = "Refused"
        \/ /\ verdict = "Applies"
           /\ \/ AnyRefused(Enabled(step), a)
              \/ \E i \in DOMAIN survivors : survivors[i].p.kind = "Condition"
                                             /\ ~LowerPredicate(survivors[i].p.expression).ok
              \/ survivors # <<>>
                   /\ (AnyRefused(step.labels, a) \/ AnyRefused(step.requires, a)
                       \/ AnyRefused(step.completeWith, a) \/ AnyRefused(step.optional, a))

Survives(step, a) == StepVerdict(step, a) = "Applies" /\ SurvivingActions(step, a) # <<>>

-----------------------------------------------------------------------------
(* Routes and ops.  A run of movements is flushed into routes by the first op that  *)
(* follows it.                                                                     *)

\* lower_route: a route carries one mode, so a change of medium starts another.
Segments(movements) ==
    FoldLeft(LAMBDA segs, m :
                IF segs # <<>> /\ segs[Len(segs)][1].mode = m.mode
                THEN [segs EXCEPT ![Len(segs)] = Append(@, m)]
                ELSE Append(segs, <<m>>),
             <<>>, movements)

RouteKind(segment, looping) ==
    IF looping THEN "Circuit" ELSE IF Len(segment) <= 1 THEN "Destination" ELSE "Corridor"

Route(segment, looping) ==
    [kind |-> RouteKind(segment, looping), mode |-> segment[1].mode,
     points |-> MapSeq(segment, LAMBDA m : m.point), radii |-> MapSeq(segment, LAMBDA m : m.radius)]

Radius(travel) == IF travel.radius = -1 THEN DefaultArrivalRadius ELSE travel.radius
Movement(travel) == [point |-> travel.position, radius |-> Radius(travel), mode |-> travel.medium]
Placed(run) == SelectSeq(run, LAMBDA travel : travel.position # NoPosition)

\* flush_route: a travel without a position adds no waypoint.
Routes(run, looping) ==
    MapSeq(Segments(MapSeq(Placed(run), Movement)),
           LAMBDA seg : [op |-> "Travel", route |-> Route(seg, looping)])

\* lower_op: the ops the kernel has, and nothing for the rest.
Lowered(p) ==
    CASE p.kind = "Accept" -> <<[op |-> "Accept", quest |-> p.quest]>>
      [] p.kind = "TurnIn" ->
             <<[op |-> "TurnIn", quest |-> p.quest, optional |-> p.optional,
                reward |-> IF p.reward <= MaxReward THEN p.reward ELSE 0]>>
      [] p.kind = "UseItem" -> <<[op |-> "UseItem", item |-> p.item]>>
      [] OTHER -> <<>>

\* Mutant: a comment between two legs of a walk ends it.
EveryLineBreaksRun(p) == p.kind \notin {"Condition", "Kill", "Travel"}

\* Conditions, kills and comments neither extend a walk nor end one.
BreaksRun(p) == p.kind \notin {"Condition", "Kill", "Comment", "Travel"}

LowerOps(payloads, looping) ==
    LET Flushed(acc) == acc.ops \o Routes(acc.run, looping)
        Step(acc, p) ==
            IF p.kind = "Travel" THEN [acc EXCEPT !.run = Append(@, p)]
            ELSE IF BreaksRun(p) THEN [run |-> <<>>, ops |-> Flushed(acc) \o Lowered(p)]
            ELSE acc
    IN  Flushed(FoldLeft(Step, [run |-> <<>>, ops |-> <<>>], payloads))

IsMovement(op) == op.op = "Travel"
HandIns(ops) == SelectSeq(ops, LAMBDA op : op.op = "TurnIn")

\* WaypointPool: every point once, in the order the guide wrote them.
WaypointPool(tasks) ==
    LET OpPoints(op) == IF IsMovement(op) THEN op.route.points ELSE <<>>
    IN  Distinct(FlattenSeq(MapSeq(tasks, LAMBDA t : FlattenSeq(MapSeq(t.ops, OpPoints)))))

-----------------------------------------------------------------------------
(* Reading predicates. *)

QuestsIn(p, tags) ==
    IF p = NoPredicate THEN <<>>
    ELSE MapSeq(SelectSeq(Leaves(p), LAMBDA l : l.t \in tags), LAMBDA l : l.args[1])

ObjectiveQuests(p) == Distinct(QuestsIn(p, {"QuestObjective"}))
QuestTags == {"QuestComplete", "QuestObjective", "QuestInLog", "QuestTurnedIn", "QuestAvailable"}

\* collect_loot_rules: an objective that asks for an item keeps it from being sold.
LootRules(terms) ==
    LET objectives == SelectSeq(FlattenSeq(MapSeq(terms, Leaves)), LAMBDA l : l.t = "QuestObjective")
        items == SelectSeq(objectives, LAMBDA l : ObjectiveItem(l.args[1], l.args[2]) # 0)
    IN  Distinct(MapSeq(items, LAMBDA l : [item |-> ObjectiveItem(l.args[1], l.args[2]),
                                           quest |-> l.args[1]]))

\* authored_lines: the step's own span, else the span of its gated entries.
AuthoredLines(step) ==
    LET Of(entries) == {entries[i].line : i \in DOMAIN entries}
        lines == Of(step.labels) \cup Of(step.requires) \cup Of(step.completeWith)
                 \cup Of(step.optional) \cup Of(step.directives)
    IN  IF step.span # <<>> THEN <<step.span[1], Max({step.span[1], step.span[2]})>>
        ELSE IF lines = {} THEN <<0, 0>> ELSE <<Min(lines), Max(lines)>>

\* resolve_operations, for a step that survives.
SurvivingStep(step, a) ==
    LET payloads == Payloads(step, a)
    IN  [ops |-> LowerOps(payloads, step.looping),
         labels |-> Values(Kept(step.labels, a)),
         requires |-> Values(Kept(step.requires, a)),
         completeWith |-> Values(Kept(step.completeWith, a)),
         sticky |-> step.sticky, looping |-> step.looping,
         kills |-> OfKind(payloads, "Kill"),
         blocking |-> Kept(step.optional, a) = <<>>,
         completeWhen |-> And(Terms(payloads, "Completion")),
         appliesWhen |-> And(Terms(payloads, "Applicability")),
         loot |-> LootRules(Terms(payloads, "Completion")),
         lines |-> AuthoredLines(step)]

Survivors(steps, a) ==
    MapSeq(SelectSeq(steps, LAMBDA s : Survives(s, a)), LAMBDA s : SurvivingStep(s, a))

-----------------------------------------------------------------------------
(* Labels, links and dependencies, all in the order of the survivors. *)

Defining(survivors, label) == Where(survivors, LAMBDA s : Contains(s.labels, label))

\* Mutant: the first definition of a label stays.
FirstLabelled(survivors, label) ==
    LET defining == Defining(survivors, label) IN IF defining = {} THEN 0 ELSE Min(defining)

\* build_label_table: a later definition replaces an earlier one; 0 for none.
LabelledTask(survivors, label) ==
    LET defining == Defining(survivors, label) IN IF defining = {} THEN 0 ELSE Max(defining)

Next == "next"
Own == [source |-> "OwnPredicate"]
LinkedTo(i) == [source |-> "LinkedTo", task |-> i]

\* resolve_completion: the first `#completewith` left, unless it leads nowhere or to itself.
Completion(survivors, i) ==
    LET wanted == survivors[i].completeWith
        target == IF wanted = <<>> THEN 0
                  ELSE IF wanted[1] = Next THEN (i + 1) % (Len(survivors) + 1)
                  ELSE LabelledTask(survivors, wanted[1])
    IN  IF target \in {0, i} THEN Own ELSE LinkedTo(target)

Deps(survivors, i) ==
    LET named == MapSeq(survivors[i].requires, LAMBDA l : LabelledTask(survivors, l))
    IN  Distinct(SelectSeq(named, LAMBDA t : t \notin {0, i}))

\* linked_completion: the completion at the end of the chain of links, if it is not a ring.
RECURSIVE InheritedCompletion(_, _, _, _)
InheritedCompletion(links, own, i, visited) ==
    IF links[i] = Own \/ links[i].task \in visited THEN NoPredicate
    ELSE Given(own[links[i].task],
               InheritedCompletion(links, own, links[i].task, visited \cup {links[i].task}))

-----------------------------------------------------------------------------
(* Derived predicates. *)

QuestLeaf(tag, quest) == Leaf(tag, <<quest>>)

\* hand_in_predicates: only a single hand-in implies anything.
HandInGate(ops) ==
    IF Len(HandIns(ops)) = 1 THEN QuestLeaf("QuestComplete", HandIns(ops)[1].quest) ELSE NoPredicate
HandInCompletion(ops) ==
    IF Len(HandIns(ops)) = 1 THEN QuestLeaf("QuestTurnedIn", HandIns(ops)[1].quest) ELSE NoPredicate

EffectiveCompletion(survivor) == Given(survivor.completeWhen, HandInCompletion(survivor.ops))

\* quest_log_gate.
QuestLogGate(completion) ==
    And(MapSeq(ObjectiveQuests(completion), LAMBDA q : QuestLeaf("QuestInLog", q)))

AppliesWhen(survivor) ==
    Given(survivor.appliesWhen,
          Given(IF survivor.completeWhen = NoPredicate THEN HandInGate(survivor.ops) ELSE NoPredicate,
                QuestLogGate(EffectiveCompletion(survivor))))

\* The quests this artifact hands in.
TurnedIn(survivors) ==
    UNION {{op.quest : op \in ToSet(HandIns(survivors[i].ops))} : i \in DOMAIN survivors}

\* Mutant: some guide will hand the quest in.
HandInSomewhere(completion, turnedIn) ==
    LET quests == ObjectiveQuests(completion)
    IN  IF Len(quests) = 1 THEN QuestLeaf("QuestTurnedIn", quests[1]) ELSE NoPredicate

\* hand_in_termination: a farm for one quest lasts until that quest is handed in.
HandInTermination(completion, turnedIn) ==
    LET quests == ObjectiveQuests(completion)
    IN  IF Len(quests) = 1 /\ quests[1] \in turnedIn THEN QuestLeaf("QuestTurnedIn", quests[1])
        ELSE NoPredicate

TerminateOn(survivors, links, i) ==
    LET completions == MapSeq(survivors, EffectiveCompletion)
    IN  Given(HandInTermination(completions[i], TurnedIn(survivors)),
              Given(completions[i], InheritedCompletion(links, completions, i, {i})))

\* No termination at all is the disjunction of nothing.
Never == Branch("Or", <<>>)

-----------------------------------------------------------------------------
(* Lifetimes. *)

HoldsMovement(survivor) == survivor.sticky /\ \E i \in DOMAIN survivor.ops : IsMovement(survivor.ops[i])

\* The running offset: one band per task that holds a channel, clamped at the end.
HoldingBand(survivors, i) ==
    LET holders == Cardinality({j \in 1..(i - 1) : HoldsMovement(survivors[j])})
    IN  Min({FirstHoldingBand + holders, GoalBandEnd})

Exclusive == [life |-> "Exclusive"]

Lifetime(survivors, links, i) ==
    IF ~survivors[i].sticky /\ links[i] = Own THEN Exclusive
    ELSE [life |-> "Background",
          channels |-> IF HoldsMovement(survivors[i]) THEN {"Movement"} ELSE {},
          band |-> IF HoldsMovement(survivors[i]) THEN HoldingBand(survivors, i) ELSE RideAlongBand,
          terminateOn |-> Given(TerminateOn(survivors, links, i), Never)]

-----------------------------------------------------------------------------
(* Combat (kernel/combat.rs). *)

MonotoneProgress(p) == p.t \in {"XpAtLeast", "LevelAtLeast"}
Creatures(kills) == FlattenSeq(MapSeq(kills, LAMBDA k : k.creatures))

Stance(kills, looping, completion) ==
    LET namesMob == \E i \in DOMAIN kills : ~kills[i].watch
    IN  IF MonotoneProgress(completion)
            \/ (looping /\ namesMob /\ completion.t = "QuestObjective") THEN "Aggressive"
        ELSE IF kills # <<>> THEN "Objective" ELSE "Defensive"

Leash(looping, ops) ==
    LET radii == UNION {ToSet(op.route.radii) : op \in {o \in ToSet(ops) : IsMovement(o)}}
    IN  IF looping /\ \E r \in radii : r > 0 THEN Max(radii) ELSE DefaultLeash

\* A task that wants what the profile says carries no policy of its own.
DefaultPolicy == [stance |-> "Defensive", targets |-> <<>>, watch |-> <<>>,
                  leash |-> DefaultLeash, adds |-> TRUE]

NoPolicy == [stance |-> "profile default"]

CombatPolicy(survivor) ==
    LET stance == Stance(survivor.kills, survivor.looping, EffectiveCompletion(survivor))
    IN  [stance |-> stance,
         targets |-> Distinct(Creatures(survivor.kills)),
         watch |-> Distinct(Creatures(SelectSeq(survivor.kills, LAMBDA k : k.watch))),
         leash |-> Leash(survivor.looping, survivor.ops),
         adds |-> stance # "Objective"]

-----------------------------------------------------------------------------
(* Tasks. *)

Irreversible(op) == op.op \in {"TurnIn", "Abandon", "DestroyItem", "Delegate"}
Defer(ticks) == <<"Defer", ticks>>

\* What an unknown predicate does to the task, by what the task does.
UnknownPolicy(survivor, link) ==
    IF \E i \in DOMAIN survivor.ops : Irreversible(survivor.ops[i]) THEN <<"Block">>
    ELSE IF MonotoneProgress(EffectiveCompletion(survivor)) THEN <<"TreatFalse">>
    ELSE IF link = Own THEN Defer(OwnBudget) ELSE Defer(RideAlongBudget)

ServesQuests(ops, predicates) ==
    LET named == SelectSeq(ops, LAMBDA op : op.op \in {"Accept", "TurnIn"})
    IN  Distinct(MapSeq(named, LAMBDA op : op.quest)
                 \o FlattenSeq(MapSeq(predicates, LAMBDA p : QuestsIn(p, QuestTags))))

Task(survivors, links, i) ==
    LET s == survivors[i]
        lifetime == Lifetime(survivors, links, i)
        ending == IF lifetime = Exclusive THEN NoPredicate ELSE lifetime.terminateOn
    IN  [id |-> i, deps |-> Deps(survivors, i), blocking |-> s.blocking, lifetime |-> lifetime,
         completion |-> links[i],
         appliesWhen |-> AppliesWhen(s), completeWhen |-> EffectiveCompletion(s),
         unknown |-> UnknownPolicy(s, links[i]),
         combat |-> IF CombatPolicy(s) = DefaultPolicy THEN NoPolicy ELSE CombatPolicy(s),
         ops |-> s.ops, loot |-> s.loot,
         serves |-> ServesQuests(s.ops, <<AppliesWhen(s), EffectiveCompletion(s), ending>>),
         lines |-> s.lines]

AssembleTasks(survivors) ==
    LET links == [i \in DOMAIN survivors |-> Completion(survivors, i)]
    IN  [i \in DOMAIN survivors |-> Task(survivors, links, i)]

\* tag_census: every tag of an op or a predicate of the artifact.
PredicatesOf(task) ==
    {task.appliesWhen, task.completeWhen,
     IF task.lifetime = Exclusive THEN NoPredicate ELSE task.lifetime.terminateOn} \ {NoPredicate}

TagCensus(tasks) ==
    UNION {{op.op : op \in ToSet(tasks[i].ops)} \cup UNION {TagsOf(p) : p \in PredicatesOf(tasks[i])}
           : i \in DOMAIN tasks}

-----------------------------------------------------------------------------
(* The header (kernel/meta.rs): one entry of each kind, every `#next`.            *)

FirstOr(entries, otherwise) == IF entries = <<>> THEN otherwise ELSE entries[1]

GuideMeta(project, a) ==
    LET headers == project.headers
        Surviving(entries) == Values(Kept(entries, a))
    IN  [name |-> FirstOr(Surviving(headers.name), project.name),
         group |-> FirstOr(Surviving(headers.group), ""),
         next |-> Surviving(headers.next)]

HeaderRefused(project, a) ==
    \E entries \in {project.headers.name, project.headers.group, project.headers.next} :
        AnyRefused(entries, a)

-----------------------------------------------------------------------------
(* What the compiler says about it. *)

StepNotes(survivors, i) ==
    LET s == survivors[i]
        links == [j \in DOMAIN survivors |-> Completion(survivors, j)]
        wanted == s.completeWith
        N(condition, code) == IF condition THEN {Note(code, i)} ELSE {}
    IN  N(\E l \in ToSet(s.requires) : LabelledTask(survivors, l) = 0, "UNRESOLVED_REQUIRES_LABEL")
        \cup N(\E l \in ToSet(s.requires) : LabelledTask(survivors, l) = i, "SELF_REQUIRES_LABEL")
        \cup N(Len(wanted) > 1, "MULTIPLE_COMPLETEWITH")
        \cup N(wanted # <<>> /\ links[i] = Own,
               IF wanted[1] = Next THEN "UNRESOLVED_COMPLETEWITH_NEXT"
               ELSE IF LabelledTask(survivors, wanted[1]) = i THEN "SELF_COMPLETEWITH"
               ELSE "UNRESOLVED_COMPLETEWITH_LABEL")
        \cup N(Len(HandIns(s.ops)) > 1, "HAND_IN_PREDICATES_NOT_DERIVED")
        \cup N(\E l \in ToSet(s.labels) : \E j \in Defining(survivors, l) : j < i,
               "DUPLICATE_STEP_LABEL")
        \cup N(HoldsMovement(s) /\ HoldingBand(survivors, i) = GoalBandEnd, "BAND_OFFSET_SATURATED")
        \cup N(Lifetime(survivors, links, i) # Exclusive
                 /\ TerminateOn(survivors, links, i) = NoPredicate, "BACKGROUND_WITHOUT_TERMINATION")

ActionNotes(payloads) ==
    UNION {CASE p.kind = "Travel" /\ p.position = NoPosition -> {Note("TRAVEL_WITHOUT_POSITION", 0)}
             [] p.kind = "TurnIn" /\ p.reward > MaxReward -> {Note("REWARD_CHOICE_OUT_OF_RANGE", 0)}
             [] p.kind = "UseItem" /\ p.target # NoTarget -> {Note("USE_ITEM_TARGET_DROPPED", 0)}
             [] BreaksRun(p) /\ Lowered(p) = <<>> -> {Note("KERNEL_OP_NOT_LOWERED", p.kind)}
             [] OTHER -> {}
           : p \in ToSet(payloads)}

Refusal == [refused |-> TRUE]

\* compile_kernel.
CompileKernel(project, a) ==
    LET actionNotes == UNION {ActionNotes(Payloads(s, a)) : s \in {t \in ToSet(project.steps) : Survives(t, a)}}
        WithNotes(tasks, notes) ==
            [refused |-> FALSE, tasks |-> tasks, pool |-> WaypointPool(tasks),
             tags |-> TagCensus(tasks), meta |-> GuideMeta(project, a), notes |-> notes]
        Artifact(survivors) ==
            WithNotes(AssembleTasks(survivors),
                    actionNotes \cup UNION {StepNotes(survivors, i) : i \in DOMAIN survivors})
    IN  IF (\E s \in ToSet(project.steps) : StepRefused(s, a)) \/ HeaderRefused(project, a)
        THEN Refusal
        ELSE Artifact(Survivors(project.steps, a))
=============================================================================
