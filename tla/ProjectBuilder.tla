---------------------------- MODULE ProjectBuilder ----------------------------
(***************************************************************************)
(* A project from a parsed guide (importer/src/project_builder.rs), with the *)
(* coordinate transform it calls (shared/src/movement.rs), and the files of   *)
(* an import run (editor/src/bin/import-guides.rs).                           *)
(*                                                                          *)
(* The builder asks the query server as it goes.  Its state is threaded       *)
(* through the commands: the number of calls made, the calls that fail on the  *)
(* way, the two libraries, the diagnostics, and the NPC of the last `.target`. *)
(* An argument of a command is Number(n), Ident(name), or Junk; a count may be *)
(* Compared(op, n), a level Shifted(level, offset), a place RawMap(map).       *)
(***************************************************************************)
EXTENDS GuideParser, QuestCompiler

CONSTANTS
    DbNpcs,         \* entry -> [name, position], the world database
    DbQuests,       \* quest -> [giver, finisher, prerequisites, objectives]
    DbItems,        \* item -> the creatures that drop it
    DbSearch,       \* name -> the rows [entry, name] found under it, best first
    Zones           \* zone -> [map, top, left, bottom, right], in hundredths

Junk == [k |-> "junk"]
Compared(op, n) == [k |-> "compared", op |-> op, v |-> n]
OffsetBy(level, offset) == [k |-> "offset", v |-> level, offset |-> offset]
RawMap(map) == [k |-> "raw map", v |-> map]

NoEntry == 0
NoQuantity == -1
Answer(st, value) == [st |-> st, value |-> value]
Noted(st, code, about) == [st EXCEPT !.notes = Append(@, Note(code, about))]

-----------------------------------------------------------------------------
(* The query server: each call may fail on the way. *)

Called(st) == [st EXCEPT !.calls = @ + 1]
Reached(st) == st.calls + 1 \notin st.outage

NpcRecord(entry) == [id |-> entry, entry |-> entry, position |-> DbNpcs[entry].position]

\* Mutant: an NPC is put in the library whenever it is asked for.
ResolveNpcAfresh(st, entry) ==
    IF Reached(st) /\ entry \in DOMAIN DbNpcs
    THEN Answer([Called(st) EXCEPT !.npcs = Append(@, NpcRecord(entry))], entry)
    ELSE Answer(Noted(Called(st), "UNRESOLVED_NPC", entry), NoNpc)

\* An NPC is in the library once, and its entry stands for its id; "absent" and "unreachable"
\* leave the same hole under two names.
ResolveNpcByEntry(st, entry) ==
    IF entry \in LibraryIds(st) THEN Answer(st, entry)
    ELSE IF ~Reached(st) THEN Answer(Noted(Called(st), "QUERY_UNREACHABLE", entry), NoNpc)
    ELSE IF entry \notin DOMAIN DbNpcs THEN Answer(Noted(Called(st), "UNRESOLVED_NPC", entry), NoNpc)
    ELSE Answer([Called(st) EXCEPT !.npcs = Append(@, NpcRecord(entry))], entry)

Found(name) == IF name \in DOMAIN DbSearch THEN DbSearch[name] ELSE <<>>

ResolveNpcByName(st, name) ==
    IF ~Reached(st) THEN Answer(Noted(Called(st), "QUERY_UNREACHABLE", name), NoNpc)
    ELSE IF Found(name) = <<>> THEN Answer(Noted(Called(st), "UNRESOLVED_NPC", name), NoNpc)
    ELSE ResolveNpcByEntry(Called(st), Found(name)[1].entry)

\* The creatures of a name: the exact ones, or else everything the search returned.
ResolveCreaturesByName(st, name) ==
    LET Entries(rows) == MapSeq(rows, LAMBDA r : r.entry)
        exact == SelectSeq(Found(name), LAMBDA r : r.name = name)
    IN  IF ~Reached(st) THEN Answer(Noted(Called(st), "QUERY_UNREACHABLE", name), <<>>)
        ELSE IF Found(name) = <<>> THEN Answer(Noted(Called(st), "UNRESOLVED_MOB", name), <<>>)
        ELSE Answer(Called(st), Entries(IF exact = <<>> THEN Found(name) ELSE exact))

ResolveEnd(st, entry) == IF entry = NoEntry THEN Answer(st, NoNpc) ELSE ResolveNpcByEntry(st, entry)

QuestRecord(id, giver, finisher) ==
    [id |-> id, giver |-> giver, finisher |-> finisher, prerequisites |-> DbQuests[id].prerequisites]

Unresolvable == [id |-> NoEntry]

\* A quest is asked for once, with the NPCs at both its ends as they were found then.
ResolveQuest(st, id) ==
    LET known == {q \in ToSet(st.quests) : q.id = id}
        giver == ResolveEnd(Called(st), DbQuests[id].giver)
        finisher == ResolveEnd(giver.st, DbQuests[id].finisher)
        record == QuestRecord(id, giver.value, finisher.value)
    IN  IF known # {} THEN Answer(st, CHOOSE q \in known : TRUE)
        ELSE IF ~Reached(st) THEN Answer(Noted(Called(st), "QUERY_UNREACHABLE", id), Unresolvable)
        ELSE IF id \notin DOMAIN DbQuests THEN Answer(Noted(Called(st), "UNRESOLVED_QUEST", id), Unresolvable)
        ELSE Answer([finisher.st EXCEPT !.quests = Append(@, record)], record)

\* resolve_npc_with_hints, without a name: the first hint that leads to an NPC.
FromHints(st, hints) ==
    FoldLeft(LAMBDA acc, h : IF acc.value # NoNpc THEN acc ELSE ResolveNpcByName(acc.st, h),
             Answer(st, NoNpc), hints)

TargetOrHints(st, step) == IF st.target # NoNpc THEN Answer(st, st.target) ELSE FromHints(st, step.hints)

-----------------------------------------------------------------------------
(* resolve_coordinate: fields 2 and 3 are world Y and world X. *)

\* ZoneMap::to_world, on percentages.
ToWorld(zone, percentX, percentY) ==
    [map |-> zone.map, x |-> zone.top + (percentY * (zone.bottom - zone.top)) \div 100,
     y |-> zone.left + (percentX * (zone.right - zone.left)) \div 100]

Refused(code) == [ok |-> FALSE, code |-> code]

\* The number of fields is looked at first, then the numbers, then the place.
ResolveCoordinate(fields) ==
    LET place == fields[1]
        y == fields[2].v
        x == fields[3].v
    IN  IF Len(fields) \notin 3..5 THEN Refused("MALFORMED_MOVEMENT_ARITY")
        ELSE IF fields[2].k # "number" \/ fields[3].k # "number" THEN Refused("MALFORMED_MOVEMENT_COORDINATE")
        ELSE IF place.k = "raw map" THEN [ok |-> TRUE, at |-> [map |-> place.v, x |-> x, y |-> y]]
        ELSE IF place.k # "junk" /\ <<place.k, place.v>> \in DOMAIN Zones
             THEN [ok |-> TRUE, at |-> ToWorld(Zones[<<place.k, place.v>>], y, x)]
        ELSE Refused("UNMAPPED_GOTO_ZONE")

-----------------------------------------------------------------------------
(* Conditions of a command, as the tokens of their text; <<>> for arguments that cannot    *)
(* be read.                                                                              *)

Call(name, args) ==
    <<Ident(name), Token("(")>>
    \o FlattenSeq([i \in DOMAIN args |-> IF i = 1 THEN <<Number(args[1])>>
                                        ELSE <<Token(","), Number(args[i])>>])
    \o <<Token(")")>>

Refuse == <<>>
Not(expression) == IF expression = Refuse THEN Refuse ELSE <<Token("NOT")>> \o expression

IsNumber(args, i) == i \in DOMAIN args /\ args[i].k = "number" /\ Word(args[i].v)

\* item_count_dsl: everything is put in terms of "at least".
ItemCount(item, count) ==
    LET AtLeast(n) == IF Word(n) THEN Call("ItemCount", <<item, n>>) ELSE Refuse
    IN  CASE count.k = "number" -> AtLeast(count.v)
          [] count.k # "compared" -> Refuse
          [] count.op = ">=" -> AtLeast(count.v)
          [] count.op = ">" -> AtLeast(count.v + 1)
          [] count.op = "<" -> Not(AtLeast(count.v))
          [] count.op = "<=" -> Not(AtLeast(count.v + 1))

\* quest_ids_dsl: any of the quests.
AnyQuest(args, Said(_)) ==
    IF args = <<>> \/ \E i \in DOMAIN args : ~IsNumber(args, i) THEN Refuse
    ELSE Tail(FlattenSeq(MapSeq(args, LAMBDA a : <<Token("||")>> \o Said(a.v))))

Waits == {"complete", "collect", "itemcount"}
Asks == {"isOnQuest", "isQuestComplete", "isQuestTurnedIn", "isQuestAvailable"}

GatingCondition(name, args) ==
    CASE name = "complete" ->
             IF IsNumber(args, 1) /\ IsNumber(args, 2)
             THEN Call("Objective", <<args[1].v, args[2].v>>) ELSE Refuse
      [] name \in {"collect", "itemcount"} ->
             IF IsNumber(args, 1)
             THEN ItemCount(args[1].v, IF Len(args) > 1 THEN args[2] ELSE Number(1)) ELSE Refuse
      [] name = "isOnQuest" -> AnyQuest(args, LAMBDA q : Call("QuestAccepted", <<q>>))
      [] name = "isQuestComplete" -> AnyQuest(args, LAMBDA q : Call("QuestCompleted", <<q>>))
      [] name = "isQuestTurnedIn" -> AnyQuest(args, LAMBDA q : Call("QuestRewarded", <<q>>))
      [] name = "isQuestAvailable" -> AnyQuest(args, LAMBDA q : Not(Call("QuestRewarded", <<q>>)))

\* xp_gate_dsl: a level, or a level and an offset; the skip forms have a second argument.
XpGate(args) ==
    IF Len(args) # 1 \/ ~(args[1].k \in {"number", "offset"} /\ Byte(args[1].v)) THEN Refuse
    ELSE IF args[1].k = "number" THEN Call("LevelAtLeast", <<args[1].v>>)
    ELSE IF Signed(args[1].offset) THEN Call("XpAtLeast", <<args[1].v, args[1].offset>>)
    ELSE Refuse

SubzoneArea(args) ==
    IF Len(args) = 1 /\ IsNumber(args, 1) THEN Call("InSubArea", <<args[1].v>>) ELSE Refuse
-----------------------------------------------------------------------------
(* build_step_actions. *)

Says(name, why) == [kind |-> "Comment", command |-> name, why |-> why]
Inert(st, step, c) == Answer(Noted(st, "COMMAND_PRESERVED_INERT", step.line), <<Says(c.name, "inert")>>)
Malformed(st, step, c, code) == Answer(Noted(st, code, step.line), <<Says(c.name, "malformed")>>)
Unplaced(st, c) == Answer(st, <<Says(c.name, "unresolved")>>)

Condition(st, expression, role) ==
    Answer(st, <<[kind |-> "Condition", expression |-> expression, role |-> role]>>)

HasOptional(step) == DirectivesNamed(step, "optional") # <<>>

\* `.accept` and `.turnin`: the NPC of the world database, or else of the last `.target`.
QuestCommand(st, step, c) ==
    LET Npc(end) == IF end = NoNpc THEN st.target ELSE end
        reward == IF IsNumber(c.args, 2) THEN c.args[2].v ELSE 0
        Act(quest) ==
            IF c.name = "accept" THEN [kind |-> "Accept", quest |-> quest.id, npc |-> Npc(quest.giver)]
            ELSE [kind |-> "TurnIn", quest |-> quest.id, npc |-> Npc(quest.finisher), reward |-> reward,
                  optional |-> HasOptional(step)]
        With(found) == IF found.value = Unresolvable THEN Unplaced(found.st, c)
                       ELSE Answer(found.st, <<Act(found.value)>>)
    IN  IF IsNumber(c.args, 1) THEN With(ResolveQuest(st, c.args[1].v)) ELSE Answer(st, <<>>)

Medium == [goto |-> "any", waypoint |-> "any", groundgoto |-> "ground", flygoto |-> "air"]

\* A movement that leads nowhere stays, without a position.
Movement_(st, step, c) ==
    LET place == ResolveCoordinate(c.args)
        Travel(position) ==
            <<[kind |-> "Travel", position |-> position, medium |-> Medium[c.name],
               radius |-> IF 4 \in DOMAIN c.args /\ c.args[4].k = "number" /\ c.args[4].v \in 0..MaxWord
                          THEN c.args[4].v ELSE -1]>>
    IN  IF place.ok THEN Answer(st, Travel(place.at))
        ELSE Answer(Noted(st, place.code, step.line), Travel(NoPosition))

\* Commands that act at the NPC of the last `.target`, or one the step's notes name.
ServiceKind == [vendor |-> "Vendor", train |-> "Train", fly |-> "Flight", fp |-> "LearnFlightPath"]

ServiceCommand(st, step, c) ==
    LET found == TargetOrHints(st, step)
    IN  IF found.value = NoNpc THEN Unplaced(found.st, c)
        ELSE Answer(found.st, <<[kind |-> ServiceKind[c.name], npc |-> found.value]>>)

\* `.mob` and `.unitscan`: entries, and names looked up; equal neighbours are merged.
KillCommand(st, c) ==
    LET Add(entries, e) == IF entries # <<>> /\ Last(entries) = e THEN entries ELSE Append(entries, e)
        Look(acc, arg) ==
            IF arg.k = "number" THEN Answer(acc.st, Append(acc.value, arg.v))
            ELSE LET found == ResolveCreaturesByName(acc.st, arg.v)
                 IN  Answer(found.st, acc.value \o found.value)
        named == FoldLeft(Look, Answer(st, <<>>), c.args)
    IN  Answer(named.st, <<[kind |-> "Kill", creatures |-> FoldLeft(Add, <<>>, named.value),
                            watch |-> c.name = "unitscan", quantity |-> NoQuantity]>>)

\* What one command becomes.
CommandActions(st, step, c) ==
    LET ending == IF c.name = "xp" THEN XpGate(c.args) ELSE SubzoneArea(c.args)
        gate == GatingCondition(c.name, c.args)
        named == IF c.args # <<>> THEN ResolveNpcByName(st, c.args[1].v) ELSE FromHints(st, step.hints)
    IN  CASE c.name = "target" -> Answer([named.st EXCEPT !.target = named.value], <<>>)
          [] c.name \in {"accept", "turnin"} -> QuestCommand(st, step, c)
          [] c.name \in DOMAIN Medium -> Movement_(st, step, c)
          [] c.name \in DOMAIN ServiceKind -> ServiceCommand(st, step, c)
          [] c.name = "hs" -> Answer(st, <<[kind |-> "Hearth", npc |-> NoNpc]>>)
          [] c.name \in {"mob", "unitscan"} -> KillCommand(st, c)
          [] c.name \in {"xp", "subzone"} ->
                 IF ending = Refuse THEN Inert(st, step, c) ELSE Condition(st, ending, "Completion")
          [] c.name \in Waits \cup Asks ->
                 IF gate = Refuse THEN Malformed(st, step, c, "MALFORMED_GATING_ARGS")
                 ELSE Condition(st, gate, IF c.name \in Waits THEN "Completion" ELSE "Applicability")
          [] c.name \in {"item", "use"} ->
                 Answer(st, IF IsNumber(c.args, 1)
                            THEN <<[kind |-> "UseItem", item |-> c.args[1].v, target |-> NoTarget]>>
                            ELSE <<>>)
          [] c.name = "trainer" ->
                 Answer(st, IF st.target = NoNpc THEN <<>> ELSE <<[kind |-> "Train", npc |-> st.target]>>)
          [] c.name = "abandon" ->
                 IF IsNumber(c.args, 1) THEN Unplaced(st, c)
                 ELSE Malformed(st, step, c, "MALFORMED_ABANDON_ARGS")
          [] OTHER -> Inert(st, step, c)

\* A tail as parse_class_guard reads its text: one `!` in front of a list of names.
Restriction(gate) ==
    LET Name(i) == IF Len(gate[i]) = 1 /\ (i = 1 \/ ~gate[i][1].neg) THEN gate[i][1].token ELSE "no class"
    IN  IF gate = Ungated THEN <<>>
        ELSE [neg |-> gate[1][1].neg, names |-> [i \in DOMAIN gate |-> Name(i)]]

Action(p, suffix) == [enabled |-> TRUE, gate |-> suffix, restriction |-> Restriction(suffix), p |-> p]

\* The commands of a step in order; a command's tail is stamped on all it became.
BuildStepActions(st, step) ==
    LET Stamped(acc, made, c) ==
            Answer(made.st, acc.value \o MapSeq(made.value, LAMBDA p : Action(p, c.suffix)))
        Build(acc, c) == Stamped(acc, CommandActions(acc.st, step, c), c)
    IN  FoldLeft(Build, Answer([st EXCEPT !.target = NoNpc], <<>>), step.commands)

-----------------------------------------------------------------------------
(* enrich_unsatisfiable_gates: a gate no earlier action of the step can open gets a kill in  *)
(* front of it.                                                                           *)

Satisfying == {"Kill", "UseItem", "InteractNPC", "LootObject", "GrindArea"}

\* The arguments of an expression that is one call of `name`, else <<>>.
ArgsOfCall(expression, name) ==
    IF Len(expression) = 6 /\ expression[1] = Ident(name) THEN <<expression[3].v, expression[5].v>>
    ELSE <<>>

\* What a gate counts: an objective of a quest or an item; <<>> for any other action.
CountedBy(p) ==
    IF p.kind = "Condition" /\ p.role = "Completion"
    THEN IF ArgsOfCall(p.expression, "Objective") # <<>>
         THEN <<"objective">> \o ArgsOfCall(p.expression, "Objective")
         ELSE IF ArgsOfCall(p.expression, "ItemCount") # <<>>
              THEN <<"item">> \o ArgsOfCall(p.expression, "ItemCount") ELSE <<>>
    ELSE <<>>

\* Items drop at a chance.
Overshoot(n) == Max({Min({n * 5, MaxWord}), 1})
KillsFor(objective) ==
    IF objective.kind = "CollectItem" THEN Overshoot(objective.required) ELSE objective.required

\* get_quest, for one objective: [] of none when the quest or the objective is not there.
AskObjective(st, quest, index) ==
    Answer(Called(st),
           IF ~Reached(st) \/ quest \notin DOMAIN DbQuests THEN "no quest"
           ELSE IF index \notin DOMAIN DbQuests[quest].objectives THEN "no objective" ELSE "known")
Objective(quest, index) == DbQuests[quest].objectives[index]

\* Gate, and kills that have no quantity before it: they get the gate's.
BoundKills(actions, gateAt, needed) ==
    [i \in DOMAIN actions |->
        IF i < gateAt /\ actions[i].p.kind = "Kill" /\ actions[i].p.quantity = NoQuantity
        THEN [actions[i] EXCEPT !.p.quantity = needed] ELSE actions[i]]

Synthesised(creatures, quantity) ==
    Action([kind |-> "Kill", creatures |-> creatures, watch |-> FALSE, quantity |-> quantity], Ungated)

Enriched(st, line, actions, gateAt, creatures, quantity) ==
    Answer(Noted(st, "GATE_ENRICHED", line), InsertAt(actions, gateAt, Synthesised(creatures, quantity)))

Stranded(st, about, actions) == Answer(Noted(st, "UNSATISFIABLE_GATE", about), actions)

\* A gate that something before it may open: only its kills are bounded.
BoundGate(st, actions, gateAt, counted) ==
    LET asked == AskObjective(st, counted[2], counted[3])
    IN  IF counted[1] = "item" THEN Answer(st, BoundKills(actions, gateAt, Overshoot(counted[3])))
        ELSE IF asked.value # "known" THEN Answer(asked.st, actions)
        ELSE Answer(asked.st, BoundKills(actions, gateAt, KillsFor(Objective(counted[2], counted[3]))))

\* A gate that nothing before it opens.  A quest that cannot be fetched is passed over.
OpenGate(st, line, actions, gateAt, counted) ==
    LET asked == AskObjective(st, counted[2], counted[3])
        objective == Objective(counted[2], counted[3])
        drops == IF Reached(st) /\ counted[2] \in DOMAIN DbItems THEN DbItems[counted[2]] ELSE <<>>
        killed == IF objective.kind = "KillCreature" THEN <<objective.target>> ELSE objective.sources
    IN  IF counted[1] = "item"
        THEN IF drops = <<>> THEN Stranded(Called(st), counted[2], actions)
             ELSE Enriched(Called(st), line, actions, gateAt, drops, Overshoot(counted[3]))
        ELSE CASE asked.value = "no quest" -> Answer(asked.st, actions)
               [] asked.value = "no objective" -> Stranded(asked.st, counted[2], actions)
               [] objective.kind = "KillCreature" \/ (objective.kind = "CollectItem" /\ killed # <<>>) ->
                      Enriched(asked.st, line, actions, gateAt, killed, KillsFor(objective))
               [] OTHER -> Stranded(asked.st, counted[2], actions)

Gates(actions) == Where(actions, LAMBDA act : CountedBy(act.p) # <<>>)

\* Mutant: the gates from the first to the last, at the places they had at first.
EnrichForwards(built, line) ==
    LET Enrich(acc, g) ==
            IF \E i \in 1..(g - 1) : acc.value[i].p.kind \in Satisfying
            THEN BoundGate(acc.st, acc.value, g, CountedBy(built.value[g].p))
            ELSE OpenGate(acc.st, line, acc.value, g, CountedBy(built.value[g].p))
    IN  FoldLeft(Enrich, built, Ascending(Gates(built.value)))

\* From the last gate to the first, so that places stay what they were.
EnrichGates(built, line) ==
    LET Enrich(acc, g) ==
            IF \E i \in 1..(g - 1) : acc.value[i].p.kind \in Satisfying
            THEN BoundGate(acc.st, acc.value, g, CountedBy(built.value[g].p))
            ELSE OpenGate(acc.st, line, acc.value, g, CountedBy(built.value[g].p))
    IN  FoldLeft(Enrich, built, Reverse(Ascending(Gates(built.value))))

-----------------------------------------------------------------------------
(* ProjectBuilder::build. *)

TypedDirectives == {"label", "requires", "completewith", "optional", "sticky", "loop"}

\* A step that is there for its `#requires` only.
IsPlaceholder(step) ==
    /\ step.commands = <<>>
    /\ \A t \in ToSet(step.text) : t.comment
    /\ DirectivesNamed(step, "requires") # <<>>

Entries(directives) ==
    MapSeq(directives, LAMBDA d : [value |-> d.value, gate |-> d.gate, line |-> d.line])

Passthrough(step) ==
    MapSeq(SelectSeq(step.directives, LAMBDA d : d.name \notin TypedDirectives),
           LAMBDA d : [name |-> d.name, value |-> d.value, gate |-> d.gate, line |-> d.line])

\* The steps in front of i that are folded into it.
AbsorbedBy(steps, i) ==
    IF IsPlaceholder(steps[i]) THEN <<>>
    ELSE LET kept == {j \in 1..(i - 1) : ~IsPlaceholder(steps[j])}
         IN  SubSeq(steps, 1 + Max({0} \cup kept), i - 1)

\* Placeholders are folded into the step after them; those at the end stay.
Planned(steps) ==
    LET stays == {i \in DOMAIN steps : \/ ~IsPlaceholder(steps[i])
                                      \/ \A j \in i..Len(steps) : IsPlaceholder(steps[j])}
    IN  Ascending(stays)

\* `<< skip`, anywhere in the tail.
GateDisables(gate) == Term(Skip) \in TermsOf(gate)

OperationParts(absorbed, step) == absorbed \o <<step>>

\* A class for the actions that have none, if the step's tail is a list of classes.
StampClasses(actions, gate) ==
    LET classes == \A i \in DOMAIN gate : Len(gate[i]) = 1 /\ gate[i][1].token \in KnownClasses
    IN  MapSeq(actions, LAMBDA act :
            IF gate # Ungated /\ classes /\ act.restriction = <<>>
            THEN [act EXCEPT !.restriction = Restriction(gate)] ELSE act)

Operation(parts, step, actions) ==
    LET All(name) == Entries(FlattenSeq(MapSeq(parts, LAMBDA s : NamedWithValue(s, name))))
        optionals == Entries(FlattenSeq(MapSeq(parts, LAMBDA s : DirectivesNamed(s, "optional"))))
        lines == {s.line : s \in ToSet(parts)} \cup {s.lineEnd : s \in ToSet(parts)}
    IN  [enabled |-> ~GateDisables(step.gate), gate |-> step.gate, placeholder |-> IsPlaceholder(step),
         sticky |-> DirectivesNamed(step, "sticky") # <<>>, looping |-> DirectivesNamed(step, "loop") # <<>>,
         labels |-> All("label"), requires |-> All("requires"), completeWith |-> All("completewith"),
         optional |-> SubSeq(optionals, 1, Min({1, Len(optionals)})),
         directives |-> FlattenSeq(MapSeq(parts, Passthrough)),
         span |-> <<Min(lines), Max(lines)>>, actions |-> StampClasses(actions, step.gate)]

OptionalsDropped(parts) ==
    LET all == FlattenSeq(MapSeq(parts, LAMBDA s : DirectivesNamed(s, "optional")))
    IN  MapSeq(SubSeq(all, 2, Len(all)), LAMBDA d : Note("DUPLICATE_OPTIONAL_DISCARDED", d.line))

TyposTolerated(step) ==
    MapSeq(SelectSeq(step.directives, LAMBDA d : d.original # d.name),
           LAMBDA d : Note("DIRECTIVE_TYPO_TOLERATED", d.line))

BuildOperation(st, steps, i) ==
    LET parts == OperationParts(AbsorbedBy(steps, i), steps[i])
        noted == [st EXCEPT !.notes = @ \o OptionalsDropped(parts) \o TyposTolerated(steps[i])]
        Made(enriched) == Answer(enriched.st, Operation(parts, steps[i], enriched.value))
    IN  Made(EnrichGates(BuildStepActions(noted, steps[i]), steps[i].line))

\* Definitions of one name that no character can tell apart: the same tails on the label and
\* on its step.
DuplicateLabels(guide) ==
    LET Audience(d) == <<d.label, d.gate, guide.steps[d.step].gate>>
        defs == guide.labels.definitions
        groups == Distinct(MapSeq(defs, Audience))
        Undecided(a) == Cardinality(Where(defs, LAMBDA d : Audience(d) = a)) > 1
    IN  MapSeq(SelectSeq(groups, Undecided), LAMBDA a : Note("DUPLICATE_LABEL", a[1]))

LabelNotes(guide) ==
    DuplicateLabels(guide)
    \o MapSeq(guide.labels.unresolved, LAMBDA r : Note("UNRESOLVED_COMPLETEWITH", r.line))
    \o MapSeq(guide.labels.unresolvedRequires, LAMBDA r : Note("UNRESOLVED_REQUIRES", r.line))

HeaderEntries(guide, key) ==
    Entries(SelectSeq(guide.headers, LAMBDA h : h.key = key /\ h.value # NoValue))

\* `#next A;B`: one entry for each successor, all with the line's tail.
NextEntries(guide) ==
    FlattenSeq(MapSeq(HeaderEntries(guide, "next"), LAMBDA e :
        MapSeq(e.value, LAMBDA successor : [e EXCEPT !.value = successor])))

\* Names are sequences of their parts, "/" one of them.
Untitled == <<"Imported Guide">>

Build(guide, outage) ==
    LET fresh == [calls |-> 0, outage |-> outage, npcs |-> <<>>, quests |-> <<>>, notes |-> <<>>, target |-> NoNpc]
        Added(acc, op) == Answer(op.st, Append(acc.value, op.value))
        Add(acc, i) == Added(acc, BuildOperation(acc.st, guide.steps, i))
        names == HeaderEntries(guide, "name")
        Project(built) ==
            [name |-> IF names = <<>> THEN Untitled ELSE names[1].value,
             headers |-> [name |-> names, group |-> HeaderEntries(guide, "group"), next |-> NextEntries(guide)],
             steps |-> built.value, npcs |-> built.st.npcs, quests |-> built.st.quests,
             objects |-> {}, variables |-> {}, imported |-> TRUE,
             notes |-> built.st.notes \o LabelNotes(guide)]
    IN  Project(FoldLeft(Add, Answer(fresh, <<>>), Planned(guide.steps)))

-----------------------------------------------------------------------------
(* import-guides (editor/src/bin): every guide of a file under a name of its own.        *)

\* sanitize_filename_stem.
Stem(name) == MapSeq(name, LAMBDA part : IF part = "/" THEN "_" ELSE part)

\* Mutant: only the names the guides themselves bring are remembered.
DedupeByStem(used, stem) ==
    LET Taken(n) == Append(stem, ToString(n)) \in used
    IN  IF stem \notin used THEN [name |-> stem, used |-> used \cup {stem}]
        ELSE [name |-> Append(stem, ToString(Min({n \in 2..(Cardinality(used) + 2) : ~Taken(n)}))), used |-> used]

\* dedupe_filename: the stem itself, or the first of stem-2, stem-3, ... not used yet.
DedupeFilename(used, stem) ==
    LET Free(n) == Append(stem, ToString(n)) \notin used
        name == IF stem \notin used THEN stem
                ELSE Append(stem, ToString(Min({n \in 2..(Cardinality(used) + 2) : Free(n)})))
    IN  [name |-> name, used |-> used \cup {name}]

\* import_guide: a block that fails is recorded, and the blocks after it go on.
ImportGuide(bundle, outage, used) ==
    LET Named(acc, named) == [used |-> named.used, files |-> Append(acc.files, named.name)]
        File(acc, block) == Named(acc, DedupeFilename(acc.used, Stem(block.project.name)))
        Filed(blocks) ==
            [blocks |-> blocks, outage |-> outage,
             files |-> FoldLeft(File, [used |-> used, files |-> <<>>],
                                SelectSeq(blocks, LAMBDA b : b.ok)).files]
    IN  Filed(MapSeq(ParseGuideBundle(bundle), LAMBDA guide :
                  IF guide.ok THEN [ok |-> TRUE, guide |-> guide, project |-> Build(guide, outage)]
                  ELSE guide))
=============================================================================
