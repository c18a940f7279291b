--------------------------- MODULE CampaignResolver ---------------------------
(***************************************************************************)
(* From a campaign to an execution plan (resolver/src): the imported graphs   *)
(* under their override layers, the order of a graph's nodes, the lowering of  *)
(* each node's intent by its task type, and the transitions and conditions of  *)
(* the plan.  A lookup the database cannot perform leaves no plan at all.      *)
(*                                                                          *)
(* An intent is a function from field names to values [k |-> kind, kind |->    *)
(* content].  Diagnostics are a set; node ids are distinct within a graph; a   *)
(* plan's operations are numbered from 1; its content hash, a function of the  *)
(* rest of it, is left out.                                                   *)
(***************************************************************************)
EXTENDS Integers, Sequences, FiniteSets, SequencesExt, TLC

CONSTANTS
    None,
    MaxU8, MaxU32,                  \* the widths integers are narrowed to
    SpawnRows,                      \* [kind, id, guid, place]: where entries stand
    LabelRows,                      \* [kind, id, name]: what they are called
    GiverRows, EnderRows            \* [quest, npc]: who offers a quest, who takes it back

MapSeq(s, F(_)) == [i \in DOMAIN s |-> F(s[i])]
All(s, notesOf(_)) == UNION {notesOf(s[i]) : i \in DOMAIN s}

\* The members of a list that are among `kept`, in their order.
Only(s, kept) ==
    LET only[n \in 0..Len(s)] ==
            IF n = 0 THEN <<>>
            ELSE IF s[n] \in kept THEN Append(only[n - 1], s[n]) ELSE only[n - 1]
    IN  only[Len(s)]

Error(code) == [severity |-> "error", code |-> code, node |-> None]
Warning(code) == [severity |-> "warning", code |-> code, node |-> None]
Blocked(notes) == \E n \in notes : n.severity = "error"
At(node, notes) == {[n EXCEPT !.node = node] : n \in notes}

\* DbResult: what was found (None for nothing), or a lookup that failed.
Found(value) == [ok |-> TRUE, v |-> value]
Failed == [ok |-> FALSE]

\* The `?` of the code: a failure ends the whole resolution.
Then(result, Use(_)) == IF result.ok THEN Use(result.v) ELSE Failed

-----------------------------------------------------------------------------
(* The database: a snapshot with its fingerprint and the lookups it cannot do.   *)

Lookup(db, what, value) == IF what \in db.broken THEN Failed ELSE Found(value)

\* One row of several: the one with the smallest key.
Lowest(rows, Key(_)) == CHOOSE r \in rows : \A s \in rows : Key(r) <= Key(s)

\* The canonical spawn is the placement with the lowest guid.
SpawnOf(db, kind, id) ==
    LET rows == {r \in SpawnRows : r.kind = kind /\ r.id = id}
        place == IF rows = {} THEN None ELSE Lowest(rows, LAMBDA r : r.guid).place
    IN  IF kind \in {"npc", "object"} THEN Lookup(db, "spawn", place) ELSE Found(None)

LabelOf(db, kind, id) ==
    LET rows == {r \in LabelRows : r.kind = kind /\ r.id = id}
        name == IF rows = {} THEN None ELSE (CHOOSE r \in rows : TRUE).name
    IN  IF kind = "map" THEN Found(None) ELSE Lookup(db, "label", name)

\* first_related_npc.
RelatedNpc(db, what, quest) ==
    LET rows == {r \in IF what = "giver" THEN GiverRows ELSE EnderRows : r.quest = quest}
    IN  Lookup(db, what, IF rows = {} THEN None ELSE Lowest(rows, LAMBDA r : r.npc).npc)

-----------------------------------------------------------------------------
(* The registry: task types as data, and what every task gets checked.          *)

Field(name, kind) ==
    [name |-> name, kind |-> kind, entity |-> None, required |-> FALSE, rules |-> {}]
EntityField(name, entity) == [Field(name, "entity") EXCEPT !.entity = entity]
EntityList(name, entity) == [Field(name, "list") EXCEPT !.entity = entity]
Required(field) == [field EXCEPT !.required = TRUE]
Ruled(field, rules) == [field EXCEPT !.rules = rules]

MinInt(n) == [rule |-> "MinInt", least |-> n]
MaxInt(n) == [rule |-> "MaxInt", most |-> n]
NonEmptyText == [rule |-> "NonEmptyText"]
OneOf(texts) == [rule |-> "OneOf", allowed |-> texts]

\* A value that fits its field's kind but not one of its rules.
Breaks(rule, value) ==
    CASE rule.rule = "MinInt" -> value.k = "int" /\ value.int < rule.least
      [] rule.rule = "MaxInt" -> value.k = "int" /\ value.int > rule.most
      [] rule.rule = "NonEmptyText" -> value.k = "text" /\ value.text = ""
      [] rule.rule = "OneOf" -> value.k = "text" /\ value.text \notin rule.allowed

KindFits(field, value) ==
    value.k = field.kind \/ (field.kind = "float" /\ value.k = "int")

EntityNotes(field, value) ==
    IF value.k # "entity" THEN {Error("field.kind")}
    ELSE IF field.entity \notin {None, value.entity.kind} THEN {Error("field.entity_kind")}
    ELSE {}

CheckValue(field, value) ==
    IF ~KindFits(field, value) THEN {Error("field.kind")}
    ELSE (CASE field.kind = "entity" -> EntityNotes(field, value)
            [] field.kind = "list" -> All(value.list, LAMBDA item : EntityNotes(field, item))
            [] OTHER -> {})
         \cup {Error("field.rule") : rule \in {r \in field.rules : Breaks(r, value)}}

CheckSchema(schema, intent) ==
    LET authored == {f \in schema : f.name \in DOMAIN intent}
    IN  {Error("field.missing") : f \in {g \in schema \ authored : g.required}}
        \cup (UNION {CheckValue(f, intent[f.name]) : f \in authored})
        \cup {Warning("field.unknown") : name \in DOMAIN intent \ {f.name : f \in schema}}

\* The ten questing task types.
QuestSchema(npc) == {Required(EntityField("quest", "quest")), EntityField(npc, "npc"),
                     Field("optional", "bool")}
TheNpc == Required(EntityField("npc", "npc"))
Level(name) == Ruled(Field(name, "int"), {MinInt(1), MaxInt(MaxU8)})
Counted == Ruled(Field("count", "int"), {MinInt(1)})
Named == Ruled(Field("destination", "text"), {NonEmptyText})

Schema ==
    [AcceptQuest |-> QuestSchema("from"),
     TurnIn |-> QuestSchema("to") \cup {Ruled(Field("choose_reward", "int"), {MinInt(0)})},
     Kill |-> {Required(EntityField("target", "npc")), Counted,
               Field("loot", "bool"), Field("ignore_elites", "bool")},
     Collect |-> {Required(EntityField("object", "object")), Counted},
     Vendor |-> {TheNpc, Field("sell_grey", "bool"), Field("repair", "bool"),
                 EntityList("buy", "item"),
                 Ruled(Field("minimum_free_slots", "int"), {MinInt(0)})},
     Trainer |-> {TheNpc, EntityList("spells", "spell"), Level("minimum_level"),
                  Ruled(Field("trainer_type", "text"), {NonEmptyText})},
     Flight |-> {TheNpc, Required(Named)},
     Hearth |-> {Named, EntityField("innkeeper", "npc")},
     Gate |-> {EntityField("quest", "quest"), Level("level"), EntityField("item", "item"),
               Ruled(Field("quest_state", "text"), {OneOf({"accepted", "completed", "rewarded"})})},
     Travel |-> {Field("to", "entity"), Ruled(Field("map", "int"), {MinInt(0)}),
                 Field("x", "float"), Field("y", "float"), Field("z", "float"),
                 Field("destination", "text"), Field("tolerance", "float"),
                 Field("allow_flight", "bool")}]

-----------------------------------------------------------------------------
(* Reading an intent: a field that is missing or of another kind is None.        *)

Get(intent, name, kind) ==
    IF name \in DOMAIN intent /\ intent[name].k = kind THEN intent[name][kind] ELSE None

Or(value, otherwise) == IF value # None THEN value ELSE otherwise
Flag(intent, name) == Get(intent, name, "bool") = TRUE
Number(intent, name) == Or(Get(intent, name, "float"), Get(intent, name, "int"))
IdOf(entity) == IF entity = None THEN None ELSE entity.id
Ids(intent, name) ==
    MapSeq(SelectSeq(Or(Get(intent, name, "list"), <<>>), LAMBDA item : item.k = "entity"),
           LAMBDA item : item.entity.id)

\* An integer that does not fit the runtime's width is left out.
Narrowed(intent, name, largest) ==
    LET n == Get(intent, name, "int")
    IN  IF n = None THEN None ELSE IF n \in 0..largest THEN n ELSE None

-----------------------------------------------------------------------------
(* Lowering (tasks/questing.rs).                                               *)

Lowering(actions, notes) == Found([actions |-> actions, notes |-> notes])
NothingWith(notes) == Lowering(<<>>, notes)

\* Mutant: a name that cannot be read is a name that is not there.
DisplayNameSwallowing(db, kind, id, cached) ==
    LET label == LabelOf(db, kind, id)
    IN  Found(IF label.ok /\ label.v # None THEN label.v
              ELSE IF cached # "" THEN cached ELSE kind \o ":" \o ToString(id))

\* The database's name wins over the label cached in the reference.
DisplayName(db, kind, id, cached) ==
    Then(LabelOf(db, kind, id), LAMBDA label :
         Found(IF label # None THEN label
               ELSE IF cached # "" THEN cached ELSE kind \o ":" \o ToString(id)))

DefaultTolerance == 5
TravelAction(name, position, tolerance, flight) ==
    [op |-> "Travel", destination |-> name, position |-> position,
     tolerance |-> tolerance, allow_flight |-> flight]

\* travel_to: no spawn costs the walk, not the interaction after it.
TravelTo(db, kind, id, cached) ==
    Then(SpawnOf(db, kind, id), LAMBDA place :
         IF place = None THEN NothingWith({Warning("spawn.unknown")})
         ELSE Then(DisplayName(db, kind, id, cached), LAMBDA name :
                   Lowering(<<TravelAction(name, place, DefaultTolerance, FALSE)>>, {})))

\* Walk to an entity and act on it there.
Interact(db, kind, id, cached, action) ==
    Then(TravelTo(db, kind, id, cached), LAMBDA walk :
         Lowering(Append(walk.actions, action), walk.notes))

InteractWith(db, entity, action) == Interact(db, entity.kind, entity.id, entity.label, action)

NoNpc(relation) == Error(IF relation = "giver" THEN "quest.no_giver" ELSE "quest.no_ender")

\* quest_npc: the authored NPC, or the one the database relates to the quest.
QuestNpc(db, intent, field, relation) ==
    LET authored == Get(intent, field, "entity")
    IN  IF authored # None THEN Found(authored.id)
        ELSE RelatedNpc(db, relation, Get(intent, "quest", "entity").id)

\* Without either, the whole interaction is dropped with an error.
WithQuestNpc(db, intent, field, relation, Act(_)) ==
    Then(QuestNpc(db, intent, field, relation), LAMBDA npc :
         IF npc = None THEN NothingWith({NoNpc(relation)})
         ELSE Interact(db, "npc", npc, "", Act(npc)))

LowerAcceptQuest(intent, db) ==
    WithQuestNpc(db, intent, "from", "giver", LAMBDA npc :
        [op |-> "AcceptQuest", quest |-> Get(intent, "quest", "entity").id, npc |-> npc,
         optional |-> Flag(intent, "optional")])

LowerTurnIn(intent, db) ==
    WithQuestNpc(db, intent, "to", "ender", LAMBDA npc :
        [op |-> "TurnInQuest", quest |-> Get(intent, "quest", "entity").id, npc |-> npc,
         reward |-> Narrowed(intent, "choose_reward", MaxU32), optional |-> Flag(intent, "optional")])

LowerKill(intent, db) ==
    LET target == Get(intent, "target", "entity")
    IN  InteractWith(db, target, [op |-> "Kill", creatures |-> <<target.id>>,
                                  quantity |-> Narrowed(intent, "count", MaxU32),
                                  loot |-> Flag(intent, "loot"),
                                  ignore_elites |-> Flag(intent, "ignore_elites")])

LowerCollect(intent, db) ==
    LET object == Get(intent, "object", "entity")
    IN  InteractWith(db, object, [op |-> "Loot", object |-> object.id,
                                  count |-> Narrowed(intent, "count", MaxU32)])

LowerVendor(intent, db) ==
    LET npc == Get(intent, "npc", "entity")
    IN  InteractWith(db, npc, [op |-> "Vendor", npc |-> npc.id,
                               sell_grey |-> Flag(intent, "sell_grey"),
                               repair |-> Flag(intent, "repair"), buy |-> Ids(intent, "buy"),
                               free_slots |-> Narrowed(intent, "minimum_free_slots", MaxU32)])

LowerTrainer(intent, db) ==
    LET npc == Get(intent, "npc", "entity")
    IN  InteractWith(db, npc, [op |-> "Train", npc |-> npc.id, spells |-> Ids(intent, "spells"),
                               trainer |-> Get(intent, "trainer_type", "text"),
                               level |-> Narrowed(intent, "minimum_level", MaxU8)])

LowerFlight(intent, db) ==
    LET npc == Get(intent, "npc", "entity")
    IN  InteractWith(db, npc, [op |-> "Flight", npc |-> npc.id,
                               destination |-> Get(intent, "destination", "text")])

\* A hearthstone is used where the player stands.
LowerHearth(intent) ==
    Lowering(<<[op |-> "Hearth", innkeeper |-> IdOf(Get(intent, "innkeeper", "entity")),
                destination |-> Get(intent, "destination", "text")]>>, {})

\* gate_clauses, in the order quest, level, item.
GateClauses(intent) ==
    LET quest == IdOf(Get(intent, "quest", "entity"))
        level == Narrowed(intent, "level", MaxU8)
        item == IdOf(Get(intent, "item", "entity"))
        state == Or(Get(intent, "quest_state", "text"), "completed")
    IN  SelectSeq(<<<<state, quest>>, <<"level", level>>, <<"item", item>>>>,
                  LAMBDA clause : clause[2] # None)

\* Mutant: a gate on nothing is a gate.
ValidateNothing(type, intent) == {}

\* validate: only a gate has a rule of its own.
ValidateTask(type, intent) ==
    IF type = "Gate" /\ GateClauses(intent) = <<>> THEN {Error("gate.no_clause")} ELSE {}

\* A gate holds the route until all of its clauses are true.
LowerGate(intent) ==
    IF GateClauses(intent) = <<>> THEN NothingWith({})
    ELSE Lowering(<<[op |-> "Condition", role |-> "Completion", all |-> GateClauses(intent)]>>, {})

ExplicitPosition(intent) ==
    LET at == <<Narrowed(intent, "map", MaxU32), Number(intent, "x"),
                Number(intent, "y"), Number(intent, "z")>>
    IN  IF None \in ToSet(at) THEN None ELSE at

\* Authored coordinates win over the spawn of the target.
TravelPosition(intent, db) ==
    LET target == Get(intent, "to", "entity")
    IN  IF ExplicitPosition(intent) # None THEN Found(ExplicitPosition(intent))
        ELSE IF target # None THEN SpawnOf(db, target.kind, target.id)
        ELSE Found(None)

TravelName(intent, db) ==
    LET target == Get(intent, "to", "entity")
        text == Get(intent, "destination", "text")
    IN  IF text # None THEN Found(text)
        ELSE IF target # None THEN DisplayName(db, target.kind, target.id, target.label)
        ELSE Found("")

LowerTravel(intent, db) ==
    Then(TravelPosition(intent, db), LAMBDA position :
         IF position = None
         THEN NothingWith({Error(IF Get(intent, "to", "entity") # None THEN "spawn.unknown"
                                 ELSE "travel.no_destination")})
         ELSE Then(TravelName(intent, db), LAMBDA name :
                   Lowering(<<TravelAction(name, position,
                                           Or(Number(intent, "tolerance"), DefaultTolerance),
                                           Flag(intent, "allow_flight"))>>, {})))

Lower(type, intent, db) ==
    CASE type = "AcceptQuest" -> LowerAcceptQuest(intent, db)
      [] type = "TurnIn" -> LowerTurnIn(intent, db)
      [] type = "Kill" -> LowerKill(intent, db)
      [] type = "Collect" -> LowerCollect(intent, db)
      [] type = "Vendor" -> LowerVendor(intent, db)
      [] type = "Trainer" -> LowerTrainer(intent, db)
      [] type = "Flight" -> LowerFlight(intent, db)
      [] type = "Hearth" -> LowerHearth(intent)
      [] type = "Gate" -> LowerGate(intent)
      [] type = "Travel" -> LowerTravel(intent, db)

\* lower_node: whatever is wrong with a node, its operation stays, without actions.
LowerNode(node, db) ==
    LET checks == CheckSchema(Schema[node.type], node.intent) \cup ValidateTask(node.type, node.intent)
    IN  IF node.type \notin DOMAIN Schema THEN NothingWith(At(node.id, {Error("task.unknown")}))
        ELSE IF Blocked(checks) THEN NothingWith(At(node.id, checks))
        ELSE Then(Lower(node.type, node.intent, db), LAMBDA lowered :
                  Lowering(lowered.actions, At(node.id, checks \cup lowered.notes)))

-----------------------------------------------------------------------------
(* Import layers.                                                              *)

NodeIds(graph) == {graph.nodes[i].id : i \in DOMAIN graph.nodes}
EdgesOf(graph) == ToSet(graph.edges)

\* merge_intent: the named fields change, the others stay.
ApplyOverride(graph, patch) ==
    [graph EXCEPT !.nodes = MapSeq(@, LAMBDA n :
        IF n.id = patch.node THEN [n EXCEPT !.intent = patch.intent @@ @] ELSE n)]

ApplyOverrides(graph, import) ==
    LET patched[n \in 0..Len(import.overrides)] ==
            IF n = 0 THEN graph ELSE ApplyOverride(patched[n - 1], import.overrides[n])
    IN  patched[Len(import.overrides)]

OverrideNotes(graph, import) ==
    {Warning("override.unknown_node") :
        o \in {p \in ToSet(import.overrides) : p.node \notin NodeIds(graph)}}

Incoming(graph, node) == Only(graph.edges, {e \in EdgesOf(graph) : e.to = node})
Outgoing(graph, node) == Only(graph.edges, {e \in EdgesOf(graph) : e.from = node})

\* Mutant: only the first way out of a skipped node is kept.
SplicedFirst(graph, node) ==
    MapSeq(Incoming(graph, node), LAMBDA p :
        LET s == Head(Outgoing(graph, node) \o <<p>>)
        IN  [from |-> p.from, to |-> s.to, guard |-> Or(p.guard, s.guard)])

\* Every way in continues along every way out; one guard is left, the first.
Spliced(graph, node) ==
    FlattenSeq(MapSeq(Incoming(graph, node), LAMBDA p :
        MapSeq(Outgoing(graph, node), LAMBDA s :
            [from |-> p.from, to |-> s.to, guard |-> Or(p.guard, s.guard)])))

EntryWithout(graph, node) ==
    IF graph.entry = node /\ Outgoing(graph, node) # <<>> THEN Head(Outgoing(graph, node)).to
    ELSE graph.entry

\* remove_disabled, for one node; the entry moves on before the node is gone.
RemoveNode(graph, node) ==
    IF node \notin NodeIds(graph) THEN graph
    ELSE [graph EXCEPT
            !.nodes = Only(@, {n \in ToSet(@) : n.id # node}),
            !.edges = Only(@, {e \in ToSet(@) : node \notin {e.from, e.to}}) \o Spliced(graph, node),
            !.entry = EntryWithout(graph, node)]

\* The graph before the first and after each of the disabled nodes.
Thinned(graph, import) ==
    LET thinned[n \in 0..Len(import.disabled)] ==
            IF n = 0 THEN graph ELSE RemoveNode(thinned[n - 1], import.disabled[n])
    IN  thinned

RemoveDisabled(graph, import) == Thinned(graph, import)[Len(import.disabled)]

\* An entry that is disabled and leads nowhere.
DisabledNotes(graph, import) ==
    LET Before(i) == Thinned(graph, import)[i - 1]
        Stranded(i) == LET node == import.disabled[i]
                       IN  /\ node \in NodeIds(Before(i))
                           /\ Before(i).entry = node
                           /\ Outgoing(Before(i), node) = <<>>
    IN  {Warning("disabled.entry_node") : i \in {j \in DOMAIN import.disabled : Stranded(j)}}

Layered(graph, import) == RemoveDisabled(ApplyOverrides(graph, import), import)
LayerNotes(graph, import) ==
    OverrideNotes(graph, import) \cup DisabledNotes(ApplyOverrides(graph, import), import)

\* What an import brings: the graphs of the imported campaign under the import's layer.
Brought(library, import, inner) ==
    IF import.campaign \notin DOMAIN library
    THEN [graphs |-> <<>>, notes |-> {Error("import.unknown_campaign")}]
    ELSE [graphs |-> MapSeq(inner.graphs, LAMBDA g : Layered(g, import)),
          notes |-> inner.notes \cup All(inner.graphs, LAMBDA g : LayerNotes(g, import))]

\* What the imports brought, then the campaign's own graphs.
Gathered(c, parts) ==
    [graphs |-> FlattenSeq(MapSeq(parts, LAMBDA p : p.graphs)) \o c.graphs,
     notes |-> All(parts, LAMBDA p : p.notes)]

InCircle == [graphs |-> <<>>, notes |-> {Error("import.cycle")}]

\* flatten_into; `above` are the campaigns the import chain has come through.
Flatten(library, campaign) ==
    LET campaigns == {campaign} \cup {library[id] : id \in DOMAIN library}
        flat[at \in campaigns \X SUBSET {c.id : c \in campaigns}] ==
            LET c == at[1]
                above == at[2]
                Inner(import) == flat[<<library[import.campaign], above \cup {c.id}>>]
            IN  IF c.id \in above THEN InCircle
                ELSE Gathered(c, [i \in DOMAIN c.imports |->
                                     Brought(library, c.imports[i], Inner(c.imports[i]))])
    IN  flat[<<campaign, {}>>]

-----------------------------------------------------------------------------
(* The order of the operations.                                                *)

PositionOf(graph, id) == CHOOSE i \in DOMAIN graph.nodes : graph.nodes[i].id = id

\* The edges of the graph between the positions of its nodes; dangling ones do not count.
Arcs(graph) ==
    LET inside == {e \in EdgesOf(graph) : {e.from, e.to} \subseteq NodeIds(graph)}
    IN  {<<PositionOf(graph, e.from), PositionOf(graph, e.to)>> : e \in inside}

\* Mutant: one predecessor is enough to be ready.
ReadyEarly(graph, order) ==
    {i \in DOMAIN graph.nodes \ ToSet(order) :
        (\E arc \in Arcs(graph) : arc[2] = i) =>
            \E arc \in Arcs(graph) : arc[2] = i /\ arc[1] \in ToSet(order)}

\* The nodes whose remaining indegree is zero.
Ready(graph, order) ==
    {i \in DOMAIN graph.nodes \ ToSet(order) :
        \A arc \in Arcs(graph) : arc[2] = i => arc[1] \in ToSet(order)}

\* The first ready node in document order; in a cycle, the first that is left.
NextNode(graph, order) ==
    LET left == DOMAIN graph.nodes \ ToSet(order)
        choice == IF Ready(graph, order) # {} THEN Ready(graph, order) ELSE left
    IN  CHOOSE i \in choice : \A j \in choice : i <= j

\* The nodes that are left, one by one.
OrderFrom(graph, start) ==
    LET order[n \in Len(start)..Len(graph.nodes)] ==
            IF n = Len(start) THEN start
            ELSE LET sofar == order[n - 1] IN Append(sofar, NextNode(graph, sofar))
    IN  order[Len(graph.nodes)]

\* topological_order: the entry first, whatever leads to it.
TopologicalOrder(graph) ==
    OrderFrom(graph, IF graph.entry \in NodeIds(graph) THEN <<PositionOf(graph, graph.entry)>> ELSE <<>>)

\* report_back_edges.
BackEdges(graph, order) ==
    LET Slot(i) == CHOOSE s \in DOMAIN order : order[s] = i
    IN  {arc \in Arcs(graph) : Slot(arc[2]) <= Slot(arc[1])}

-----------------------------------------------------------------------------
(* The plan.                                                                   *)

Defines(campaign, guard) == \E i \in DOMAIN campaign.conditions : campaign.conditions[i].id = guard

\* transitions: an edge to nowhere is dropped, one with an unknown guard is kept.
Transitions(graph, ordered, node) ==
    LET IndexOf(id) == CHOOSE s \in DOMAIN ordered : ordered[s].id = id
    IN  MapSeq(Only(Outgoing(graph, node.id), {e \in EdgesOf(graph) : e.to \in NodeIds(graph)}),
               LAMBDA e : [to |-> IndexOf(e.to), guard |-> e.guard])

TransitionNotes(campaign, graph, node) ==
    At(node.id,
       All(Outgoing(graph, node.id), LAMBDA e :
           IF e.to \notin NodeIds(graph) THEN {Error("edge.dangling")}
           ELSE IF e.guard # None /\ ~Defines(campaign, e.guard) THEN {Error("guard.unknown_condition")}
           ELSE {}))

\* referenced_conditions: the first definition of each guard the operations name.
ReferencedConditions(campaign, operations) ==
    LET named == {t.guard : t \in UNION {ToSet(operations[i].next) : i \in DOMAIN operations}}
        Earlier(i) == \E j \in 1..(i - 1) : campaign.conditions[j].id = campaign.conditions[i].id
        chosen == {i \in DOMAIN campaign.conditions : campaign.conditions[i].id \in named /\ ~Earlier(i)}
    IN  MapSeq(SelectSeq([i \in DOMAIN campaign.conditions |-> i], LAMBDA i : i \in chosen),
               LAMBDA i : campaign.conditions[i])

Plan(campaign, graphId, fingerprint, operations, conditions) ==
    [campaign |-> campaign.id, graph |-> graphId, fingerprint |-> fingerprint,
     operations |-> operations, conditions |-> conditions]

\* A graph's plan, by the order of its nodes and what each was lowered to.
Assembled(campaign, graph, fingerprint, order, lowered) ==
    LET ordered == MapSeq(order, LAMBDA i : graph.nodes[i])
        operations == [i \in DOMAIN ordered |->
                          [node |-> ordered[i].id, actions |-> lowered[i].v.actions,
                           next |-> Transitions(graph, ordered, ordered[i])]]
    IN  [plan |-> Plan(campaign, graph.id, fingerprint, operations,
                       ReferencedConditions(campaign, operations)),
         notes |-> {Warning("graph.cycle") : arc \in BackEdges(graph, order)}
                   \cup All(lowered, LAMBDA l : l.v.notes)
                   \cup All(ordered, LAMBDA n : TransitionNotes(campaign, graph, n))]

LowerGraph(campaign, graph, db) ==
    LET order == TopologicalOrder(graph)
        lowered == MapSeq(order, LAMBDA i : LowerNode(graph.nodes[i], db))
    IN  IF \E i \in DOMAIN lowered : ~lowered[i].ok THEN Failed
        ELSE Found(Assembled(campaign, graph, db.fingerprint, order, lowered))

\* Resolve the first of the graphs, or report that there is none.
ResolveFirst(campaign, db, graphId, graphs, flatNotes) ==
    IF graphs = <<>>
    THEN Found([plan |-> Plan(campaign, graphId, db.fingerprint, <<>>, <<>>),
                notes |-> flatNotes \cup {Error("campaign.no_graph")}])
    ELSE Then(LowerGraph(campaign, graphs[1], db), LAMBDA r :
              Found([r EXCEPT !.notes = @ \cup flatNotes]))

\* Resolver::resolve and Resolver::resolve_graph.
ResolveCampaign(library, campaign, db) ==
    LET flat == Flatten(library, campaign)
    IN  ResolveFirst(campaign, db, None, flat.graphs, flat.notes)
ResolveGraphOf(library, campaign, db, id) ==
    LET flat == Flatten(library, campaign)
    IN  ResolveFirst(campaign, db, id, Only(flat.graphs, {g \in ToSet(flat.graphs) : g.id = id}), flat.notes)

\* POST /resolve: no library; an unreadable fingerprint is a failure like any other.
NoImports == <<>>
PostResolve(campaign, db) ==
    Then(Lookup(db, "fingerprint", db.fingerprint), LAMBDA f : ResolveCampaign(NoImports, campaign, db))
=============================================================================
