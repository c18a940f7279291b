-------------------------- MODULE MCCampaignResolver --------------------------
(***************************************************************************)
(* Instance: an imported route of four nodes under a layer that skips some,    *)
(* and an imported graph of one task of each type, and of no type; the import  *)
(* is plain, part of a ring, or missing.                                      *)
(***************************************************************************)
EXTENDS PlanRoutes

IdsMC == {"a", "b", "c", "d"}
EdgeIn(from, to, guard) == [from |-> from, to |-> to, guard |-> guard]

\* Every step forward, the same under a guard where two steps can meet, a way back, a loop, and
\* an edge to nowhere.
EdgeMenuMC ==
    {EdgeIn(p[1], p[2], None) : p \in {<<"a", "b">>, <<"a", "c">>, <<"b", "c">>, <<"b", "d">>,
                                       <<"c", "d">>, <<"c", "b">>, <<"b", "b">>, <<"d", "a">>}}
    \cup {EdgeIn("a", "b", "g"), EdgeIn("b", "c", "h"), EdgeIn("c", "d", "g"), EdgeIn("d", "gone", None)}

Entity(kind, id) == [k |-> "entity", entity |-> [kind |-> kind, id |-> id, label |-> ""]]
Cached(kind, id) == [k |-> "entity", entity |-> [kind |-> kind, id |-> id, label |-> "old name"]]
Whole(n) == [k |-> "int", int |-> n]
Text(t) == [k |-> "text", text |-> t]
Bool == [k |-> "bool", bool |-> TRUE]
List(items) == [k |-> "list", list |-> items]

\* Npc 1 stands in two places and has a name, npc 2 is nameless, npc 3 stands nowhere; quest 1 has
\* a giver and an ender, quest 2 has neither.
SpawnRowsMC == {[kind |-> "npc", id |-> 1, guid |-> 7, place |-> "far"],
                [kind |-> "npc", id |-> 1, guid |-> 3, place |-> "near"],
                [kind |-> "npc", id |-> 2, guid |-> 4, place |-> "inn"],
                [kind |-> "object", id |-> 1, guid |-> 5, place |-> "chest"]}
LabelRowsMC == {[kind |-> "npc", id |-> 1, name |-> "Marshal"],
                [kind |-> "object", id |-> 1, name |-> "Crate"]}
GiverRowsMC == {[quest |-> 1, npc |-> 3], [quest |-> 1, npc |-> 1]}
EnderRowsMC == {[quest |-> 1, npc |-> 2]}

HealthyMC == [fingerprint |-> "snapshot", broken |-> {}]
DatabasesMC ==
    {[fingerprint |-> "snapshot", broken |-> b] :
        b \in {{}, {"spawn"}, {"label"}, {"giver", "ender"}, {"fingerprint"}}}

For(type, field, values) == {[type |-> type, fields |-> (field :> v)] : v \in values}
NpcValues(kind) == {Entity(kind, 1), Cached(kind, 2), Entity(kind, 3), Text("who")}
QuestFields(type, npc) ==
    For(type, "quest", {Entity("quest", 1), Entity("quest", 2)})
    \cup For(type, npc, {Cached("npc", 1), Entity("npc", 3)}) \cup For(type, "optional", {Bool})

FieldMenuMC ==
    QuestFields("AcceptQuest", "from") \cup QuestFields("TurnIn", "to")
    \cup For("TurnIn", "choose_reward", {Whole(-1), Whole(2)})
    \cup For("Kill", "target", NpcValues("npc")) \cup For("Kill", "count", {Whole(0), Whole(9)})
    \cup For("Kill", "loot", {Bool}) \cup For("Kill", "colour", {Bool})
    \cup For("Collect", "object", NpcValues("object") \cup {Entity("npc", 1)})
    \cup For("Collect", "count", {Whole(2)})
    \cup For("Vendor", "npc", NpcValues("npc")) \cup For("Vendor", "repair", {Bool})
    \cup For("Vendor", "buy", {List(<<Entity("item", 1)>>), List(<<Entity("npc", 1), Bool>>)})
    \cup For("Trainer", "npc", NpcValues("npc")) \cup For("Trainer", "trainer_type", {Text(""), Text("Mage")})
    \cup For("Trainer", "minimum_level", {Whole(0), Whole(4), Whole(9)})
    \cup For("Flight", "npc", NpcValues("npc")) \cup For("Flight", "destination", {Text(""), Text("Stormwind")})
    \cup For("Hearth", "destination", {Text("Goldshire")}) \cup For("Hearth", "innkeeper", {Entity("npc", 1)})
    \cup For("Gate", "quest", {Entity("quest", 1)}) \cup For("Gate", "level", {Whole(4), Whole(9)})
    \cup For("Gate", "quest_state", {Text("accepted"), Text("begun")})
    \cup For("Gate", "item", {Entity("item", 1), Whole(1)})
    \cup For("Travel", "to", NpcValues("npc") \cup {Cached("map", 1)})
    \cup For("Travel", "map", {Whole(-1), Whole(1), Whole(6)}) \cup For("Travel", "destination", {Text("")})
    \cup For("Travel", "allow_flight", {Bool})
    \cup {[type |-> "Travel", fields |-> [x |-> Whole(1), y |-> Whole(2), z |-> [k |-> "float", float |-> 3]]]}

OverrideMenuMC ==
    {[node |-> "t", intent |-> f.fields] :
        f \in For("Kill", "target", {Entity("npc", 2)}) \cup For("Gate", "level", {Whole(4)})}
    \cup {[node |-> "elsewhere", intent |-> <<>>]}

TypesMC == {"AcceptQuest", "TurnIn", "Kill", "Collect", "Vendor", "Trainer", "Flight", "Hearth",
            "Gate", "Travel", "Smelt"}

Node(id, type) == [id |-> id, type |-> type, intent |-> <<>>]
RouteGraph(nodes, entry) == [id |-> "route", entry |-> entry, nodes |-> nodes, edges |-> <<>>]
HearthNode(id) == Node(id, "Hearth")

Base(graph, imports) ==
    [id |-> "base", imports |-> imports, graphs |-> <<graph>>,
     conditions |-> <<[id |-> "g", is |-> "level 5"], [id |-> "h", is |-> "level 6"]>>]

Import(id) == [campaign |-> id, overrides |-> <<>>, disabled |-> <<>>]

\* The importing campaign has a small graph of its own and defines one guard, twice.
MineMC == [id |-> "mine", imports |-> <<Import("base")>>,
           conditions |-> <<[id |-> "h", is |-> "level 7"], [id |-> "h", is |-> "level 8"]>>,
           graphs |-> <<[id |-> "own", entry |-> "o", nodes |-> <<HearthNode("o")>>, edges |-> <<>>]>>]

Start(what, lib) == [desk |-> what, library |-> lib, campaign |-> MineMC]

FourNodes == RouteGraph(<<HearthNode("a"), HearthNode("b"), HearthNode("c"), HearthNode("d")>>, "a")

StartsMC ==
    {Start("graph", "base" :> Base(FourNodes, <<>>)), Start("graph", <<>>)}
    \cup {Start("task", "base" :> Base(RouteGraph(<<Node("t", type)>>, "t"), <<>>)) : type \in TypesMC}
    \cup {Start("task", "base" :> Base(RouteGraph(<<Node("t", "Gate")>>, "t"), <<Import("mine")>>)
                        @@ "mine" :> MineMC),
          \* A campaign without a graph of its own.
          [Start("task", <<>>) EXCEPT !.campaign.graphs = <<>>]}
=============================================================================
