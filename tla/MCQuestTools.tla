---------------------------- MODULE MCQuestTools ----------------------------
(***************************************************************************)
(* Drafts of a few lines over a menu that holds one of everything the         *)
(* tools treat specially.  Quest 1 has an objective counted in item 7      *)
(* and one counted in kills; quest 2 is unknown to the world database.         *)
(***************************************************************************)
EXTENDS QuestTools

ObjectiveNeed(quest, index) == IF quest = 1 THEN 2 ELSE -1
ItemOf(quest, index) == IF quest = 1 /\ index = 0 THEN 7 ELSE 0

Plain == [class |-> "Mage", race |-> "Orc", faction |-> "Horde", expansion |-> "tbc", phase |-> 1,
          rate |-> 1500, season |-> 0, allegiance |-> "aldor", hardcore |-> FALSE,
          hardcoreServer |-> FALSE, selfFound |-> FALSE, canFly |-> FALSE, mode |-> "none"]
Characters == {Plain, [Plain EXCEPT !.class = "Warrior", !.rate = 1000, !.allegiance = "scryer"]}
Aldor == {c \in Characters : c.allegiance = "aldor"}
Slow == {c \in Characters : c.rate = 1000}

OnlyMage == <<<<Term("Mage")>>>>
NotMage == <<<<Except("Mage")>>>>
Dubious == <<<<Term("Magician")>>>>

-----------------------------------------------------------------------------
(* Conditions. *)

Words == {<<Token(k)>> : k \in {"(", ")", "&&", "||", "NOT"}}
         \cup {Call("QuestCompleted", <<1>>), Call("ItemCount", <<7, 2>>), Call("InSubArea", <<3>>),
               Call("XpAtLeast", <<2, 5>>), <<Ident("QuestCompleted"), Token("(")>>, <<Number(300)>>}

Moments == {[log |-> {1}, complete |-> {}, bag |-> 2, other |-> {1}],
                [log |-> {}, complete |-> {1}, bag |-> 1, other |-> {2, 3}]}

-----------------------------------------------------------------------------
(* Gates. *)

Arms == {<<Term("Mage")>>, <<Except("Mage")>>, <<Term("Orc"), Except("Warrior")>>,
         <<Term("Magician")>>, <<Except("DK"), Term("Pala")>>, <<Term(Skip)>>}

-----------------------------------------------------------------------------
(* Steps. *)

Act(p) == [enabled |-> TRUE, gate |-> Ungated, restriction |-> <<>>, p |-> p]
Entry(value, gate) == [value |-> value, gate |-> gate, line |-> 3]
Go(x, medium) == Act([kind |-> "Travel", position |-> x, radius |-> -1, medium |-> medium])
Nowhere == Go(NoPosition, "ground")
Take == Act([kind |-> "Accept", quest |-> 1, npc |-> 11])
HandIn(q) == Act([kind |-> "TurnIn", quest |-> q, npc |-> 11, reward |-> 300, optional |-> FALSE])
Until(expression) == Act([kind |-> "Condition", expression |-> expression, role |-> "Completion"])
Hunt == Act([kind |-> "Kill", creatures |-> <<21>>, watch |-> FALSE, quantity |-> NoQuantity])
Say == Act([kind |-> "Comment"])

Step(acts) ==
    [enabled |-> TRUE, gate |-> Ungated, directives |-> <<>>, actions |-> acts, labels |-> <<>>,
     requires |-> <<>>, completeWith |-> <<>>, optional |-> <<>>, sticky |-> FALSE,
     looping |-> FALSE, span |-> <<>>]

\* A directive with the characters it is written for.
Narrows(name, value, suits) ==
    [name |-> name, value |-> value, gate |-> Ungated, line |-> 2, suits |-> suits]

Steps ==
    {\* Two alternatives under one label, each for one class.
     [Step(<<Take>>) EXCEPT !.gate = OnlyMage, !.labels = <<Entry("turnin", Ungated)>>],
     [Step(<<HandIn(2)>>) EXCEPT !.labels = <<Entry("turnin", NotMage)>>,
                                 !.requires = <<Entry("turnin", OnlyMage)>>],
     \* A hand-in for the Warrior only, in a step both take.
     Step(<<Go(1, "ground"), [HandIn(1) EXCEPT !.gate = NotMage]>>),
     \* A farm that rides along until its label, or the next step, completes.
     [Step(<<Hunt, Go(1, "ground"), Go(2, "ground"),
             Until(Call("Objective", <<1, 0>>) \o <<Token("||")>> \o Call("Objective", <<1, 1>>))>>)
         EXCEPT !.sticky = TRUE, !.looping = TRUE, !.completeWith = <<Entry("turnin", Ungated)>>],
     [Step(<<Hunt, Say>>) EXCEPT !.completeWith = <<Entry(Next, Ungated), Entry("turnin", Ungated)>>,
                                 !.optional = <<Entry("optional", Ungated)>>],
     [Step(<<Go(2, "ground")>>) EXCEPT !.sticky = TRUE, !.labels = <<Entry("walk", Ungated)>>,
         !.requires = <<Entry("turnin", Ungated), Entry("walk", Ungated)>>],
     \* A walk that changes its medium, with lines that do not stop it and one that does.
     Step(<<Go(1, "ground"), Say, Hunt, Nowhere, Go(2, "ground"), Go(3, "air"), Take, Go(1, "air")>>),
     \* Forks by faction of Shattrath and by server rate.
     [Step(<<Take, Go(3, "ground")>>) EXCEPT !.directives = <<Narrows("aldor", Unreadable, Aldor)>>],
     [Step(<<Go(3, "ground")>>) EXCEPT
         !.directives = <<Narrows("phase", <<1, 2>>, Characters),
                          Narrows("xprate", [op |-> "<", whole |-> 1, fraction |-> <<4, 9>>], Slow)>>],
     \* What nobody may read: a disabled step's gate, and an unknown word only a Mage meets.
     [Step(<<Take>>) EXCEPT !.enabled = FALSE, !.gate = Dubious],
     [Step(<<[Take EXCEPT !.gate = Dubious]>>) EXCEPT !.gate = OnlyMage],
     \* Waiting that only one of the two artifacts can express.
     Step(<<Until(Call("InSubArea", <<3>>))>>),
     Step(<<Until(Call("XpAtLeast", <<2, 5>>)), Act([kind |-> "Escort", npc |-> 12])>>),
     \* References the library cannot place.
     Step(<<Act([kind |-> "Vendor", npc |-> 12]), Act([kind |-> "Bank", npc |-> 12]), Act([kind |-> "Train", npc |-> 13]),
            Act([kind |-> "SetVariable", name |-> "v"]), Act([kind |-> "Hearth", npc |-> 11])>>)}

ProjectAround(steps) ==
    [name |-> "guide", steps |-> steps, imported |-> FALSE, objects |-> {}, variables |-> {"w"},
     headers |-> [name |-> <<Entry("For a Mage", OnlyMage), Entry("guide", Ungated)>>,
                  group |-> <<>>, next |-> <<Entry("a", NotMage), Entry("b", Ungated)>>],
     npcs |-> <<[id |-> 11, entry |-> 5, position |-> 1], [id |-> 13, entry |-> 0, position |-> Origin]>>,
     quests |-> <<[id |-> 1, prerequisites |-> <<2>>]>>]
-----------------------------------------------------------------------------
(* Sources.  The draft begins inside the first guide of the file; npc 33 is not in  *)
(* the world database, and item 8 drops from nothing.                              *)

Npcs == (31 :> [position |-> 1]) @@ (32 :> [position |-> 2])
Quests ==
    (1 :> [giver |-> 31, finisher |-> 33, prerequisites |-> <<>>,
           objectives |-> (0 :> [kind |-> "KillCreature", target |-> 21, required |-> 8, sources |-> <<>>])
                          @@ (1 :> [kind |-> "CollectItem", target |-> 7, required |-> 3, sources |-> <<22, 23>>])])
    @@ (3 :> [giver |-> 32, finisher |-> 31, prerequisites |-> <<1>>, objectives |-> <<>>])
Items == (7 :> <<22>>)
Search == ("Innkeeper" :> <<[entry |-> 31, name |-> "Innkeeper"]>>)
          @@ ("Wolf" :> <<[entry |-> 24, name |-> "Old Wolf"], [entry |-> 25, name |-> "Wolf"]>>)
ZoneTable == <<"ident", "Elwynn">> :> [map |-> 0, top |-> 0, left |-> 0, bottom |-> 200, right |-> 400]
Failures == {{}, {1}, {2}, 2..99}

Line(kind) == [k |-> kind]
Marker(gate) == [k |-> "step", gate |-> gate]
Directive(name, value) == [k |-> "directive", name |-> name, value |-> value, gate |-> Ungated]
Does(name, args) == [k |-> "command", name |-> name, args |-> args, left |-> Ungated, note |-> FALSE,
                     tail |-> Ungated, hints |-> <<>>]
Numbers(values) == MapSeq(values, Number)

Named(name) == <<Line("open"), Directive("name", name)>>

FirstLines == Named(<<"Foo">>)

Lines ==
    {<<Line("close")>>,
     Named(<<"Foo">>),
     <<Line("close")>> \o Named(<<"Foo", "2">>),
     <<Line("close"), [k |-> "text", comment |-> FALSE, hints |-> <<>>]>> \o Named(<<"a", "/">>)
         \o <<[k |-> "faction", value |-> "Horde"], Directive("next", <<"b", "c">>)>>,
     \* A placeholder, with a misspelling.
     <<Marker(Ungated), Directive("requires", "a"), Directive("optional", NoValue), Line("blank"),
       Directive("lable", "b"), Directive("season", 1)>>,
     <<Marker(OnlyMage), Directive("label", "a"), Directive("completewith", "b"),
       Does("accept", Numbers(<<1>>)), Does("turnin", Numbers(<<1>>)), Does("goto", <<Ident("Elwynn"), Number(40), Number(20)>>)>>,
     <<Marker(<<<<Term(Skip)>>>>), Directive("requries", "a"), Does("target", <<Ident("Innkeeper")>>),
       Does("turnin", Numbers(<<3, 2>>)), Does("accept", Numbers(<<3>>)), Does("trainer", <<>>), Does("subzone", Numbers(<<3>>))>>,
     \* Waits with and without a way to end them.
     <<Marker(Ungated), Does("complete", Numbers(<<1, 0>>)), Does("collect", Numbers(<<7, 2>>)),
       Does("mob", <<Ident("Wolf")>>), Does("complete", Numbers(<<1, 1>>)), Does("complete", Numbers(<<2, 0>>))>>,
     <<Marker(Ungated), Does("collect", <<Number(8), Compared(">", 2)>>), Does("collect", Numbers(<<7, 4>>)),
       Does("complete", Numbers(<<1, 1>>)), Does("item", Numbers(<<5>>)), Does("isOnQuest", Numbers(<<1, 2>>))>>,
     \* Commands that stay inert or malformed, and services found through a note.
     <<Marker(NotMage), [Does("vendor", <<>>) EXCEPT !.hints = <<"Nobody", "Innkeeper">>, !.left = OnlyMage],
       Does("subzone", Numbers(<<3, 1>>)), Does("xp", <<OffsetBy(9, -100)>>), Does("abandon", <<Junk>>),
       Does("complete", <<Junk>>), Does("goto", <<RawMap(530), Number(1)>>), Does("waypoint", <<RawMap(530), Number(1), Number(2), Number(5)>>)>>,
     <<Directive("sometimes", NoValue)>>}
=============================================================================
