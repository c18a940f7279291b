------------------------- MODULE PlanAuthoringProofs -------------------------
(***************************************************************************)
(* What a plan can be trusted with, for any library, campaign, edits and       *)
(* game data, and whatever lookups the database cannot do: a plan is the one   *)
(* the healthy database gives, and none of its operations is empty without     *)
(* an error at its node; and what it is made of is the imported graph without  *)
(* the nodes the author skips, whole and in order.                             *)
(*                                                                          *)
(* One lemma per step of the lowering says the first two: the result is a      *)
(* failure or the healthy result (Agrees), and it is not silently empty        *)
(* (Told).  The lemmas about graphs go from the removal of one node, and the   *)
(* taking of the next one, to the edges and the order of a plan.               *)
(***************************************************************************)
EXTENDS PlanRoutes, FiniteSetTheorems, SequenceTheorems, NaturalsInduction, WellFoundedInduction, TLAPS

-----------------------------------------------------------------------------
(* Lookups *)

\* The result r is a failure, or what the healthy database answers.
Agrees(r, healthy) == r \in {Failed, healthy} /\ healthy.ok = TRUE

\* A lookup fails or is answered; the healthy database answers all.
LEMMA LookupAgrees ==
    ASSUME NEW db, NEW what, NEW value
    PROVE  Agrees(Lookup(db, what, value), Lookup(Healthy, what, value))
  BY DatabaseAssumption DEF Agrees, Lookup, Found, Failed

\* So is the lookup of a spawn,
LEMMA SpawnAgrees ==
    ASSUME NEW db, NEW kind, NEW id
    PROVE  Agrees(SpawnOf(db, kind, id), SpawnOf(Healthy, kind, id))
<1> DEFINE rows == {r \in SpawnRows : r.kind = kind /\ r.id = id}
           place == IF rows = {} THEN None ELSE Lowest(rows, LAMBDA r : r.guid).place
<1>1. PICK x : \A d : SpawnOf(d, kind, id)
                = IF kind \in {"npc", "object"} THEN Lookup(d, "spawn", x) ELSE Found(None)
  BY DEF SpawnOf, place
<1>2. Agrees(Found(None), Found(None))
  BY DEF Agrees, Found
<1>3. Agrees(Lookup(db, "spawn", x), Lookup(Healthy, "spawn", x))
  BY LookupAgrees
<1> QED
  BY <1>1, <1>2, <1>3

\* of a name,
LEMMA LabelAgrees ==
    ASSUME NEW db, NEW kind, NEW id
    PROVE  Agrees(LabelOf(db, kind, id), LabelOf(Healthy, kind, id))
<1> DEFINE rows == {r \in LabelRows : r.kind = kind /\ r.id = id}
           name == IF rows = {} THEN None ELSE (CHOOSE r \in rows : TRUE).name
<1>1. \A d : LabelOf(d, kind, id) = IF kind = "map" THEN Found(None) ELSE Lookup(d, "label", name)
  BY DEF LabelOf
<1> HIDE DEF name
<1>2. Agrees(Found(None), Found(None))
  BY DEF Agrees, Found
<1>3. Agrees(Lookup(db, "label", name), Lookup(Healthy, "label", name))
  BY LookupAgrees
<1> QED
  BY <1>1, <1>2, <1>3

\* of a quest's giver or ender,
LEMMA RelatedAgrees ==
    ASSUME NEW db, NEW what, NEW quest
    PROVE  Agrees(RelatedNpc(db, what, quest), RelatedNpc(Healthy, what, quest))
<1> DEFINE rows == {r \in IF what = "giver" THEN GiverRows ELSE EnderRows : r.quest = quest}
           npc == IF rows = {} THEN None ELSE Lowest(rows, LAMBDA r : r.npc).npc
<1>1. PICK x : \A d : RelatedNpc(d, what, quest) = Lookup(d, what, x)
  BY DEF RelatedNpc, npc
<1> QED
  BY <1>1, LookupAgrees

\* and of the name to show.
LEMMA NameAgrees ==
    ASSUME NEW db, NEW kind, NEW id, NEW cached
    PROVE  Agrees(DisplayName(db, kind, id, cached), DisplayName(Healthy, kind, id, cached))
<1>1. Agrees(LabelOf(db, kind, id), LabelOf(Healthy, kind, id))
  BY LabelAgrees
<1>2. PICK x : \A d : DisplayName(d, kind, id, cached)
                = IF LabelOf(d, kind, id).ok
                  THEN Found(IF LabelOf(d, kind, id).v # None THEN LabelOf(d, kind, id).v ELSE x)
                  ELSE Failed
  BY DEF DisplayName, Then
<1>3. DisplayName(Healthy, kind, id, cached).ok = TRUE
  BY <1>1, <1>2 DEF Agrees, Found
<1>4. CASE LabelOf(db, kind, id) = Failed
  <2>1. DisplayName(db, kind, id, cached) = Failed
    BY <1>2, <1>4 DEF Failed
  <2> QED
    BY <1>3, <2>1 DEF Agrees
<1>5. CASE LabelOf(db, kind, id) = LabelOf(Healthy, kind, id)
  <2>1. DisplayName(db, kind, id, cached) = DisplayName(Healthy, kind, id, cached)
    BY <1>2, <1>5
  <2> QED
    BY <1>3, <2>1 DEF Agrees
<1> QED
  BY <1>1, <1>4, <1>5 DEF Agrees

-----------------------------------------------------------------------------
(* Notes *)

\* What is a note, other than that of a cycle.
IsNote(n) ==
    n = [severity |-> n.severity, code |-> n.code, node |-> n.node] /\ n.code # "graph.cycle"
AreNotes(notes) == \A n \in notes : IsNote(n)

\* Errors and warnings are notes.
LEMMA ErrorsAreNotes ==
    ASSUME NEW code, code # "graph.cycle"
    PROVE  IsNote(Error(code)) /\ Error(code).severity = "error" /\ IsNote(Warning(code))
  BY DEF Error, Warning, IsNote

\* Checking a reference to an entity makes notes,
LEMMA EntityNotesAreNotes == ASSUME NEW field, NEW value PROVE AreNotes(EntityNotes(field, value))
  BY ErrorsAreNotes DEF EntityNotes, AreNotes

\* and so does checking a value
LEMMA ValueNotesAreNotes == ASSUME NEW field, NEW value PROVE AreNotes(CheckValue(field, value))
<1>1. AreNotes(All(value.list, LAMBDA item : EntityNotes(field, item)))
  BY EntityNotesAreNotes DEF All, AreNotes
<1>2. AreNotes({Error("field.rule") : rule \in {r \in field.rules : Breaks(r, value)}})
  BY ErrorsAreNotes DEF AreNotes
<1>3. AreNotes({Error("field.kind")}) /\ AreNotes(EntityNotes(field, value)) /\ AreNotes({})
  BY ErrorsAreNotes, EntityNotesAreNotes DEF AreNotes
<1> QED
  BY <1>1, <1>2, <1>3 DEF CheckValue, AreNotes

\* or an intent.
LEMMA SchemaNotesAreNotes == ASSUME NEW schema, NEW intent PROVE AreNotes(CheckSchema(schema, intent))
<1> DEFINE authored == {f \in schema : f.name \in DOMAIN intent}
<1>1. AreNotes({Error("field.missing") : f \in {g \in schema \ authored : g.required}})
  BY ErrorsAreNotes DEF AreNotes
<1>2. AreNotes(UNION {CheckValue(f, intent[f.name]) : f \in authored})
  BY ValueNotesAreNotes DEF AreNotes
<1>3. AreNotes({Warning("field.unknown") : name \in DOMAIN intent \ {f.name : f \in schema}})
  BY ErrorsAreNotes DEF AreNotes
<1> QED
  BY <1>1, <1>2, <1>3 DEF CheckSchema, AreNotes

\* Placing notes at a node keeps an error an error, and puts it there.
LEMMA PlacedErrors ==
    ASSUME NEW notes, AreNotes(notes), NEW node
    PROVE  /\ Blocked(notes) => \E n \in At(node, notes) : n.severity = "error" /\ n.node = node
           /\ AreNotes(At(node, notes))
<1>1. ASSUME NEW n \in notes
      PROVE  [n EXCEPT !.node = node] = [severity |-> n.severity, code |-> n.code, node |-> node]
  <2>1. n = [severity |-> n.severity, code |-> n.code, node |-> n.node]
    BY DEF AreNotes, IsNote
  <2> QED
    BY <2>1
<1>2. ASSUME Blocked(notes) PROVE \E n \in At(node, notes) : n.severity = "error" /\ n.node = node
  <2>1. PICK n \in notes : n.severity = "error"
    BY <1>2 DEF Blocked
  <2>2. [n EXCEPT !.node = node] \in At(node, notes)
    BY DEF At
  <2> QED
    BY <1>1, <2>1, <2>2
<1>3. ASSUME NEW m \in At(node, notes) PROVE IsNote(m)
  <2>1. PICK n \in notes : m = [n EXCEPT !.node = node]
    BY DEF At
  <2>2. m = [severity |-> n.severity, code |-> n.code, node |-> node] /\ n.code # "graph.cycle"
    BY <1>1, <2>1 DEF AreNotes, IsNote
  <2> QED
    BY <2>2 DEF IsNote
<1> QED
  BY <1>2, <1>3 DEF AreNotes

-----------------------------------------------------------------------------
(* Lowering *)

\* A lowering's notes are notes, and one without actions comes with an error.
Told(r) ==
    r.ok => /\ AreNotes(r.v.notes)
            /\ r.v.actions = <<>> => Blocked(r.v.notes)

\* What a step of the lowering is proved to be.
Sound(r, healthy) == Agrees(r, healthy) /\ Told(r)

\* A lowering without actions but with an error,
LEMMA NothingIsSound ==
    ASSUME NEW code, code # "graph.cycle"
    PROVE  Sound(NothingWith({Error(code)}), NothingWith({Error(code)}))
<1> DEFINE notes == {Error(code)}
<1>1. NothingWith(notes) = [ok |-> TRUE, v |-> [actions |-> <<>>, notes |-> notes]]
  BY DEF NothingWith, Lowering, Found
<1>2. AreNotes(notes) /\ Blocked(notes)
  BY ErrorsAreNotes DEF AreNotes, Blocked
<1> HIDE DEF notes
<1>3. Sound(NothingWith(notes), NothingWith(notes))
  BY <1>1, <1>2 DEF Sound, Agrees, Told
<1> QED
  BY <1>3 DEF notes

\* and one with an action.
LEMMA ActionIsSound ==
    ASSUME NEW actions, actions # <<>>, NEW notes, AreNotes(notes)
    PROVE  Sound(Lowering(actions, notes), Lowering(actions, notes))
<1>1. Lowering(actions, notes) = [ok |-> TRUE, v |-> [actions |-> actions, notes |-> notes]]
  BY DEF Lowering, Found
<1> QED
  BY <1>1 DEF Sound, Agrees, Told

\* A failure is sound if the healthy result is one.
LEMMA FailureIsSound ==
    ASSUME NEW healthy, healthy.ok = TRUE
    PROVE  Sound(Failed, healthy)
  BY DEF Sound, Agrees, Told, Failed

\* The walk to an entity: one action or, with a warning, none.
LEMMA TravelToWalks ==
    ASSUME NEW db, NEW kind, NEW id, NEW cached
    PROVE  LET r == TravelTo(db, kind, id, cached)
           IN  /\ Agrees(r, TravelTo(Healthy, kind, id, cached))
               /\ r.ok => /\ AreNotes(r.v.notes)
                          /\ r.v.actions = <<>> \/ \E a : r.v.actions = <<a>>
<1> DEFINE spawn(d) == SpawnOf(d, kind, id)
           name(d) == DisplayName(d, kind, id, cached)
           walk(d) == TravelTo(d, kind, id, cached)
           nowhere == NothingWith({Warning("spawn.unknown")})
           there(place, n) == Lowering(<<TravelAction(n, place, DefaultTolerance, FALSE)>>, {})
<1>1. \A d : walk(d) = IF ~spawn(d).ok THEN Failed
                       ELSE IF spawn(d).v = None THEN nowhere
                       ELSE IF ~name(d).ok THEN Failed
                       ELSE there(spawn(d).v, name(d).v)
  BY DEF TravelTo, Then
<1>2. Agrees(spawn(db), spawn(Healthy)) /\ Agrees(name(db), name(Healthy))
  BY SpawnAgrees, NameAgrees
<1>3. /\ nowhere = [ok |-> TRUE, v |-> [actions |-> <<>>, notes |-> {Warning("spawn.unknown")}]]
      /\ \A place, n : there(place, n)
            = [ok |-> TRUE, v |-> [actions |-> <<TravelAction(n, place, DefaultTolerance, FALSE)>>,
                                  notes |-> {}]]
  BY DEF NothingWith, Lowering, Found
<1>4. Failed.ok = FALSE
  BY DEF Failed
<1> HIDE DEF spawn, name, walk, nowhere, there
<1>5. walk(Healthy).ok = TRUE
  BY <1>1, <1>2, <1>3 DEF Agrees
<1>6. walk(db) \in {Failed, walk(Healthy)}
  BY <1>1, <1>2, <1>4 DEF Agrees
<1>7. AreNotes({Warning("spawn.unknown")}) /\ AreNotes({})
  BY ErrorsAreNotes DEF AreNotes
<1>8. ASSUME walk(db).ok
      PROVE  /\ AreNotes(walk(db).v.notes)
             /\ walk(db).v.actions = <<>> \/ \E a : walk(db).v.actions = <<a>>
  <2>1. walk(db) = nowhere \/ \E place, n : walk(db) = there(place, n)
    BY <1>1, <1>4, <1>8
  <2>2. CASE walk(db) = nowhere
    <3>1. walk(db).v.notes = {Warning("spawn.unknown")} /\ walk(db).v.actions = <<>>
      BY <1>3, <2>2
    <3> QED
      BY <1>7, <3>1
  <2>3. CASE \E place, n : walk(db) = there(place, n)
    <3>1. PICK place, n : walk(db) = there(place, n)
      BY <2>3
    <3> DEFINE a == TravelAction(n, place, DefaultTolerance, FALSE)
    <3>2. walk(db) = [ok |-> TRUE, v |-> [actions |-> <<a>>, notes |-> {}]]
      BY <1>3, <3>1
    <3> HIDE DEF a
    <3>3. walk(db).v.notes = {} /\ walk(db).v.actions = <<a>>
      BY <3>2
    <3> QED
      BY <1>7, <3>3
  <2> QED
    BY <2>1, <2>2, <2>3
<1> QED
  BY <1>5, <1>6, <1>8 DEF Agrees, walk

\* A list of at most one action is not empty with another behind it.
LEMMA AppendedIsSome ==
    ASSUME NEW s, s = <<>> \/ \E a : s = <<a>>, NEW x
    PROVE  Append(s, x) # <<>>
<1>1. CASE s = <<>>
  BY <1>1
<1>2. CASE \E a : s = <<a>>
  <2>1. PICK a : s = <<a>>
    BY <1>2
  <2> DEFINE T == {a, x}
  <2>2. s \in Seq(T) /\ x \in T
    BY <2>1
  <2> HIDE DEF T
  <2> QED
    BY <2>2, AppendProperties
<1> QED
  BY <1>1, <1>2

\* Walking to an entity and acting there is an action at least.
LEMMA InteractIsSound ==
    ASSUME NEW db, NEW kind, NEW id, NEW cached, NEW action
    PROVE  Sound(Interact(db, kind, id, cached, action), Interact(Healthy, kind, id, cached, action))
<1> DEFINE walk(d) == TravelTo(d, kind, id, cached)
           act(d) == Interact(d, kind, id, cached, action)
           with(d) == Lowering(Append(walk(d).v.actions, action), walk(d).v.notes)
<1>1. \A d : act(d) = IF walk(d).ok THEN with(d) ELSE Failed
  BY DEF Interact, Then
<1>2. /\ Agrees(walk(db), walk(Healthy))
      /\ walk(db).ok => /\ AreNotes(walk(db).v.notes)
                        /\ walk(db).v.actions = <<>> \/ \E a : walk(db).v.actions = <<a>>
  BY TravelToWalks
<1>3. walk(db) = walk(Healthy) => with(db) = with(Healthy)
  OBVIOUS
<1>4. with(Healthy).ok = TRUE
  BY DEF Lowering, Found
<1>5. walk(db).ok => Sound(with(db), with(db))
  BY <1>2, AppendedIsSome, ActionIsSound
<1> HIDE DEF walk, act, with
<1>6. CASE walk(db).ok
  <2>1. walk(db) = walk(Healthy)
    BY <1>2, <1>6 DEF Agrees, Failed
  <2> QED
    BY <1>1, <1>3, <1>5, <1>6, <2>1 DEF act
<1>7. CASE ~walk(db).ok
  <2>1. act(db) = Failed /\ act(Healthy) = with(Healthy)
    BY <1>1, <1>2, <1>7 DEF Agrees
  <2> QED
    BY <1>4, <2>1, FailureIsSound DEF act
<1> QED
  BY <1>6, <1>7

\* A lowering that first looks something up does nothing if it is not there, and else
\* something with it.
Choice(r, none, act) == IF ~r.ok THEN Failed ELSE IF r.v = None THEN none ELSE act

\* It is sound if both are.
LEMMA ChoiceIsSound ==
    ASSUME NEW r, NEW h, Agrees(r, h), NEW none, Sound(none, none),
           NEW act, NEW actHealthy, r = h => Sound(act, actHealthy), actHealthy.ok = TRUE
    PROVE  Sound(Choice(r, none, act), Choice(h, none, actHealthy))
<1> DEFINE out == Choice(r, none, act)
           healthy == Choice(h, none, actHealthy)
<1>1. h.ok = TRUE /\ none.ok = TRUE
  BY DEF Agrees, Sound
<1>2. healthy.ok = TRUE
  BY <1>1 DEF Choice
<1>3. CASE r = Failed
  <2>1. out = Failed
    BY <1>3 DEF Failed, Choice
  <2> QED
    BY <1>2, <2>1, FailureIsSound
<1>4. CASE r = h
  <2>1. CASE h.v = None
    BY <1>1, <1>4, <2>1 DEF Choice
  <2>2. CASE h.v # None
    BY <1>1, <1>4, <2>2 DEF Choice
  <2> QED
    BY <2>1, <2>2
<1> QED
  BY <1>3, <1>4 DEF Agrees

\* Whom to see about a quest.
LEMMA QuestAgrees ==
    ASSUME NEW db, NEW intent, NEW field, NEW relation
    PROVE  Agrees(QuestNpc(db, intent, field, relation), QuestNpc(Healthy, intent, field, relation))
<1>1. \A v : Agrees(Found(v), Found(v))
  BY DEF Agrees, Found
<1> QED
  BY <1>1, RelatedAgrees DEF QuestNpc

\* Accepting a quest,
LEMMA AcceptIsSound ==
    ASSUME NEW db, NEW intent
    PROVE  Sound(LowerAcceptQuest(intent, db), LowerAcceptQuest(intent, Healthy))
<1> DEFINE npc(d) == QuestNpc(d, intent, "from", "giver")
           action(n) == [op |-> "AcceptQuest", quest |-> Get(intent, "quest", "entity").id, npc |-> n,
                         optional |-> Flag(intent, "optional")]
           act(d) == Interact(d, "npc", npc(d).v, "", action(npc(d).v))
           none == NothingWith({NoNpc("giver")})
           out(d) == LowerAcceptQuest(intent, d)
<1>1. \A d : out(d) = Choice(npc(d), none, act(d))
  BY DEF LowerAcceptQuest, WithQuestNpc, Then, Choice
<1>2. Agrees(npc(db), npc(Healthy))
  BY QuestAgrees
<1>3. Sound(none, none)
  BY NothingIsSound DEF NoNpc
<1>4. /\ npc(db) = npc(Healthy) => Sound(act(db), act(Healthy))
      /\ Sound(act(Healthy), act(Healthy))
  BY InteractIsSound
<1>5. act(Healthy).ok = TRUE
  BY <1>4 DEF Sound, Agrees
<1> HIDE DEF npc, act, none, out
<1>6. Sound(out(db), out(Healthy))
  BY <1>1, <1>2, <1>3, <1>4, <1>5, ChoiceIsSound
<1> QED
  BY <1>6 DEF out

\* turning it in,
LEMMA TurnInIsSound ==
    ASSUME NEW db, NEW intent
    PROVE  Sound(LowerTurnIn(intent, db), LowerTurnIn(intent, Healthy))
<1> DEFINE npc(d) == QuestNpc(d, intent, "to", "ender")
           action(n) == [op |-> "TurnInQuest", quest |-> Get(intent, "quest", "entity").id, npc |-> n,
                         reward |-> Narrowed(intent, "choose_reward", MaxU32),
                         optional |-> Flag(intent, "optional")]
           act(d) == Interact(d, "npc", npc(d).v, "", action(npc(d).v))
           none == NothingWith({NoNpc("ender")})
           out(d) == LowerTurnIn(intent, d)
<1>1. \A d : out(d) = Choice(npc(d), none, act(d))
  BY DEF LowerTurnIn, WithQuestNpc, Then, Choice
<1>2. Agrees(npc(db), npc(Healthy))
  BY QuestAgrees
<1>3. Sound(none, none)
  BY NothingIsSound DEF NoNpc
<1>4. /\ npc(db) = npc(Healthy) => Sound(act(db), act(Healthy))
      /\ Sound(act(Healthy), act(Healthy))
  BY InteractIsSound
<1>5. act(Healthy).ok = TRUE
  BY <1>4 DEF Sound, Agrees
<1> HIDE DEF npc, act, none, out
<1>6. Sound(out(db), out(Healthy))
  BY <1>1, <1>2, <1>3, <1>4, <1>5, ChoiceIsSound
<1> QED
  BY <1>6 DEF out

\* and what is done at one entity that the intent names.
LEMMA VisitsAreSound ==
    ASSUME NEW db, NEW intent
    PROVE  /\ Sound(LowerKill(intent, db), LowerKill(intent, Healthy))
           /\ Sound(LowerCollect(intent, db), LowerCollect(intent, Healthy))
           /\ Sound(LowerVendor(intent, db), LowerVendor(intent, Healthy))
           /\ Sound(LowerTrainer(intent, db), LowerTrainer(intent, Healthy))
           /\ Sound(LowerFlight(intent, db), LowerFlight(intent, Healthy))
<1>1. Sound(LowerKill(intent, db), LowerKill(intent, Healthy))
  BY InteractIsSound DEF LowerKill, InteractWith
<1>2. Sound(LowerCollect(intent, db), LowerCollect(intent, Healthy))
  BY InteractIsSound DEF LowerCollect, InteractWith
<1>3. Sound(LowerVendor(intent, db), LowerVendor(intent, Healthy))
  BY InteractIsSound DEF LowerVendor, InteractWith
<1>4. Sound(LowerTrainer(intent, db), LowerTrainer(intent, Healthy))
  BY InteractIsSound DEF LowerTrainer, InteractWith
<1>5. Sound(LowerFlight(intent, db), LowerFlight(intent, Healthy))
  BY InteractIsSound DEF LowerFlight, InteractWith
<1> QED
  BY <1>1, <1>2, <1>3, <1>4, <1>5

\* A hearthstone needs no lookup,
LEMMA HearthIsSound == ASSUME NEW intent PROVE Sound(LowerHearth(intent), LowerHearth(intent))
<1> DEFINE hearth == [op |-> "Hearth", innkeeper |-> IdOf(Get(intent, "innkeeper", "entity")),
                      destination |-> Get(intent, "destination", "text")]
<1>1. <<hearth>> # <<>> /\ AreNotes({})
  BY DEF AreNotes
<1>2. LowerHearth(intent) = Lowering(<<hearth>>, {})
  BY DEF LowerHearth
<1> HIDE DEF hearth
<1> QED
  BY <1>1, <1>2, ActionIsSound

\* nor does a gate; one on nothing does not pass its check.
LEMMA GateIsSound ==
    ASSUME NEW intent, ~Blocked(ValidateTask("Gate", intent))
    PROVE  Sound(LowerGate(intent), LowerGate(intent))
<1>1. GateClauses(intent) # <<>>
  BY ErrorsAreNotes DEF ValidateTask, Blocked
<1> DEFINE gate == [op |-> "Condition", role |-> "Completion", all |-> GateClauses(intent)]
<1>2. <<gate>> # <<>> /\ AreNotes({})
  BY DEF AreNotes
<1>3. LowerGate(intent) = Lowering(<<gate>>, {})
  BY <1>1 DEF LowerGate
<1> HIDE DEF gate
<1> QED
  BY <1>2, <1>3, ActionIsSound

\* Travelling looks for a position and then for a name.
LEMMA TravelIsSound ==
    ASSUME NEW db, NEW intent
    PROVE  Sound(LowerTravel(intent, db), LowerTravel(intent, Healthy))
<1> DEFINE position(d) == TravelPosition(intent, d)
           name(d) == TravelName(intent, d)
           none == NothingWith({Error(IF Get(intent, "to", "entity") # None THEN "spawn.unknown"
                                      ELSE "travel.no_destination")})
           travel(n, place) == TravelAction(n, place, Or(Number(intent, "tolerance"), DefaultTolerance),
                                            Flag(intent, "allow_flight"))
           act(d) == IF name(d).ok THEN Lowering(<<travel(name(d).v, position(d).v)>>, {}) ELSE Failed
           out(d) == LowerTravel(intent, d)
<1>1. \A d : out(d) = Choice(position(d), none, act(d))
  BY DEF LowerTravel, Then, Choice
<1>2. \A v : Agrees(Found(v), Found(v))
  BY DEF Agrees, Found
<1>3. Agrees(position(db), position(Healthy))
  BY <1>2, SpawnAgrees DEF TravelPosition
<1>4. Agrees(name(db), name(Healthy))
  BY <1>2, NameAgrees DEF TravelName
<1>5. Sound(none, none)
  BY NothingIsSound
<1>6. \A n, place : Sound(Lowering(<<travel(n, place)>>, {}), Lowering(<<travel(n, place)>>, {}))
  <2> HIDE DEF travel
  <2>1. \A n, place : <<travel(n, place)>> # <<>>
    OBVIOUS
  <2>2. AreNotes({})
    BY DEF AreNotes
  <2> QED
    BY <2>1, <2>2, ActionIsSound
<1> HIDE DEF travel
<1>7. act(Healthy).ok = TRUE
  BY <1>4, <1>6 DEF Agrees, Sound
<1>8. ASSUME position(db) = position(Healthy) PROVE Sound(act(db), act(Healthy))
  <2>1. CASE name(db) = Failed
    <3>1. act(db) = Failed
      BY <2>1 DEF Failed
    <3> QED
      BY <1>7, <3>1, FailureIsSound
  <2>2. CASE name(db) = name(Healthy)
    BY <1>4, <1>6, <1>8, <2>2 DEF Agrees
  <2> QED
    BY <1>4, <2>1, <2>2 DEF Agrees
<1> HIDE DEF position, name, none, act, out
<1>9. Sound(out(db), out(Healthy))
  BY <1>1, <1>3, <1>5, <1>7, <1>8, ChoiceIsSound
<1> QED
  BY <1>9 DEF out

\* The types of the registry.
LEMMA TypesOfTasks ==
    DOMAIN Schema = {"AcceptQuest", "TurnIn", "Kill", "Collect", "Vendor", "Trainer", "Flight",
                     "Hearth", "Gate", "Travel"}
  BY DEF Schema

\* Every task that passes its check is lowered to what the healthy database gives, or not at all.
LEMMA LowerIsSound ==
    ASSUME NEW db, NEW type \in DOMAIN Schema, NEW intent, ~Blocked(ValidateTask(type, intent))
    PROVE  Sound(Lower(type, intent, db), Lower(type, intent, Healthy))
<1>1. CASE type = "AcceptQuest"
  BY <1>1, AcceptIsSound DEF Lower
<1>2. CASE type = "TurnIn"
  BY <1>2, TurnInIsSound DEF Lower
<1>3. CASE type = "Kill"
  BY <1>3, VisitsAreSound DEF Lower
<1>4. CASE type = "Collect"
  BY <1>4, VisitsAreSound DEF Lower
<1>5. CASE type = "Vendor"
  BY <1>5, VisitsAreSound DEF Lower
<1>6. CASE type = "Trainer"
  BY <1>6, VisitsAreSound DEF Lower
<1>7. CASE type = "Flight"
  BY <1>7, VisitsAreSound DEF Lower
<1>8. CASE type = "Hearth"
  BY <1>8, HearthIsSound DEF Lower
<1>9. CASE type = "Gate"
  BY <1>9, GateIsSound DEF Lower
<1>10. CASE type = "Travel"
  BY <1>10, TravelIsSound DEF Lower
<1> QED
  BY <1>1, <1>2, <1>3, <1>4, <1>5, <1>6, <1>7, <1>8, <1>9, <1>10, TypesOfTasks

-----------------------------------------------------------------------------
(* Nodes, graphs and answers *)

\* A node leaves notes, and one that is lowered to nothing has an error.
Reported(r, node) ==
    r.ok => /\ AreNotes(r.v.notes)
            /\ r.v.actions = <<>> => \E n \in r.v.notes : n.severity = "error" /\ n.node = node

\* A node is lowered to what the healthy database gives, or not at all, and never silently to
\* nothing.
LEMMA NodeIsSound ==
    ASSUME NEW db, NEW node
    PROVE  /\ Agrees(LowerNode(node, db), LowerNode(node, Healthy))
           /\ Reported(LowerNode(node, db), node.id)
<1> DEFINE type == node.type
           checks == CheckSchema(Schema[type], node.intent) \cup ValidateTask(type, node.intent)
           lowered(d) == Lower(type, node.intent, d)
           placed(d) == At(node.id, checks \cup lowered(d).v.notes)
           out(d) == LowerNode(node, d)
           nothing(notes) == [ok |-> TRUE, v |-> [actions |-> <<>>, notes |-> At(node.id, notes)]]
           done(d) == [ok |-> TRUE, v |-> [actions |-> lowered(d).v.actions, notes |-> placed(d)]]
<1>1. \A d : out(d) = IF type \notin DOMAIN Schema THEN nothing({Error("task.unknown")})
                      ELSE IF Blocked(checks) THEN nothing(checks)
                      ELSE IF lowered(d).ok THEN done(d) ELSE Failed
  BY DEF LowerNode, Then, NothingWith, Lowering, Found
<1>2. AreNotes(checks)
  BY SchemaNotesAreNotes, ErrorsAreNotes DEF ValidateTask, AreNotes
<1>3. ASSUME NEW notes, AreNotes(notes), Blocked(notes)
      PROVE  Agrees(nothing(notes), nothing(notes)) /\ Reported(nothing(notes), node.id)
  BY <1>3, PlacedErrors DEF Agrees, Reported
<1>4. CASE type \notin DOMAIN Schema
  <2>1. AreNotes({Error("task.unknown")}) /\ Blocked({Error("task.unknown")})
    BY ErrorsAreNotes DEF AreNotes, Blocked
  <2> HIDE DEF nothing, out
  <2>2. out(db) = nothing({Error("task.unknown")}) /\ out(Healthy) = out(db)
    BY <1>1, <1>4
  <2>3. Agrees(out(db), out(Healthy)) /\ Reported(out(db), node.id)
    BY <1>3, <2>1, <2>2
  <2> QED
    BY <2>3 DEF out
<1>5. CASE type \in DOMAIN Schema /\ Blocked(checks)
  <2> HIDE DEF nothing, out, checks
  <2>1. out(db) = nothing(checks) /\ out(Healthy) = out(db)
    BY <1>1, <1>5
  <2>2. Agrees(out(db), out(Healthy)) /\ Reported(out(db), node.id)
    BY <1>2, <1>3, <1>5, <2>1
  <2> QED
    BY <2>2 DEF out
<1>6. CASE type \in DOMAIN Schema /\ ~Blocked(checks)
  <2>1. ~Blocked(ValidateTask(type, node.intent))
    BY <1>6 DEF Blocked
  <2>2. Sound(lowered(db), lowered(Healthy))
    BY <1>6, <2>1, LowerIsSound
  <2> HIDE DEF type, checks, lowered
  <2>3. \A d : lowered(d).ok => done(d).ok = TRUE
    OBVIOUS
  <2>4. lowered(db) = lowered(Healthy) => done(db) = done(Healthy)
    OBVIOUS
  <2>5. ASSUME lowered(db).ok PROVE AreNotes(placed(db))
    <3> DEFINE notes == checks \cup lowered(db).v.notes
    <3>1. AreNotes(notes)
      BY <1>2, <2>2, <2>5 DEF AreNotes, Sound, Told
    <3> HIDE DEF notes
    <3>2. AreNotes(At(node.id, notes))
      BY <3>1, PlacedErrors
    <3> QED
      BY <3>2 DEF notes
  <2>6. ASSUME lowered(db).ok, done(db).v.actions = <<>>
        PROVE  \E n \in placed(db) : n.severity = "error" /\ n.node = node.id
    <3>1. AreNotes(lowered(db).v.notes) /\ Blocked(lowered(db).v.notes)
      BY <2>2, <2>6 DEF Sound, Told
    <3> DEFINE notes == checks \cup lowered(db).v.notes
    <3>2. AreNotes(notes) /\ Blocked(notes)
      BY <1>2, <3>1 DEF AreNotes, Blocked
    <3> HIDE DEF notes
    <3>3. \E n \in At(node.id, notes) : n.severity = "error" /\ n.node = node.id
      BY <3>2, PlacedErrors
    <3> QED
      BY <3>3 DEF notes
  <2>7. lowered(db).ok => Reported(done(db), node.id)
    BY <2>6, <2>5 DEF Reported
  <2> HIDE DEF out, done
  <2>8. CASE lowered(db) = Failed
    <3>1. out(db) = Failed /\ out(Healthy) = done(Healthy)
      BY <1>1, <1>6, <2>2, <2>8 DEF Sound, Agrees, Failed
    <3>2. out(Healthy).ok = TRUE
      BY <2>2, <2>3, <3>1 DEF Sound, Agrees
    <3>3. Agrees(out(db), out(Healthy)) /\ Reported(out(db), node.id)
      BY <3>1, <3>2 DEF Agrees, Reported, Failed
    <3> QED
      BY <3>3 DEF out
  <2>9. CASE lowered(db) = lowered(Healthy)
    <3>1. lowered(db).ok = TRUE /\ out(db) = done(db) /\ out(Healthy) = done(Healthy)
      BY <1>1, <1>6, <2>2, <2>9 DEF Sound, Agrees
    <3>2. Agrees(out(db), out(Healthy)) /\ Reported(out(db), node.id)
      BY <2>2, <2>3, <2>4, <2>7, <2>9, <3>1 DEF Agrees
    <3> QED
      BY <3>2 DEF out
  <2> QED
    BY <2>2, <2>8, <2>9 DEF Sound, Agrees
<1> QED
  BY <1>4, <1>5, <1>6

\* No operation of the plan is silently empty.
NoneSilent(answer) ==
    answer.ok =>
        \A i \in DOMAIN answer.v.plan.operations :
            answer.v.plan.operations[i].actions = <<>> =>
                \E n \in answer.v.notes :
                    n.severity = "error" /\ n.node = answer.v.plan.operations[i].node

\* The plan has the actions and the notes of every node.
LEMMA AssembledHas ==
    ASSUME NEW c, NEW g, NEW fingerprint, NEW order, NEW lowered, DOMAIN lowered = DOMAIN order
    PROVE  LET r == Assembled(c, g, fingerprint, order, lowered)
           IN  /\ DOMAIN r.plan.operations = DOMAIN order
               /\ \A i \in DOMAIN order : /\ r.plan.operations[i].node = g.nodes[order[i]].id
                                          /\ r.plan.operations[i].actions = lowered[i].v.actions
                                          /\ lowered[i].v.notes \subseteq r.notes
               /\ r.plan.campaign = c.id /\ r.plan.graph = g.id
               /\ \A notes : [r EXCEPT !.notes = @ \cup notes]
                                = [plan |-> r.plan, notes |-> r.notes \cup notes]
<1> DEFINE ordered == [i \in DOMAIN order |-> g.nodes[order[i]]]
           operations == [i \in DOMAIN ordered |->
                             [node |-> ordered[i].id, actions |-> lowered[i].v.actions,
                              next |-> Transitions(g, ordered, ordered[i])]]
           conditions == ReferencedConditions(c, operations)
           cycles == {Warning("graph.cycle") : arc \in BackEdges(g, order)}
           told == UNION {lowered[i].v.notes : i \in DOMAIN lowered}
           dangling == All(ordered, LAMBDA n : TransitionNotes(c, g, n))
<1>1. Assembled(c, g, fingerprint, order, lowered)
        = [plan |-> Plan(c, g.id, fingerprint, operations, conditions),
           notes |-> cycles \cup told \cup dangling]
  BY DEF Assembled, MapSeq, All
<1>2. /\ Plan(c, g.id, fingerprint, operations, conditions).operations = operations
      /\ Plan(c, g.id, fingerprint, operations, conditions).campaign = c.id
      /\ Plan(c, g.id, fingerprint, operations, conditions).graph = g.id
  BY DEF Plan
<1>3. \A i \in DOMAIN order : lowered[i].v.notes \subseteq told
  OBVIOUS
<1>4. /\ DOMAIN operations = DOMAIN order
      /\ \A i \in DOMAIN order : /\ operations[i].node = g.nodes[order[i]].id
                                 /\ operations[i].actions = lowered[i].v.actions
  OBVIOUS
<1> DEFINE thePlan == Plan(c, g.id, fingerprint, operations, conditions)
           notes == cycles \cup told \cup dangling
           r == Assembled(c, g, fingerprint, order, lowered)
<1>5. told \subseteq notes
  OBVIOUS
<1> HIDE DEF operations, told, thePlan, notes, r
<1>6. r = [plan |-> thePlan, notes |-> notes]
  BY <1>1 DEF thePlan, notes, r
<1>7. r.plan = thePlan /\ r.notes = notes
  BY <1>6
<1>8. thePlan.operations = operations /\ thePlan.campaign = c.id /\ thePlan.graph = g.id
  BY <1>2 DEF thePlan
<1>9. \A more : [r EXCEPT !.notes = @ \cup more] = [plan |-> r.plan, notes |-> r.notes \cup more]
  <2> SUFFICES ASSUME NEW more
               PROVE  [r EXCEPT !.notes = r.notes \cup more]
                        = [plan |-> r.plan, notes |-> r.notes \cup more]
    OBVIOUS
  <2> DEFINE all == r.notes \cup more
  <2> HIDE DEF all
  <2>1. [r EXCEPT !.notes = all] = [plan |-> thePlan, notes |-> all]
    BY <1>6
  <2> QED
    BY <1>7, <2>1 DEF all
<1>10. \A i \in DOMAIN order : lowered[i].v.notes \subseteq r.notes
  BY <1>3, <1>5, <1>7
<1> QED
  BY <1>4, <1>7, <1>8, <1>9, <1>10 DEF r

\* A graph is lowered to what the healthy database gives, or not at all.
LEMMA GraphIsSound ==
    ASSUME NEW db, db.fingerprint = Healthy.fingerprint, NEW c, NEW g
    PROVE  /\ Agrees(LowerGraph(c, g, db), LowerGraph(c, g, Healthy))
           /\ NoneSilent(LowerGraph(c, g, db))
           /\ LowerGraph(c, g, db).ok =>
                \A notes : LET r == LowerGraph(c, g, db).v
                           IN  [r EXCEPT !.notes = @ \cup notes]
                                 = [plan |-> r.plan, notes |-> r.notes \cup notes]
<1> DEFINE order == TopologicalOrder(g)
           lowered(d) == [i \in DOMAIN order |-> LowerNode(g.nodes[order[i]], d)]
           plan(d) == Assembled(c, g, d.fingerprint, order, lowered(d))
           out(d) == LowerGraph(c, g, d)
<1>1. \A d : out(d) = IF \E i \in DOMAIN lowered(d) : ~lowered(d)[i].ok THEN Failed
                      ELSE [ok |-> TRUE, v |-> plan(d)]
  BY DEF LowerGraph, MapSeq, Found
<1>2. \A i \in DOMAIN order :
        /\ Agrees(lowered(db)[i], lowered(Healthy)[i])
        /\ Reported(lowered(db)[i], g.nodes[order[i]].id)
  BY NodeIsSound
<1>3. \A d : DOMAIN lowered(d) = DOMAIN order
  OBVIOUS
<1>4. out(Healthy) = [ok |-> TRUE, v |-> plan(Healthy)]
  <2>1. \A i \in DOMAIN order : lowered(Healthy)[i].ok = TRUE
    BY <1>2 DEF Agrees
  <2> HIDE DEF lowered, plan, out
  <2> QED
    BY <1>1, <1>3, <2>1
<1>5. CASE \E i \in DOMAIN order : ~lowered(db)[i].ok
  <2> HIDE DEF lowered, plan, out
  <2>1. out(db) = Failed
    BY <1>1, <1>3, <1>5
  <2>2. out(Healthy).ok = TRUE
    BY <1>4
  <2>3. Agrees(out(db), out(Healthy)) /\ NoneSilent(out(db)) /\ ~out(db).ok
    BY <2>1, <2>2 DEF Agrees, NoneSilent, Failed
  <2> QED
    BY <2>3 DEF out
<1>6. CASE \A i \in DOMAIN order : lowered(db)[i].ok
  <2>1. \A i \in DOMAIN order : lowered(db)[i] = lowered(Healthy)[i]
    BY <1>2, <1>6 DEF Agrees, Failed
  <2>2. lowered(db) = lowered(Healthy)
    BY <2>1
  <2>3. plan(db) = plan(Healthy)
    BY <2>2
  <2>4. out(db) = [ok |-> TRUE, v |-> plan(db)]
    <3> HIDE DEF lowered, plan, out
    <3> QED
      BY <1>1, <1>3, <1>6
  <2>5. /\ DOMAIN plan(db).plan.operations = DOMAIN order
        /\ \A i \in DOMAIN order : /\ plan(db).plan.operations[i].node = g.nodes[order[i]].id
                                   /\ plan(db).plan.operations[i].actions = lowered(db)[i].v.actions
                                   /\ lowered(db)[i].v.notes \subseteq plan(db).notes
        /\ plan(db).plan.campaign = c.id /\ plan(db).plan.graph = g.id
        /\ \A notes : [plan(db) EXCEPT !.notes = @ \cup notes]
                         = [plan |-> plan(db).plan, notes |-> plan(db).notes \cup notes]
    <3>1. DOMAIN lowered(db) = DOMAIN order
      BY <1>3
    <3> HIDE DEF lowered
    <3> QED
      BY <3>1, AssembledHas
  <2> HIDE DEF lowered, plan, out
  <2>6. Agrees(out(db), out(Healthy))
    BY <1>4, <2>3, <2>4 DEF Agrees
  <2>7. NoneSilent(out(db))
    <3>1. \A i \in DOMAIN order :
            lowered(db)[i].v.actions = <<>> =>
                \E n \in lowered(db)[i].v.notes : n.severity = "error" /\ n.node = g.nodes[order[i]].id
      BY <1>2, <1>6 DEF Reported
    <3>2. ASSUME NEW i \in DOMAIN order, plan(db).plan.operations[i].actions = <<>>
          PROVE  \E n \in plan(db).notes :
                    n.severity = "error" /\ n.node = plan(db).plan.operations[i].node
      BY <2>5, <3>1, <3>2
    <3>3. out(db).v = plan(db)
      BY <2>4
    <3> QED
      BY <2>5, <3>2, <3>3 DEF NoneSilent
  <2>8. out(db).v = plan(db)
    BY <2>4
  <2> QED
    BY <2>5, <2>6, <2>7, <2>8 DEF out
<1> QED
  BY <1>5, <1>6

\* So is the first of several graphs, or that there is none.
LEMMA FirstIsSound ==
    ASSUME NEW db, db.fingerprint = Healthy.fingerprint, NEW c, NEW id, NEW graphs, NEW notes
    PROVE  /\ Agrees(ResolveFirst(c, db, id, graphs, notes), ResolveFirst(c, Healthy, id, graphs, notes))
           /\ NoneSilent(ResolveFirst(c, db, id, graphs, notes))
<1> DEFINE out(d) == ResolveFirst(c, d, id, graphs, notes)
           lowered(d) == LowerGraph(c, graphs[1], d)
           with(d) == [lowered(d).v EXCEPT !.notes = @ \cup notes]
<1>1. CASE graphs = <<>>
  <2> DEFINE empty == Plan(c, id, db.fingerprint, <<>>, <<>>)
  <2>1. out(db) = out(Healthy)
    BY <1>1 DEF ResolveFirst
  <2>2. out(db) = [ok |-> TRUE, v |-> [plan |-> empty, notes |-> notes \cup {Error("campaign.no_graph")}]]
    BY <1>1 DEF ResolveFirst, Found
  <2>3. empty.operations = <<>>
    BY DEF Plan
  <2> HIDE DEF empty, out
  <2>4. out(db).ok = TRUE /\ out(db).v.plan.operations = <<>>
    BY <2>2, <2>3
  <2>5. Agrees(out(db), out(Healthy)) /\ NoneSilent(out(db))
    BY <2>1, <2>4 DEF Agrees, NoneSilent
  <2> QED
    BY <2>5 DEF out
<1>2. CASE graphs # <<>>
  <2>1. \A d : out(d) = IF lowered(d).ok THEN [ok |-> TRUE, v |-> with(d)] ELSE Failed
    BY <1>2 DEF ResolveFirst, Then, Found
  <2>2. /\ Agrees(lowered(db), lowered(Healthy)) /\ NoneSilent(lowered(db))
        /\ lowered(db).ok =>
             with(db) = [plan |-> lowered(db).v.plan, notes |-> lowered(db).v.notes \cup notes]
    BY GraphIsSound
  <2>3. lowered(db) = lowered(Healthy) => with(db) = with(Healthy)
    OBVIOUS
  <2> HIDE DEF lowered, with, out
  <2>4. out(Healthy).ok = TRUE
    BY <2>1, <2>2 DEF Agrees
  <2>5. CASE lowered(db) = Failed
    <3>1. out(db) = Failed
      BY <2>1, <2>5 DEF Failed
    <3>2. Agrees(out(db), out(Healthy)) /\ NoneSilent(out(db))
      BY <2>4, <3>1 DEF Agrees, NoneSilent, Failed
    <3> QED
      BY <3>2 DEF out
  <2>6. CASE lowered(db) = lowered(Healthy)
    <3>1. lowered(db).ok = TRUE
      BY <2>2, <2>6 DEF Agrees
    <3>2. out(db) = [ok |-> TRUE, v |-> with(db)] /\ out(Healthy) = out(db)
      BY <2>1, <2>3, <2>6, <3>1
    <3>3. /\ out(db).v.plan = lowered(db).v.plan
          /\ out(db).v.notes = lowered(db).v.notes \cup notes
      BY <2>2, <3>1, <3>2
    <3>4. NoneSilent(out(db))
      BY <2>2, <3>1, <3>3 DEF NoneSilent
    <3>5. Agrees(out(db), out(Healthy))
      BY <3>2 DEF Agrees
    <3> QED
      BY <3>4, <3>5 DEF out
  <2> QED
    BY <2>2, <2>5, <2>6 DEF Agrees
<1> QED
  BY <1>1, <1>2

\* And so is what the resolver answers to each request.
LEMMA AnswersAreSound ==
    ASSUME NEW db, db.fingerprint = Healthy.fingerprint, NEW ask \in {"campaign", "graph", "post"}
    PROVE  Agrees(AnswerTo(ask, db), AnswerTo(ask, Healthy)) /\ NoneSilent(AnswerTo(ask, db))
<1>1. \A lib, c : /\ Agrees(ResolveCampaign(lib, c, db), ResolveCampaign(lib, c, Healthy))
                  /\ NoneSilent(ResolveCampaign(lib, c, db))
  BY FirstIsSound DEF ResolveCampaign
<1>2. CASE ask = "campaign"
  BY <1>1, <1>2 DEF AnswerTo
<1>3. CASE ask = "graph"
  <2> DEFINE flat == Flatten(library, campaign)
             graphs == Only(flat.graphs, {g \in ToSet(flat.graphs) : g.id = GraphId})
  <2>1. \A d : ResolveGraphOf(library, campaign, d, GraphId)
                  = ResolveFirst(campaign, d, GraphId, graphs, flat.notes)
    BY DEF ResolveGraphOf
  <2> HIDE DEF graphs, flat
  <2> QED
    BY <1>3, <2>1, FirstIsSound DEF AnswerTo
<1>4. CASE ask = "post"
  <2> DEFINE read(d) == Lookup(d, "fingerprint", d.fingerprint)
             out(d) == PostResolve(campaign, d)
             resolved(d) == ResolveCampaign(NoImports, campaign, d)
  <2>1. \A d : out(d) = IF read(d).ok THEN resolved(d) ELSE Failed
    BY DEF PostResolve, Then
  <2>2. Agrees(read(db), read(Healthy))
    BY LookupAgrees
  <2>3. Agrees(resolved(db), resolved(Healthy)) /\ NoneSilent(resolved(db))
    BY <1>1
  <2> HIDE DEF read, out, resolved
  <2>4. out(Healthy) = resolved(Healthy)
    BY <2>1, <2>2 DEF Agrees
  <2>5. out(db) = Failed \/ out(db) = resolved(db)
    BY <2>1
  <2>6. NoneSilent(Failed)
    BY DEF NoneSilent, Failed
  <2>7. Agrees(out(db), out(Healthy)) /\ NoneSilent(out(db))
    BY <2>3, <2>4, <2>5, <2>6 DEF Agrees
  <2> QED
    BY <1>4, <2>7 DEF AnswerTo, out
<1> QED
  BY <1>2, <1>3, <1>4

-----------------------------------------------------------------------------
(* Repeating a step *)

\* A set of natural numbers that is not empty has a least element.
LEMMA LeastOf == ASSUME NEW S, S \subseteq Nat, S # {} PROVE \E m \in S : \A k \in S : m <= k
<1> DEFINE R == OpToRel(<, Nat)
<1>1. IsWellFoundedOn(R, Nat)
  BY NatLessThanWellFounded
<1>2. \A x, y \in Nat : x < y => <<x, y>> \in R
  BY DEF OpToRel
<1> HIDE DEF R
<1>3. PICK x \in S : \A y \in S : ~ (<<y, x>> \in R)
  BY <1>1, WFMin
<1>4. \A k \in S : ~ (k < x)
  BY <1>2, <1>3
<1> QED
  BY <1>4

\* A set that has zero and the successor of what it has holds every natural number.
LEMMA SetInduction ==
    ASSUME NEW S, 0 \in S, \A n \in Nat : n \in S => n + 1 \in S
    PROVE  Nat \subseteq S
<1> SUFFICES ASSUME NEW x \in Nat, x \notin S PROVE FALSE
  OBVIOUS
<1> DEFINE T == {n \in Nat : n \notin S}
<1>1. PICK m \in T : \A k \in T : m <= k
  BY LeastOf
<1>2. m # 0 /\ m - 1 \in Nat /\ m - 1 \notin T
  BY <1>1
<1> QED
  BY <1>1, <1>2

\* f does n steps of R from a.
Steps(f, n, a, R) == f[0] = a /\ \A k \in 1..n : f[k] = R[<<k, f[k - 1]>>]

\* f does steps of R from a for ever, without leaving V.
Repeats(f, V, a, R) ==
    f \in [Nat -> V] /\ \A n \in Nat : f[n] = IF n = 0 THEN a ELSE R[<<n, f[n - 1]>>]

\* The steps of R stay in V.
StaysIn(V, R) == \A k \in Nat, v \in V : R[<<k, v>>] \in V

\* Steps that stay in a set can be repeated for ever.
LEMMA Repeating == ASSUME NEW V, NEW a \in V, NEW R, StaysIn(V, R) PROVE \E f : Repeats(f, V, a, R)
<1> USE DEF StaysIn
<1> DEFINE S == {n \in Nat : \E f \in [Nat -> V] : Steps(f, n, a, R)}
<1>1. 0 \in S
  <2> DEFINE f == [k \in Nat |-> a]
  <2>1. f \in [Nat -> V] /\ Steps(f, 0, a, R)
    BY DEF Steps
  <2> QED
    BY <2>1
<1>2. ASSUME NEW n \in Nat, n \in S PROVE n + 1 \in S
  <2>1. PICK f \in [Nat -> V] : Steps(f, n, a, R)
    BY <1>2
  <2> DEFINE v == R[<<n + 1, f[n]>>]
             g == [f EXCEPT ![n + 1] = v]
  <2>2. v \in V
    OBVIOUS
  <2> HIDE DEF v
  <2>3. g \in [Nat -> V] /\ g[n + 1] = v /\ \A k \in 0..n : g[k] = f[k]
    BY <2>2
  <2> HIDE DEF g
  <2>4. ASSUME NEW k \in 1..(n + 1) PROVE g[k] = R[<<k, g[k - 1]>>]
    <3>1. CASE k = n + 1
      BY <2>3, <3>1 DEF v
    <3>2. CASE k # n + 1
      <4>1. k \in 1..n /\ k \in 0..n /\ k - 1 \in 0..n
        BY <3>2
      <4> QED
        BY <2>1, <2>3, <4>1 DEF Steps
    <3> QED
      BY <3>1, <3>2
  <2>5. Steps(g, n + 1, a, R)
    BY <2>1, <2>3, <2>4 DEF Steps
  <2> QED
    BY <2>3, <2>5
<1>3. Nat \subseteq S
  <2> HIDE DEF S
  <2> QED
    BY <1>1, <1>2, SetInduction
<1> DEFINE with(n) == CHOOSE f \in [Nat -> V] : Steps(f, n, a, R)
<1>4. ASSUME NEW n \in Nat PROVE with(n) \in [Nat -> V] /\ Steps(with(n), n, a, R)
  BY <1>3
<1> HIDE DEF with, S
<1>5. ASSUME NEW n \in Nat, NEW m \in Nat, n <= m PROVE with(n)[n] = with(m)[n]
  <2> DEFINE T == {k \in Nat : k <= n => with(n)[k] = with(m)[k]}
  <2>1. Steps(with(n), n, a, R) /\ Steps(with(m), m, a, R)
    BY <1>4
  <2>2. 0 \in T
    BY <2>1 DEF Steps
  <2>3. ASSUME NEW k \in Nat, k \in T PROVE k + 1 \in T
    <3> SUFFICES ASSUME k + 1 <= n PROVE with(n)[k + 1] = with(m)[k + 1]
      OBVIOUS
    <3>1. k + 1 \in 1..n /\ k + 1 \in 1..m /\ (k + 1) - 1 = k /\ with(n)[k] = with(m)[k]
      BY <1>5, <2>3
    <3> QED
      BY <2>1, <3>1 DEF Steps
  <2> HIDE DEF T
  <2>4. n \in T
    BY <2>2, <2>3, SetInduction
  <2> QED
    BY <2>4 DEF T
<1> DEFINE f == [n \in Nat |-> with(n)[n]]
<1>6. f \in [Nat -> V]
  BY <1>4
<1>7. ASSUME NEW n \in Nat PROVE f[n] = IF n = 0 THEN a ELSE R[<<n, f[n - 1]>>]
  <2>1. Steps(with(n), n, a, R)
    BY <1>4
  <2>2. CASE n = 0
    BY <2>1, <2>2 DEF Steps
  <2>3. CASE n # 0
    <3>1. n \in 1..n /\ n - 1 \in Nat /\ n - 1 <= n
      BY <2>3
    <3>2. with(n - 1)[n - 1] = with(n)[n - 1]
      BY <1>5, <3>1
    <3> QED
      BY <2>1, <2>3, <3>1, <3>2 DEF Steps
  <2> QED
    BY <2>2, <2>3
<1> QED
  BY <1>6, <1>7 DEF Repeats

-----------------------------------------------------------------------------
(* Lists *)

\* o is what the first n of list s have in `kept`, and at says where it stood.
Picked(s, kept, n, o, at) ==
    /\ at \in [1..Len(o) -> 1..n]
    /\ \A k \in 1..Len(o) : o[k] = s[at[k]] /\ o[k] \in kept
    /\ \A k, l \in 1..Len(o) : k < l => at[k] < at[l]
    /\ \A i \in 1..n : s[i] \in kept => \E k \in 1..Len(o) : at[k] = i

\* Only is computed from the front to the end.
LEMMA OnlyRuns ==
    ASSUME NEW X, NEW s \in Seq(X), NEW kept
    PROVE  \E f : /\ f[0] = <<>>
                  /\ \A n \in 1..Len(s) : f[n] = IF s[n] \in kept THEN Append(f[n - 1], s[n]) ELSE f[n - 1]
                  /\ Only(s, kept) = f[Len(s)]
<1> DEFINE N == Len(s)
           Lists == Seq(X)
           Take == [p \in Nat \X Lists |->
                    IF p[1] \in 1..N /\ s[p[1]] \in kept THEN Append(p[2], s[p[1]]) ELSE p[2]]
           Is(g) == g = [n \in 0..N |-> IF n = 0 THEN <<>>
                                        ELSE IF s[n] \in kept THEN Append(g[n - 1], s[n]) ELSE g[n - 1]]
<1>1. N \in Nat /\ \A k \in 1..N : s[k] \in X
  OBVIOUS
<1>2. ASSUME NEW k \in Nat, NEW v \in Lists
      PROVE  /\ Take[<<k, v>>] = IF k \in 1..N /\ s[k] \in kept THEN Append(v, s[k]) ELSE v
             /\ Take[<<k, v>>] \in Lists
  BY <1>1
<1>3. <<>> \in Lists
  OBVIOUS
<1> HIDE DEF N, Take, Lists
<1>4. PICK f : Repeats(f, Lists, <<>>, Take)
  BY <1>2, <1>3, Repeating DEF StaysIn
<1>5. ASSUME NEW n \in 1..N
      PROVE  f[n] = IF s[n] \in kept THEN Append(f[n - 1], s[n]) ELSE f[n - 1]
  <2>1. n \in Nat /\ n # 0 /\ n - 1 \in Nat /\ f[n - 1] \in Lists
    BY <1>1, <1>4 DEF Repeats
  <2> QED
    BY <1>2, <1>4, <2>1 DEF Repeats
<1> DEFINE g == [n \in 0..N |-> f[n]]
<1>6. Is(g)
  <2>1. ASSUME NEW n \in 0..N
        PROVE  f[n] = IF n = 0 THEN <<>> ELSE IF s[n] \in kept THEN Append(g[n - 1], s[n]) ELSE g[n - 1]
    <3>1. CASE n = 0
      BY <1>4, <3>1 DEF Repeats
    <3>2. CASE n # 0
      <4>1. n \in 1..N /\ n - 1 \in 0..N
        BY <1>1, <3>2
      <4> QED
        BY <1>5, <3>2, <4>1
    <3> QED
      BY <3>1, <3>2
  <2> QED
    BY <2>1, Zenon
<1> HIDE DEF g
<1>7. PICK h : h = (CHOOSE r : Is(r))
  OBVIOUS
<1>8. Is(h)
  BY <1>6, <1>7
<1>9. Only(s, kept) = h[N]
  BY <1>7 DEF Only, N
<1>10. h[0] = <<>>
  BY <1>1, <1>8
<1>11. ASSUME NEW n \in 1..N
      PROVE  h[n] = IF s[n] \in kept THEN Append(h[n - 1], s[n]) ELSE h[n - 1]
  <2>1. n \in 0..N /\ n # 0
    BY <1>1
  <2> QED
    BY <1>8, <2>1
<1> QED
  BY <1>9, <1>10, <1>11 DEF N

\* So Only lists what is in `kept`, in its order.
LEMMA OnlyPicks ==
    ASSUME NEW X, NEW s \in Seq(X), NEW kept
    PROVE  Only(s, kept) \in Seq(X) /\ \E at : Picked(s, kept, Len(s), Only(s, kept), at)
<1>1. PICK f : /\ f[0] = <<>>
               /\ \A n \in 1..Len(s) : f[n] = IF s[n] \in kept THEN Append(f[n - 1], s[n]) ELSE f[n - 1]
               /\ Only(s, kept) = f[Len(s)]
  BY OnlyRuns
<1> DEFINE S == {n \in Nat : n <= Len(s) => f[n] \in Seq(X) /\ \E at : Picked(s, kept, n, f[n], at)}
<1>2. 0 \in S
  <2>1. Picked(s, kept, 0, <<>>, <<>>)
    BY DEF Picked
  <2>2. f[0] \in Seq(X) /\ \E at : Picked(s, kept, 0, f[0], at)
    BY <1>1, <2>1
  <2> QED
    BY <2>2
<1>3. ASSUME NEW n \in Nat, n \in S PROVE n + 1 \in S
  <2> SUFFICES ASSUME n + 1 <= Len(s)
               PROVE  f[n + 1] \in Seq(X) /\ \E at : Picked(s, kept, n + 1, f[n + 1], at)
    OBVIOUS
  <2>1. n + 1 \in 1..Len(s) /\ (n + 1) - 1 = n /\ s[n + 1] \in X
    OBVIOUS
  <2> DEFINE o == f[n]
             m == Len(o)
  <2>2. PICK at : o \in Seq(X) /\ Picked(s, kept, n, o, at)
    BY <1>3, <2>1
  <2>3. f[n + 1] = IF s[n + 1] \in kept THEN Append(o, s[n + 1]) ELSE o
    BY <1>1, <2>1
  <2> HIDE DEF o
  <2>4. CASE s[n + 1] \in kept
    <3> DEFINE p == Append(o, s[n + 1])
               to == [k \in 1..(m + 1) |-> IF k = m + 1 THEN n + 1 ELSE at[k]]
    <3>1. /\ p \in Seq(X) /\ Len(p) = m + 1 /\ p[m + 1] = s[n + 1] /\ \A k \in 1..m : p[k] = o[k]
          /\ m \in Nat
      BY <2>1, <2>2
    <3>2. to[m + 1] = n + 1 /\ \A k \in 1..m : to[k] = at[k]
      BY <3>1
    <3>3. to \in [1..(m + 1) -> 1..(n + 1)]
      BY <2>2, <3>1 DEF Picked
    <3> HIDE DEF p, to
    <3>4. \A k \in 1..(m + 1) : p[k] = s[to[k]] /\ p[k] \in kept
      BY <2>2, <2>4, <3>1, <3>2 DEF Picked
    <3>5. ASSUME NEW k \in 1..(m + 1), NEW l \in 1..(m + 1), k < l PROVE to[k] < to[l]
      <4>0. k \in 1..m
        BY <3>1, <3>5
      <4>1. k \in 1..m /\ at[k] \in 1..n /\ to[k] = at[k]
        BY <2>2, <3>2, <4>0 DEF Picked
      <4>2. CASE l = m + 1
        BY <3>2, <4>1, <4>2
      <4>3. CASE l # m + 1
        <5>1. l \in 1..m
          BY <3>1, <4>3
        <5> QED
          BY <2>2, <3>2, <3>5, <4>1, <5>1 DEF Picked
      <4> QED
        BY <4>2, <4>3
    <3>6. ASSUME NEW i \in 1..(n + 1), s[i] \in kept PROVE \E k \in 1..(m + 1) : to[k] = i
      <4>1. CASE i = n + 1
        BY <3>1, <3>2, <4>1
      <4>2. CASE i \in 1..n
        <5>1. PICK k \in 1..m : at[k] = i
          BY <2>2, <3>6, <4>2 DEF Picked
        <5> QED
          BY <3>1, <3>2, <5>1
      <4> QED
        BY <4>1, <4>2
    <3>7. Picked(s, kept, n + 1, p, to)
      BY <3>1, <3>3, <3>4, <3>5, <3>6 DEF Picked
    <3> QED
      BY <2>3, <2>4, <3>1, <3>7 DEF p
  <2>5. CASE s[n + 1] \notin kept
    <3>1. m \in Nat
      BY <2>2
    <3>2. at \in [1..m -> 1..(n + 1)] /\ \A i \in 1..(n + 1) : s[i] \in kept => i \in 1..n
      BY <2>2, <2>5, <3>1 DEF Picked
    <3>3. Picked(s, kept, n + 1, o, at)
      BY <2>2, <3>2 DEF Picked
    <3> QED
      BY <2>2, <2>3, <2>5, <3>3
  <2> QED
    BY <2>4, <2>5
<1> HIDE DEF S
<1>4. Len(s) \in S
  BY <1>2, <1>3, SetInduction
<1> QED
  BY <1>1, <1>4 DEF S

\* What Only lists.
LEMMA OnlyHas ==
    ASSUME NEW X, NEW s \in Seq(X), NEW kept
    PROVE  ToSet(Only(s, kept)) = ToSet(s) \cap kept
<1> DEFINE o == Only(s, kept)
<1>1. PICK at : o \in Seq(X) /\ Picked(s, kept, Len(s), o, at)
  BY OnlyPicks
<1> HIDE DEF o
<1>2. DOMAIN o = 1..Len(o) /\ DOMAIN s = 1..Len(s)
  BY <1>1
<1>3. ASSUME NEW k \in 1..Len(o) PROVE o[k] \in ToSet(s) \cap kept
  BY <1>1, <1>2 DEF Picked, ToSet
<1>4. ASSUME NEW i \in 1..Len(s), s[i] \in kept PROVE \E k \in 1..Len(o) : o[k] = s[i]
  BY <1>1, <1>4 DEF Picked
<1>5. ToSet(o) = {o[k] : k \in 1..Len(o)} /\ ToSet(s) = {s[i] : i \in 1..Len(s)}
  BY <1>2 DEF ToSet
<1> QED
  BY <1>3, <1>4, <1>5 DEF o

\* Two lists joined have what each of them has.
LEMMA JoinedHas ==
    ASSUME NEW X, NEW v \in Seq(X), NEW w \in Seq(X)
    PROVE  v \o w \in Seq(X) /\ ToSet(v \o w) = ToSet(v) \cup ToSet(w)
<1> DEFINE u == v \o w
<1>1. /\ u \in Seq(X) /\ Len(u) = Len(v) + Len(w) /\ Len(v) \in Nat /\ Len(w) \in Nat
      /\ \A i \in 1..(Len(v) + Len(w)) : u[i] = IF i <= Len(v) THEN v[i] ELSE w[i - Len(v)]
  BY ConcatProperties
<1>2. DOMAIN v = 1..Len(v) /\ DOMAIN w = 1..Len(w) /\ DOMAIN u = 1..(Len(v) + Len(w))
  BY <1>1
<1> HIDE DEF u
<1>3. ASSUME NEW i \in 1..Len(v) PROVE u[i] = v[i] /\ i \in 1..(Len(v) + Len(w))
  BY <1>1
<1>4. ASSUME NEW i \in 1..Len(w)
      PROVE  u[i + Len(v)] = w[i] /\ i + Len(v) \in 1..(Len(v) + Len(w))
  <2>1. /\ i + Len(v) \in 1..(Len(v) + Len(w))
        /\ ~ (i + Len(v) <= Len(v)) /\ (i + Len(v)) - Len(v) = i
    BY <1>1
  <2> QED
    BY <1>1, <2>1
<1>5. ASSUME NEW i \in 1..(Len(v) + Len(w)), i > Len(v)
      PROVE  u[i] = w[i - Len(v)] /\ i - Len(v) \in 1..Len(w)
  BY <1>1, <1>5
<1>6. ASSUME NEW i \in 1..(Len(v) + Len(w)) PROVE u[i] \in ToSet(v) \cup ToSet(w)
  <2>1. CASE i <= Len(v)
    <3>1. i \in 1..Len(v)
      BY <1>1, <2>1
    <3> QED
      BY <1>2, <1>3, <3>1 DEF ToSet
  <2>2. CASE i > Len(v)
    BY <1>2, <1>5, <2>2 DEF ToSet
  <2> QED
    BY <1>1, <2>1, <2>2
<1>7. ASSUME NEW i \in 1..Len(v) PROVE v[i] \in ToSet(u)
  BY <1>2, <1>3 DEF ToSet
<1>8. ASSUME NEW i \in 1..Len(w) PROVE w[i] \in ToSet(u)
  BY <1>2, <1>4 DEF ToSet
<1>9. ToSet(u) = ToSet(v) \cup ToSet(w)
  BY <1>2, <1>6, <1>7, <1>8 DEF ToSet
<1> QED
  BY <1>1, <1>9 DEF u

\* What a list of lists has is what its lists have.
LEMMA FlattenHas ==
    ASSUME NEW X, NEW ss \in Seq(Seq(X))
    PROVE  /\ FlattenSeq(ss) \in Seq(X)
           /\ ToSet(FlattenSeq(ss)) = UNION {ToSet(ss[i]) : i \in DOMAIN ss}
<1> DEFINE N == Len(ss)
           Lists == Seq(X)
           Add == [p \in Nat \X Lists |-> IF p[1] \in 1..N THEN p[2] \o ss[p[1]] ELSE p[2]]
           Is(g) == g = [n \in 1..N |-> IF n = 1 THEN ss[n] ELSE g[n - 1] \o ss[n]]
<1>1. N \in Nat /\ DOMAIN ss = 1..N /\ \A k \in 1..N : ss[k] \in Lists
  OBVIOUS
<1>2. ASSUME NEW k \in Nat, NEW v \in Lists
      PROVE  /\ Add[<<k, v>>] = IF k \in 1..N THEN v \o ss[k] ELSE v
             /\ Add[<<k, v>>] \in Lists
  BY <1>1, ConcatProperties
<1> DEFINE e == <<>>
<1>3. e \in Lists /\ \A v \in Lists : e \o v = v
  BY ConcatEmptySeq
<1>4. \A v, w \in Lists : v \o w \in Lists /\ ToSet(v \o w) = ToSet(v) \cup ToSet(w)
  BY JoinedHas
<1> HIDE DEF N, Lists, Add, e
<1>5. PICK f : Repeats(f, Lists, e, Add)
  BY <1>2, <1>3, Repeating DEF StaysIn
<1>6. ASSUME NEW n \in 1..N PROVE f[n] = f[n - 1] \o ss[n] /\ f[n] \in Lists /\ f[n - 1] \in Lists
  <2>1. n \in Nat /\ n # 0 /\ n - 1 \in Nat /\ f[n - 1] \in Lists /\ f[n] \in Lists
    BY <1>1, <1>5 DEF Repeats
  <2> QED
    BY <1>2, <1>5, <2>1 DEF Repeats
<1>7. f[0] = e
  BY <1>5 DEF Repeats
<1> DEFINE g == [n \in 1..N |-> f[n]]
<1>8. Is(g)
  <2>1. ASSUME NEW n \in 1..N PROVE f[n] = IF n = 1 THEN ss[n] ELSE g[n - 1] \o ss[n]
    <3>1. CASE n = 1
      <4>1. f[1] = f[0] \o ss[1]
        <5>1. 1 \in 1..N /\ 1 - 1 = 0
          BY <3>1
        <5> QED
          BY <1>6, <5>1
      <4> QED
        BY <1>1, <1>3, <1>7, <3>1, <4>1
    <3>2. CASE n # 1
      <4>1. n - 1 \in 1..N
        BY <1>1, <3>2
      <4> QED
        BY <1>6, <3>2, <4>1
    <3> QED
      BY <3>1, <3>2
  <2> QED
    BY <2>1, Zenon
<1> HIDE DEF g
<1>9. PICK h : h = (CHOOSE r : Is(r))
  OBVIOUS
<1>10. Is(h)
  BY <1>8, <1>9
<1>11. FlattenSeq(ss) = IF N = 0 THEN ss ELSE h[N]
  BY <1>9 DEF FlattenSeq, N
<1> DEFINE S == {n \in Nat : n \in 1..N => h[n] = f[n]}
<1>12. N \in S
  <2>1. 0 \in S
    OBVIOUS
  <2>2. ASSUME NEW n \in Nat, n \in S PROVE n + 1 \in S
    <3> SUFFICES ASSUME n + 1 \in 1..N PROVE h[n + 1] = f[n + 1]
      OBVIOUS
    <3>0. (n + 1) - 1 = n
      OBVIOUS
    <3>1. h[n + 1] = IF n + 1 = 1 THEN ss[n + 1] ELSE h[n] \o ss[n + 1]
      BY <1>10, <3>0
    <3>2. f[n + 1] = f[n] \o ss[n + 1]
      BY <1>6, <3>0
    <3>3. CASE n = 0
      <4>1. n + 1 = 1
        BY <3>3
      <4>2. f[n + 1] = e \o ss[n + 1] /\ h[n + 1] = ss[n + 1]
        BY <1>7, <3>1, <3>2, <3>3, <4>1
      <4> QED
        BY <1>1, <1>3, <4>2
    <3>4. CASE n # 0
      <4>1. h[n] = f[n]
        BY <1>1, <2>2, <3>4
      <4>2. n + 1 # 1
        BY <3>4
      <4> QED
        BY <3>1, <3>2, <4>1, <4>2
    <3> QED
      BY <3>3, <3>4
  <2> HIDE DEF S
  <2> QED
    BY <1>1, <2>1, <2>2, SetInduction
<1> DEFINE T == {n \in Nat : n <= N => ToSet(f[n]) = UNION {ToSet(ss[i]) : i \in 1..n}}
<1>13. N \in T
  <2>1. 0 \in T
    <3>1. ToSet(f[0]) = {}
      BY <1>7 DEF ToSet, e
    <3> QED
      BY <3>1
  <2>2. ASSUME NEW n \in Nat, n \in T PROVE n + 1 \in T
    <3> SUFFICES ASSUME n + 1 <= N PROVE ToSet(f[n + 1]) = UNION {ToSet(ss[i]) : i \in 1..(n + 1)}
      OBVIOUS
    <3>1. n + 1 \in 1..N /\ (n + 1) - 1 = n
      BY <1>1
    <3>2. ToSet(f[n + 1]) = ToSet(f[n]) \cup ToSet(ss[n + 1])
      <4>1. f[n + 1] = f[n] \o ss[n + 1] /\ f[n] \in Lists
        BY <1>6, <3>1
      <4>2. ss[n + 1] \in Lists
        BY <1>1, <3>1
      <4> QED
        BY <1>4, <4>1, <4>2
    <3>3. ToSet(f[n]) = UNION {ToSet(ss[i]) : i \in 1..n}
      BY <1>1, <2>2
    <3>4. \A i : i \in 1..(n + 1) <=> i \in 1..n \/ i = n + 1
      OBVIOUS
    <3> QED
      BY <3>2, <3>3, <3>4
  <2> HIDE DEF T
  <2> QED
    BY <1>1, <2>1, <2>2, SetInduction
<1>14. CASE N = 0
  <2>1. ss = <<>> /\ DOMAIN ss = {} /\ ToSet(<<>>) = {}
    BY <1>1, <1>14 DEF N, ToSet
  <2> QED
    BY <1>3, <1>11, <1>14, <2>1 DEF Lists, e
<1>15. CASE N # 0
  <2>1. N \in 1..N
    BY <1>1, <1>15
  <2>2. FlattenSeq(ss) = f[N]
    BY <1>11, <1>12, <1>15, <2>1
  <2> QED
    BY <1>1, <1>6, <1>13, <2>1, <2>2 DEF Lists
<1> QED
  BY <1>14, <1>15

\* Two edges made one.
Through(p, s) == [from |-> p.from, to |-> s.to, guard |-> Or(p.guard, s.guard)]

\* The edges without a node: those that avoid it, and one for every way in and every way out.
EdgesWithout(edges, x) ==
    {e \in edges : x \notin {e.from, e.to}}
        \cup {Through(pair[1], pair[2]) : pair \in {e \in edges : e.to = x} \X {e \in edges : e.from = x}}

\* A list of the members of a set.
LEMMA ListOf == ASSUME NEW X, NEW s \in Seq(X) PROVE ToSet(s) \subseteq X /\ s \in Seq(ToSet(s))
<1>1. DOMAIN s = 1..Len(s) /\ \A i \in 1..Len(s) : s[i] \in X
  OBVIOUS
<1>2. ToSet(s) = {s[i] : i \in 1..Len(s)}
  BY <1>1 DEF ToSet
<1>3. Len(s) \in Nat /\ s \in [1..Len(s) -> ToSet(s)]
  BY <1>1, <1>2
<1> QED
  BY <1>1, <1>2, <1>3, SeqDef

\* What Spliced lists.
LEMMA SplicedHas ==
    ASSUME NEW g, IsList(g.edges), NEW x
    PROVE  LET made == {Through(pair[1], pair[2]) :
                           pair \in {e \in EdgesOf(g) : e.to = x} \X {e \in EdgesOf(g) : e.from = x}}
           IN  Spliced(g, x) \in Seq(made) /\ ToSet(Spliced(g, x)) = made
<1> DEFINE in == Incoming(g, x)
           out == Outgoing(g, x)
           ins == {e \in EdgesOf(g) : e.to = x}
           outs == {e \in EdgesOf(g) : e.from = x}
           made == {Through(pair[1], pair[2]) : pair \in ins \X outs}
           ss == [i \in DOMAIN in |-> [j \in DOMAIN out |-> Through(in[i], out[j])]]
<1>1. g.edges \in Seq(EdgesOf(g))
  BY DEF IsList, EdgesOf
<1>2. /\ in \in Seq(EdgesOf(g)) /\ ToSet(in) = ins
      /\ out \in Seq(EdgesOf(g)) /\ ToSet(out) = outs
  BY <1>1, OnlyPicks, OnlyHas DEF Incoming, Outgoing, EdgesOf
<1>3. /\ DOMAIN in = 1..Len(in) /\ Len(in) \in Nat /\ ins = {in[i] : i \in DOMAIN in}
      /\ DOMAIN out = 1..Len(out) /\ Len(out) \in Nat /\ outs = {out[i] : i \in DOMAIN out}
  BY <1>2 DEF ToSet
<1>4. Spliced(g, x) = FlattenSeq(ss)
  BY DEF Spliced, MapSeq, Through
<1> HIDE DEF in, out, ins, outs
<1>5. \A i \in DOMAIN in, j \in DOMAIN out : Through(in[i], out[j]) \in made
  <2> SUFFICES ASSUME NEW i \in DOMAIN in, NEW j \in DOMAIN out PROVE Through(in[i], out[j]) \in made
    OBVIOUS
  <2>1. <<in[i], out[j]>> \in ins \X outs
    BY <1>3
  <2> QED
    BY <2>1
<1>6. \A i \in DOMAIN in : ss[i] \in Seq(made) /\ ToSet(ss[i]) = {Through(in[i], out[j]) : j \in DOMAIN out}
  <2> SUFFICES ASSUME NEW i \in DOMAIN in
               PROVE  ss[i] \in Seq(made) /\ ToSet(ss[i]) = {Through(in[i], out[j]) : j \in DOMAIN out}
    OBVIOUS
  <2> DEFINE row == [j \in DOMAIN out |-> Through(in[i], out[j])]
  <2>1. ss[i] = row
    OBVIOUS
  <2>2. \A j \in DOMAIN out : row[j] = Through(in[i], out[j]) /\ row[j] \in made
    BY <1>5
  <2> HIDE DEF made
  <2>3. row \in [1..Len(out) -> made] /\ DOMAIN row = DOMAIN out
    BY <1>3, <2>2
  <2> HIDE DEF row, ss
  <2>4. row \in Seq(made)
    BY <1>3, <2>3, SeqDef
  <2>5. ToSet(row) = {Through(in[i], out[j]) : j \in DOMAIN out}
    BY <2>2, <2>3 DEF ToSet
  <2> QED
    BY <2>1, <2>4, <2>5
<1>7. ss \in Seq(Seq(made)) /\ DOMAIN ss = DOMAIN in
  <2>1. ss \in [1..Len(in) -> Seq(made)]
    <3> HIDE DEF made
    <3> QED
      BY <1>3, <1>6
  <2> HIDE DEF made
  <2>2. DOMAIN ss = DOMAIN in
    OBVIOUS
  <2> HIDE DEF ss
  <2> QED
    BY <1>3, <2>1, <2>2, SeqDef
<1> HIDE DEF ss
<1>8. FlattenSeq(ss) \in Seq(made) /\ ToSet(FlattenSeq(ss)) = UNION {ToSet(ss[i]) : i \in DOMAIN in}
  BY <1>7, FlattenHas
<1>9. UNION {ToSet(ss[i]) : i \in DOMAIN in} = made
  <2>1. ASSUME NEW i \in DOMAIN in PROVE ToSet(ss[i]) \subseteq made
    <3>1. ToSet(ss[i]) = {Through(in[i], out[j]) : j \in DOMAIN out}
      BY <1>6
    <3> HIDE DEF made
    <3> QED
      BY <1>5, <3>1
  <2>2. ASSUME NEW p \in ins, NEW s \in outs PROVE \E i \in DOMAIN in : Through(p, s) \in ToSet(ss[i])
    BY <1>3, <1>6
  <2>3. ASSUME NEW m \in made PROVE \E i \in DOMAIN in : m \in ToSet(ss[i])
    BY <2>2
  <2> QED
    BY <2>1, <2>3
<1> QED
  BY <1>4, <1>8, <1>9 DEF ins, outs

-----------------------------------------------------------------------------
(* Graphs and what is left of them *)

\* A node, and that the ids of a list of nodes are distinct.
IsNode(n) == n = [id |-> n.id, type |-> n.type, intent |-> n.intent]
Distinct(nodes) == \A i, j \in DOMAIN nodes : nodes[i].id = nodes[j].id => i = j

\* What a graph is, in those words.
LEMMA GraphIs ==
    ASSUME NEW g
    PROVE  IsGraph(g) <=> /\ g = [id |-> g.id, entry |-> g.entry, nodes |-> g.nodes, edges |-> g.edges]
                          /\ IsList(g.nodes) /\ IsList(g.edges)
                          /\ \A n \in ToSet(g.nodes) : IsNode(n)
                          /\ Distinct(g.nodes)
<1>1. (\A i \in DOMAIN g.nodes : IsNode(g.nodes[i])) <=> \A n \in ToSet(g.nodes) : IsNode(n)
  BY DEF ToSet
<1>2. IsGraph(g) <=> /\ g = [id |-> g.id, entry |-> g.entry, nodes |-> g.nodes, edges |-> g.edges]
                     /\ IsList(g.nodes) /\ IsList(g.edges)
                     /\ \A i \in DOMAIN g.nodes : /\ IsNode(g.nodes[i])
                                                  /\ \A j \in DOMAIN g.nodes :
                                                        g.nodes[j].id = g.nodes[i].id => j = i
  BY DEF IsGraph, IsNode
<1> QED
  BY <1>1, <1>2 DEF Distinct

\* The ids of a graph are those of its nodes.
LEMMA IdsOfNodes == ASSUME NEW g PROVE NodeIds(g) = {n.id : n \in ToSet(g.nodes)}
  BY DEF NodeIds, ToSet

\* What is picked from a list of nodes with distinct ids has distinct ids.
LEMMA PickedAreDistinct ==
    ASSUME NEW s, IsList(s), Distinct(s), NEW kept
    PROVE  IsList(Only(s, kept)) /\ Distinct(Only(s, kept))
<1> DEFINE o == Only(s, kept)
<1>1. s \in Seq(ToSet(s))
  BY DEF IsList
<1>2. PICK at : o \in Seq(ToSet(s)) /\ Picked(s, kept, Len(s), o, at)
  BY <1>1, OnlyPicks
<1> HIDE DEF o
<1>3. o \in Seq(ToSet(o)) /\ DOMAIN o = 1..Len(o) /\ Len(o) \in Nat /\ DOMAIN s = 1..Len(s) /\ Len(s) \in Nat
  BY <1>1, <1>2, ListOf
<1>4. ASSUME NEW k \in DOMAIN o, NEW l \in DOMAIN o, o[k].id = o[l].id PROVE k = l
  <2>1. at[k] \in 1..Len(s) /\ at[l] \in 1..Len(s) /\ o[k] = s[at[k]] /\ o[l] = s[at[l]]
    BY <1>2, <1>3 DEF Picked
  <2>2. at[k] = at[l]
    BY <1>3, <1>4, <2>1 DEF Distinct
  <2> QED
    BY <1>2, <1>3, <2>1, <2>2 DEF Picked
<1> QED
  BY <1>3, <1>4 DEF IsList, Distinct, o

\* What is left of a graph when a node is removed.
LEMMA Removed ==
    ASSUME NEW g, IsGraph(g), NEW x \in NodeIds(g)
    PROVE  LET h == RemoveNode(g, x)
           IN  /\ IsGraph(h) /\ h.id = g.id
               /\ NodeIds(h) = NodeIds(g) \ {x}
               /\ EdgesOf(h) = EdgesWithout(EdgesOf(g), x)
               /\ h.nodes \in Seq(ToSet(g.nodes))
               /\ h.entry = EntryWithout(g, x)
<1> DEFINE left == Only(g.nodes, {n \in ToSet(g.nodes) : n.id # x})
           avoiding == Only(g.edges, {e \in ToSet(g.edges) : x \notin {e.from, e.to}})
           spliced == Spliced(g, x)
           edges == avoiding \o spliced
           entry == EntryWithout(g, x)
           h == RemoveNode(g, x)
<1>0. /\ g = [id |-> g.id, entry |-> g.entry, nodes |-> g.nodes, edges |-> g.edges]
      /\ IsList(g.nodes) /\ IsList(g.edges) /\ Distinct(g.nodes)
      /\ \A n \in ToSet(g.nodes) : IsNode(n)
  BY GraphIs
<1>1. h = [g EXCEPT !.nodes = left, !.edges = edges, !.entry = entry]
  BY DEF RemoveNode
<1>2. /\ IsList(left) /\ Distinct(left) /\ left \in Seq(ToSet(g.nodes))
      /\ ToSet(left) = {n \in ToSet(g.nodes) : n.id # x}
  <2>1. ToSet(left) = ToSet(g.nodes) \cap {n \in ToSet(g.nodes) : n.id # x} /\ left \in Seq(ToSet(g.nodes))
    BY <1>0, OnlyHas, OnlyPicks DEF IsList
  <2>2. IsList(left) /\ Distinct(left)
    BY <1>0, PickedAreDistinct
  <2> QED
    BY <2>1, <2>2
<1> DEFINE made == {Through(pair[1], pair[2]) :
                       pair \in {e \in EdgesOf(g) : e.to = x} \X {e \in EdgesOf(g) : e.from = x}}
           away == {e \in EdgesOf(g) : x \notin {e.from, e.to}}
           all == away \cup made
<1>3. spliced \in Seq(made) /\ ToSet(spliced) = made
  BY <1>0, SplicedHas
<1>4. avoiding \in Seq(EdgesOf(g)) /\ ToSet(avoiding) = away
  <2>1. /\ ToSet(avoiding) = ToSet(g.edges) \cap {e \in ToSet(g.edges) : x \notin {e.from, e.to}}
        /\ avoiding \in Seq(ToSet(g.edges))
    BY <1>0, OnlyHas, OnlyPicks DEF IsList
  <2> QED
    BY <2>1 DEF EdgesOf
<1>5. EdgesWithout(EdgesOf(g), x) = all
  BY DEF EdgesWithout
<1> HIDE DEF left, avoiding, spliced, made, away, entry
<1>6. avoiding \in Seq(all) /\ spliced \in Seq(all)
  BY <1>3, <1>4, ListOf, SeqMonotonic
<1> HIDE DEF all
<1>7. edges \in Seq(all) /\ ToSet(edges) = away \cup made
  BY <1>3, <1>4, <1>6, JoinedHas
<1>8. IsList(edges)
  BY <1>7, ListOf DEF IsList
<1> HIDE DEF edges, h
<1>9. h = [id |-> g.id, entry |-> entry, nodes |-> left, edges |-> edges]
  BY <1>0, <1>1
<1>10. h.id = g.id /\ h.entry = entry /\ h.nodes = left /\ h.edges = edges
  BY <1>9
<1>11. NodeIds(h) = NodeIds(g) \ {x}
  BY <1>2, <1>10, IdsOfNodes
<1>12. EdgesOf(h) = EdgesWithout(EdgesOf(g), x)
  BY <1>5, <1>7, <1>10 DEF EdgesOf, all
<1>13. IsGraph(h)
  <2>1. \A n \in ToSet(left) : IsNode(n)
    BY <1>0, <1>2
  <2> QED
    BY <1>2, <1>8, <1>9, <1>10, <2>1, GraphIs
<1> QED
  BY <1>2, <1>10, <1>11, <1>12, <1>13 DEF h, entry

\* Where an edge from a removed entry leads, the entry moves.
LEMMA EntryMoves ==
    ASSUME NEW g, IsGraph(g), NEW x
    PROVE  IF g.entry = x /\ \E e \in EdgesOf(g) : e.from = x
           THEN \E e \in EdgesOf(g) : e.from = x /\ EntryWithout(g, x) = e.to
           ELSE EntryWithout(g, x) = g.entry
<1> DEFINE out == Outgoing(g, x)
<1>1. out \in Seq(EdgesOf(g)) /\ ToSet(out) = {e \in EdgesOf(g) : e.from = x}
  BY OnlyPicks, OnlyHas DEF IsGraph, IsList, Outgoing, EdgesOf
<1> HIDE DEF out
<1>2. EntryWithout(g, x) = IF g.entry = x /\ out # <<>> THEN Head(out).to ELSE g.entry
  BY DEF EntryWithout, out
<1>3. CASE out = <<>>
  <2>1. ToSet(out) = {}
    BY <1>3 DEF ToSet
  <2> QED
    BY <1>1, <1>2, <1>3, <2>1
<1>4. CASE out # <<>>
  <2>1. DOMAIN out = 1..Len(out) /\ Len(out) \in Nat \ {0} /\ Head(out) = out[1]
    BY <1>1, <1>4
  <2>2. Head(out) \in ToSet(out)
    BY <2>1 DEF ToSet
  <2> QED
    BY <1>1, <1>2, <1>4, <2>2
<1> QED
  BY <1>3, <1>4

\* Removing one node after the other is computed from the first to the last.
LEMMA ThinnedRuns ==
    ASSUME NEW g, IsGraph(g), NEW import, IsLayer(import)
    PROVE  LET f == Thinned(g, import) IN
           /\ f[0] = g
           /\ \A n \in 0..Len(import.disabled) : IsGraph(f[n]) /\ f[n].id = g.id
           /\ \A n \in 1..Len(import.disabled) : f[n] = RemoveNode(f[n - 1], import.disabled[n])
<1> DEFINE N == Len(import.disabled)
           From == {e.from : e \in EdgesOf(g)}
           To == {e.to : e \in EdgesOf(g)}
           Guards == {e.guard : e \in EdgesOf(g)}
           Edges == EdgesOf(g) \cup [from : From, to : To, guard : Guards]
           Nodes == ToSet(g.nodes)
           Records == [id : {g.id}, entry : {g.entry} \cup To, nodes : Seq(Nodes), edges : Seq(Edges)]
           Graphs == {h \in Records : IsGraph(h)}
           Thin == [p \in Nat \X Graphs |->
                       IF p[1] \in 1..N THEN RemoveNode(p[2], import.disabled[p[1]]) ELSE p[2]]
           Is(f) == f = [n \in 0..N |-> IF n = 0 THEN g ELSE RemoveNode(f[n - 1], import.disabled[n])]
<1>1. N \in Nat
  BY DEF IsLayer, IsList
<1>2. \A e \in Edges : e.from \in From /\ e.to \in To /\ e.guard \in Guards
  OBVIOUS
<1>3. g \in Graphs
  <2>1. g.edges \in Seq(EdgesOf(g)) /\ EdgesOf(g) \subseteq Edges
    BY DEF IsGraph, IsList, EdgesOf
  <2> HIDE DEF Edges
  <2>2. g.edges \in Seq(Edges)
    BY <2>1, SeqMonotonic
  <2>3. g.nodes \in Seq(Nodes)
    BY DEF IsGraph, IsList
  <2>4. g = [id |-> g.id, entry |-> g.entry, nodes |-> g.nodes, edges |-> g.edges]
    BY GraphIs
  <2> HIDE DEF Nodes
  <2>5. [id |-> g.id, entry |-> g.entry, nodes |-> g.nodes, edges |-> g.edges] \in Records
    BY <2>2, <2>3
  <2>6. g \in Records
    BY <2>4, <2>5
  <2> QED
    BY <2>6
<1> HIDE DEF Edges
<1>4. ASSUME NEW h \in Graphs, NEW x PROVE RemoveNode(h, x) \in Graphs
  <2> DEFINE r == RemoveNode(h, x)
  <2>0. /\ h \in Records /\ IsGraph(h) /\ h.id = g.id /\ h.entry \in {g.entry} \cup To
        /\ h.nodes \in Seq(Nodes) /\ h.edges \in Seq(Edges)
    OBVIOUS
  <2>1. CASE x \notin NodeIds(h)
    BY <2>1 DEF RemoveNode
  <2>2. CASE x \in NodeIds(h)
    <3> HIDE DEF Graphs, Records, Nodes
    <3>1. /\ IsGraph(r) /\ r.id = h.id
          /\ EdgesOf(r) = EdgesWithout(EdgesOf(h), x)
          /\ r.nodes \in Seq(ToSet(h.nodes))
          /\ r.entry = EntryWithout(h, x)
      BY <2>0, <2>2, Removed
    <3> HIDE DEF r
    <3>2. EdgesOf(h) \subseteq Edges
      BY <2>0, ListOf DEF EdgesOf
    <3>3. \A e, f \in EdgesOf(h) : Through(e, f) \in Edges
      <4> SUFFICES ASSUME NEW e \in EdgesOf(h), NEW f \in EdgesOf(h) PROVE Through(e, f) \in Edges
        OBVIOUS
      <4>1. /\ e.from \in From /\ f.to \in To /\ Or(e.guard, f.guard) \in Guards
        BY <1>2, <3>2 DEF Or
      <4> QED
        BY <4>1 DEF Through, Edges
    <3>4. EdgesOf(r) \subseteq Edges
      BY <3>1, <3>2, <3>3 DEF EdgesWithout
    <3>5. r.edges \in Seq(Edges)
      BY <3>1, <3>4, SeqMonotonic DEF IsGraph, IsList, EdgesOf
    <3>6. r.nodes \in Seq(Nodes)
      BY <2>0, <3>1, ListOf, SeqMonotonic
    <3>7. r.entry \in {g.entry} \cup To
      BY <1>2, <2>0, <3>1, <3>2, EntryMoves
    <3>8. r = [id |-> r.id, entry |-> r.entry, nodes |-> r.nodes, edges |-> r.edges]
      BY <3>1, GraphIs
    <3>9. [id |-> r.id, entry |-> r.entry, nodes |-> r.nodes, edges |-> r.edges] \in Records
      BY <2>0, <3>1, <3>5, <3>6, <3>7 DEF Records
    <3>10. r \in Records
      BY <3>8, <3>9
    <3> QED
      BY <3>1, <3>10 DEF Graphs, r
  <2> QED
    BY <2>1, <2>2
<1>5. \A h \in Graphs : IsGraph(h) /\ h.id = g.id
  OBVIOUS
<1> HIDE DEF N, Graphs, Records
<1>6. ASSUME NEW k \in Nat, NEW v \in Graphs
      PROVE  /\ Thin[<<k, v>>] = IF k \in 1..N THEN RemoveNode(v, import.disabled[k]) ELSE v
             /\ Thin[<<k, v>>] \in Graphs
  BY <1>4
<1> HIDE DEF Thin
<1>7. PICK f : Repeats(f, Graphs, g, Thin)
  BY <1>3, <1>6, Repeating DEF StaysIn
<1>8. ASSUME NEW n \in 1..N
      PROVE  f[n] = RemoveNode(f[n - 1], import.disabled[n])
  <2>1. n \in Nat /\ n # 0 /\ n - 1 \in Nat /\ f[n - 1] \in Graphs
    BY <1>1, <1>7 DEF Repeats
  <2> QED
    BY <1>6, <1>7, <2>1 DEF Repeats
<1> DEFINE t == [n \in 0..N |-> f[n]]
<1>9. Is(t)
  <2>1. ASSUME NEW n \in 0..N
        PROVE  f[n] = IF n = 0 THEN g ELSE RemoveNode(t[n - 1], import.disabled[n])
    <3>1. CASE n = 0
      BY <1>7, <3>1 DEF Repeats
    <3>2. CASE n # 0
      <4>1. n \in 1..N /\ n - 1 \in 0..N
        BY <1>1, <3>2
      <4> QED
        BY <1>8, <3>2, <4>1
    <3> QED
      BY <3>1, <3>2
  <2> QED
    BY <2>1, Zenon
<1> HIDE DEF t
<1>10. PICK h : h = (CHOOSE r : Is(r))
  OBVIOUS
<1>11. Is(h)
  BY <1>9, <1>10
<1>12. Thinned(g, import) = h
  BY <1>10 DEF Thinned, N
<1>13. h[0] = g /\ \A n \in 1..N : h[n] = RemoveNode(h[n - 1], import.disabled[n])
  <2>1. h[0] = g
    BY <1>1, <1>11
  <2>2. ASSUME NEW n \in 1..N PROVE h[n] = RemoveNode(h[n - 1], import.disabled[n])
    <3>1. n \in 0..N /\ n # 0
      BY <1>1
    <3> QED
      BY <1>11, <3>1
  <2> QED
    BY <2>1, <2>2
<1> DEFINE S == {n \in Nat : n <= N => h[n] \in Graphs}
<1>14. ASSUME NEW m \in 0..N PROVE h[m] \in Graphs
  <2>1. 0 \in S
    BY <1>3, <1>13
  <2>2. ASSUME NEW n \in Nat, n \in S PROVE n + 1 \in S
    <3> SUFFICES ASSUME n + 1 <= N PROVE h[n + 1] \in Graphs
      OBVIOUS
    <3>1. n + 1 \in 1..N /\ (n + 1) - 1 = n /\ n <= N
      BY <1>1
    <3> QED
      BY <1>4, <1>13, <2>2, <3>1
  <2> HIDE DEF S
  <2>3. m \in S
    BY <2>1, <2>2, SetInduction
  <2> QED
    BY <1>1, <2>3 DEF S
<1> QED
  BY <1>5, <1>12, <1>13, <1>14 DEF N

\* An edge as a way.
Plain(e) == [from |-> e.from, to |-> e.to, guard |-> e.guard]

\* The nodes of a graph that a layer disables.
Gone(g, import) == ToSet(import.disabled) \cap NodeIds(g)

\* The ways are joined step by step.
LEMMA AllWaysRun ==
    ASSUME NEW edges, NEW via
    PROVE  LET ways == AllWays(edges, via) IN
           /\ ways[0] = {Plain(e) : e \in edges}
           /\ \A n \in Nat : \A w :
                 w \in ways[n + 1] <=>
                    \/ w \in ways[n]
                    \/ \E v, u \in ways[n] : v.to \in via /\ v.to = u.from /\ w = Through(v, u)
<1> DEFINE From == {e.from : e \in edges}
           To == {e.to : e \in edges}
           Guards == {e.guard : e \in edges}
           All2 == [from : From, to : To, guard : Guards]
           Sets == SUBSET All2
           first == {Plain(e) : e \in edges}
           Joined(v, w) == [from |-> v.from, to |-> w.to, guard |-> Or(v.guard, w.guard)]
           More(s) == s \cup UNION {{Joined(v, w) : w \in {u \in s : v.to = u.from}}
                                    : v \in {u \in s : u.to \in via}}
           Step == [p \in Nat \X Sets |-> More(p[2])]
           Is(f) == f = [n \in Nat |-> IF n = 0 THEN first ELSE More(f[n - 1])]
<1>1. first \in Sets
  BY DEF Plain
<1>2. ASSUME NEW s \in Sets PROVE More(s) \in Sets
  <2>1. ASSUME NEW v \in s, NEW w \in s PROVE Joined(v, w) \in All2
    <3>1. v \in All2 /\ w \in All2
      OBVIOUS
    <3>2. v.from \in From /\ w.to \in To /\ Or(v.guard, w.guard) \in Guards
      BY <3>1 DEF Or
    <3> QED
      BY <3>2
  <2> HIDE DEF All2, Joined
  <2> QED
    BY <2>1
<1> HIDE DEF Sets, first, More
<1>3. ASSUME NEW k \in Nat, NEW v \in Sets PROVE Step[<<k, v>>] = More(v) /\ Step[<<k, v>>] \in Sets
  BY <1>2
<1> HIDE DEF Step
<1>4. PICK f : Repeats(f, Sets, first, Step)
  BY <1>1, <1>3, Repeating DEF StaysIn
<1>5. Is(f)
  <2>1. DOMAIN f = Nat /\ f = [n \in Nat |-> f[n]]
    BY <1>4 DEF Repeats
  <2>2. ASSUME NEW n \in Nat PROVE f[n] = IF n = 0 THEN first ELSE More(f[n - 1])
    <3>1. CASE n = 0
      BY <1>4, <3>1 DEF Repeats
    <3>2. CASE n # 0
      <4>1. n - 1 \in Nat /\ f[n - 1] \in Sets
        BY <1>4, <3>2 DEF Repeats
      <4> QED
        BY <1>3, <1>4, <3>2, <4>1 DEF Repeats
    <3> QED
      BY <3>1, <3>2
  <2> QED
    BY <2>1, <2>2, Zenon
<1>6. PICK h : h = (CHOOSE r : Is(r))
  OBVIOUS
<1>7. Is(h)
  BY <1>5, <1>6
<1>8. AllWays(edges, via) = h
  BY <1>6 DEF AllWays, first, Plain, More
<1>9. h[0] = first
  BY <1>7
<1>10. ASSUME NEW n \in Nat PROVE h[n + 1] = More(h[n])
  <2>1. n + 1 \in Nat /\ n + 1 # 0 /\ (n + 1) - 1 = n
    OBVIOUS
  <2> QED
    BY <1>7, <2>1
<1>11. ASSUME NEW s, NEW w
       PROVE  w \in More(s) <=>
                 w \in s \/ \E v, u \in s : v.to \in via /\ v.to = u.from /\ w = Through(v, u)
  BY DEF More, Through
<1> QED
  BY <1>8, <1>9, <1>10, <1>11 DEF first

\* No node comes back.
LEMMA ThinnedNodes ==
    ASSUME NEW g, IsGraph(g), NEW import, IsLayer(import), NEW n \in 0..Len(import.disabled)
    PROVE  NodeIds(Thinned(g, import)[n]) = NodeIds(g) \ {import.disabled[i] : i \in 1..n}
<1> DEFINE f == Thinned(g, import)
           N == Len(import.disabled)
           S == {k \in Nat : k <= N => NodeIds(f[k]) = NodeIds(g) \ {import.disabled[i] : i \in 1..k}}
<1>1. /\ f[0] = g
      /\ \A k \in 0..N : IsGraph(f[k])
      /\ \A k \in 1..N : f[k] = RemoveNode(f[k - 1], import.disabled[k])
  BY ThinnedRuns
<1>2. N \in Nat /\ DOMAIN import.disabled = 1..N
  BY DEF IsLayer, IsList
<1> HIDE DEF f, N
<1>3. 0 \in S
  BY <1>1
<1>4. ASSUME NEW k \in Nat, k \in S PROVE k + 1 \in S
  <2> SUFFICES ASSUME k + 1 <= N
               PROVE  NodeIds(f[k + 1]) = NodeIds(g) \ {import.disabled[i] : i \in 1..(k + 1)}
    OBVIOUS
  <2>1. k + 1 \in 1..N /\ (k + 1) - 1 = k /\ k \in 0..N
    BY <1>2
  <2> DEFINE x == import.disabled[k + 1]
  <2>2. f[k + 1] = RemoveNode(f[k], x) /\ IsGraph(f[k])
    BY <1>1, <2>1
  <2>3. NodeIds(f[k + 1]) = NodeIds(f[k]) \ {x}
    <3>1. CASE x \in NodeIds(f[k])
      BY <2>2, <3>1, Removed
    <3>2. CASE x \notin NodeIds(f[k])
      BY <2>2, <3>2 DEF RemoveNode
    <3> QED
      BY <3>1, <3>2
  <2>4. NodeIds(f[k]) = NodeIds(g) \ {import.disabled[i] : i \in 1..k}
    BY <1>2, <1>4, <2>1
  <2>5. {import.disabled[i] : i \in 1..(k + 1)} = {import.disabled[i] : i \in 1..k} \cup {x}
    <3>1. \A i : i \in 1..(k + 1) <=> i \in 1..k \/ i = k + 1
      OBVIOUS
    <3> QED
      BY <3>1
  <2> QED
    BY <2>3, <2>4, <2>5
<1>5. n \in S
  <2> HIDE DEF S
  <2> QED
    BY <1>2, <1>3, <1>4, SetInduction DEF N
<1>6. n <= N
  BY <1>2 DEF N
<1>7. NodeIds(f[n]) = NodeIds(g) \ {import.disabled[i] : i \in 1..n}
  BY <1>5, <1>6
<1> QED
  BY <1>7 DEF f

\* What is removed is a node the layer disables.
LEMMA ThinnedStep ==
    ASSUME NEW g, IsGraph(g), NEW import, IsLayer(import), NEW n \in 1..Len(import.disabled)
    PROVE  LET f == Thinned(g, import) IN
           IF import.disabled[n] \in NodeIds(f[n - 1])
           THEN /\ import.disabled[n] \in Gone(g, import)
                /\ f[n] = RemoveNode(f[n - 1], import.disabled[n])
                /\ EdgesOf(f[n]) = EdgesWithout(EdgesOf(f[n - 1]), import.disabled[n])
           ELSE f[n] = f[n - 1]
<1> DEFINE f == Thinned(g, import)
           N == Len(import.disabled)
<1>1. N \in Nat /\ DOMAIN import.disabled = 1..N /\ n \in 1..N /\ n - 1 \in 0..N
  BY DEF IsLayer, IsList
<1>2. f[n] = RemoveNode(f[n - 1], import.disabled[n]) /\ IsGraph(f[n - 1])
  BY <1>1, ThinnedRuns
<1>3. NodeIds(f[n - 1]) = NodeIds(g) \ {import.disabled[i] : i \in 1..(n - 1)}
  BY <1>1, ThinnedNodes
<1> HIDE DEF f
<1>4. CASE import.disabled[n] \in NodeIds(f[n - 1])
  <2>1. import.disabled[n] \in ToSet(import.disabled)
    BY <1>1 DEF ToSet
  <2>2. EdgesOf(f[n]) = EdgesWithout(EdgesOf(f[n - 1]), import.disabled[n])
    BY <1>2, <1>4, Removed
  <2> QED
    BY <1>2, <1>3, <1>4, <2>1, <2>2 DEF Gone, f
<1>5. CASE import.disabled[n] \notin NodeIds(f[n - 1])
  BY <1>2, <1>5 DEF RemoveNode, f
<1> QED
  BY <1>4, <1>5

\* Removing nodes invents no way.
LEMMA NoWayIsInvented ==
    ASSUME NEW g, IsGraph(g), NEW import, IsLayer(import), NEW n \in 0..Len(import.disabled)
    PROVE  \A e \in EdgesOf(Thinned(g, import)[n]) :
              Plain(e) \in AllWays(EdgesOf(g), Gone(g, import))[n]
<1> DEFINE f == Thinned(g, import)
           N == Len(import.disabled)
           ways == AllWays(EdgesOf(g), Gone(g, import))
           S == {k \in Nat : k <= N => \A e \in EdgesOf(f[k]) : Plain(e) \in ways[k]}
<1>1. N \in Nat
  BY DEF IsLayer, IsList
<1>2. /\ ways[0] = {Plain(e) : e \in EdgesOf(g)}
      /\ \A k \in Nat : \A w :
            w \in ways[k + 1] <=>
               \/ w \in ways[k]
               \/ \E v, u \in ways[k] : v.to \in Gone(g, import) /\ v.to = u.from /\ w = Through(v, u)
  BY AllWaysRun
<1>3. f[0] = g
  BY ThinnedRuns
<1>4. \A k \in 1..N : IF import.disabled[k] \in NodeIds(f[k - 1])
                      THEN /\ import.disabled[k] \in Gone(g, import)
                           /\ EdgesOf(f[k]) = EdgesWithout(EdgesOf(f[k - 1]), import.disabled[k])
                      ELSE f[k] = f[k - 1]
  BY ThinnedStep
<1> HIDE DEF f, N, ways
<1>5. 0 \in S
  BY <1>2, <1>3
<1>6. ASSUME NEW k \in Nat, k \in S PROVE k + 1 \in S
  <2> SUFFICES ASSUME k + 1 <= N, NEW e \in EdgesOf(f[k + 1]) PROVE Plain(e) \in ways[k + 1]
    OBVIOUS
  <2>1. k + 1 \in 1..N /\ (k + 1) - 1 = k
    BY <1>1
  <2>2. \A d \in EdgesOf(f[k]) : Plain(d) \in ways[k] /\ Plain(d) \in ways[k + 1]
    BY <1>1, <1>2, <1>6
  <2> DEFINE x == import.disabled[k + 1]
  <2>3. CASE x \notin NodeIds(f[k])
    BY <1>4, <2>1, <2>2, <2>3
  <2>4. CASE x \in NodeIds(f[k])
    <3>1. x \in Gone(g, import) /\ e \in EdgesWithout(EdgesOf(f[k]), x)
      BY <1>4, <2>1, <2>4
    <3> HIDE DEF x
    <3>2. CASE e \in EdgesOf(f[k])
      BY <2>2, <3>2
    <3>3. CASE e \notin EdgesOf(f[k])
      <4>1. PICK p, s \in EdgesOf(f[k]) : p.to = x /\ s.from = x /\ e = Through(p, s)
        BY <3>1, <3>3 DEF EdgesWithout
      <4>2. /\ Plain(p).to = x /\ Plain(s).from = x
            /\ Through(Plain(p), Plain(s)) = Through(p, s)
            /\ Plain(Through(p, s)) = Through(p, s)
        BY <4>1 DEF Plain, Through
      <4> QED
        BY <1>2, <2>2, <3>1, <4>1, <4>2
    <3> QED
      BY <3>2, <3>3
  <2> QED
    BY <2>3, <2>4
<1>7. n \in S
  <2> HIDE DEF S
  <2> QED
    BY <1>5, <1>6, SetInduction
<1> QED
  BY <1>7 DEF S, f, ways, N

-----------------------------------------------------------------------------
(* The ways of a graph *)

\* A way, and one along one edge more.
Way(from, to, guard, through) == [from |-> from, to |-> to, guard |-> guard, through |-> through]
Along(w, e) == Way(w.from, e.to, Or(w.guard, e.guard), w.through \cup {w.to})

\* Ways that are made longer edge by edge.
Lengthened(ways, edges, via) ==
    /\ ways[0] = {Way(e.from, e.to, e.guard, {}) : e \in edges}
    /\ \A n \in Nat : \A w :
          w \in ways[n + 1] <=>
             \/ w \in ways[n]
             \/ \E v \in ways[n], e \in edges :
                   v.to \in via \ v.through /\ e.from = v.to /\ w = Along(v, e)

\* The simple ways are.
LEMMA SimpleWaysRun == ASSUME NEW edges, NEW via PROVE Lengthened(SimpleWays(edges, via), edges, via)
<1> DEFINE From == {e.from : e \in edges}
           To == {e.to : e \in edges}
           Guards == {e.guard : e \in edges}
           All2 == [from : From, to : To, guard : Guards, through : SUBSET via]
           Sets == SUBSET All2
           first == {Way(e.from, e.to, e.guard, {}) : e \in edges}
           Longer(w) == {[from |-> w.from, to |-> e.to, guard |-> Or(w.guard, e.guard),
                          through |-> w.through \cup {w.to}] : e \in {f \in edges : f.from = w.to}}
           More(s) == s \cup UNION {Longer(w) : w \in {v \in s : v.to \in via \ v.through}}
           Step == [p \in Nat \X Sets |-> More(p[2])]
           Is(f) == f = [n \in Nat |-> IF n = 0 THEN first ELSE More(f[n - 1])]
<1>1. first \in Sets
  BY DEF Way
<1>2. ASSUME NEW s \in Sets PROVE More(s) \in Sets
  <2>1. ASSUME NEW v \in s, NEW e \in edges, v.to \in via
        PROVE  [from |-> v.from, to |-> e.to, guard |-> Or(v.guard, e.guard),
                through |-> v.through \cup {v.to}] \in All2
    <3>1. v \in All2
      OBVIOUS
    <3>2. v.from \in From /\ e.to \in To /\ Or(v.guard, e.guard) \in Guards
      BY <3>1 DEF Or
    <3>3. v.through \cup {v.to} \subseteq via
      BY <2>1, <3>1
    <3> QED
      BY <3>2, <3>3
  <2> HIDE DEF All2
  <2> QED
    BY <2>1
<1> HIDE DEF Sets, first, More
<1>3. ASSUME NEW k \in Nat, NEW v \in Sets PROVE Step[<<k, v>>] = More(v) /\ Step[<<k, v>>] \in Sets
  BY <1>2
<1> HIDE DEF Step
<1>4. PICK f : Repeats(f, Sets, first, Step)
  BY <1>1, <1>3, Repeating DEF StaysIn
<1>5. Is(f)
  <2>1. DOMAIN f = Nat /\ f = [n \in Nat |-> f[n]]
    BY <1>4 DEF Repeats
  <2>2. ASSUME NEW n \in Nat PROVE f[n] = IF n = 0 THEN first ELSE More(f[n - 1])
    <3>1. CASE n = 0
      BY <1>4, <3>1 DEF Repeats
    <3>2. CASE n # 0
      <4>1. n - 1 \in Nat /\ f[n - 1] \in Sets
        BY <1>4, <3>2 DEF Repeats
      <4> QED
        BY <1>3, <1>4, <3>2, <4>1 DEF Repeats
    <3> QED
      BY <3>1, <3>2
  <2> QED
    BY <2>1, <2>2, Zenon
<1>6. PICK h : h = (CHOOSE r : Is(r))
  OBVIOUS
<1>7. Is(h)
  BY <1>5, <1>6
<1>8. SimpleWays(edges, via) = h
  BY <1>6 DEF SimpleWays, first, Way, More
<1>9. h[0] = first
  BY <1>7
<1>10. ASSUME NEW n \in Nat PROVE h[n + 1] = More(h[n])
  <2>1. n + 1 \in Nat /\ n + 1 # 0 /\ (n + 1) - 1 = n
    OBVIOUS
  <2> QED
    BY <1>7, <2>1
<1>11. ASSUME NEW s, NEW w
       PROVE  w \in More(s) <=>
                 \/ w \in s
                 \/ \E v \in s, e \in edges :
                       v.to \in via \ v.through /\ e.from = v.to /\ w = Along(v, e)
  BY DEF More, Along, Way
<1> QED
  BY <1>8, <1>9, <1>10, <1>11 DEF first, Lengthened

\* The parts of a way.
LEMMA WayParts ==
    ASSUME NEW a, NEW b, NEW guard, NEW through
    PROVE  LET w == Way(a, b, guard, through)
           IN  w.from = a /\ w.to = b /\ w.guard = guard /\ w.through = through
  BY DEF Way

\* The first of three guards.
LEMMA FirstGuard == ASSUME NEW a, NEW b, NEW c PROVE Or(Or(a, b), c) = Or(a, Or(b, c))
  BY DEF Or

\* A way stays when one of the nodes it may come through is removed.
LEMMA WaysContract ==
    ASSUME NEW edges, NEW via, NEW x \in via, NEW n \in Nat,
           NEW w \in SimpleWays(edges, via)[n], w.from # x
    PROVE  LET ways == SimpleWays(EdgesWithout(edges, x), via \ {x})[n] IN
           /\ w.to # x => Way(w.from, w.to, w.guard, w.through \ {x}) \in ways
           /\ w.to = x /\ x \notin w.through =>
                 \A s \in edges : s.from = x /\ s.to # x =>
                    Way(w.from, s.to, Or(w.guard, s.guard), w.through) \in ways
<1> DEFINE fewer == EdgesWithout(edges, x)
           old == SimpleWays(edges, via)
           new == SimpleWays(fewer, via \ {x})
           Past(v, k) ==
               /\ v.to # x => Way(v.from, v.to, v.guard, v.through \ {x}) \in new[k]
               /\ v.to = x /\ x \notin v.through =>
                     \A s \in edges : s.from = x /\ s.to # x =>
                        Way(v.from, s.to, Or(v.guard, s.guard), v.through) \in new[k]
           S == {k \in Nat : \A v \in old[k] : v.from # x => Past(v, k)}
<1>1. Lengthened(old, edges, via)
  BY SimpleWaysRun
<1>2. Lengthened(new, fewer, via \ {x})
  BY SimpleWaysRun
<1>3. \A e \in edges : e.from # x /\ e.to # x => e \in fewer
  BY DEF EdgesWithout
<1>4. \A p, s \in edges : p.to = x /\ s.from = x => Through(p, s) \in fewer
  <2> SUFFICES ASSUME NEW p \in edges, NEW s \in edges, p.to = x, s.from = x
               PROVE  Through(p, s) \in fewer
    OBVIOUS
  <2>1. <<p, s>> \in {e \in edges : e.to = x} \X {e \in edges : e.from = x}
    OBVIOUS
  <2> QED
    BY <2>1 DEF EdgesWithout
<1>5. \A p, s : /\ Through(p, s).from = p.from /\ Through(p, s).to = s.to
                /\ Through(p, s).guard = Or(p.guard, s.guard)
  BY DEF Through
<1> HIDE DEF fewer, old, new
<1> USE DEF Lengthened
<1>6. 0 \in S
  <2> SUFFICES ASSUME NEW v \in old[0], v.from # x PROVE Past(v, 0)
    OBVIOUS
  <2>1. PICK e \in edges : v = Way(e.from, e.to, e.guard, {})
    BY <1>1
  <2>2. v.from = e.from /\ v.to = e.to /\ v.guard = e.guard /\ v.through = {}
    BY <2>1, WayParts
  <2>3. ASSUME v.to # x PROVE Way(v.from, v.to, v.guard, v.through \ {x}) \in new[0]
    <3>1. e \in fewer /\ v.through \ {x} = {}
      BY <1>3, <2>2, <2>3
    <3> QED
      BY <1>2, <2>2, <3>1
  <2>4. ASSUME v.to = x, NEW s \in edges, s.from = x
        PROVE  Way(v.from, s.to, Or(v.guard, s.guard), v.through) \in new[0]
    <3>1. Through(e, s) \in fewer
      BY <1>4, <2>2, <2>4
    <3> QED
      BY <1>2, <1>5, <2>2, <3>1
  <2> QED
    BY <2>3, <2>4
<1>7. ASSUME NEW k \in Nat, k \in S PROVE k + 1 \in S
  <2> HIDE DEF Past
  <2> SUFFICES ASSUME NEW v \in old[k + 1], v.from # x PROVE Past(v, k + 1)
    OBVIOUS
  <2> USE DEF Past
  <2>1. \A u \in new[k] : u \in new[k + 1]
    BY <1>2
  <2>2. CASE v \in old[k]
    <3>1. Past(v, k)
      BY <1>7, <2>2
    <3> QED
      BY <2>1, <3>1
  <2>3. CASE v \notin old[k]
    <3>1. PICK u \in old[k], e \in edges :
             u.to \in via \ u.through /\ e.from = u.to /\ v = Along(u, e)
      BY <1>1, <2>3
    <3>2. /\ v.from = u.from /\ v.to = e.to /\ v.guard = Or(u.guard, e.guard)
          /\ v.through = u.through \cup {u.to}
      BY <3>1, WayParts DEF Along
    <3>3. Past(u, k)
      BY <1>7, <3>2
    <3>4. CASE u.to = x
      <4>1. ASSUME v.to # x PROVE Way(v.from, v.to, v.guard, v.through \ {x}) \in new[k]
        <5>1. Way(u.from, e.to, Or(u.guard, e.guard), u.through) \in new[k]
          BY <3>1, <3>2, <3>3, <3>4, <4>1
        <5>2. v.through \ {x} = u.through
          BY <3>1, <3>2, <3>4
        <5> QED
          BY <3>2, <5>1, <5>2
      <4>2. x \in v.through
        BY <3>2, <3>4
      <4> QED
        BY <2>1, <4>1, <4>2
    <3>5. CASE u.to # x
      <4> DEFINE r == Way(u.from, u.to, u.guard, u.through \ {x})
      <4>1. /\ r \in new[k] /\ r.from = u.from /\ r.to = u.to /\ r.guard = u.guard
            /\ r.through = u.through \ {x} /\ r.to \in (via \ {x}) \ r.through
        BY <3>1, <3>3, <3>5, WayParts
      <4> HIDE DEF r
      <4>2. ASSUME v.to # x PROVE Way(v.from, v.to, v.guard, v.through \ {x}) \in new[k + 1]
        <5>1. e \in fewer
          BY <1>3, <3>1, <3>2, <3>5, <4>2
        <5>2. Along(r, e) = Way(v.from, v.to, v.guard, v.through \ {x})
          <6>1. r.through \cup {r.to} = v.through \ {x}
            BY <3>2, <3>5, <4>1
          <6> QED
            BY <3>2, <4>1, <6>1 DEF Along
        <5> QED
          <6>1. Along(r, e) \in new[k + 1]
            BY <1>2, <3>1, <4>1, <5>1
          <6> QED
            BY <5>2, <6>1
      <4>3. ASSUME v.to = x, x \notin v.through, NEW s \in edges, s.from = x
            PROVE  Way(v.from, s.to, Or(v.guard, s.guard), v.through) \in new[k + 1]
        <5> DEFINE d == Through(e, s)
        <5>1. d \in fewer /\ d.from = r.to /\ d.to = s.to /\ d.guard = Or(e.guard, s.guard)
          <6>1. e.to = x /\ e.from = r.to
            BY <3>1, <3>2, <4>1, <4>3
          <6>2. d \in fewer
            BY <1>4, <3>1, <4>3, <6>1
          <6> QED
            BY <1>5, <6>1, <6>2
        <5> HIDE DEF d
        <5>2. Along(r, d) = Way(v.from, s.to, Or(v.guard, s.guard), v.through)
          <6>1. r.through \cup {r.to} = v.through
            BY <3>2, <4>1, <4>3
          <6>2. Or(r.guard, d.guard) = Or(v.guard, s.guard)
            BY <3>2, <4>1, <5>1, FirstGuard
          <6> QED
            BY <3>2, <4>1, <5>1, <6>1, <6>2 DEF Along
        <5> QED
          BY <1>2, <4>1, <5>1, <5>2
      <4> QED
        BY <4>2, <4>3
    <3> QED
      BY <3>4, <3>5
  <2> QED
    BY <2>2, <2>3
<1>8. n \in S
  <2> HIDE DEF S
  <2> QED
    BY <1>6, <1>7, SetInduction
<1>9. w \in old[n]
  BY DEF old
<1>10. Past(w, n)
  BY <1>8, <1>9
<1> QED
  BY <1>10 DEF new, fewer

-----------------------------------------------------------------------------
(* Where a route without branches leads *)

\* What leads to a node grows step by step.
Grows(leading, edges, via, node) ==
    /\ leading[0] = {node}
    /\ \A n \in Nat : \A x :
          x \in leading[n + 1] <=>
             x \in leading[n] \/ (x \in via /\ \E e \in edges : e.from = x /\ e.to \in leading[n])

\* LeadingTo does.
LEMMA LeadingGrows ==
    ASSUME NEW edges, NEW via, NEW node
    PROVE  Grows(LeadingTo(edges, via, node), edges, via, node)
<1> DEFINE Sets == SUBSET (via \cup {node})
           first == {node}
           More(s) == s \cup {x \in via : \E e \in edges : e.from = x /\ e.to \in s}
           Step == [p \in Nat \X Sets |-> More(p[2])]
           Is(f) == f = [n \in Nat |-> IF n = 0 THEN first ELSE More(f[n - 1])]
<1>1. first \in Sets
  OBVIOUS
<1>2. ASSUME NEW s \in Sets PROVE More(s) \in Sets
  OBVIOUS
<1> HIDE DEF Sets, first, More
<1>3. ASSUME NEW k \in Nat, NEW v \in Sets PROVE Step[<<k, v>>] = More(v) /\ Step[<<k, v>>] \in Sets
  BY <1>2
<1> HIDE DEF Step
<1>4. PICK f : Repeats(f, Sets, first, Step)
  BY <1>1, <1>3, Repeating DEF StaysIn
<1>5. Is(f)
  <2>1. DOMAIN f = Nat /\ f = [n \in Nat |-> f[n]]
    BY <1>4 DEF Repeats
  <2>2. ASSUME NEW n \in Nat PROVE f[n] = IF n = 0 THEN first ELSE More(f[n - 1])
    <3>1. CASE n = 0
      BY <1>4, <3>1 DEF Repeats
    <3>2. CASE n # 0
      <4>1. n - 1 \in Nat /\ f[n - 1] \in Sets
        BY <1>4, <3>2 DEF Repeats
      <4> QED
        BY <1>3, <1>4, <3>2, <4>1 DEF Repeats
    <3> QED
      BY <3>1, <3>2
  <2> QED
    BY <2>1, <2>2, Zenon
<1>6. PICK h : h = (CHOOSE r : Is(r))
  OBVIOUS
<1>7. Is(h)
  BY <1>5, <1>6
<1>8. LeadingTo(edges, via, node) = h
  BY <1>6 DEF LeadingTo, first, More
<1>9. h[0] = first
  BY <1>7
<1>10. ASSUME NEW n \in Nat PROVE h[n + 1] = More(h[n])
  <2>1. n + 1 \in Nat /\ n + 1 # 0 /\ (n + 1) - 1 = n
    OBVIOUS
  <2> QED
    BY <1>7, <2>1
<1>11. ASSUME NEW s, NEW x
       PROVE  x \in More(s) <=> x \in s \/ (x \in via /\ \E e \in edges : e.from = x /\ e.to \in s)
  BY DEF More
<1> QED
  BY <1>8, <1>9, <1>10, <1>11 DEF first, Grows

\* No branches.
Unbranched(edges) == \A e, f \in edges : e.from = f.from => e.to = f.to

\* Removing a node makes no branch.
LEMMA StaysUnbranched ==
    ASSUME NEW edges, Unbranched(edges), NEW x
    PROVE  Unbranched(EdgesWithout(edges, x))
<1>1. \A e \in EdgesWithout(edges, x) :
        \/ e \in edges /\ e.from # x /\ e.to # x
        \/ \E p, s \in edges : p.to = x /\ s.from = x /\ e = Through(p, s)
  BY DEF EdgesWithout
<1>2. \A p, s : Through(p, s).from = p.from /\ Through(p, s).to = s.to
  BY DEF Through
<1> QED
  BY <1>1, <1>2 DEF Unbranched

\* What leads to a node does so past a node that is removed, and the removed one leads on.
LEMMA LeadingContracts ==
    ASSUME NEW edges, NEW via, NEW x \in via, NEW node, node # x, NEW n \in Nat
    PROVE  LET old == LeadingTo(edges, via, node)[n]
               new == LeadingTo(EdgesWithout(edges, x), via \ {x}, node)[n]
           IN  /\ old \ {x} \subseteq new
               /\ x \in old => \E s \in edges : s.from = x /\ s.to # x /\ s.to \in new
<1> DEFINE fewer == EdgesWithout(edges, x)
           old == LeadingTo(edges, via, node)
           new == LeadingTo(fewer, via \ {x}, node)
           Past(k) == /\ old[k] \ {x} \subseteq new[k]
                      /\ x \in old[k] => \E s \in edges : s.from = x /\ s.to # x /\ s.to \in new[k]
           S == {k \in Nat : Past(k)}
<1>1. Grows(old, edges, via, node)
  BY LeadingGrows
<1>2. Grows(new, fewer, via \ {x}, node)
  BY LeadingGrows
<1>3. \A e \in edges : e.from # x /\ e.to # x => e \in fewer
  BY DEF EdgesWithout
<1>4. \A p, s \in edges : p.to = x /\ s.from = x => Through(p, s) \in fewer
  <2> SUFFICES ASSUME NEW p \in edges, NEW s \in edges, p.to = x, s.from = x
               PROVE  Through(p, s) \in fewer
    OBVIOUS
  <2>1. <<p, s>> \in {e \in edges : e.to = x} \X {e \in edges : e.from = x}
    OBVIOUS
  <2> QED
    BY <2>1 DEF EdgesWithout
<1>5. \A p, s : Through(p, s).from = p.from /\ Through(p, s).to = s.to
  BY DEF Through
<1> HIDE DEF fewer, old, new
<1> USE DEF Grows
<1>6. 0 \in S
  BY <1>1, <1>2
<1>7. ASSUME NEW k \in Nat, k \in S PROVE k + 1 \in S
  <2>1. Past(k)
    BY <1>7
  <2>2. new[k] \subseteq new[k + 1]
    BY <1>2
  <2>3. ASSUME NEW y \in old[k + 1], y # x PROVE y \in new[k + 1]
    <3>1. CASE y \in old[k]
      BY <2>1, <2>2, <2>3, <3>1
    <3>2. CASE y \notin old[k]
      <4>1. PICK e \in edges : y \in via /\ e.from = y /\ e.to \in old[k]
        BY <1>1, <3>2
      <4>2. CASE e.to # x
        <5>1. e \in fewer /\ e.to \in new[k]
          BY <1>3, <2>1, <2>3, <4>1, <4>2
        <5> QED
          BY <1>2, <2>3, <4>1, <5>1
      <4>3. CASE e.to = x
        <5>1. PICK s \in edges : s.from = x /\ s.to # x /\ s.to \in new[k]
          BY <2>1, <4>1, <4>3
        <5>2. Through(e, s) \in fewer /\ Through(e, s).from = y /\ Through(e, s).to \in new[k]
          BY <1>4, <1>5, <4>1, <4>3, <5>1
        <5> QED
          BY <1>2, <2>3, <4>1, <5>2
      <4> QED
        BY <4>2, <4>3
    <3> QED
      BY <3>1, <3>2
  <2>4. ASSUME x \in old[k + 1] PROVE \E s \in edges : s.from = x /\ s.to # x /\ s.to \in new[k + 1]
    <3>1. CASE x \in old[k]
      BY <2>1, <2>2, <3>1
    <3>2. CASE x \notin old[k]
      <4>1. PICK s \in edges : s.from = x /\ s.to \in old[k]
        BY <1>1, <2>4, <3>2
      <4>2. s.to # x /\ s.to \in new[k + 1]
        BY <2>1, <2>2, <3>2, <4>1
      <4> QED
        BY <4>1, <4>2
    <3> QED
      BY <3>1, <3>2
  <2> QED
    BY <2>3, <2>4
<1>8. n \in S
  <2> HIDE DEF S
  <2> QED
    BY <1>6, <1>7, SetInduction
<1>9. Past(n)
  BY <1>8
<1> QED
  BY <1>9 DEF new, old, fewer

\* With nothing to come through, a way is an edge, and only the node itself leads to a node.
LEMMA NothingToComeThrough ==
    ASSUME NEW edges, NEW node, NEW n \in Nat
    PROVE  /\ SimpleWays(edges, {})[n] = {Way(e.from, e.to, e.guard, {}) : e \in edges}
           /\ LeadingTo(edges, {}, node)[n] = {node}
<1> DEFINE ways == SimpleWays(edges, {})
           leading == LeadingTo(edges, {}, node)
           S == {k \in Nat : ways[k] = ways[0] /\ leading[k] = leading[0]}
<1>1. Lengthened(ways, edges, {})
  BY SimpleWaysRun
<1>2. Grows(leading, edges, {}, node)
  BY LeadingGrows
<1> HIDE DEF ways, leading
<1>3. ASSUME NEW k \in Nat, k \in S PROVE k + 1 \in S
  <2>1. \A v : v \in ways[k + 1] <=> v \in ways[k]
    BY <1>1 DEF Lengthened
  <2>2. \A v : v \in leading[k + 1] <=> v \in leading[k]
    BY <1>2 DEF Grows
  <2> QED
    BY <1>3, <2>1, <2>2
<1>4. 0 \in S
  OBVIOUS
<1>5. n \in S
  <2> HIDE DEF S
  <2> QED
    BY <1>3, <1>4, SetInduction
<1> QED
  BY <1>1, <1>2, <1>5 DEF Lengthened, Grows, ways, leading

\* How far the disabled nodes of a graph are gone.
LEMMA GoneByAndBy ==
    ASSUME NEW g, IsGraph(g), NEW import, IsLayer(import), NEW n \in 0..Len(import.disabled)
    PROVE  LET f == Thinned(g, import)
               via(k) == Gone(g, import) \cap NodeIds(f[k])
               x == import.disabled[n]
           IN  /\ via(0) = Gone(g, import)
               /\ via(Len(import.disabled)) = {}
               /\ n > 0 => \/ EdgesOf(f[n]) = EdgesOf(f[n - 1]) /\ via(n) = via(n - 1) /\ f[n] = f[n - 1]
                           \/ /\ x \in via(n - 1) /\ via(n) = via(n - 1) \ {x}
                              /\ f[n] = RemoveNode(f[n - 1], x) /\ x \in NodeIds(f[n - 1])
                              /\ EdgesOf(f[n]) = EdgesWithout(EdgesOf(f[n - 1]), x)
<1> DEFINE f == Thinned(g, import)
           N == Len(import.disabled)
           x == import.disabled[n]
<1>1. N \in Nat /\ DOMAIN import.disabled = 1..N
  BY DEF IsLayer, IsList
<1>2. /\ f[0] = g
      /\ \A k \in 1..N : f[k] = RemoveNode(f[k - 1], import.disabled[k])
  BY ThinnedRuns
<1>3. ASSUME NEW k \in 0..N
      PROVE  NodeIds(f[k]) = NodeIds(g) \ {import.disabled[i] : i \in 1..k}
  BY ThinnedNodes
<1>4. n > 0 => IF x \in NodeIds(f[n - 1])
               THEN x \in Gone(g, import) /\ EdgesOf(f[n]) = EdgesWithout(EdgesOf(f[n - 1]), x)
               ELSE f[n] = f[n - 1]
  BY <1>1, ThinnedStep
<1>5. Gone(g, import) \cap NodeIds(f[0]) = Gone(g, import)
  BY <1>2 DEF Gone
<1>6. Gone(g, import) \cap NodeIds(f[N]) = {}
  <2>1. NodeIds(f[N]) = NodeIds(g) \ {import.disabled[i] : i \in 1..N}
    <3>1. N \in 0..N
      BY <1>1
    <3> HIDE DEF f, N
    <3> QED
      BY <1>3, <3>1
  <2>2. ToSet(import.disabled) = {import.disabled[i] : i \in 1..N}
    BY <1>1 DEF ToSet
  <2> QED
    BY <2>1, <2>2 DEF Gone
<1>7. ASSUME n > 0, x \in NodeIds(f[n - 1])
      PROVE  /\ f[n] = RemoveNode(f[n - 1], x)
             /\ NodeIds(f[n]) = NodeIds(f[n - 1]) \ {x}
  <2>1. n \in 1..N /\ n - 1 \in 0..N
    BY <1>1, <1>7
  <2>2. \A i : i \in 1..n <=> i \in 1..(n - 1) \/ i = n
    BY <1>7
  <2>3. NodeIds(f[n]) = NodeIds(g) \ {import.disabled[i] : i \in 1..n}
    BY <1>3
  <2>4. NodeIds(f[n - 1]) = NodeIds(g) \ {import.disabled[i] : i \in 1..(n - 1)}
    BY <1>3, <2>1
  <2> HIDE DEF f
  <2> QED
    BY <1>2, <2>1, <2>2, <2>3, <2>4
<1> HIDE DEF f
<1> QED
  BY <1>4, <1>5, <1>6, <1>7 DEF f

\* Removing nodes cuts no way.
LEMMA NoWayIsCut ==
    ASSUME NEW g, IsGraph(g), NEW import, IsLayer(import), NEW n \in Nat,
           NEW w \in SimpleWays(EdgesOf(g), Gone(g, import))[n],
           w.from \notin Gone(g, import), w.to \notin Gone(g, import)
    PROVE  \E e \in EdgesOf(RemoveDisabled(g, import)) :
              e.from = w.from /\ e.to = w.to /\ e.guard = w.guard
<1> DEFINE f == Thinned(g, import)
           N == Len(import.disabled)
           via(k) == Gone(g, import) \cap NodeIds(f[k])
           edges(k) == EdgesOf(f[k])
           Like(v) == v.from = w.from /\ v.to = w.to /\ v.guard = w.guard
           S == {k \in Nat : k <= N => \E v \in SimpleWays(edges(k), via(k))[n] : Like(v)}
<1>1. N \in Nat
  BY DEF IsLayer, IsList
<1>2. /\ f[0] = g /\ via(0) = Gone(g, import) /\ via(N) = {}
      /\ \A k \in 1..N :
            \/ edges(k) = edges(k - 1) /\ via(k) = via(k - 1)
            \/ /\ import.disabled[k] \in via(k - 1) /\ via(k) = via(k - 1) \ {import.disabled[k]}
               /\ edges(k) = EdgesWithout(edges(k - 1), import.disabled[k])
  <2>1. f[0] = g
    BY ThinnedRuns
  <2>2. \A k \in 0..N :
            /\ via(0) = Gone(g, import)
            /\ via(N) = {}
            /\ k > 0 => \/ edges(k) = edges(k - 1) /\ via(k) = via(k - 1)
                        \/ /\ import.disabled[k] \in via(k - 1) /\ via(k) = via(k - 1) \ {import.disabled[k]}
                           /\ edges(k) = EdgesWithout(edges(k - 1), import.disabled[k])
    BY GoneByAndBy
  <2>3. 0 \in 0..N /\ \A k \in 1..N : k \in 0..N /\ k > 0
    BY <1>1
  <2> HIDE DEF f, N, via, edges
  <2> QED
    BY <2>1, <2>2, <2>3
<1>3. \A k \in 0..N : via(k) \subseteq Gone(g, import)
  OBVIOUS
<1>4. edges(0) = EdgesOf(g)
  BY <1>2
<1> HIDE DEF f, N, via, edges
<1>5. 0 \in S
  BY <1>2, <1>4
<1>6. ASSUME NEW k \in Nat, k \in S PROVE k + 1 \in S
  <2> SUFFICES ASSUME k + 1 <= N PROVE \E v \in SimpleWays(edges(k + 1), via(k + 1))[n] : Like(v)
    OBVIOUS
  <2>1. k + 1 \in 1..N /\ (k + 1) - 1 = k /\ k \in 0..N
    BY <1>1
  <2>2. PICK v \in SimpleWays(edges(k), via(k))[n] : Like(v)
    BY <1>1, <1>6, <2>1
  <2> DEFINE x == import.disabled[k + 1]
  <2>3. CASE edges(k + 1) = edges(k) /\ via(k + 1) = via(k)
    BY <2>2, <2>3
  <2>4. CASE x \in via(k) /\ via(k + 1) = via(k) \ {x} /\ edges(k + 1) = EdgesWithout(edges(k), x)
    <3>1. x \in via(k) /\ v.from # x /\ v.to # x
      BY <1>3, <2>1, <2>2, <2>4
    <3> HIDE DEF x
    <3>2. Way(v.from, v.to, v.guard, v.through \ {x}) \in SimpleWays(EdgesWithout(edges(k), x), via(k) \ {x})[n]
      BY <3>1, WaysContract
    <3>3. Like(Way(v.from, v.to, v.guard, v.through \ {x}))
      BY <2>2, WayParts
    <3> QED
      BY <2>4, <3>2, <3>3
  <2> QED
    BY <1>2, <2>1, <2>3, <2>4
<1>7. N \in S
  <2> HIDE DEF S
  <2> QED
    BY <1>1, <1>5, <1>6, SetInduction
<1>8. PICK v \in SimpleWays(edges(N), {})[n] : Like(v)
  <2>1. \E v \in SimpleWays(edges(N), via(N))[n] : Like(v)
    BY <1>1, <1>7
  <2> HIDE DEF Like, S
  <2> QED
    BY <1>2, <2>1
<1>9. SimpleWays(edges(N), {})[n] = {Way(e.from, e.to, e.guard, {}) : e \in edges(N)}
  BY NothingToComeThrough
<1>10. PICK e \in edges(N) : v = Way(e.from, e.to, e.guard, {})
  BY <1>8, <1>9
<1>11. edges(N) = EdgesOf(RemoveDisabled(g, import))
  BY DEF edges, RemoveDisabled, f, N
<1> QED
  BY <1>8, <1>10, <1>11, WayParts

\* Without branches, removing nodes moves the entry to the node it leads to.
LEMMA EntryFollows ==
    ASSUME NEW g, IsGraph(g), Unbranched(EdgesOf(g)), NEW import, IsLayer(import),
           NEW node, node \notin Gone(g, import), NEW n \in Nat,
           g.entry \in LeadingTo(EdgesOf(g), Gone(g, import), node)[n]
    PROVE  RemoveDisabled(g, import).entry = node
<1> DEFINE f == Thinned(g, import)
           N == Len(import.disabled)
           via(k) == Gone(g, import) \cap NodeIds(f[k])
           edges(k) == EdgesOf(f[k])
           S == {k \in Nat : k <= N => /\ Unbranched(edges(k))
                                       /\ f[k].entry \in LeadingTo(edges(k), via(k), node)[n]}
<1>1. N \in Nat
  BY DEF IsLayer, IsList
<1>2. /\ f[0] = g /\ via(0) = Gone(g, import) /\ via(N) = {}
      /\ \A k \in 1..N :
            \/ edges(k) = edges(k - 1) /\ via(k) = via(k - 1) /\ f[k] = f[k - 1]
            \/ /\ import.disabled[k] \in via(k - 1) /\ via(k) = via(k - 1) \ {import.disabled[k]}
               /\ f[k] = RemoveNode(f[k - 1], import.disabled[k])
               /\ import.disabled[k] \in NodeIds(f[k - 1])
               /\ edges(k) = EdgesWithout(edges(k - 1), import.disabled[k])
  <2>1. f[0] = g
    BY ThinnedRuns
  <2>2. \A k \in 0..N :
            /\ via(0) = Gone(g, import)
            /\ via(N) = {}
            /\ k > 0 =>
                  \/ edges(k) = edges(k - 1) /\ via(k) = via(k - 1) /\ f[k] = f[k - 1]
                  \/ /\ import.disabled[k] \in via(k - 1) /\ via(k) = via(k - 1) \ {import.disabled[k]}
                     /\ f[k] = RemoveNode(f[k - 1], import.disabled[k])
                     /\ import.disabled[k] \in NodeIds(f[k - 1])
                     /\ edges(k) = EdgesWithout(edges(k - 1), import.disabled[k])
    BY GoneByAndBy
  <2>3. 0 \in 0..N /\ \A k \in 1..N : k \in 0..N /\ k > 0
    BY <1>1
  <2> HIDE DEF f, N, via, edges
  <2> QED
    BY <2>1, <2>2, <2>3
<1>3. \A k \in 0..N : via(k) \subseteq Gone(g, import)
  OBVIOUS
<1>4. edges(0) = EdgesOf(g)
  BY <1>2
<1>5. \A k \in 0..N : IsGraph(f[k]) /\ edges(k) = EdgesOf(f[k])
  BY ThinnedRuns
<1> HIDE DEF f, N, via, edges
<1>6. 0 \in S
  BY <1>2, <1>4
<1>7. ASSUME NEW k \in Nat, k \in S PROVE k + 1 \in S
  <2> SUFFICES ASSUME k + 1 <= N
               PROVE  /\ Unbranched(edges(k + 1))
                      /\ f[k + 1].entry \in LeadingTo(edges(k + 1), via(k + 1), node)[n]
    OBVIOUS
  <2>1. k + 1 \in 1..N /\ (k + 1) - 1 = k /\ k \in 0..N
    BY <1>1
  <2>2. Unbranched(edges(k)) /\ f[k].entry \in LeadingTo(edges(k), via(k), node)[n]
    BY <1>1, <1>7, <2>1
  <2> DEFINE x == import.disabled[k + 1]
  <2>3. CASE edges(k + 1) = edges(k) /\ via(k + 1) = via(k) /\ f[k + 1] = f[k]
    BY <2>2, <2>3
  <2>4. CASE /\ x \in via(k) /\ via(k + 1) = via(k) \ {x} /\ edges(k + 1) = EdgesWithout(edges(k), x)
             /\ f[k + 1] = RemoveNode(f[k], x) /\ x \in NodeIds(f[k])
    <3>1. x \in via(k) /\ node # x
      BY <1>3, <2>1, <2>4
    <3> HIDE DEF x
    <3>2. IsGraph(f[k]) /\ edges(k) = EdgesOf(f[k])
      BY <1>5, <2>1
    <3>3. f[k + 1].entry = EntryWithout(f[k], x)
      BY <2>4, <3>2, Removed
    <3> DEFINE old == LeadingTo(edges(k), via(k), node)[n]
               new == LeadingTo(EdgesWithout(edges(k), x), via(k) \ {x}, node)[n]
    <3>4. /\ old \ {x} \subseteq new
          /\ x \in old => \E s \in edges(k) : s.from = x /\ s.to # x /\ s.to \in new
      BY <3>1, LeadingContracts
    <3> HIDE DEF new
    <3>5. EntryWithout(f[k], x) \in new
      <4>1. CASE f[k].entry # x
        <5>1. EntryWithout(f[k], x) = f[k].entry
          BY <3>2, <4>1, EntryMoves
        <5> QED
          BY <2>2, <3>4, <4>1, <5>1
      <4>2. CASE f[k].entry = x
        <5>1. PICK s \in edges(k) : s.from = x /\ s.to # x /\ s.to \in new
          BY <2>2, <3>4, <4>2
        <5>2. PICK e \in edges(k) : e.from = x /\ EntryWithout(f[k], x) = e.to
          BY <3>2, <4>2, <5>1, EntryMoves
        <5> QED
          BY <2>2, <5>1, <5>2 DEF Unbranched
      <4> QED
        BY <4>1, <4>2
    <3>6. Unbranched(edges(k + 1))
      BY <2>2, <2>4, StaysUnbranched
    <3> QED
      BY <2>4, <3>3, <3>5, <3>6 DEF new
  <2> QED
    BY <1>2, <2>1, <2>3, <2>4
<1>8. N \in S
  <2> HIDE DEF S
  <2> QED
    BY <1>1, <1>6, <1>7, SetInduction
<1>9. f[N].entry \in LeadingTo(edges(N), {}, node)[n]
  BY <1>1, <1>2, <1>8
<1>10. f[N].entry = node
  BY <1>9, NothingToComeThrough
<1> QED
  BY <1>10 DEF RemoveDisabled, f, N

-----------------------------------------------------------------------------
(* Layers *)

\* The same graph but for the intents of its nodes.
SameShape(h, g) ==
    /\ h.id = g.id /\ h.entry = g.entry /\ h.edges = g.edges
    /\ DOMAIN h.nodes = DOMAIN g.nodes
    /\ \A i \in DOMAIN g.nodes : h.nodes[i].id = g.nodes[i].id

\* An override changes intents only.
LEMMA OverrideKeepsShape ==
    ASSUME NEW g, IsGraph(g), NEW patch
    PROVE  IsGraph(ApplyOverride(g, patch)) /\ SameShape(ApplyOverride(g, patch), g)
<1> DEFINE patched(n) == IF n.id = patch.node THEN [n EXCEPT !.intent = patch.intent @@ @] ELSE n
           nodes == [i \in DOMAIN g.nodes |-> patched(g.nodes[i])]
           h == ApplyOverride(g, patch)
<1>0. /\ g = [id |-> g.id, entry |-> g.entry, nodes |-> g.nodes, edges |-> g.edges]
      /\ IsList(g.nodes) /\ IsList(g.edges) /\ Distinct(g.nodes)
      /\ \A n \in ToSet(g.nodes) : IsNode(n)
  BY GraphIs
<1>1. h = [g EXCEPT !.nodes = nodes]
  BY DEF ApplyOverride, MapSeq
<1>2. ASSUME NEW n, IsNode(n) PROVE IsNode(patched(n)) /\ patched(n).id = n.id
  <2>1. CASE n.id = patch.node
    <3> DEFINE more == patch.intent @@ n.intent
    <3>1. patched(n) = [n EXCEPT !.intent = more]
      BY <2>1
    <3> HIDE DEF more, patched
    <3>2. patched(n) = [id |-> n.id, type |-> n.type, intent |-> more]
      BY <1>2, <3>1 DEF IsNode
    <3> QED
      BY <3>2 DEF IsNode
  <2>2. CASE n.id # patch.node
    BY <1>2, <2>2
  <2> QED
    BY <2>1, <2>2
<1>3. ASSUME NEW i \in DOMAIN g.nodes PROVE IsNode(nodes[i]) /\ nodes[i].id = g.nodes[i].id
  <2>1. IsNode(g.nodes[i])
    BY <1>0 DEF ToSet
  <2>2. nodes[i] = patched(g.nodes[i])
    OBVIOUS
  <2> HIDE DEF patched, nodes
  <2> QED
    BY <1>2, <2>1, <2>2
<1>4. DOMAIN nodes = DOMAIN g.nodes
  OBVIOUS
<1>5. DOMAIN g.nodes = 1..Len(g.nodes) /\ Len(g.nodes) \in Nat
  BY <1>0 DEF IsList
<1>6. IsList(nodes)
  <2>1. nodes \in [1..Len(g.nodes) -> ToSet(nodes)]
    <3>1. nodes = [i \in 1..Len(g.nodes) |-> nodes[i]]
      BY <1>5
    <3> HIDE DEF nodes
    <3> QED
      BY <1>4, <1>5, <3>1 DEF ToSet
  <2> HIDE DEF nodes
  <2> QED
    BY <1>5, <2>1, SeqDef DEF IsList
<1> HIDE DEF nodes, patched, h
<1>7. h = [id |-> g.id, entry |-> g.entry, nodes |-> nodes, edges |-> g.edges]
  BY <1>0, <1>1
<1>8. h.id = g.id /\ h.entry = g.entry /\ h.nodes = nodes /\ h.edges = g.edges
  BY <1>7
<1>9. SameShape(h, g)
  BY <1>3, <1>4, <1>8 DEF SameShape
<1>10. Distinct(nodes)
  BY <1>0, <1>3, <1>4 DEF Distinct
<1>11. \A n \in ToSet(nodes) : IsNode(n)
  BY <1>3, <1>4 DEF ToSet
<1>12. IsGraph(h)
  BY <1>0, <1>6, <1>7, <1>8, <1>10, <1>11, GraphIs
<1> QED
  BY <1>9, <1>12 DEF h

\* So do all of them.
LEMMA OverridesKeepShape ==
    ASSUME NEW g, IsGraph(g), NEW import, IsLayer(import)
    PROVE  IsGraph(ApplyOverrides(g, import)) /\ SameShape(ApplyOverrides(g, import), g)
<1> DEFINE N == Len(import.overrides)
           Done(f, n) == /\ f[0] = g
                         /\ \A k \in 1..n : f[k] = ApplyOverride(f[k - 1], import.overrides[k])
           Is(f) == f = [n \in 0..N |-> IF n = 0 THEN g ELSE ApplyOverride(f[n - 1], import.overrides[n])]
           S == {n \in Nat : \E f : Done(f, n)}
<1>1. N \in Nat
  BY DEF IsLayer, IsList
<1>2. 0 \in S
  <2> DEFINE f == [k \in {0} |-> g]
  <2>1. Done(f, 0)
    OBVIOUS
  <2> QED
    BY <2>1
<1>3. ASSUME NEW n \in Nat, n \in S PROVE n + 1 \in S
  <2>1. PICK f : Done(f, n)
    BY <1>3
  <2> DEFINE next == ApplyOverride(f[n], import.overrides[n + 1])
             h == [k \in 0..(n + 1) |-> IF k = n + 1 THEN next ELSE f[k]]
  <2> HIDE DEF next
  <2>2. h[n + 1] = next /\ \A k \in 0..n : h[k] = f[k]
    OBVIOUS
  <2> HIDE DEF h
  <2>3. ASSUME NEW k \in 1..(n + 1) PROVE h[k] = ApplyOverride(h[k - 1], import.overrides[k])
    <3>1. CASE k = n + 1
      <4>1. k - 1 = n /\ n \in 0..n
        BY <3>1
      <4>2. h[k] = next /\ h[k - 1] = f[n]
        BY <2>2, <3>1, <4>1
      <4> QED
        BY <3>1, <4>1, <4>2 DEF next
    <3>2. CASE k # n + 1
      <4>1. k \in 1..n /\ k \in 0..n /\ k - 1 \in 0..n
        BY <3>2
      <4> QED
        BY <2>1, <2>2, <4>1
    <3> QED
      BY <3>1, <3>2
  <2>4. Done(h, n + 1)
    BY <2>1, <2>2, <2>3
  <2> QED
    BY <2>4
<1>4. PICK d : Done(d, N)
  <2>1. N \in S
    <3> HIDE DEF S, N
    <3> QED
      BY <1>1, <1>2, <1>3, SetInduction
  <2> QED
    BY <2>1
<1> HIDE DEF N
<1> DEFINE f == [n \in 0..N |-> d[n]]
<1>5. Is(f)
  <2>1. ASSUME NEW n \in 0..N
        PROVE  d[n] = IF n = 0 THEN g ELSE ApplyOverride(f[n - 1], import.overrides[n])
    <3>1. CASE n = 0
      BY <1>4, <3>1
    <3>2. CASE n # 0
      <4>1. n \in 1..N /\ n - 1 \in 0..N
        BY <1>1, <3>2
      <4>2. f[n - 1] = d[n - 1]
        BY <4>1
      <4> QED
        BY <1>4, <3>2, <4>1, <4>2
    <3> QED
      BY <3>1, <3>2
  <2> QED
    BY <2>1, Zenon
<1> HIDE DEF f
<1>6. PICK h : h = (CHOOSE r : Is(r))
  OBVIOUS
<1>7. Is(h)
  BY <1>5, <1>6
<1>8. ApplyOverrides(g, import) = h[N]
  BY <1>6 DEF ApplyOverrides, N
<1> DEFINE T == {n \in Nat : n <= N => IsGraph(h[n]) /\ SameShape(h[n], g)}
<1>9. 0 \in T
  <2>1. h[0] = g
    BY <1>1, <1>7
  <2> QED
    BY <2>1 DEF SameShape
<1>10. ASSUME NEW n \in Nat, n \in T PROVE n + 1 \in T
  <2> SUFFICES ASSUME n + 1 <= N PROVE IsGraph(h[n + 1]) /\ SameShape(h[n + 1], g)
    OBVIOUS
  <2>1. n + 1 \in 0..N /\ n + 1 # 0 /\ (n + 1) - 1 = n /\ n <= N
    BY <1>1
  <2>2. h[n + 1] = ApplyOverride(h[n], import.overrides[n + 1])
    BY <1>7, <2>1
  <2>3. IsGraph(h[n]) /\ SameShape(h[n], g)
    BY <1>10, <2>1
  <2>4. IsGraph(h[n + 1]) /\ SameShape(h[n + 1], h[n])
    BY <2>2, <2>3, OverrideKeepsShape
  <2> QED
    BY <2>3, <2>4 DEF SameShape
<1>11. N \in T
  <2> HIDE DEF T
  <2> QED
    BY <1>1, <1>9, <1>10, SetInduction
<1> QED
  BY <1>1, <1>8, <1>11

\* The nodes that are left when all disabled nodes are gone.
LEMMA NodesLeft ==
    ASSUME NEW g, IsGraph(g), NEW import, IsLayer(import)
    PROVE  NodeIds(RemoveDisabled(g, import)) = NodeIds(g) \ Gone(g, import)
<1> DEFINE f == Thinned(g, import)
           N == Len(import.disabled)
<1>1. N \in Nat /\ DOMAIN import.disabled = 1..N
  BY DEF IsLayer, IsList
<1>2. ASSUME NEW k \in 0..N PROVE NodeIds(f[k]) = NodeIds(g) \ {import.disabled[i] : i \in 1..k}
  BY ThinnedNodes
<1> HIDE DEF f, N
<1>3. N \in 0..N
  BY <1>1
<1>4. NodeIds(f[N]) = NodeIds(g) \ {import.disabled[i] : i \in 1..N}
  BY <1>2, <1>3
<1>5. ToSet(import.disabled) = {import.disabled[i] : i \in 1..N}
  BY <1>1 DEF ToSet
<1>6. RemoveDisabled(g, import) = f[N]
  BY DEF RemoveDisabled, f, N
<1> QED
  BY <1>4, <1>5, <1>6 DEF Gone

\* A layer leaves a graph with the nodes it does not disable.
LEMMA LayerLeaves ==
    ASSUME NEW g, IsGraph(g), NEW import, IsLayer(import)
    PROVE  LET patched == ApplyOverrides(g, import)
               h == Layered(g, import)
           IN  /\ IsGraph(patched) /\ SameShape(patched, g)
               /\ h = RemoveDisabled(patched, import)
               /\ Gone(patched, import) = Gone(g, import) /\ EdgesOf(patched) = EdgesOf(g)
               /\ IsGraph(h) /\ h.id = g.id
               /\ NodeIds(h) = NodeIds(g) \ Gone(g, import)
<1> DEFINE patched == ApplyOverrides(g, import)
           h == Layered(g, import)
           N == Len(import.disabled)
<1>1. IsGraph(patched) /\ SameShape(patched, g)
  BY OverridesKeepShape
<1>2. h = RemoveDisabled(patched, import)
  BY DEF Layered
<1>3. NodeIds(patched) = NodeIds(g) /\ EdgesOf(patched) = EdgesOf(g) /\ patched.id = g.id
  BY <1>1 DEF SameShape, NodeIds, EdgesOf
<1>4. N \in Nat /\ DOMAIN import.disabled = 1..N
  BY DEF IsLayer, IsList
<1> HIDE DEF patched, N, h
<1> DEFINE f == Thinned(patched, import)
<1>5. N \in 0..N
  BY <1>4
<1>6. IsGraph(f[N]) /\ f[N].id = patched.id
  BY <1>1, <1>5, ThinnedRuns DEF N
<1>7. NodeIds(h) = NodeIds(patched) \ Gone(patched, import)
  BY <1>1, <1>2, NodesLeft
<1>8. Gone(patched, import) = Gone(g, import)
  BY <1>3 DEF Gone
<1>9. h = f[N]
  BY <1>2 DEF RemoveDisabled, N
<1> HIDE DEF f
<1> QED
  BY <1>1, <1>2, <1>3, <1>6, <1>7, <1>8, <1>9 DEF patched, h

-----------------------------------------------------------------------------
(* The order of the nodes *)

\* A list without repetition.
Once(s) == \A k, l \in DOMAIN s : s[k] = s[l] => k = l

\* What is left of the nodes of a graph, and what of it is ready, after some of them.
Left(g, done) == DOMAIN g.nodes \ done
ReadyAfter(g, done) == {i \in Left(g, done) : \A arc \in Arcs(g) : arc[2] = i => arc[1] \in done}

\* What is next is left, and ready if anything is.
LEMMA NextIsLeft ==
    ASSUME NEW g, IsGraph(g), NEW order, Left(g, ToSet(order)) # {}
    PROVE  /\ NextNode(g, order) \in Left(g, ToSet(order))
           /\ ReadyAfter(g, ToSet(order)) # {} => NextNode(g, order) \in ReadyAfter(g, ToSet(order))
<1> DEFINE left == DOMAIN g.nodes \ ToSet(order)
           choice == IF Ready(g, order) # {} THEN Ready(g, order) ELSE left
<1>1. Ready(g, order) = ReadyAfter(g, ToSet(order)) /\ left = Left(g, ToSet(order))
  BY DEF Ready, ReadyAfter, Left
<1>2. DOMAIN g.nodes \subseteq Nat
  <2>1. DOMAIN g.nodes = 1..Len(g.nodes)
    BY DEF IsGraph, IsList
  <2> QED
    BY <2>1
<1>3. Ready(g, order) \subseteq left
  BY <1>1 DEF ReadyAfter
<1>4. choice \subseteq Nat /\ choice # {}
  BY <1>1, <1>2, <1>3
<1>5. NextNode(g, order) = CHOOSE i \in choice : \A j \in choice : i <= j
  BY DEF NextNode
<1> HIDE DEF choice
<1>6. \E i \in choice : \A j \in choice : i <= j
  BY <1>4, LeastOf
<1>7. NextNode(g, order) \in choice
  BY <1>5, <1>6
<1> QED
  BY <1>1, <1>3, <1>7 DEF choice

\* The order is made node by node from its start.
LEMMA OrderRuns ==
    ASSUME NEW g, NEW start, Len(g.nodes) \in Nat, Len(start) \in 0..Len(g.nodes)
    PROVE  \E f : /\ f[Len(start)] = start
                  /\ \A n \in (Len(start) + 1)..Len(g.nodes) :
                        f[n] = Append(f[n - 1], NextNode(g, f[n - 1]))
                  /\ OrderFrom(g, start) = f[Len(g.nodes)]
<1> DEFINE L == Len(start)
           N == Len(g.nodes)
           More(s) == Append(s, NextNode(g, s))
           Done(f, n) == f[L] = start /\ \A k \in (L + 1)..n : f[k] = More(f[k - 1])
           Is(f) == f = [n \in L..N |-> IF n = L THEN start ELSE More(f[n - 1])]
           S == {n \in Nat : n >= L => \E f : Done(f, n)}
<1>1. L \in Nat /\ N \in Nat /\ L <= N
  OBVIOUS
<1> HIDE DEF L, N, More
<1>2. \E f : Done(f, L)
  <2> DEFINE f == [k \in {L} |-> start]
  <2>1. Done(f, L)
    BY <1>1
  <2> QED
    BY <2>1
<1>3. 0 \in S
  BY <1>1, <1>2
<1>4. ASSUME NEW n \in Nat, n \in S PROVE n + 1 \in S
  <2> SUFFICES ASSUME n + 1 >= L PROVE \E f : Done(f, n + 1)
    OBVIOUS
  <2>1. CASE n + 1 = L
    BY <1>2, <2>1
  <2>2. CASE n + 1 # L
    <3>1. PICK f : Done(f, n)
      BY <1>1, <1>4, <2>2
    <3> DEFINE next == More(f[n])
               h == [k \in L..(n + 1) |-> IF k = n + 1 THEN next ELSE f[k]]
    <3> HIDE DEF next
    <3>2. h[n + 1] = next /\ \A k \in L..n : h[k] = f[k]
      BY <1>1, <2>2
    <3> HIDE DEF h
    <3>3. ASSUME NEW k \in (L + 1)..(n + 1) PROVE h[k] = More(h[k - 1])
      <4>1. CASE k = n + 1
        <5>1. k - 1 = n /\ n \in L..n
          BY <1>1, <2>2, <4>1
        <5>2. h[k] = next /\ h[k - 1] = f[n]
          BY <3>2, <4>1, <5>1
        <5> QED
          BY <5>2 DEF next
      <4>2. CASE k # n + 1
        <5>1. k \in (L + 1)..n /\ k \in L..n /\ k - 1 \in L..n
          BY <1>1, <4>2
        <5> QED
          BY <3>1, <3>2, <5>1
      <4> QED
        BY <4>1, <4>2
    <3>4. L \in L..n
      BY <1>1, <2>2
    <3>5. Done(h, n + 1)
      BY <3>1, <3>2, <3>3, <3>4
    <3> QED
      BY <3>5
  <2> QED
    BY <2>1, <2>2
<1>5. PICK d : Done(d, N)
  <2>1. N \in S
    <3> HIDE DEF S
    <3> QED
      BY <1>1, <1>3, <1>4, SetInduction
  <2> QED
    BY <1>1, <2>1
<1> DEFINE f == [n \in L..N |-> d[n]]
<1>6. Is(f)
  <2>1. ASSUME NEW n \in L..N PROVE d[n] = IF n = L THEN start ELSE More(f[n - 1])
    <3>1. CASE n = L
      BY <1>5, <3>1
    <3>2. CASE n # L
      <4>1. n \in (L + 1)..N /\ n - 1 \in L..N
        BY <1>1, <3>2
      <4>2. f[n - 1] = d[n - 1]
        BY <4>1
      <4> QED
        BY <1>5, <3>2, <4>1, <4>2
    <3> QED
      BY <3>1, <3>2
  <2> QED
    BY <2>1, Zenon
<1> HIDE DEF f
<1>7. PICK h : h = (CHOOSE r : Is(r))
  OBVIOUS
<1>8. Is(h)
  BY <1>6, <1>7
<1>9. OrderFrom(g, start) = h[N]
  BY <1>7 DEF OrderFrom, L, N, More
<1>10. h[L] = start
  BY <1>1, <1>8
<1>11. ASSUME NEW n \in (L + 1)..N PROVE h[n] = More(h[n - 1])
  <2>1. n \in L..N /\ n # L
    BY <1>1
  <2> QED
    BY <1>8, <2>1
<1> QED
  BY <1>9, <1>10, <1>11 DEF L, N, More

\* A list of some of the first n numbers without repetition is complete when it is as long.
LEMMA CountOnce ==
    ASSUME NEW n \in Nat, NEW s \in Seq(1..n), Once(s)
    PROVE  /\ Len(s) = n => ToSet(s) = 1..n
           /\ Len(s) < n => (1..n) \ ToSet(s) # {}
<1>1. Len(s) \in Nat /\ DOMAIN s = 1..Len(s) /\ s \in [1..Len(s) -> 1..n]
  BY LenProperties
<1>2. s \in Injection(1..Len(s), 1..n)
  BY <1>1 DEF Once, Injection, IsInjective
<1>3. /\ IsFiniteSet(1..n) /\ Cardinality(1..n) = n
      /\ Cardinality(1..Len(s)) = Len(s)
  <2>1. \A k \in Nat : IsFiniteSet(1..k) /\ Cardinality(1..k) = k
    <3> SUFFICES ASSUME NEW k \in Nat PROVE IsFiniteSet(1..k) /\ Cardinality(1..k) = k
      OBVIOUS
    <3>1. IsFiniteSet(1..k) /\ Cardinality(1..k) = IF 1 > k THEN 0 ELSE k - 1 + 1
      BY FS_Interval
    <3> QED
      BY <3>1
  <2> QED
    BY <1>1, <2>1
<1>4. Len(s) = n <=> s \in Surjection(1..Len(s), 1..n)
  BY <1>2, <1>3, FS_Injection
<1>5. ToSet(s) = {s[k] : k \in 1..Len(s)}
  BY <1>1 DEF ToSet
<1>6. Len(s) = n => ToSet(s) = 1..n
  BY <1>1, <1>4, <1>5 DEF Surjection
<1>7. ToSet(s) = 1..n => s \in Surjection(1..Len(s), 1..n)
  BY <1>1, <1>5 DEF Surjection
<1>8. ToSet(s) \subseteq 1..n
  BY <1>1, <1>5
<1>9. ASSUME Len(s) < n PROVE (1..n) \ ToSet(s) # {}
  <2> DEFINE m == Len(s)
  <2>1. m \in Nat
    BY <1>1
  <2> HIDE DEF m
  <2>2. m < n
    BY <1>9 DEF m
  <2>3. Len(s) # n
    BY <2>1, <2>2 DEF m
  <2>4. ToSet(s) # 1..n
    BY <1>4, <1>7, <2>3, Zenon
  <2> HIDE DEF ToSet
  <2> QED
    BY <1>8, <2>4
<1> QED
  BY <1>6, <1>9

\* A list of nodes without repetition, behind whose start a node is ready when any is.
Before(o, s) == {o[k] : k \in 1..(s - 1)}
InOrder(g, o, start) ==
    /\ o \in Seq(DOMAIN g.nodes) /\ Once(o)
    /\ \A k \in 1..Len(start) : o[k] = start[k]
    /\ \A s \in (Len(start) + 1)..Len(o) :
          ReadyAfter(g, Before(o, s)) # {} => o[s] \in ReadyAfter(g, Before(o, s))

\* It stays one when the next node is added.
LEMMA NextInOrder ==
    ASSUME NEW g, IsGraph(g), NEW start, Len(start) \in Nat, NEW o, InOrder(g, o, start),
           Len(start) <= Len(o), Len(o) < Len(g.nodes)
    PROVE  LET p == Append(o, NextNode(g, o))
           IN  InOrder(g, p, start) /\ Len(p) = Len(o) + 1
<1> DEFINE D == DOMAIN g.nodes
           n == Len(o)
           x == NextNode(g, o)
           p == Append(o, x)
<1>1. D = 1..Len(g.nodes) /\ Len(g.nodes) \in Nat
  BY DEF IsGraph, IsList
<1>2. o \in Seq(D) /\ Once(o) /\ n \in Nat /\ DOMAIN o = 1..n
  BY DEF InOrder
<1>3. Left(g, ToSet(o)) # {}
  BY <1>1, <1>2, CountOnce DEF Left
<1>4. /\ x \in Left(g, ToSet(o))
      /\ ReadyAfter(g, ToSet(o)) # {} => x \in ReadyAfter(g, ToSet(o))
  BY <1>3, NextIsLeft
<1> HIDE DEF x, D
<1>5. x \in D /\ x \notin ToSet(o)
  BY <1>4 DEF Left, D
<1>6. p \in Seq(D) /\ Len(p) = n + 1 /\ p[n + 1] = x /\ \A k \in 1..n : p[k] = o[k]
  BY <1>2, <1>5
<1> HIDE DEF p
<1>7. DOMAIN p = 1..(n + 1)
  BY <1>2, <1>6
<1>8. Once(p)
  <2> SUFFICES ASSUME NEW k \in 1..(n + 1), NEW l \in 1..(n + 1), p[k] = p[l] PROVE k = l
    BY <1>7 DEF Once
  <2>1. \A m \in 1..n : p[m] # x
    BY <1>2, <1>5, <1>6 DEF ToSet
  <2>2. \A m \in 1..(n + 1) : m # n + 1 => m \in 1..n
    BY <1>2
  <2> QED
    BY <1>2, <1>6, <2>1, <2>2 DEF Once
<1>9. ASSUME NEW s \in (Len(start) + 1)..(n + 1), ReadyAfter(g, Before(p, s)) # {}
      PROVE  p[s] \in ReadyAfter(g, Before(p, s))
  <2>1. Before(p, s) = Before(o, s)
    <3>1. \A k \in 1..(s - 1) : k \in 1..n
      BY <1>2
    <3> QED
      BY <1>6, <3>1 DEF Before
  <2>2. CASE s = n + 1
    <3>1. Before(o, s) = ToSet(o)
      BY <1>2, <2>2 DEF Before, ToSet
    <3> QED
      BY <1>4, <1>6, <1>9, <2>1, <2>2, <3>1
  <2>3. CASE s # n + 1
    <3>1. s \in (Len(start) + 1)..n /\ s \in 1..n
      BY <1>2, <2>3
    <3> QED
      BY <1>6, <1>9, <2>1, <3>1 DEF InOrder
  <2> QED
    BY <2>2, <2>3
<1>10. ASSUME NEW k \in 1..Len(start) PROVE p[k] = start[k]
  <2>1. k \in 1..n
    BY <1>2
  <2> QED
    BY <1>6, <2>1 DEF InOrder
<1> QED
  BY <1>6, <1>8, <1>9, <1>10 DEF InOrder, p, x, D

\* The order has every node once, and a node comes before it is ready only when none is.
LEMMA OrderIsWhole ==
    ASSUME NEW g, IsGraph(g), NEW start, InOrder(g, start, start), Len(start) <= Len(g.nodes)
    PROVE  LET o == OrderFrom(g, start)
           IN  InOrder(g, o, start) /\ Len(o) = Len(g.nodes) /\ ToSet(o) = DOMAIN g.nodes
<1> DEFINE N == Len(g.nodes)
           L == Len(start)
<1>1. N \in Nat /\ DOMAIN g.nodes = 1..N
  BY DEF IsGraph, IsList
<1>2. L \in Nat
  BY DEF InOrder
<1>3. PICK f : /\ f[L] = start
               /\ \A n \in (L + 1)..N : f[n] = Append(f[n - 1], NextNode(g, f[n - 1]))
               /\ OrderFrom(g, start) = f[N]
  BY <1>1, <1>2, OrderRuns
<1> DEFINE S == {n \in Nat : n \in L..N => InOrder(g, f[n], start) /\ Len(f[n]) = n}
<1>4. InOrder(g, f[L], start) /\ Len(f[L]) = L
  BY <1>3
<1> HIDE DEF L, N
<1>5. 0 \in S
  <2>1. 0 \in L..N => L = 0
    BY <1>2
  <2> QED
    BY <1>4, <2>1
<1>6. ASSUME NEW n \in Nat, n \in S PROVE n + 1 \in S
  <2> SUFFICES ASSUME n + 1 \in L..N PROVE InOrder(g, f[n + 1], start) /\ Len(f[n + 1]) = n + 1
    OBVIOUS
  <2>1. CASE n + 1 = L
    BY <1>4, <2>1
  <2>2. CASE n + 1 # L
    <3>1. n \in L..N /\ n < N /\ n + 1 \in (L + 1)..N /\ (n + 1) - 1 = n /\ L <= n
      BY <1>1, <1>2, <2>2
    <3>2. InOrder(g, f[n], start) /\ Len(f[n]) = n
      BY <1>6, <3>1
    <3>3. f[n + 1] = Append(f[n], NextNode(g, f[n]))
      BY <1>3, <3>1
    <3> QED
      BY <1>2, <3>1, <3>2, <3>3, NextInOrder DEF L, N
  <2> QED
    BY <2>1, <2>2
<1>7. InOrder(g, f[N], start) /\ Len(f[N]) = N
  <2>1. N \in S /\ N \in L..N
    <3> HIDE DEF S
    <3>1. N \in S
      BY <1>1, <1>5, <1>6, SetInduction
    <3>2. L <= N
      BY DEF L, N
    <3> QED
      BY <1>1, <1>2, <3>1, <3>2
  <2> QED
    BY <2>1
<1>8. ToSet(f[N]) = 1..N
  BY <1>1, <1>7, CountOnce DEF InOrder
<1> QED
  BY <1>1, <1>3, <1>7, <1>8 DEF N

\* The position of a node, and the arcs, of a graph.
LEMMA Positions ==
    ASSUME NEW g, IsGraph(g), NEW i \in DOMAIN g.nodes
    PROVE  PositionOf(g, g.nodes[i].id) = i
<1>1. Distinct(g.nodes)
  BY GraphIs
<1>2. \A j \in DOMAIN g.nodes : g.nodes[j].id = g.nodes[i].id <=> j = i
  BY <1>1 DEF Distinct
<1> QED
  BY <1>2 DEF PositionOf

\* An arc is between two nodes.
LEMMA ArcsAre ==
    ASSUME NEW g, IsGraph(g), NEW a, NEW b
    PROVE  <<a, b>> \in Arcs(g) <=>
              \E e \in EdgesOf(g) : /\ a \in DOMAIN g.nodes /\ e.from = g.nodes[a].id
                                    /\ b \in DOMAIN g.nodes /\ e.to = g.nodes[b].id
<1>1. ASSUME NEW e \in EdgesOf(g), {e.from, e.to} \subseteq NodeIds(g),
             <<a, b>> = <<PositionOf(g, e.from), PositionOf(g, e.to)>>
      PROVE  /\ a \in DOMAIN g.nodes /\ e.from = g.nodes[a].id
             /\ b \in DOMAIN g.nodes /\ e.to = g.nodes[b].id
  <2>1. PICK i, j \in DOMAIN g.nodes : e.from = g.nodes[i].id /\ e.to = g.nodes[j].id
    BY <1>1 DEF NodeIds
  <2>2. PositionOf(g, e.from) = i /\ PositionOf(g, e.to) = j
    BY <2>1, Positions
  <2> QED
    BY <1>1, <2>1, <2>2
<1>2. ASSUME NEW e \in EdgesOf(g), a \in DOMAIN g.nodes, e.from = g.nodes[a].id,
             b \in DOMAIN g.nodes, e.to = g.nodes[b].id
      PROVE  <<a, b>> \in Arcs(g)
  <2>1. PositionOf(g, e.from) = a /\ PositionOf(g, e.to) = b
    BY <1>2, Positions
  <2>2. {e.from, e.to} \subseteq NodeIds(g)
    BY <1>2 DEF NodeIds
  <2> QED
    BY <2>1, <2>2 DEF Arcs
<1>3. \A arc : arc \in Arcs(g) <=>
         \E e \in EdgesOf(g) : /\ {e.from, e.to} \subseteq NodeIds(g)
                               /\ arc = <<PositionOf(g, e.from), PositionOf(g, e.to)>>
  BY DEF Arcs
<1> QED
  BY <1>1, <1>2, <1>3

\* Arcs are pairs.
LEMMA ArcsArePairs ==
    ASSUME NEW g, IsGraph(g), NEW arc \in Arcs(g)
    PROVE  arc = <<arc[1], arc[2]>> /\ arc[1] \in DOMAIN g.nodes /\ arc[2] \in DOMAIN g.nodes
<1>1. PICK a, b : arc = <<a, b>>
  BY DEF Arcs
<1>2. a \in DOMAIN g.nodes /\ b \in DOMAIN g.nodes
  BY <1>1, ArcsAre
<1> QED
  BY <1>1, <1>2

\* Nodes that each have one of them before it.
Circular(g, nodes) ==
    /\ nodes # {} /\ nodes \subseteq DOMAIN g.nodes
    /\ \A i \in nodes : \E arc \in Arcs(g) : arc[2] = i /\ arc[1] \in nodes

\* Where a node stands in an order without repetition.
SlotOf(o, i) == CHOOSE s \in DOMAIN o : o[s] = i

\* It stands there.
LEMMA Slots ==
    ASSUME NEW o, Once(o), NEW s \in DOMAIN o
    PROVE  SlotOf(o, o[s]) = s
  BY DEF Once, SlotOf

\* The order of a graph has no edge back exactly when it has no circle and no edge to its start.
LEMMA NoEdgeBack ==
    ASSUME NEW g, IsGraph(g), g.nodes # <<>>
    PROVE  LET o == TopologicalOrder(g) IN
           /\ BackEdges(g, o) # {} <=> \/ \E nodes : Circular(g, nodes)
                                       \/ \E arc \in Arcs(g) : arc[2] = o[1]
           /\ o \in Seq(DOMAIN g.nodes) /\ Len(o) = Len(g.nodes) /\ Once(o) /\ ToSet(o) = DOMAIN g.nodes
           /\ g.entry \in NodeIds(g) => g.nodes[o[1]].id = g.entry
<1> DEFINE D == DOMAIN g.nodes
           N == Len(g.nodes)
           start == IF g.entry \in NodeIds(g) THEN <<PositionOf(g, g.entry)>> ELSE <<>>
           o == TopologicalOrder(g)
<1>1. D = 1..N /\ N \in Nat \ {0}
  BY DEF IsGraph, IsList
<1>2. g.entry \in NodeIds(g) =>
        PositionOf(g, g.entry) \in D /\ g.nodes[PositionOf(g, g.entry)].id = g.entry
  <2> SUFFICES ASSUME NEW i \in D, g.entry = g.nodes[i].id
               PROVE  PositionOf(g, g.entry) \in D /\ g.nodes[PositionOf(g, g.entry)].id = g.entry
    BY DEF NodeIds
  <2> QED
    BY Positions
<1> HIDE DEF D, N
<1>3. /\ start \in Seq(D) /\ Len(start) \in {0, 1}
      /\ g.entry \in NodeIds(g) => Len(start) = 1 /\ g.nodes[start[1]].id = g.entry
  <2>1. CASE g.entry \in NodeIds(g)
    <3> DEFINE p == PositionOf(g, g.entry)
    <3>1. start = <<p>> /\ p \in D /\ g.nodes[p].id = g.entry
      BY <1>2, <2>1
    <3> HIDE DEF p, start
    <3> QED
      BY <3>1
  <2>2. CASE g.entry \notin NodeIds(g)
    <3>1. start = <<>>
      BY <2>2
    <3> HIDE DEF start
    <3> QED
      BY <2>2, <3>1
  <2> QED
    BY <2>1, <2>2
<1>4. o = OrderFrom(g, start)
  BY DEF TopologicalOrder
<1> HIDE DEF start, o
<1>5. InOrder(g, start, start) /\ Len(start) <= N
  <2>1. Once(start)
    BY <1>3 DEF Once
  <2>2. \A s \in (Len(start) + 1)..Len(start) : FALSE
    BY <1>3
  <2> DEFINE L == Len(start)
  <2>3. L \in {0, 1}
    BY <1>3
  <2> HIDE DEF L
  <2>4. L <= N
    BY <1>1, <2>3
  <2> QED
    BY <1>3, <2>1, <2>2, <2>4 DEF InOrder, D, L
<1>6. InOrder(g, o, start) /\ Len(o) = N /\ ToSet(o) = D
  BY <1>4, <1>5, OrderIsWhole DEF D, N
<1>7. o \in Seq(D) /\ Once(o) /\ DOMAIN o = 1..N
  BY <1>6 DEF InOrder, D
<1>8. g.entry \in NodeIds(g) => g.nodes[o[1]].id = g.entry
  <2> SUFFICES ASSUME g.entry \in NodeIds(g) PROVE g.nodes[o[1]].id = g.entry
    OBVIOUS
  <2>1. 1 \in 1..Len(start)
    BY <1>3
  <2>2. o[1] = start[1]
    BY <1>6, <2>1 DEF InOrder
  <2> QED
    BY <1>3, <2>2
<1>9. BackEdges(g, o) = {arc \in Arcs(g) : SlotOf(o, arc[2]) <= SlotOf(o, arc[1])}
  BY DEF BackEdges, SlotOf
<1>10. \A s \in 1..N : SlotOf(o, o[s]) = s
  BY <1>7, Slots
<1>11. \A i \in D : SlotOf(o, i) \in 1..N /\ o[SlotOf(o, i)] = i
  <2> SUFFICES ASSUME NEW i \in D PROVE SlotOf(o, i) \in 1..N /\ o[SlotOf(o, i)] = i
    OBVIOUS
  <2>1. PICK s \in 1..N : o[s] = i
    BY <1>6, <1>7 DEF ToSet
  <2> QED
    BY <1>10, <2>1
<1>12. \A arc \in Arcs(g) : arc[1] \in D /\ arc[2] \in D
  BY ArcsArePairs DEF D
<1>13. ASSUME NEW back \in BackEdges(g, o)
       PROVE  (\E nodes : Circular(g, nodes)) \/ \E arc \in Arcs(g) : arc[2] = o[1]
  <2> DEFINE a == back[1]
             b == back[2]
             s == SlotOf(o, b)
  <2>1. back \in Arcs(g) /\ s <= SlotOf(o, a) /\ a \in D /\ b \in D
    BY <1>9, <1>12
  <2>2. s \in 1..N /\ o[s] = b /\ SlotOf(o, a) \in 1..N /\ o[SlotOf(o, a)] = a
    BY <1>11, <2>1
  <2> HIDE DEF s
  <2>3. CASE s <= Len(start)
    <3> DEFINE L == Len(start)
    <3>1. L \in {0, 1} /\ s <= L
      BY <1>3, <2>3
    <3> HIDE DEF L
    <3>2. s = 1
      BY <2>2, <3>1
    <3> QED
      BY <2>1, <2>2, <3>2
  <2>4. CASE s > Len(start)
    <3> DEFINE done == Before(o, s)
               nodes == Left(g, done)
    <3>1. a \notin done
      <4> SUFFICES ASSUME NEW k \in 1..(s - 1), o[k] = a PROVE FALSE
        BY DEF Before
      <4>1. k \in 1..N /\ k < s
        BY <1>1, <2>2
      <4>2. SlotOf(o, a) = k
        BY <1>10, <4>1
      <4> QED
        BY <1>1, <2>1, <2>2, <4>1, <4>2
    <3>2. b \notin done
      <4> SUFFICES ASSUME NEW k \in 1..(s - 1), o[k] = b PROVE FALSE
        BY DEF Before
      <4>1. k \in 1..N /\ k < s
        BY <1>1, <2>2
      <4> QED
        BY <1>1, <1>10, <2>2, <4>1
    <3>3. o[s] \notin ReadyAfter(g, done)
      BY <2>1, <2>2, <3>1 DEF ReadyAfter
    <3>4. s \in (Len(start) + 1)..Len(o)
      BY <1>1, <1>3, <1>6, <2>2, <2>4
    <3>5. ReadyAfter(g, done) = {}
      BY <1>6, <3>3, <3>4 DEF InOrder
    <3> HIDE DEF done
    <3>6. b \in nodes
      BY <2>1, <3>2 DEF Left, D
    <3>7. ASSUME NEW i \in nodes PROVE \E arc \in Arcs(g) : arc[2] = i /\ arc[1] \in nodes
      <4>1. PICK arc \in Arcs(g) : arc[2] = i /\ arc[1] \notin done
        BY <3>5 DEF ReadyAfter
      <4> QED
        BY <1>12, <4>1 DEF Left, D
    <3>8. Circular(g, nodes)
      BY <3>6, <3>7 DEF Circular, Left
    <3> QED
      BY <3>8
  <2> QED
    BY <1>1, <1>3, <2>2, <2>3, <2>4
<1>14. ASSUME NEW arc \in Arcs(g), arc[2] = o[1] PROVE BackEdges(g, o) # {}
  <2>1. SlotOf(o, arc[2]) = 1 /\ SlotOf(o, arc[1]) \in 1..N
    BY <1>1, <1>10, <1>11, <1>12, <1>14
  <2>2. arc \in BackEdges(g, o)
    BY <1>1, <1>9, <2>1
  <2> QED
    BY <2>2
<1>15. ASSUME NEW nodes, Circular(g, nodes) PROVE BackEdges(g, o) # {}
  <2> DEFINE slots == {SlotOf(o, i) : i \in nodes}
  <2>1. slots \subseteq Nat /\ slots # {}
    BY <1>1, <1>11, <1>15 DEF Circular, D
  <2>2. PICK m \in slots : \A k \in slots : m <= k
    BY <2>1, LeastOf
  <2>3. PICK i \in nodes : m = SlotOf(o, i)
    BY <2>2
  <2>4. PICK arc \in Arcs(g) : arc[2] = i /\ arc[1] \in nodes
    BY <1>15, <2>3 DEF Circular
  <2>5. SlotOf(o, arc[2]) <= SlotOf(o, arc[1])
    BY <2>2, <2>3, <2>4
  <2>6. arc \in BackEdges(g, o)
    BY <1>9, <2>5
  <2> QED
    BY <2>6
<1>16. BackEdges(g, o) # {} <=> \/ \E nodes : Circular(g, nodes)
                                \/ \E arc \in Arcs(g) : arc[2] = o[1]
  BY <1>13, <1>14, <1>15
<1> QED
  BY <1>6, <1>7, <1>8, <1>16 DEF o, D, N

-----------------------------------------------------------------------------
(* The operations of a graph *)

\* The nodes of a graph in an order, and where an id stands there.
Ordered(g, o) == [i \in DOMAIN o |-> g.nodes[o[i]]]
IndexIn(ordered, id) == CHOOSE s \in DOMAIN ordered : ordered[s].id = id

\* An order of a graph has every node once.
Orders(g, o) ==
    o \in Seq(DOMAIN g.nodes) /\ Len(o) = Len(g.nodes) /\ Once(o) /\ ToSet(o) = DOMAIN g.nodes

\* So every id stands at one place.
LEMMA IndexIsPlace ==
    ASSUME NEW g, IsGraph(g), NEW o, Orders(g, o)
    PROVE  /\ DOMAIN Ordered(g, o) = 1..Len(o)
           /\ \A s \in 1..Len(o) : /\ Ordered(g, o)[s] = g.nodes[o[s]] /\ o[s] \in DOMAIN g.nodes
                                   /\ IndexIn(Ordered(g, o), Ordered(g, o)[s].id) = s
           /\ {Ordered(g, o)[s].id : s \in 1..Len(o)} = NodeIds(g)
<1> DEFINE ordered == Ordered(g, o)
<1>1. DOMAIN o = 1..Len(o) /\ \A s \in 1..Len(o) : o[s] \in DOMAIN g.nodes
  BY DEF Orders
<1>2. DOMAIN ordered = 1..Len(o) /\ \A s \in 1..Len(o) : ordered[s] = g.nodes[o[s]]
  BY <1>1 DEF Ordered
<1> HIDE DEF ordered
<1>3. Distinct(g.nodes)
  BY GraphIs
<1>4. ASSUME NEW s \in 1..Len(o), NEW t \in 1..Len(o), ordered[s].id = ordered[t].id PROVE s = t
  <2>1. o[s] = o[t]
    BY <1>1, <1>2, <1>3, <1>4 DEF Distinct
  <2> QED
    BY <1>1, <2>1 DEF Orders, Once
<1>5. ASSUME NEW s \in 1..Len(o) PROVE IndexIn(ordered, ordered[s].id) = s
  BY <1>2, <1>4 DEF IndexIn
<1>6. {ordered[s].id : s \in 1..Len(o)} = NodeIds(g)
  <2>1. \A i \in DOMAIN g.nodes : \E s \in 1..Len(o) : o[s] = i
    BY <1>1 DEF Orders, ToSet
  <2> QED
    BY <1>1, <1>2, <2>1 DEF NodeIds
<1> QED
  BY <1>1, <1>2, <1>5, <1>6 DEF ordered

\* The transitions of a node are its edges to nodes of the graph.
LEMMA TransitionsAre ==
    ASSUME NEW g, IsGraph(g), NEW ordered, NEW node
    PROVE  ToSet(Transitions(g, ordered, node)) =
              {[to |-> IndexIn(ordered, e.to), guard |-> e.guard] :
                  e \in {d \in EdgesOf(g) : d.from = node.id /\ d.to \in NodeIds(g)}}
<1> DEFINE kept == {e \in EdgesOf(g) : e.to \in NodeIds(g)}
           out == Outgoing(g, node.id)
           list == Only(out, kept)
           t(e) == [to |-> IndexIn(ordered, e.to), guard |-> e.guard]
<1>1. out \in Seq(EdgesOf(g)) /\ ToSet(out) = {e \in EdgesOf(g) : e.from = node.id}
  BY OnlyPicks, OnlyHas DEF IsGraph, IsList, Outgoing, EdgesOf
<1> HIDE DEF out
<1>2. ToSet(list) = ToSet(out) \cap kept
  BY <1>1, OnlyHas
<1>3. Transitions(g, ordered, node) = [i \in DOMAIN list |-> t(list[i])]
  BY DEF Transitions, MapSeq, IndexIn, out
<1> HIDE DEF list, t
<1>4. ToSet(Transitions(g, ordered, node)) = {t(e) : e \in ToSet(list)}
  BY <1>3 DEF ToSet
<1>5. ToSet(list) = {d \in EdgesOf(g) : d.from = node.id /\ d.to \in NodeIds(g)}
  BY <1>1, <1>2
<1> QED
  BY <1>4, <1>5 DEF t

\* The edges between the operations of a plan.
EdgesIn(operations) ==
    UNION {{<<operations[i].node, operations[t.to].node, t.guard>> : t \in ToSet(operations[i].next)}
           : i \in DOMAIN operations}

\* The operations made of a graph in an order.
OperationsOf(g, o, operations) ==
    /\ DOMAIN operations = DOMAIN o /\ operations = [i \in DOMAIN o |-> operations[i]]
    /\ \A i \in DOMAIN o : /\ operations[i].node = g.nodes[o[i]].id
                           /\ operations[i].next = Transitions(g, Ordered(g, o), g.nodes[o[i]])

\* They have the nodes and the edges of the graph, and without an edge back lead forward only.
LEMMA OperationsAre ==
    ASSUME NEW g, IsGraph(g), NEW o, Orders(g, o), NEW operations, OperationsOf(g, o, operations)
    PROVE  /\ {operations[i].node : i \in DOMAIN operations} = NodeIds(g)
           /\ EdgesIn(operations) = {<<e.from, e.to, e.guard>> :
                                        e \in {d \in EdgesOf(g) : {d.from, d.to} \subseteq NodeIds(g)}}
           /\ BackEdges(g, o) = {} =>
                 \A i \in DOMAIN operations : \A t \in ToSet(operations[i].next) : i < t.to
<1> DEFINE N == Len(o)
           ordered == Ordered(g, o)
           In(i) == {<<operations[i].node, operations[t.to].node, t.guard>> : t \in ToSet(operations[i].next)}
           inside == {d \in EdgesOf(g) : {d.from, d.to} \subseteq NodeIds(g)}
<1>1. DOMAIN o = 1..N /\ N \in Nat
  BY DEF Orders
<1>2. /\ \A s \in 1..N : /\ ordered[s] = g.nodes[o[s]] /\ o[s] \in DOMAIN g.nodes
                         /\ IndexIn(ordered, ordered[s].id) = s
      /\ {ordered[s].id : s \in 1..N} = NodeIds(g)
  BY IndexIsPlace
<1>3. DOMAIN operations = 1..N /\ \A i \in 1..N : operations[i].node = ordered[i].id
  BY <1>1, <1>2 DEF OperationsOf
<1>4. \A i \in 1..N : ToSet(operations[i].next) =
         {[to |-> IndexIn(ordered, e.to), guard |-> e.guard] :
             e \in {d \in EdgesOf(g) : d.from = ordered[i].id /\ d.to \in NodeIds(g)}}
  <2> SUFFICES ASSUME NEW i \in 1..N
               PROVE  ToSet(operations[i].next) =
                         {[to |-> IndexIn(ordered, e.to), guard |-> e.guard] :
                             e \in {d \in EdgesOf(g) : d.from = ordered[i].id /\ d.to \in NodeIds(g)}}
    OBVIOUS
  <2>1. operations[i].next = Transitions(g, ordered, ordered[i])
    BY <1>1, <1>2 DEF OperationsOf
  <2> QED
    BY <2>1, TransitionsAre
<1> HIDE DEF ordered, N
<1>5. {operations[i].node : i \in DOMAIN operations} = NodeIds(g)
  BY <1>2, <1>3
<1>6. ASSUME NEW i \in 1..N, NEW t \in ToSet(operations[i].next)
      PROVE  \E e \in inside : /\ t.to \in 1..N /\ t.to = IndexIn(ordered, e.to) /\ t.guard = e.guard
                               /\ e.from = operations[i].node /\ e.to = operations[t.to].node
  <2>1. PICK e \in EdgesOf(g) : /\ e.from = ordered[i].id /\ e.to \in NodeIds(g)
                                /\ t = [to |-> IndexIn(ordered, e.to), guard |-> e.guard]
    BY <1>4
  <2>2. PICK s \in 1..N : e.to = ordered[s].id
    BY <1>2, <2>1
  <2>3. t.to = s /\ t.guard = e.guard
    BY <1>2, <2>1, <2>2
  <2>4. e.from \in NodeIds(g)
    BY <1>2, <2>1
  <2> QED
    BY <1>2, <1>3, <2>1, <2>2, <2>3, <2>4
<1>7. ASSUME NEW e \in inside
      PROVE  \E i \in 1..N : <<e.from, e.to, e.guard>> \in In(i)
  <2>1. PICK i, s \in 1..N : e.from = ordered[i].id /\ e.to = ordered[s].id
    BY <1>2
  <2> DEFINE t == [to |-> IndexIn(ordered, e.to), guard |-> e.guard]
  <2>2. t.to = s /\ t.guard = e.guard
    BY <1>2, <2>1
  <2>3. t \in ToSet(operations[i].next)
    BY <1>4, <2>1
  <2> HIDE DEF t
  <2>4. <<operations[i].node, operations[t.to].node, t.guard>> \in In(i)
    BY <2>3
  <2>5. <<operations[i].node, operations[t.to].node, t.guard>> = <<e.from, e.to, e.guard>>
    BY <1>3, <2>1, <2>2
  <2> QED
    BY <2>4, <2>5
<1>8. EdgesIn(operations) = {<<e.from, e.to, e.guard>> : e \in inside}
  <2>1. EdgesIn(operations) = UNION {In(i) : i \in 1..N}
    BY <1>3 DEF EdgesIn
  <2>2. ASSUME NEW i \in 1..N, NEW edge \in In(i) PROVE edge \in {<<e.from, e.to, e.guard>> : e \in inside}
    <3>1. PICK t \in ToSet(operations[i].next) :
             edge = <<operations[i].node, operations[t.to].node, t.guard>>
      BY <2>2
    <3>2. PICK e \in inside : /\ t.guard = e.guard /\ e.from = operations[i].node
                              /\ e.to = operations[t.to].node
      BY <1>6
    <3> QED
      BY <3>1, <3>2
  <2> HIDE DEF In, inside
  <2> QED
    BY <1>7, <2>1, <2>2
<1>9. ASSUME BackEdges(g, o) = {}, NEW i \in 1..N, NEW t \in ToSet(operations[i].next)
      PROVE  i < t.to
  <2>1. PICK e \in inside : /\ t.to \in 1..N /\ e.from = operations[i].node
                            /\ e.to = operations[t.to].node
    BY <1>6
  <2> DEFINE s == t.to
  <2>2. s \in 1..N /\ e.from = g.nodes[o[i]].id /\ e.to = g.nodes[o[s]].id
    BY <1>2, <1>3, <2>1
  <2>3. <<o[i], o[s]>> \in Arcs(g)
    BY <1>2, <2>2, ArcsAre
  <2> DEFINE arc == <<o[i], o[s]>>
  <2>4. BackEdges(g, o) = {a \in Arcs(g) : SlotOf(o, a[2]) <= SlotOf(o, a[1])}
    BY DEF BackEdges, SlotOf
  <2>5. ~ (SlotOf(o, arc[2]) <= SlotOf(o, arc[1]))
    BY <1>9, <2>3, <2>4
  <2>6. SlotOf(o, o[i]) = i /\ SlotOf(o, o[s]) = s
    BY <1>1, <2>2, Slots DEF Orders
  <2> HIDE DEF s
  <2>7. ~ (s <= i)
    BY <2>5, <2>6
  <2>8. i < s
    BY <1>1, <2>2, <2>7
  <2> QED
    BY <2>8 DEF s
<1> QED
  BY <1>3, <1>5, <1>8, <1>9

\* An entry that is not disabled stays the entry.
LEMMA EntryStays ==
    ASSUME NEW g, IsGraph(g), NEW import, IsLayer(import), g.entry \notin Gone(g, import)
    PROVE  RemoveDisabled(g, import).entry = g.entry
<1> DEFINE f == Thinned(g, import)
           N == Len(import.disabled)
           S == {k \in Nat : k <= N => f[k].entry = g.entry}
<1>1. N \in Nat
  BY DEF IsLayer, IsList
<1>2. f[0] = g /\ \A k \in 0..N : IsGraph(f[k])
  BY ThinnedRuns
<1>3. \A k \in 1..N : IF import.disabled[k] \in NodeIds(f[k - 1])
                      THEN /\ import.disabled[k] \in Gone(g, import)
                           /\ f[k] = RemoveNode(f[k - 1], import.disabled[k])
                      ELSE f[k] = f[k - 1]
  BY ThinnedStep
<1> HIDE DEF f, N
<1>4. 0 \in S
  BY <1>2
<1>5. ASSUME NEW k \in Nat, k \in S PROVE k + 1 \in S
  <2> SUFFICES ASSUME k + 1 <= N PROVE f[k + 1].entry = g.entry
    OBVIOUS
  <2> DEFINE x == import.disabled[k + 1]
             before == f[k]
  <2>1. IsGraph(before) /\ before.entry = g.entry /\ k + 1 \in 1..N
    BY <1>1, <1>2, <1>5
  <2>2. (k + 1) - 1 = k
    OBVIOUS
  <2>3. CASE x \in NodeIds(before)
    <3>1. x \in Gone(g, import) /\ f[k + 1] = RemoveNode(before, x)
      BY <1>3, <2>1, <2>2, <2>3
    <3> HIDE DEF before, x
    <3>2. RemoveNode(before, x).entry = EntryWithout(before, x)
      BY <2>1, <2>3, Removed
    <3>3. EntryWithout(before, x) = before.entry
      BY <2>1, <3>1 DEF EntryWithout
    <3> QED
      BY <2>1, <3>1, <3>2, <3>3
  <2>4. CASE x \notin NodeIds(before)
    BY <1>3, <2>1, <2>2, <2>4
  <2> QED
    BY <2>3, <2>4
<1>6. N \in S
  <2> HIDE DEF S
  <2> QED
    BY <1>1, <1>4, <1>5, SetInduction
<1>7. RemoveDisabled(g, import) = f[N]
  BY DEF RemoveDisabled, f, N
<1> QED
  BY <1>1, <1>6, <1>7

\* A graph has as many nodes as ids.
LEMMA OneNodePerId ==
    ASSUME NEW g, IsGraph(g)
    PROVE  IsFiniteSet(NodeIds(g)) /\ Cardinality(NodeIds(g)) = Len(g.nodes)
<1> DEFINE N == Len(g.nodes)
           id == [i \in 1..N |-> g.nodes[i].id]
<1>1. N \in Nat /\ DOMAIN g.nodes = 1..N
  BY DEF IsGraph, IsList
<1>2. Distinct(g.nodes)
  BY GraphIs
<1> HIDE DEF N
<1>3. id \in Bijection(1..N, NodeIds(g))
  <2>1. id \in [1..N -> NodeIds(g)] /\ \A y \in NodeIds(g) : \E i \in 1..N : id[i] = y
    BY <1>1 DEF NodeIds
  <2>2. \A i, j \in 1..N : id[i] = id[j] => i = j
    BY <1>1, <1>2 DEF Distinct
  <2> HIDE DEF id
  <2>3. id \in Injection(1..N, NodeIds(g))
    BY <2>1, <2>2 DEF Injection, IsInjective
  <2>4. id \in Surjection(1..N, NodeIds(g))
    BY <2>1 DEF Surjection
  <2> QED
    BY <2>3, <2>4 DEF Bijection
<1>4. IsFiniteSet(1..N) /\ Cardinality(1..N) = N
  BY <1>1, FS_Interval
<1>5. ExistsBijection(1..N, NodeIds(g))
  BY <1>3 DEF ExistsBijection
<1>6. Cardinality(1..N) = Cardinality(NodeIds(g)) /\ IsFiniteSet(NodeIds(g))
  BY <1>4, <1>5, FS_Bijection
<1> QED
  BY <1>4, <1>6 DEF N

\* The edges between the operations are the arcs of the graph.
LEMMA EdgesAreArcs ==
    ASSUME NEW g, IsGraph(g), NEW o, Orders(g, o), NEW operations, OperationsOf(g, o, operations)
    PROVE  /\ \A x \in EdgesIn(operations) : \E a, b \in DOMAIN g.nodes :
                 <<a, b>> \in Arcs(g) /\ x[1] = g.nodes[a].id /\ x[2] = g.nodes[b].id
           /\ \A a, b : <<a, b>> \in Arcs(g) => \E x \in EdgesIn(operations) :
                 x[1] = g.nodes[a].id /\ x[2] = g.nodes[b].id
<1> DEFINE inside == {d \in EdgesOf(g) : {d.from, d.to} \subseteq NodeIds(g)}
<1>1. EdgesIn(operations) = {<<e.from, e.to, e.guard>> : e \in inside}
  BY OperationsAre
<1>2. ASSUME NEW x \in EdgesIn(operations)
      PROVE  \E a, b \in DOMAIN g.nodes :
                <<a, b>> \in Arcs(g) /\ x[1] = g.nodes[a].id /\ x[2] = g.nodes[b].id
  <2>1. PICK e \in inside : x = <<e.from, e.to, e.guard>>
    BY <1>1
  <2>2. PICK a, b \in DOMAIN g.nodes : e.from = g.nodes[a].id /\ e.to = g.nodes[b].id
    BY <2>1 DEF NodeIds
  <2>3. <<a, b>> \in Arcs(g)
    BY <2>1, <2>2, ArcsAre
  <2> QED
    BY <2>1, <2>2, <2>3
<1>3. ASSUME NEW a, NEW b, <<a, b>> \in Arcs(g)
      PROVE  \E x \in EdgesIn(operations) : x[1] = g.nodes[a].id /\ x[2] = g.nodes[b].id
  <2>1. PICK e \in EdgesOf(g) : /\ a \in DOMAIN g.nodes /\ e.from = g.nodes[a].id
                                /\ b \in DOMAIN g.nodes /\ e.to = g.nodes[b].id
    BY <1>3, ArcsAre
  <2>2. e \in inside
    BY <2>1 DEF NodeIds
  <2> DEFINE x == <<e.from, e.to, e.guard>>
  <2>3. x \in EdgesIn(operations) /\ x[1] = e.from /\ x[2] = e.to
    BY <1>1, <2>2
  <2> QED
    BY <2>1, <2>3
<1> QED
  BY <1>2, <1>3

\* Some ends of edges that each have one of them before it.
CircularIds(edges, ids) ==
    ids # {} /\ \A id \in ids : \E e \in edges : e[2] = id /\ e[1] \in ids

\* A circle of nodes is a circle of ids.
LEMMA CirclesAre ==
    ASSUME NEW g, IsGraph(g), NEW o, Orders(g, o), NEW operations, OperationsOf(g, o, operations)
    PROVE  (\E nodes : Circular(g, nodes)) <=> \E ids : CircularIds(EdgesIn(operations), ids)
<1> DEFINE edges == EdgesIn(operations)
           D == DOMAIN g.nodes
<1>1. /\ \A x \in edges : \E a, b \in D :
            <<a, b>> \in Arcs(g) /\ x[1] = g.nodes[a].id /\ x[2] = g.nodes[b].id
      /\ \A a, b : <<a, b>> \in Arcs(g) => \E x \in edges :
            x[1] = g.nodes[a].id /\ x[2] = g.nodes[b].id
  BY EdgesAreArcs
<1>2. \A arc \in Arcs(g) : arc = <<arc[1], arc[2]>> /\ arc[1] \in D /\ arc[2] \in D
  BY ArcsArePairs
<1>3. \A i, j \in D : g.nodes[i].id = g.nodes[j].id => i = j
  BY GraphIs DEF Distinct
<1> HIDE DEF edges, D
<1>4. ASSUME NEW nodes, Circular(g, nodes) PROVE \E ids : CircularIds(edges, ids)
  <2> DEFINE ids == {g.nodes[i].id : i \in nodes}
  <2>1. ids # {} /\ nodes \subseteq D
    BY <1>4 DEF Circular, D
  <2>2. ASSUME NEW i \in nodes
        PROVE  \E e \in edges : e[2] = g.nodes[i].id /\ e[1] \in ids
    <3>1. PICK arc \in Arcs(g) : arc[2] = i /\ arc[1] \in nodes
      BY <1>4 DEF Circular
    <3>2. <<arc[1], i>> \in Arcs(g)
      BY <1>2, <3>1
    <3>3. PICK x \in edges : x[1] = g.nodes[arc[1]].id /\ x[2] = g.nodes[i].id
      BY <1>1, <3>2
    <3> QED
      BY <3>1, <3>3
  <2>3. CircularIds(edges, ids)
    BY <2>1, <2>2 DEF CircularIds
  <2> QED
    BY <2>3
<1>5. ASSUME NEW ids, CircularIds(edges, ids) PROVE \E nodes : Circular(g, nodes)
  <2> DEFINE nodes == {i \in D : g.nodes[i].id \in ids}
  <2>1. \A id \in ids : \E e \in edges : e[2] = id /\ e[1] \in ids
    BY <1>5 DEF CircularIds
  <2>2. ASSUME NEW id \in ids
        PROVE  \E i \in nodes, a \in nodes : <<a, i>> \in Arcs(g) /\ g.nodes[i].id = id
    <3>1. PICK e \in edges : e[2] = id /\ e[1] \in ids
      BY <2>1
    <3>2. PICK a, b \in D : <<a, b>> \in Arcs(g) /\ e[1] = g.nodes[a].id /\ e[2] = g.nodes[b].id
      BY <1>1
    <3> QED
      BY <3>1, <3>2
  <2>3. nodes # {}
    BY <1>5, <2>2 DEF CircularIds
  <2>4. ASSUME NEW i \in nodes PROVE \E arc \in Arcs(g) : arc[2] = i /\ arc[1] \in nodes
    <3>1. PICK j \in nodes, a \in nodes : <<a, j>> \in Arcs(g) /\ g.nodes[j].id = g.nodes[i].id
      BY <2>2
    <3>2. j = i
      BY <1>3, <3>1
    <3>3. <<a, i>> \in Arcs(g) /\ <<a, i>>[1] = a /\ <<a, i>>[2] = i
      BY <3>1, <3>2
    <3> QED
      BY <3>1, <3>3
  <2>5. Circular(g, nodes)
    BY <2>3, <2>4 DEF Circular, D
  <2> QED
    BY <2>5
<1> QED
  BY <1>4, <1>5 DEF edges

\* An arc to a node is an edge to its operation.
LEMMA EdgesTo ==
    ASSUME NEW g, IsGraph(g), NEW o, Orders(g, o), NEW operations, OperationsOf(g, o, operations),
           NEW i \in DOMAIN g.nodes
    PROVE  (\E arc \in Arcs(g) : arc[2] = i) <=>
               \E e \in EdgesIn(operations) : e[2] = g.nodes[i].id
<1> DEFINE edges == EdgesIn(operations)
<1>1. /\ \A x \in edges : \E a, b \in DOMAIN g.nodes :
            <<a, b>> \in Arcs(g) /\ x[1] = g.nodes[a].id /\ x[2] = g.nodes[b].id
      /\ \A a, b : <<a, b>> \in Arcs(g) => \E x \in edges :
            x[1] = g.nodes[a].id /\ x[2] = g.nodes[b].id
  BY EdgesAreArcs
<1>2. \A arc \in Arcs(g) : arc = <<arc[1], arc[2]>>
  BY ArcsArePairs
<1>3. \A k, j \in DOMAIN g.nodes : g.nodes[k].id = g.nodes[j].id => k = j
  BY GraphIs DEF Distinct
<1> HIDE DEF edges
<1>4. ASSUME NEW arc \in Arcs(g), arc[2] = i PROVE \E e \in edges : e[2] = g.nodes[i].id
  <2>1. <<arc[1], i>> \in Arcs(g)
    BY <1>2, <1>4
  <2> QED
    BY <1>1, <2>1
<1>5. ASSUME NEW e \in edges, e[2] = g.nodes[i].id PROVE \E arc \in Arcs(g) : arc[2] = i
  <2>1. PICK a, b \in DOMAIN g.nodes : <<a, b>> \in Arcs(g) /\ e[2] = g.nodes[b].id
    BY <1>1
  <2>2. b = i
    BY <1>3, <1>5, <2>1
  <2>3. <<a, b>>[2] = b
    OBVIOUS
  <2> QED
    BY <2>1, <2>2, <2>3
<1> QED
  BY <1>4, <1>5 DEF edges

\* The plan of a graph, in the order of the code.
LEMMA OrderFollows ==
    ASSUME NEW g, IsGraph(g), g.nodes # <<>>, NEW operations,
           OperationsOf(g, TopologicalOrder(g), operations)
    PROVE  LET edges == EdgesIn(operations) IN
           /\ Orders(g, TopologicalOrder(g))
           /\ {operations[i].node : i \in DOMAIN operations} = NodeIds(g)
           /\ DOMAIN operations = 1..Cardinality(NodeIds(g)) /\ Cardinality(NodeIds(g)) \in Nat
           /\ g.entry \in NodeIds(g) => operations[1].node = g.entry
           /\ BackEdges(g, TopologicalOrder(g)) # {} <=>
                 \/ \E ids : CircularIds(edges, ids)
                 \/ \E e \in edges : e[2] = operations[1].node
           /\ BackEdges(g, TopologicalOrder(g)) = {} =>
                 \A i \in DOMAIN operations : \A t \in ToSet(operations[i].next) : i < t.to
<1> DEFINE o == TopologicalOrder(g)
           edges == EdgesIn(operations)
           N == Len(g.nodes)
<1>1. /\ BackEdges(g, o) # {} <=> \/ \E nodes : Circular(g, nodes)
                                  \/ \E arc \in Arcs(g) : arc[2] = o[1]
      /\ Orders(g, o)
      /\ g.entry \in NodeIds(g) => g.nodes[o[1]].id = g.entry
  BY NoEdgeBack DEF Orders
<1>2. OperationsOf(g, o, operations)
  OBVIOUS
<1>3. N \in Nat /\ N # 0 /\ DOMAIN g.nodes = 1..N
  BY DEF IsGraph, IsList
<1> HIDE DEF o, N
<1>4. DOMAIN o = 1..N /\ Len(o) = N
  BY <1>1, <1>3 DEF Orders, N
<1>5. /\ {operations[i].node : i \in DOMAIN operations} = NodeIds(g)
      /\ BackEdges(g, o) = {} =>
            \A i \in DOMAIN operations : \A t \in ToSet(operations[i].next) : i < t.to
  BY <1>1, <1>2, OperationsAre
<1>6. Cardinality(NodeIds(g)) = N /\ DOMAIN operations = 1..N
  <2>1. DOMAIN operations = DOMAIN o
    BY <1>2 DEF OperationsOf
  <2> QED
    BY <1>4, <2>1, OneNodePerId DEF N
<1>7. operations[1].node = g.nodes[o[1]].id /\ o[1] \in DOMAIN g.nodes
  <2>1. 1 \in DOMAIN o
    BY <1>3, <1>4
  <2>2. o[1] \in DOMAIN g.nodes
    BY <1>1, <2>1 DEF Orders
  <2>3. operations[1].node = g.nodes[o[1]].id
    BY <1>2, <2>1 DEF OperationsOf
  <2> QED
    BY <2>2, <2>3
<1>8. (\E nodes : Circular(g, nodes)) <=> \E ids : CircularIds(edges, ids)
  BY <1>1, <1>2, CirclesAre
<1>9. (\E arc \in Arcs(g) : arc[2] = o[1]) <=> \E e \in edges : e[2] = operations[1].node
  BY <1>1, <1>2, <1>7, EdgesTo
<1> QED
  BY <1>1, <1>3, <1>5, <1>6, <1>7, <1>8, <1>9 DEF o

-----------------------------------------------------------------------------
(* The plan of a graph under a layer *)

\* The plan of a graph under a layer has the nodes that are not disabled,
LEMMA LayerKeeps ==
    ASSUME NEW g, IsGraph(g), NEW import, IsLayer(import), Layered(g, import).nodes # <<>>,
           NEW operations, OperationsOf(Layered(g, import), TopologicalOrder(Layered(g, import)), operations)
    PROVE  LET kept == NodeIds(g) \ Gone(g, import) IN
           /\ {operations[i].node : i \in DOMAIN operations} = kept
           /\ DOMAIN operations = 1..Cardinality(kept) /\ Cardinality(kept) \in Nat
           /\ g.entry \in kept => operations[1].node = g.entry
           /\ Unbranched(EdgesOf(g)) => \A node \in kept, n \in Nat :
                 g.entry \in LeadingTo(EdgesOf(g), Gone(g, import), node)[n] => operations[1].node = node
<1> DEFINE patched == ApplyOverrides(g, import)
           h == Layered(g, import)
           kept == NodeIds(g) \ Gone(g, import)
<1>1. /\ IsGraph(patched) /\ patched.entry = g.entry
      /\ h = RemoveDisabled(patched, import)
      /\ Gone(patched, import) = Gone(g, import) /\ EdgesOf(patched) = EdgesOf(g)
      /\ IsGraph(h) /\ NodeIds(h) = kept
  BY LayerLeaves DEF SameShape
<1>2. h.nodes # <<>> /\ OperationsOf(h, TopologicalOrder(h), operations)
  OBVIOUS
<1> HIDE DEF patched, h, kept
<1>3. /\ {operations[i].node : i \in DOMAIN operations} = NodeIds(h)
      /\ DOMAIN operations = 1..Cardinality(NodeIds(h)) /\ Cardinality(NodeIds(h)) \in Nat
      /\ h.entry \in NodeIds(h) => operations[1].node = h.entry
  BY <1>1, <1>2, OrderFollows
<1>4. ASSUME g.entry \in kept PROVE h.entry = g.entry
  BY <1>1, <1>4, EntryStays DEF kept
<1>5. ASSUME Unbranched(EdgesOf(g)), NEW node \in kept, NEW n \in Nat,
             g.entry \in LeadingTo(EdgesOf(g), Gone(g, import), node)[n]
      PROVE  h.entry = node
  <2>1. patched.entry \in LeadingTo(EdgesOf(patched), Gone(patched, import), node)[n]
    BY <1>1, <1>5
  <2>2. Unbranched(EdgesOf(patched)) /\ node \notin Gone(patched, import)
    BY <1>1, <1>5 DEF kept
  <2> QED
    BY <1>1, <2>1, <2>2, EntryFollows
<1> QED
  BY <1>1, <1>3, <1>4, <1>5 DEF kept

\* and leads from one to the other where the graph does by way of disabled nodes.
LEMMA LayerLeads ==
    ASSUME NEW g, IsGraph(g), NEW import, IsLayer(import), Layered(g, import).nodes # <<>>,
           NEW operations, OperationsOf(Layered(g, import), TopologicalOrder(Layered(g, import)), operations)
    PROVE  LET gone == Gone(g, import)
               kept == NodeIds(g) \ gone
           IN  /\ \A n \in Nat : \A w \in SimpleWays(EdgesOf(g), gone)[n] :
                     {w.from, w.to} \subseteq kept => <<w.from, w.to, w.guard>> \in EdgesIn(operations)
               /\ \A x \in EdgesIn(operations) :
                     \E w \in AllWays(EdgesOf(g), gone)[Len(import.disabled)] :
                        {w.from, w.to} \subseteq kept /\ x = <<w.from, w.to, w.guard>>
<1> DEFINE patched == ApplyOverrides(g, import)
           h == Layered(g, import)
           gone == Gone(g, import)
           kept == NodeIds(g) \ gone
           N == Len(import.disabled)
           edges == EdgesIn(operations)
<1>1. /\ IsGraph(patched)
      /\ h = RemoveDisabled(patched, import)
      /\ Gone(patched, import) = gone /\ EdgesOf(patched) = EdgesOf(g)
      /\ IsGraph(h) /\ NodeIds(h) = kept
  BY LayerLeaves
<1>2. h.nodes # <<>> /\ OperationsOf(h, TopologicalOrder(h), operations)
  OBVIOUS
<1>3. N \in Nat
  BY DEF IsLayer, IsList
<1> HIDE DEF patched, h, gone, kept, N
<1>4. Orders(h, TopologicalOrder(h))
  BY <1>1, <1>2, OrderFollows
<1>5. EdgesIn(operations) = {<<e.from, e.to, e.guard>> :
                                e \in {d \in EdgesOf(h) : {d.from, d.to} \subseteq NodeIds(h)}}
  BY <1>1, <1>2, <1>4, OperationsAre
<1> HIDE DEF edges
<1>6. ASSUME NEW n \in Nat, NEW w \in SimpleWays(EdgesOf(g), gone)[n], {w.from, w.to} \subseteq kept
      PROVE  <<w.from, w.to, w.guard>> \in edges
  <2>1. w \in SimpleWays(EdgesOf(patched), Gone(patched, import))[n]
    BY <1>1, <1>6
  <2>2. w.from \notin Gone(patched, import) /\ w.to \notin Gone(patched, import)
    BY <1>1, <1>6 DEF kept
  <2>3. PICK e \in EdgesOf(RemoveDisabled(patched, import)) :
           e.from = w.from /\ e.to = w.to /\ e.guard = w.guard
    BY <1>1, <2>1, <2>2, NoWayIsCut
  <2>4. e \in EdgesOf(h) /\ {e.from, e.to} \subseteq NodeIds(h)
    BY <1>1, <1>6, <2>3
  <2>5. <<e.from, e.to, e.guard>> \in edges
    BY <1>5, <2>4 DEF edges
  <2> QED
    BY <2>3, <2>5
<1>7. ASSUME NEW x \in edges
      PROVE  \E w \in AllWays(EdgesOf(g), gone)[N] : {w.from, w.to} \subseteq kept /\ x = <<w.from, w.to, w.guard>>
  <2>1. PICK e \in EdgesOf(h) : {e.from, e.to} \subseteq NodeIds(h) /\ x = <<e.from, e.to, e.guard>>
    BY <1>5, <1>7 DEF edges
  <2>2. h = Thinned(patched, import)[N] /\ N \in 0..N
    BY <1>1, <1>3 DEF RemoveDisabled, N
  <2>3. \A d \in EdgesOf(Thinned(patched, import)[N]) :
           Plain(d) \in AllWays(EdgesOf(patched), Gone(patched, import))[N]
    BY <1>1, <2>2, NoWayIsInvented DEF N
  <2>4. Plain(e) \in AllWays(EdgesOf(g), gone)[N]
    BY <1>1, <2>1, <2>2, <2>3
  <2> DEFINE w == Plain(e)
  <2>5. w.from = e.from /\ w.to = e.to /\ w.guard = e.guard
    BY DEF Plain
  <2> HIDE DEF w
  <2>6. w \in AllWays(EdgesOf(g), gone)[N]
    BY <2>4 DEF w
  <2>7. {w.from, w.to} \subseteq kept /\ x = <<w.from, w.to, w.guard>>
    BY <1>1, <2>1, <2>5
  <2> QED
    BY <2>6, <2>7
<1> QED
  BY <1>6, <1>7 DEF gone, kept, N, edges

-----------------------------------------------------------------------------
(* Imports *)

\* The campaigns of a library and the campaign to resolve, and what flattening does to one of them.
Campaigns(lib, author) == {author} \cup {lib[id] : id \in DOMAIN lib}
CampaignIds(lib, author) == {d.id : d \in Campaigns(lib, author)}
Opened(lib, f, c, above) ==
    IF c.id \in above THEN InCircle
    ELSE Gathered(c, [i \in DOMAIN c.imports |->
             Brought(lib, c.imports[i], f[<<lib[c.imports[i].campaign], above \cup {c.id}>>])])

\* It looks at what is imported only, one campaign deeper.
LEMMA OpenedLooks ==
    ASSUME NEW lib, NEW author, NEW f, NEW h, NEW c, NEW above,
           c.id \notin above => \A d \in Campaigns(lib, author) :
               f[<<d, above \cup {c.id}>>] = h[<<d, above \cup {c.id}>>]
    PROVE  Opened(lib, f, c, above) = Opened(lib, h, c, above)
<1>1. CASE c.id \in above
  BY <1>1 DEF Opened
<1>2. CASE c.id \notin above
  <2> DEFINE import(i) == c.imports[i]
             deeper == above \cup {c.id}
             parts(g) == [i \in DOMAIN c.imports |-> Brought(lib, import(i), g[<<lib[import(i).campaign], deeper>>])]
  <2>1. ASSUME NEW i \in DOMAIN c.imports
        PROVE  Brought(lib, import(i), f[<<lib[import(i).campaign], deeper>>])
                  = Brought(lib, import(i), h[<<lib[import(i).campaign], deeper>>])
    <3>1. CASE import(i).campaign \notin DOMAIN lib
      BY <3>1 DEF Brought
    <3>2. CASE import(i).campaign \in DOMAIN lib
      <4>1. lib[import(i).campaign] \in Campaigns(lib, author)
        BY <3>2 DEF Campaigns
      <4>2. f[<<lib[import(i).campaign], deeper>>] = h[<<lib[import(i).campaign], deeper>>]
        BY <1>2, <4>1
      <4> QED
        BY <4>2
    <3> QED
      BY <3>1, <3>2
  <2>2. parts(f) = parts(h)
    BY <2>1
  <2>3. Opened(lib, f, c, above) = Gathered(c, parts(f)) /\ Opened(lib, h, c, above) = Gathered(c, parts(h))
    BY <1>2 DEF Opened
  <2> HIDE DEF parts
  <2> QED
    BY <2>2, <2>3
<1> QED
  BY <1>1, <1>2

\* Flattening comes to an end, whatever imports what.
LEMMA FlatteningRuns ==
    ASSUME NEW lib, IsFiniteSet(DOMAIN lib), NEW author
    PROVE  \E flat : /\ Flatten(lib, author) = flat[<<author, {}>>]
                     /\ \A c \in Campaigns(lib, author), above \in SUBSET CampaignIds(lib, author) :
                           flat[<<c, above>>] = Opened(lib, flat, c, above)
<1> DEFINE Every == Campaigns(lib, author)
           Known == CampaignIds(lib, author)
           Open(f) == [at \in Every \X SUBSET Known |-> Opened(lib, f, at[1], at[2])]
           Is(f) == f = Open(f)
           K == Cardinality(Known)
           Done(F, n) == \A k \in 1..n : F[k] = Open(F[k - 1])
           T == {n \in Nat : \E F : Done(F, n)}
<1>1. Flatten(lib, author) = (CHOOSE f : Is(f))[<<author, {}>>]
  BY DEF Flatten, Campaigns, CampaignIds, Opened
<1>2. IsFiniteSet(Known) /\ K \in Nat
  <2> DEFINE others == {lib[id].id : id \in DOMAIN lib}
             ids == [id \in DOMAIN lib |-> lib[id].id]
  <2>1. ids \in Surjection(DOMAIN lib, others)
    BY DEF Surjection
  <2>2. IsFiniteSet(others)
    BY <2>1, FS_Surjection
  <2>3. Known = others \cup {author.id}
    BY DEF CampaignIds, Campaigns
  <2>4. IsFiniteSet(Known)
    BY <2>2, <2>3, FS_AddElement
  <2> QED
    BY <2>4, FS_CardinalityType
<1>3. \A c \in Every : c.id \in Known
  BY DEF CampaignIds
<1>4. author \in Every /\ {} \in SUBSET Known
  BY DEF Campaigns
<1>5. ASSUME NEW f, NEW c \in Every, NEW above \in SUBSET Known
      PROVE  Open(f)[<<c, above>>] = Opened(lib, f, c, above)
  OBVIOUS
<1>6. ASSUME NEW f, NEW h,
             \A c \in Every, above \in SUBSET Known : Opened(lib, f, c, above) = Opened(lib, h, c, above)
      PROVE  Open(f) = Open(h)
  BY <1>6
<1> HIDE DEF Every, Known, Open, K
<1>7. 0 \in T
  OBVIOUS
<1>8. ASSUME NEW n \in Nat, n \in T PROVE n + 1 \in T
  <2>1. PICK F : Done(F, n)
    BY <1>8
  <2> DEFINE next == Open(F[n])
             H == [k \in 0..(n + 1) |-> IF k = n + 1 THEN next ELSE F[k]]
  <2> HIDE DEF next
  <2>2. \A k \in 0..n : H[k] = F[k]
    OBVIOUS
  <2>3. H[n + 1] = next
    OBVIOUS
  <2> HIDE DEF H
  <2>4. ASSUME NEW k \in 1..(n + 1) PROVE H[k] = Open(H[k - 1])
    <3>1. CASE k = n + 1
      <4>1. k - 1 = n /\ H[n] = F[n]
        BY <2>2, <3>1
      <4> QED
        BY <2>3, <3>1, <4>1 DEF next
    <3>2. CASE k # n + 1
      <4>1. k \in 1..n /\ k - 1 \in 0..n /\ k \in 0..n
        BY <3>2
      <4> QED
        BY <2>1, <2>2, <4>1
    <3> QED
      BY <3>1, <3>2
  <2>5. Done(H, n + 1)
    BY <2>4
  <2> QED
    BY <2>5
<1>9. PICK F : Done(F, K + 2)
  <2> HIDE DEF T
  <2>1. Nat \subseteq T
    BY <1>7, <1>8, SetInduction
  <2>2. K + 2 \in T
    BY <1>2, <2>1
  <2> QED
    BY <2>2 DEF T
<1> DEFINE Deep(above) == Cardinality(Known \ above)
           S == {n \in Nat : n <= K + 1 => \A c \in Every, above \in SUBSET Known :
                                Deep(above) < n => F[n][<<c, above>>] = F[n + 1][<<c, above>>]}
<1>10. ASSUME NEW above \in SUBSET Known PROVE Deep(above) \in Nat /\ Deep(above) <= K
  <2>1. IsFiniteSet(Known \ above) /\ Cardinality(Known \ above) <= Cardinality(Known)
    BY <1>2, FS_Subset
  <2> QED
    BY <2>1, FS_CardinalityType DEF K
<1>11. ASSUME NEW above \in SUBSET Known, NEW x \in Known \ above
       PROVE  Deep(above \cup {x}) = Deep(above) - 1 /\ above \cup {x} \in SUBSET Known
  <2>1. IsFiniteSet(Known \ above)
    BY <1>2, FS_Subset
  <2>2. Cardinality((Known \ above) \ {x}) = Cardinality(Known \ above) - 1
    BY <2>1, FS_RemoveElement
  <2>3. Known \ (above \cup {x}) = (Known \ above) \ {x}
    OBVIOUS
  <2> QED
    BY <2>2, <2>3
<1> HIDE DEF Deep
<1>12. 0 \in S
  BY <1>10
<1>13. ASSUME NEW n \in Nat, n \in S PROVE n + 1 \in S
  <2> SUFFICES ASSUME n + 1 <= K + 1, NEW c \in Every, NEW above \in SUBSET Known, Deep(above) < n + 1
               PROVE  F[n + 1][<<c, above>>] = F[n + 2][<<c, above>>]
    BY <1>13
  <2>1. F[n + 1] = Open(F[n]) /\ F[n + 2] = Open(F[n + 1])
    <3>1. n + 1 \in 1..(K + 2) /\ n + 2 \in 1..(K + 2) /\ (n + 1) - 1 = n /\ (n + 2) - 1 = n + 1
      BY <1>2
    <3> QED
      BY <1>9, <3>1
  <2>2. c.id \notin above => \A d \in Every : F[n][<<d, above \cup {c.id}>>] = F[n + 1][<<d, above \cup {c.id}>>]
    <3> SUFFICES ASSUME c.id \notin above, NEW d \in Every
                 PROVE  F[n][<<d, above \cup {c.id}>>] = F[n + 1][<<d, above \cup {c.id}>>]
      OBVIOUS
    <3>1. Deep(above \cup {c.id}) = Deep(above) - 1 /\ above \cup {c.id} \in SUBSET Known
      BY <1>3, <1>11
    <3>2. Deep(above \cup {c.id}) < n
      BY <1>10, <3>1
    <3>3. \A e \in Every, a \in SUBSET Known : Deep(a) < n => F[n][<<e, a>>] = F[n + 1][<<e, a>>]
      BY <1>2, <1>13
    <3> DEFINE deeper == above \cup {c.id}
    <3> HIDE DEF deeper
    <3> QED
      BY <3>1, <3>2, <3>3 DEF deeper
  <2>3. Opened(lib, F[n], c, above) = Opened(lib, F[n + 1], c, above)
    BY <2>2, OpenedLooks DEF Every
  <2> QED
    BY <1>5, <2>1, <2>3
<1>14. K + 1 \in S
  <2> HIDE DEF S
  <2> QED
    BY <1>2, <1>12, <1>13, SetInduction
<1> DEFINE flat == F[K + 1]
<1>15. flat = Open(F[K]) /\ F[K + 2] = Open(flat)
  <2>1. K + 1 \in 1..(K + 2) /\ K + 2 \in 1..(K + 2) /\ (K + 1) - 1 = K /\ (K + 2) - 1 = K + 1
    BY <1>2
  <2> QED
    BY <1>9, <2>1
<1>16. \A c \in Every, above \in SUBSET Known : flat[<<c, above>>] = Opened(lib, flat, c, above)
  <2> SUFFICES ASSUME NEW c \in Every, NEW above \in SUBSET Known
               PROVE  flat[<<c, above>>] = Opened(lib, flat, c, above)
    OBVIOUS
  <2>1. Deep(above) < K + 1
    BY <1>2, <1>10
  <2>2. flat[<<c, above>>] = F[K + 2][<<c, above>>]
    BY <1>2, <1>14, <2>1
  <2> QED
    BY <1>5, <1>15, <2>2
<1> HIDE DEF flat
<1>17. Is(flat)
  <2>1. \A c \in Every, above \in SUBSET Known : Opened(lib, F[K], c, above) = Opened(lib, flat, c, above)
    BY <1>5, <1>15, <1>16
  <2>2. Open(F[K]) = Open(flat)
    BY <1>6, <2>1
  <2> QED
    BY <1>15, <2>2
<1>18. PICK h : h = (CHOOSE f : Is(f))
  OBVIOUS
<1>19. Is(h)
  BY <1>17, <1>18
<1>20. \A c \in Every, above \in SUBSET Known : h[<<c, above>>] = Opened(lib, h, c, above)
  BY <1>5, <1>19
<1> QED
  BY <1>1, <1>18, <1>20 DEF Every, Known

\* Empty lists joined are empty,
LEMMA FlattenNone ==
    ASSUME NEW ss, NEW n \in Nat, DOMAIN ss = 1..n, ss = [i \in 1..n |-> ss[i]], \A i \in 1..n : ss[i] = <<>>
    PROVE  FlattenSeq(ss) = <<>>
<1>1. ss \in Seq(Seq({}))
  <2>1. \A i \in 1..n : ss[i] \in Seq({})
    BY EmptySeq
  <2> QED
    BY <2>1
<1>2. FlattenSeq(ss) \in Seq({})
  BY <1>1, FlattenHas
<1> DEFINE s == FlattenSeq(ss)
<1> HIDE DEF s
<1>3. s \in Seq({})
  BY <1>2 DEF s
<1>4. Len(s) = 0
  BY <1>3
<1>5. s = <<>>
  BY <1>3, <1>4, EmptySeq
<1> QED
  BY <1>5 DEF s

\* and one list joined is the list.
LEMMA FlattenOne ==
    ASSUME NEW s
    PROVE  FlattenSeq(<<s>>) = s
<1> DEFINE ss == <<s>>
           Is(g) == g = [i \in 1..1 |-> IF i = 1 THEN ss[i] ELSE g[i - 1] \o ss[i]]
           t == [i \in 1..1 |-> s]
<1>1. Len(ss) = 1 /\ ss[1] = s
  OBVIOUS
<1> HIDE DEF ss
<1>2. Is(t)
  <2>1. \A i \in 1..1 : s = IF i = 1 THEN ss[i] ELSE t[i - 1] \o ss[i]
    BY <1>1
  <2> QED
    BY <2>1
<1> HIDE DEF t
<1>3. PICK h : h = (CHOOSE g : Is(g))
  OBVIOUS
<1>4. Is(h)
  BY <1>2, <1>3
<1>5. FlattenSeq(ss) = h[1]
  BY <1>1, <1>3 DEF FlattenSeq
<1>6. h[1] = s
  BY <1>1, <1>4
<1> QED
  BY <1>5, <1>6 DEF ss

\* What a campaign gathers from imports that bring no graphs are its own,
LEMMA GatheredNone ==
    ASSUME NEW c, IsCampaign(c), NEW n \in Nat, NEW parts, parts = [i \in 1..n |-> parts[i]],
           \A i \in 1..n : parts[i].graphs = <<>>
    PROVE  Gathered(c, parts).graphs = c.graphs
<1> DEFINE brought == [i \in 1..n |-> parts[i].graphs]
           flat == FlattenSeq(brought)
<1>1. Gathered(c, parts).graphs = flat \o c.graphs
  <2>1. DOMAIN parts = 1..n
    OBVIOUS
  <2>2. MapSeq(parts, LAMBDA p : p.graphs) = brought
    BY <2>1 DEF MapSeq
  <2> HIDE DEF brought
  <2> QED
    BY <2>2 DEF Gathered
<1>2. flat = <<>>
  <2>1. DOMAIN brought = 1..n /\ brought = [i \in 1..n |-> brought[i]] /\ \A i \in 1..n : brought[i] = <<>>
    OBVIOUS
  <2> HIDE DEF brought
  <2> QED
    BY <2>1, FlattenNone
<1>3. <<>> \o c.graphs = c.graphs
  BY ConcatEmptySeq DEF IsCampaign, IsList
<1> HIDE DEF flat
<1> QED
  BY <1>1, <1>2, <1>3

\* and from one import, what it brings and its own.
LEMMA GatheredOne ==
    ASSUME NEW c, NEW parts, parts = [i \in 1..1 |-> parts[i]]
    PROVE  Gathered(c, parts).graphs = parts[1].graphs \o c.graphs
<1> DEFINE brought == [i \in 1..1 |-> parts[i].graphs]
           s == parts[1].graphs
<1>1. MapSeq(parts, LAMBDA p : p.graphs) = brought
  <2>1. DOMAIN parts = 1..1
    OBVIOUS
  <2> QED
    BY <2>1 DEF MapSeq
<1>2. brought = <<s>>
  OBVIOUS
<1>3. FlattenSeq(<<s>>) = s
  BY FlattenOne
<1>4. Gathered(c, parts).graphs = FlattenSeq(brought) \o c.graphs
  <2> HIDE DEF brought
  <2> QED
    BY <1>1 DEF Gathered
<1> HIDE DEF brought
<1> QED
  BY <1>2, <1>3, <1>4

\* It gathers their notes.
LEMMA GatheredNotes ==
    ASSUME NEW c, NEW parts, \A i \in DOMAIN parts : AreNotes(parts[i].notes)
    PROVE  AreNotes(Gathered(c, parts).notes)
<1>1. Gathered(c, parts).notes = UNION {parts[i].notes : i \in DOMAIN parts}
  BY DEF Gathered, All
<1> QED
  BY <1>1 DEF AreNotes

\* A layer leaves notes.
LEMMA LayerNotesAreNotes == ASSUME NEW g, NEW import PROVE AreNotes(LayerNotes(g, import))
<1>1. \A s : AreNotes({Warning("override.unknown_node") : o \in s})
         /\ AreNotes({Warning("disabled.entry_node") : o \in s})
  BY ErrorsAreNotes DEF AreNotes
<1>2. AreNotes(OverrideNotes(g, import))
  BY <1>1 DEF OverrideNotes
<1>3. AreNotes(DisabledNotes(ApplyOverrides(g, import), import))
  BY <1>1 DEF DisabledNotes
<1> QED
  BY <1>2, <1>3 DEF LayerNotes, AreNotes

\* So does an import.
LEMMA BroughtNotes ==
    ASSUME NEW lib, NEW import, NEW inner,
           import.campaign \in DOMAIN lib => AreNotes(inner.notes)
    PROVE  AreNotes(Brought(lib, import, inner).notes)
<1>1. CASE import.campaign \notin DOMAIN lib
  <2>1. AreNotes({Error("import.unknown_campaign")})
    BY ErrorsAreNotes DEF AreNotes
  <2> QED
    BY <1>1, <2>1 DEF Brought
<1>2. CASE import.campaign \in DOMAIN lib
  <2> DEFINE layered == All(inner.graphs, LAMBDA g : LayerNotes(g, import))
  <2>1. AreNotes(layered)
    BY LayerNotesAreNotes DEF All, AreNotes
  <2>2. Brought(lib, import, inner).notes = inner.notes \cup layered
    BY <1>2 DEF Brought
  <2> HIDE DEF layered
  <2> QED
    BY <1>2, <2>1, <2>2 DEF AreNotes
<1> QED
  BY <1>1, <1>2

\* What comes round in a circle brings nothing.
LEMMA CircleBringsNothing ==
    ASSUME NEW lib, NEW import, NEW inner, import.campaign \in DOMAIN lib => inner = InCircle
    PROVE  Brought(lib, import, inner).graphs = <<>> /\ AreNotes(Brought(lib, import, inner).notes)
<1>1. InCircle.graphs = <<>> /\ AreNotes(InCircle.notes)
  BY ErrorsAreNotes DEF InCircle, AreNotes
<1>2. AreNotes(Brought(lib, import, inner).notes)
  BY <1>1, BroughtNotes
<1>3. CASE import.campaign \notin DOMAIN lib
  BY <1>2, <1>3 DEF Brought
<1>4. CASE import.campaign \in DOMAIN lib
  <2>1. Brought(lib, import, inner).graphs = [i \in DOMAIN inner.graphs |-> Layered(inner.graphs[i], import)]
    BY <1>4 DEF Brought, MapSeq
  <2>2. DOMAIN inner.graphs = {}
    BY <1>1, <1>4
  <2> DEFINE graphs == Brought(lib, import, inner).graphs
  <2>3. graphs \in Seq({}) /\ Len(graphs) = 0
    BY <2>1, <2>2
  <2> HIDE DEF graphs
  <2>4. graphs = <<>>
    BY <2>3, EmptySeq
  <2> QED
    BY <1>2, <2>4 DEF graphs
<1> QED
  BY <1>2, <1>3, <1>4

\* The imported campaign brings its graph only, whatever else it imports.
LEMMA BaseOpened ==
    ASSUME NEW lib, NEW author, ImportsOneGraph(lib, author), BaseId \in DOMAIN lib, NEW flat,
           \A c \in Campaigns(lib, author), above \in SUBSET CampaignIds(lib, author) :
               flat[<<c, above>>] = Opened(lib, flat, c, above)
    PROVE  /\ flat[<<lib[BaseId], {author.id}>>].graphs = lib[BaseId].graphs
           /\ AreNotes(flat[<<lib[BaseId], {author.id}>>].notes)
<1> DEFINE base == lib[BaseId]
           above == {author.id}
           deeper == above \cup {base.id}
           n == Len(base.imports)
           Part(i) == Brought(lib, base.imports[i], flat[<<lib[base.imports[i].campaign], deeper>>])
           parts == [i \in 1..n |-> Part(i)]
<1>1. /\ IsCampaign(base) /\ base.id = BaseId /\ author.id # BaseId
      /\ \A i \in DOMAIN base.imports :
            base.imports[i].campaign \in DOMAIN lib =>
                lib[base.imports[i].campaign].id \in {author.id, BaseId}
  BY DEF ImportsOneGraph
<1>2. n \in Nat /\ DOMAIN base.imports = 1..n
  BY <1>1 DEF IsCampaign, IsList
<1>3. /\ author \in Campaigns(lib, author) /\ base \in Campaigns(lib, author)
      /\ \A id \in DOMAIN lib : lib[id] \in Campaigns(lib, author)
  BY DEF Campaigns
<1>4. above \in SUBSET CampaignIds(lib, author) /\ deeper \in SUBSET CampaignIds(lib, author)
  BY <1>3 DEF CampaignIds
<1>5. base.id \notin above
  BY <1>1
<1>6. flat[<<base, above>>] = Gathered(base, parts)
  <2>1. flat[<<base, above>>] = Opened(lib, flat, base, above)
    BY <1>3, <1>4
  <2> HIDE DEF base
  <2> QED
    BY <1>2, <1>5, <2>1 DEF Opened
<1> HIDE DEF base, n
<1>7. ASSUME NEW i \in 1..n PROVE Part(i).graphs = <<>> /\ AreNotes(Part(i).notes)
  <2> DEFINE import == base.imports[i]
             inner == flat[<<lib[import.campaign], deeper>>]
  <2>1. ASSUME import.campaign \in DOMAIN lib PROVE inner = InCircle
    <3>1. lib[import.campaign].id \in deeper
      BY <1>1, <1>2, <2>1
    <3>2. inner = Opened(lib, flat, lib[import.campaign], deeper)
      BY <1>3, <1>4, <2>1
    <3> QED
      BY <3>1, <3>2 DEF Opened
  <2> HIDE DEF inner
  <2>2. Brought(lib, import, inner).graphs = <<>> /\ AreNotes(Brought(lib, import, inner).notes)
    BY <2>1, CircleBringsNothing
  <2> QED
    BY <2>2 DEF inner
<1> HIDE DEF Part, above
<1>8. parts = [i \in 1..n |-> parts[i]] /\ DOMAIN parts = 1..n /\ \A i \in 1..n : parts[i] = Part(i)
  OBVIOUS
<1> HIDE DEF parts
<1>9. Gathered(base, parts).graphs = base.graphs
  BY <1>1, <1>2, <1>7, <1>8, GatheredNone
<1>10. AreNotes(Gathered(base, parts).notes)
  BY <1>7, <1>8, GatheredNotes
<1> QED
  BY <1>6, <1>9, <1>10 DEF base, above

\* What an author who imports one graph has to resolve: that graph under the layer, and their own.
LEMMA OneGraphComes ==
    ASSUME NEW lib, NEW author, ImportsOneGraph(lib, author)
    PROVE  LET flat == Flatten(lib, author)
               import == author.imports[1]
           IN  /\ BaseId \in DOMAIN lib =>
                     flat.graphs = <<Layered(lib[BaseId].graphs[1], import)>> \o author.graphs
               /\ BaseId \notin DOMAIN lib => flat.graphs = author.graphs
               /\ AreNotes(flat.notes)
<1> DEFINE import == author.imports[1]
           result == Flatten(lib, author)
<1>1. /\ IsFiniteSet(DOMAIN lib) /\ IsCampaign(author) /\ Len(author.imports) = 1
      /\ import.campaign = BaseId
  BY DEF ImportsOneGraph
<1>2. PICK flat : /\ result = flat[<<author, {}>>]
                  /\ \A c \in Campaigns(lib, author), above \in SUBSET CampaignIds(lib, author) :
                        flat[<<c, above>>] = Opened(lib, flat, c, above)
  BY <1>1, FlatteningRuns
<1> DEFINE inner == flat[<<lib[BaseId], {author.id}>>]
           part == Brought(lib, import, inner)
           parts == [i \in 1..1 |-> part]
<1>3. result = Gathered(author, parts)
  <2>1. author \in Campaigns(lib, author) /\ {} \in SUBSET CampaignIds(lib, author)
    BY DEF Campaigns
  <2>2. result = Opened(lib, flat, author, {})
    BY <1>2, <2>1
  <2>3. DOMAIN author.imports = 1..1
    BY <1>1 DEF IsCampaign, IsList
  <2>4. {} \cup {author.id} = {author.id}
    OBVIOUS
  <2> DEFINE Part(i) == Brought(lib, author.imports[i],
                                flat[<<lib[author.imports[i].campaign], {} \cup {author.id}>>])
  <2>5. result = Gathered(author, [i \in 1..1 |-> Part(i)])
    <3> HIDE DEF result
    <3> QED
      BY <2>2, <2>3 DEF Opened
  <2>6. \A i \in 1..1 : Part(i) = part
    BY <1>1, <2>4
  <2>7. [i \in 1..1 |-> Part(i)] = parts
    BY <2>6
  <2> HIDE DEF Part, result, parts
  <2> QED
    BY <2>5, <2>7
<1> HIDE DEF result, inner, part
<1>4. parts = [i \in 1..1 |-> parts[i]] /\ DOMAIN parts = 1..1 /\ \A i \in 1..1 : parts[i] = part
  OBVIOUS
<1> HIDE DEF parts
<1>5. result.graphs = part.graphs \o author.graphs
  <2>1. parts = [i \in 1..1 |-> parts[i]] /\ parts[1] = part
    BY <1>4
  <2>2. Gathered(author, parts).graphs = parts[1].graphs \o author.graphs
    BY <2>1, GatheredOne
  <2> QED
    BY <1>3, <2>1, <2>2
<1>6. CASE BaseId \notin DOMAIN lib
  <2>1. part.graphs = <<>> /\ AreNotes(part.notes)
    BY <1>1, <1>6, CircleBringsNothing DEF part
  <2>2. <<>> \o author.graphs = author.graphs
    BY <1>1, ConcatEmptySeq DEF IsCampaign, IsList
  <2>3. AreNotes(result.notes)
    BY <1>3, <1>4, <2>1, GatheredNotes
  <2> QED
    BY <1>5, <1>6, <2>1, <2>2, <2>3 DEF result
<1>7. CASE BaseId \in DOMAIN lib
  <2>1. inner.graphs = lib[BaseId].graphs /\ AreNotes(inner.notes)
    BY <1>2, <1>7, BaseOpened DEF inner
  <2>2. AreNotes(part.notes)
    BY <2>1, BroughtNotes DEF part
  <2>3. AreNotes(result.notes)
    BY <1>3, <1>4, <2>2, GatheredNotes
  <2> DEFINE graphs == lib[BaseId].graphs
  <2>4. DOMAIN graphs = 1..1
    BY <1>7 DEF ImportsOneGraph, IsCampaign, IsList
  <2>5. part.graphs = [i \in DOMAIN inner.graphs |-> Layered(inner.graphs[i], import)]
    BY <1>1, <1>7 DEF part, Brought, MapSeq
  <2> HIDE DEF graphs
  <2>6. part.graphs = [i \in 1..1 |-> Layered(graphs[i], import)]
    BY <2>1, <2>4, <2>5 DEF graphs
  <2>7. part.graphs = <<Layered(graphs[1], import)>>
    BY <2>6
  <2> QED
    BY <1>5, <1>7, <2>3, <2>7 DEF graphs, result
<1> QED
  BY <1>6, <1>7 DEF result

-----------------------------------------------------------------------------
(* Edits *)

\* A graph with one edge more is a graph,
LEMMA EdgeAdded ==
    ASSUME NEW g, IsGraph(g), NEW edge
    PROVE  LET h == [g EXCEPT !.edges = Append(@, edge)] IN IsGraph(h) /\ h.id = g.id
<1> DEFINE edges == Append(g.edges, edge)
           h == [g EXCEPT !.edges = edges]
<1>0. /\ g = [id |-> g.id, entry |-> g.entry, nodes |-> g.nodes, edges |-> g.edges]
      /\ IsList(g.nodes) /\ IsList(g.edges) /\ Distinct(g.nodes)
      /\ \A n \in ToSet(g.nodes) : IsNode(n)
  BY GraphIs
<1>1. IsList(edges)
  <2> DEFINE all == ToSet(g.edges) \cup {edge}
             old == g.edges
  <2>1. old \in Seq(ToSet(old))
    BY <1>0 DEF IsList
  <2> HIDE DEF old
  <2>2. old \in Seq(all)
    BY <2>1, ListOf DEF old
  <2>3. edges \in Seq(all)
    BY <2>2 DEF old
  <2> HIDE DEF edges
  <2> QED
    BY <2>3, ListOf DEF IsList
<1> HIDE DEF edges
<1>2. h = [id |-> g.id, entry |-> g.entry, nodes |-> g.nodes, edges |-> edges]
  BY <1>0
<1> HIDE DEF h
<1>3. h.id = g.id /\ h.entry = g.entry /\ h.nodes = g.nodes /\ h.edges = edges
  BY <1>2
<1>4. IsGraph(h)
  BY <1>0, <1>1, <1>2, <1>3, GraphIs
<1> QED
  BY <1>3, <1>4 DEF h, edges

\* and so is one whose first node has other fields.
LEMMA FieldsWritten ==
    ASSUME NEW g, IsGraph(g), NEW fields
    PROVE  LET h == [g EXCEPT !.nodes[1].intent = fields @@ @] IN IsGraph(h) /\ h.id = g.id
<1> DEFINE D == DOMAIN g.nodes
           intent == fields @@ g.nodes[1].intent
           nodes == [g.nodes EXCEPT ![1] = [g.nodes[1] EXCEPT !.intent = intent]]
           h == [g EXCEPT !.nodes[1].intent = fields @@ @]
<1>0. /\ g = [id |-> g.id, entry |-> g.entry, nodes |-> g.nodes, edges |-> g.edges]
      /\ IsList(g.nodes) /\ IsList(g.edges) /\ Distinct(g.nodes)
      /\ \A n \in ToSet(g.nodes) : IsNode(n)
  BY GraphIs
<1>1. h = [g EXCEPT !.nodes = nodes]
  OBVIOUS
<1> HIDE DEF intent
<1>2. DOMAIN nodes = D
  OBVIOUS
<1>3. ASSUME NEW i \in D PROVE IsNode(nodes[i]) /\ nodes[i].id = g.nodes[i].id
  <2> DEFINE n == g.nodes[i]
  <2>1. n = [id |-> n.id, type |-> n.type, intent |-> n.intent]
    BY <1>0 DEF ToSet, IsNode
  <2>2. nodes[i] = IF i = 1 THEN [n EXCEPT !.intent = intent] ELSE n
    OBVIOUS
  <2> HIDE DEF n, nodes
  <2>3. [n EXCEPT !.intent = intent] = [id |-> n.id, type |-> n.type, intent |-> intent]
    BY <2>1
  <2>4. IsNode(nodes[i]) /\ nodes[i].id = n.id
    <3>1. CASE i = 1
      BY <2>2, <2>3, <3>1 DEF IsNode
    <3>2. CASE i # 1
      BY <2>1, <2>2, <3>2 DEF IsNode
    <3> QED
      BY <3>1, <3>2
  <2> QED
    BY <2>4 DEF n
<1>4. D = 1..Len(g.nodes) /\ Len(g.nodes) \in Nat
  BY <1>0 DEF IsList
<1>5. IsList(nodes)
  <2>1. nodes \in [1..Len(g.nodes) -> ToSet(nodes)]
    <3>1. nodes = [i \in 1..Len(g.nodes) |-> nodes[i]]
      BY <1>4
    <3> HIDE DEF nodes
    <3> QED
      BY <1>2, <1>4, <3>1 DEF ToSet
  <2> HIDE DEF nodes
  <2> QED
    BY <1>4, <2>1, SeqDef DEF IsList
<1> HIDE DEF nodes, h
<1>6. h = [id |-> g.id, entry |-> g.entry, nodes |-> nodes, edges |-> g.edges]
  BY <1>0, <1>1
<1>7. h.id = g.id /\ h.entry = g.entry /\ h.nodes = nodes /\ h.edges = g.edges
  BY <1>6
<1>8. Distinct(nodes)
  BY <1>0, <1>2, <1>3 DEF Distinct
<1>9. \A n \in ToSet(nodes) : IsNode(n)
  BY <1>2, <1>3 DEF ToSet
<1>10. IsGraph(h)
  BY <1>0, <1>5, <1>6, <1>7, <1>8, <1>9, GraphIs
<1> QED
  BY <1>7, <1>10 DEF h

\* A list of one with another member in its place.
LEMMA OneReplaced ==
    ASSUME NEW s, IsList(s), Len(s) = 1, NEW x
    PROVE  LET r == [s EXCEPT ![1] = x] IN IsList(r) /\ Len(r) = 1 /\ r[1] = x
<1> DEFINE r == [s EXCEPT ![1] = x]
<1>1. DOMAIN s = 1..1
  BY DEF IsList
<1>2. r = <<x>>
  BY <1>1
<1> HIDE DEF r
<1>3. r \in Seq({x}) /\ Len(r) = 1 /\ r[1] = x
  BY <1>2
<1>4. IsList(r)
  BY <1>3, ListOf DEF IsList
<1> QED
  BY <1>3, <1>4 DEF r

\* The imported graph can be edited,
LEMMA GraphSet ==
    ASSUME NEW lib, NEW author, ImportsOneGraph(lib, author), BaseId \in DOMAIN lib,
           NEW graph, IsGraph(graph), graph.id = GraphId
    PROVE  ImportsOneGraph([lib EXCEPT ![BaseId].graphs[1] = graph], author)
<1> DEFINE base == lib[BaseId]
           graphs == [base.graphs EXCEPT ![1] = graph]
           after == [base EXCEPT !.graphs = graphs]
           edited == [lib EXCEPT ![BaseId].graphs[1] = graph]
<1>1. /\ IsCampaign(base) /\ base.id = BaseId /\ Len(base.graphs) = 1
      /\ \A i \in DOMAIN base.imports :
            LET id == base.imports[i].campaign
            IN  id \in DOMAIN lib => lib[id].id \in {author.id, BaseId}
  BY DEF ImportsOneGraph
<1>2. base = [id |-> base.id, imports |-> base.imports, graphs |-> base.graphs,
              conditions |-> base.conditions]
      /\ IsList(base.imports) /\ IsList(base.graphs)
  BY <1>1 DEF IsCampaign
<1>3. IsList(graphs) /\ Len(graphs) = 1 /\ graphs[1] = graph
  BY <1>1, <1>2, OneReplaced
<1>4. edited = [lib EXCEPT ![BaseId] = after]
  OBVIOUS
<1>5. after.id = base.id /\ after.imports = base.imports /\ after.graphs = graphs /\ IsCampaign(after)
  <2> HIDE DEF base, graphs
  <2>1. after = [id |-> base.id, imports |-> base.imports, graphs |-> graphs,
                 conditions |-> base.conditions]
    BY <1>2
  <2> HIDE DEF after
  <2>2. /\ after.id = base.id /\ after.imports = base.imports /\ after.graphs = graphs
        /\ after.conditions = base.conditions
    BY <2>1
  <2> QED
    BY <1>2, <1>3, <2>1, <2>2 DEF IsCampaign
<1> HIDE DEF base, graphs, after, edited
<1>6. DOMAIN edited = DOMAIN lib /\ edited[BaseId] = after
      /\ \A id \in DOMAIN lib : edited[id].id = lib[id].id
  BY <1>1, <1>4, <1>5 DEF base
<1>7. ASSUME NEW i \in DOMAIN after.imports, after.imports[i].campaign \in DOMAIN edited
      PROVE  edited[after.imports[i].campaign].id \in {author.id, BaseId}
  BY <1>1, <1>5, <1>6, <1>7
<1>8. after.id = BaseId /\ IsCampaign(after) /\ Len(after.graphs) = 1 /\ after.graphs[1] = graph
  BY <1>1, <1>3, <1>5
<1> QED
  BY <1>6, <1>7, <1>8 DEF ImportsOneGraph, edited

\* and so can the layer it is imported under.
LEMMA LayerSet ==
    ASSUME NEW lib, NEW author, ImportsOneGraph(lib, author),
           NEW layer, IsLayer(layer), layer.campaign = BaseId
    PROVE  ImportsOneGraph(lib, [author EXCEPT !.imports[1] = layer])
<1> DEFINE imports == [author.imports EXCEPT ![1] = layer]
           after == [author EXCEPT !.imports[1] = layer]
<1>1. author = [id |-> author.id, imports |-> author.imports, graphs |-> author.graphs,
                conditions |-> author.conditions]
      /\ IsList(author.imports) /\ IsList(author.graphs) /\ Len(author.imports) = 1
  BY DEF ImportsOneGraph, IsCampaign
<1>2. IsList(imports) /\ Len(imports) = 1 /\ imports[1] = layer
  BY <1>1, OneReplaced
<1>3. after = [author EXCEPT !.imports = imports]
  OBVIOUS
<1> HIDE DEF imports, after
<1>4. after = [id |-> author.id, imports |-> imports, graphs |-> author.graphs,
               conditions |-> author.conditions]
  BY <1>1, <1>3
<1>5. /\ after.id = author.id /\ after.imports = imports /\ after.graphs = author.graphs
      /\ after.conditions = author.conditions
  BY <1>4
<1>6. IsCampaign(after)
  BY <1>1, <1>2, <1>4, <1>5 DEF IsCampaign
<1> QED
  BY <1>2, <1>5, <1>6 DEF ImportsOneGraph, after

\* A layer with one more disabled node or override is a layer.
LEMMA LongerLayer ==
    ASSUME NEW layer, IsLayer(layer), NEW x
    PROVE  LET skipped == [layer EXCEPT !.disabled = Append(@, x)]
               changed == [layer EXCEPT !.overrides = Append(@, x)]
           IN  /\ IsLayer(skipped) /\ skipped.campaign = layer.campaign
               /\ IsLayer(changed) /\ changed.campaign = layer.campaign
<1>1. ASSUME NEW s, IsList(s) PROVE IsList(Append(s, x))
  <2> DEFINE all == ToSet(s) \cup {x}
             r == Append(s, x)
  <2>1. s \in Seq(ToSet(s))
    BY <1>1 DEF IsList
  <2>2. s \in Seq(all)
    BY <2>1
  <2>3. r \in Seq(all)
    BY <2>2
  <2> HIDE DEF r
  <2> QED
    BY <2>3, ListOf DEF IsList, r
<1>2. layer = [campaign |-> layer.campaign, overrides |-> layer.overrides, disabled |-> layer.disabled]
      /\ IsList(layer.overrides) /\ IsList(layer.disabled)
  BY DEF IsLayer
<1> DEFINE disabled == Append(layer.disabled, x)
           overrides == Append(layer.overrides, x)
           skipped == [layer EXCEPT !.disabled = disabled]
           changed == [layer EXCEPT !.overrides = overrides]
<1>3. IsList(disabled) /\ IsList(overrides)
  BY <1>1, <1>2
<1> HIDE DEF disabled, overrides
<1>4. skipped = [campaign |-> layer.campaign, overrides |-> layer.overrides, disabled |-> disabled]
      /\ changed = [campaign |-> layer.campaign, overrides |-> overrides, disabled |-> layer.disabled]
  BY <1>2
<1> HIDE DEF skipped, changed
<1>5. /\ IsLayer(skipped) /\ skipped.campaign = layer.campaign
      /\ IsLayer(changed) /\ changed.campaign = layer.campaign
  BY <1>2, <1>3, <1>4 DEF IsLayer
<1> QED
  BY <1>5 DEF skipped, changed, disabled, overrides

\* What is imported is one graph, however it is edited.
RoutesInv == ImportsOneGraph(library, campaign)

\* An author keeps importing one graph.
THEOREM RoutesInvariant == AuthoringSpec => []RoutesInv
<1>1. AuthoringInit => RoutesInv
  BY RoutesAssumption DEF AuthoringInit, RoutesInv
<1>2. RoutesInv /\ [AuthoringNext]_authoringVars => RoutesInv'
  <2> SUFFICES ASSUME RoutesInv, [AuthoringNext]_authoringVars PROVE RoutesInv'
    OBVIOUS
  <2>1. BaseId \in DOMAIN library => IsGraph(Graph) /\ Graph.id = GraphId
    BY DEF RoutesInv, ImportsOneGraph, Graph
  <2>2. IsLayer(Layer) /\ Layer.campaign = BaseId
    BY DEF RoutesInv, ImportsOneGraph, Layer
  <2>3. ASSUME NEW graph, SetsGraph(graph), BaseId \in DOMAIN library, IsGraph(graph), graph.id = GraphId
        PROVE  RoutesInv'
    BY <2>3, GraphSet DEF RoutesInv, SetsGraph
  <2>4. ASSUME NEW layer, SetsLayer(layer), IsLayer(layer), layer.campaign = BaseId PROVE RoutesInv'
    BY <2>4, LayerSet DEF RoutesInv, SetsLayer
  <2>5. CASE AddEdge
    <3>1. PICK edge \in EdgeMenu : SetsGraph([Graph EXCEPT !.edges = Append(@, edge)])
      BY <2>5 DEF AddEdge
    <3>2. BaseId \in DOMAIN library
      BY <2>5 DEF AddEdge, AtDesk
    <3> DEFINE graph == [Graph EXCEPT !.edges = Append(@, edge)]
    <3>3. IsGraph(graph) /\ graph.id = GraphId
      BY <2>1, <3>2, EdgeAdded
    <3> HIDE DEF graph
    <3> QED
      BY <2>3, <3>1, <3>2, <3>3 DEF graph
  <2>6. CASE WriteFields
    <3>1. PICK entry \in FieldMenu : SetsGraph([Graph EXCEPT !.nodes[1].intent = entry.fields @@ @])
      BY <2>6 DEF WriteFields
    <3>2. BaseId \in DOMAIN library
      BY <2>6 DEF WriteFields, AtDesk
    <3> DEFINE graph == [Graph EXCEPT !.nodes[1].intent = entry.fields @@ @]
    <3>3. IsGraph(graph) /\ graph.id = GraphId
      BY <2>1, <3>2, FieldsWritten
    <3> HIDE DEF graph
    <3> QED
      BY <2>3, <3>1, <3>2, <3>3 DEF graph
  <2>7. CASE SkipNode
    <3>1. PICK node : SetsLayer([Layer EXCEPT !.disabled = Append(@, node)])
      BY <2>7 DEF SkipNode
    <3> DEFINE layer == [Layer EXCEPT !.disabled = Append(@, node)]
    <3>2. IsLayer(layer) /\ layer.campaign = BaseId
      BY <2>2, LongerLayer
    <3> HIDE DEF layer
    <3> QED
      BY <2>4, <3>1, <3>2 DEF layer
  <2>8. CASE Override
    <3>1. PICK patch : SetsLayer([Layer EXCEPT !.overrides = Append(@, patch)])
      BY <2>8 DEF Override
    <3> DEFINE layer == [Layer EXCEPT !.overrides = Append(@, patch)]
    <3>2. IsLayer(layer) /\ layer.campaign = BaseId
      BY <2>2, LongerLayer
    <3> HIDE DEF layer
    <3> QED
      BY <2>4, <3>1, <3>2 DEF layer
  <2>9. CASE Resolve \/ ResolveGraph \/ Post
    BY <2>9 DEF Resolve, ResolveGraph, Post, Answered, RoutesInv
  <2>10. CASE UNCHANGED authoringVars
    BY <2>10 DEF authoringVars, RoutesInv
  <2> QED
    BY <2>5, <2>6, <2>7, <2>8, <2>9, <2>10 DEF AuthoringNext
<1> QED
  BY <1>1, <1>2, PTL DEF AuthoringSpec

-----------------------------------------------------------------------------
(* Answers about the imported graph *)

\* Whether the notes warn of a cycle.
CycleNoted(notes) == \E n \in notes : n.code = "graph.cycle"

\* The transitions of a node leave notes.
LEMMA TransitionNotesAreNotes ==
    ASSUME NEW c, NEW g, NEW node
    PROVE  AreNotes(TransitionNotes(c, g, node))
<1> DEFINE told(e) == IF e.to \notin NodeIds(g) THEN {Error("edge.dangling")}
                      ELSE IF e.guard # None /\ ~Defines(c, e.guard) THEN {Error("guard.unknown_condition")}
                      ELSE {}
           out == Outgoing(g, node.id)
           notes == UNION {told(out[i]) : i \in DOMAIN out}
<1>1. TransitionNotes(c, g, node) = At(node.id, notes)
  BY DEF TransitionNotes, All
<1>2. ASSUME NEW e PROVE AreNotes(told(e))
  BY ErrorsAreNotes DEF AreNotes
<1> HIDE DEF told
<1>3. AreNotes(notes)
  BY <1>2 DEF AreNotes
<1> HIDE DEF notes
<1> QED
  BY <1>1, <1>3, PlacedErrors

\* A plan has the operations of its graph in their order, and a warning of each edge back.
LEMMA AssembledIs ==
    ASSUME NEW c, NEW g, NEW fingerprint, NEW order, NEW lowered, DOMAIN lowered = DOMAIN order,
           \A i \in DOMAIN order : AreNotes(lowered[i].v.notes)
    PROVE  LET r == Assembled(c, g, fingerprint, order, lowered)
           IN  /\ OperationsOf(g, order, r.plan.operations)
               /\ CycleNoted(r.notes) <=> BackEdges(g, order) # {}
<1> DEFINE ordered == [i \in DOMAIN order |-> g.nodes[order[i]]]
           operations == [i \in DOMAIN ordered |->
                             [node |-> ordered[i].id, actions |-> lowered[i].v.actions,
                              next |-> Transitions(g, ordered, ordered[i])]]
           conditions == ReferencedConditions(c, operations)
           cycles == {Warning("graph.cycle") : arc \in BackEdges(g, order)}
           told == UNION {lowered[i].v.notes : i \in DOMAIN lowered}
           dangling == UNION {TransitionNotes(c, g, ordered[i]) : i \in DOMAIN ordered}
           r == Assembled(c, g, fingerprint, order, lowered)
<1>1. r = [plan |-> Plan(c, g.id, fingerprint, operations, conditions),
           notes |-> cycles \cup told \cup dangling]
  BY DEF Assembled, MapSeq, All
<1>2. Plan(c, g.id, fingerprint, operations, conditions).operations = operations
  BY DEF Plan
<1>3. OperationsOf(g, order, operations)
  <2>1. ordered = Ordered(g, order)
    BY DEF Ordered
  <2>2. DOMAIN operations = DOMAIN order /\ operations = [i \in DOMAIN order |-> operations[i]]
    OBVIOUS
  <2>3. ASSUME NEW i \in DOMAIN order
        PROVE  /\ operations[i].node = g.nodes[order[i]].id
               /\ operations[i].next = Transitions(g, ordered, g.nodes[order[i]])
    OBVIOUS
  <2> HIDE DEF operations, ordered
  <2> QED
    BY <2>1, <2>2, <2>3 DEF OperationsOf
<1>4. AreNotes(told) /\ AreNotes(dangling)
  BY TransitionNotesAreNotes DEF AreNotes
<1>5. CycleNoted(cycles) <=> BackEdges(g, order) # {}
  <2>1. Warning("graph.cycle").code = "graph.cycle"
    BY DEF Warning
  <2> QED
    BY <2>1 DEF CycleNoted
<1>6. CycleNoted(cycles \cup told \cup dangling) <=> CycleNoted(cycles)
  <2> HIDE DEF cycles, told, dangling
  <2> QED
    BY <1>4 DEF CycleNoted, AreNotes, IsNote
<1>7. r.plan.operations = operations /\ r.notes = cycles \cup told \cup dangling
  <2> HIDE DEF operations, cycles, told, dangling, r
  <2> QED
    BY <1>1, <1>2
<1> HIDE DEF operations, cycles, told, dangling, r
<1> QED
  BY <1>3, <1>5, <1>6, <1>7 DEF r

\* The plan of a graph that could be lowered.
LEMMA PlanOf ==
    ASSUME NEW c, NEW g, NEW db, LowerGraph(c, g, db).ok
    PROVE  LET r == LowerGraph(c, g, db).v
               o == TopologicalOrder(g)
           IN  /\ r.plan.graph = g.id
               /\ OperationsOf(g, o, r.plan.operations)
               /\ CycleNoted(r.notes) <=> BackEdges(g, o) # {}
               /\ \A notes : [r EXCEPT !.notes = @ \cup notes]
                                = [plan |-> r.plan, notes |-> r.notes \cup notes]
<1> DEFINE order == TopologicalOrder(g)
           lowered == [i \in DOMAIN order |-> LowerNode(g.nodes[order[i]], db)]
           plan == Assembled(c, g, db.fingerprint, order, lowered)
           out == LowerGraph(c, g, db)
<1>1. out = IF \E i \in DOMAIN lowered : ~lowered[i].ok THEN Failed ELSE [ok |-> TRUE, v |-> plan]
  BY DEF LowerGraph, MapSeq, Found
<1>2. DOMAIN lowered = DOMAIN order /\ \A i \in DOMAIN order : lowered[i] = LowerNode(g.nodes[order[i]], db)
  OBVIOUS
<1>3. out.ok
  OBVIOUS
<1> HIDE DEF lowered, out, order
<1>4. out.v = plan /\ \A i \in DOMAIN order : lowered[i].ok
  <2> HIDE DEF plan
  <2>1. out # Failed
    BY <1>3 DEF Failed
  <2> QED
    BY <1>1, <1>2, <2>1
<1>5. ASSUME NEW i \in DOMAIN order PROVE AreNotes(lowered[i].v.notes)
  <2>1. Reported(LowerNode(g.nodes[order[i]], db), g.nodes[order[i]].id)
    BY NodeIsSound
  <2> QED
    BY <1>2, <1>4, <2>1 DEF Reported
<1>6. /\ OperationsOf(g, order, plan.plan.operations)
      /\ CycleNoted(plan.notes) <=> BackEdges(g, order) # {}
  BY <1>2, <1>5, AssembledIs
<1>7. plan.plan.graph = g.id
  BY <1>2, AssembledHas
<1>8. \A notes : [plan EXCEPT !.notes = @ \cup notes] = [plan |-> plan.plan, notes |-> plan.notes \cup notes]
  BY <1>2, AssembledHas
<1> HIDE DEF plan
<1> QED
  BY <1>4, <1>6, <1>7, <1>8 DEF out, order

\* A plan with operations is that of the first graph.
LEMMA PlanOfFirst ==
    ASSUME NEW c, NEW db, NEW id, NEW graphs, NEW notes, AreNotes(notes),
           ResolveFirst(c, db, id, graphs, notes).ok,
           ResolveFirst(c, db, id, graphs, notes).v.plan.operations # <<>>
    PROVE  LET r == ResolveFirst(c, db, id, graphs, notes).v
               g == graphs[1]
               o == TopologicalOrder(g)
           IN  /\ graphs # <<>>
               /\ r.plan.graph = g.id
               /\ OperationsOf(g, o, r.plan.operations)
               /\ CycleNoted(r.notes) <=> BackEdges(g, o) # {}
<1> DEFINE out == ResolveFirst(c, db, id, graphs, notes)
           g == graphs[1]
           o == TopologicalOrder(g)
           lowered == LowerGraph(c, g, db)
           with == [lowered.v EXCEPT !.notes = @ \cup notes]
<1>1. CASE graphs = <<>>
  <2> DEFINE empty == Plan(c, id, db.fingerprint, <<>>, <<>>)
  <2>1. out = [ok |-> TRUE, v |-> [plan |-> empty, notes |-> notes \cup {Error("campaign.no_graph")}]]
    BY <1>1 DEF ResolveFirst, Found
  <2>2. empty.operations = <<>>
    BY DEF Plan
  <2>3. out.v.plan.operations # <<>>
    OBVIOUS
  <2> HIDE DEF empty, out
  <2>4. FALSE
    BY <2>1, <2>2, <2>3
  <2> QED
    BY <2>4
<1>2. CASE graphs # <<>>
  <2>1. out = IF lowered.ok THEN [ok |-> TRUE, v |-> with] ELSE Failed
    BY <1>2 DEF ResolveFirst, Then, Found
  <2>2. out.ok
    OBVIOUS
  <2> HIDE DEF out, with
  <2>3. lowered.ok /\ out.v = with
    BY <2>1, <2>2 DEF Failed
  <2>4. /\ lowered.v.plan.graph = g.id
        /\ OperationsOf(g, o, lowered.v.plan.operations)
        /\ CycleNoted(lowered.v.notes) <=> BackEdges(g, o) # {}
    BY <2>3, PlanOf
  <2>5. with = [plan |-> lowered.v.plan, notes |-> lowered.v.notes \cup notes]
    <3>1. \A more : [lowered.v EXCEPT !.notes = @ \cup more]
                       = [plan |-> lowered.v.plan, notes |-> lowered.v.notes \cup more]
      BY <2>3, PlanOf
    <3> HIDE DEF lowered
    <3> QED
      BY <3>1 DEF with
  <2> HIDE DEF lowered, g, o
  <2>6. with.plan = lowered.v.plan /\ with.notes = lowered.v.notes \cup notes
    BY <2>5
  <2>7. CycleNoted(with.notes) <=> CycleNoted(lowered.v.notes)
    BY <2>6 DEF CycleNoted, AreNotes, IsNote
  <2> QED
    BY <1>2, <2>3, <2>4, <2>6, <2>7 DEF out, g, o
<1> QED
  BY <1>1, <1>2

\* The first member of a list is the first that is picked, when it is to be; when none is, nothing is.
LEMMA FirstPicked ==
    ASSUME NEW s, IsList(s), NEW kept
    PROVE  /\ Len(s) > 0 /\ s[1] \in kept => Only(s, kept)[1] = s[1]
           /\ (\A i \in DOMAIN s : s[i] \notin kept) => Only(s, kept) = <<>>
<1> DEFINE o == Only(s, kept)
           n == Len(s)
<1>1. PICK at : o \in Seq(ToSet(s)) /\ Picked(s, kept, n, o, at)
  BY OnlyPicks DEF IsList
<1>2. n \in Nat /\ DOMAIN s = 1..n
  BY DEF IsList
<1> DEFINE m == Len(o)
<1>3. m \in Nat
  BY <1>1
<1> HIDE DEF o, n
<1>4. ASSUME n > 0, s[1] \in kept PROVE o[1] = s[1]
  <2>1. PICK k \in 1..m : at[k] = 1
    BY <1>2, <1>4, <1>1 DEF Picked
  <2>2. k = 1
    <3>1. \A l \in 1..m : at[l] \in 1..n
      BY <1>1 DEF Picked
    <3>2. 1 \in 1..m /\ (1 < k => at[1] < at[k])
      BY <1>1, <1>3, <2>1 DEF Picked
    <3> QED
      BY <1>2, <1>3, <2>1, <3>1, <3>2
  <2> QED
    BY <1>1, <2>1, <2>2 DEF Picked
<1>5. ASSUME \A i \in 1..n : s[i] \notin kept PROVE o = <<>>
  <2>1. \A k \in 1..m : FALSE
    BY <1>1, <1>5 DEF Picked
  <2>2. m = 0
    BY <1>3, <2>1
  <2> QED
    BY <1>1, <2>2, EmptySeq
<1> QED
  BY <1>2, <1>4, <1>5 DEF o, n

\* A graph without nodes has no operations.
LEMMA NothingToDo ==
    ASSUME NEW g, g.nodes = <<>>, NEW operations, OperationsOf(g, TopologicalOrder(g), operations)
    PROVE  operations = <<>>
<1> DEFINE o == TopologicalOrder(g)
           e == <<>>
<1>1. Len(g.nodes) = 0 /\ Len(e) = 0 /\ DOMAIN e = {}
  OBVIOUS
<1>2. NodeIds(g) = {}
  BY DEF NodeIds
<1>3. o = OrderFrom(g, e)
  BY <1>2 DEF TopologicalOrder
<1> HIDE DEF o, e
<1>4. o = e
  <2>1. PICK f : f[Len(e)] = e /\ OrderFrom(g, e) = f[Len(g.nodes)]
    BY <1>1, OrderRuns
  <2> QED
    BY <1>1, <1>3, <2>1
<1>5. DOMAIN o = {}
  BY <1>1, <1>4
<1>6. operations = [i \in {} |-> operations[i]]
  BY <1>5 DEF OperationsOf, o
<1> QED
  BY <1>6

\* What came of a graph: its operations in the order of the code, and a warning of a cycle.
MadeOf(g, v) ==
    /\ g.nodes # <<>>
    /\ OperationsOf(g, TopologicalOrder(g), v.plan.operations)
    /\ CycleNoted(v.notes) <=> BackEdges(g, TopologicalOrder(g)) # {}

\* The first of the graphs an author has to resolve is the imported one, if it is there, and
\* it is the only one with its id.
LEMMA ImportedFirst ==
    ASSUME NEW lib, NEW author, ImportsOneGraph(lib, author)
    PROVE  LET graphs == Flatten(lib, author).graphs
               picked == Only(graphs, {g \in ToSet(graphs) : g.id = GraphId})
               h == Layered(lib[BaseId].graphs[1], author.imports[1])
           IN  /\ BaseId \in DOMAIN lib => graphs[1] = h /\ picked[1] = h
               /\ BaseId \notin DOMAIN lib => /\ graphs # <<>> => graphs[1].id # GraphId
                                              /\ picked = <<>>
<1> DEFINE graphs == Flatten(lib, author).graphs
           kept == {g \in ToSet(graphs) : g.id = GraphId}
           h == Layered(lib[BaseId].graphs[1], author.imports[1])
           own == author.graphs
<1>1. /\ BaseId \in DOMAIN lib => graphs = <<h>> \o own
      /\ BaseId \notin DOMAIN lib => graphs = own
  BY OneGraphComes
<1>2. IsList(own) /\ \A i \in DOMAIN own : own[i].id # GraphId
  BY DEF ImportsOneGraph, IsCampaign
<1>3. BaseId \in DOMAIN lib => h.id = GraphId
  BY LayerLeaves DEF ImportsOneGraph
<1> HIDE DEF h, own, graphs
<1>4. CASE BaseId \in DOMAIN lib
  <2> DEFINE X == {h} \cup ToSet(own)
  <2>1. own \in Seq(X) /\ <<h>> \in Seq(X) /\ Len(<<h>>) = 1
    BY <1>2, ListOf DEF IsList
  <2>2. graphs \in Seq(X) /\ Len(graphs) > 0 /\ graphs[1] = h
    BY <1>1, <1>4, <2>1, SMTT(30)
  <2>3. IsList(graphs) /\ h \in ToSet(graphs)
    BY <2>2, ListOf DEF IsList, ToSet
  <2>4. graphs[1] \in kept
    BY <1>3, <1>4, <2>2, <2>3
  <2>5. Only(graphs, kept)[1] = h
    BY <2>2, <2>3, <2>4, FirstPicked
  <2> QED
    BY <1>4, <2>2, <2>5 DEF graphs, h
<1>5. CASE BaseId \notin DOMAIN lib
  <2>1. graphs = own /\ IsList(graphs)
    BY <1>1, <1>2, <1>5
  <2>2. \A i \in DOMAIN graphs : graphs[i] \notin kept
    BY <1>2, <2>1
  <2>3. Only(graphs, kept) = <<>>
    BY <2>1, <2>2, FirstPicked
  <2>4. graphs # <<>> => 1 \in DOMAIN graphs
    BY <2>1 DEF IsList
  <2>5. graphs # <<>> => graphs[1].id # GraphId
    BY <1>2, <2>1, <2>4
  <2> QED
    BY <1>5, <2>3, <2>5 DEF graphs
<1> QED
  BY <1>4, <1>5

\* So a plan of the imported graph with operations is made of that graph under its layer,
LEMMA PlanOfImport ==
    ASSUME NEW lib, NEW author, ImportsOneGraph(lib, author), NEW db, NEW a,
           a \in {ResolveCampaign(lib, author, db), ResolveGraphOf(lib, author, db, GraphId)},
           a.ok, a.v.plan.graph = GraphId, a.v.plan.operations # <<>>
    PROVE  /\ BaseId \in DOMAIN lib
           /\ MadeOf(Layered(lib[BaseId].graphs[1], author.imports[1]), a.v)
<1> DEFINE flat == Flatten(lib, author)
           picked == Only(flat.graphs, {g \in ToSet(flat.graphs) : g.id = GraphId})
           h == Layered(lib[BaseId].graphs[1], author.imports[1])
<1>1. PICK id, graphs : graphs \in {flat.graphs, picked} /\ a = ResolveFirst(author, db, id, graphs, flat.notes)
  BY DEF ResolveCampaign, ResolveGraphOf
<1>2. AreNotes(flat.notes)
  BY OneGraphComes
<1>3. /\ graphs # <<>>
      /\ a.v.plan.graph = graphs[1].id
      /\ OperationsOf(graphs[1], TopologicalOrder(graphs[1]), a.v.plan.operations)
      /\ CycleNoted(a.v.notes) <=> BackEdges(graphs[1], TopologicalOrder(graphs[1])) # {}
  <2> DEFINE notes == flat.notes
             made == ResolveFirst(author, db, id, graphs, notes)
  <2>1. a = made /\ AreNotes(notes)
    BY <1>1, <1>2
  <2>2. made.ok /\ made.v.plan.operations # <<>>
    BY <2>1
  <2> HIDE DEF notes
  <2>3. /\ graphs # <<>>
        /\ made.v.plan.graph = graphs[1].id
        /\ OperationsOf(graphs[1], TopologicalOrder(graphs[1]), made.v.plan.operations)
        /\ CycleNoted(made.v.notes) <=> BackEdges(graphs[1], TopologicalOrder(graphs[1])) # {}
    BY <2>1, <2>2, PlanOfFirst
  <2> HIDE DEF made
  <2> QED
    BY <2>1, <2>3
<1>4. /\ BaseId \in DOMAIN lib => flat.graphs[1] = h /\ picked[1] = h
      /\ BaseId \notin DOMAIN lib => (flat.graphs # <<>> => flat.graphs[1].id # GraphId) /\ picked = <<>>
  BY ImportedFirst
<1> HIDE DEF flat, picked, h
<1>5. BaseId \in DOMAIN lib /\ graphs[1] = h
  BY <1>1, <1>3, <1>4
<1>6. h.nodes # <<>>
  BY <1>3, <1>5, NothingToDo
<1> QED
  BY <1>3, <1>5, <1>6 DEF MadeOf, h

\* whatever was asked.
LEMMA AnswerIs ==
    ASSUME RoutesInv, NEW db, NEW ask \in {"campaign", "graph", "post"}, NEW a, a = AnswerTo(ask, db),
           a.ok, a.v.plan.graph = GraphId, a.v.plan.operations # <<>>
    PROVE  BaseId \in DOMAIN library /\ MadeOf(Layered(Graph, Layer), a.v)
<1>1. ImportsOneGraph(library, campaign)
  BY DEF RoutesInv
<1>2. CASE ask \in {"campaign", "graph"}
  <2>1. a \in {ResolveCampaign(library, campaign, db), ResolveGraphOf(library, campaign, db, GraphId)}
    BY <1>2 DEF AnswerTo
  <2> QED
    BY <1>1, <2>1, PlanOfImport DEF Graph, Layer
<1>3. CASE ask = "post"
  <2>1. a = PostResolve(campaign, db)
    BY <1>3 DEF AnswerTo
  <2>2. a = ResolveCampaign(NoImports, campaign, db)
    BY <2>1 DEF PostResolve, Then, Failed
  <2>3. DOMAIN NoImports = {}
    BY DEF NoImports
  <2>4. ImportsOneGraph(NoImports, campaign)
    BY <1>1, <2>3, FS_EmptySet DEF ImportsOneGraph
  <2>5. BaseId \in DOMAIN NoImports
    BY <2>2, <2>4, PlanOfImport
  <2> QED
    BY <2>3, <2>5
<1> QED
  BY <1>2, <1>3

-----------------------------------------------------------------------------
(* Theorems *)

\* The last answer is what the resolver makes of the campaign as it stands and of the database
\* that was asked.
AnswerInv ==
    outcome # NotResolved =>
        /\ outcome.ask \in {"campaign", "graph", "post"}
        /\ outcome.db \in Databases \cup {Healthy}
        /\ outcome.answer = AnswerTo(outcome.ask, outcome.db)

\* A request is answered by the resolver.
LEMMA AnswersStand ==
    ASSUME NEW ask \in {"campaign", "graph", "post"}, NEW db \in Snapshots,
           Answered(ask, db, AnswerTo(ask, db))
    PROVE  AnswerInv'
<1>1. UNCHANGED <<desk, library, campaign>> /\ db \in Databases \cup {Healthy}
  BY DEF Answered, Snapshots
<1>2. outcome' = [ask |-> ask, db |-> db, answer |-> AnswerTo(ask, db)]
  BY DEF Answered
<1>3. AnswerTo(ask, db)' = AnswerTo(ask, db)
  BY <1>1 DEF AnswerTo
<1> QED
  BY <1>1, <1>2, <1>3 DEF AnswerInv

\* An edit takes the answer back.
LEMMA EditsForget == AddEdge \/ WriteFields \/ SkipNode \/ Override => outcome' = NotResolved
  BY DEF AddEdge, WriteFields, SkipNode, Override, SetsGraph, SetsLayer

\* Whatever was edited and asked before, the answer on the table is the resolver's.
THEOREM AnswerInvariant == AuthoringSpec => []AnswerInv
<1>1. AuthoringInit => AnswerInv
  BY DEF AuthoringInit, AnswerInv
<1>2. AnswerInv /\ [AuthoringNext]_authoringVars => AnswerInv'
  <2> SUFFICES ASSUME AnswerInv, [AuthoringNext]_authoringVars PROVE AnswerInv'
    OBVIOUS
  <2>1. CASE AddEdge \/ WriteFields \/ SkipNode \/ Override
    BY <2>1, EditsForget DEF AnswerInv
  <2>2. CASE Resolve
    <3>1. PICK db \in Snapshots : Answered("campaign", db, AnswerTo("campaign", db))
      BY <2>2 DEF Resolve, AnswerTo
    <3> QED
      BY <3>1, AnswersStand
  <2>3. CASE ResolveGraph
    <3>1. PICK db \in Snapshots : Answered("graph", db, AnswerTo("graph", db))
      BY <2>3 DEF ResolveGraph, AnswerTo
    <3> QED
      BY <3>1, AnswersStand
  <2>4. CASE Post
    <3>1. PICK db \in Snapshots : Answered("post", db, AnswerTo("post", db))
      BY <2>4 DEF Post, AnswerTo
    <3> QED
      BY <3>1, AnswersStand
  <2>5. CASE UNCHANGED authoringVars
    BY <2>5 DEF authoringVars, AnswerInv, AnswerTo
  <2> QED
    BY <2>1, <2>2, <2>3, <2>4, <2>5 DEF AuthoringNext
<1> QED
  BY <1>1, <1>2, PTL DEF AuthoringSpec

\* The database of an answer has the fingerprint of the snapshot.
LEMMA OneSnapshot ==
    ASSUME AnswerInv, outcome # NotResolved
    PROVE  /\ outcome.db.fingerprint = Healthy.fingerprint
           /\ outcome.ask \in {"campaign", "graph", "post"}
           /\ outcome.answer = AnswerTo(outcome.ask, outcome.db)
  BY DatabaseAssumption DEF AnswerInv

\* A plan never depends on which lookups happened to succeed: the answer of a database that
\* cannot do all of them is a failure, or the plan and the notes of the healthy one; the
\* healthy one always answers (DbResult, Resolver::resolve).
THEOREM PlansAreWhole == AuthoringSpec => []BrokenReadsNeverShow
<1>1. AnswerInv => BrokenReadsNeverShow
  <2> SUFFICES ASSUME AnswerInv, outcome # NotResolved
               PROVE  /\ outcome.answer \in {Failed, AnswerTo(outcome.ask, Healthy)}
                      /\ outcome.db = Healthy => outcome.answer # Failed
    BY DEF BrokenReadsNeverShow
  <2> DEFINE ask == outcome.ask
             db == outcome.db
  <2>1. /\ db.fingerprint = Healthy.fingerprint /\ ask \in {"campaign", "graph", "post"}
        /\ outcome.answer = AnswerTo(ask, db)
    BY OneSnapshot
  <2> HIDE DEF ask, db
  <2>2. Agrees(AnswerTo(ask, db), AnswerTo(ask, Healthy))
    BY <2>1, AnswersAreSound
  <2>3. AnswerTo(ask, Healthy) # Failed
    BY <2>2 DEF Agrees, Failed
  <2> QED
    BY <2>1, <2>2, <2>3 DEF Agrees, ask, db
<1> QED
  BY <1>1, AnswerInvariant, PTL

\* An operation without actions is never silent: its node has an error, whatever the type of its
\* task, its fields and what the game's data has to say (lower_node, the lowerings, validate_gate).
THEOREM EmptyOperationsAreTold == AuthoringSpec => []EmptyOperationsAreReported
<1>1. AnswerInv => EmptyOperationsAreReported
  <2> SUFFICES ASSUME AnswerInv, HasPlan PROVE EmptyOperationsAreReported
    BY DEF EmptyOperationsAreReported
  <2> DEFINE ask == outcome.ask
             db == outcome.db
  <2>1. /\ db.fingerprint = Healthy.fingerprint /\ ask \in {"campaign", "graph", "post"}
        /\ outcome.answer = AnswerTo(ask, db)
    BY OneSnapshot DEF HasPlan
  <2> HIDE DEF ask, db
  <2>2. NoneSilent(AnswerTo(ask, db))
    BY <2>1, AnswersAreSound
  <2> QED
    BY <2>1, <2>2 DEF NoneSilent, EmptyOperationsAreReported, HasPlan, Operations, ThePlan, Notes
<1> QED
  BY <1>1, AnswerInvariant, PTL

\* A plan of the imported graph is made of that graph, under the layer as it stands.
LEMMA OnlyOfImport ==
    ASSUME AnswerInv, RoutesInv, OfImportedGraph
    PROVE  /\ IsGraph(Graph) /\ IsLayer(Layer) /\ Skipped = Gone(Graph, Layer)
           /\ Layered(Graph, Layer).nodes # <<>>
           /\ OperationsOf(Layered(Graph, Layer), TopologicalOrder(Layered(Graph, Layer)), Operations)
           /\ Warned("graph.cycle") <=>
                 BackEdges(Layered(Graph, Layer), TopologicalOrder(Layered(Graph, Layer))) # {}
           /\ PlanEdges = EdgesIn(Operations)
<1> DEFINE ask == outcome.ask
           db == outcome.db
           a == outcome.answer
<1>1. ask \in {"campaign", "graph", "post"} /\ a = AnswerTo(ask, db)
  BY OneSnapshot DEF OfImportedGraph, HasPlan
<1>2. a.ok /\ a.v.plan.graph = GraphId /\ a.v.plan.operations # <<>>
  BY DEF OfImportedGraph, HasPlan, ThePlan, Operations
<1> HIDE DEF ask, db, a
<1>3. BaseId \in DOMAIN library /\ MadeOf(Layered(Graph, Layer), a.v)
  BY <1>1, <1>2, AnswerIs
<1>4. IsGraph(Graph) /\ IsLayer(Layer)
  BY <1>3 DEF RoutesInv, ImportsOneGraph, Graph, Layer
<1>5. Skipped = Gone(Graph, Layer)
  BY DEF Skipped, Gone
<1>6. Warned("graph.cycle") <=> CycleNoted(a.v.notes)
  BY DEF Warned, CycleNoted, Notes, a
<1>7. a.v.plan.operations = Operations
  BY DEF Operations, ThePlan, a
<1>8. PlanEdges = EdgesIn(Operations)
  BY DEF PlanEdges, EdgesIn
<1> QED
  BY <1>3, <1>4, <1>5, <1>6, <1>7, <1>8 DEF MadeOf

\* Skipping nodes of an imported route neither cuts it nor invents a way, whichever nodes the
\* author disables and in whatever order (remove_disabled, transitions).
THEOREM RoutesStayWhole == AuthoringSpec => []SkippedNodesLeaveTheRoute
<1>1. AnswerInv /\ RoutesInv => SkippedNodesLeaveTheRoute
  <2> SUFFICES ASSUME AnswerInv, RoutesInv, OfImportedGraph PROVE SkippedNodesLeaveTheRoute
    BY DEF SkippedNodesLeaveTheRoute
  <2> DEFINE g == Graph
             gone == Gone(g, Layer)
             edges == EdgesOf(g)
             count == Cardinality(gone)
  <2>1. /\ IsGraph(g) /\ IsLayer(Layer) /\ Skipped = gone /\ KeptNodes = NodeIds(g) \ gone
        /\ PlanEdges = EdgesIn(Operations)
    BY OnlyOfImport DEF KeptNodes
  <2>2. count \in Nat
    <3>1. IsFiniteSet(NodeIds(g)) /\ gone \subseteq NodeIds(g)
      BY <2>1, OneNodePerId DEF Gone
    <3> QED
      BY <3>1, FS_Subset, FS_CardinalityType
  <2>3. /\ \A n \in Nat : \A w \in SimpleWays(edges, gone)[n] :
              {w.from, w.to} \subseteq KeptNodes => <<w.from, w.to, w.guard>> \in PlanEdges
        /\ \A x \in PlanEdges : \E w \in AllWays(edges, gone)[Len(Layer.disabled)] :
              {w.from, w.to} \subseteq KeptNodes /\ x = <<w.from, w.to, w.guard>>
    BY <2>1, OnlyOfImport, LayerLeads
  <2> HIDE DEF gone, count
  <2>4. BetweenKept(SimpleWays(edges, gone)[count]) \subseteq PlanEdges
    BY <2>2, <2>3 DEF BetweenKept
  <2>5. PlanEdges \subseteq BetweenKept(AllWays(edges, gone)[Len(Layer.disabled)])
    BY <2>3 DEF BetweenKept
  <2> QED
    BY <2>1, <2>4, <2>5 DEF SkippedNodesLeaveTheRoute, count
<1> QED
  BY <1>1, AnswerInvariant, RoutesInvariant, PTL

\* Every kept node is one operation, the route starts where the author said or at what a skipped
\* start leads to, and the resolver warns of a cycle exactly when no order from there has every
\* edge lead forward (topological_order, report_back_edges).
THEOREM OperationsFollow == AuthoringSpec => []OperationsFollowTheGraph
<1>1. AnswerInv /\ RoutesInv => OperationsFollowTheGraph
  <2> SUFFICES ASSUME AnswerInv, RoutesInv, OfImportedGraph PROVE OperationsFollowTheGraph
    BY DEF OperationsFollowTheGraph
  <2> DEFINE g == Graph
             gone == Gone(g, Layer)
             h == Layered(g, Layer)
             o == TopologicalOrder(h)
             edges == EdgesOf(g)
             count == Cardinality(gone)
  <2>1. /\ IsGraph(g) /\ IsLayer(Layer) /\ Skipped = gone /\ KeptNodes = NodeIds(g) \ gone
        /\ h.nodes # <<>> /\ OperationsOf(h, o, Operations)
        /\ Warned("graph.cycle") <=> BackEdges(h, o) # {}
        /\ PlanEdges = EdgesIn(Operations)
    BY OnlyOfImport DEF KeptNodes
  <2>2. IsGraph(h)
    BY <2>1, LayerLeaves
  <2>3. count \in Nat
    <3>1. IsFiniteSet(NodeIds(g)) /\ gone \subseteq NodeIds(g)
      BY <2>1, OneNodePerId DEF Gone
    <3> QED
      BY <3>1, FS_Subset, FS_CardinalityType
  <2>4. /\ {Operations[i].node : i \in DOMAIN Operations} = KeptNodes
        /\ DOMAIN Operations = 1..Cardinality(KeptNodes) /\ Cardinality(KeptNodes) \in Nat
        /\ g.entry \in KeptNodes => Operations[1].node = g.entry
        /\ Unbranched(edges) => \A node \in KeptNodes, n \in Nat :
              g.entry \in LeadingTo(edges, gone, node)[n] => Operations[1].node = node
    BY <2>1, LayerKeeps
  <2>5. /\ BackEdges(h, o) # {} <=> \/ \E ids : CircularIds(PlanEdges, ids)
                                    \/ \E e \in PlanEdges : e[2] = Operations[1].node
        /\ BackEdges(h, o) = {} =>
              \A i \in DOMAIN Operations : \A t \in ToSet(Operations[i].next) : i < t.to
    BY <2>1, <2>2, OrderFollows
  <2>6. Cyclic <=> \E ids : CircularIds(PlanEdges, ids)
    BY DEF Cyclic, CircularIds
  <2>7. Linear <=> Unbranched(edges)
    BY DEF Linear, Unbranched
  <2>8. Len(Operations) = Cardinality(KeptNodes)
    <3>1. Operations = [i \in DOMAIN o |-> Operations[i]] /\ DOMAIN Operations = DOMAIN o
      BY <2>1 DEF OperationsOf
    <3> DEFINE T == {Operations[i] : i \in DOMAIN o}
               n == Cardinality(KeptNodes)
    <3>2. n \in Nat /\ DOMAIN o = 1..n
      BY <2>4, <3>1
    <3> HIDE DEF n, h, o
    <3>3. Operations \in [1..n -> T]
      BY <3>1, <3>2
    <3> HIDE DEF T
    <3> QED
      BY <3>2, <3>3 DEF n
  <2> HIDE DEF gone, h, o, count
  <2>9. Linear => \A node \in KeptNodes :
           g.entry \in LeadingTo(edges, Skipped, node)[Cardinality(Skipped)] => Operations[1].node = node
    BY <2>1, <2>3, <2>4, <2>7 DEF count
  <2> QED
    BY <2>1, <2>4, <2>5, <2>6, <2>8, <2>9 DEF OperationsFollowTheGraph
<1> QED
  BY <1>1, AnswerInvariant, RoutesInvariant, PTL
=============================================================================
