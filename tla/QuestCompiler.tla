---------------------------- MODULE QuestCompiler ----------------------------
(***************************************************************************)
(* The profile that runs today, compiled from a project                      *)
(* (compiler/src/lib.rs), and the validator that looks at the same project    *)
(* (validator/src/lib.rs).  Neither looks at a gate or at the enabled flag.   *)
(***************************************************************************)
EXTENDS TaskGraph

CONSTANTS
    NoNpc,          \* an action that names no NPC
    Origin          \* the position (0, 0, 0) on map 0

-----------------------------------------------------------------------------
(* References. *)

NpcKinds == {"Vendor", "Train", "Flight", "Repair", "LearnFlightPath", "Escort", "Bank",
             "Mailbox", "InteractNPC", "Accept", "TurnIn"}
InnkeeperKinds == {"Hearth", "SetHearth"}

LibraryIds(project) == {n.id : n \in ToSet(project.npcs)}

\* The entry of a reference, 0 when the library lacks the NPC or its entry.
EntryOf(project, npc) ==
    LET known == {n \in ToSet(project.npcs) : n.id = npc /\ n.entry # 0}
    IN  IF known = {} THEN 0 ELSE (CHOOSE n \in known : TRUE).entry

\* All actions of a project with the place they stand at.
ActionPlaces(project) ==
    {<<i, j>> : i \in DOMAIN project.steps, j \in 1..Max({0} \cup {Len(s.actions) : s \in ToSet(project.steps)})}

Places(project) == {p \in ActionPlaces(project) : p[2] \in DOMAIN project.steps[p[1]].actions}
PayloadAt(project, place) == project.steps[place[1]].actions[place[2]].p

-----------------------------------------------------------------------------
(* Compiler::compile. *)

KnownClasses == Classes \cup {"DeathKnight"}

NoGuard == [t |-> "no guard"]

\* parse_class_guard: a class tail [neg, names], <<>> for none, or no guard and a note.
ClassGuard(restriction) ==
    LET any == Combine("Any", MapSeq(restriction.names, LAMBDA c : Leaf("ClassIs", <<c>>)))
    IN  IF restriction = <<>> \/ ~(ToSet(restriction.names) \subseteq KnownClasses) THEN NoGuard
        ELSE IF restriction.neg THEN Branch("Not", <<any>>) ELSE any

Comment == [kind |-> "Comment"]
AlwaysTrue == [t |-> "AlwaysTrue"]

\* resolve_action, the actions that need an NPC.
NpcAction(project, p) ==
    IF EntryOf(project, p.npc) = 0 THEN Comment ELSE [kind |-> p.kind, npc |-> EntryOf(project, p.npc)]

\* resolve_action: what cannot be resolved becomes a comment, an object that cannot be resolved
\* the entry 0, a condition that cannot be read always true.
ResolveAction(project, p) ==
    CASE p.kind \in NpcKinds -> NpcAction(project, p)
      [] p.kind \in InnkeeperKinds -> [kind |-> "Hearth", npc |-> EntryOf(project, p.npc)]
      [] p.kind = "Travel" ->
             IF p.position = NoPosition THEN Comment ELSE [kind |-> "Travel", position |-> p.position]
      [] p.kind = "Kill" ->
             IF p.watch THEN Comment
             ELSE [kind |-> "Kill", creatures |-> p.creatures, quantity |-> p.quantity]
      [] p.kind = "UseItem" -> [kind |-> "UseItem", item |-> p.item]
      [] p.kind = "LootObject" ->
             [kind |-> "Loot", object |-> IF p.object \in project.objects THEN p.object ELSE 0]
      [] p.kind = "Condition" ->
             [kind |-> "Condition", role |-> p.role,
              condition |-> IF ParseCondition(p.expression).ok THEN ParseCondition(p.expression).p
                            ELSE AlwaysTrue]
      [] OTHER -> [kind |-> p.kind]

\* resolve_operation and compile: every action of every step, in order, with its guard, and
\* the library's NPCs that can be walked to.
Compile(project) ==
    [operations |-> MapSeq(project.steps, LAMBDA s :
                        MapSeq(s.actions, LAMBDA act : [action |-> ResolveAction(project, act.p),
                                                        guard |-> ClassGuard(act.restriction)])),
     npcs |-> MapSeq(SelectSeq(project.npcs, LAMBDA n : n.entry # 0 /\ n.position # NoPosition),
                     LAMBDA n : n.entry)]

-----------------------------------------------------------------------------
(* Validator::validate: a set of findings <<code, what, which>>. *)

Finding(code, what, which) == <<code, what, which>>

\* The actions whose NPC the validator looks up.
CheckedKinds == NpcKinds \ {"Escort"}

\* Mutant: an action the library cannot place is reported where it is a vendor only.
BrokenVendorReferences(project) ==
    {Finding("BROKEN_NPC_REFERENCE", "action", place) : place \in
        {q \in Places(project) :
            LET p == PayloadAt(project, q)
            IN  p.kind = "Vendor" /\ p.npc # NoNpc /\ p.npc \notin LibraryIds(project)}}

BrokenNpcReferences(project) ==
    {Finding("BROKEN_NPC_REFERENCE", "action", place) : place \in
        {q \in Places(project) :
            LET p == PayloadAt(project, q)
            IN  p.kind \in CheckedKinds /\ p.npc # NoNpc /\ p.npc \notin LibraryIds(project)}}

\* Every element of a sequence whose key was met before it.
Repeated(s, Key(_)) == {s[j] : j \in {k \in DOMAIN s : \E i \in 1..(k - 1) : Key(s[i]) = Key(s[k])}}

Duplicates(project) ==
    LET withEntry == SelectSeq(project.npcs, LAMBDA n : n.entry # 0)
    IN  {Finding("DUPLICATE_NPC", "npc", n.id) : n \in Repeated(withEntry, LAMBDA n : n.entry)}
        \cup {Finding("DUPLICATE_QUEST", "quest", q.id) : q \in Repeated(project.quests, LAMBDA q : q.id)}

OfKindAt(project, kinds) == {q \in Places(project) : PayloadAt(project, q).kind \in kinds}
Accepted(project) == {PayloadAt(project, q).quest : q \in OfKindAt(project, {"Accept"})}

\* An imported project's quests come from the world database and are not looked up.
UnresolvedQuests(project) ==
    IF project.imported THEN {}
    ELSE {Finding("UNRESOLVED_QUEST", "action", q) : q \in
            {r \in OfKindAt(project, {"Accept", "TurnIn"}) :
                PayloadAt(project, r).quest \notin {x.id : x \in ToSet(project.quests)}}}

QuestChain(project) ==
    {Finding("QUEST_CHAIN_INCONSISTENCY", "action", q) : q \in
        {r \in OfKindAt(project, {"TurnIn"}) : PayloadAt(project, r).quest \notin Accepted(project)}}

\* The steps that accept a quest.
AcceptedAt(project, quest) ==
    {q[1] : q \in {r \in OfKindAt(project, {"Accept"}) : PayloadAt(project, r).quest = quest}}

\* The library as a map: of two records of one quest the later counts.
LibraryQuests(project) ==
    {project.quests[i] : i \in {j \in DOMAIN project.quests :
        \A k \in (j + 1)..Len(project.quests) : project.quests[k].id # project.quests[j].id}}

\* A prerequisite whose first acceptance comes in a later step.
OperationOrder(project) ==
    UNION {{Finding("INVALID_OPERATION_ORDER", "step", <<i, pre>>) :
                i \in {j \in AcceptedAt(project, quest.id) :
                          AcceptedAt(project, pre) # {} /\ Min(AcceptedAt(project, pre)) > j}}
           : <<quest, pre>> \in UNION {{q} \X ToSet(q.prerequisites) : q \in LibraryQuests(project)}}

\* Variables: read where a condition's text contains the name, written by SetVariable.
Reads(project, variable) ==
    {q[1] : q \in {r \in OfKindAt(project, {"Condition"}) :
                      \E t \in ToSet(PayloadAt(project, r).expression) :
                          t.k = "ident" /\ t.v = variable}}
Writes(project, variable) ==
    {q[1] : q \in {r \in OfKindAt(project, {"SetVariable"}) : PayloadAt(project, r).name = variable}}

CircularConditions(project) ==
    UNION {{Finding("CIRCULAR_CONDITION", "step", <<i, v>>) :
                i \in {j \in Reads(project, v) : Writes(project, v) # {} /\ Min(Writes(project, v)) > j}}
           : v \in project.variables}

UnusedVariables(project) ==
    LET unread == {v \in project.variables : Reads(project, v) = {}}
        written == {PayloadAt(project, q).name : q \in OfKindAt(project, {"SetVariable"})}
    IN  {Finding("UNDECLARED_VARIABLE", "variable", v) : v \in written \ project.variables}
        \cup {Finding("UNUSED_VARIABLE", "variable", v) : v \in unread \ written}
        \cup {Finding("VARIABLE_WRITTEN_BUT_UNREAD", "variable", v) : v \in unread \cap written}

PositionMissing(position) == position \in {NoPosition, Origin}

MissingCoordinates(project) ==
    {Finding("MISSING_COORDS", "npc", n.id) : n \in {m \in ToSet(project.npcs) : PositionMissing(m.position)}}
    \cup {Finding("MISSING_COORDS", "action", q) : q \in
            {r \in OfKindAt(project, {"Travel"}) : PositionMissing(PayloadAt(project, r).position)}}

\* collect_references: every NPC and quest an action names.
UnusedAssets(project) ==
    LET npcs == {PayloadAt(project, q).npc : q \in OfKindAt(project, NpcKinds \cup InnkeeperKinds)}
        quests == {PayloadAt(project, q).quest : q \in OfKindAt(project, {"Accept", "TurnIn"})}
    IN  {Finding("UNUSED_ASSET", "npc", n.id) : n \in {m \in ToSet(project.npcs) : m.id \notin npcs}}
        \cup {Finding("UNUSED_ASSET", "quest", q.id) : q \in {r \in ToSet(project.quests) : r.id \notin quests}}

Validate(project) ==
    Duplicates(project) \cup BrokenNpcReferences(project) \cup UnresolvedQuests(project)
    \cup CircularConditions(project) \cup UnusedVariables(project) \cup MissingCoordinates(project)
    \cup QuestChain(project) \cup OperationOrder(project) \cup UnusedAssets(project)
=============================================================================
