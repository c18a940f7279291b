----------------------------- MODULE QuestTools -----------------------------
(***************************************************************************)
(* A guide author at work: writes steps, a condition, a gate or the source of *)
(* a bundle of guides, piece by piece, and has the tools read the draft at any *)
(* time.  What the tools promise about their output is stated against readings *)
(* of the draft that do not follow the tools' own steps.                       *)
(***************************************************************************)
EXTENDS ProjectBuilder

CONSTANTS
    StepMenu, WordMenu, TermMenu, LineMenu,     \* what one piece of a draft can be
    MaxSteps, MaxWords, MaxTerms, MaxPieces,    \* bounds: the length of a draft
    Opening,                            \* the first lines of every source
    MaxFiles,                           \* bound: no import into a fuller directory
    Outages,                            \* sets of calls the query server fails to answer
    Archetypes,                         \* characters a guide is compiled for
    ProjectOf(_),                       \* the project around a sequence of steps
    Worlds,                             \* states of a character, for conditions
    NotRead

VARIABLES
    desk,       \* what is being written: "guide", "condition", "gate" or "source"
    draft,      \* the pieces so far
    archetype,
    result,     \* what the tools made of it, NotRead after an edit
    output      \* the names of the project files written so far

toolVars == <<desk, draft, archetype, result, output>>

ToolsInit ==
    /\ desk \in {"guide", "condition", "gate", "source"}
    /\ draft = <<>>
    \* A condition and a bundle are read for nobody in particular.
    /\ archetype \in IF desk \in {"guide", "gate"} THEN Archetypes ELSE {CHOOSE a \in Archetypes : TRUE}
    /\ result = NotRead
    /\ output = {}

AtDesk(what, limit) == desk = what /\ Len(draft) < limit

Adds(piece) ==
    /\ draft' = Append(draft, piece)
    /\ result' = NotRead
    /\ UNCHANGED <<desk, archetype, output>>

WriteStep == AtDesk("guide", MaxSteps) /\ \E step \in StepMenu : Adds(step)
WriteWord == AtDesk("condition", MaxWords) /\ \E word \in WordMenu : Adds(word)
WriteArm == AtDesk("gate", MaxTerms) /\ \E arm \in TermMenu : Adds(arm)
WriteLines == AtDesk("source", MaxPieces) /\ \E lines \in LineMenu : Adds(lines)

ReadDraft(what, outcome) ==
    /\ desk = what
    /\ result = NotRead
    /\ result' = outcome
    /\ UNCHANGED <<desk, draft, archetype, output>>

CompileGuide ==
    ReadDraft("guide", [kernel |-> CompileKernel(ProjectOf(draft), archetype),
                        profile |-> Compile(ProjectOf(draft)),
                        findings |-> Validate(ProjectOf(draft))])

ReadCondition ==
    ReadDraft("condition", [kernel |-> LowerPredicate(FlattenSeq(draft)),
                            runtime |-> ParseCondition(FlattenSeq(draft))])

ReadGate == ReadDraft("gate", ResolveGate(draft, archetype))

\* The file as written so far: the first guide's opening and name stand already.
Source == Opening \o FlattenSeq(draft)

\* A run of import-guides over a directory that holds what earlier runs wrote.
ImportBundle ==
    /\ desk = "source"
    /\ result = NotRead
    /\ Cardinality(output) < MaxFiles
    /\ \E outage \in Outages :
          /\ result' = ImportGuide(Source, outage, output)
          /\ output' = output \cup ToSet(result'.files)
    /\ UNCHANGED <<desk, draft, archetype>>

ToolsNext == \/ WriteStep \/ WriteWord \/ WriteArm \/ WriteLines
             \/ CompileGuide \/ ReadCondition \/ ReadGate \/ ImportBundle

ToolsSpec == ToolsInit /\ [][ToolsNext]_toolVars

-----------------------------------------------------------------------------
(* Gates. *)

\* Every way to break a gate: an arm for each choice of a negated term from every arm.
NegationOf(gate) ==
    FoldLeft(LAMBDA arms, arm :
                FlattenSeq(MapSeq(arms, LAMBDA chosen :
                              MapSeq(arm, LAMBDA t : Append(chosen, [t EXCEPT !.neg = ~@])))),
             <<<<>>>>, gate)

\* The two branches of a fork written as a gate and its negation are never both taken and
\* never both dropped, by any character (resolve_gate: `any` of `all`, `!` per term); a token
\* the vocabulary lacks refuses both, wherever it stands.
ForksSplitTheAudience ==
    (desk = "gate" /\ result # NotRead /\ draft # <<>> /\ Term(Skip) \notin TermsOf(draft))
        => LET other == ResolveGate(NegationOf(draft), archetype).outcome
           IN  IF \E t \in TermsOf(draft) : ~Classified(Canonical(t.token))
               THEN result.outcome = "Refused" /\ other = "Refused"
               ELSE {result.outcome, other} = {"Applies", "DoesNotApply"}

-----------------------------------------------------------------------------
(* Conditions, read by splitting at the loosest operator outside parentheses.     *)

Count(ts, from, to, kind) == Cardinality({i \in from..to : ts[i].k = kind})
Level(ts, i) == Count(ts, 1, i, "(") - Count(ts, 1, i, ")")
Outermost(ts, kind) == {i \in DOMAIN ts : ts[i].k = kind /\ Level(ts, i) = 0}
Balanced(ts) == Level(ts, Len(ts)) = 0 /\ \A i \in DOMAIN ts : Level(ts, i) >= 0

ArgumentsOf(ts) == [i \in 1..((Len(ts) - 2) \div 2) |-> ts[2 * i + 1].v]
PredicateText(ts) ==
    /\ Len(ts) >= 3 /\ (Len(ts) = 3 \/ Len(ts) % 2 = 0)
    /\ ts[1].k = "ident" /\ ts[2].k = "(" /\ ts[Len(ts)].k = ")"
    /\ \A i \in 3..(Len(ts) - 1) : ts[i].k = IF i % 2 = 1 THEN "number" ELSE ","

Both(x, y, value) == IF "none" \in {x, y} THEN "none" ELSE value
Bool(b) == IF b THEN "true" ELSE "false"

\* What a leaf says about a character.
LeafHolds(l, w) ==
    CASE l.t \in {"QuestAccepted", "QuestInLog"} -> l.args[1] \in w.log
      [] l.t \in {"QuestCompleted", "QuestComplete"} -> l.args[1] \in w.complete
      [] l.t = "ItemCount" ->
             IF Len(l.args) = 2 THEN w.bag >= l.args[2]
             ELSE IF l.args[2] = "Ge" THEN w.bag >= l.args[3] ELSE w.bag < l.args[3]
      [] OTHER -> l.args[1] \in w.other

RECURSIVE Holds(_, _)
Holds(p, w) ==
    CASE p.t = "And" -> \A i \in DOMAIN p.c : Holds(p.c[i], w)
      [] p.t = "Or" -> \E i \in DOMAIN p.c : Holds(p.c[i], w)
      [] p.t = "Not" -> ~Holds(p.c[1], w)
      [] OTHER -> LeafHolds(p, w)

RECURSIVE Means(_, _, _, _)
Means(sink, ts, w, depth) ==
    LET SplitAt(i, operator) ==
            LET x == Means(sink, SubSeq(ts, 1, i - 1), w, depth)
                y == Means(sink, SubSeq(ts, i + 1, Len(ts)), w, depth)
            IN  Both(x, y, IF operator = "or" THEN Bool("true" \in {x, y})
                           ELSE Bool(x = "true" /\ y = "true"))
        Inside(from, to) == IF depth = MaxDepth THEN "none"
                            ELSE Means(sink, SubSeq(ts, from, to), w, depth + 1)
        leaf == LeafOf(sink, ts[1].v, ArgumentsOf(ts))
    IN  IF ts = <<>> THEN "none"
        ELSE IF Outermost(ts, "||") # {} THEN SplitAt(Min(Outermost(ts, "||")), "or")
        ELSE IF Outermost(ts, "&&") # {} THEN SplitAt(Min(Outermost(ts, "&&")), "and")
        ELSE IF ts[1].k = "NOT"
             THEN LET x == Inside(2, Len(ts)) IN Both(x, x, Bool(x = "false"))
        ELSE IF ts[1].k = "(" /\ ts[Len(ts)].k = ")" /\ Balanced(SubSeq(ts, 2, Len(ts) - 1))
             THEN Inside(2, Len(ts) - 1)
        ELSE IF PredicateText(ts) /\ leaf.ok THEN Bool(LeafHolds(leaf.p, w))
        ELSE "none"

\* Both sinks accept exactly the grammar's expressions within the nesting and length limits,
\* and what they build is true of a character exactly when the text is (precedence, NOT
\* chains, the folding of NOT into the operator).
ConditionsReadAsWritten ==
    (desk = "condition" /\ result # NotRead)
        => LET ts == FlattenSeq(draft)
               Said(read, w) == IF read.ok THEN Bool(Holds(read.p, w)) ELSE "none"
               Text(sink, w) == IF Len(ts) > MaxTokens THEN "none" ELSE Means(sink, ts, w, 0)
           IN  \A w \in Worlds : /\ Said(result.kernel, w) = Text("kernel", w)
                                 /\ Said(result.runtime, w) = Text("runtime", w)

-----------------------------------------------------------------------------
(* The kernel artifact. *)

Compiled == desk = "guide" /\ result # NotRead
Emitted == Compiled /\ ~result.kernel.refused
Tasks == result.kernel.tasks

\* A character the gate lets through: some arm has no term that stops it.
Admits(gate, a) ==
    gate = Ungated \/ ~\A i \in DOMAIN gate : \E j \in DOMAIN gate[i] :
                          SatisfiedBy(Canonical(gate[i][j].token), a) = gate[i][j].neg

\* The project with everything that is not for this character struck out by hand.
Tailored(project, a) ==
    LET Struck(entries) ==
            MapSeq(SelectSeq(entries, LAMBDA e : Admits(e.gate, a)), LAMBDA e : [e EXCEPT !.gate = Ungated])
        Suits(d) == Admits(d.gate, a) /\ a \in d.suits
        Stays(s) == /\ s.enabled /\ Admits(s.gate, a)
                    /\ \A i \in DOMAIN s.directives : Suits(s.directives[i])
                    /\ Struck(Enabled(s)) # <<>>
        Rewritten(s) == [s EXCEPT !.gate = Ungated, !.directives = <<>>,
                                  !.actions = Struck(Enabled(s)), !.labels = Struck(@),
                                  !.requires = Struck(@), !.completeWith = Struck(@),
                                  !.optional = Struck(@)]
    IN  [project EXCEPT !.steps = MapSeq(SelectSeq(@, Stays), Rewritten),
                        !.headers = [h \in DOMAIN @ |-> Struck(@[h])]]

TailoredSteps == Tailored(ProjectOf(draft), archetype).steps

\* The line numbers of a task are those of its whole step, gated out or not.
Unnumbered(tasks) == MapSeq(tasks, LAMBDA t : [t EXCEPT !.lines = <<>>])

\* Compiling the guide for a character gives what compiling a guide written for that character
\* alone gives: gates are decided before labels, links, `next`, ids and bands are.
SameAsTailored ==
    Emitted => LET Same(tailored) ==
                       /\ ~tailored.refused
                       /\ Unnumbered(Tasks) = Unnumbered(tailored.tasks)
                       /\ \A field \in {"pool", "tags", "meta", "notes"} :
                              result.kernel[field] = tailored[field]
               IN  Same(CompileKernel(Tailored(ProjectOf(draft), archetype), archetype))

Names(entries) == {entries[i].value : i \in DOMAIN entries}

\* A link leads to the following step of the tailored guide or to the last one with the label,
\* a dependency to the last one with the label, and none that has a target is lost
\* (assemble_tasks: "an off-by-one there is silent").
EdgesLeadWhereWritten ==
    Emitted =>
        LET steps == TailoredSteps
            LastWith(label) == {j \in DOMAIN steps : /\ label \in Names(steps[j].labels)
                                                 /\ \A k \in DOMAIN steps : label \in Names(steps[k].labels) => k <= j}
            Wanted(s, i) == IF s.completeWith = <<>> THEN {}
                            ELSE IF s.completeWith[1].value = Next THEN {i + 1} \cap DOMAIN steps
                            ELSE LastWith(s.completeWith[1].value)
        IN  /\ Len(Tasks) = Len(steps)
            /\ \A i \in DOMAIN steps :
                 /\ {t.task : t \in {Tasks[i].completion} \ {Own}} = Wanted(steps[i], i) \ {i}
                 /\ ToSet(Tasks[i].deps) = UNION {LastWith(l) : l \in Names(steps[i].requires)} \ {i}

\* hand_in_termination, "an iff in both directions": a background farm for one quest lasts
\* until the hand-in exactly when a surviving task performs that hand-in.
FarmsEndAtTheHandIn ==
    Emitted =>
        \A i \in DOMAIN Tasks :
            LET farmed == {l.args[1] : l \in {m \in ToSet(Leaves(Tasks[i].completeWhen)) :
                                                m.t = "QuestObjective"}}
                performed(q) == \E j \in DOMAIN Tasks : \E op \in ToSet(Tasks[j].ops) :
                                    op.op = "TurnIn" /\ op.quest = q
            IN  (Tasks[i].lifetime # Exclusive /\ Tasks[i].completeWhen # NoPredicate
                 /\ Cardinality(farmed) = 1)
                => \A q \in farmed :
                     Tasks[i].lifetime.terminateOn =
                         IF performed(q) THEN QuestLeaf("QuestTurnedIn", q) ELSE Tasks[i].completeWhen

\* The walk of a tailored step: every placed movement in order, in as few routes as the medium
\* and the actions in between allow.
WalksAsWritten ==
    Emitted =>
        \A i \in DOMAIN Tasks :
            LET ps == MapSeq(TailoredSteps[i].actions, LAMBDA act : act.p)
                legs == {k \in DOMAIN ps : ps[k].kind = "Travel" /\ ps[k].position # NoPosition}
                NextLeg(k) == {m \in legs : m > k /\ \A n \in legs : n > k => m <= n}
                Stops(k, m) == \/ ps[k].medium # ps[m].medium
                               \/ \E n \in k..m : ps[n].kind \notin {"Travel", "Comment", "Kill", "Condition"}
                stops == {k \in legs : \E m \in NextLeg(k) : Stops(k, m)}
                routes == SelectSeq(Tasks[i].ops, IsMovement)
            IN  /\ FlattenSeq(MapSeq(routes, LAMBDA o : o.route.points))
                     = MapSeq(Ascending(legs), LAMBDA k : ps[k].position)
                /\ Len(routes) = IF legs = {} THEN 0 ELSE Cardinality(stops) + 1

-----------------------------------------------------------------------------
(* The runtime profile and the validator. *)

ActionAt(place) == result.profile.operations[place[1]][place[2]].action
Project == ProjectOf(draft)

\* A broken reference the validator reports is an action the profile lost, and every action the
\* profile lost for its NPC was reported, except an escort, an action without an NPC and an
\* NPC the library knows without its entry.
LostActionsAreReported ==
    Compiled =>
        /\ \A f \in result.findings : f[1] = "BROKEN_NPC_REFERENCE" => ActionAt(f[3]) = Comment
        /\ \A place \in Places(Project) :
             LET p == PayloadAt(Project, place)
             IN  (p.kind \in NpcKinds /\ ActionAt(place) = Comment)
                    => \/ Finding("BROKEN_NPC_REFERENCE", "action", place) \in result.findings
                       \/ p.kind = "Escort" \/ p.npc = NoNpc \/ p.npc \in LibraryIds(Project)

-----------------------------------------------------------------------------
(* The importer, against the lines of the bundle.                                  *)

Imported == desk = "source" /\ result # NotRead
ImportedBlocks == SelectSeq(result.blocks, LAMBDA b : b.ok)
Projects == MapSeq(ImportedBlocks, LAMBDA b : b.project)

LinesWithin(span, kinds) == {i \in (span[1] + 1)..(span[2] - 1) : Source[i].k \in kinds}

\* The guides of a bundle: from an opening to the next fence, which must be a close, and with
\* no directive that cannot be read.
GuideSpans ==
    LET fences == {i \in DOMAIN Source : Source[i].k \in {"open", "close"}}
        spans == {p \in fences \X fences : /\ p[1] < p[2]
                                            /\ Source[p[1]].k = "open" /\ Source[p[2]].k = "close"
                                            /\ LinesWithin(p, {"open", "close"}) = {}}
        sound == {p \in spans : \A i \in LinesWithin(p, {"directive"}) : Resolved(Source[i]).ok}
        opens == Ascending({p[1] : p \in sound})
    IN  MapSeq(opens, LAMBDA i : CHOOSE p \in sound : p[1] = i)

\* The lines of a guide below its first marker.
LinesOfSteps(span, kinds) ==
    {i \in LinesWithin(span, kinds) : \E m \in LinesWithin(span, {"step"}) : m <= i}

LineOf(entries) == MapSeq(entries, LAMBDA e : e.line)

\* Exactly the guides that stand whole between their fences are imported, whatever is wrong
\* with their neighbours, and every command, directive, label and repair is filed under the
\* line of the bundle it was written on (shift_guide_lines).
EveryLineIsFiled ==
    Imported => LET spans == GuideSpans IN
        /\ Len(ImportedBlocks) = Len(spans)
        /\ \A n \in DOMAIN spans :
              LET guide == ImportedBlocks[n].guide
                  span == spans[n]
                  All(field) == FlattenSeq(MapSeq(guide.steps, LAMBDA s : LineOf(s[field])))
                  repaired == {i \in LinesWithin(span, {"directive"}) :
                                  Resolved(Source[i]).name # Source[i].name}
              IN  /\ LineOf(guide.steps) = Ascending(LinesWithin(span, {"step"}))
                  /\ All("commands") = Ascending(LinesOfSteps(span, {"command"}))
                  /\ All("directives") = Ascending(LinesOfSteps(span, {"directive"}))
                  /\ ToSet(LineOf(guide.diagnostics)) = repaired
                  /\ \A d \in ToSet(guide.labels.definitions) :
                        Source[d.line].k = "directive" /\ Resolved(Source[d.line]).value = d.label

\* Folding a placeholder into the step after it loses no label, requirement, link or other
\* directive, doubles none, and keeps the order of the source (build: "carry forward what a
\* placeholder held").
EntriesAreKept ==
    Imported => LET spans == GuideSpans IN
        \A n \in DOMAIN spans :
            LET steps == Projects[n].steps
                span == spans[n]
                All(field) == FlattenSeq(MapSeq(steps, LAMBDA s : LineOf(s[field])))
                Written(names) == Ascending({i \in LinesOfSteps(span, {"directive"}) :
                                             /\ Resolved(Source[i]).name \in names
                                             /\ Resolved(Source[i]).value # NoValue})
                others == {i \in LinesOfSteps(span, {"directive"}) : Resolved(Source[i]).name \notin TypedDirectives}
            IN  /\ All("labels") = Written({"label"})
                /\ All("requires") = Written({"requires"})
                /\ All("completeWith") = Written({"completewith"})
                /\ All("directives") = Ascending(others)

\* From the text to the steps of the project nothing is lost or doubled, nothing changes places
\* and everything names the line it came from.
LinesLeadToTheSource == EveryLineIsFiled /\ EntriesAreKept

\* An import that loses the query server at any call leaves holes and no contradictions: no
\* action names an NPC the project does not have, none is there twice, nor a quest, and the
\* quest of every acceptance and hand-in is there.
LibrariesAreSound ==
    Imported =>
        \A project \in ToSet(Projects) :
            /\ \A f \in Validate(project) : f[1] \notin {"BROKEN_NPC_REFERENCE", "DUPLICATE_NPC", "DUPLICATE_QUEST"}
            /\ \A q \in OfKindAt(project, {"Accept", "TurnIn"}) :
                  PayloadAt(project, q).quest \in {x.id : x \in ToSet(project.quests)}

\* What the world database says a gate needs: who to kill, and how much must come of it.
NeededFor(counted) ==
    IF counted[1] = "item" THEN [kill |-> IF counted[2] \in DOMAIN DbItems THEN DbItems[counted[2]] ELSE <<>>,
                                 count |-> counted[3]]
    ELSE LET objectives == IF counted[2] \in DOMAIN DbQuests THEN DbQuests[counted[2]].objectives ELSE <<>>
             o == objectives[counted[3]]
         IN  IF counted[3] \notin DOMAIN objectives THEN [kill |-> <<>>, count |-> 0]
             ELSE [kill |-> IF o.kind = "KillCreature" THEN <<o.target>>
                            ELSE IF o.kind = "CollectItem" THEN o.sources ELSE <<>>,
                   count |-> o.required]

\* A wait whose step says nothing before it on how to end it, and which kills can end, has the
\* kill right in front of it, of the right creatures and of enough of them, however many waits
\* the step has (enrich_unsatisfiable_gates); other waits of that kind are reported.
WaitsAreProvided ==
    (Imported /\ result.outage = {}) =>
        \A n \in DOMAIN Projects :
            LET guide == ImportedBlocks[n].guide
                project == Projects[n]
                Acts(step) == {c \in DOMAIN step.commands : step.commands[c].name \in {"mob", "unitscan", "item", "use"}}
                Counts(c) == IF c.name \notin Waits THEN <<>>
                             ELSE CountedBy([kind |-> "Condition", role |-> "Completion",
                                             expression |-> GatingCondition(c.name, c.args)])
                Bare(step) == {c \in DOMAIN step.commands : Counts(step.commands[c]) # <<>>
                                                           /\ \A a \in Acts(step) : a > c}
                Reported(what) == \E k \in DOMAIN project.notes :
                                      /\ project.notes[k][1] = "UNSATISFIABLE_GATE"
                                      /\ project.notes[k][2] = what
                Provided(op, needed, counted) ==
                    \E g \in 2..Len(op.actions) :
                        /\ CountedBy(op.actions[g].p) = counted
                        /\ LET kill == op.actions[g - 1].p
                           IN  /\ kill.kind = "Kill" /\ ~kill.watch
                               /\ kill.creatures = needed.kill
                               /\ kill.quantity >= needed.count
                planned == Planned(guide.steps)
            IN  \A i \in DOMAIN planned : \A c \in Bare(guide.steps[planned[i]]) :
                    LET counted == Counts(guide.steps[planned[i]].commands[c])
                        needed == NeededFor(counted)
                        unknown == counted[1] = "objective" /\ counted[2] \notin DOMAIN DbQuests
                    IN  IF needed.kill # <<>> THEN Provided(project.steps[i], needed, counted)
                        ELSE Reported(counted[2]) \/ unknown

\* A run adds one file for every guide it imports and takes none away: guides of one name, guides
\* named like the file of another, and runs into a used directory (dedupe_filename).
NoProjectIsOverwritten ==
    [][(desk = "source" /\ result' # NotRead)
         => /\ output \subseteq output'
            /\ Cardinality(output') = Cardinality(output)
                                      + Cardinality({n \in DOMAIN result'.blocks : result'.blocks[n].ok})]_toolVars

\* "The runtime holds - and grinds, or walks - instead of running ahead"
\* (project_builder.rs:1448): a wait the importer writes is one in the profile.
WaitsHold ==
    Imported =>
        \A project \in ToSet(Projects) : \A steps \in ToSet(Compile(project).operations) :
            \A made \in ToSet(steps) :
                (made.action.kind = "Condition" /\ made.action.role = "Completion")
                    => made.action.condition # AlwaysTrue

=============================================================================
