----------------------------- MODULE GuideParser -----------------------------
(***************************************************************************)
(* From a bundle of guides to parsed guides (importer/src: guide_splitter,   *)
(* directives, lexer, step_builder, label_graph, parse_guide_bundle).         *)
(*                                                                          *)
(* A bundle is a sequence of lines, a line a record with a kind k:            *)
(*   "open", "close"   `RegisterGuide([[` and `]])`                          *)
(*   "blank"                                                                *)
(*   "step"            a marker, with its gate                               *)
(*   "directive"       `#name value << gate`                                 *)
(*   "faction"         `<< value`                                            *)
(*   "command"         `.name args << left >> note << tail`                  *)
(*   "text"            anything else; comment: it begins with `--`           *)
(* A gate is one of GuideGates.  Notes and text carry the NPC names marked in  *)
(* them as hints.                                                           *)
(***************************************************************************)
EXTENDS TaskGraph

\* A directive written without a value.
NoValue == Unreadable

-----------------------------------------------------------------------------
(* extract_guide_blocks. *)

LinesOfKind(bundle, kind, from, to) == {i \in from..to : bundle[i].k = kind}

Block(from, to) == [ok |-> TRUE, from |-> from, to |-> to]
BadBlock(code, where) == [ok |-> FALSE, error |-> <<code>> \o where]

\* A block whose close is missing ends the scan; one that holds another opening is left
\* there, and the scan goes on at that opening.
RECURSIVE ScanBlocks(_, _)
ScanBlocks(bundle, cursor) ==
    LET opens == LinesOfKind(bundle, "open", cursor, Len(bundle))
        open == Min(opens)
        closes == LinesOfKind(bundle, "close", open, Len(bundle))
        nested == LinesOfKind(bundle, "open", open + 1, Min(closes))
    IN  IF opens = {} THEN <<>>
        ELSE IF closes = {} THEN <<BadBlock("UnterminatedBlock", <<open>>)>>
        ELSE IF nested # {}
             THEN <<BadBlock("NestedOpenBeforeClose", <<open, Min(nested)>>)>>
                  \o ScanBlocks(bundle, Min(nested))
        ELSE <<Block(open, Min(closes))>> \o ScanBlocks(bundle, Min(closes) + 1)

ExtractGuideBlocks(bundle) == ScanBlocks(bundle, 1)

-----------------------------------------------------------------------------
(* GuideSplitter::split: the lines of one block, numbered from its opening on.   *)

Body(bundle, block) ==
    LET inside == [i \in 1..(block.to - block.from - 1) |->
                      [no |-> i + 1, text |-> bundle[block.from + i]]]
    IN  SelectSeq(inside, LAMBDA l : l.text.k # "blank")

FirstMarker(body) ==
    LET markers == Where(body, LAMBDA l : l.text.k = "step")
    IN  IF markers = {} THEN Len(body) + 1 ELSE Min(markers)

HeaderLines(body) == SubSeq(body, 1, FirstMarker(body) - 1)
StepLines(body) == SubSeq(body, FirstMarker(body), Len(body))

-----------------------------------------------------------------------------
(* The closed vocabulary (directives.rs). *)

KnownDirectives ==
    {"OnClick", "ah", "aldor", "chapter", "chapters", "classic", "completewith", "defaultfor",
     "displayname", "flyable", "group", "hardcore", "hardcoreserver", "hidewindow", "icon",
     "ignorecorpse", "include", "internal", "label", "level", "loop", "name", "next", "noflyable",
     "optional", "phase", "qremove", "questguide", "requires", "scryer", "season", "softcore",
     "softcoreserver", "ssf", "sticky", "subgroup", "subweight", "tbc", "tip", "title", "version",
     "wotlk", "xprate"}

Alias(name, value) == [name |-> name, value |-> value]

DirectiveAliases ==
    [compltewith |-> Alias("completewith", NoValue),
     completewithTBTurnins |-> Alias("completewith", "TBTurnins"),
     completewity |-> Alias("completewith", NoValue),
     lable |-> Alias("label", NoValue),
     noflyasble |-> Alias("noflyable", NoValue),
     requries |-> Alias("requires", NoValue)]

\* The name and value of an authored directive, or the reason to refuse the guide.
Resolved(d) ==
    IF d.name \in DOMAIN DirectiveAliases
    THEN LET alias == DirectiveAliases[d.name]
             collides == alias.value # NoValue /\ (d.value # NoValue \/ d.gate # Ungated)
         IN  IF collides THEN [ok |-> FALSE, error |-> "AliasValueConflict"]
             ELSE [ok |-> TRUE, name |-> alias.name,
                   value |-> IF alias.value # NoValue THEN alias.value ELSE d.value]
    ELSE IF d.name \in KnownDirectives THEN [ok |-> TRUE, name |-> d.name, value |-> d.value]
    ELSE [ok |-> FALSE, error |-> "UnknownDirective"]

-----------------------------------------------------------------------------
(* Lexer::tokenize: a token is the line's record with its number. *)

\* The tail of a command: that of its note if there is one, else the one before it.
Suffix(c) == IF c.note /\ c.tail # Ungated THEN c.tail ELSE c.left

Lexed(l) ==
    LET t == l.text
    IN  CASE t.k = "directive" ->
                 [k |-> "directive", name |-> Resolved(t).name, value |-> Resolved(t).value,
                  gate |-> t.gate, original |-> t.name, line |-> l.no]
          [] t.k = "command" ->
                 [k |-> "command", name |-> t.name, args |-> t.args, suffix |-> Suffix(t),
                  hints |-> t.hints, line |-> l.no]
          [] t.k = "step" -> [k |-> "step", gate |-> t.gate, line |-> l.no]
          [] t.k = "text" -> [k |-> "text", comment |-> t.comment, hints |-> t.hints, line |-> l.no]
          [] OTHER -> [k |-> t.k, value |-> t.value, comment |-> FALSE, hints |-> <<>>, line |-> l.no]

Misnamed(body) == Where(body, LAMBDA l : l.text.k = "directive" /\ ~Resolved(l.text).ok)

Tokens(lines) == MapSeq(lines, Lexed)

\* Header-region tokens: `#key value` and the faction; anything else is kept and never read.
Headers(tokens) ==
    MapSeq(SelectSeq(tokens, LAMBDA t : t.k \in {"directive", "faction"}),
           LAMBDA t : [key |-> IF t.k = "faction" THEN "faction" ELSE t.name, value |-> t.value,
                       gate |-> IF t.k = "faction" THEN Ungated ELSE t.gate, line |-> t.line])

\* One report per occurrence of a misspelling that was read as something else.
Normalised(tokens) ==
    LET repaired == SelectSeq(tokens, LAMBDA t : t.k = "directive" /\ t.original # t.name)
    IN  MapSeq(repaired, LAMBDA t : [line |-> t.line, from |-> t.original, to |-> t.name])

-----------------------------------------------------------------------------
(* StepBuilder::build: a marker opens a step, every token up to the next belongs to it.  *)

StepFrom(tokens, i) ==
    LET later == {j \in (i + 1)..Len(tokens) : tokens[j].k = "step"}
        last == IF later = {} THEN Len(tokens) ELSE Min(later) - 1
        inside == SubSeq(tokens, i + 1, last)
        Inside(kinds) == SelectSeq(inside, LAMBDA t : t.k \in kinds)
    IN  [gate |-> tokens[i].gate, line |-> tokens[i].line, lineEnd |-> tokens[last].line,
         directives |-> Inside({"directive"}), commands |-> Inside({"command"}),
         text |-> Inside({"text", "faction"}),
         hints |-> FlattenSeq(MapSeq(Inside({"command", "text", "faction"}), LAMBDA t : t.hints))]

StepsOf(tokens) ==
    MapSeq(Ascending(Where(tokens, LAMBDA t : t.k = "step")), LAMBDA i : StepFrom(tokens, i))

-----------------------------------------------------------------------------
(* LabelGraphBuilder::resolve.  `#completewith next` is no reference. *)

DirectivesNamed(step, name) == SelectSeq(step.directives, LAMBDA d : d.name = name)
NamedWithValue(step, name) == SelectSeq(DirectivesNamed(step, name), LAMBDA d : d.value # NoValue)

Definitions(steps) ==
    FlattenSeq([i \in DOMAIN steps |->
        MapSeq(NamedWithValue(steps[i], "label"),
               LAMBDA d : [label |-> d.value, step |-> i, gate |-> d.gate, line |-> d.line])])

References(steps, name) ==
    FlattenSeq([i \in DOMAIN steps |->
        MapSeq(SelectSeq(NamedWithValue(steps[i], name),
                         LAMBDA d : ~(name = "completewith" /\ d.value = Next)),
               LAMBDA d : [label |-> d.value, step |-> i, line |-> d.line])])

LabelGraph(steps) ==
    LET Undefined(refs) ==
            SelectSeq(refs, LAMBDA r : \A d \in ToSet(Definitions(steps)) : d.label # r.label)
    IN  [definitions |-> Definitions(steps),
         references |-> References(steps, "completewith"),
         unresolved |-> Undefined(References(steps, "completewith")),
         requires |-> References(steps, "requires"),
         unresolvedRequires |-> Undefined(References(steps, "requires"))]

-----------------------------------------------------------------------------
(* parse_guide and parse_guide_bundle. *)

ParseGuide(body) ==
    LET header == Tokens(HeaderLines(body))
        steps == StepsOf(Tokens(StepLines(body)))
    IN  IF Misnamed(body) # {}
        THEN BadBlock(Resolved(body[Min(Misnamed(body))].text).error, <<body[Min(Misnamed(body))].no>>)
        ELSE [ok |-> TRUE, headers |-> Headers(header), steps |-> steps,
              labels |-> LabelGraph(steps),
              diagnostics |-> Normalised(header \o Tokens(StepLines(body)))]

Moved(entries, offset) == MapSeq(entries, LAMBDA e : [e EXCEPT !.line = @ + offset])

\* Mutant: what hangs below a step keeps the numbers of its block.
ShiftMarkersOnly(guide, offset) ==
    [guide EXCEPT !.steps = MapSeq(@, LAMBDA s : [s EXCEPT !.line = @ + offset, !.lineEnd = @ + offset])]

\* shift_guide_lines: every line number of a guide becomes one of the bundle.
ShiftGuideLines(guide, offset) ==
    LET Shifted(step) == [step EXCEPT !.line = @ + offset, !.lineEnd = @ + offset,
                                      !.directives = Moved(@, offset), !.commands = Moved(@, offset)]
    IN  [guide EXCEPT !.headers = Moved(@, offset), !.steps = MapSeq(@, Shifted),
                      !.labels = [part \in DOMAIN @ |-> Moved(@[part], offset)],
                      !.diagnostics = Moved(@, offset)]

\* One result for every block, in the order of the bundle.  A refusal inside a block keeps
\* the line number it had there.
ParseGuideBundle(bundle) ==
    MapSeq(ExtractGuideBlocks(bundle), LAMBDA b :
        IF ~b.ok THEN b
        ELSE LET guide == ParseGuide(Body(bundle, b))
             IN  IF guide.ok THEN ShiftGuideLines(guide, b.from - 1) ELSE guide)
=============================================================================
