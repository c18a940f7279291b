----------------------------- MODULE Conditions -----------------------------
(***************************************************************************)
(* The condition language of a guide (compiler/src/condition.rs): one parser *)
(* over a token sequence, bounded in depth and length, that feeds either of  *)
(* two sinks: the profile that runs today ("runtime", condition.rs) and the  *)
(* kernel artifact ("kernel", compiler/src/kernel/predicate.rs).             *)
(*                                                                          *)
(* A token is [k |-> "(" / ")" / "," / "&&" / "||" / "NOT" / "?"], a name     *)
(* [k |-> "ident", v] or a number [k |-> "number", v]; "?" stands for text the *)
(* lexer refuses.                                                            *)
(***************************************************************************)
EXTENDS Integers, Sequences, SequencesExt

CONSTANTS
    MaxDepth,       \* MAX_CONDITION_DEPTH, 64 in the code
    MaxTokens,      \* MAX_CONDITION_TOKENS, 4096 in the code
    MaxByte,        \* the largest u8, cut down; MaxWord the largest u32 and i32
    MaxWord,
    Need(_, _)      \* QuestMeta::objective_need: count, or -1 for "cannot answer"

Token(kind) == [k |-> kind]
Ident(name) == [k |-> "ident", v |-> name]
Number(n) == [k |-> "number", v |-> n]

-----------------------------------------------------------------------------
(* Predicates: a leaf [t, ...] or a combinator [t |-> "And"/"Or"/"Not", c].      *)

Leaf(tag, args) == [t |-> tag, args |-> args]
Branch(tag, children) == [t |-> tag, c |-> children]
IsBranch(p) == "c" \in DOMAIN p

Word(n) == n \in 0..MaxWord
Byte(n) == n \in 0..MaxByte
Signed(n) == n \in -MaxWord..MaxWord

\* The outcome of a sink's leaf: a predicate, "parse" for a name or an argument it does not
\* take, "objective" when the world database cannot say what the objective needs.
Failure(why) == [ok |-> FALSE, why |-> why]
Success(p) == [ok |-> TRUE, p |-> p]
Checked(fits, p) == IF fits THEN Success(p) ELSE Failure("parse")

RuntimeLeaf(name, args) ==
    CASE name \in {"QuestAccepted", "QuestCompleted", "QuestRewarded"} /\ Len(args) = 1 ->
             Checked(Word(args[1]), Leaf(name, args))
      [] name \in {"Objective", "ItemCount"} /\ Len(args) = 2 ->
             Checked(Word(args[1]) /\ IF name = "Objective" THEN Byte(args[2]) ELSE Word(args[2]),
                     Leaf(name, args))
      [] name = "LevelAtLeast" /\ Len(args) = 1 -> Checked(Byte(args[1]), Leaf(name, args))
      \* The offset has no place in this model; the level alone is kept.
      [] name = "XpAtLeast" /\ Len(args) = 2 ->
             Checked(Byte(args[1]), Leaf("LevelAtLeast", <<args[1]>>))
      [] OTHER -> Failure("parse")

KernelName == [QuestAccepted |-> "QuestInLog", QuestCompleted |-> "QuestComplete",
               QuestRewarded |-> "QuestTurnedIn"]

KernelLeaf(name, args) ==
    CASE name \in DOMAIN KernelName /\ Len(args) = 1 ->
             Checked(Word(args[1]), Leaf(KernelName[name], args))
      [] name = "LevelAtLeast" /\ Len(args) = 1 -> Checked(Byte(args[1]), Leaf(name, args))
      [] name = "XpAtLeast" /\ Len(args) = 2 ->
             Checked(Byte(args[1]) /\ Signed(args[2]), Leaf(name, args))
      [] name = "InSubArea" /\ Len(args) = 1 -> Checked(Word(args[1]), Leaf("InArea", args))
      [] name = "ItemCount" /\ Len(args) = 2 ->
             Checked(Word(args[1]) /\ Word(args[2]), Leaf("ItemCount", <<args[1], "Ge", args[2]>>))
      [] name = "Objective" /\ Len(args) = 2 ->
             IF ~Word(args[1]) \/ ~Byte(args[2]) THEN Failure("parse")
             ELSE IF Need(args[1], args[2]) = -1 THEN Failure("objective")
             ELSE Success(Leaf("QuestObjective", Append(args, Need(args[1], args[2]))))
      [] OTHER -> Failure("parse")

LeafOf(sink, name, args) ==
    IF sink = "kernel" THEN KernelLeaf(name, args) ELSE RuntimeLeaf(name, args)

\* Mutant: negating an item count twice is negating it once.
NotOfInPlace(sink, p) ==
    IF sink = "kernel" /\ p.t = "ItemCount"
    THEN Leaf("ItemCount", <<p.args[1], "Lt", p.args[3]>>)
    ELSE Branch("Not", <<p>>)

\* A negated "at least" of the kernel sink is a "less than"; everything else is wrapped.
NotOf(sink, p) ==
    IF sink = "kernel" /\ p.t = "ItemCount" /\ p.args[2] = "Ge"
    THEN Leaf("ItemCount", <<p.args[1], "Lt", p.args[3]>>)
    ELSE Branch("Not", <<p>>)

Combine(tag, terms) == IF Len(terms) = 1 THEN terms[1] ELSE Branch(tag, terms)

-----------------------------------------------------------------------------
(* The parser.  A parse of the tokens from position i on, at a nesting depth, is  *)
(* a failure or [ok, p, next].  The first failure met ends the parse.            *)

At(ts, i, kind) == i \in DOMAIN ts /\ ts[i].k = kind
Parsed(p, next) == [ok |-> TRUE, p |-> p, next |-> next]

\* parse_predicate, after the name: "(" [number ("," number)*] ")".
RECURSIVE Arguments(_, _, _)
Arguments(ts, i, args) ==
    IF ~At(ts, i, "number") THEN Failure("parse")
    ELSE IF At(ts, i + 1, ",") THEN Arguments(ts, i + 2, Append(args, ts[i].v))
    ELSE IF ~At(ts, i + 1, ")") THEN Failure("parse")
    ELSE Parsed(Append(args, ts[i].v), i + 2)

ParsePredicate(sink, ts, i) ==
    LET list == IF ~At(ts, i + 1, "(") THEN Failure("parse")
                ELSE IF At(ts, i + 2, ")") THEN Parsed(<<>>, i + 3)
                ELSE Arguments(ts, i + 2, <<>>)
        leaf == LeafOf(sink, ts[i].v, list.p)
    IN  IF ~list.ok THEN list ELSE IF ~leaf.ok THEN leaf ELSE Parsed(leaf.p, list.next)

RECURSIVE ParseTerms(_, _, _, _, _, _), ParseNot(_, _, _, _)

\* parse_or and parse_and: terms of the tighter level, separated by the operator.
ParseTerms(sink, ts, i, depth, operator, terms) ==
    LET term == IF operator = "||" THEN ParseTerms(sink, ts, i, depth, "&&", <<>>)
                ELSE ParseNot(sink, ts, i, depth)
        all == Append(terms, term.p)
    IN  IF ~term.ok THEN term
        ELSE IF At(ts, term.next, operator)
             THEN ParseTerms(sink, ts, term.next + 1, depth, operator, all)
        ELSE Parsed(Combine(IF operator = "||" THEN "Or" ELSE "And", all), term.next)

ParsePrimary(sink, ts, i, depth) ==
    LET inner == ParseTerms(sink, ts, i + 1, depth + 1, "||", <<>>)
    IN  IF At(ts, i, "(")
        THEN IF depth = MaxDepth THEN Failure("parse")
             ELSE IF ~inner.ok THEN inner
             ELSE IF At(ts, inner.next, ")") THEN Parsed(inner.p, inner.next + 1)
             ELSE Failure("parse")
        ELSE IF At(ts, i, "ident") THEN ParsePredicate(sink, ts, i)
        ELSE Failure("parse")

ParseNot(sink, ts, i, depth) ==
    LET inner == ParseNot(sink, ts, i + 1, depth + 1)
    IN  IF ~At(ts, i, "NOT") THEN ParsePrimary(sink, ts, i, depth)
        ELSE IF depth = MaxDepth THEN Failure("parse")
        ELSE IF ~inner.ok THEN inner
        ELSE Parsed(NotOf(sink, inner.p), inner.next)

\* parse_with: what is left over is refused, and so is a text the lexer cannot read.
Parse(sink, ts) ==
    LET whole == ParseTerms(sink, ts, 1, 0, "||", <<>>)
    IN  IF ts = <<>> \/ Len(ts) > MaxTokens \/ (\E i \in DOMAIN ts : ts[i].k = "?")
        THEN Failure("parse")
        ELSE IF ~whole.ok THEN whole
        ELSE IF whole.next # Len(ts) + 1 THEN Failure("parse")
        ELSE Success(whole.p)

LowerPredicate(ts) == Parse("kernel", ts)
ParseCondition(ts) == Parse("runtime", ts)

-----------------------------------------------------------------------------
(* Reading predicates. *)

\* The leaves of a predicate, left to right.
RECURSIVE Leaves(_)
Leaves(p) == IF IsBranch(p) THEN FlattenSeq([i \in DOMAIN p.c |-> Leaves(p.c[i])]) ELSE <<p>>

\* Its tags, the combinators' own included (collect_predicate_tags).
RECURSIVE TagsOf(_)
TagsOf(p) == {p.t} \cup (IF IsBranch(p) THEN UNION {TagsOf(p.c[i]) : i \in DOMAIN p.c} ELSE {})
=============================================================================
