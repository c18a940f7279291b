----------------------------- MODULE GuideGates -----------------------------
(***************************************************************************)
(* The static gates of a guide (compiler/src/kernel/archetype.rs): `<<`      *)
(* tails and archetype directives, each resolved against one archetype when  *)
(* the guide is compiled.                                                    *)
(*                                                                          *)
(* A gate is a sequence of arms joined by `/`, an arm a sequence of terms    *)
(* joined by blanks, a term [neg, token]; <<>> stands for "no gate".         *)
(***************************************************************************)
EXTENDS Integers, Sequences, SequencesExt

CONSTANTS
    MaxRate,        \* the largest rate in thousandths, u32::MAX in the code
    Unreadable      \* the value of a directive that has no readable one

Ungated == <<>>
Term(token) == [neg |-> FALSE, token |-> token]
Except(token) == [neg |-> TRUE, token |-> token]

-----------------------------------------------------------------------------
(* Vocabulary. *)

Classes == {"Warrior", "Paladin", "Hunter", "Rogue", "Priest", "Shaman", "Mage",
            "Warlock", "Druid"}
Races == {"Human", "Orc", "Dwarf", "NightElf", "Undead", "Tauren", "Gnome", "Troll",
          "BloodElf", "Draenei"}
Factions == {"Alliance", "Horde"}
Expansions == {"tbc", "wotlk", "classic"}
\* Known words no archetype satisfies; "70" stands for every bare number.
Unrepresentable == {"DK", "era", "sod", "70"}
Skip == "skip"

\* The closed table of misspellings.
Canonical(token) == CASE token = "Pala" -> "Paladin"
                      [] token = "TBC" -> "tbc"
                      [] token = "WOTLK" -> "wotlk"
                      [] OTHER -> token

Classified(token) == token \in Classes \cup Races \cup Factions \cup Expansions \cup Unrepresentable

SatisfiedBy(token, a) == token \in {a.class, a.race, a.faction, a.expansion}

-----------------------------------------------------------------------------
(* `<<` gates. *)

Resolution(outcome, notes) == [outcome |-> outcome, notes |-> notes]
Decided(applies) == IF applies THEN "Applies" ELSE "DoesNotApply"

TermsOf(gate) == UNION {ToSet(gate[i]) : i \in DOMAIN gate}

\* `/` beside a blank, with arms of different length, can be grouped in two ways.
Ambiguous(gate) == \E i, j \in DOMAIN gate : Len(gate[i]) # Len(gate[j])

\* Mutant: classification stops at the arm that decides.
ResolveGateLazily(gate, a) ==
    LET Holds(t) == Classified(Canonical(t.token)) /\ SatisfiedBy(Canonical(t.token), a) # t.neg
        taken == {i \in DOMAIN gate : \A j \in DOMAIN gate[i] : Holds(gate[i][j])}
    IN  IF gate = Ungated \/ taken # {} THEN Resolution("Applies", {})
        ELSE IF Term(Skip) \in TermsOf(gate) THEN Resolution("Disabled", {})
        ELSE IF \E t \in TermsOf(gate) : ~Classified(Canonical(t.token)) THEN Resolution("Refused", {})
        ELSE Resolution("DoesNotApply", {})

\* The sentinel comes before everything else, then every token is classified, and
\* only then is any of them evaluated.
ResolveGate(gate, a) ==
    LET terms == TermsOf(gate)
        respelt == {"Normalised" : t \in {u \in terms : Canonical(u.token) # u.token}}
        doubtful == IF Ambiguous(gate) THEN {"Ambiguous"} ELSE {}
        Holds(t) == SatisfiedBy(Canonical(t.token), a) # t.neg
    IN  IF gate = Ungated THEN Resolution("Applies", {})
        ELSE IF Term(Skip) \in terms THEN Resolution("Disabled", {})
        ELSE IF (\E i \in DOMAIN gate : gate[i] = <<>>)
                    \/ \E t \in terms : ~Classified(Canonical(t.token))
            THEN Resolution("Refused", {})
        ELSE Resolution(Decided(\E i \in DOMAIN gate :
                                   \A j \in DOMAIN gate[i] : Holds(gate[i][j])),
                        respelt \cup doubtful)

-----------------------------------------------------------------------------
(* Directives: [name, value, gate].  A value is already split: `#phase` has     *)
(* <<low, high>> or <<single>>, `#xprate` an operator and the digits of a         *)
(* decimal, `#season` a number; Unreadable is any other text or none.            *)

\* A decimal in thousandths, -1 when the code refuses it: no whole digit, a fourth
\* decimal, or a number beyond the width.
ParseMilli(whole, fraction) ==
    LET scaled(i) == IF i \in DOMAIN fraction THEN fraction[i] * (10 ^ (3 - i)) ELSE 0
        milli == whole * 1000 + scaled(1) + scaled(2) + scaled(3)
    IN  IF whole < 0 \/ Len(fraction) > 3 \/ milli > MaxRate THEN -1 ELSE milli

PhaseApplies(value, a) ==
    IF value = Unreadable THEN "Refused"
    ELSE Decided(a.phase # -1 /\ value[1] <= a.phase /\ a.phase <= value[Len(value)])

XpRateApplies(value, a) ==
    IF value = Unreadable \/ value.op \notin {"<", ">"}
            \/ ParseMilli(value.whole, value.fraction) = -1
    THEN "Refused"
    ELSE LET threshold == ParseMilli(value.whole, value.fraction)
         IN  Decided(IF value.op = "<" THEN a.rate < threshold ELSE a.rate > threshold)

SeasonApplies(value, a) ==
    IF value = Unreadable THEN "Refused" ELSE Decided(a.season = value)

\* Names the table does not list narrow nothing.
ResolveDirective(d, a) ==
    LET gated == ResolveGate(d.gate, a)
        allegiance == {"aldor", "scryer"}
        outcome ==
            CASE d.name \in allegiance -> Decided(a.allegiance = d.name)
              [] d.name = "hardcore" -> Decided(a.hardcore)
              [] d.name = "softcore" -> Decided(~a.hardcore)
              [] d.name = "hardcoreserver" -> Decided(a.hardcoreServer)
              [] d.name = "softcoreserver" -> Decided(~a.hardcoreServer)
              [] d.name = "ssf" -> Decided(a.selfFound)
              [] d.name = "ah" -> Decided(~a.selfFound)
              [] d.name = "flyable" -> Decided(a.canFly)
              [] d.name = "noflyable" -> Decided(~a.canFly)
              [] d.name = "questguide" -> Decided(a.mode = "questguide")
              [] d.name \in Expansions -> Decided(a.expansion = d.name)
              [] d.name = "phase" -> PhaseApplies(d.value, a)
              [] d.name = "xprate" -> XpRateApplies(d.value, a)
              [] d.name = "season" -> SeasonApplies(d.value, a)
              [] OTHER -> "Applies"
    IN  IF gated.outcome # "Applies" THEN gated ELSE Resolution(outcome, gated.notes)
=============================================================================
