---------------------------- MODULE HandoverRace ----------------------------
(***************************************************************************)
(* The race the two guards of control_broker.lua exist for.  A contender of *)
(* the highest rank asks once per tick for the channels it wants; rivals of *)
(* a lower rank ask for whatever they like, as often as they like, before   *)
(* or after it.  Channels and closures are those of Handover.               *)
(***************************************************************************)
EXTENDS Handover, FiniteSets

CONSTANTS Contender, Wanted, High, Low

ASSUME RaceAssumption ==
    /\ Contender \in Owners
    /\ Wanted \subseteq Channels
    /\ High \in Int /\ Low \in Int /\ Low < High

VARIABLE asked   \* the contender has asked in this tick

raceVars == <<handoverVars, asked>>

Rivals == Owners \ {Contender}

RaceInit == Init /\ asked = FALSE

Contested == {c \in Wanted : holder[c] \in Rivals}

\* `acquire` by the contender: refused while a wanted channel is closed to it; granted
\* when none is contested; otherwise it ousts.  The channels a rival holds together
\* are one lease, of which only the first contested channel is charged, so `charged`
\* needs one channel of each rival.
Refused == (\E c \in Wanted : ~Open(c, Contender)) /\ UNCHANGED handoverVars
Granted == Take(Wanted, Contender, High)
Ousting ==
    \E charged \in SUBSET Contested :
        /\ \A c \in Contested : \E d \in charged : holder[d] = holder[c]
        /\ \A c \in Wanted : Open(c, Contender)
        /\ Oust(charged, Contender, High, Contested \ charged)

ContenderAsks ==
    /\ ~asked
    /\ asked' = TRUE
    /\ Refused \/ Granted \/ Ousting

\* The contender gives everything back once it has had it all, and wants it again.
ContenderDone ==
    /\ \A c \in Wanted : holder[c] = Contender
    /\ Drop(Wanted)
    /\ UNCHANGED asked

RivalAsks(o) ==
    /\ \E S \in (SUBSET Channels) \ {{}} : Take(S, o, Low)
    /\ UNCHANGED asked

RivalDrops(o) ==
    /\ \E S \in SUBSET {c \in Channels : holder[c] = o} : S # {} /\ Drop(S)
    /\ UNCHANGED asked

NextTick == asked /\ asked' = FALSE /\ Elapse

RaceNext ==
    \/ ContenderAsks
    \/ ContenderDone
    \/ \E o \in Rivals : RivalAsks(o) \/ RivalDrops(o)
    \/ NextTick

\* The scheduler ticks for ever and the contender retries in every tick.
RaceSpec ==
    /\ RaceInit
    /\ [][RaceNext]_raceVars
    /\ WF_raceVars(ContenderAsks)
    /\ WF_raceVars(NextTick)

-----------------------------------------------------------------------------

\* "A renewing holder and a retrying preemptor converge rather than livelock": the
\* contender always comes to hold what it wants, whatever the rivals ask for and when.
ContenderWins == []<>(\A c \in Wanted : holder[c] = Contender)

=============================================================================
