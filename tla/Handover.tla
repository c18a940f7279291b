------------------------------ MODULE Handover ------------------------------
(***************************************************************************)
(* What the ControlBroker promises its callers, with no leases, generations *)
(* or absolute ticks: who holds a channel, at what rank, and for how many   *)
(* more ticks it is closed to everyone or to one loser.  A channel changes  *)
(* hands by being free in between, except that a holder may lend it; taking *)
(* a channel by rank closes it first, to everyone for Cooldown ticks and to *)
(* the loser for one tick more.                                             *)
(***************************************************************************)
EXTENDS Integers

CONSTANTS Channels, Owners, NoOwner, Ranks, Cooldown

VARIABLES
    holder,   \* channel -> owner holding it
    rank,     \* channel -> rank it is held at
    cool,     \* channel -> ticks it stays closed to everyone
    bar       \* channel -> owner -> ticks it stays closed to that owner

handoverVars == <<holder, rank, cool, bar>>

Nobody == NoOwner

Init ==
    /\ holder = [c \in Channels |-> Nobody]
    /\ rank = [c \in Channels |-> 0]
    /\ cool = [c \in Channels |-> 0]
    /\ bar = [c \in Channels |-> [o \in Owners |-> 0]]

\* Closed neither to everyone nor to this owner.
Open(c, o) == cool[c] = 0 /\ bar[c][o] = 0

\* An owner takes free channels, at the rank it asks with or at the rank of a
\* channel of the same request that it holds already.
Take(S, o, r) ==
    /\ \A c \in S : Open(c, o) /\ holder[c] \in {Nobody, o}
    /\ LET mine == {c \in S : holder[c] = o}
       IN  \E taken \in IF mine = {} THEN {r} ELSE {rank[c] : c \in mine} :
             /\ holder' = [c \in Channels |-> IF c \in S THEN o ELSE holder[c]]
             /\ rank' = [c \in Channels |-> IF c \in S \ mine THEN taken ELSE rank[c]]
    /\ UNCHANGED <<cool, bar>>

\* Channels fall free: released, expired or swept.
Drop(S) ==
    /\ holder' = [c \in Channels |-> IF c \in S THEN Nobody ELSE holder[c]]
    /\ rank' = [c \in Channels |-> IF c \in S THEN 0 ELSE rank[c]]
    /\ UNCHANGED <<cool, bar>>

\* Mutant: the loser is barred no longer than everyone else.
OustWithoutHeadStart(S, o, r, others) ==
    LET contested == {c \in S : holder[c] \notin {Nobody, o}}
    IN  /\ contested # {}
        /\ \A c \in S : Open(c, o)
        /\ \A c \in contested : rank[c] < r
        /\ \A c \in others : \E d \in contested : holder[c] = holder[d]
        /\ holder' = [c \in Channels |->
                        IF c \in contested \cup others THEN Nobody ELSE holder[c]]
        /\ rank' = [c \in Channels |->
                        IF c \in contested \cup others THEN 0 ELSE rank[c]]
        /\ cool' = [c \in Channels |-> IF c \in contested THEN Cooldown ELSE cool[c]]
        /\ UNCHANGED bar

\* An owner outranks the holders of some channels of its request: they fall free
\* and every one of them closes.  Other channels of the losers fall free with them.
Oust(S, o, r, others) ==
    LET contested == {c \in S : holder[c] \notin {Nobody, o}}
    IN  /\ contested # {}
        /\ \A c \in S : Open(c, o)
        /\ \A c \in contested : rank[c] < r
        /\ \A c \in others : \E d \in contested : holder[c] = holder[d]
        /\ holder' = [c \in Channels |->
                        IF c \in contested \cup others THEN Nobody ELSE holder[c]]
        /\ rank' = [c \in Channels |->
                        IF c \in contested \cup others THEN 0 ELSE rank[c]]
        /\ cool' = [c \in Channels |-> IF c \in contested THEN Cooldown ELSE cool[c]]
        /\ bar' = [c \in Channels |-> [p \in Owners |->
                        IF c \in contested /\ p = holder[c]
                        THEN Cooldown + 1 ELSE bar[c][p]]]

\* A holder lends one channel, at its own rank.
Lend(c, o) ==
    /\ holder[c] \notin {Nobody, o}
    /\ holder' = [holder EXCEPT ![c] = o]
    /\ UNCHANGED <<rank, cool, bar>>

\* One tick passes.
Less(n) == IF n > 0 THEN n - 1 ELSE 0
Elapse ==
    /\ cool' = [c \in Channels |-> Less(cool[c])]
    /\ bar' = [c \in Channels |-> [o \in Owners |-> Less(bar[c][o])]]
    /\ UNCHANGED <<holder, rank>>

Next ==
    \/ \E S \in SUBSET Channels, o \in Owners, r \in Ranks : Take(S, o, r)
    \/ \E S \in SUBSET Channels : Drop(S)
    \/ \E S, others \in SUBSET Channels, o \in Owners, r \in Ranks : Oust(S, o, r, others)
    \/ \E c \in Channels, o \in Owners : Lend(c, o)
    \/ Elapse

Spec == Init /\ [][Next]_handoverVars
=============================================================================
