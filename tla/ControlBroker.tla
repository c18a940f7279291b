--------------------------- MODULE ControlBroker ---------------------------
(***************************************************************************)
(* kernel/control_broker.lua: the arbiter of the control channels.  A       *)
(* plugin acquires a lease on channels; the lease carries a resolved        *)
(* priority, an expiry tick and a generation that is never issued twice.    *)
(* Higher priority preempts, and a preemption never hands over in the same  *)
(* tick: the channel cools down and the loser is barred a tick longer.      *)
(* Losing MOVEMENT, in whatever way, lifts every key (MovementRelease).     *)
(*                                                                          *)
(* The order of the channels in a request decides which lease a renewal     *)
(* extends and which channel of a preempted lease is charged.  Callers send *)
(* every order, so a request is a set and those two are chosen freely.      *)
(***************************************************************************)
EXTENDS Bands, MovementRelease

CONSTANTS
    Channels,       \* the control channels
    Movement,       \* the one channel whose loss releases the keys
    Owners,         \* plugins, activities and services that ask for channels
    NoOwner,        \* the owner of nothing
    Requests,       \* the requests callers make of `acquire`
    CooldownTicks,  \* `cooldown_ticks`, DEFAULT_COOLDOWN_TICKS in production
    MaxGeneration,  \* bound: leases granted in one behaviour
    MaxTick         \* bound: ticks in one behaviour

Generations == 1 .. MaxGeneration
Free == 0

\* What a caller passes to `acquire`.
RequestType ==
    [owner : Owners, channels : SUBSET Channels, band : BandNames,
     offset : Nat, tier : Tiers \cup {NoTier}, ttl : Nat]

ASSUME BrokerAssumption ==
    /\ MaxGeneration \in Nat
    /\ MaxTick \in Nat
    /\ CooldownTicks \in Nat
    /\ Movement \in Channels
    /\ NoOwner \notin Owners
    /\ Requests \subseteq RequestType

VARIABLES
    lease,          \* generation -> the lease granted under it
    held,           \* `_held`: channel -> generation of the lease holding it
    cooling,        \* `_cooling_until`: channel -> tick before which it is closed
    barred,         \* `_preempted_until`: channel -> owner -> tick before which closed
    caretakers,     \* `_live_caretakers`: the wrappers handed out and not yet stale
    lastGeneration, \* `_next_generation`
    tick            \* `_tick_index`

brokerVars == <<lease, held, cooling, barred, caretakers, lastGeneration, tick>>
vars == <<brokerVars, movementVars>>

LeaseType ==
    [owner : Owners \cup {NoOwner}, channels : SUBSET Channels, priority : Int,
     expires : Nat, from : Owners \cup {NoOwner}, live : BOOLEAN]

\* A generation not granted yet, or revoked: nothing reads the rest of the record.
Dead == [owner |-> NoOwner, channels |-> {}, priority |-> 0, expires |-> 0,
         from |-> NoOwner, live |-> FALSE]

Live == {g \in Generations : lease[g].live}

\* The leases reached through `_held`, which is what every sweep iterates.
Holding == {g \in Generations : lease[g].live /\ \E c \in Channels : held[c] = g}

\* is_generation_valid: the stamp names a lease that holds something, and its owner.
GenerationValid(generation, owner) ==
    generation \in Holding /\ lease[generation].owner = owner

\* A caretaker works in the tick it was issued, until end_tick or revocation.
CaretakerValid(generation) ==
    lease[generation].live /\ [generation |-> generation, issued |-> tick] \in caretakers

TypeOK ==
    /\ lease \in [Generations -> LeaseType]
    /\ held \in [Channels -> Generations \cup {Free}]
    /\ cooling \in [Channels -> Nat]
    /\ barred \in [Channels -> [Owners -> Nat]]
    /\ caretakers \subseteq [generation : Generations, issued : Nat]
    /\ lastGeneration \in 0 .. MaxGeneration
    /\ tick \in Nat
    /\ MovementTypeOK

Init ==
    /\ lease = [g \in Generations |-> Dead]
    /\ held = [c \in Channels |-> Free]
    /\ cooling = [c \in Channels |-> 0]
    /\ barred = [c \in Channels |-> [o \in Owners |-> 0]]
    /\ caretakers = {}
    /\ lastGeneration = 0
    /\ tick = 0
    /\ MovementInit

-----------------------------------------------------------------------------
(* Tearing leases down *)

\* Unhook the leases G from the channels they list.
Unhook(G) ==
    /\ lease' = [g \in Generations |-> IF g \in G THEN Dead ELSE lease[g]]
    /\ held' = [c \in Channels |->
                  IF held[c] \in G /\ c \in lease[held[c]].channels THEN Free ELSE held[c]]

\* The keys come up when one of the leases G holds MOVEMENT, and only then.
ReleaseIfMoving(G) ==
    IF \E g \in G : Movement \in lease[g].channels
    THEN ReleaseAll
    ELSE UNCHANGED movementVars

\* `_revoke`, for every lease of G.
Revoke(G) == Unhook(G) /\ ReleaseIfMoving(G)

\* `release`, by any caretaker of the lease, stale ones included.
Release(g) ==
    /\ g \in Live
    /\ Revoke({g})
    /\ UNCHANGED <<cooling, barred, caretakers, lastGeneration, tick>>

\* The three sweeps.  Each collects its leases first and then revokes them.
Sweep(G) ==
    /\ Revoke(G)
    /\ UNCHANGED <<cooling, barred, caretakers, lastGeneration, tick>>

OwnedBy(owner) == {g \in Holding : lease[g].owner = owner}
DelegatedFrom(owner) == {g \in Holding : lease[g].from = owner}
Below(priority) == {g \in Holding : lease[g].priority < priority}

RevokeOwner(owner) == OwnedBy(owner) # {} /\ Sweep(OwnedBy(owner))
RevokeDelegationsFrom(owner) == DelegatedFrom(owner) # {} /\ Sweep(DelegatedFrom(owner))
RevokeBelow(priority) == Below(priority) # {} /\ Sweep(Below(priority))

-----------------------------------------------------------------------------
(* Acquisition *)

\* Mutant: an outranked channel counts as free, so the stronger asker gets it at once.
PlanTakesOver(c, owner, priority) ==
    CASE tick < cooling[c] -> "channel_cooling"
      [] tick >= cooling[c] /\ tick < barred[c][owner] -> "preempted_backoff"
      [] OTHER ->
           IF held[c] = Free THEN "free"
           ELSE IF lease[held[c]].owner = owner THEN "renew"
           ELSE IF priority > lease[held[c]].priority THEN "free"
           ELSE "channel_held"

\* `_plan_channel`, in its order: closed to everyone, closed to the loser, free,
\* held by the asker, held by someone weaker, held.
Plan(c, owner, priority) ==
    CASE tick < cooling[c] -> "channel_cooling"
      [] tick >= cooling[c] /\ tick < barred[c][owner] -> "preempted_backoff"
      [] OTHER ->
           IF held[c] = Free THEN "free"
           ELSE IF lease[held[c]].owner = owner THEN "renew"
           ELSE IF priority > lease[held[c]].priority THEN "preempt"
           ELSE "channel_held"

\* Every channel is planned before any is touched: one refusal refuses them all.
Plannable(chans, owner, priority) ==
    /\ chans # {}
    /\ \A c \in chans : Plan(c, owner, priority) \in {"free", "renew", "preempt"}

Planned(outcome, chans, owner, priority) ==
    {c \in chans : Plan(c, owner, priority) = outcome}

IssueCaretaker(g) ==
    caretakers' = caretakers \cup {[generation |-> g, issued |-> tick]}

\* Mutant: the loser is barred no longer than everyone else.
PreemptWithoutHeadStart(chans, owner, priority) ==
    LET contested == Planned("preempt", chans, owner, priority)
        losers == {held[c] : c \in contested}
    IN  /\ Plannable(chans, owner, priority)
        /\ contested # {}
        /\ \E first \in [losers -> contested] :
             /\ \A g \in losers : held[first[g]] = g
             /\ cooling' = [c \in Channels |->
                  IF \E g \in losers : first[g] = c THEN tick + CooldownTicks ELSE cooling[c]]
        /\ Revoke(losers)
        /\ UNCHANGED <<barred, caretakers, lastGeneration, tick>>

\* Revoke the weaker incumbents and grant nothing.  Revoking a lease frees all its
\* channels, so only the first contested channel of each lease is charged a
\* cool-down and a back-off: `first` picks it.
Preempt(chans, owner, priority) ==
    LET contested == Planned("preempt", chans, owner, priority)
        losers == {held[c] : c \in contested}
    IN  /\ Plannable(chans, owner, priority)
        /\ contested # {}
        /\ \E first \in [losers -> contested] :
             /\ \A g \in losers : held[first[g]] = g
             /\ LET charged == {first[g] : g \in losers}
                IN  /\ cooling' = [c \in Channels |->
                         IF c \in charged THEN tick + CooldownTicks ELSE cooling[c]]
                    /\ barred' = [c \in Channels |-> [o \in Owners |->
                         IF c \in charged /\ o = lease[held[c]].owner
                         THEN tick + CooldownTicks + 1
                         ELSE barred[c][o]]]
        /\ Revoke(losers)
        /\ UNCHANGED <<caretakers, lastGeneration, tick>>

\* The same owner asking again extends one of its leases, the one holding the first
\* renewed channel, under the same generation and priority, and the free channels
\* of the request join that lease.
Renew(chans, owner, priority, ttl) ==
    LET renewed == Planned("renew", chans, owner, priority)
        joining == Planned("free", chans, owner, priority)
    IN  /\ Plannable(chans, owner, priority)
        /\ Planned("preempt", chans, owner, priority) = {}
        /\ \E c \in renewed :
             LET g == held[c]
             IN  /\ lease' = [lease EXCEPT ![g].expires = tick + ttl,
                                           ![g].channels = @ \cup joining]
                 /\ held' = [d \in Channels |-> IF d \in joining THEN g ELSE held[d]]
                 /\ IssueCaretaker(g)
        /\ UNCHANGED <<cooling, barred, lastGeneration, tick, movementVars>>

\* Mutant: the generation of a dead lease is used again.
GrantReusing(chans, owner, priority, ttl) ==
    \E g \in Generations :
        /\ ~lease[g].live
        /\ Plannable(chans, owner, priority)
        /\ \A c \in chans : Plan(c, owner, priority) = "free"
        /\ lease' = [lease EXCEPT ![g] =
             [owner |-> owner, channels |-> chans, priority |-> priority,
              expires |-> tick + ttl, from |-> NoOwner, live |-> TRUE]]
        /\ held' = [c \in Channels |-> IF c \in chans THEN g ELSE held[c]]
        /\ lastGeneration' = IF g > lastGeneration THEN g ELSE lastGeneration
        /\ IssueCaretaker(g)
        /\ UNCHANGED <<cooling, barred, tick, movementVars>>

\* Every channel was free: a new lease under a new generation.
Grant(chans, owner, priority, ttl) ==
    LET g == lastGeneration + 1
    IN  /\ lastGeneration < MaxGeneration
        /\ Plannable(chans, owner, priority)
        /\ \A c \in chans : Plan(c, owner, priority) = "free"
        /\ lease' = [lease EXCEPT ![g] =
             [owner |-> owner, channels |-> chans, priority |-> priority,
              expires |-> tick + ttl, from |-> NoOwner, live |-> TRUE]]
        /\ held' = [c \in Channels |-> IF c \in chans THEN g ELSE held[c]]
        /\ lastGeneration' = g
        /\ IssueCaretaker(g)
        /\ UNCHANGED <<cooling, barred, tick, movementVars>>

AcquireAs(chans, owner, priority, ttl) ==
    \/ Preempt(chans, owner, priority)
    \/ Renew(chans, owner, priority, ttl)
    \/ Grant(chans, owner, priority, ttl)

\* `acquire`.  A request that does not resolve, carries no time to live or is
\* refused by a channel changes nothing and is no step.
Acquire(r) ==
    /\ r.ttl >= 1
    /\ Resolves(r.band, r.offset, r.tier)
    /\ AcquireAs(r.channels, r.owner, Resolve(r.band, r.offset), r.ttl)

\* A caretaker's `renew`: an acquire of what its lease holds, as its owner.
CaretakerRenew(g, ttl) ==
    /\ CaretakerValid(g)
    /\ ttl >= 1
    /\ AcquireAs(lease[g].channels, lease[g].owner, lease[g].priority, ttl)

\* Mutant: the delegator's lease keeps listing the channel it lent.
DelegateWithoutDetaching(c, from, to) ==
    LET old == held[c]
        g == lastGeneration + 1
    IN  /\ lastGeneration < MaxGeneration
        /\ old # Free
        /\ lease[old].owner = from
        /\ to # from
        /\ lease' = [lease EXCEPT
             ![g] = [owner |-> to, channels |-> {c}, priority |-> lease[old].priority,
                     expires |-> lease[old].expires, from |-> from, live |-> TRUE]]
        /\ held' = [held EXCEPT ![c] = g]
        /\ lastGeneration' = g
        /\ IssueCaretaker(g)
        /\ IF c = Movement THEN ReleaseAll ELSE UNCHANGED movementVars
        /\ UNCHANGED <<cooling, barred, tick>>

\* `delegate`: detach one channel and lease it to a service at the delegator's
\* priority and expiry.  The keys come up when the channel is MOVEMENT.
Delegate(c, from, to) ==
    LET old == held[c]
        g == lastGeneration + 1
    IN  /\ lastGeneration < MaxGeneration
        /\ old # Free
        /\ lease[old].owner = from
        /\ to # from
        /\ lease' = [lease EXCEPT
             ![old].channels = @ \ {c},
             ![g] = [owner |-> to, channels |-> {c}, priority |-> lease[old].priority,
                     expires |-> lease[old].expires, from |-> from, live |-> TRUE]]
        /\ held' = [held EXCEPT ![c] = g]
        /\ lastGeneration' = g
        /\ IssueCaretaker(g)
        /\ IF c = Movement THEN ReleaseAll ELSE UNCHANGED movementVars
        /\ UNCHANGED <<cooling, barred, tick>>

-----------------------------------------------------------------------------
(* The tick *)

\* `begin_tick` publishes the index and arbitrates nothing.
BeginTick ==
    /\ tick < MaxTick
    /\ tick' = tick + 1
    /\ UNCHANGED <<lease, held, cooling, barred, caretakers, lastGeneration, movementVars>>

Expired == {g \in Holding : tick >= lease[g].expires}

\* Mutant: the cool-downs count down, below zero too.
ArbitrateCountsDown ==
    /\ Revoke(Expired)
    /\ cooling' = [c \in Channels |-> cooling[c] - 1]
    /\ UNCHANGED <<barred, caretakers, lastGeneration, tick>>

\* `arbitrate`: expire against one view of the holdings, then retire the cool-downs
\* and back-offs that have run out.
Arbitrate ==
    /\ Revoke(Expired)
    /\ cooling' = [c \in Channels |-> IF tick >= cooling[c] THEN 0 ELSE cooling[c]]
    /\ barred' = [c \in Channels |-> [o \in Owners |->
                    IF tick >= barred[c][o] THEN 0 ELSE barred[c][o]]]
    /\ UNCHANGED <<caretakers, lastGeneration, tick>>

\* `end_tick`: every wrapper goes stale, the leases survive.
EndTick ==
    /\ caretakers # {}
    /\ caretakers' = {}
    /\ UNCHANGED <<lease, held, cooling, barred, lastGeneration, tick, movementVars>>

-----------------------------------------------------------------------------
(* The movement module under the broker.  A `move` commits while the lease behind *)
(* it is valid, whatever the channels of that lease: the commit stage checks the   *)
(* generation and nothing else.  The scheduler reconciles after the commits.       *)

CommitMove(g, keys) ==
    /\ GenerationValid(g, lease[g].owner)
    /\ SetDesired(keys)
    /\ UNCHANGED brokerVars

ReconcileKeys == Reconcile /\ UNCHANGED brokerVars

BypassKeys == PluginDrives /\ UNCHANGED brokerVars

\* Callers reach the broker at any point of the tick, from plugins, evaluators and
\* engine callbacks, so nothing here orders the operations.
Next ==
    \/ \E r \in Requests : Acquire(r)
    \/ \E g \in Generations : Release(g)
    \/ \E g \in Generations, ttl \in {r.ttl : r \in Requests} : CaretakerRenew(g, ttl)
    \/ \E c \in Channels, from, to \in Owners : Delegate(c, from, to)
    \/ \E o \in Owners : RevokeOwner(o)
    \/ \E o \in Owners : RevokeDelegationsFrom(o)
    \/ \E p \in {lease[g].priority : g \in Live} : RevokeBelow(p + 1)
    \/ BeginTick
    \/ Arbitrate
    \/ EndTick
    \/ \E g \in Generations, keys \in SUBSET Keys : CommitMove(g, keys)
    \/ ReconcileKeys
    \/ BypassKeys

Spec == Init /\ [][Next]_vars

-----------------------------------------------------------------------------
(* Properties *)

\* `_held` and the channel lists of the leases are two tables that every operation
\* must keep in step: a channel is held by a lease exactly when the lease lists it.
HoldingsAgree ==
    /\ \A c \in Channels : held[c] # Free =>
         held[c] \in Live /\ c \in lease[held[c]].channels
    /\ \A g \in Live : \A c \in lease[g].channels : held[c] = g

\* A generation names one grant for ever: once its lease is dead it stays dead, so
\* an intent stamped with it can never become valid again.
GenerationsNeverReturn ==
    [][\A g \in Generations :
         g <= lastGeneration /\ ~lease[g].live => ~lease'[g].live]_vars

\* A channel passes from one owner to another only through being free, or by the
\* holder's own delegation at the holder's priority: never by preemption.
NoDirectHandover ==
    [][\A c \in Channels :
         held[c] # Free /\ held'[c] # Free /\ held'[c] # held[c] =>
            /\ lease'[held'[c]].from = lease[held[c]].owner
            /\ lease'[held'[c]].priority = lease[held[c]].priority]_vars

\* However MOVEMENT leaves a lease, the body stops in the same step: no desire and no
\* navigation survive it, and no key either unless the injector failed to lift it.
BodyStopsWithTheLease ==
    [][held[Movement] # Free /\ held'[Movement] # held[Movement] =>
         /\ desired' = {}
         /\ pressed' = {}
         /\ down' \subseteq KeyFaults
         /\ NavFaults \/ ~navigating']_vars

\* No desire is left standing when nobody holds MOVEMENT.  It holds as long as callers
\* emit `move` only under MOVEMENT, which the commit stage does not check.
MovesAreDisciplined ==
    [][desired' \notin {{}, desired} => held[Movement] # Free]_vars

DesireIsLeased == desired # {} => held[Movement] # Free
=============================================================================
