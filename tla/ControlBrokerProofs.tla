------------------------ MODULE ControlBrokerProofs ------------------------
(***************************************************************************)
(* What the ControlBroker guarantees for any channels, owners, requests,    *)
(* cool-down and bounds, and that it implements Handover.                   *)
(*                                                                          *)
(* The inductive invariant is BrokerInv: the types, the agreement of the    *)
(* two tables and FutureIsDead.  Every operation either tears leases down   *)
(* (Unhook), extends one (Renew) or creates one (Grant, Delegate), so three *)
(* lemmas carry most of the argument.                                       *)
(***************************************************************************)
EXTENDS BrokerPromise, TLAPS

\* No lease exists under a generation that has not been issued.
FutureIsDead == \A g \in Generations : g > lastGeneration => ~lease[g].live

BrokerInv == TypeOK /\ HoldingsAgree /\ FutureIsDead

-----------------------------------------------------------------------------

\* An owner's band decides before any offset does: no offset lifts a request past one
\* of a higher band.
THEOREM BandsDominate ==
    ASSUME NEW a \in BandNames, NEW b \in BandNames, NEW m, NEW n,
           NEW t, NEW u, Resolves(a, m, t), Resolves(b, n, u),
           BandMin[a] < BandMin[b]
    PROVE  Resolve(a, m) < Resolve(b, n)
<1>1. BandMax[a] < BandMin[b]
  BY DEF BandNames, BandMin, BandMax
<1> QED
  BY <1>1 DEF Resolves, Resolve, BandNames, BandMin, BandMax

\* No offset lifts an activity into the combat bands or above: what a goal asks for can
\* always be preempted by a rotation, by survival and by safety.
THEOREM ActivitiesStayBelowCombat ==
    ASSUME NEW b, NEW n, Resolves(b, n, "activity")
    PROVE  Resolve(b, n) < BandMin["COMBAT"]
  BY DEF Resolves, Resolve, Permits, TierPermissions, Tiers, NoTier, BandNames, BandMin, BandMax

\* The bands share out 0..99 without gap or overlap, so that a priority lies in one band.
LEMMA NameOfPriority ==
    ASSUME NEW p \in 0 .. 99
    PROVE  NameFor(p) \in BandNames /\ BandMin[NameFor(p)] <= p /\ p <= BandMax[NameFor(p)]
<1>1. \E b \in BandNames : BandMin[b] <= p /\ p <= BandMax[b]
  BY SMTT(30) DEF BandNames, BandMin, BandMax
<1> QED
  BY <1>1 DEF NameFor

\* Two tables written apart agree: the interrupt slot of the injector's spell queue goes to
\* exactly the priorities that may ask for an immediate commit.
THEOREM InterruptSlotIsForReactions ==
    ASSUME NEW p \in 0 .. 99
    PROVE  SpellQueuePriority(p) = 7 <=> p >= ImmediateMinPriority
<1>1. NameFor(p) \in BandNames /\ BandMin[NameFor(p)] <= p /\ p <= BandMax[NameFor(p)]
  BY NameOfPriority
<1>2. NameFor(p) \in {"SAFETY", "SURVIVAL"} <=> p >= 70
  BY <1>1, SMTT(30) DEF BandNames, BandMin, BandMax
<1> QED
  BY <1>2 DEF SpellQueuePriority, ImmediateMinPriority, BandMin

-----------------------------------------------------------------------------

\* Tearing down live leases keeps the tables well-formed and in step, and revives none.
LEMMA UnhookKeeps ==
    ASSUME TypeOK, HoldingsAgree, NEW G \in SUBSET Generations, Unhook(G)
    PROVE  /\ lease' \in [Generations -> LeaseType]
           /\ held' \in [Channels -> Generations \cup {Free}]
           /\ HoldingsAgree'
           /\ \A g \in Generations : lease'[g].live => lease'[g] = lease[g] /\ g \notin G
           /\ \A c \in Channels : held'[c] # held[c] =>
                /\ held'[c] = Free
                /\ held[c] \in G
                /\ c \in lease[held[c]].channels
<1>1. Dead \in LeaseType
  BY DEF Dead, LeaseType
<1>2. lease' \in [Generations -> LeaseType]
  BY <1>1 DEF Unhook, TypeOK
<1>3. held' \in [Channels -> Generations \cup {Free}]
  BY DEF Unhook, TypeOK
<1>4. \A g \in Generations : lease'[g].live => lease'[g] = lease[g] /\ g \notin G
  BY DEF Unhook, Dead
<1>5. \A c \in Channels : held'[c] # held[c] =>
        /\ held'[c] = Free
        /\ held[c] \in G
        /\ c \in lease[held[c]].channels
  BY DEF Unhook
<1>6. \A c \in Channels : held'[c] # Free => held'[c] \in Live' /\ c \in lease'[held'[c]].channels
  <2> SUFFICES ASSUME NEW c \in Channels, held'[c] # Free
               PROVE  held'[c] \in Live' /\ c \in lease'[held'[c]].channels
    OBVIOUS
  <2>1. held'[c] = held[c] /\ held[c] \in Live /\ c \in lease[held[c]].channels
    BY <1>5 DEF HoldingsAgree
  <2>2. held[c] \notin G
    BY <2>1 DEF Unhook
  <2>3. held[c] \in Generations /\ lease'[held[c]] = lease[held[c]]
    BY <2>1, <2>2 DEF Unhook, Live
  <2> QED
    BY <2>1, <2>3 DEF Live
<1>7. \A g \in Live' : \A c \in lease'[g].channels : held'[c] = g
  <2> SUFFICES ASSUME NEW g \in Live', NEW c \in lease'[g].channels
               PROVE  held'[c] = g
    OBVIOUS
  <2>1. g \in Generations /\ g \in Live /\ g \notin G /\ lease'[g] = lease[g]
    BY <1>4 DEF Live
  <2>2. held[c] = g /\ c \in Channels
    BY <2>1 DEF HoldingsAgree, TypeOK, LeaseType
  <2> QED
    BY <2>1, <2>2 DEF Unhook
<1> QED
  BY <1>2, <1>3, <1>4, <1>5, <1>6, <1>7 DEF HoldingsAgree

\* It leaves the surviving leases as they were, and survivors are not of its set.
LEMMA Survivors ==
    ASSUME BrokerInv, NEW G \in SUBSET Generations, Unhook(G), NEW g \in Holding'
    PROVE  g \in Holding /\ g \notin G /\ lease'[g] = lease[g]
<1>1. g \in Generations /\ lease'[g].live /\ \E c \in Channels : held'[c] = g
  BY DEF Holding
<1>2. lease'[g] = lease[g] /\ g \notin G
  BY <1>1, UnhookKeeps DEF BrokerInv
<1>3. PICK c \in Channels : held'[c] = g
  BY <1>1
<1>4. held[c] = g
  <2>1. g # Free
    BY <1>1 DEF Generations, Free
  <2> QED
    BY <1>3, <2>1, UnhookKeeps DEF BrokerInv
<1> QED
  BY <1>1, <1>2, <1>4 DEF Holding

\* The body ends up well-formed whatever the calls to the injector did.
LEMMA ReleaseAllType ==
    ASSUME MovementTypeOK, ReleaseAll
    PROVE  MovementTypeOK'
  BY KeysAssumption DEF MovementTypeOK, ReleaseAll

\* Tearing leases down, with whatever becomes of the keys, keeps the types.
LEMMA RevokeType ==
    ASSUME MovementTypeOK, NEW G, ReleaseIfMoving(G)
    PROVE  MovementTypeOK'
<1>1. CASE ReleaseAll
  BY <1>1, ReleaseAllType
<1>2. CASE UNCHANGED movementVars
  BY <1>2 DEF MovementTypeOK, movementVars
<1> QED
  BY <1>1, <1>2 DEF ReleaseIfMoving

-----------------------------------------------------------------------------
(* One lemma per operation: it keeps the inductive invariant. *)

\* A new broker: nobody holds anything and no generation has been issued.
LEMMA InitInv == Init => BrokerInv
<1> SUFFICES ASSUME Init PROVE BrokerInv
  OBVIOUS
<1> USE DEF Init, Free
<1>1. TypeOK
  <2>1. lease \in [Generations -> LeaseType]
    BY DEF Dead, LeaseType
  <2>2. lastGeneration \in 0 .. MaxGeneration
    BY BrokerAssumption
  <2>3. MovementTypeOK
    BY DEF MovementInit, MovementTypeOK
  <2> QED
    BY <2>1, <2>2, <2>3 DEF TypeOK
<1>2. HoldingsAgree
  BY DEF HoldingsAgree, Live, Dead
<1>3. FutureIsDead
  BY DEF FutureIsDead, Dead
<1> QED
  BY <1>1, <1>2, <1>3 DEF BrokerInv

\* A tear-down of any leases, when nothing else changes but the cool-downs and
\* back-offs, keeps the invariant.
LEMMA RevokeInv ==
    ASSUME BrokerInv, NEW G \in SUBSET Generations, Revoke(G),
           cooling' \in [Channels -> Nat], barred' \in [Channels -> [Owners -> Nat]],
           UNCHANGED <<caretakers, lastGeneration, tick>>
    PROVE  BrokerInv'
<1>1. /\ lease' \in [Generations -> LeaseType]
      /\ held' \in [Channels -> Generations \cup {Free}]
      /\ HoldingsAgree'
      /\ \A g \in Generations : lease'[g].live => lease'[g] = lease[g]
  BY UnhookKeeps DEF Revoke, BrokerInv
<1>2. MovementTypeOK'
  BY RevokeType DEF Revoke, BrokerInv, TypeOK
<1>3. FutureIsDead'
  BY <1>1 DEF FutureIsDead, BrokerInv
<1> QED
  BY <1>1, <1>2, <1>3 DEF BrokerInv, TypeOK

\* `release` tears one lease down.
LEMMA ReleaseInv == ASSUME BrokerInv, NEW g \in Generations, Release(g) PROVE BrokerInv'
  BY RevokeInv DEF Release, BrokerInv, TypeOK

\* `revoke_owner`, `revoke_delegations_from` and `revoke_below` tear a set of leases down.
LEMMA SweepInv == ASSUME BrokerInv, NEW G \in SUBSET Generations, Sweep(G) PROVE BrokerInv'
  BY RevokeInv DEF Sweep, BrokerInv, TypeOK

\* `arbitrate` tears the expired leases down and retires closures.
LEMMA ArbitrateInv == ASSUME BrokerInv, Arbitrate PROVE BrokerInv'
<1>1. cooling' \in [Channels -> Nat] /\ barred' \in [Channels -> [Owners -> Nat]]
  BY DEF Arbitrate, BrokerInv, TypeOK
<1>2. Expired \in SUBSET Generations
  BY DEF Expired, Holding
<1> QED
  BY <1>1, <1>2, RevokeInv DEF Arbitrate

\* `acquire` that preempts: the losers go, closures are set, nothing is granted.
LEMMA PreemptInv ==
    ASSUME BrokerInv, NEW chans \in SUBSET Channels, NEW owner, NEW priority,
           Preempt(chans, owner, priority)
    PROVE  BrokerInv'
<1> DEFINE contested == Planned("preempt", chans, owner, priority)
           losers == {held[c] : c \in contested}
<1>1. losers \in SUBSET Generations
  <2>1. \A c \in contested : c \in Channels /\ held[c] # Free
    BY DEF Planned, Plan
  <2> QED
    BY <2>1 DEF BrokerInv, TypeOK
<1>2. cooling' \in [Channels -> Nat] /\ barred' \in [Channels -> [Owners -> Nat]]
  <2>1. tick + CooldownTicks \in Nat /\ tick + CooldownTicks + 1 \in Nat
    BY BrokerAssumption DEF BrokerInv, TypeOK
  <2>2. PICK first \in [losers -> contested] :
             /\ cooling' = [c \in Channels |->
                  IF c \in {first[g] : g \in losers} THEN tick + CooldownTicks ELSE cooling[c]]
             /\ barred' = [c \in Channels |-> [o \in Owners |->
                  IF c \in {first[g] : g \in losers} /\ o = lease[held[c]].owner
                  THEN tick + CooldownTicks + 1
                  ELSE barred[c][o]]]
    BY DEF Preempt
  <2> HIDE DEF losers, contested
  <2>3. cooling' \in [Channels -> Nat]
    BY <2>1, <2>2 DEF BrokerInv, TypeOK
  <2>4. barred' \in [Channels -> [Owners -> Nat]]
    BY <2>1, <2>2 DEF BrokerInv, TypeOK
  <2> QED
    BY <2>3, <2>4
<1>3. Revoke(losers) /\ UNCHANGED <<caretakers, lastGeneration, tick>>
  BY DEF Preempt
<1> QED
  BY <1>1, <1>2, <1>3, RevokeInv

\* A wrapper for a known lease is well-formed.
LEMMA IssueType ==
    ASSUME TypeOK, NEW g \in Generations, IssueCaretaker(g)
    PROVE  caretakers' \subseteq [generation : Generations, issued : Nat]
  BY DEF IssueCaretaker, TypeOK

\* `acquire` that renews: free channels join the lease the owner already has.
LEMMA RenewInv ==
    ASSUME BrokerInv, NEW chans \in SUBSET Channels, NEW owner, NEW priority,
           NEW ttl \in Nat, Renew(chans, owner, priority, ttl)
    PROVE  BrokerInv'
<1> DEFINE renewed == Planned("renew", chans, owner, priority)
           joining == Planned("free", chans, owner, priority)
<1>1. PICK c \in renewed :
        /\ lease' = [lease EXCEPT ![held[c]].expires = tick + ttl,
                                  ![held[c]].channels = @ \cup joining]
        /\ held' = [d \in Channels |-> IF d \in joining THEN held[c] ELSE held[d]]
        /\ IssueCaretaker(held[c])
  BY DEF Renew
<1> DEFINE g == held[c]
<1>2. c \in Channels /\ held[c] # Free
  BY DEF Planned, Plan
<1>3. g \in Generations /\ g \in Live /\ lease[g] \in LeaseType /\ tick + ttl \in Nat
  BY <1>2 DEF BrokerInv, TypeOK, HoldingsAgree, Live
<1>4. \A d \in joining : d \in Channels /\ held[d] = Free
  BY DEF Planned, Plan
<1>5. UNCHANGED <<cooling, barred, lastGeneration, tick, movementVars>>
  BY DEF Renew
<1> HIDE DEF joining
<1>6. lease'[g] = [lease[g] EXCEPT !.expires = tick + ttl, !.channels = @ \cup joining]
  BY <1>1, <1>3 DEF BrokerInv, TypeOK
<1>7. /\ lease'[g] \in LeaseType /\ lease'[g].live = lease[g].live
      /\ lease'[g].channels = lease[g].channels \cup joining
  BY <1>3, <1>4, <1>6 DEF LeaseType
<1>8. \A h \in Generations \ {g} : lease'[h] = lease[h]
  BY <1>1 DEF BrokerInv, TypeOK
<1>9. TypeOK'
  <2>1. lease' \in [Generations -> LeaseType]
    BY <1>1, <1>7, <1>8 DEF BrokerInv, TypeOK
  <2>2. held' \in [Channels -> Generations \cup {Free}]
    BY <1>1, <1>3 DEF BrokerInv, TypeOK
  <2>3. MovementTypeOK'
    BY <1>5 DEF BrokerInv, TypeOK, MovementTypeOK, movementVars
  <2> QED
    BY <1>1, <1>3, <1>5, <2>1, <2>2, <2>3, IssueType DEF BrokerInv, TypeOK
<1>10. HoldingsAgree'
  <2>1. \A h \in Generations : lease'[h].live = lease[h].live
    BY <1>7, <1>8
  <2>2. \A d \in Channels : held'[d] # Free =>
          held'[d] \in Live' /\ d \in lease'[held'[d]].channels
    <3> SUFFICES ASSUME NEW d \in Channels, held'[d] # Free
                 PROVE  held'[d] \in Live' /\ d \in lease'[held'[d]].channels
      OBVIOUS
    <3>1. CASE d \in joining
      BY <3>1, <1>1, <1>3, <1>7, <2>1 DEF Live
    <3>2. CASE d \notin joining
      <4>1. held'[d] = held[d]
        BY <3>2, <1>1
      <4>2. held[d] \in Generations /\ lease[held[d]].live /\ d \in lease[held[d]].channels
        BY <4>1 DEF HoldingsAgree, Live, BrokerInv
      <4>3. d \in lease'[held[d]].channels
        BY <4>2, <1>7, <1>8
      <4> QED
        BY <4>1, <4>2, <4>3, <2>1 DEF Live
    <3> QED
      BY <3>1, <3>2
  <2>3. \A h \in Live' : \A d \in lease'[h].channels : held'[d] = h
    <3> SUFFICES ASSUME NEW h \in Live', NEW d \in lease'[h].channels
                 PROVE  held'[d] = h
      OBVIOUS
    <3>1. h \in Generations /\ h \in Live
      BY <2>1 DEF Live
    <3>2. CASE h = g
      BY <3>2, <1>1, <1>3, <1>4, <1>7 DEF HoldingsAgree, BrokerInv, TypeOK, LeaseType
    <3>3. CASE h # g
      <4>1. held[d] = h /\ d \in Channels
        BY <3>1, <3>3, <1>8 DEF HoldingsAgree, BrokerInv, TypeOK, LeaseType
      <4> QED
        BY <4>1, <3>1, <1>1, <1>4 DEF Generations, Free
    <3> QED
      BY <3>2, <3>3
  <2> QED
    BY <2>2, <2>3 DEF HoldingsAgree
<1>11. FutureIsDead'
  BY <1>5, <1>7, <1>8 DEF FutureIsDead, BrokerInv
<1> QED
  BY <1>9, <1>10, <1>11 DEF BrokerInv

\* `acquire` that grants: a lease under the next generation on free channels.
LEMMA GrantInv ==
    ASSUME BrokerInv, NEW chans \in SUBSET Channels, NEW owner \in Owners \cup {NoOwner},
           NEW priority \in Int, NEW ttl \in Nat, Grant(chans, owner, priority, ttl)
    PROVE  BrokerInv'
<1> DEFINE g == lastGeneration + 1
           new == [owner |-> owner, channels |-> chans, priority |-> priority,
                   expires |-> tick + ttl, from |-> NoOwner, live |-> TRUE]
<1>1. /\ lastGeneration < MaxGeneration
      /\ \A c \in chans : Plan(c, owner, priority) = "free"
      /\ lease' = [lease EXCEPT ![g] = new]
      /\ held' = [c \in Channels |-> IF c \in chans THEN g ELSE held[c]]
      /\ lastGeneration' = g
      /\ IssueCaretaker(g)
      /\ UNCHANGED <<cooling, barred, tick, movementVars>>
  BY DEF Grant
<1>2. g \in Generations /\ g # Free /\ lastGeneration' \in 0 .. MaxGeneration
  BY <1>1, BrokerAssumption DEF BrokerInv, TypeOK, Generations, Free
<1>3. ~lease[g].live
  BY <1>2 DEF BrokerInv, FutureIsDead, TypeOK
<1>4. \A c \in chans : held[c] = Free
  BY <1>1 DEF Plan
<1>5. new \in LeaseType
  BY DEF LeaseType, BrokerInv, TypeOK
<1>6. lease'[g] = new /\ \A h \in Generations \ {g} : lease'[h] = lease[h]
  BY <1>1, <1>2 DEF BrokerInv, TypeOK
<1> HIDE DEF new
<1>7. TypeOK'
  <2>1. lease' \in [Generations -> LeaseType]
    BY <1>1, <1>5 DEF BrokerInv, TypeOK
  <2>2. held' \in [Channels -> Generations \cup {Free}]
    BY <1>1, <1>2 DEF BrokerInv, TypeOK
  <2>3. MovementTypeOK'
    BY <1>1 DEF BrokerInv, TypeOK, MovementTypeOK, movementVars
  <2> QED
    BY <1>1, <1>2, <2>1, <2>2, <2>3, IssueType DEF BrokerInv, TypeOK
<1>8. HoldingsAgree'
  <2>1. new.live /\ new.channels = chans
    BY DEF new
  <2>2. ASSUME NEW c \in Channels, held'[c] # Free
        PROVE  held'[c] \in Live' /\ c \in lease'[held'[c]].channels
    <3>1. CASE c \in chans
      BY <3>1, <1>1, <1>2, <1>6, <2>1 DEF Live
    <3>2. CASE c \notin chans
      BY <2>2, <3>2, <1>1, <1>3, <1>6 DEF Live, HoldingsAgree, BrokerInv
    <3> QED
      BY <3>1, <3>2
  <2>3. ASSUME NEW h \in Live', NEW c \in lease'[h].channels
        PROVE  held'[c] = h
    <3>1. CASE h = g
      BY <2>3, <3>1, <1>1, <1>6, <2>1
    <3>2. CASE h # g
      <4>1. h \in Live /\ c \in lease[h].channels /\ h \in Generations
        BY <2>3, <3>2, <1>6 DEF Live
      <4>2. held[c] = h /\ c \in Channels
        BY <4>1 DEF HoldingsAgree, BrokerInv, TypeOK, LeaseType
      <4> QED
        BY <4>1, <4>2, <1>1, <1>4 DEF Generations, Free
    <3> QED
      BY <3>1, <3>2
  <2> QED
    BY <2>2, <2>3 DEF HoldingsAgree
<1>9. FutureIsDead'
  BY <1>1, <1>2, <1>6 DEF FutureIsDead, BrokerInv, TypeOK, Generations
<1> QED
  BY <1>7, <1>8, <1>9 DEF BrokerInv

\* The three outcomes of `acquire` that change anything.
LEMMA AcquireAsInv ==
    ASSUME BrokerInv, NEW chans \in SUBSET Channels, NEW owner \in Owners \cup {NoOwner},
           NEW priority \in Int, NEW ttl \in Nat, AcquireAs(chans, owner, priority, ttl)
    PROVE  BrokerInv'
  BY PreemptInv, RenewInv, GrantInv DEF AcquireAs

\* `acquire`, from a request of a caller.
LEMMA AcquireInv == ASSUME BrokerInv, NEW r \in Requests, Acquire(r) PROVE BrokerInv'
<1>1. /\ r.channels \in SUBSET Channels /\ r.owner \in Owners /\ r.ttl \in Nat
      /\ r.band \in BandNames /\ r.offset \in Nat
  BY BrokerAssumption DEF RequestType
<1>2. Resolve(r.band, r.offset) \in Int
  BY <1>1 DEF Resolve, BandMin, BandNames
<1> QED
  BY <1>1, <1>2, AcquireAsInv DEF Acquire

\* `renew` on a caretaker.
LEMMA CaretakerRenewInv ==
    ASSUME BrokerInv, NEW g \in Generations, NEW ttl \in Nat, CaretakerRenew(g, ttl)
    PROVE  BrokerInv'
<1>1. /\ lease[g].channels \in SUBSET Channels /\ lease[g].priority \in Int
      /\ lease[g].owner \in Owners \cup {NoOwner}
  BY DEF BrokerInv, TypeOK, LeaseType
<1> QED
  BY <1>1, AcquireAsInv DEF CaretakerRenew

\* `delegate`: one channel moves from the lender's lease to a lease of its own.
LEMMA DelegateInv ==
    ASSUME BrokerInv, NEW c \in Channels, NEW from \in Owners, NEW to \in Owners,
           Delegate(c, from, to)
    PROVE  BrokerInv'
<1> DEFINE old == held[c]
           g == lastGeneration + 1
           new == [owner |-> to, channels |-> {c}, priority |-> lease[old].priority,
                   expires |-> lease[old].expires, from |-> from, live |-> TRUE]
<1>1. /\ lastGeneration < MaxGeneration
      /\ old # Free
      /\ lease' = [lease EXCEPT ![old].channels = @ \ {c}, ![g] = new]
      /\ held' = [held EXCEPT ![c] = g]
      /\ lastGeneration' = g
      /\ IssueCaretaker(g)
      /\ IF c = Movement THEN ReleaseAll ELSE UNCHANGED movementVars
      /\ UNCHANGED <<cooling, barred, tick>>
  BY DEF Delegate
<1>2. g \in Generations /\ g # Free /\ lastGeneration' \in 0 .. MaxGeneration
  BY <1>1, BrokerAssumption DEF BrokerInv, TypeOK, Generations, Free
<1>3. ~lease[g].live
  BY <1>2 DEF BrokerInv, FutureIsDead, TypeOK
<1>4. old \in Generations /\ lease[old].live /\ old # g /\ lease[old] \in LeaseType
  BY <1>1, <1>3 DEF BrokerInv, HoldingsAgree, Live, TypeOK
<1>5. new \in LeaseType
  BY <1>4 DEF LeaseType
<1>6. /\ lease'[g] = new
      /\ lease'[old] = [lease[old] EXCEPT !.channels = @ \ {c}]
      /\ \A h \in Generations \ {g, old} : lease'[h] = lease[h]
  BY <1>1, <1>2, <1>4 DEF BrokerInv, TypeOK
<1>7. /\ lease'[old] \in LeaseType /\ lease'[old].live
      /\ lease'[old].channels = lease[old].channels \ {c}
  BY <1>4, <1>6 DEF LeaseType
<1>8. new.live /\ new.channels = {c}
  OBVIOUS
<1> HIDE DEF new
<1>9. TypeOK'
  <2>1. lease' \in [Generations -> LeaseType]
    BY <1>1, <1>5, <1>6, <1>7 DEF BrokerInv, TypeOK
  <2>2. held' \in [Channels -> Generations \cup {Free}]
    BY <1>1, <1>2 DEF BrokerInv, TypeOK
  <2>3. MovementTypeOK'
    BY <1>1, ReleaseAllType DEF BrokerInv, TypeOK, MovementTypeOK, movementVars
  <2> QED
    BY <1>1, <1>2, <2>1, <2>2, <2>3, IssueType DEF BrokerInv, TypeOK
<1>10. HoldingsAgree'
  <2>1. ASSUME NEW d \in Channels, held'[d] # Free
        PROVE  held'[d] \in Live' /\ d \in lease'[held'[d]].channels
    <3>1. CASE d = c
      BY <3>1, <1>1, <1>2, <1>6, <1>8 DEF Live, BrokerInv, TypeOK
    <3>2. CASE d # c
      <4>1. held'[d] = held[d] /\ held[d] \in Live /\ d \in lease[held[d]].channels
        BY <2>1, <3>2, <1>1 DEF BrokerInv, TypeOK, HoldingsAgree
      <4>2. CASE held[d] = old
        BY <4>1, <4>2, <3>2, <1>4, <1>7 DEF Live
      <4>3. CASE held[d] # old
        BY <4>1, <4>3, <1>3, <1>6 DEF Live
      <4> QED
        BY <4>2, <4>3
    <3> QED
      BY <3>1, <3>2
  <2>2. ASSUME NEW h \in Live', NEW d \in lease'[h].channels
        PROVE  held'[d] = h
    <3>1. CASE h = g
      BY <2>2, <3>1, <1>1, <1>6, <1>8 DEF BrokerInv, TypeOK
    <3>2. CASE h # g
      <4>1. h \in Live /\ d \in lease[h].channels /\ (h = old => d # c)
        BY <2>2, <3>2, <1>4, <1>6, <1>7 DEF Live
      <4>2. held[d] = h /\ d \in Channels
        BY <4>1 DEF HoldingsAgree, BrokerInv, TypeOK, LeaseType, Live
      <4>3. d # c
        BY <4>1, <4>2
      <4> QED
        BY <4>2, <4>3, <1>1 DEF BrokerInv, TypeOK
    <3> QED
      BY <3>1, <3>2
  <2> QED
    BY <2>1, <2>2 DEF HoldingsAgree
<1>11. FutureIsDead'
  <2>1. lastGeneration \in Nat /\ lastGeneration' = g /\ g = lastGeneration + 1
    BY <1>1 DEF BrokerInv, TypeOK
  <2>2. ASSUME NEW h \in Generations, h > lastGeneration' PROVE ~lease'[h].live
    <3>1. h > lastGeneration /\ h # g /\ ~lease[h].live
      BY <2>1, <2>2 DEF BrokerInv, FutureIsDead, Generations
    <3>2. h # old
      BY <1>4, <3>1
    <3> QED
      BY <1>6, <2>2, <3>1, <3>2
  <2> QED
    BY <2>2 DEF FutureIsDead
<1> QED
  BY <1>9, <1>10, <1>11 DEF BrokerInv

\* The operations that leave the two tables alone.
LEMMA TablesAloneInv ==
    ASSUME BrokerInv, UNCHANGED <<lease, held, lastGeneration>>, TypeOK'
    PROVE  BrokerInv'
  BY DEF BrokerInv, HoldingsAgree, FutureIsDead, Live

\* `begin_tick` and `end_tick` touch neither table.
LEMMA TickInv == ASSUME BrokerInv, BeginTick \/ EndTick PROVE BrokerInv'
<1>1. TypeOK'
  BY DEF BeginTick, EndTick, BrokerInv, TypeOK, MovementTypeOK, movementVars
<1> QED
  BY <1>1, TablesAloneInv DEF BeginTick, EndTick

\* Neither a committed `move`, nor `reconcile`, nor a plugin at the keys touches the broker.
LEMMA MoveInv ==
    ASSUME BrokerInv,
           \/ ReconcileKeys
           \/ BypassKeys
           \/ \E g \in Generations, keys \in SUBSET Keys : CommitMove(g, keys)
    PROVE  BrokerInv'
<1>1. UNCHANGED brokerVars
  BY DEF ReconcileKeys, BypassKeys, CommitMove
<1>2. MovementTypeOK'
  <2>1. CASE ReconcileKeys
    BY <2>1 DEF ReconcileKeys, Reconcile, Drive, MovementTypeOK, BrokerInv, TypeOK
  <2>2. CASE \E g \in Generations, keys \in SUBSET Keys : CommitMove(g, keys)
    BY <2>2 DEF CommitMove, SetDesired, MovementTypeOK, BrokerInv, TypeOK
  <2>3. CASE BypassKeys
    BY <2>3, KeysAssumption DEF BypassKeys, PluginDrives, MovementTypeOK, BrokerInv, TypeOK
  <2> QED
    BY <2>1, <2>2, <2>3
<1>3. TypeOK'
  BY <1>1, <1>2 DEF brokerVars, BrokerInv, TypeOK
<1> QED
  BY <1>1, <1>3, TablesAloneInv DEF brokerVars

\* Every step of the broker keeps the inductive invariant.
LEMMA NextInv == BrokerInv /\ [Next]_vars => BrokerInv'
<1> SUFFICES ASSUME BrokerInv, [Next]_vars PROVE BrokerInv'
  OBVIOUS
<1>1. CASE \E r \in Requests : Acquire(r)
  BY <1>1, AcquireInv
<1>2. CASE \E g \in Generations : Release(g)
  BY <1>2, ReleaseInv
<1>3. CASE \E g \in Generations, ttl \in {r.ttl : r \in Requests} : CaretakerRenew(g, ttl)
  <2>1. \A r \in Requests : r.ttl \in Nat
    BY BrokerAssumption DEF RequestType
  <2> QED
    BY <1>3, <2>1, CaretakerRenewInv
<1>4. CASE \E c \in Channels, from, to \in Owners : Delegate(c, from, to)
  BY <1>4, DelegateInv
<1>5. CASE \E o \in Owners : RevokeOwner(o)
  BY <1>5, SweepInv DEF RevokeOwner, OwnedBy, Holding
<1>6. CASE \E o \in Owners : RevokeDelegationsFrom(o)
  BY <1>6, SweepInv DEF RevokeDelegationsFrom, DelegatedFrom, Holding
<1>7. CASE \E p \in {lease[g].priority : g \in Live} : RevokeBelow(p + 1)
  BY <1>7, SweepInv DEF RevokeBelow, Below, Holding
<1>8. CASE BeginTick \/ EndTick
  BY <1>8, TickInv
<1>9. CASE Arbitrate
  BY <1>9, ArbitrateInv
<1>10. CASE \/ ReconcileKeys
            \/ BypassKeys
            \/ \E g \in Generations, keys \in SUBSET Keys : CommitMove(g, keys)
  BY <1>10, MoveInv
<1>11. CASE UNCHANGED vars
  <2>1. TypeOK'
    BY <1>11 DEF vars, brokerVars, movementVars, BrokerInv, TypeOK, MovementTypeOK
  <2> QED
    BY <1>11, <2>1, TablesAloneInv DEF vars, brokerVars
<1> QED
  BY <1>1, <1>2, <1>3, <1>4, <1>5, <1>6, <1>7, <1>8, <1>9, <1>10, <1>11 DEF Next

\* The invariant every theorem below rests on.
THEOREM BrokerInvariant == Spec => []BrokerInv
<1> QED
  BY InitInv, NextInv, PTL DEF Spec

\* Every table of the broker keeps its shape, and every generation, expiry and window is a
\* number, whatever the callers ask for (control_broker.lua, `new` to `end_tick`).
THEOREM BrokerTypes == Spec => []TypeOK
<1>1. BrokerInv => TypeOK
  BY DEF BrokerInv
<1> QED
  BY <1>1, BrokerInvariant, PTL

\* `_held` and the leases' own channel lists never drift apart, through grants, renewals
\* that add channels, delegations that detach one and every kind of tear-down.
THEOREM HoldingsAlwaysAgree == Spec => []HoldingsAgree
<1>1. BrokerInv => HoldingsAgree
  BY DEF BrokerInv
<1> QED
  BY <1>1, BrokerInvariant, PTL

-----------------------------------------------------------------------------
(* Every step is of one of five kinds; the action properties follow by kind. *)

Askers == Owners \cup {NoOwner}

TearsDown == \E G \in SUBSET Generations : Revoke(G) /\ UNCHANGED lastGeneration
Extends == \E S \in SUBSET Channels, o \in Askers, p \in Int, n \in Nat : Renew(S, o, p, n)
Grants == \E S \in SUBSET Channels, o \in Askers, p \in Int, n \in Nat : Grant(S, o, p, n)
Detaches == \E c \in Channels, from, to \in Owners : Delegate(c, from, to)
LeavesTables ==
    /\ UNCHANGED <<lease, held, lastGeneration>>
    /\ \/ UNCHANGED movementVars
       \/ \E keys \in SUBSET Keys : SetDesired(keys)
       \/ Reconcile
       \/ PluginDrives

\* What `acquire` does to the tables is a tear-down, an extension or a grant.
LEMMA AcquireKind ==
    ASSUME BrokerInv, NEW S \in SUBSET Channels, NEW o \in Askers, NEW p \in Int,
           NEW n \in Nat, AcquireAs(S, o, p, n)
    PROVE  TearsDown \/ Extends \/ Grants
<1>1. CASE Preempt(S, o, p)
  <2>1. \A c \in Planned("preempt", S, o, p) : held[c] \in Generations
    BY DEF Planned, Plan, BrokerInv, TypeOK
  <2>2. {held[c] : c \in Planned("preempt", S, o, p)} \in SUBSET Generations
    BY <2>1
  <2> QED
    BY <1>1, <2>2 DEF Preempt, TearsDown
<1>2. CASE Renew(S, o, p, n)
  BY <1>2 DEF Extends
<1>3. CASE Grant(S, o, p, n)
  BY <1>3 DEF Grants
<1> QED
  BY <1>1, <1>2, <1>3 DEF AcquireAs

\* Every step tears leases down, extends one, grants one, detaches a channel by
\* delegation, or leaves both tables alone.
LEMMA StepKinds ==
    ASSUME BrokerInv, [Next]_vars
    PROVE  TearsDown \/ Extends \/ Grants \/ Detaches \/ LeavesTables
<1>0. \A r \in Requests : r \in RequestType
  BY BrokerAssumption
<1>1. CASE \E r \in Requests : Acquire(r)
  <2> PICK r \in Requests : Acquire(r)
    BY <1>1
  <2>1. /\ r.channels \in SUBSET Channels /\ r.owner \in Askers /\ r.ttl \in Nat
        /\ r.band \in BandNames /\ r.offset \in Nat
    BY <1>0 DEF RequestType, Askers
  <2>2. Resolve(r.band, r.offset) \in Int
    BY <2>1 DEF Resolve, BandMin, BandNames
  <2> QED
    BY <2>1, <2>2, AcquireKind DEF Acquire
<1>2. CASE \E g \in Generations, ttl \in {r.ttl : r \in Requests} : CaretakerRenew(g, ttl)
  <2> PICK g \in Generations, ttl \in {r.ttl : r \in Requests} : CaretakerRenew(g, ttl)
    BY <1>2
  <2>1. /\ lease[g].channels \in SUBSET Channels /\ lease[g].owner \in Askers
        /\ lease[g].priority \in Int /\ ttl \in Nat
    BY <1>0 DEF RequestType, BrokerInv, TypeOK, LeaseType, Askers
  <2> QED
    BY <2>1, AcquireKind DEF CaretakerRenew
<1>3. CASE \E g \in Generations : Release(g)
  BY <1>3 DEF Release, TearsDown
<1>4. CASE \E o \in Owners : RevokeOwner(o)
  BY <1>4 DEF RevokeOwner, OwnedBy, Holding, Sweep, TearsDown
<1>5. CASE \E o \in Owners : RevokeDelegationsFrom(o)
  BY <1>5 DEF RevokeDelegationsFrom, DelegatedFrom, Holding, Sweep, TearsDown
<1>6. CASE \E p \in {lease[g].priority : g \in Live} : RevokeBelow(p + 1)
  BY <1>6 DEF RevokeBelow, Below, Holding, Sweep, TearsDown
<1>7. CASE Arbitrate
  BY <1>7 DEF Arbitrate, Expired, Holding, TearsDown
<1>8. CASE \E c \in Channels, from, to \in Owners : Delegate(c, from, to)
  BY <1>8 DEF Detaches
<1>9. CASE \/ BeginTick \/ EndTick \/ ReconcileKeys \/ BypassKeys \/ UNCHANGED vars
           \/ \E g \in Generations, keys \in SUBSET Keys : CommitMove(g, keys)
  <2>1. CASE BeginTick \/ EndTick \/ UNCHANGED vars
    BY <2>1 DEF BeginTick, EndTick, vars, brokerVars, LeavesTables
  <2>2. CASE ReconcileKeys
    BY <2>2 DEF ReconcileKeys, brokerVars, LeavesTables
  <2>3. CASE \E g \in Generations, keys \in SUBSET Keys : CommitMove(g, keys)
    BY <2>3 DEF CommitMove, brokerVars, LeavesTables
  <2>4. CASE BypassKeys
    BY <2>4 DEF BypassKeys, brokerVars, LeavesTables
  <2> QED
    BY <1>9, <2>1, <2>2, <2>3, <2>4
<1> QED
  BY <1>1, <1>2, <1>3, <1>4, <1>5, <1>6, <1>7, <1>8, <1>9 DEF Next

\* What the two kinds that touch single leases do to the tables.
LEMMA ExtendsFacts ==
    ASSUME BrokerInv, Extends
    PROVE  /\ \A g \in Generations : lease'[g].live = lease[g].live
           /\ \A c \in Channels : held[c] # Free => held'[c] = held[c]
           /\ UNCHANGED <<lastGeneration, movementVars>>
<1>1. PICK S \in SUBSET Channels, o \in Askers, p \in Int, n \in Nat : Renew(S, o, p, n)
  BY DEF Extends
<1>2. \A c \in Planned("renew", S, o, p) : c \in Channels
  BY DEF Planned
<1>3. \A c \in Planned("free", S, o, p) : held[c] = Free
  BY DEF Planned, Plan
<1>4. PICK c \in Channels :
        /\ lease' = [lease EXCEPT ![held[c]].expires = tick + n,
                                  ![held[c]].channels = @ \cup Planned("free", S, o, p)]
        /\ held' = [d \in Channels |-> IF d \in Planned("free", S, o, p) THEN held[c] ELSE held[d]]
  BY <1>1, <1>2 DEF Renew
<1>5. \A g \in Generations : lease'[g].live = lease[g].live
  BY <1>4 DEF BrokerInv, TypeOK, LeaseType
<1>6. \A d \in Channels : held[d] # Free => held'[d] = held[d]
  BY <1>3, <1>4
<1> QED
  BY <1>1, <1>5, <1>6 DEF Renew

\* A grant changes only channels that were free and the lease it creates.
LEMMA GrantsFacts ==
    ASSUME BrokerInv, Grants
    PROVE  /\ \A g \in Generations : g <= lastGeneration => lease'[g] = lease[g]
           /\ \A c \in Channels : held[c] # Free => held'[c] = held[c]
           /\ UNCHANGED movementVars
<1>1. PICK S \in SUBSET Channels, o \in Askers, p \in Int, n \in Nat : Grant(S, o, p, n)
  BY DEF Grants
<1>2. \A c \in S : held[c] = Free
  BY <1>1 DEF Grant, Plan
<1>3. \A c \in Channels : held[c] # Free => held'[c] = held[c]
  BY <1>1, <1>2 DEF Grant
<1>4. \A g \in Generations : g <= lastGeneration => lease'[g] = lease[g]
  BY <1>1 DEF Grant, BrokerInv, TypeOK, Generations
<1> QED
  BY <1>1, <1>3, <1>4 DEF Grant

\* A delegation changes one channel, and passes on its priority.
LEMMA DetachesFacts ==
    ASSUME BrokerInv, NEW c \in Channels, NEW from \in Owners, NEW to \in Owners,
           Delegate(c, from, to)
    PROVE  /\ held[c] \in Generations /\ lease[held[c]].live /\ lease[held[c]].owner = from
           /\ held'[c] = lastGeneration + 1 /\ held'[c] \in Generations
           /\ lease'[held'[c]].from = from
           /\ lease'[held'[c]].priority = lease[held[c]].priority
           /\ \A g \in Generations : g <= lastGeneration => lease'[g].live = lease[g].live
           /\ \A d \in Channels \ {c} : held'[d] = held[d]
           /\ IF c = Movement THEN ReleaseAll ELSE UNCHANGED movementVars
<1>1. held[c] \in Generations /\ lease[held[c]].live /\ lease[held[c]] \in LeaseType
  BY DEF Delegate, BrokerInv, TypeOK, HoldingsAgree, Live
<1>2. lastGeneration + 1 \in Generations /\ lastGeneration \in Nat
  BY BrokerAssumption DEF Delegate, BrokerInv, TypeOK, Generations
<1>3. held[c] # lastGeneration + 1
  BY <1>1, <1>2 DEF BrokerInv, FutureIsDead
<1>4. held'[c] = lastGeneration + 1 /\ \A d \in Channels \ {c} : held'[d] = held[d]
  BY DEF Delegate, BrokerInv, TypeOK
<1>5. lease'[lastGeneration + 1] =
        [owner |-> to, channels |-> {c}, priority |-> lease[held[c]].priority,
         expires |-> lease[held[c]].expires, from |-> from, live |-> TRUE]
  BY <1>2, <1>3 DEF Delegate, BrokerInv, TypeOK
<1>6. ASSUME NEW g \in Generations, g <= lastGeneration
      PROVE  lease'[g].live = lease[g].live
  <2>1. g # lastGeneration + 1
    BY <1>2, <1>6 DEF Generations
  <2>2. CASE g = held[c]
    <3>1. lease'[g] = [lease[g] EXCEPT !.channels = @ \ {c}]
      BY <1>1, <2>1, <2>2 DEF Delegate, BrokerInv, TypeOK
    <3> QED
      BY <1>1, <2>2, <3>1 DEF LeaseType
  <2>3. CASE g # held[c]
    BY <2>1, <2>3 DEF Delegate, BrokerInv, TypeOK
  <2> QED
    BY <2>2, <2>3
<1>7. /\ lease[held[c]].owner = from
      /\ IF c = Movement THEN ReleaseAll ELSE UNCHANGED movementVars
  BY DEF Delegate
<1>8. /\ lease'[held'[c]].from = from
      /\ lease'[held'[c]].priority = lease[held[c]].priority
  BY <1>4, <1>5
<1> QED
  BY <1>1, <1>2, <1>4, <1>6, <1>7, <1>8

-----------------------------------------------------------------------------

\* A lease that is dead stays dead, so no stale intent is revived: generations are
\* issued once (control_broker.lua:397-409, :526-541).
THEOREM GenerationsAreForEver == Spec => GenerationsNeverReturn
<1> DEFINE Step == \A g \in Generations :
                     g <= lastGeneration /\ ~lease[g].live => ~lease'[g].live
<1>1. BrokerInv /\ [Next]_vars => Step
  <2> SUFFICES ASSUME BrokerInv, [Next]_vars PROVE Step
    OBVIOUS
  <2>1. CASE TearsDown
    BY <2>1, UnhookKeeps DEF TearsDown, Revoke, BrokerInv
  <2>2. CASE Extends
    BY <2>2, ExtendsFacts
  <2>3. CASE Grants
    BY <2>3, GrantsFacts
  <2>4. CASE Detaches
    BY <2>4, DetachesFacts DEF Detaches
  <2>5. CASE LeavesTables
    BY <2>5 DEF LeavesTables
  <2> QED
    BY <2>1, <2>2, <2>3, <2>4, <2>5, StepKinds
<1> QED
  BY <1>1, BrokerInvariant, PTL DEF Spec, GenerationsNeverReturn

\* Preemption never hands a channel over: between two owners there is always a state in
\* which nobody holds it, unless the holder lent it (control_broker.lua:22-34).
THEOREM HandoversGoThroughFree == Spec => NoDirectHandover
<1> DEFINE Step == \A c \in Channels :
                     held[c] # Free /\ held'[c] # Free /\ held'[c] # held[c] =>
                        /\ lease'[held'[c]].from = lease[held[c]].owner
                        /\ lease'[held'[c]].priority = lease[held[c]].priority
<1>1. BrokerInv /\ [Next]_vars => Step
  <2> SUFFICES ASSUME BrokerInv, [Next]_vars PROVE Step
    OBVIOUS
  <2>1. CASE TearsDown
    BY <2>1, UnhookKeeps DEF TearsDown, Revoke, BrokerInv
  <2>2. CASE Extends
    BY <2>2, ExtendsFacts
  <2>3. CASE Grants
    BY <2>3, GrantsFacts
  <2>4. CASE Detaches
    <3> PICK c \in Channels, from \in Owners, to \in Owners : Delegate(c, from, to)
      BY <2>4 DEF Detaches
    <3> QED
      BY DetachesFacts
  <2>5. CASE LeavesTables
    BY <2>5 DEF LeavesTables
  <2> QED
    BY <2>1, <2>2, <2>3, <2>4, <2>5, StepKinds
<1> QED
  BY <1>1, BrokerInvariant, PTL DEF Spec, NoDirectHandover

\* Losing MOVEMENT, by release, revocation, expiry, preemption or delegation, stops the
\* body in the same step (control_broker.lua:149-155, :439-441, :522-524).
THEOREM BodyAlwaysStops == Spec => BodyStopsWithTheLease
<1> DEFINE Step == held[Movement] # Free /\ held'[Movement] # held[Movement] =>
                     /\ desired' = {}
                     /\ pressed' = {}
                     /\ down' \subseteq KeyFaults
                     /\ NavFaults \/ ~navigating'
<1>1. BrokerInv /\ [Next]_vars => Step
  <2> SUFFICES ASSUME BrokerInv, [Next]_vars, held[Movement] # Free,
                      held'[Movement] # held[Movement]
               PROVE  ReleaseAll
    BY KeysAssumption DEF ReleaseAll
  <2>0. Movement \in Channels
    BY BrokerAssumption
  <2>1. CASE TearsDown
    <3> PICK G \in SUBSET Generations : Revoke(G)
      BY <2>1 DEF TearsDown
    <3>1. held[Movement] \in G /\ Movement \in lease[held[Movement]].channels
      BY <2>0, UnhookKeeps DEF Revoke, BrokerInv
    <3> QED
      BY <3>1 DEF Revoke, ReleaseIfMoving
  <2>2. CASE Extends
    BY <2>0, <2>2, ExtendsFacts
  <2>3. CASE Grants
    BY <2>0, <2>3, GrantsFacts
  <2>4. CASE Detaches
    <3> PICK c \in Channels, from \in Owners, to \in Owners : Delegate(c, from, to)
      BY <2>4 DEF Detaches
    <3> QED
      BY <2>0, DetachesFacts
  <2>5. CASE LeavesTables
    BY <2>5 DEF LeavesTables
  <2> QED
    BY <2>1, <2>2, <2>3, <2>4, <2>5, StepKinds
<1> QED
  BY <1>1, BrokerInvariant, PTL DEF Spec, BodyStopsWithTheLease

\* No desire outlives the lease that authorised it, provided a `move` only ever takes
\* effect while MOVEMENT is held: the reconciler then never presses a key for a caller
\* that has lost the channel (movement_release.lua:212-215).
THEOREM DesireNeedsDiscipline == Spec /\ MovesAreDisciplined => []DesireIsLeased
<1> DEFINE Disciplined == desired' \notin {{}, desired} => held[Movement] # Free
<1>1. Init => DesireIsLeased
  BY DEF Init, MovementInit, DesireIsLeased
<1>2. BrokerInv /\ DesireIsLeased /\ [Next]_vars /\ [Disciplined]_vars => DesireIsLeased'
  <2> SUFFICES ASSUME BrokerInv, DesireIsLeased, [Next]_vars, [Disciplined]_vars, desired' # {}
               PROVE  held'[Movement] # Free
    BY DEF DesireIsLeased
  <2>0. Movement \in Channels
    BY BrokerAssumption
  <2>1. desired' = desired \/ held[Movement] # Free
    BY DEF vars, movementVars
  <2>2. held[Movement] # Free
    BY <2>1 DEF DesireIsLeased
  <2>3. ~ReleaseAll
    BY DEF ReleaseAll
  <2>4. CASE TearsDown
    <3> PICK G \in SUBSET Generations : Revoke(G)
      BY <2>4 DEF TearsDown
    <3>1. ~ \E g \in G : Movement \in lease[g].channels
      BY <2>3 DEF Revoke, ReleaseIfMoving
    <3> QED
      BY <2>0, <2>2, <3>1, UnhookKeeps DEF Revoke, BrokerInv
  <2>5. CASE Extends
    BY <2>0, <2>2, <2>5, ExtendsFacts
  <2>6. CASE Grants
    BY <2>0, <2>2, <2>6, GrantsFacts
  <2>7. CASE Detaches
    <3> PICK c \in Channels, from \in Owners, to \in Owners : Delegate(c, from, to)
      BY <2>7 DEF Detaches
    <3>1. c # Movement
      BY <2>3, DetachesFacts
    <3> QED
      BY <2>0, <2>2, <3>1, DetachesFacts
  <2>8. CASE LeavesTables
    BY <2>2, <2>8 DEF LeavesTables
  <2> QED
    BY <2>4, <2>5, <2>6, <2>7, <2>8, StepKinds
<1> QED
  BY <1>1, <1>2, BrokerInvariant, PTL DEF Spec, MovesAreDisciplined

\* The kernel never believes a key pressed that is not, whichever calls to the injector
\* throw, so a wanted key is always retried (movement_release.lua:172-218, :317-359),
\* except for the keys that plugins lift themselves.
THEOREM PressedAreAlwaysDown == Spec => []PressedAreDown
<1>1. Init => PressedAreDown
  BY DEF Init, MovementInit, PressedAreDown
<1>2. BrokerInv /\ PressedAreDown /\ [Next]_vars => PressedAreDown'
  <2> SUFFICES ASSUME BrokerInv, PressedAreDown, [Next]_vars PROVE PressedAreDown'
    OBVIOUS
  <2>1. ReleaseAll => PressedAreDown'
    BY DEF ReleaseAll, PressedAreDown
  <2>2. UNCHANGED movementVars => PressedAreDown'
    BY DEF movementVars, PressedAreDown
  <2>3. CASE TearsDown
    BY <2>1, <2>2, <2>3 DEF TearsDown, Revoke, ReleaseIfMoving
  <2>4. CASE Extends
    BY <2>2, <2>4, ExtendsFacts
  <2>5. CASE Grants
    BY <2>2, <2>5, GrantsFacts
  <2>6. CASE Detaches
    BY <2>1, <2>2, <2>6, DetachesFacts DEF Detaches
  <2>7. CASE LeavesTables
    <3>1. (\E keys \in SUBSET Keys : SetDesired(keys)) => PressedAreDown'
      BY DEF SetDesired, PressedAreDown
    <3>2. Reconcile => PressedAreDown'
      BY DEF Reconcile, Drive, PressedAreDown
    <3>3. PluginDrives => PressedAreDown'
      BY DEF PluginDrives, PressedAreDown
    <3> QED
      BY <2>2, <2>7, <3>1, <3>2, <3>3 DEF LeavesTables
  <2> QED
    BY <2>3, <2>4, <2>5, <2>6, <2>7, StepKinds
<1> QED
  BY <1>1, <1>2, BrokerInvariant, PTL DEF Spec

-----------------------------------------------------------------------------
(* The broker implements Handover.  To the invariant the argument adds that *)
(* the claim of a live lease is one some request made: a lease keeps the    *)
(* priority of its first grant, and a lent channel that of its lender.      *)

ClaimsAreMade == \A g \in Live : lease[g].owner \in Owners /\ lease[g].priority \in Ranks

PromiseInv == BrokerInv /\ ClaimsAreMade

\* Whoever holds a channel is an owner with a claim.
LEMMA HolderFacts ==
    ASSUME PromiseInv, NEW c \in Channels
    PROVE  /\ held[c] = Free => Holder[c] = NoOwner /\ Rank[c] = 0
           /\ held[c] # Free =>
                /\ held[c] \in Generations /\ lease[held[c]].live /\ c \in lease[held[c]].channels
                /\ Holder[c] = lease[held[c]].owner /\ Holder[c] \in Owners /\ Holder[c] # NoOwner
                /\ Rank[c] = lease[held[c]].priority /\ Rank[c] \in Ranks /\ Rank[c] \in Int
<1>1. CASE held[c] = Free
  BY <1>1 DEF Holder, Rank
<1>2. CASE held[c] # Free
  <2>1. held[c] \in Live /\ held[c] \in Generations /\ lease[held[c]].live /\ c \in lease[held[c]].channels
    BY <1>2 DEF PromiseInv, BrokerInv, HoldingsAgree, Live
  <2>2. lease[held[c]].owner \in Owners /\ lease[held[c]].priority \in Ranks
    BY <2>1 DEF PromiseInv, ClaimsAreMade
  <2>3. lease[held[c]].priority \in Int
    BY <2>1 DEF PromiseInv, BrokerInv, TypeOK, LeaseType
  <2> QED
    BY <1>2, <2>1, <2>2, <2>3, BrokerAssumption DEF Holder, Rank
<1> QED
  BY <1>1, <1>2

\* A channel that is planned for an asker is open to it.
LEMMA PlannedIsOpen ==
    ASSUME PromiseInv, NEW c \in Channels, NEW o \in Owners, NEW p \in Int,
           Plan(c, o, p) \in {"free", "renew", "preempt"}
    PROVE  /\ Promise!Open(c, o)
           /\ Plan(c, o, p) = "free" => held[c] = Free
           /\ Plan(c, o, p) = "renew" => held[c] # Free /\ Holder[c] = o
           /\ Plan(c, o, p) = "preempt" => held[c] # Free /\ Holder[c] # o /\ Rank[c] < p
<1>1. /\ cooling[c] \in Nat /\ barred[c][o] \in Nat /\ tick \in Nat
      /\ Cool[c] = Remaining(cooling[c]) /\ Bar[c][o] = Remaining(barred[c][o])
  BY DEF PromiseInv, BrokerInv, TypeOK, Cool, Bar
<1>2. tick >= cooling[c] /\ tick >= barred[c][o]
  BY <1>1 DEF Plan
<1>3. Cool[c] = 0 /\ Bar[c][o] = 0
  BY <1>1, <1>2 DEF Remaining
<1>4. /\ Plan(c, o, p) = "free" => held[c] = Free
      /\ Plan(c, o, p) = "renew" => held[c] # Free /\ lease[held[c]].owner = o
      /\ Plan(c, o, p) = "preempt" => held[c] # Free /\ lease[held[c]].owner # o /\ p > lease[held[c]].priority
  BY <1>1, <1>2 DEF Plan
<1> QED
  BY <1>3, <1>4, HolderFacts DEF Promise!Open

\* Tearing leases down frees every channel they hold, and no claim is made anew.
LEMMA UnhookShows ==
    ASSUME PromiseInv, NEW G \in SUBSET Generations, Unhook(G)
    PROVE  LET S == {c \in Channels : held[c] \in G}
           IN  /\ Holder' = [c \in Channels |-> IF c \in S THEN NoOwner ELSE Holder[c]]
               /\ Rank' = [c \in Channels |-> IF c \in S THEN 0 ELSE Rank[c]]
               /\ ClaimsAreMade'
<1> DEFINE S == {c \in Channels : held[c] \in G}
<1>1. Free \notin G
  BY DEF Generations, Free
<1>2. ASSUME NEW c \in Channels, c \in S PROVE held'[c] = Free
  BY <1>1, <1>2, HolderFacts DEF Unhook
<1>3. ASSUME NEW c \in Channels, c \notin S
      PROVE  held'[c] = held[c] /\ (held[c] # Free => lease'[held[c]] = lease[held[c]])
  <2>1. held'[c] = held[c]
    BY <1>3 DEF Unhook
  <2>2. held[c] # Free => held[c] \in Generations \ G
    BY <1>3, HolderFacts
  <2> QED
    BY <2>1, <2>2 DEF Unhook
<1>4. Holder' = [c \in Channels |-> IF c \in S THEN NoOwner ELSE Holder[c]]
  BY <1>2, <1>3 DEF Holder
<1>5. Rank' = [c \in Channels |-> IF c \in S THEN 0 ELSE Rank[c]]
  BY <1>2, <1>3 DEF Rank
<1>6. ClaimsAreMade'
  <2>1. \A g \in Generations : lease'[g].live => lease'[g] = lease[g]
    BY UnhookKeeps DEF PromiseInv, BrokerInv
  <2> QED
    BY <2>1 DEF ClaimsAreMade, Live, PromiseInv, Ranks
<1> QED
  BY <1>4, <1>5, <1>6

\* While the tick stands still, what remains of an unchanged closure is unchanged.
LEMMA ClosuresStay ==
    ASSUME UNCHANGED <<cooling, barred, tick>>
    PROVE  UNCHANGED <<Cool, Bar>>
  BY DEF Cool, Bar, Remaining

\* A tear-down of any leases drops their channels.
LEMMA Drops ==
    ASSUME PromiseInv, NEW G \in SUBSET Generations, Unhook(G), UNCHANGED <<Cool, Bar>>
    PROVE  Promise!Next /\ ClaimsAreMade'
<1> DEFINE S == {c \in Channels : held[c] \in G}
<1>1. Promise!Drop(S) /\ ClaimsAreMade'
  BY UnhookShows DEF Promise!Drop, Promise!Nobody
<1>2. S \in SUBSET Channels
  OBVIOUS
<1> QED
  BY <1>1, <1>2 DEF Promise!Next

-----------------------------------------------------------------------------
(* Acquisition *)

\* A renewal takes the free channels of the request at the rank of one it renews.
LEMMA RenewTakes ==
    ASSUME PromiseInv, NEW S \in SUBSET Channels, NEW o \in Owners, NEW p \in Ranks \cap Int,
           NEW n \in Nat, Renew(S, o, p, n)
    PROVE  Promise!Next /\ ClaimsAreMade'
<1> DEFINE renewed == Planned("renew", S, o, p)
           joining == Planned("free", S, o, p)
<1>1. PICK c \in renewed :
        /\ lease' = [lease EXCEPT ![held[c]].expires = tick + n,
                                  ![held[c]].channels = @ \cup joining]
        /\ held' = [d \in Channels |-> IF d \in joining THEN held[c] ELSE held[d]]
  BY DEF Renew
<1> DEFINE g == held[c]
<1>2. c \in Channels /\ c \in S /\ Plan(c, o, p) = "renew"
  BY <1>1 DEF Planned
<1>3. /\ g \in Generations /\ g # Free /\ lease[g].live /\ Holder[c] = o /\ Rank[c] = lease[g].priority
      /\ lease[g].owner = o
  BY <1>2, HolderFacts, PlannedIsOpen
<1>4. joining \subseteq S /\ \A d \in joining : Plan(d, o, p) = "free"
  BY DEF Planned
<1>5. \A d \in S : /\ d \in Channels
                   /\ Plan(d, o, p) \in {"free", "renew"}
  BY DEF Renew, Plannable, Planned
<1>6. \A h \in Generations : /\ lease'[h].live = lease[h].live
                             /\ lease'[h].owner = lease[h].owner
                             /\ lease'[h].priority = lease[h].priority
  BY <1>1 DEF PromiseInv, BrokerInv, TypeOK, LeaseType
<1>7. ASSUME NEW d \in S
      PROVE  /\ Promise!Open(d, o)
             /\ Holder[d] \in {NoOwner, o}
             /\ d \in joining => Holder[d] = NoOwner
             /\ d \notin joining => Holder[d] = o
  <2>1. d \notin joining => Plan(d, o, p) = "renew"
    BY <1>5 DEF Planned
  <2> HIDE DEF joining
  <2> QED
    BY <1>4, <1>5, <2>1, PlannedIsOpen, HolderFacts
<1>8. ASSUME NEW d \in Channels
      PROVE  /\ d \in joining => held'[d] = g
             /\ d \notin joining => held'[d] = held[d]
  BY <1>1
<1>9. o # NoOwner
  BY BrokerAssumption
<1> DEFINE mine == {d \in S : Holder[d] = o}
<1>10. joining = S \ mine /\ c \in mine
  <2> HIDE DEF joining, renewed
  <2> QED
    BY <1>2, <1>3, <1>4, <1>7, <1>9
<1>11. UNCHANGED <<Cool, Bar>>
  BY ClosuresStay DEF Renew
<1> HIDE DEF joining, renewed
<1>12. Holder' = [d \in Channels |-> IF d \in S THEN o ELSE Holder[d]]
  <2>1. Holder' = [d \in Channels |-> IF held'[d] = Free THEN NoOwner ELSE lease'[held'[d]].owner]
    BY DEF Holder
  <2>2. ASSUME NEW d \in Channels
        PROVE  (IF held'[d] = Free THEN NoOwner ELSE lease'[held'[d]].owner)
                 = (IF d \in S THEN o ELSE Holder[d])
    <3>1. CASE d \in joining
      BY <3>1, <1>3, <1>6, <1>8, <1>10
    <3>2. CASE d \notin joining
      <4>1. d \in S => Holder[d] = o
        BY <3>2, <1>7
      <4>2. held'[d] = held[d] /\ (held[d] # Free => held[d] \in Generations)
        BY <3>2, <1>8, HolderFacts
      <4> QED
        BY <4>1, <4>2, <1>6, HolderFacts
    <3> QED
      BY <3>1, <3>2
  <2> QED
    BY <2>1, <2>2
<1>13. Rank' = [d \in Channels |-> IF d \in S \ mine THEN Rank[c] ELSE Rank[d]]
  <2>1. Rank' = [d \in Channels |-> IF held'[d] = Free THEN 0 ELSE lease'[held'[d]].priority]
    BY DEF Rank
  <2>2. ASSUME NEW d \in Channels
        PROVE  (IF held'[d] = Free THEN 0 ELSE lease'[held'[d]].priority)
                 = (IF d \in joining THEN Rank[c] ELSE Rank[d])
    <3>1. CASE d \in joining
      BY <3>1, <1>3, <1>6, <1>8
    <3>2. CASE d \notin joining
      <4>1. held'[d] = held[d] /\ (held[d] # Free => held[d] \in Generations)
        BY <3>2, <1>8, HolderFacts
      <4> QED
        BY <3>2, <4>1, <1>6, HolderFacts
    <3> QED
      BY <3>1, <3>2
  <2> QED
    BY <2>1, <2>2, <1>10
<1>14. Promise!Take(S, o, p)
  BY <1>7, <1>10, <1>11, <1>12, <1>13 DEF Promise!Take, Promise!Nobody
<1>15. ClaimsAreMade'
  BY <1>6 DEF PromiseInv, ClaimsAreMade, Live, Ranks
<1> QED
  BY <1>14, <1>15 DEF Promise!Next

\* A grant takes free channels at the rank of the request.
LEMMA GrantTakes ==
    ASSUME PromiseInv, NEW S \in SUBSET Channels, NEW o \in Owners, NEW p \in Ranks \cap Int,
           NEW n \in Nat, Grant(S, o, p, n)
    PROVE  Promise!Next /\ ClaimsAreMade'
<1> DEFINE g == lastGeneration + 1
           new == [owner |-> o, channels |-> S, priority |-> p,
                   expires |-> tick + n, from |-> NoOwner, live |-> TRUE]
<1>1. /\ lastGeneration < MaxGeneration
      /\ \A c \in S : Plan(c, o, p) = "free"
      /\ lease' = [lease EXCEPT ![g] = new]
      /\ held' = [c \in Channels |-> IF c \in S THEN g ELSE held[c]]
  BY DEF Grant
<1>2. g \in Generations /\ g # Free
  BY <1>1, BrokerAssumption DEF PromiseInv, BrokerInv, TypeOK, Generations, Free
<1>3. ~lease[g].live
  BY <1>2 DEF PromiseInv, BrokerInv, FutureIsDead, TypeOK
<1>4. /\ lease'[g].owner = o /\ lease'[g].priority = p
      /\ \A h \in Generations \ {g} : lease'[h] = lease[h]
  BY <1>1, <1>2 DEF PromiseInv, BrokerInv, TypeOK
<1> HIDE DEF new, g
<1>5. ASSUME NEW c \in S
      PROVE  c \in Channels /\ Promise!Open(c, o) /\ held[c] = Free /\ Holder[c] = NoOwner
  BY <1>1, PlannedIsOpen, HolderFacts
<1>6. ASSUME NEW c \in Channels
      PROVE  /\ c \in S => held'[c] = g
             /\ c \notin S => held'[c] = held[c]
             /\ held[c] # Free => held[c] \in Generations \ {g}
  BY <1>1, <1>3, HolderFacts
<1>7. o # NoOwner
  BY BrokerAssumption
<1>8. {c \in S : Holder[c] = o} = {}
  BY <1>5, <1>7
<1>9. Holder' = [c \in Channels |-> IF c \in S THEN o ELSE Holder[c]]
  <2>1. \A c \in Channels : (IF held'[c] = Free THEN NoOwner ELSE lease'[held'[c]].owner)
                              = (IF c \in S THEN o ELSE Holder[c])
    BY <1>2, <1>4, <1>6, HolderFacts
  <2> QED
    BY <2>1 DEF Holder
<1>10. Rank' = [c \in Channels |-> IF c \in S THEN p ELSE Rank[c]]
  <2>1. \A c \in Channels : (IF held'[c] = Free THEN 0 ELSE lease'[held'[c]].priority)
                              = (IF c \in S THEN p ELSE Rank[c])
    BY <1>2, <1>4, <1>6, HolderFacts
  <2> QED
    BY <2>1 DEF Rank
<1>11. UNCHANGED <<Cool, Bar>>
  BY ClosuresStay DEF Grant
<1>12. Promise!Take(S, o, p)
  BY <1>5, <1>8, <1>9, <1>10, <1>11 DEF Promise!Take, Promise!Nobody
<1>13. ClaimsAreMade'
  BY <1>2, <1>4 DEF PromiseInv, ClaimsAreMade, Live, Ranks
<1> QED
  BY <1>12, <1>13 DEF Promise!Next

\* A preemption ousts the holders of the channels it charges; the other channels of their
\* leases fall free uncharged.
LEMMA PreemptOusts ==
    ASSUME PromiseInv, NEW S \in SUBSET Channels, NEW o \in Owners, NEW p \in Ranks \cap Int,
           Preempt(S, o, p)
    PROVE  Promise!Next /\ ClaimsAreMade'
<1> DEFINE contested == Planned("preempt", S, o, p)
           losers == {held[c] : c \in contested}
<1>1. contested # {} /\ contested \subseteq S
  BY DEF Preempt, Planned
<1>2. ASSUME NEW c \in contested
      PROVE  /\ c \in Channels /\ Promise!Open(c, o)
             /\ held[c] # Free /\ held[c] \in Generations
             /\ Holder[c] \notin {NoOwner, o} /\ Rank[c] < p
             /\ Holder[c] = lease[held[c]].owner
  <2>1. c \in Channels /\ Plan(c, o, p) = "preempt"
    BY <1>1 DEF Planned
  <2> QED
    BY <2>1, PlannedIsOpen, HolderFacts
<1>3. PICK first \in [losers -> contested] :
        /\ \A g \in losers : held[first[g]] = g
        /\ cooling' = [c \in Channels |->
             IF c \in {first[g] : g \in losers} THEN tick + CooldownTicks ELSE cooling[c]]
        /\ barred' = [c \in Channels |-> [q \in Owners |->
             IF c \in {first[g] : g \in losers} /\ q = lease[held[c]].owner
             THEN tick + CooldownTicks + 1
             ELSE barred[c][q]]]
  BY DEF Preempt
<1>4. Revoke(losers) /\ tick' = tick
  BY DEF Preempt
<1> DEFINE charged == {first[g] : g \in losers}
           freed == {c \in Channels : held[c] \in losers}
           others == freed \ charged
<1>5. losers \in SUBSET Generations
  BY <1>2
<1>6. /\ Holder' = [c \in Channels |-> IF c \in freed THEN NoOwner ELSE Holder[c]]
      /\ Rank' = [c \in Channels |-> IF c \in freed THEN 0 ELSE Rank[c]]
      /\ ClaimsAreMade'
  BY <1>4, <1>5, UnhookShows DEF Revoke
<1>7. /\ charged \subseteq contested /\ charged # {} /\ charged \subseteq freed
      /\ \A c \in freed : \E d \in charged : held[c] = held[d]
  <2>1. \A g \in losers : first[g] \in contested /\ held[first[g]] = g
    BY <1>3
  <2>2. \A c \in charged : c \in contested /\ held[c] \in losers
    BY <2>1
  <2>3. \A c \in freed : first[held[c]] \in charged /\ held[first[held[c]]] = held[c]
    BY <2>1
  <2>4. losers # {}
    BY <1>1
  <2> QED
    <3>1. charged \subseteq contested /\ charged # {}
      <4>1. charged \subseteq contested
        BY <2>2
      <4>2. PICK g \in losers : TRUE
        BY <2>4
      <4>3. first[g] \in charged
        BY <4>2
      <4> QED
        BY <4>1, <4>3
    <3>2. charged \subseteq freed
      BY <1>2, <2>2
    <3>3. \A c \in freed : \E d \in charged : held[c] = held[d]
      BY <2>3
    <3> QED
      BY <3>1, <3>2, <3>3
<1> HIDE DEF contested, losers, charged, freed
<1>8. charged \in SUBSET Channels /\ others \in SUBSET Channels /\ charged \cup others = freed
  BY <1>2, <1>7 DEF freed
<1>9. {c \in charged : Holder[c] \notin {NoOwner, o}} = charged
  BY <1>2, <1>7
<1>10. \A c \in others : \E d \in charged : Holder[c] = Holder[d]
  <2>1. ASSUME NEW c \in others PROVE \E d \in charged : Holder[c] = Holder[d]
    <3>1. PICK d \in charged : held[c] = held[d]
      BY <1>7
    <3>2. c \in Channels /\ d \in Channels /\ held[d] # Free
      BY <1>2, <1>7, <1>8, <3>1
    <3>3. Holder[c] = lease[held[c]].owner /\ Holder[d] = lease[held[d]].owner
      BY <3>1, <3>2, HolderFacts
    <3> QED
      BY <3>1, <3>3
  <2> QED
    BY <2>1
<1>11. tick \in Nat /\ CooldownTicks \in Nat
  BY BrokerAssumption DEF PromiseInv, BrokerInv, TypeOK
<1>12. Cool' = [c \in Channels |-> IF c \in charged THEN CooldownTicks ELSE Cool[c]]
  <2>1. Cool' = [c \in Channels |-> IF cooling'[c] > tick THEN cooling'[c] - tick ELSE 0]
    BY <1>4 DEF Cool, Remaining
  <2>2. ASSUME NEW c \in Channels
        PROVE  (IF cooling'[c] > tick THEN cooling'[c] - tick ELSE 0)
                 = (IF c \in charged THEN CooldownTicks ELSE Cool[c])
    <3>1. c \in charged => cooling'[c] = tick + CooldownTicks
      BY <1>3 DEF charged
    <3>2. c \notin charged => cooling'[c] = cooling[c]
      BY <1>3 DEF charged
    <3>3. Cool[c] = IF cooling[c] > tick THEN cooling[c] - tick ELSE 0
      BY DEF Cool, Remaining
    <3> QED
      BY <1>11, <3>1, <3>2, <3>3
  <2> QED
    BY <2>1, <2>2
<1>13. Bar' = [c \in Channels |-> [q \in Owners |->
                 IF c \in charged /\ q = Holder[c] THEN CooldownTicks + 1 ELSE Bar[c][q]]]
  <2>1. Bar' = [c \in Channels |-> [q \in Owners |->
                  IF barred'[c][q] > tick THEN barred'[c][q] - tick ELSE 0]]
    BY <1>4 DEF Bar, Remaining
  <2>2. ASSUME NEW c \in Channels, NEW q \in Owners
        PROVE  (IF barred'[c][q] > tick THEN barred'[c][q] - tick ELSE 0)
                 = (IF c \in charged /\ q = Holder[c] THEN CooldownTicks + 1 ELSE Bar[c][q])
    <3>1. c \in charged => Holder[c] = lease[held[c]].owner
      BY <1>2, <1>7
    <3>2. c \in charged /\ q = lease[held[c]].owner => barred'[c][q] = tick + CooldownTicks + 1
      BY <1>3 DEF charged
    <3>3. ~(c \in charged /\ q = lease[held[c]].owner) => barred'[c][q] = barred[c][q]
      BY <1>3 DEF charged
    <3>4. Bar[c][q] = IF barred[c][q] > tick THEN barred[c][q] - tick ELSE 0
      BY DEF Bar, Remaining
    <3>5. CASE c \in charged /\ q = lease[held[c]].owner
      BY <1>11, <3>1, <3>2, <3>5
    <3>6. CASE ~(c \in charged /\ q = lease[held[c]].owner)
      BY <3>1, <3>3, <3>4, <3>6
    <3> QED
      BY <3>5, <3>6
  <2> QED
    BY <2>1, <2>2
<1>14. \A c \in charged : Promise!Open(c, o) /\ Rank[c] < p
  BY <1>2, <1>7
<1> HIDE DEF others
<1>15. Promise!Oust(charged, o, p, others)
  BY <1>6, <1>7, <1>8, <1>9, <1>10, <1>12, <1>13, <1>14 DEF Promise!Oust, Promise!Nobody
<1> QED
  BY <1>6, <1>8, <1>15 DEF Promise!Next

-----------------------------------------------------------------------------

\* A delegation lends one channel at the rank of its holder.
LEMMA DelegateLends ==
    ASSUME PromiseInv, NEW c \in Channels, NEW from \in Owners, NEW to \in Owners,
           Delegate(c, from, to)
    PROVE  Promise!Next /\ ClaimsAreMade'
<1> DEFINE old == held[c]
           g == lastGeneration + 1
           new == [owner |-> to, channels |-> {c}, priority |-> lease[old].priority,
                   expires |-> lease[old].expires, from |-> from, live |-> TRUE]
<1>1. /\ lastGeneration < MaxGeneration /\ old # Free /\ lease[old].owner = from /\ to # from
      /\ lease' = [lease EXCEPT ![old].channels = @ \ {c}, ![g] = new]
      /\ held' = [held EXCEPT ![c] = g]
  BY DEF Delegate
<1>2. g \in Generations /\ g # Free
  BY <1>1, BrokerAssumption DEF PromiseInv, BrokerInv, TypeOK, Generations, Free
<1>3. ~lease[g].live
  BY <1>2 DEF PromiseInv, BrokerInv, FutureIsDead, TypeOK
<1>4. /\ old \in Generations /\ lease[old].live /\ Holder[c] = from /\ Rank[c] = lease[old].priority
      /\ Rank[c] \in Ranks
  BY <1>1, HolderFacts
<1>5. \A h \in Generations \ {g} : /\ lease'[h].live = lease[h].live
                                   /\ lease'[h].owner = lease[h].owner
                                   /\ lease'[h].priority = lease[h].priority
  BY <1>1 DEF PromiseInv, BrokerInv, TypeOK, LeaseType
<1>6. lease'[g].owner = to /\ lease'[g].priority = lease[old].priority
  BY <1>1, <1>2 DEF PromiseInv, BrokerInv, TypeOK
<1> HIDE DEF new, g
<1>7. ASSUME NEW d \in Channels
      PROVE  /\ d = c => held'[d] = g
             /\ d # c => held'[d] = held[d]
             /\ held[d] # Free => held[d] \in Generations \ {g}
  BY <1>1, <1>3, HolderFacts DEF PromiseInv, BrokerInv, TypeOK
<1>8. Holder' = [Holder EXCEPT ![c] = to]
  <2>1. \A d \in Channels : (IF held'[d] = Free THEN NoOwner ELSE lease'[held'[d]].owner)
                              = (IF d = c THEN to ELSE Holder[d])
    BY <1>2, <1>5, <1>6, <1>7, HolderFacts
  <2> QED
    BY <2>1 DEF Holder
<1>9. Rank' = Rank
  <2>1. \A d \in Channels : (IF held'[d] = Free THEN 0 ELSE lease'[held'[d]].priority) = Rank[d]
    BY <1>2, <1>4, <1>5, <1>6, <1>7, HolderFacts
  <2>2. Rank' = [d \in Channels |-> IF held'[d] = Free THEN 0 ELSE lease'[held'[d]].priority]
    BY DEF Rank
  <2>3. Rank = [d \in Channels |-> Rank[d]]
    BY DEF Rank
  <2> QED
    BY <2>1, <2>2, <2>3
<1>10. UNCHANGED <<Cool, Bar>>
  BY ClosuresStay DEF Delegate
<1>11. Promise!Lend(c, to)
  BY <1>1, <1>4, <1>8, <1>9, <1>10, BrokerAssumption DEF Promise!Lend, Promise!Nobody
<1>12. ClaimsAreMade'
  BY <1>4, <1>5, <1>6, <1>2 DEF PromiseInv, ClaimsAreMade, Live, Ranks
<1> QED
  BY <1>11, <1>12 DEF Promise!Next

\* A tick brings every closure nearer to its end.
LEMMA TickElapses ==
    ASSUME PromiseInv, BeginTick
    PROVE  Promise!Next /\ ClaimsAreMade'
<1>1. tick \in Nat /\ tick' = tick + 1 /\ UNCHANGED <<lease, held, cooling, barred>>
  BY DEF BeginTick, PromiseInv, BrokerInv, TypeOK
<1>2. \A n \in Nat : (IF n > tick' THEN n - tick' ELSE 0) = Promise!Less(IF n > tick THEN n - tick ELSE 0)
  BY <1>1 DEF Promise!Less
<1>3. Cool' = [c \in Channels |-> Promise!Less(Cool[c])]
  <2>1. Cool' = [c \in Channels |-> IF cooling[c] > tick' THEN cooling[c] - tick' ELSE 0]
    BY <1>1 DEF Cool, Remaining
  <2>2. \A c \in Channels : cooling[c] \in Nat /\ Cool[c] = IF cooling[c] > tick THEN cooling[c] - tick ELSE 0
    BY DEF Cool, Remaining, PromiseInv, BrokerInv, TypeOK
  <2> QED
    BY <1>2, <2>1, <2>2, Zenon
<1>4. Bar' = [c \in Channels |-> [o \in Owners |-> Promise!Less(Bar[c][o])]]
  <2>1. Bar' = [c \in Channels |-> [o \in Owners |-> IF barred[c][o] > tick' THEN barred[c][o] - tick' ELSE 0]]
    BY <1>1 DEF Bar, Remaining
  <2>2. \A c \in Channels, o \in Owners :
          barred[c][o] \in Nat /\ Bar[c][o] = IF barred[c][o] > tick THEN barred[c][o] - tick ELSE 0
    BY DEF Bar, Remaining, PromiseInv, BrokerInv, TypeOK
  <2>3. \A c \in Channels, o \in Owners :
          (IF barred[c][o] > tick' THEN barred[c][o] - tick' ELSE 0) = Promise!Less(Bar[c][o])
    BY <1>2, <2>2, Zenon
  <2> QED
    BY <2>1, <2>3
<1>5. UNCHANGED <<Holder, Rank>>
  BY <1>1 DEF Holder, Rank
<1>6. ClaimsAreMade'
  BY <1>1 DEF PromiseInv, ClaimsAreMade, Live, Ranks
<1> QED
  BY <1>3, <1>4, <1>5, <1>6 DEF Promise!Next, Promise!Elapse

\* `arbitrate` drops the expired and retires closures that no longer close anything.
LEMMA ArbitrateDrops ==
    ASSUME PromiseInv, Arbitrate
    PROVE  Promise!Next /\ ClaimsAreMade'
<1>1. Expired \in SUBSET Generations /\ Unhook(Expired) /\ tick' = tick
  BY DEF Arbitrate, Expired, Holding, Revoke
<1>2. Cool' = Cool
  <2>1. \A c \in Channels : Remaining(cooling[c])' = Remaining(cooling[c])
    BY <1>1 DEF Arbitrate, Remaining, PromiseInv, BrokerInv, TypeOK
  <2> QED
    BY <2>1 DEF Cool
<1>3. Bar' = Bar
  <2>1. \A c \in Channels, o \in Owners : Remaining(barred[c][o])' = Remaining(barred[c][o])
    BY <1>1 DEF Arbitrate, Remaining, PromiseInv, BrokerInv, TypeOK
  <2> QED
    BY <2>1 DEF Bar
<1> QED
  BY <1>1, <1>2, <1>3, Drops

-----------------------------------------------------------------------------

\* The steps that neither the holders nor the closures show.
LEMMA HiddenSteps ==
    ASSUME PromiseInv, UNCHANGED <<lease, held, cooling, barred, tick>>
    PROVE  UNCHANGED <<Holder, Rank, Cool, Bar>> /\ ClaimsAreMade'
  BY DEF Holder, Rank, Cool, Bar, Remaining, PromiseInv, ClaimsAreMade, Live, Ranks

\* What `acquire` and a caretaker's `renew` do, for a claim that a request made.
LEMMA AcquireKeeps ==
    ASSUME PromiseInv, NEW S \in SUBSET Channels, NEW o \in Owners, NEW p \in Ranks \cap Int,
           NEW n \in Nat, AcquireAs(S, o, p, n)
    PROVE  Promise!Next /\ ClaimsAreMade'
  BY PreemptOusts, RenewTakes, GrantTakes DEF AcquireAs

(* Every step of the broker is a step of Handover or a stutter, and keeps ClaimsAreMade. *)
LEMMA StepKeeps ==
    ASSUME PromiseInv, [Next]_vars
    PROVE  (Promise!Next \/ UNCHANGED <<Holder, Rank, Cool, Bar>>) /\ ClaimsAreMade'
<1>0. \A r \in Requests : r \in RequestType
  BY BrokerAssumption
<1>1. CASE \E r \in Requests : Acquire(r)
  <2> PICK r \in Requests : Acquire(r)
    BY <1>1
  <2>1. /\ r.channels \in SUBSET Channels /\ r.owner \in Owners /\ r.ttl \in Nat
        /\ r.band \in BandNames /\ r.offset \in Nat
    BY <1>0 DEF RequestType
  <2>2. Resolve(r.band, r.offset) \in Int
    BY <2>1 DEF Resolve, BandMin, BandNames
  <2>3. Resolve(r.band, r.offset) \in Ranks
    BY DEF Ranks
  <2> QED
    BY <2>1, <2>2, <2>3, AcquireKeeps DEF Acquire
<1>2. CASE \E g \in Generations, ttl \in {r.ttl : r \in Requests} : CaretakerRenew(g, ttl)
  <2> PICK g \in Generations, ttl \in {r.ttl : r \in Requests} : CaretakerRenew(g, ttl)
    BY <1>2
  <2>1. lease[g].live /\ AcquireAs(lease[g].channels, lease[g].owner, lease[g].priority, ttl)
    BY DEF CaretakerRenew, CaretakerValid
  <2>2. lease[g].channels \in SUBSET Channels /\ lease[g].priority \in Int /\ ttl \in Nat
    BY <1>0 DEF RequestType, PromiseInv, BrokerInv, TypeOK, LeaseType
  <2>3. lease[g].owner \in Owners /\ lease[g].priority \in Ranks
    BY <2>1 DEF PromiseInv, ClaimsAreMade, Live
  <2> QED
    BY <2>1, <2>2, <2>3, AcquireKeeps
<1>3. CASE \E g \in Generations : Release(g)
  <2> PICK g \in Generations : Release(g)
    BY <1>3
  <2>1. Unhook({g}) /\ UNCHANGED <<Cool, Bar>>
    BY ClosuresStay DEF Release, Revoke
  <2> QED
    BY <2>1, Drops
<1>4. ASSUME NEW G \in SUBSET Generations, Sweep(G)
      PROVE  Promise!Next /\ ClaimsAreMade'
  <2>1. Unhook(G) /\ UNCHANGED <<Cool, Bar>>
    BY <1>4, ClosuresStay DEF Sweep, Revoke
  <2> QED
    BY <2>1, Drops
<1>5. CASE \E o \in Owners : RevokeOwner(o)
  BY <1>4, <1>5 DEF RevokeOwner, OwnedBy, Holding
<1>6. CASE \E o \in Owners : RevokeDelegationsFrom(o)
  BY <1>4, <1>6 DEF RevokeDelegationsFrom, DelegatedFrom, Holding
<1>7. CASE \E p \in {lease[g].priority : g \in Live} : RevokeBelow(p + 1)
  BY <1>4, <1>7 DEF RevokeBelow, Below, Holding
<1>8. CASE \E c \in Channels, from, to \in Owners : Delegate(c, from, to)
  BY <1>8, DelegateLends
<1>9. CASE BeginTick
  BY <1>9, TickElapses
<1>10. CASE Arbitrate
  BY <1>10, ArbitrateDrops
<1>11. CASE \/ EndTick \/ ReconcileKeys \/ BypassKeys \/ UNCHANGED vars
            \/ \E g \in Generations, keys \in SUBSET Keys : CommitMove(g, keys)
  <2>1. UNCHANGED <<lease, held, cooling, barred, tick>>
    BY <1>11 DEF EndTick, ReconcileKeys, BypassKeys, CommitMove, vars, brokerVars
  <2> QED
    BY <2>1, HiddenSteps
<1> QED
  BY <1>1, <1>2, <1>3, <1>5, <1>6, <1>7, <1>8, <1>9, <1>10, <1>11 DEF Next

(* The broker's initial states map to an initial state of Handover. *)
LEMMA InitKeeps == Init => PromiseInv /\ Promise!Init
<1> SUFFICES ASSUME Init PROVE PromiseInv /\ Promise!Init
  OBVIOUS
<1>1. ClaimsAreMade
  BY DEF Init, Dead, ClaimsAreMade, Live
<1>2. \A n \in {0} : Remaining(n) = 0
  BY DEF Init, Remaining
<1>3. Promise!Init
  BY <1>2 DEF Init, Free, Holder, Rank, Cool, Bar, Promise!Init, Promise!Nobody
<1> QED
  BY <1>1, <1>3, InitInv DEF PromiseInv

\* The priority of every lease is one a request resolved to, its owner one of the owners.
THEOREM PromiseInvariant == Spec => []PromiseInv
<1>1. PromiseInv /\ [Next]_vars => PromiseInv'
  BY StepKeeps, NextInv DEF PromiseInv
<1> QED
  BY <1>1, InitKeeps, PTL DEF Spec

\* The broker implements Handover: whatever its callers do, a channel changes hands only by
\* being free in between or by being lent, and an outranked holder leaves a closed channel
\* (control_broker.lua:22-34).
THEOREM BrokerKeepsPromise == Spec => KeepsHandoverPromise
<1>1. PromiseInv /\ [Next]_vars => [Promise!Next]_Promise!handoverVars
  BY StepKeeps DEF Promise!handoverVars
<1> QED
  BY <1>1, InitKeeps, PromiseInvariant, PTL DEF Spec, KeepsHandoverPromise, Promise!Spec
=============================================================================
