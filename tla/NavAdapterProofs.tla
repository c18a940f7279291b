-------------------------- MODULE NavAdapterProofs --------------------------
(***************************************************************************)
(* The navigation adapter over the broker, for any callers, destinations,    *)
(* contenders and bounds, where the client's `stop` does not throw           *)
(* (NavFaults) and no plugin claims under the adapter's names (OwnersApart). *)
(*                                                                          *)
(* The adapter keeps a generation, the owner it claimed for, the client and  *)
(* the rest of a call.  The invariant says that these follow its lease on    *)
(* MOVEMENT (Booked) and that it has no other (OneLease).  For a renewal not *)
(* to be refused while the client drives, nothing may be closed to its       *)
(* holder, which is part of Booked too.                                      *)
(***************************************************************************)
EXTENDS NavAdapter, ControlBrokerProofs

OwnersApart == \A r \in Requests : r.owner \notin AdapterOwners

Booked ==
    /\ navLease = Free => navRequest = NoOwner /\ ~navigating /\ call.step # "dispatch"
    /\ navLease # Free =>
         /\ held[Movement] = navLease
         /\ lease[navLease].owner = navRequest
         /\ navRequest \in AdapterOwners
         /\ cooling[Movement] <= tick
         /\ barred[Movement][navRequest] <= tick

OneLease == \A g \in Live : lease[g].owner \in AdapterOwners => g = navLease

AdapterInv == BrokerInv /\ Booked /\ OneLease

-----------------------------------------------------------------------------

(* Facts about the constants that the lemmas of the adapter share. *)
LEMMA AdapterFacts ==
    /\ AdapterOwners \subseteq Owners /\ NoOwner \notin AdapterOwners
    /\ Movement \in Channels /\ {Movement} \in SUBSET Channels
    /\ NavLeaseTtl \in Nat
    /\ \A o : ClaimPriority(o) \in Int
    /\ \A o \in {NoOwner, Combat} : Asked(o) \in AdapterOwners
  BY NavAssumption, BrokerAssumption
     DEF AdapterOwners, NavLeaseTtl, ClaimPriority, Resolve, BandMin, BandNames, Asked

\* The lease the adapter notes is alive and its channel is MOVEMENT.
LEMMA NotedLease ==
    ASSUME AdapterInv, navLease # Free
    PROVE  /\ navLease \in Generations /\ navLease \in Live
           /\ Movement \in lease[navLease].channels
           /\ lease[navLease].owner \in AdapterOwners
  BY AdapterFacts DEF AdapterInv, Booked, BrokerInv, HoldingsAgree, Live

\* A claim that is granted leaves the claimer with MOVEMENT and the adapter with no other
\* lease.
LEMMA ClaimFacts ==
    ASSUME AdapterInv, NEW o \in AdapterOwners, Claimed(o)
    PROVE  /\ BrokerInv'
           /\ held'[Movement] # Free
           /\ lease'[held'[Movement]].owner = o
           /\ cooling'[Movement] <= tick' /\ barred'[Movement][o] <= tick'
           /\ \A g \in Live' : lease'[g].owner \in AdapterOwners => g = held'[Movement]
           /\ \A g \in Live : lease'[g].live
           /\ navigating' = navigating
<1> DEFINE p == ClaimPriority(o)
           S == {Movement}
<1>0. /\ cooling[Movement] \in Nat /\ barred[Movement][o] \in Nat /\ tick \in Nat
      /\ o \in Owners /\ p \in Int /\ S \in SUBSET Channels /\ NavLeaseTtl \in Nat
  BY AdapterFacts DEF AdapterInv, BrokerInv, TypeOK
<1>1. Plan(Movement, o, p) \in {"free", "renew", "preempt"}
  BY DEF Claimed, Renew, Grant, Plannable
<1>2. cooling[Movement] <= tick /\ barred[Movement][o] <= tick
  BY <1>0, <1>1 DEF Plan
<1>3. CASE Renew(S, o, p, NavLeaseTtl)
  <2>1. BrokerInv'
    BY <1>0, <1>3, RenewInv DEF AdapterInv
  <2>2. Planned("renew", S, o, p) = {Movement} /\ Planned("free", S, o, p) = {}
    BY <1>3 DEF Renew, Planned
  <2>3. Plan(Movement, o, p) = "renew"
    BY <2>2 DEF Planned
  <2>4. held[Movement] # Free /\ lease[held[Movement]].owner = o
    BY <2>3 DEF Plan
  <2>5. /\ lease' = [lease EXCEPT ![held[Movement]].expires = tick + NavLeaseTtl,
                                  ![held[Movement]].channels = @ \cup {}]
        /\ held' = [d \in Channels |-> IF d \in {} THEN held[Movement] ELSE held[d]]
        /\ UNCHANGED <<cooling, barred, tick, movementVars>>
    BY <1>3, <2>2 DEF Renew
  <2>6. held'[Movement] = held[Movement]
    BY <2>5, AdapterFacts
  <2>7. \A g \in Generations : lease'[g].live = lease[g].live /\ lease'[g].owner = lease[g].owner
    BY <2>5 DEF AdapterInv, BrokerInv, TypeOK, LeaseType
  <2>8. held[Movement] \in Live /\ held[Movement] \in Generations
    BY <2>4, AdapterFacts DEF AdapterInv, BrokerInv, HoldingsAgree, Live
  <2>9. held[Movement] = navLease
    BY <2>4, <2>8 DEF AdapterInv, OneLease
  <2> QED
    BY <1>2, <2>1, <2>4, <2>5, <2>6, <2>7, <2>8, <2>9
       DEF AdapterInv, OneLease, Live, movementVars
<1>4. CASE Grant(S, o, p, NavLeaseTtl)
  <2> DEFINE n == lastGeneration + 1
  <2>1. BrokerInv'
    BY <1>0, <1>4, GrantInv DEF AdapterInv
  <2>2. n \in Generations /\ n # Free
    BY <1>4, BrokerAssumption DEF Grant, AdapterInv, BrokerInv, TypeOK, Generations, Free
  <2>3. held[Movement] = Free
    BY <1>4 DEF Grant, Plan
  <2>4. navLease = Free
    BY <2>3 DEF AdapterInv, Booked
  <2>5. /\ lease' = [lease EXCEPT ![n] = [owner |-> o, channels |-> S, priority |-> p,
                       expires |-> tick + NavLeaseTtl, from |-> NoOwner, live |-> TRUE]]
        /\ held' = [c \in Channels |-> IF c \in S THEN n ELSE held[c]]
        /\ UNCHANGED <<cooling, barred, tick, movementVars>>
    BY <1>4 DEF Grant
  <2> HIDE DEF n
  <2>6. held'[Movement] = n
    BY <2>5, AdapterFacts
  <2>7. lease'[n].owner = o /\ lease'[n].live /\ \A g \in Generations \ {n} : lease'[g] = lease[g]
    BY <2>2, <2>5 DEF AdapterInv, BrokerInv, TypeOK
  <2>8. \A g \in Live : g \in Generations /\ g # Free
    BY DEF Live, Generations, Free
  <2> QED
    BY <1>2, <2>1, <2>2, <2>4, <2>5, <2>6, <2>7, <2>8
       DEF AdapterInv, OneLease, Live, movementVars
<1> QED
  BY <1>3, <1>4 DEF Claimed

\* The adapter keeps what it noted about a lease when others are torn down, and forgets it
\* when its own is; the client is then stopped.
LEMMA TornDown ==
    ASSUME AdapterInv, NavFaults = FALSE, NEW G \in SUBSET Generations, Revoke(G),
           OnRevoke, call'.step # "dispatch",
           navLease \notin G =>
             /\ navLease # Free => cooling'[Movement] <= tick' /\ barred'[Movement][navRequest] <= tick'
    PROVE  Booked' /\ OneLease'
<1>1. /\ lease' = [g \in Generations |-> IF g \in G THEN Dead ELSE lease[g]]
      /\ held' = [c \in Channels |->
                    IF held[c] \in G /\ c \in lease[held[c]].channels THEN Free ELSE held[c]]
      /\ ReleaseIfMoving(G)
  BY DEF Revoke, Unhook
<1>2. \A g \in Generations : lease'[g].live => lease'[g] = lease[g] /\ g \notin G
  BY <1>1 DEF Dead
<1>3. ~navigating => ~navigating'
  BY <1>1 DEF ReleaseIfMoving, ReleaseAll, movementVars
<1>4. \A g \in Live' : lease'[g].owner \in AdapterOwners => g = navLease /\ g \notin G
  BY <1>2 DEF Live, AdapterInv, OneLease
<1>5. LosesLease => navLease # Free /\ navLease \in G
  <2> SUFFICES ASSUME NEW g \in Generations, lease[g].live, ~lease'[g].live, lease[g].owner \in AdapterOwners
               PROVE  navLease # Free /\ navLease \in G
    BY DEF LosesLease
  <2>1. g = navLease /\ g # Free
    BY DEF AdapterInv, OneLease, Live, Generations, Free
  <2> QED
    BY <1>1, <2>1
<1>6. CASE navLease # Free /\ navLease \in G
  <2>1. navLease \in Generations /\ lease[navLease].live /\ Movement \in lease[navLease].channels
        /\ lease[navLease].owner \in AdapterOwners
    BY <1>6, NotedLease DEF Live
  <2>2. ~lease'[navLease].live
    BY <1>2, <1>6, <2>1
  <2>3. LosesLease
    BY <2>1, <2>2 DEF LosesLease
  <2>4. navLease' = Free /\ navRequest' = NoOwner
    BY <2>3 DEF OnRevoke
  <2>5. ~navigating'
    BY <1>1, <1>6, <2>1 DEF ReleaseIfMoving, ReleaseAll
  <2> QED
    BY <1>4, <1>6, <2>4, <2>5 DEF Booked, OneLease
<1>7. CASE ~(navLease # Free /\ navLease \in G)
  <2>1. navLease' = navLease /\ navRequest' = navRequest
    BY <1>5, <1>7 DEF OnRevoke, navVars
  <2>2. CASE navLease = Free
    BY <1>3, <1>4, <2>1, <2>2 DEF Booked, OneLease, AdapterInv
  <2>3. CASE navLease # Free
    <3>1. held[Movement] = navLease /\ navLease \notin G /\ navLease \in Generations
      BY <1>7, <2>3, NotedLease DEF AdapterInv, Booked
    <3>2. held'[Movement] = navLease /\ lease'[navLease] = lease[navLease]
      BY <1>1, <3>1, AdapterFacts
    <3> QED
      BY <1>4, <2>1, <2>3, <3>1, <3>2 DEF Booked, OneLease, AdapterInv
  <2> QED
    BY <2>2, <2>3
<1> QED
  BY <1>6, <1>7

\* Handing back leaves the adapter without a lease and the client still.
LEMMA HandBackFacts ==
    ASSUME AdapterInv, NavFaults = FALSE, NEW stopping, HandBack(stopping)
    PROVE  /\ BrokerInv' /\ navLease' = Free /\ navRequest' = NoOwner /\ ~navigating'
           /\ \A g \in Live' : lease'[g].owner \notin AdapterOwners
<1>1. navLease' = Free /\ navRequest' = NoOwner
  BY DEF HandBack
<1>2. CASE navLease # Free
  <2>1. /\ navLease \in Generations /\ lease[navLease].live /\ Movement \in lease[navLease].channels
    BY <1>2, NotedLease DEF Live
  <2>2. Release(navLease)
    BY <1>2, <2>1 DEF HandBack
  <2>3. BrokerInv'
    BY <2>1, <2>2, ReleaseInv DEF AdapterInv
  <2>4. ReleaseAll
    BY <2>1, <2>2 DEF Release, Revoke, ReleaseIfMoving
  <2>5. ~navigating'
    BY <2>4 DEF ReleaseAll
  <2>6. \A g \in Generations : lease'[g].live => lease'[g] = lease[g] /\ g # navLease
    BY <2>1, <2>2 DEF Release, Revoke, Unhook, Dead
  <2> QED
    BY <1>1, <2>3, <2>5, <2>6 DEF AdapterInv, OneLease, Live
<1>3. CASE navLease = Free
  <2>1. UNCHANGED <<brokerVars, desired, pressed, down>>
        /\ navigating' \in IF stopping THEN {FALSE, NavFaults /\ navigating} ELSE {navigating}
    BY <1>3 DEF HandBack
  <2>2. navigating' = FALSE
    BY <1>3, <2>1 DEF AdapterInv, Booked, BrokerInv, TypeOK, MovementTypeOK
  <2>3. TypeOK'
    BY <2>1, <2>2 DEF brokerVars, AdapterInv, BrokerInv, TypeOK, MovementTypeOK
  <2>4. BrokerInv'
    BY <2>1, <2>3, TablesAloneInv DEF brokerVars, AdapterInv
  <2>5. \A g \in Live : lease[g].owner \notin AdapterOwners
    BY <1>3 DEF AdapterInv, OneLease, Live, Generations, Free
  <2> QED
    BY <1>1, <2>1, <2>2, <2>4, <2>5 DEF brokerVars, Live
<1> QED
  BY <1>2, <1>3

\* What happens to others' leases, and what leaves all of them alone.
LEMMA Undisturbed ==
    ASSUME AdapterInv, BrokerInv', call'.step # "dispatch", UNCHANGED <<navLease, navRequest>>,
           \A g \in Live' : lease'[g].owner \in AdapterOwners => g \in Live /\ lease'[g].owner = lease[g].owner,
           navLease # Free => held'[Movement] = navLease /\ lease'[navLease].owner = lease[navLease].owner,
           cooling'[Movement] = cooling[Movement], barred'[Movement] = barred[Movement],
           tick' \in {tick, tick + 1}, navigating' => navigating
    PROVE  AdapterInv'
<1>1. cooling[Movement] \in Nat /\ tick \in Nat
      /\ \A o \in AdapterOwners : barred[Movement][o] \in Nat
  BY AdapterFacts DEF AdapterInv, BrokerInv, TypeOK
<1>2. Booked'
  BY <1>1 DEF AdapterInv, Booked
<1>3. OneLease'
  BY DEF AdapterInv, OneLease
<1> QED
  BY <1>2, <1>3 DEF AdapterInv

-----------------------------------------------------------------------------
(* The adapter's own operations *)

(* A preemption with the adapter's on_revoke preserves AdapterInv. *)
LEMMA PreemptTears ==
    ASSUME AdapterInv, NavFaults = FALSE, NEW S \in SUBSET Channels, NEW o \in Owners, NEW p \in Int,
           Preempt(S, o, p), OnRevoke, call'.step # "dispatch"
    PROVE  AdapterInv'
<1> DEFINE contested == Planned("preempt", S, o, p)
           G == {held[c] : c \in contested}
<1>1. \A c \in contested : c \in Channels /\ held[c] \in Generations
  BY DEF Planned, Plan, AdapterInv, BrokerInv, TypeOK
<1>2. G \in SUBSET Generations
  BY <1>1
<1>3. PICK first \in [G -> contested] :
        /\ \A g \in G : held[first[g]] = g
        /\ cooling' = [c \in Channels |->
             IF c \in {first[g] : g \in G} THEN tick + CooldownTicks ELSE cooling[c]]
        /\ barred' = [c \in Channels |-> [q \in Owners |->
             IF c \in {first[g] : g \in G} /\ q = lease[held[c]].owner
             THEN tick + CooldownTicks + 1 ELSE barred[c][q]]]
  BY DEF Preempt
<1>4. Revoke(G) /\ tick' = tick
  BY DEF Preempt
<1>5. BrokerInv'
  BY PreemptInv DEF AdapterInv
<1>6. ASSUME navLease \notin G, navLease # Free
      PROVE  cooling'[Movement] <= tick' /\ barred'[Movement][navRequest] <= tick'
  <2>1. held[Movement] = navLease /\ navRequest \in Owners
    BY <1>6, AdapterFacts DEF AdapterInv, Booked
  <2> HIDE DEF G
  <2>2. Movement \notin {first[g] : g \in G}
    BY <1>3, <1>6, <2>1
  <2>3. cooling'[Movement] = cooling[Movement] /\ barred'[Movement][navRequest] = barred[Movement][navRequest]
    BY <1>3, <2>1, <2>2, AdapterFacts
  <2> QED
    BY <1>4, <1>6, <2>3 DEF AdapterInv, Booked
<1> HIDE DEF G
<1>7. Booked' /\ OneLease'
  BY <1>2, <1>4, <1>6, TornDown
<1> QED
  BY <1>5, <1>7 DEF AdapterInv

(* A successful claim for the adapter preserves AdapterInv. *)
LEMMA ClaimInv ==
    ASSUME AdapterInv, NEW o \in AdapterOwners, Claimed(o),
           navLease' = held'[Movement], navRequest' = o
    PROVE  AdapterInv'
  BY ClaimFacts DEF AdapterInv, Booked, OneLease

(* Adapter:move_to preserves AdapterInv. *)
LEMMA MoveToInv ==
    ASSUME AdapterInv, NavFaults = FALSE, Quiet \/ call.step = "move", NEW owner \in {NoOwner, Combat},
           NEW target, NEW flee, MoveTo(owner, target, flee)
    PROVE  AdapterInv'
<1>1. Asked(owner) \in AdapterOwners /\ Asked(owner) \in Owners
  BY AdapterFacts
<1>2. CASE Claimed(Asked(owner)) /\ navLease' = held'[Movement] /\ navRequest' = Asked(owner)
  BY <1>1, <1>2, ClaimInv
<1>3. call.step # "dispatch"
  BY DEF Quiet, Idle
<1>4. CASE /\ Pending(Asked(owner)) /\ OnRevoke
           /\ call' = IF flee THEN [Idle EXCEPT !.step = "release"] ELSE Idle
  <2>1. call'.step # "dispatch"
    BY <1>4 DEF Idle
  <2> QED
    BY <1>1, <1>4, <2>1, PreemptTears, AdapterFacts DEF Pending
<1>5. CASE /\ Refused(Asked(owner)) /\ UNCHANGED navVars
           /\ call' = IF flee THEN [Idle EXCEPT !.step = "release"] ELSE Idle
  <2>1. call'.step # "dispatch"
    BY <1>5 DEF Idle
  <2>2. BrokerInv'
    BY <1>5, NextInv DEF Refused, AdapterInv
  <2> QED
    BY <1>5, <2>1, <2>2, Undisturbed DEF Refused, vars, brokerVars, movementVars, navVars, Live, AdapterInv, Booked
<1> QED
  BY <1>2, <1>4, <1>5 DEF MoveTo

(* Handing MOVEMENT back preserves AdapterInv. *)
LEMMA HandBackInv ==
    ASSUME AdapterInv, NavFaults = FALSE, NEW stopping, HandBack(stopping), call'.step # "dispatch"
    PROVE  AdapterInv'
  BY HandBackFacts DEF AdapterInv, Booked, OneLease

(* A step that leaves the broker and the adapter's lease alone preserves AdapterInv. *)
LEMMA IdleInv ==
    ASSUME AdapterInv, UNCHANGED <<vars, navLease, navRequest>>,
           call'.step # "dispatch"
    PROVE  AdapterInv'
<1>1. BrokerInv'
  BY NextInv DEF AdapterInv
<1> QED
  BY <1>1, Undisturbed DEF vars, brokerVars, movementVars, Live, AdapterInv, Booked

\* Only a lease commands the client; the command is the last step of a claim.
LEMMA DispatchInv == ASSUME AdapterInv, Dispatch PROVE AdapterInv'
<1>1. navigating' \in {navigating, TRUE} /\ call'.step # "dispatch"
  BY DEF Dispatch, Idle, Fleeing
<1>2. UNCHANGED <<brokerVars, desired, pressed, down, navLease, navRequest>> /\ navLease # Free
  BY DEF Dispatch, AdapterInv, Booked
<1>3. TypeOK'
  BY <1>1, <1>2 DEF brokerVars, AdapterInv, BrokerInv, TypeOK, MovementTypeOK
<1>4. BrokerInv'
  BY <1>2, <1>3, TablesAloneInv DEF brokerVars, AdapterInv
<1> QED
  BY <1>2, <1>4 DEF brokerVars, AdapterInv, Booked, OneLease, Live

(* The client finishing its command preserves AdapterInv. *)
LEMMA ClientEndsInv == ASSUME AdapterInv, ClientEnds PROVE AdapterInv'
<1>1. /\ navigating' = FALSE /\ call.step # "dispatch"
      /\ UNCHANGED <<brokerVars, desired, pressed, down, navLease, navRequest, call>>
  BY DEF ClientEnds, Quiet, Idle
<1>2. TypeOK'
  BY <1>1 DEF brokerVars, AdapterInv, BrokerInv, TypeOK, MovementTypeOK
<1>3. BrokerInv'
  BY <1>1, <1>2, TablesAloneInv DEF brokerVars, AdapterInv
<1> QED
  BY <1>1, <1>3 DEF brokerVars, AdapterInv, Booked, OneLease, Live

\* The renewal in a poll is never refused while the adapter has a lease: its channel is
\* open to it, and it holds it.
LEMMA PollInv == ASSUME AdapterInv, Poll PROVE AdapterInv'
<1>1. RenewMovement /\ call' = call /\ call.step # "dispatch"
  BY DEF Poll, Quiet, Idle
<1>2. CASE navRequest = NoOwner /\ UNCHANGED <<vars, navLease, navRequest>>
  BY <1>1, <1>2, IdleInv
<1>3. CASE navRequest # NoOwner
  <2>1. /\ navLease # Free /\ navRequest \in AdapterOwners
        /\ held[Movement] = navLease /\ lease[navLease].owner = navRequest
        /\ cooling[Movement] <= tick /\ barred[Movement][navRequest] <= tick
    BY <1>3 DEF AdapterInv, Booked
  <2>2. cooling[Movement] \in Nat /\ barred[Movement][navRequest] \in Nat /\ tick \in Nat
    BY <2>1, AdapterFacts DEF AdapterInv, BrokerInv, TypeOK
  <2>3. Plan(Movement, navRequest, ClaimPriority(navRequest)) = "renew"
    BY <2>1, <2>2 DEF Plan
  <2>4. ~Refused(navRequest)
    BY <2>3 DEF Refused, Plannable
  <2>5. Claimed(navRequest) /\ navLease' = held'[Movement] /\ navRequest' = navRequest
    BY <1>1, <1>3, <2>4 DEF RenewMovement
  <2> QED
    BY <2>1, <2>5, ClaimInv
<1> QED
  BY <1>1, <1>2, <1>3 DEF RenewMovement

-----------------------------------------------------------------------------
(* The callers and the rest of the kernel *)

(* Adapter:stop preserves AdapterInv. *)
LEMMA StopInv ==
    ASSUME AdapterInv, NavFaults = FALSE, NEW owner, Stop(owner), call'.step # "dispatch"
    PROVE  AdapterInv'
  BY HandBackInv DEF Stop

(* So do the adapter's callers. *)
LEMMA CallersInv ==
    ASSUME AdapterInv, NavFaults = FALSE,
           \/ QuestingMoves \/ QuestingStops \/ Chase \/ InRange \/ Disengage
           \/ Flee \/ FleeMove \/ PluginFollows \/ ReleaseNav \/ WindowCloses \/ DriversDie
    PROVE  AdapterInv'
<1> USE DEF Driven, Quiet, Idle, Fleeing
<1>1. CASE QuestingMoves \/ PluginFollows
  BY <1>1, MoveToInv DEF QuestingMoves, PluginFollows
<1>2. CASE Chase \/ FleeMove
  BY <1>2, MoveToInv DEF Chase, FleeMove
<1>3. CASE QuestingStops
  BY <1>3, StopInv DEF QuestingStops
<1>4. CASE InRange
  <2>1. call'.step # "dispatch"
    BY <1>4 DEF InRange
  <2> QED
    BY <1>4, <2>1, StopInv, IdleInv DEF InRange, navVars
<1>5. CASE Disengage
  <2>1. call'.step # "dispatch" /\ Stop(Combat)
    BY <1>5 DEF Disengage, StopChase
  <2> QED
    BY <2>1, StopInv
<1>6. CASE Flee
  <2>1. call'.step # "dispatch"
    BY <1>6 DEF Flee, StopChase
  <2> QED
    BY <1>6, <2>1, StopInv, IdleInv DEF Flee, StopChase, navVars
<1>7. CASE ReleaseNav
  <2>1. call'.step # "dispatch"
    BY <1>7 DEF ReleaseNav
  <2> QED
    BY <1>7, <2>1, HandBackInv, IdleInv DEF ReleaseNav, navVars
<1>8. CASE WindowCloses \/ DriversDie
  BY <1>8, IdleInv DEF WindowCloses, DriversDie, navVars
<1> QED
  BY <1>1, <1>2, <1>3, <1>4, <1>5, <1>6, <1>7, <1>8

\* Another owner's grant or renewal gives the adapter nothing and takes nothing from it.
LEMMA OthersGrow ==
    ASSUME AdapterInv, BrokerInv', call'.step # "dispatch", OnRevoke,
           NEW S \in SUBSET Channels, NEW o \in Owners \ AdapterOwners, NEW p \in Int, NEW n \in Nat,
           Renew(S, o, p, n) \/ Grant(S, o, p, n)
    PROVE  AdapterInv'
<1>1. /\ \A g \in Generations : lease[g].live => lease'[g].live /\ lease'[g].owner = lease[g].owner
      /\ \A g \in Generations : lease'[g].live /\ lease'[g].owner \in AdapterOwners => lease[g].live
      /\ \A c \in Channels : held[c] # Free => held'[c] = held[c]
      /\ UNCHANGED <<cooling, barred, tick, movementVars>>
  <2>1. CASE Renew(S, o, p, n)
    <3>1. PICK c \in Channels :
            /\ lease' = [lease EXCEPT ![held[c]].expires = tick + n,
                                      ![held[c]].channels = @ \cup Planned("free", S, o, p)]
            /\ held' = [d \in Channels |-> IF d \in Planned("free", S, o, p) THEN held[c] ELSE held[d]]
      BY <2>1 DEF Renew, Planned
    <3>2. \A g \in Generations : lease'[g].live = lease[g].live /\ lease'[g].owner = lease[g].owner
      BY <3>1 DEF AdapterInv, BrokerInv, TypeOK, LeaseType
    <3>3. \A d \in Planned("free", S, o, p) : held[d] = Free
      BY DEF Planned, Plan
    <3> QED
      BY <2>1, <3>1, <3>2, <3>3 DEF Renew
  <2>2. CASE Grant(S, o, p, n)
    <3> DEFINE m == lastGeneration + 1
    <3>1. m \in Generations /\ ~lease[m].live
      <4>1. m \in Generations /\ m > lastGeneration
        BY <2>2, BrokerAssumption DEF Grant, AdapterInv, BrokerInv, TypeOK, Generations
      <4> QED
        BY <4>1 DEF AdapterInv, BrokerInv, FutureIsDead, Live
    <3>2. /\ lease' = [lease EXCEPT ![m] = [owner |-> o, channels |-> S, priority |-> p,
                         expires |-> tick + n, from |-> NoOwner, live |-> TRUE]]
          /\ held' = [c \in Channels |-> IF c \in S THEN m ELSE held[c]]
          /\ UNCHANGED <<cooling, barred, tick, movementVars>>
          /\ \A c \in S : held[c] = Free
      BY <2>2 DEF Grant, Plan
    <3> HIDE DEF m
    <3>3. lease'[m].owner = o /\ \A g \in Generations \ {m} : lease'[g] = lease[g]
      BY <3>1, <3>2 DEF AdapterInv, BrokerInv, TypeOK
    <3> QED
      BY <3>1, <3>2, <3>3
  <2> QED
    BY <2>1, <2>2
<1>2. ~LosesLease
  BY <1>1 DEF LosesLease
<1>3. UNCHANGED <<navLease, navRequest>>
  BY <1>2 DEF OnRevoke, navVars
<1>4. \A g \in Live' : lease'[g].owner \in AdapterOwners => g \in Live /\ lease'[g].owner = lease[g].owner
  BY <1>1 DEF Live
<1>5. navLease # Free => held'[Movement] = navLease /\ lease'[navLease].owner = lease[navLease].owner
  BY <1>1, NotedLease, AdapterFacts DEF Live, AdapterInv, Booked
<1> QED
  BY <1>1, <1>3, <1>4, <1>5, Undisturbed DEF movementVars

(* Calls of other plugins on the broker preserve AdapterInv. *)
LEMMA OthersActInv ==
    ASSUME AdapterInv, NavFaults = FALSE, OwnersApart, OthersAct
    PROVE  AdapterInv'
<1>1. OnRevoke /\ call'.step # "dispatch"
  BY DEF OthersAct, Quiet, Idle
<1>2. ASSUME NEW r \in Requests, Acquire(r) PROVE AdapterInv'
  <2>1. /\ r.channels \in SUBSET Channels /\ r.owner \in Owners \ AdapterOwners /\ r.ttl \in Nat
        /\ r.band \in BandNames /\ r.offset \in Nat
    BY BrokerAssumption DEF RequestType, OwnersApart
  <2>2. Resolve(r.band, r.offset) \in Int
    BY <2>1 DEF Resolve, BandMin, BandNames
  <2>3. BrokerInv'
    BY <1>2, AcquireInv DEF AdapterInv
  <2> QED
    BY <1>1, <1>2, <2>1, <2>2, <2>3, PreemptTears, OthersGrow DEF Acquire, AcquireAs
<1>3. ASSUME NEW p, RevokeBelow(p + 1) PROVE AdapterInv'
  <2>1. Below(p + 1) \in SUBSET Generations /\ Sweep(Below(p + 1))
    BY <1>3 DEF RevokeBelow, Below, Holding
  <2>2. BrokerInv'
    BY <2>1, SweepInv DEF AdapterInv
  <2> QED
    BY <1>1, <2>1, <2>2, TornDown DEF Sweep, AdapterInv, Booked
<1>4. CASE Arbitrate
  <2>1. Expired \in SUBSET Generations /\ Revoke(Expired) /\ tick' = tick
    BY <1>4 DEF Arbitrate, Expired, Holding
  <2>2. BrokerInv'
    BY <1>4, ArbitrateInv DEF AdapterInv
  <2>3. navLease # Free => cooling'[Movement] <= tick /\ barred'[Movement][navRequest] <= tick
    <3> SUFFICES ASSUME navLease # Free
                 PROVE  cooling'[Movement] <= tick /\ barred'[Movement][navRequest] <= tick
      OBVIOUS
    <3>1. navRequest \in Owners /\ tick \in Nat
      BY AdapterFacts DEF AdapterInv, Booked, BrokerInv, TypeOK
    <3>2. cooling'[Movement] \in {0, cooling[Movement]} /\ barred'[Movement][navRequest] \in {0, barred[Movement][navRequest]}
      BY <1>4, <3>1, AdapterFacts DEF Arbitrate
    <3> QED
      BY <3>1, <3>2 DEF AdapterInv, Booked
  <2> QED
    BY <1>1, <2>1, <2>2, <2>3, TornDown DEF AdapterInv
<1>5. CASE BeginTick \/ EndTick
  <2>1. BrokerInv'
    BY <1>5, TickInv DEF AdapterInv
  <2>2. UNCHANGED <<lease, held, cooling, barred, movementVars>> /\ tick' \in {tick, tick + 1}
    BY <1>5 DEF BeginTick, EndTick
  <2>3. UNCHANGED <<navLease, navRequest>>
    BY <1>1, <2>2 DEF OnRevoke, LosesLease, navVars
  <2> QED
    BY <1>1, <2>1, <2>2, <2>3, Undisturbed DEF Live, movementVars, AdapterInv, Booked
<1> QED
  BY <1>2, <1>3, <1>4, <1>5 DEF OthersAct

(* Another plugin's release preserves AdapterInv. *)
LEMMA OthersReleaseInv == ASSUME AdapterInv, NavFaults = FALSE, OthersRelease PROVE AdapterInv'
<1>1. PICK g \in Live : lease[g].owner \notin AdapterOwners /\ Release(g)
  BY DEF OthersRelease
<1>2. /\ g \in Generations /\ {g} \in SUBSET Generations /\ Revoke({g})
      /\ UNCHANGED <<cooling, barred, tick, navVars, call>> /\ call'.step # "dispatch"
  BY <1>1 DEF Live, Release, OthersRelease, Quiet, Idle
<1>3. ~LosesLease
  BY <1>1, <1>2 DEF LosesLease, Revoke, Unhook
<1>4. OnRevoke
  BY <1>2, <1>3 DEF OnRevoke
<1>5. BrokerInv'
  BY <1>1, <1>2, ReleaseInv DEF AdapterInv
<1>6. Booked' /\ OneLease'
  BY <1>2, <1>4, TornDown DEF AdapterInv, Booked
<1> QED
  BY <1>5, <1>6 DEF AdapterInv

(* AdapterInv holds initially. *)
LEMMA AdapterInitInv == NavInit => AdapterInv
<1> SUFFICES ASSUME NavInit PROVE AdapterInv
  OBVIOUS
<1>1. BrokerInv /\ Live = {} /\ navigating = FALSE
  BY InitInv DEF NavInit, Init, Dead, Live, MovementInit
<1> QED
  BY <1>1 DEF NavInit, Idle, AdapterInv, Booked, OneLease

(* Every step of the composition preserves AdapterInv. *)
LEMMA AdapterStep ==
    ASSUME AdapterInv, NavFaults = FALSE, OwnersApart, [NavNext]_allVars
    PROVE  AdapterInv'
<1>1. CASE UNCHANGED allVars
  <2>1. BrokerInv'
    BY <1>1, NextInv DEF allVars, AdapterInv
  <2> QED
    BY <1>1, <2>1 DEF allVars, vars, brokerVars, movementVars, navVars, AdapterInv, Booked, OneLease, Live
<1> QED
  BY <1>1, CallersInv, DispatchInv, PollInv, ClientEndsInv, OthersActInv, OthersReleaseInv DEF NavNext

-----------------------------------------------------------------------------

\* What the adapter notes is what it holds.
THEOREM AdapterInvariant ==
    ASSUME NavFaults = FALSE, OwnersApart
    PROVE  NavSpec => []AdapterInv
<1>1. AdapterInv /\ [NavNext]_allVars => AdapterInv'
  BY AdapterStep
<1> QED
  BY <1>1, AdapterInitInv, PTL DEF NavSpec

\* Nobody steers the client past the broker: whoever takes MOVEMENT away, the client stops
\* in that step, and the adapter never commands it under a lease it has lost
\* (adapter.lua `_on_movement_revoked`, `_renew_movement`, `_release_movement`).
THEOREM ClientDrivesUnderLease ==
    ASSUME NavFaults = FALSE, OwnersApart
    PROVE  NavSpec => []ClientUnderLease
<1>1. AdapterInv => ClientUnderLease
  BY DEF AdapterInv, Booked, ClientUnderLease
<1> QED
  BY <1>1, AdapterInvariant, PTL

\* Whoever takes the adapter's lease away, the adapter is not left waiting for a path: in the
\* same step its command is over (adapter.lua `_on_movement_revoked`, `stop`).
THEOREM AdapterNoticesRevocation ==
    ASSUME NavFaults = FALSE, OwnersApart
    PROVE  NavSpec => RevocationIsNoticed
<1> DEFINE Step == navLease # Free /\ ~lease'[navLease].live /\ ~ReleaseNav => active' # "busy"
<1>1. AdapterInv /\ [NavNext]_allVars => Step
  <2> SUFFICES ASSUME AdapterInv, [NavNext]_allVars,
                      navLease # Free, ~lease'[navLease].live, ~ReleaseNav
               PROVE  active' # "busy"
    OBVIOUS
  <2>1. /\ navLease \in Generations /\ navLease \in Live /\ lease[navLease].live
        /\ lease[navLease].owner \in AdapterOwners
    BY NotedLease DEF Live
  <2>2. lease' # lease
    BY <2>1
  <2>3. Stopped(active) # "busy"
    BY DEF Stopped
  <2>4. OnRevoke => active' # "busy"
    BY <2>1, <2>3 DEF OnRevoke, LosesLease
  <2>5. \A o \in AdapterOwners : ~Claimed(o)
    BY <2>1, ClaimFacts
  <2>6. ASSUME NEW o \in {NoOwner, Combat}, NEW t, NEW f, MoveTo(o, t, f) PROVE active' # "busy"
    BY <2>2, <2>4, <2>5, <2>6, AdapterFacts DEF MoveTo, Refused, vars, brokerVars
  <2>7. ASSUME NEW o, Stop(o) PROVE active' # "busy"
    BY <2>3, <2>7 DEF Stop
  <2>8. CASE QuestingMoves \/ Chase \/ FleeMove \/ PluginFollows
    BY <2>6, <2>8 DEF QuestingMoves, Chase, FleeMove, PluginFollows
  <2>9. CASE QuestingStops \/ InRange \/ Disengage \/ Flee
    BY <2>2, <2>7, <2>9 DEF QuestingStops, InRange, Disengage, Flee, StopChase, vars, brokerVars
  <2>10. CASE Poll
    <3>1. navRequest \in AdapterOwners
      BY DEF AdapterInv, Booked
    <3> QED
      BY <2>2, <2>5, <2>10, <3>1 DEF Poll, RenewMovement, Refused, vars, brokerVars
  <2>11. CASE OthersAct
    BY <2>4, <2>11 DEF OthersAct
  <2>12. CASE OthersRelease
    <3>1. PICK g \in Live : lease[g].owner \notin AdapterOwners /\ Release(g)
      BY <2>12 DEF OthersRelease
    <3>2. navLease # g
      BY <2>1, <3>1
    <3>3. lease'[navLease] = lease[navLease]
      BY <2>1, <3>1, <3>2 DEF Release, Revoke, Unhook
    <3> QED
      BY <2>1, <3>3
  <2>13. CASE \/ Dispatch \/ ClientEnds \/ WindowCloses \/ DriversDie \/ UNCHANGED allVars
    BY <2>2, <2>13 DEF Dispatch, ClientEnds, WindowCloses, DriversDie, allVars, vars, brokerVars
  <2> QED
    BY <2>8, <2>9, <2>10, <2>11, <2>12, <2>13 DEF NavNext
<1> QED
  BY <1>1, AdapterInvariant, PTL DEF NavSpec, RevocationIsNoticed
=============================================================================
