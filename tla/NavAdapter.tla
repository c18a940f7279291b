----------------------------- MODULE NavAdapter -----------------------------
(***************************************************************************)
(* integrations/nav_client/adapter.lua under the ControlBroker, with the    *)
(* callers that drive it: questing (which names no owner), the chase and    *)
(* the emergency flee of combat, and plugins that follow paths.  The adapter*)
(* holds the MOVEMENT lease that authorises the navigation client; the      *)
(* client itself is the `navigating` of MovementRelease.                    *)
(*                                                                          *)
(* A Lua call that does several things is several steps, and `call` is what *)
(* remains of it: nothing else runs while it is open.                       *)
(***************************************************************************)
EXTENDS ControlBroker

CONSTANTS
    NavLeaseOwner, \* "sentinel.nav", the lease owner of a caller without a name
    Combat,        \* the owner name of the combat module
    Targets,       \* where callers send the character
    NoTarget

ASSUME NavAssumption ==
    /\ NavLeaseOwner \in Owners
    /\ Combat \in Owners
    /\ NavLeaseOwner # Combat
    /\ NoTarget \notin Targets

VARIABLES
    navLease,     \* `_lease`: the generation behind it, or Free
    navRequest,   \* `_lease_request`: the lease owner it names, or NoOwner
    navOwner,     \* `_owner`: Combat, or NoOwner for nil
    active,       \* `_active.state`, up to what callers tell apart
    lastDispatch, \* `_last_dispatch`: the target commanded within the window
    chasing,      \* the blackboard's `nav.owner` says combat
    call,         \* the rest of the call in progress
    diedAt        \* the tick in which the drivers stopped calling, or Never

navVars == <<navLease, navRequest, navOwner, active, lastDispatch>>
allVars == <<vars, navVars, chasing, call, diedAt>>

AdapterOwners == {NavLeaseOwner, Combat}
Never == -1
Idle == [step |-> "none", target |-> NoTarget, flee |-> FALSE]
Fleeing(step, target) == [step |-> step, target |-> target, flee |-> TRUE]

NavInit ==
    /\ Init
    /\ navLease = Free
    /\ navRequest = NoOwner
    /\ navOwner = NoOwner
    /\ active = "none"
    /\ lastDispatch = NoTarget
    /\ chasing = FALSE
    /\ call = Idle
    /\ diedAt = Never

\* No call is in progress; and somebody is still there to call.
Quiet == call = Idle
Driven == Quiet /\ diedAt = Never

\* What `_active.state` becomes when the command in flight is over.
Stopped(state) == IF state = "none" THEN "none" ELSE "idle"

NavLeaseTtl == 2

\* Combat preempts, so its claims are in the COMBAT band; the others are GOAL.
ClaimPriority(owner) == Resolve(IF owner = Combat THEN "COMBAT" ELSE "GOAL", 0)

Asked(owner) == IF owner = NoOwner THEN NavLeaseOwner ELSE owner

-----------------------------------------------------------------------------
(* What the broker does to the adapter *)

\* The broker revokes a lease of the adapter in this step.
LosesLease ==
    \E g \in Generations : /\ lease[g].live /\ ~lease'[g].live
                           /\ lease[g].owner \in AdapterOwners

\* Mutant: the command in flight is not marked as over.
OnRevokeStaysBusy ==
    IF LosesLease
    THEN /\ navLease' = Free
         /\ navRequest' = NoOwner
         /\ navOwner' = NoOwner
         /\ lastDispatch' = NoTarget
         /\ UNCHANGED active
    ELSE UNCHANGED navVars

\* `_on_movement_revoked`: the callback of every lease the adapter took.  The broker
\* fires it when it revokes the lease, not when the adapter releases it.
OnRevoke ==
    IF LosesLease
    THEN /\ navLease' = Free
         /\ navRequest' = NoOwner
         /\ navOwner' = NoOwner
         /\ lastDispatch' = NoTarget
         /\ active' = Stopped(active)
    ELSE UNCHANGED navVars

\* The three answers of `acquire` to a claim of MOVEMENT.
Claimed(asker) ==
    \/ Renew({Movement}, asker, ClaimPriority(asker), NavLeaseTtl)
    \/ Grant({Movement}, asker, ClaimPriority(asker), NavLeaseTtl)
Pending(asker) == Preempt({Movement}, asker, ClaimPriority(asker))
Refused(asker) ==
    /\ ~Plannable({Movement}, asker, ClaimPriority(asker))
    /\ UNCHANGED vars

\* `_release_movement`, by a caller that also stops the client when `stopping`.
HandBack(stopping) ==
    /\ navLease' = Free
    /\ navRequest' = NoOwner
    /\ IF navLease # Free /\ lease[navLease].live
       THEN Release(navLease)
       ELSE /\ UNCHANGED <<brokerVars, desired, pressed, down>>
            /\ navigating' \in IF stopping THEN {FALSE, NavFaults /\ navigating} ELSE {navigating}

-----------------------------------------------------------------------------
(* The adapter's operations *)

\* `move_to`, first half: claim MOVEMENT.  The claim comes before the debounce window.
\* `follow_path` and `plan_route` start the same way, with no target to debounce.
MoveTo(owner, target, flee) ==
    /\ \/ /\ Claimed(Asked(owner))
          /\ navLease' = held'[Movement]
          /\ navRequest' = Asked(owner)
          /\ navOwner' = owner
          /\ UNCHANGED <<active, lastDispatch>>
          /\ call' = [step |-> "dispatch", target |-> target, flee |-> flee]
       \/ /\ Pending(Asked(owner)) /\ OnRevoke
          /\ call' = IF flee THEN [Idle EXCEPT !.step = "release"] ELSE Idle
       \/ /\ Refused(Asked(owner))
          /\ UNCHANGED navVars
          /\ call' = IF flee THEN [Idle EXCEPT !.step = "release"] ELSE Idle
    /\ UNCHANGED diedAt

\* The same `move_to` is in flight.  The window does not know of a path or a route that
\* was commanded in between.
Debounced == call.target # NoTarget /\ lastDispatch = call.target

\* Second half: command the client, unless the same command is in flight.  Only `move_to`
\* opens a window.
Dispatch ==
    /\ call.step = "dispatch"
    /\ \/ Debounced /\ UNCHANGED <<navigating, active, lastDispatch>>
       \/ /\ ~Debounced
          /\ navigating' = TRUE
          /\ active' = "busy"
          /\ lastDispatch' = IF call.target = NoTarget THEN lastDispatch ELSE call.target
       \/ /\ ~Debounced
          /\ active' = "failed"
          /\ UNCHANGED <<navigating, lastDispatch>>
    /\ call' = IF call.flee THEN Fleeing("release", NoTarget) ELSE Idle
    /\ UNCHANGED <<brokerVars, desired, pressed, down, navLease, navRequest, navOwner,
                   chasing, diedAt>>

\* `stop`, refused when `_owner` names somebody else.
Stop(owner) ==
    /\ navOwner \in {NoOwner, owner}
    /\ HandBack(TRUE)
    /\ active' = Stopped(active)
    /\ lastDispatch' = NoTarget
    /\ UNCHANGED <<navOwner, diedAt>>

\* `release("combat")`, the last step of a chase and of a flee; and the end of the
\* disengagement that opens a flee, which then moves.
ReleaseNav ==
    /\ call.step = "release"
    /\ call' = IF call.flee /\ call.target # NoTarget THEN Fleeing("move", call.target)
               ELSE Idle
    /\ IF navOwner = Combat
       THEN HandBack(FALSE) /\ navOwner' = NoOwner /\ UNCHANGED <<active, lastDispatch>>
       ELSE UNCHANGED <<vars, navVars>>
    /\ UNCHANGED <<chasing, diedAt>>

\* `_renew_movement`, with the lease of the last claim.  A refused renewal forgets the
\* claim.
RenewMovement ==
    /\ \/ navRequest = NoOwner /\ UNCHANGED <<vars, navLease, navRequest>>
       \/ /\ navRequest # NoOwner
          /\ Claimed(navRequest)
          /\ navLease' = held'[Movement]
          /\ UNCHANGED navRequest
       \/ /\ navRequest # NoOwner
          /\ Refused(navRequest)
          /\ navLease' = Free
          /\ navRequest' = NoOwner
    /\ UNCHANGED <<navOwner, lastDispatch>>

\* `poll`: renew, then read the client's state.
Poll ==
    /\ Quiet
    /\ RenewMovement
    /\ active' = IF active \in {"none", "failed"} THEN active
                 ELSE IF navigating' THEN "busy" ELSE "idle"
    /\ UNCHANGED <<chasing, call, diedAt>>

\* The client finishes the command in flight.  A `move_to` hears of it through its
\* callback, a path or a route at the next poll.
ClientEnds ==
    /\ Quiet
    /\ navigating
    /\ navigating' = FALSE
    /\ active' \in {active, "idle", "failed"}
    /\ UNCHANGED <<brokerVars, desired, pressed, down,
                   navLease, navRequest, navOwner, lastDispatch, chasing, call, diedAt>>

\* REDISPATCH_WINDOW passes.
WindowCloses ==
    /\ Quiet
    /\ lastDispatch # NoTarget
    /\ lastDispatch' = NoTarget
    /\ UNCHANGED <<vars, navLease, navRequest, navOwner, active, chasing, call, diedAt>>

-----------------------------------------------------------------------------
(* The callers *)

QuestingMoves == Driven /\ (\E t \in Targets : MoveTo(NoOwner, t, FALSE)) /\ UNCHANGED chasing
QuestingStops == Driven /\ Stop(NoOwner) /\ UNCHANGED <<chasing, call>>

\* chase_controller: out of range, chase; in range, stop whatever navigation is active
\* and release.  It notes itself as the owner whatever the adapter answered.
Chase == Driven /\ (\E t \in Targets : MoveTo(Combat, t, FALSE)) /\ chasing' = TRUE
InRange ==
    /\ Driven
    /\ IF active = "busy" /\ navOwner \in {NoOwner, Combat}
       THEN Stop(Combat)
       ELSE UNCHANGED <<vars, navVars, diedAt>>
    /\ chasing' = FALSE
    /\ call' = [Idle EXCEPT !.step = "release"]

\* chase_controller `stop`, when combat disengages: nothing unless it is chasing.
StopChase(rest) ==
    /\ chasing
    /\ Stop(Combat)
    /\ chasing' = FALSE
    /\ call' = rest
Disengage == Driven /\ StopChase([Idle EXCEPT !.step = "release"])

\* combat/module.lua `_execute_emergency_flee`: disengage, move_to, then release.  The
\* bound leaves a generation for the move.
Flee ==
    /\ Driven
    /\ lastGeneration < MaxGeneration
    /\ \E t \in Targets :
         \/ StopChase(Fleeing("release", t))
         \/ /\ ~chasing
            /\ call' = Fleeing("move", t)
            /\ UNCHANGED <<vars, navVars, chasing, diedAt>>
FleeMove == call.step = "move" /\ MoveTo(Combat, call.target, TRUE) /\ UNCHANGED chasing

\* A plugin follows a path or a route of its own, through the adapter that kernel/api.lua
\* exposes, under no owner name.
PluginFollows == Driven /\ MoveTo(NoOwner, NoTarget, FALSE) /\ UNCHANGED chasing

\* The drivers stop calling: a module unloaded or quarantined mid-path.
DriversDie ==
    /\ Driven
    /\ diedAt' = tick
    /\ UNCHANGED <<vars, navVars, chasing, call>>

\* The rest of the kernel: other plugins' leases, sweeps and the tick.
OthersAct ==
    /\ Quiet
    /\ \/ \E r \in Requests : Acquire(r)
       \/ \E p \in {lease[g].priority : g \in Live} : RevokeBelow(p + 1)
       \/ BeginTick
       \/ Arbitrate
       \/ EndTick
    /\ OnRevoke
    /\ UNCHANGED <<chasing, call, diedAt>>

OthersRelease ==
    /\ Quiet
    /\ \E g \in Live : lease[g].owner \notin AdapterOwners /\ Release(g)
    /\ UNCHANGED <<navVars, chasing, call, diedAt>>

NavNext ==
    \/ QuestingMoves
    \/ QuestingStops
    \/ Chase
    \/ InRange
    \/ Disengage
    \/ Flee
    \/ FleeMove
    \/ PluginFollows
    \/ Dispatch
    \/ ReleaseNav
    \/ Poll
    \/ ClientEnds
    \/ WindowCloses
    \/ DriversDie
    \/ OthersAct
    \/ OthersRelease

NavSpec == NavInit /\ [][NavNext]_allVars

-----------------------------------------------------------------------------
(* Properties *)

\* The client drives the character only under the adapter's own MOVEMENT lease: no
\* preemption, sweep, expiry, refusal or hand-back leaves it running on.
ClientUnderLease == navigating => navLease # Free /\ held[Movement] = navLease

\* No executor waits on a path that no longer exists: whoever takes MOVEMENT away from the
\* adapter, the adapter stops reporting itself busy in that step.
RevocationIsNoticed ==
    [][navLease # Free /\ ~lease'[navLease].live /\ ~ReleaseNav => active' # "busy"]_allVars

\* "One that stopped being polled SHOULD expire ... a plugin that faults mid-tick cannot
\* permanently hold MOVEMENT": once the drivers have been silent for the time to live,
\* arbitration leaves the adapter without MOVEMENT.
DeadDriverLosesMovement ==
    [][Arbitrate /\ diedAt # Never /\ tick >= diedAt + NavLeaseTtl =>
         \A g \in Generations : lease'[g].live => lease'[g].owner \notin AdapterOwners]_allVars

\* "Issue a nav flee ... and release ownership so questing can re-claim the adapter": a
\* flee that commanded the client leaves it moving.
FleeMoves ==
    [][ReleaseNav /\ call = Fleeing("release", NoTarget) /\ navigating =>
         navigating']_allVars
=============================================================================
