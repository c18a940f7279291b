---------------------------- MODULE ActivityStack ----------------------------
(***************************************************************************)
(* kernel/activity_stack.lua over the ControlBroker: the activity on top is *)
(* what the character is doing, those below it are suspended.  A push       *)
(* revokes every weaker lease, a pop revokes what the popped activity holds *)
(* and what it lent, and the activity on top may lend a channel to a        *)
(* service.                                                                 *)
(***************************************************************************)
EXTENDS ControlBroker, Sequences, SequencesExt

CONSTANTS
    Activities,  \* what may be pushed: the id, band and offset of an activity
    Services,    \* who channels are lent to
    MaxDepth     \* bound: activities on the stack at once

ASSUME StackAssumption ==
    /\ Activities \subseteq [id : Owners, band : BandNames, offset : Nat]
    /\ Services \subseteq Owners
    /\ MaxDepth \in Nat

VARIABLES
    stack,       \* `_stack`: the ids and priorities, the current activity last
    delegations  \* `_delegations`: channel -> who serves it and who lent it

stackVars == <<stack, delegations>>

NotLent == [service |-> NoOwner, delegator |-> NoOwner]

StackInit ==
    /\ Init
    /\ stack = <<>>
    /\ delegations = [c \in Channels |-> NotLent]

OnStack == {entry.id : entry \in ToSet(stack)}

-----------------------------------------------------------------------------

\* Mutant: the sweep starts below the activity that is interrupted.
PushSweepsTooLow(activity) ==
    LET priority == Resolve(activity.band, activity.offset)
    IN  /\ Len(stack) < MaxDepth
        /\ Resolves(activity.band, activity.offset, NoTier)
        /\ stack' = Append(stack, [id |-> activity.id, priority |-> priority])
        /\ Sweep(Below(IF stack = <<>> THEN priority ELSE Last(stack).priority))
        /\ UNCHANGED delegations

\* `push`: suspend what ran, then revoke every lease strictly below the newcomer.
Push(activity) ==
    LET priority == Resolve(activity.band, activity.offset)
    IN  /\ Len(stack) < MaxDepth
        /\ Resolves(activity.band, activity.offset, NoTier)
        /\ stack' = Append(stack, [id |-> activity.id, priority |-> priority])
        /\ Sweep(Below(priority))
        /\ UNCHANGED delegations

\* Mutant: what the activity lent stays with the service.
PopLeavesLoans ==
    /\ stack # <<>>
    /\ LET id == Last(stack).id
       IN  /\ Sweep(OwnedBy(id))
           /\ delegations' = [c \in Channels |->
                IF delegations[c].delegator = id THEN NotLent ELSE delegations[c]]
    /\ stack' = Front(stack)

\* `pop`: what the activity lent and what it holds ends with it, and so do the entries
\* of the table that name it.
Pop ==
    /\ stack # <<>>
    /\ LET id == Last(stack).id
       IN  /\ Sweep(DelegatedFrom(id) \cup OwnedBy(id))
           /\ delegations' = [c \in Channels |->
                IF delegations[c].delegator = id THEN NotLent ELSE delegations[c]]
    /\ stack' = Front(stack)

\* `delegate`: only the activity on top lends, and only a channel it holds.
DelegateTo(c, service) ==
    /\ stack # <<>>
    /\ LET id == Last(stack).id
       IN  /\ Delegate(c, id, service)
           /\ delegations' = [delegations EXCEPT ![c] = [service |-> service, delegator |-> id]]
    /\ UNCHANGED stack

\* The rest of the kernel, which knows nothing of the stack.
BrokerActs ==
    /\ \/ \E r \in Requests : Acquire(r)
       \/ \E g \in Generations : Release(g)
       \/ \E g \in Generations, ttl \in {r.ttl : r \in Requests} : CaretakerRenew(g, ttl)
       \/ BeginTick
       \/ Arbitrate
       \/ EndTick
    /\ UNCHANGED stackVars

StackNext ==
    \/ \E a \in Activities : Push(a)
    \/ Pop
    \/ \E c \in Channels, s \in Services : DelegateTo(c, s)
    \/ BrokerActs

StackSpec == StackInit /\ [][StackNext]_<<vars, stackVars>>

-----------------------------------------------------------------------------
(* Properties *)

\* "A delegation is authority lent by this activity.  It cannot outlive the lender": a lent
\* channel is held only while the activity that lent it is on the stack, through renewals
\* by the service, pushes and pops above it, and leases that come and go.
LentWhileOnStack ==
    /\ \A g \in Holding : lease[g].from # NoOwner => lease[g].from \in OnStack
    /\ \A c \in Channels : delegations[c] # NotLent => delegations[c].delegator \in OnStack

\* An interrupt takes over at once: when an activity is pushed, no channel stays with a
\* weaker holder, and the body is still unless a holder as strong keeps MOVEMENT.
InterruptTakesOver ==
    [][Len(stack') > Len(stack) =>
         /\ \A c \in Channels : held'[c] # Free => lease'[held'[c]].priority >= Last(stack').priority
         /\ held[Movement] # Free /\ held'[Movement] = Free => desired' = {}]_<<vars, stackVars>>
=============================================================================
