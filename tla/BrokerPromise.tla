--------------------------- MODULE BrokerPromise ---------------------------
(***************************************************************************)
(* The ControlBroker seen by its callers: the refinement mapping under which *)
(* it implements Handover.  A lease shows as the owner and the rank of its  *)
(* channels, an absolute tick as the ticks that remain until it.            *)
(***************************************************************************)
EXTENDS ControlBroker

\* The priorities that requests resolve to.
Ranks == {Resolve(r.band, r.offset) : r \in Requests}

Remaining(until) == IF until > tick THEN until - tick ELSE 0

Holder == [c \in Channels |-> IF held[c] = Free THEN NoOwner ELSE lease[held[c]].owner]
Rank == [c \in Channels |-> IF held[c] = Free THEN 0 ELSE lease[held[c]].priority]
Cool == [c \in Channels |-> Remaining(cooling[c])]
Bar == [c \in Channels |-> [o \in Owners |-> Remaining(barred[c][o])]]

Promise == INSTANCE Handover WITH
    Cooldown <- CooldownTicks,
    holder <- Holder,
    rank <- Rank,
    cool <- Cool,
    bar <- Bar

\* A channel changes owner only as Handover allows: through being free, or lent; and a
\* holder that is outranked leaves a closed channel behind.
KeepsHandoverPromise == Promise!Spec
=============================================================================
