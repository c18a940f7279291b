-------------------------- MODULE MCControlBroker --------------------------
(***************************************************************************)
(* Small instances of the ControlBroker: a goal activity, a combat rotation *)
(* and a safety behaviour over two channels.                                *)
(***************************************************************************)
EXTENDS BrokerPromise

CONSTANTS grind, rotation, safety

Req(owner, chans, band, ttl) ==
    [owner |-> owner, channels |-> chans, band |-> band, offset |-> 0,
     tier |-> NoTier, ttl |-> ttl]

\* The activity asks for MOVEMENT or for both channels.
AnyRequests ==
    {Req(grind, chans, "GOAL", 2) : chans \in {{"MOVEMENT"}, {"MOVEMENT", "CASTING"}}}
      \cup {Req(rotation, {"CASTING"}, "COMBAT", 1), Req(safety, {"MOVEMENT"}, "SAFETY", 1)}

\* The activity and the safety behaviour contend for MOVEMENT alone.
BodyRequests == {r \in AnyRequests : "MOVEMENT" \in r.channels}
=============================================================================
