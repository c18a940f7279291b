--------------------------- MODULE MCActivityStack ---------------------------
(***************************************************************************)
(* Grinding, interrupted by a corpse run, with a combat service that each   *)
(* may lend to.                                                             *)
(***************************************************************************)
EXTENDS ActivityStack

CONSTANTS grind, recover, combat

Ask(owner, chans, band) ==
    [owner |-> owner, channels |-> chans, band |-> band, offset |-> 0,
     tier |-> NoTier, ttl |-> 1]

StackRequests ==
    {Ask(grind, {"MOVEMENT", "CASTING"}, "GOAL"), Ask(recover, {"MOVEMENT"}, "SAFETY"),
     Ask(combat, {"CASTING"}, "COMBAT")}

GrindAndRecover ==
    {[id |-> grind, band |-> "GOAL", offset |-> 0],
     [id |-> recover, band |-> "SAFETY", offset |-> 0]}
=============================================================================
