---------------------------- MODULE MCKernelTick ----------------------------
(***************************************************************************)
(* An activity that sidesteps and a rotation that casts, and in the first   *)
(* instance runs forward by its own call of the injector.                   *)
(***************************************************************************)
EXTENDS KernelTick

CONSTANTS grind, rotation, frostbolt

sidestep == {"strafe_left"}

TwoActions == {sidestep, {frostbolt}}
TwoMoves == {sidestep}
OneCast == {{frostbolt}}

TickRequests ==
    {[owner |-> grind, channels |-> {"MOVEMENT"}, band |-> "GOAL", offset |-> 0,
      tier |-> NoTier, ttl |-> 2],
     [owner |-> rotation, channels |-> {"CASTING"}, band |-> "COMBAT", offset |-> 0,
      tier |-> NoTier, ttl |-> 1],
     [owner |-> rotation, channels |-> {"MOVEMENT"}, band |-> "COMBAT", offset |-> 0,
      tier |-> NoTier, ttl |-> 1]}
=============================================================================
