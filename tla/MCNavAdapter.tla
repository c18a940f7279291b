---------------------------- MODULE MCNavAdapter ----------------------------
(***************************************************************************)
(* The adapter with one destination and one further contender for MOVEMENT. *)
(***************************************************************************)
EXTENDS NavAdapter

CONSTANTS nav, combat, safety, corpse

SafetyRequests ==
    {[owner |-> safety, channels |-> {"MOVEMENT"}, band |-> "SAFETY", offset |-> 0,
      tier |-> NoTier, ttl |-> 1]}
=============================================================================
