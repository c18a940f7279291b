--------------------------- MODULE MCIntentQueue ---------------------------
(***************************************************************************)
(* Two casts on the cooldown, one off it and a type nobody executes, asked  *)
(* for by a rotation and by a survival behaviour.                           *)
(***************************************************************************)
EXTENDS IntentQueue

CONSTANTS rotation, survival, frostbolt, fireball, iceblock, dance

TwoStamps == {<<rotation, 50, 1>>, <<survival, 70, 2>>}
=============================================================================
