--------------------------- MODULE MCHandoverRace ---------------------------
(***************************************************************************)
(* A safety behaviour after the channels of one activity, or of two.        *)
(***************************************************************************)
EXTENDS HandoverRace

CONSTANTS grind, quest, safety
=============================================================================
