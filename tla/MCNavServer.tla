----------------------------- MODULE MCNavServer -----------------------------
(***************************************************************************)
(* One map that is there and one that is not, requests of every kind with  *)
(* overlapping zones.                                                       *)
(***************************************************************************)
EXTENDS NavServer, TLC

CONSTANTS r1, r2, r3, p1, p2

Named == "azeroth" :> "cmangos" @@ "nowhere" :> NoFormat
OverlappingZones == {<<>>, <<{p1, p2}, {p2}>>}
=============================================================================
