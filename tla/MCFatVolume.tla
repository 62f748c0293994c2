---------------------------- MODULE MCFatVolume ----------------------------
(* Model checking FatVolume: four clusters of six units, an 8.3 name and a   *)
(* long one whose first alias it is.                                       *)
EXTENDS FatVolume
MCSlots(n) == IF n = "L" THEN 1 ELSE 0
MCShort(n) == IF n = "D" THEN <<"D", 0>> ELSE <<"B", 1>>
=============================================================================
