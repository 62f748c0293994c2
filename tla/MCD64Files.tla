----------------------------- MODULE MCD64Files -----------------------------
(* Model checking D64Files: small images of the four formats, two names;    *)
(* accesses fail on the 1541 image only.                                    *)
EXTENDS D64Files, TLC

MCDirSectors(ty)   == CASE ty = "D81" -> 5 [] ty = "DNP" -> 6 [] OTHER -> 3
MCTrackSectors(ty, t) == IF ty = "DNP" \/ (ty = "D41" /\ t = 1) THEN 2 ELSE 1
MCMayFail(ty)      == IF ty = "D41" THEN {"data"} ELSE {}
Symmetric          == Permutations(Names)
=============================================================================
