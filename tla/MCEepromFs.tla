----------------------------- MODULE MCEepromFs -----------------------------
(* Model checking EepromFs: two files on two channels, entries that fill up *)
(* after one and two sectors, blocks that end in the middle of a sector.    *)
EXTENDS EepromFs, TLC

Symmetric == Permutations(Names) \cup Permutations(Channels)
=============================================================================
