----------------------------- MODULE MCChannels -----------------------------
(* Channels on a small pool, for TLC. *)
EXTENDS Channels, TLC

(* The partitions differ in nothing but their name. *)
PartSymmetry == Permutations(Parts)
=============================================================================
