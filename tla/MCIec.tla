------------------------------- MODULE MCIec -------------------------------
(* Model checking Iec: one file channel and the command channel, commands of *)
(* one byte and longer than the buffer, files of a few bytes.                 *)
EXTENDS Iec
=============================================================================
