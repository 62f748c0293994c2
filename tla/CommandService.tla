--------------------------- MODULE CommandService ---------------------------
(***************************************************************************)
(* What the drive promises about the commands and file names the computer  *)
(* sends: each one that was taken is carried out once, on the channel it   *)
(* was sent to and as it was sent, before the next one is taken.  Module    *)
(* Iec, the bus protocol, implements this.                                 *)
(***************************************************************************)
CONSTANTS
  Requests,  (* the commands: a channel and a text *)
  None       (* no command *)

VARIABLES
  pending,   (* the command taken and not carried out yet *)
  served     (* the command carried out last *)

vars == <<pending, served>>

Init == pending = None /\ served = None

Take ==
  /\ pending = None
  /\ pending' \in Requests
  /\ UNCHANGED served

Serve ==
  /\ pending # None
  /\ served' = pending
  /\ pending' = None

Next == Take \/ Serve

Spec == Init /\ [][Next]_vars /\ WF_vars(Serve)
=============================================================================
