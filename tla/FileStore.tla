------------------------------ MODULE FileStore ------------------------------
(***************************************************************************)
(* What a file system promises: named files; a file that is written is      *)
(* listed empty, and gets its contents when it is closed, in one step.      *)
(*                                                                         *)
(* When the power fails, the files are kept, but for one: a file that is     *)
(* being closed may be left with a first part of its contents, and where     *)
(* AnyTear holds one that is being removed or renamed is damaged, whatever    *)
(* is left of it.  Module EepromFs implements this.                        *)
(***************************************************************************)
EXTENDS Sequences, Naturals

CONSTANTS Names, Channels, None, AnyTear

VARIABLES
  files,    (* the contents of the file of each name *)
  writing   (* for each channel, the name and the contents so far *)

vars == <<files, writing>>

Init ==
  /\ files = [n \in Names |-> None]
  /\ writing = [c \in Channels |-> None]

Writers(n) == {c \in Channels : writing[c] # None /\ writing[c].name = n}

Begin(c, n) ==
  /\ writing[c] = None /\ Writers(n) = {}
  /\ writing' = [writing EXCEPT
       ![c] = [name |-> n, cells |-> IF files[n] = None THEN <<>> ELSE files[n]]]
  /\ UNCHANGED files

Appear(n) ==
  /\ Writers(n) # {} /\ files[n] = None
  /\ files' = [files EXCEPT ![n] = <<>>]
  /\ UNCHANGED writing

Extend(c) ==
  /\ writing[c] # None /\ writing'[c] # None
  /\ writing' = [writing EXCEPT ![c].cells = writing'[c].cells]
  /\ LET old == writing[c].cells
         new == writing'[c].cells
     IN Len(new) > Len(old) /\ SubSeq(new, 1, Len(old)) = old
  /\ UNCHANGED files

Store(c) ==
  /\ writing[c] # None
  /\ files' = [files EXCEPT ![writing[c].name] = writing[c].cells]
  /\ UNCHANGED writing

End(c) ==
  /\ writing[c] # None /\ files[writing[c].name] = writing[c].cells
  /\ writing' = [writing EXCEPT ![c] = None]
  /\ UNCHANGED files

Remove(n) ==
  /\ files[n] # None /\ Writers(n) = {}
  /\ files' = [files EXCEPT ![n] = None]
  /\ UNCHANGED writing

Rename(old, new) ==
  /\ files[old] # None /\ files[new] = None
  /\ Writers(old) = {} /\ Writers(new) = {}
  /\ files' = [files EXCEPT ![old] = None, ![new] = files[old]]
  /\ UNCHANGED writing

Clear ==
  /\ files' = [n \in Names |-> None]
  /\ writing = [c \in Channels |-> None]
  /\ UNCHANGED writing

Cut(n) ==
  \/ \E c \in Writers(n) : \E k \in 0 .. Len(writing[c].cells) :
       files' = [files EXCEPT ![n] = SubSeq(writing[c].cells, 1, k)]
  \/ /\ AnyTear /\ Writers(n) = {} /\ files[n] # None
     /\ files' = [files EXCEPT ![n] = files'[n]]

PowerFails ==
  /\ writing' = [c \in Channels |-> None]
  /\ UNCHANGED files \/ \E n \in Names : Cut(n)

(* A step inside the store: nothing to be seen of the files.               *)
Internal == UNCHANGED <<writing, files>>

Next ==
  \/ Internal
  \/ \E c \in Channels, n \in Names : Begin(c, n)
  \/ \E c \in Channels : Extend(c) \/ Store(c) \/ End(c)
  \/ \E n \in Names : Appear(n) \/ Remove(n)
  \/ \E old, new \in Names : Rename(old, new)
  \/ Clear \/ PowerFails

Spec == Init /\ [][Next]_vars
=============================================================================
