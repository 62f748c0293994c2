---------------------------- MODULE DosCommands ----------------------------
(***************************************************************************)
(* The commands that are answered through the error channel or kept for       *)
(* later, together: the clock's, the settings', and those that write, start   *)
(* and read programs in the drive's memory.  They share channel 15 and the    *)
(* power.  A computer uses one group of them at a time, chosen at the start,   *)
(* since they have no other state in common.                                *)
(***************************************************************************)
EXTENDS Clock, Settings, Uploads

CONSTANT Groups

VARIABLE group     (* "clock", "settings" or "programs" *)

vars == <<errorVars, clockVars, settingsVars, uploadVars, group>>

Init ==
  /\ ErrorInit /\ ClockInit /\ SettingsInit /\ UploadInit
  /\ group \in Groups
  /\ group # "clock" => built = {} /\ <<now.day, now.sec>> \in FirstInstant
  /\ jumpers = CHOOSE hw \in Jumpers : TRUE
  /\ group # "settings" => ~nvs

(* Every command; the drive is on.                                          *)
Command(g) == on /\ group = g /\ UNCHANGED group

(***************************************************************************)
(* parse_doscommand: the commands that are none, and the dispatch.           *)
(***************************************************************************)
NotACommand ==
  \E e \in {"syntax_toolong", "syntax_unable", "syntax_unknown"} : Answered(e) /\ UNCHANGED uploadVars

(* G-P: an answer of 31 bytes, about a partition that is there or one that is  *)
(* not; less than three letters are no error; the card may fail.             *)
parse_getpartition ==
  /\ \/ \E part \in {"none", "system", "known"} :
          error_buffer' = AnswerFrom0([about |-> "partition", is |-> part, last |-> 2])
     \/ error_buffer' = Started
     \/ error_buffer' = set_error("syntax_unknown")
     \/ error_buffer' = set_error("drive_not_ready")
  /\ got' = 0 /\ UNCHANGED uploadVars

ProgramCommand ==
  \/ \E p \in Programs : BeginUpload(p)
  \/ WriteOn \/ Uploaded \/ IgnoredWrite \/ MemExec \/ UserExec \/ OpenFile
  \/ \E a \in Magics \cup {"elsewhere"}, n \in 1 .. 3 :
       handle_memread(a, n, settings.romname) /\ UNCHANGED uploadVars
  \/ NotACommand \/ parse_getpartition

ClockCommand ==
  \/ \E f \in WriteForms : SetTime(f)
  \/ SetWrong
  \/ \E f \in ReadForms \cup {"X"}, k \in 0 .. Len(Registers) : TimeRead(f, k)
  \/ \E by \in {"fat", "image"} : Stamp(by)

SettingsCommand ==
  \/ \E to \in BOOLEAN : XE_flag(to) \/ XStar(to) \/ UI_mode(to)
  \/ \E num \in {3, 5} : XE_mode(num)
  \/ \E num \in {2, 3} : XI(num)
  \/ \E name \in RomNames : XR(name)
  \/ XR_toolong \/ XD_query \/ UI \/ X_status \/ X_version
  \/ \E num \in {0, 8}, val \in {0, 5, 6, 16} : XD(num, val)
  \/ \E addr \in Addresses : U0(addr) \/ MW119(addr)
  \/ XW \/ CutWrite
  \/ MenuKey \/ MenuSelect \/ MenuStore \/ MenuChdir
  \/ \E addr \in Addresses \cap 4 .. 30 : MenuAddress(addr - 4)

(* Off and on; or the power fails while the clock is set.                     *)
PowerOn ==
  /\ \E hw \in Jumpers, skip \in BOOLEAN :
       (group # "settings" => hw = jumpers /\ ~skip) /\ PowerUp(hw, skip)
  /\ \/ \E battery \in BOOLEAN : (group # "clock" => battery) /\ PowerCycle(battery)
     \/ group = "clock" /\ on /\ CutSet
  /\ SwitchedOff

Next ==
  \/ Command("programs") /\ ProgramCommand /\ UNCHANGED <<clockVars, settingsVars>>
  \/ Command("clock") /\ ClockCommand /\ UNCHANGED <<settingsVars, uploadVars>>
  \/ Command("settings") /\ SettingsCommand /\ UNCHANGED <<clockVars, uploadVars>>
  \/ /\ on /\ group # "settings" /\ TalkByte
     /\ UNCHANGED <<clockVars, settingsVars, uploadVars, group>>
  \/ /\ group = "clock" /\ (Pass(0, 1) \/ \E d \in Spans : Pass(d, 0))
     /\ UNCHANGED <<errorVars, settingsVars, uploadVars, group>>
  \/ PowerOn /\ UNCHANGED group

Spec == Init /\ [][Next]_vars
=============================================================================
