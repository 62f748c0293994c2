------------------------------ MODULE Settings ------------------------------
(***************************************************************************)
(* The settings: the X commands, U0 and UI (doscmd.c), the menu of the        *)
(* remote display (display.c), and their store, in the EEPROM                *)
(* (eeprom-conf.c) or in the ESP32's flash (nvs-conf.c).  The power may fail  *)
(* at any time, also while they are stored.                                 *)
(***************************************************************************)
EXTENDS Integers, Sequences, FiniteSets, SequencesExt, ErrorChannel

CONSTANTS
  Jumpers,      (* the device addresses that can be set by hardware *)
  Addresses,    (* those the computer asks for *)
  RomNames,     (* names of ROM files, each the sum of its bytes; 0: none *)
  MaxSettings,  (* how many settings are changed *)
  MaxStores,    (* how often they are stored, or the power fails meanwhile *)
  MaxBoots      (* how often the drive is switched on *)

ASSUME SettingsAssumption ==
  /\ Jumpers \subseteq 4 .. 30 /\ Addresses \subseteq 0 .. 31
  /\ RomNames \subseteq 0 .. 4080 /\ 0 \in RomNames
  /\ MaxSettings \in Nat /\ MaxStores \in Nat /\ MaxBoots \in Nat

VARIABLES
  on,          (* the drive is switched on *)
  nvs,         (* this build keeps its settings in the ESP32's flash *)
  jumpers, held,   (* the address set by hardware; the NEXT button is held down *)
  settings,    (* [flags, fileexts, imagedirs, romname, drives, address] *)
  eeprom,      (* the stored structure, field by field, as numbers *)
  menustate,
  stored,      (* the settings and jumpers stored last and completely; none: {} *)
  storing,     (* those being stored since, when the power failed *)
  changed, stores, boots

settingsVars == <<on, nvs, jumpers, held, settings, eeprom, menustate, stored, storing,
                  changed, stores, boots>>

(***************************************************************************)
(* The stored structure.                                                   *)
(***************************************************************************)
StoredFlags == {"postmatch", "hiding"}
BitOf == [postmatch |-> 16, hiding |-> 8]
Bits(flags) ==
  (IF "postmatch" \in flags THEN BitOf.postmatch ELSE 0) + (IF "hiding" \in flags THEN BitOf.hiding ELSE 0)
FlagsOf(n)  == {f \in StoredFlags : (n \div BitOf[f]) % 2 = 1}

(* A map of two of the eight drives, four bits each; the others have none.    *)
NoDrive == 15
map_drive(config, drv) == (config \div 16^drv) % 16
set_map_drive(config, drv, val) == config + (val - map_drive(config, drv)) * 16^drv
default_driveconfig == 16 * 4 + 0     (* drive 0 on ATA, drive 1 the card *)

StructSize == 30
Fields == <<"structsize", "global_flags", "address", "hardaddress", "fileexts", "drvconfig",
            "imagedirs", "romname">>
Erased == [f \in Range(Fields) \cup {"checksum"} |->
             CASE f = "structsize" -> 65535 [] f = "romname" -> 4080 [] OTHER -> 255]

Checksum(e) == (e.structsize + e.global_flags + e.address + e.hardaddress + e.fileexts
                + e.drvconfig + e.imagedirs + e.romname) % 256

(* write_configuration: what is stored, the settings and the jumpers.        *)
Stored(s, hw) ==
  LET e == [structsize |-> StructSize, global_flags |-> Bits(s.flags), address |-> s.address,
            hardaddress |-> hw, fileexts |-> s.fileexts, drvconfig |-> s.drives,
            imagedirs |-> s.imagedirs, romname |-> s.romname, checksum |-> 0]
  IN [e EXCEPT !.checksum = Checksum(e)]

(* The EEPROM is written field by field and the checksum last; the power fails *)
(* after k of the fields.                                                   *)
WrittenInPart(old, new, k) ==
  [f \in DOMAIN old |-> IF \E i \in 1 .. k : Fields[i] = f THEN new[f] ELSE old[f]]

Defaults(hw) ==
  [flags |-> {"postmatch"}, fileexts |-> 1, imagedirs |-> 0, romname |-> 0,
   drives |-> default_driveconfig, address |-> hw]

ValidWithoutSum(e) == e.structsize = StructSize   (* mutant: the checksum is not looked at *)
Valid(e) == e.structsize = StructSize /\ e.checksum = Checksum(e)

(* The software address counts while the jumpers are those it was stored with; *)
(* the ESP32 takes the address that the jumpers had, which is theirs, too.    *)
AddressFrom(e, hw) == IF e.hardaddress # hw \/ nvs THEN hw ELSE e.address
Restored(e, hw) ==
  [flags |-> FlagsOf(e.global_flags), fileexts |-> e.fileexts, imagedirs |-> e.imagedirs,
   romname |-> e.romname, address |-> AddressFrom(e, hw),
   drives |-> IF e.drvconfig = 255 THEN default_driveconfig ELSE e.drvconfig]

(* main: the settings are read after the bus was initialised with the jumpers' *)
(* address; the NEXT button skips them, but not on the ESP32.                *)
read_configuration(e, hw, skip) ==
  IF (skip /\ ~nvs) \/ ~Valid(e) THEN Defaults(hw) ELSE Restored(e, hw)

(***************************************************************************)
(* Steps.                                                                  *)
(***************************************************************************)
Running == on = TRUE
Answered(e) == error_buffer' = set_error(e) /\ got' = 0
StoreKept == UNCHANGED <<on, nvs, jumpers, held, eeprom, stored, storing, stores, boots>>

(* A command that changes a setting, or does not.                           *)
Change(new, e) ==
  /\ Running /\ changed < MaxSettings
  /\ settings' = new
  /\ changed' = changed + 1
  /\ Answered(e)
  /\ UNCHANGED menustate /\ StoreKept

SetFlag(f, to) == [settings EXCEPT !.flags = IF to THEN @ \cup {f} ELSE @ \ {f}]

(* XE+, XE-, XEn: the error for a number above 4 is overwritten by the status. *)
XE_flag(to) == Change(SetFlag("hiding", to), "status")
XE_mode(num) ==
  Change(IF num > 4 THEN settings
         ELSE [settings EXCEPT !.fileexts = num,
                               !.flags = IF num >= 3 THEN @ \cup {"hiding"} ELSE @], "status")

XI(num) == Change(IF num <= 2 THEN [settings EXCEPT !.imagedirs = num] ELSE settings,
                  IF num <= 2 THEN "ok" ELSE "syntax_unknown")
XStar(to) == Change(SetFlag("postmatch", to), "status")
XR(name)  == Change([settings EXCEPT !.romname = name], "ok")
XR_toolong == Change(settings, "syntax_toolong")

(* XDn=m.  The search for another drive with this mapping compares the drive's *)
(* own: it finds one when nothing would change, and does not stop the command. *)
XD(num, val) ==
  LET ok    == num < 8 /\ val <= 15
      found == val # NoDrive /\ map_drive(settings.drives, num) = val
      known == val \div 2 \in {0, 2, 7}
      new   == set_map_drive(settings.drives, num, val)
  IN IF ~ok THEN Change(settings, IF num < 8 THEN "ok" ELSE "syntax_unknown")
     ELSE Change(IF ~known THEN settings
                 ELSE [settings EXCEPT !.drives = IF new = 255 THEN default_driveconfig ELSE new],
                 IF found \/ ~known THEN "syntax_unknown" ELSE "ok")
XD_query == Change(settings, "status")

(* U0>a: addresses 4 to 30; M-W to 119: five bits.  UI+ and UI- are not stored. *)
U0(addr) ==
  Change(IF addr \in 4 .. 30 THEN [settings EXCEPT !.address = addr] ELSE settings,
         IF addr \in 4 .. 30 THEN "ok" ELSE "syntax_unknown")
MW119(byte) == Change([settings EXCEPT !.address = byte % 32], "ok")
UI_mode(to) == Change(SetFlag("vc20", to), "ok")
UI == Change(settings, "dosversion")
X_status == Change(settings, "status")
X_version == Change(settings, "longversion")

(* write_configuration, complete.                                          *)
WriteConfiguration ==
  /\ Running /\ stores < MaxStores
  /\ stores' = stores + 1
  /\ eeprom' = Stored(settings, jumpers)
  /\ stored' = {<<settings, jumpers>>} /\ storing' = {}
  /\ UNCHANGED <<on, nvs, jumpers, held, settings, changed, boots>>
XW == WriteConfiguration /\ Answered("status") /\ UNCHANGED menustate

(* The power fails during it.  The ESP32's flash has the old or the new block. *)
CutWrite ==
  /\ Running /\ stores < MaxStores
  /\ LET new == Stored(settings, jumpers) IN
       /\ storing' = storing \cup {<<settings, jumpers>>}
       /\ IF nvs THEN eeprom' \in {eeprom, new}
                 ELSE \E k \in 1 .. Len(Fields) : eeprom' = WrittenInPart(eeprom, new, k)
  /\ on' = FALSE /\ stores' = stores + 1
  /\ UNCHANGED <<nvs, jumpers, held, settings, menustate, stored, changed, boots, errorVars>>

(* On, again; off before, with the jumpers changed, or Shift-UJ.             *)
PowerUp(hw, skip) ==
  /\ boots < MaxBoots
  /\ boots' = boots + 1 /\ on' = TRUE
  /\ jumpers' = hw /\ held' = skip
  /\ settings' = read_configuration(eeprom, hw, skip)
  /\ menustate' = "none"
  /\ Answered("dosversion")
  /\ UNCHANGED <<nvs, eeprom, stored, storing, changed, stores>>

(* The display's menu: a key opens it, the next one selects.  Its list of      *)
(* directories changes no setting.                                         *)
Menu(to) == Running /\ menustate' = to /\ UNCHANGED <<settings, changed, errorVars>> /\ StoreKept
MenuKey == menustate = "none" /\ Menu("system")
MenuSelect ==
  menustate = "system" /\ (Menu("chdir") \/ Menu("chaddr") \/ Menu("none"))
MenuStore == menustate = "system" /\ menustate' = "none" /\ WriteConfiguration /\ UNCHANGED errorVars
MenuChdir == menustate = "chdir" /\ Menu("none")
MenuAddress(sel) ==
  /\ Running /\ menustate = "chaddr" /\ changed < MaxSettings
  /\ settings' = [settings EXCEPT !.address = sel + 4]
  /\ menustate' = "none" /\ changed' = changed + 1
  /\ UNCHANGED errorVars /\ StoreKept

SettingsInit ==
  /\ on = TRUE /\ nvs \in BOOLEAN /\ jumpers \in Jumpers /\ held = FALSE
  /\ eeprom = Erased /\ settings = Defaults(jumpers) /\ menustate = "none"
  /\ stored = {} /\ storing = {}
  /\ changed = 0 /\ stores = 0 /\ boots = 0

(***************************************************************************)
(* Property.                                                               *)
(***************************************************************************)
(* What the manual promises to restore: the settings that were stored, the    *)
(* address under the jumpers it was stored with (README 391-405).            *)
Kept(was, hw) ==
  [was[1] EXCEPT !.flags = @ \cap StoredFlags, !.address = IF was[2] = hw THEN @ ELSE hw]
Candidates(hw) == {Kept(was, hw) : was \in stored \cup storing} \cup {Defaults(hw)}

(* Settings agree in everything, but on the ESP32 the address may differ.     *)
Agree(s, t) == IF nvs THEN [s EXCEPT !.address = t.address] = t ELSE s = t

SameSum ==
  /\ \A was \in stored \cup storing : eeprom # Stored(was[1], was[2])
  /\ Checksum(eeprom) = eeprom.checksum

(* The last store was complete, and nobody asks for the defaults.            *)
RestoresLast == boots' # boots /\ storing = {} /\ ~(held' /\ ~nvs)

(* After power-up the settings are, all of them together, those stored last,   *)
(* those that were being stored when the power failed, or the defaults, never  *)
(* a mixture of them - unless the mixture happens to have the same sum of      *)
(* bytes as the old settings; and when the store was complete they are those   *)
(* stored, but for the NEXT button (eeprom-conf.c 70-191).  Of the ESP32       *)
(* (nvs-conf.c 95-179) this says nothing about the address, which the code      *)
(* does not restore as the manual promises: see AddressKept.                *)
ConfigWhole ==
  [][/\ boots' # boots =>
          (\E restored \in Candidates(jumpers') : Agree(settings', restored)) \/ SameSum
     /\ RestoresLast =>
          Agree(settings', IF stored = {} THEN Defaults(jumpers')
                           ELSE Kept(CHOOSE was \in stored : TRUE, jumpers'))]_settingsVars

(* "If you have changed the device address by software, sd2iec will power up   *)
(* with that address unless you have changed the jumpers" (README 399-403).    *)
(* The ESP32 powers up with the jumpers' address (nvs-conf.c 127-128), so TLC  *)
(* finds this violated; no run of the project checks it.                    *)
AddressKept ==
  [][RestoresLast /\ stored # {} =>
       settings'.address = Kept(CHOOSE was \in stored : TRUE, jumpers').address]_settingsVars
=============================================================================
