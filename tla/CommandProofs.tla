---------------------------- MODULE CommandProofs ----------------------------
(***************************************************************************)
(* What DosCommands.tla says of the error channel, of the stored settings and *)
(* of programs in the drive's memory, proved for every value of the           *)
(* constants.                                                              *)
(***************************************************************************)
EXTENDS DosCommands, SequenceTheorems, TLAPS

(***************************************************************************)
(* The error channel.  Every command leaves an answer that was not begun, or  *)
(* the one that was there.                                                 *)
(***************************************************************************)
Answering ==
  error_buffer = [text |-> error_buffer.text, position |-> got, lastused |-> error_buffer.text.last]

NewAnswer == (Answering /\ got = 0)' \/ UNCHANGED errorVars

LEMMA MessageAnswers ==
  ASSUME NEW e, error_buffer' = set_error(e), got' = 0
  PROVE  NewAnswer
BY DEF NewAnswer, Answering, set_error

LEMMA TextAnswers ==
  ASSUME NEW text, got' = 0,
         error_buffer' = AnswerFrom0(text) \/ error_buffer' = AnswerIn(Started, text)
  PROVE  NewAnswer
<1>1. \A t, l : AnswerIn([text |-> t, position |-> 0, lastused |-> l], text) = AnswerFrom0(text)
  <2> TAKE t, l
  <2> DEFINE b == [text |-> t, position |-> 0, lastused |-> l]
             c == [b EXCEPT !.text = text]
  <2>1. c = [text |-> text, position |-> 0, lastused |-> l]
    OBVIOUS
  <2>2. AnswerIn(b, text) = [c EXCEPT !.lastused = text.last]
    BY DEF AnswerIn
  <2> HIDE DEF c
  <2>3. [c EXCEPT !.lastused = text.last] = [text |-> text, position |-> 0, lastused |-> text.last]
    BY <2>1
  <2>4. QED BY <2>2, <2>3 DEF AnswerFrom0
<1>2. error_buffer' = AnswerFrom0(text)
  BY <1>1 DEF Started, set_error
<1>3. QED BY <1>2 DEF NewAnswer, Answering, AnswerFrom0

LEMMA UnchangedAnswers == ASSUME UNCHANGED errorVars PROVE NewAnswer
BY DEF NewAnswer

LEMMA ProgramAnswers == ASSUME ProgramCommand PROVE NewAnswer
<1>1. CASE \E p \in Programs : BeginUpload(p)
  BY <1>1, MessageAnswers DEF BeginUpload, OK, Started
<1>2. CASE WriteOn
  BY <1>2, MessageAnswers DEF WriteOn, OK, Started
<1>3. CASE Uploaded
  BY <1>3, UnchangedAnswers DEF Uploaded
<1>4. CASE IgnoredWrite \/ OpenFile
  BY <1>4, MessageAnswers DEF IgnoredWrite, OpenFile, OK, Started
<1>5. CASE MemExec \/ UserExec
  <2>1. PICK address : Execute(address)
    BY <1>5 DEF MemExec, UserExec
  <2>2. got' = 0 /\ \E e : error_buffer' = set_error(e)
    BY <2>1 DEF Execute, run_loader, Started
  <2>3. QED BY <2>2, MessageAnswers
<1>6. CASE \E a \in Magics \cup {"elsewhere"}, n \in 1 .. 3 :
             handle_memread(a, n, settings.romname) /\ UNCHANGED uploadVars
  BY <1>6, TextAnswers DEF handle_memread
<1>7. CASE NotACommand
  BY <1>7, MessageAnswers DEF NotACommand, Answered
<1>8. CASE parse_getpartition
  BY <1>8, TextAnswers, MessageAnswers DEF parse_getpartition, Started
<1>9. QED BY <1>1, <1>2, <1>3, <1>4, <1>5, <1>6, <1>7, <1>8 DEF ProgramCommand

LEMMA ClockAnswers == ASSUME ClockCommand PROVE NewAnswer
<1>1. CASE (\E f \in WriteForms : SetTime(f)) \/ SetWrong
  <2>1. PICK c : TimeWrite(c)
    BY <1>1 DEF SetTime, SetWrong
  <2>2. got' = 0 /\ \E e : error_buffer' = set_error(e)
    BY <2>1 DEF TimeWrite, Started
  <2>3. QED BY <2>2, MessageAnswers
<1>2. CASE \E f \in ReadForms \cup {"X"}, k \in 0 .. Len(Registers) : TimeRead(f, k)
  <2>1. PICK f, k : TimeRead(f, k)
    BY <1>2
  <2>2. CASE rtc_state = "ok" /\ f \in ReadForms
    BY <2>1, <2>2, TextAnswers DEF TimeRead
  <2>3. CASE ~(rtc_state = "ok" /\ f \in ReadForms)
    <3>1. got' = 0 /\ \E e : error_buffer' = set_error(e)
      BY <2>1, <2>3 DEF TimeRead
    <3>2. QED BY <3>1, MessageAnswers
  <2>4. QED BY <2>2, <2>3
<1>3. CASE \E by \in {"fat", "image"} : Stamp(by)
  BY <1>3, UnchangedAnswers DEF Stamp, errorVars
<1>4. QED BY <1>1, <1>2, <1>3 DEF ClockCommand

LEMMA ChangeAnswers == ASSUME NEW new, NEW e, Change(new, e) PROVE NewAnswer
BY MessageAnswers DEF Change, Answered

LEMMA MenuAnswers == ASSUME NEW to, Menu(to) PROVE NewAnswer
BY UnchangedAnswers DEF Menu

LEMMA SettingsAnswers == ASSUME SettingsCommand PROVE NewAnswer
<1>1. CASE \E to \in BOOLEAN : XE_flag(to) \/ XStar(to) \/ UI_mode(to)
  BY <1>1, ChangeAnswers DEF XE_flag, XStar, UI_mode
<1>2. CASE \E num \in {3, 5} : XE_mode(num)
  BY <1>2, ChangeAnswers DEF XE_mode
<1>3. CASE \E num \in {2, 3} : XI(num)
  BY <1>3, ChangeAnswers DEF XI
<1>4. CASE (\E name \in RomNames : XR(name)) \/ XR_toolong \/ XD_query \/ UI \/ X_status \/ X_version
  BY <1>4, ChangeAnswers DEF XR, XR_toolong, XD_query, UI, X_status, X_version
<1>5. CASE \E num \in {0, 8}, val \in {0, 5, 6, 16} : XD(num, val)
  <2>1. PICK num, val : XD(num, val)
    BY <1>5
  <2>2. got' = 0 /\ \E e : error_buffer' = set_error(e)
    BY <2>1 DEF XD, Change, Answered
  <2>3. QED BY <2>2, MessageAnswers
<1>6. CASE \E addr \in Addresses : U0(addr) \/ MW119(addr)
  BY <1>6, ChangeAnswers DEF U0, MW119
<1>7. CASE XW
  BY <1>7, MessageAnswers DEF XW, Answered
<1>8. CASE CutWrite
  BY <1>8, UnchangedAnswers DEF CutWrite
<1>9. CASE MenuKey \/ MenuSelect \/ MenuChdir
  BY <1>9, MenuAnswers DEF MenuKey, MenuSelect, MenuChdir
<1>10. CASE MenuStore \/ \E addr \in Addresses \cap 4 .. 30 : MenuAddress(addr - 4)
  BY <1>10, UnchangedAnswers DEF MenuStore, MenuAddress
<1>11. QED
  BY <1>1, <1>2, <1>3, <1>4, <1>5, <1>6, <1>7, <1>8, <1>9, <1>10 DEF SettingsCommand

LEMMA PowerAnswers == ASSUME PowerOn PROVE NewAnswer
BY MessageAnswers DEF PowerOn, PowerUp, Answered

(* One byte, or the refill after the last one.                              *)
LEMMA TalkAnswers == ASSUME Answering, TalkByte PROVE Answering'
<1>1. CASE error_buffer.position < error_buffer.lastused
  BY <1>1 DEF Answering, TalkByte
<1>2. CASE ~(error_buffer.position < error_buffer.lastused)
  BY <1>2 DEF Answering, TalkByte, set_ok_message, set_error
<1>3. QED BY <1>1, <1>2

(* What the computer reads up to EOI is the whole answer to its last command, *)
(* from its first byte to its last (errormsg.c 188-278, the handlers in        *)
(* doscmd.c that fill the error buffer, iec.c 427-494).                      *)
THEOREM WholeAnswers == Spec => []AnswersWhole
<1>1. Init => Answering
  BY DEF Init, ErrorInit, Answering, set_error
<1>2. Answering /\ [Next]_vars => Answering'
  <2> SUFFICES ASSUME Answering, [Next]_vars PROVE Answering'
    OBVIOUS
  <2>1. ASSUME NewAnswer PROVE Answering'
    BY <2>1 DEF NewAnswer, Answering, errorVars
  <2>2. CASE ProgramCommand
    BY <2>2, <2>1, ProgramAnswers
  <2>3. CASE ClockCommand
    BY <2>3, <2>1, ClockAnswers
  <2>4. CASE SettingsCommand
    BY <2>4, <2>1, SettingsAnswers
  <2>5. CASE TalkByte
    BY <2>5, TalkAnswers
  <2>6. CASE PowerOn
    BY <2>6, <2>1, PowerAnswers
  <2>7. CASE UNCHANGED errorVars
    BY <2>7, <2>1, UnchangedAnswers
  <2>8. QED BY <2>2, <2>3, <2>4, <2>5, <2>6, <2>7 DEF Next, vars
<1>3. Answering => AnswersWhole
  BY DEF Answering, AnswersWhole
<1>4. QED BY <1>1, <1>2, <1>3, PTL DEF Spec

(***************************************************************************)
(* The stored settings.                                                    *)
(***************************************************************************)
Flags == {"postmatch", "hiding", "vc20"}

(* Drives are never stored as 255, which stands for none stored.             *)
Sane(s) ==
  /\ s = [flags |-> s.flags, fileexts |-> s.fileexts, imagedirs |-> s.imagedirs,
          romname |-> s.romname, drives |-> s.drives, address |-> s.address]
  /\ s.flags \subseteq Flags
  /\ s.drives # 255

(* As long as no write was cut off, the store is the one written last, or     *)
(* erased.                                                                 *)
StoreInv ==
  /\ Sane(settings)
  /\ \A was \in stored \cup storing : was = <<was[1], was[2]>> /\ Sane(was[1])
  /\ storing = {} =>
       \/ stored = {} /\ eeprom = Erased
       \/ \E was \in stored : stored = {was} /\ eeprom = Stored(was[1], was[2])

(* Two flags are kept, each in its bit.                                      *)
LEMMA FlagsKept == ASSUME NEW flags \in SUBSET Flags PROVE FlagsOf(Bits(flags)) = flags \cap StoredFlags
<1>1. FlagsOf(Bits(flags)) =
        {f \in StoredFlags : (Bits(flags) \div (IF f = "postmatch" THEN 16 ELSE 8)) % 2 = 1}
  BY DEF FlagsOf, StoredFlags, BitOf
<1>2. Bits(flags) = (IF "postmatch" \in flags THEN 16 ELSE 0) + (IF "hiding" \in flags THEN 8 ELSE 0)
  BY DEF Bits, BitOf
<1>3. (24 \div 16) % 2 = 1 /\ (24 \div 8) % 2 = 1 /\ (16 \div 16) % 2 = 1 /\ (16 \div 8) % 2 = 0
      /\ (8 \div 16) % 2 = 0 /\ (8 \div 8) % 2 = 1 /\ (0 \div 16) % 2 = 0 /\ (0 \div 8) % 2 = 0
  OBVIOUS
<1>4. \A f \in StoredFlags :
        (Bits(flags) \div (IF f = "postmatch" THEN 16 ELSE 8)) % 2 = 1 <=> f \in flags
  <2>1. CASE "postmatch" \in flags /\ "hiding" \in flags
    BY <2>1, <1>2, <1>3 DEF StoredFlags
  <2>2. CASE "postmatch" \in flags /\ "hiding" \notin flags
    BY <2>2, <1>2, <1>3 DEF StoredFlags
  <2>3. CASE "postmatch" \notin flags /\ "hiding" \in flags
    BY <2>3, <1>2, <1>3 DEF StoredFlags
  <2>4. CASE "postmatch" \notin flags /\ "hiding" \notin flags
    BY <2>4, <1>2, <1>3 DEF StoredFlags
  <2>5. QED BY <2>1, <2>2, <2>3, <2>4
<1>5. QED BY <1>1, <1>4

LEMMA StoredFields ==
  ASSUME NEW s, NEW hw
  PROVE  LET e == Stored(s, hw) IN
         /\ e.structsize = StructSize /\ e.global_flags = Bits(s.flags) /\ e.address = s.address
         /\ e.hardaddress = hw /\ e.fileexts = s.fileexts /\ e.drvconfig = s.drives
         /\ e.imagedirs = s.imagedirs /\ e.romname = s.romname
         /\ e.checksum = Checksum(e)
<1> DEFINE d == [structsize |-> StructSize, global_flags |-> Bits(s.flags), address |-> s.address,
                 hardaddress |-> hw, fileexts |-> s.fileexts, drvconfig |-> s.drives,
                 imagedirs |-> s.imagedirs, romname |-> s.romname, checksum |-> 0]
<1>1. \A sum : LET e == [d EXCEPT !.checksum = sum] IN
         /\ e.structsize = StructSize /\ e.global_flags = Bits(s.flags) /\ e.address = s.address
         /\ e.hardaddress = hw /\ e.fileexts = s.fileexts /\ e.drvconfig = s.drives
         /\ e.imagedirs = s.imagedirs /\ e.romname = s.romname
         /\ e.checksum = sum
  OBVIOUS
<1>2. Stored(s, hw) = [d EXCEPT !.checksum = Checksum(d)]
  BY DEF Stored
<1>3. Checksum([d EXCEPT !.checksum = Checksum(d)]) = Checksum(d)
  BY <1>1 DEF Checksum
<1> HIDE DEF d
<1>4. QED BY <1>1, <1>2, <1>3

(* What was stored whole is valid and read back as it was.                    *)
LEMMA ReadBack ==
  ASSUME NEW s, Sane(s), NEW hw, NEW to
  PROVE  Valid(Stored(s, hw)) /\ Agree(Restored(Stored(s, hw), to), Kept(<<s, hw>>, to))
<1> DEFINE e == Stored(s, hw)
<1>1. /\ e.structsize = StructSize /\ e.global_flags = Bits(s.flags) /\ e.address = s.address
      /\ e.hardaddress = hw /\ e.fileexts = s.fileexts /\ e.drvconfig = s.drives
      /\ e.imagedirs = s.imagedirs /\ e.romname = s.romname
      /\ e.checksum = Checksum(e)
  BY StoredFields
<1>2. FlagsOf(Bits(s.flags)) = s.flags \cap StoredFlags
  BY FlagsKept DEF Sane
<1> HIDE DEF e
<1>3. Valid(e)
  BY <1>1 DEF Valid
<1>4. Restored(e, to) =
        [flags |-> s.flags \cap StoredFlags, fileexts |-> s.fileexts, imagedirs |-> s.imagedirs,
         romname |-> s.romname, address |-> IF hw # to \/ nvs THEN to ELSE s.address, drives |-> s.drives]
  BY <1>1, <1>2 DEF Restored, AddressFrom, Sane
<1>5. Kept(<<s, hw>>, to) =
        [flags |-> s.flags \cap StoredFlags, fileexts |-> s.fileexts, imagedirs |-> s.imagedirs,
         romname |-> s.romname, address |-> IF hw # to THEN to ELSE s.address, drives |-> s.drives]
  <2> DEFINE g == s.flags \cap StoredFlags
             a == IF hw # to THEN to ELSE s.address
             t == [s EXCEPT !.flags = g]
  <2>1. t = [flags |-> g, fileexts |-> s.fileexts, imagedirs |-> s.imagedirs,
             romname |-> s.romname, drives |-> s.drives, address |-> s.address]
    BY DEF Sane
  <2>2. Kept(<<s, hw>>, to) = [t EXCEPT !.address = IF hw = to THEN s.address ELSE to]
    BY <2>1 DEF Kept
  <2>3. (IF hw = to THEN s.address ELSE to) = a
    OBVIOUS
  <2> HIDE DEF t, g, a
  <2>4. [t EXCEPT !.address = a] =
          [flags |-> g, fileexts |-> s.fileexts, imagedirs |-> s.imagedirs,
           romname |-> s.romname, address |-> a, drives |-> s.drives]
    BY <2>1
  <2>5. QED BY <2>2, <2>3, <2>4 DEF g, a
<1>6. Agree(Restored(e, to), Kept(<<s, hw>>, to))
  BY <1>4, <1>5 DEF Agree
<1>7. QED BY <1>3, <1>6 DEF e

(* What may be done to settings.                                            *)
LEMMA SaneChanges ==
  ASSUME NEW s, Sane(s)
  PROVE  /\ \A x : Sane([s EXCEPT !.fileexts = x]) /\ Sane([s EXCEPT !.imagedirs = x])
                 /\ Sane([s EXCEPT !.romname = x]) /\ Sane([s EXCEPT !.address = x])
         /\ \A x \in SUBSET Flags : Sane([s EXCEPT !.flags = x])
         /\ \A x : x # 255 => Sane([s EXCEPT !.drives = x])
BY DEF Sane

LEMMA SaneDefaults == ASSUME NEW hw PROVE Sane(Defaults(hw))
BY DEF Sane, Defaults, Flags, default_driveconfig

LEMMA SaneRestored == ASSUME NEW e, NEW hw PROVE Sane(Restored(e, hw))
<1>1. FlagsOf(e.global_flags) \subseteq Flags
  BY DEF FlagsOf, StoredFlags, Flags
<1>2. QED BY <1>1 DEF Sane, Restored, default_driveconfig

LEMMA SaneRead == ASSUME NEW e, NEW hw, NEW skip PROVE Sane(read_configuration(e, hw, skip))
BY SaneDefaults, SaneRestored DEF read_configuration

LEMMA CommandsKeepStore ==
  ASSUME StoreInv, NEW new, NEW e, Change(new, e), Sane(new)
  PROVE  StoreInv'
BY DEF StoreInv, Change, StoreKept

LEMMA MenuKeepsStore == ASSUME StoreInv, NEW to, Menu(to) PROVE StoreInv'
BY DEF StoreInv, Menu, StoreKept

LEMMA WritingKeepsStore == ASSUME StoreInv, WriteConfiguration PROVE StoreInv'
<1>1. stored' = {<<settings, jumpers>>} /\ storing' = {} /\ settings' = settings
      /\ eeprom' = Stored(settings, jumpers)
  BY DEF WriteConfiguration
<1>2. QED BY <1>1 DEF StoreInv

LEMMA CuttingKeepsStore == ASSUME StoreInv, CutWrite PROVE StoreInv'
<1>1. stored' = stored /\ storing' = storing \cup {<<settings, jumpers>>} /\ settings' = settings
  BY DEF CutWrite
<1>2. \A was \in stored' \cup storing' : was = <<was[1], was[2]>> /\ Sane(was[1])
  <2>1. <<settings, jumpers>>[1] = settings /\ <<settings, jumpers>>[2] = jumpers
    OBVIOUS
  <2>2. QED BY <1>1, <2>1 DEF StoreInv
<1>3. storing' # {}
  BY <1>1
<1>4. QED BY <1>1, <1>2, <1>3 DEF StoreInv

LEMMA PowerKeepsStore == ASSUME StoreInv, PowerOn PROVE StoreInv'
BY SaneRead DEF StoreInv, PowerOn, PowerUp

LEMMA SettingsKeepStore == ASSUME StoreInv, SettingsCommand PROVE StoreInv'
<1>1. Sane(settings)
  BY DEF StoreInv
<1>2. \A f \in Flags : \A to : Sane(SetFlag(f, to))
  <2> TAKE f \in Flags
  <2> TAKE to
  <2>1. SetFlag(f, to) = [settings EXCEPT !.flags = IF to THEN settings.flags \cup {f} ELSE settings.flags \ {f}]
    BY DEF SetFlag
  <2>2. settings.flags \subseteq Flags
    BY <1>1 DEF Sane
  <2>3. (IF to THEN settings.flags \cup {f} ELSE settings.flags \ {f}) \subseteq Flags
    BY <2>2
  <2>4. QED BY <1>1, <2>1, <2>3, SaneChanges
<1>3. CASE \E to \in BOOLEAN : XE_flag(to) \/ XStar(to) \/ UI_mode(to)
  BY <1>2, <1>3, CommandsKeepStore DEF XE_flag, XStar, UI_mode, Flags
<1>4. CASE \E num \in {3, 5} : XE_mode(num)
  <2>1. PICK num \in {3, 5} : XE_mode(num)
    BY <1>4
  <2> DEFINE s == [settings EXCEPT !.fileexts = num]
             flags == IF num >= 3 THEN settings.flags \cup {"hiding"} ELSE settings.flags
  <2>2. Sane(s) /\ s.flags = settings.flags
    BY <1>1, SaneChanges DEF Sane
  <2>3. Change(IF num > 4 THEN settings ELSE [s EXCEPT !.flags = flags], "status")
    BY <2>1, <2>2 DEF XE_mode
  <2>4. flags \in SUBSET Flags
    BY <1>1 DEF Sane, Flags
  <2>5. Sane([s EXCEPT !.flags = flags])
    BY <2>2, <2>4, SaneChanges
  <2>6. QED BY <1>1, <2>3, <2>5, CommandsKeepStore
<1>5. CASE \E num \in {2, 3} : XI(num)
  BY <1>1, <1>5, SaneChanges, CommandsKeepStore DEF XI
<1>6. CASE (\E name \in RomNames : XR(name)) \/ XR_toolong \/ XD_query \/ UI \/ X_status \/ X_version
  BY <1>1, <1>6, SaneChanges, CommandsKeepStore DEF XR, XR_toolong, XD_query, UI, X_status, X_version
<1>7. CASE \E num \in {0, 8}, val \in {0, 5, 6, 16} : XD(num, val)
  <2>1. PICK num, val : XD(num, val)
    BY <1>7
  <2> DEFINE new == set_map_drive(settings.drives, num, val)
             map == [settings EXCEPT !.drives = IF new = 255 THEN default_driveconfig ELSE new]
  <2>2. Sane(map)
    BY <1>1, SaneChanges DEF default_driveconfig
  <2>3. \E s \in {settings, map} : \E e : Change(s, e)
    <3> HIDE DEF map
    <3>1. (\E e : Change(settings, e)) \/ (\E s \in {settings, map} : \E e : Change(s, e))
      BY <2>1 DEF XD, map
    <3>2. QED BY <3>1
  <2>4. QED BY <1>1, <2>2, <2>3, CommandsKeepStore
<1>8. CASE \E addr \in Addresses : U0(addr) \/ MW119(addr)
  <2>1. PICK addr : U0(addr) \/ MW119(addr)
    BY <1>8
  <2>2. CASE U0(addr)
    BY <1>1, <2>2, SaneChanges, CommandsKeepStore DEF U0
  <2>3. CASE MW119(addr)
    <3>1. Sane([settings EXCEPT !.address = addr % 32])
      BY <1>1, SaneChanges, Zenon
    <3>2. QED BY <2>3, <3>1, CommandsKeepStore, Zenon DEF MW119
  <2>4. QED BY <2>1, <2>2, <2>3
<1>9. CASE XW \/ MenuStore
  BY <1>9, WritingKeepsStore DEF XW, MenuStore
<1>10. CASE CutWrite
  BY <1>10, CuttingKeepsStore
<1>11. CASE MenuKey \/ MenuSelect \/ MenuChdir
  BY <1>11, MenuKeepsStore DEF MenuKey, MenuSelect, MenuChdir
<1>12. CASE \E addr \in Addresses \cap 4 .. 30 : MenuAddress(addr - 4)
  <2>1. PICK sel : MenuAddress(sel)
    BY <1>12
  <2>2. Sane([settings EXCEPT !.address = sel + 4])
    BY <1>1, SaneChanges
  <2>3. QED BY <2>1, <2>2 DEF MenuAddress, StoreInv, StoreKept
<1>13. QED
  BY <1>3, <1>4, <1>5, <1>6, <1>7, <1>8, <1>9, <1>10, <1>11, <1>12 DEF SettingsCommand

LEMMA StoreInvariant == Spec => []StoreInv
<1>1. Init => StoreInv
  BY SaneDefaults DEF Init, SettingsInit, StoreInv
<1>2. StoreInv /\ [Next]_vars => StoreInv'
  <2> SUFFICES ASSUME StoreInv, [Next]_vars PROVE StoreInv'
    OBVIOUS
  <2>1. CASE SettingsCommand
    BY <2>1, SettingsKeepStore
  <2>2. CASE PowerOn
    BY <2>2, PowerKeepsStore
  <2>3. CASE UNCHANGED settingsVars
    BY <2>3 DEF StoreInv, settingsVars
  <2>4. QED BY <2>1, <2>2, <2>3 DEF Next, vars
<1>3. QED BY <1>1, <1>2, PTL DEF Spec

(* Only when it is switched on is anything read from the store.               *)
LEMMA BootsAlone == ASSUME SettingsCommand PROVE boots' = boots
<1>1. ASSUME NEW new, NEW e, Change(new, e) PROVE boots' = boots
  BY <1>1 DEF Change, StoreKept
<1>2. ASSUME NEW to, Menu(to) PROVE boots' = boots
  BY <1>2 DEF Menu, StoreKept
<1>3. CASE \E num \in {0, 8}, val \in {0, 5, 6, 16} : XD(num, val)
  BY <1>3 DEF XD, Change, StoreKept
<1>4. CASE (\E to \in BOOLEAN : XE_flag(to) \/ XStar(to) \/ UI_mode(to))
           \/ (\E num \in {3, 5} : XE_mode(num)) \/ (\E num \in {2, 3} : XI(num))
           \/ (\E name \in RomNames : XR(name)) \/ XR_toolong \/ XD_query \/ UI \/ X_status \/ X_version
           \/ (\E addr \in Addresses : U0(addr) \/ MW119(addr))
  BY <1>4, <1>1
     DEF XE_flag, XStar, UI_mode, XE_mode, XI, XR, XR_toolong, XD_query, UI, X_status, X_version, U0, MW119
<1>5. CASE XW \/ MenuStore
  BY <1>5 DEF XW, MenuStore, WriteConfiguration
<1>6. CASE CutWrite
  BY <1>6 DEF CutWrite
<1>7. CASE MenuKey \/ MenuSelect \/ MenuChdir
  BY <1>7, <1>2 DEF MenuKey, MenuSelect, MenuChdir
<1>8. CASE \E addr \in Addresses \cap 4 .. 30 : MenuAddress(addr - 4)
  BY <1>8 DEF MenuAddress, StoreKept
<1>9. QED BY <1>3, <1>4, <1>5, <1>6, <1>7, <1>8 DEF SettingsCommand

LEMMA ReadWhole ==
  ASSUME StoreInv, NEW hw, NEW skip,
         settings' = read_configuration(eeprom, hw, skip), jumpers' = hw, held' = skip
  PROVE  /\ (\E restored \in Candidates(hw) : Agree(settings', restored)) \/ SameSum
         /\ storing = {} /\ ~(skip /\ ~nvs) =>
              Agree(settings', IF stored = {} THEN Defaults(hw) ELSE Kept(CHOOSE was \in stored : TRUE, hw))
<1>1. ASSUME NEW was \in stored \cup storing, eeprom = Stored(was[1], was[2])
      PROVE  Valid(eeprom) /\ Agree(Restored(eeprom, hw), Kept(was, hw))
  <2>1. Sane(was[1]) /\ was = <<was[1], was[2]>>
    BY DEF StoreInv
  <2>2. Valid(eeprom) /\ Agree(Restored(eeprom, hw), Kept(<<was[1], was[2]>>, hw))
    BY <1>1, <2>1, ReadBack
  <2>3. QED BY <2>1, <2>2
<1>2. Agree(Defaults(hw), Defaults(hw))
  BY DEF Agree, Defaults
<1>3. (\E restored \in Candidates(hw) : Agree(settings', restored)) \/ SameSum
  <2>1. CASE settings' = Defaults(hw)
    BY <2>1, <1>2 DEF Candidates
  <2>2. CASE settings' # Defaults(hw)
    <3>1. Valid(eeprom) /\ settings' = Restored(eeprom, hw)
      BY <2>2 DEF read_configuration
    <3>2. CASE \E was \in stored \cup storing : eeprom = Stored(was[1], was[2])
      BY <3>1, <3>2, <1>1 DEF Candidates
    <3>3. CASE ~ \E was \in stored \cup storing : eeprom = Stored(was[1], was[2])
      BY <3>1, <3>3 DEF SameSum, Valid
    <3>4. QED BY <3>2, <3>3
  <2>3. QED BY <2>1, <2>2
<1>4. ASSUME storing = {}, ~(skip /\ ~nvs)
      PROVE  Agree(settings', IF stored = {} THEN Defaults(hw) ELSE Kept(CHOOSE was \in stored : TRUE, hw))
  <2>1. settings' = IF Valid(eeprom) THEN Restored(eeprom, hw) ELSE Defaults(hw)
    BY <1>4 DEF read_configuration
  <2>2. CASE stored = {} /\ eeprom = Erased
    <3>1. Fields[1] = "structsize" /\ 1 \in DOMAIN Fields
      BY DEF Fields
    <3>2. "structsize" \in Range(Fields)
      BY <3>1 DEF Range
    <3>3. Erased["structsize"] = 65535
      <4> DEFINE All == Range(Fields) \cup {"checksum"}
      <4>1. Erased = [f \in All |-> CASE f = "structsize" -> 65535 [] f = "romname" -> 4080 [] OTHER -> 255]
        BY SMT DEF Erased
      <4>2. "structsize" \in All
        BY <3>2
      <4> HIDE DEF All
      <4>3. QED BY <4>1, <4>2, SMT
    <3>4. ~Valid(eeprom)
      BY <2>2, <3>3 DEF Valid, StructSize
    <3>5. QED BY <2>1, <2>2, <3>4, <1>2
  <2>3. CASE \E was \in stored : stored = {was} /\ eeprom = Stored(was[1], was[2])
    <3>1. PICK was \in stored : stored = {was} /\ eeprom = Stored(was[1], was[2])
      BY <2>3
    <3>2. (CHOOSE w \in stored : TRUE) = was
      BY <3>1
    <3>3. QED BY <2>1, <3>1, <3>2, <1>1
  <2>4. QED BY <1>4, <2>2, <2>3 DEF StoreInv
<1>5. QED BY <1>3, <1>4

(* After power-up the settings are those stored last, those being stored when  *)
(* the power failed, or the defaults, whole, and those stored last when no     *)
(* write was cut off (eeprom-conf.c 70-191); on the ESP32 this is said of all   *)
(* of them but the address (nvs-conf.c 95-179).                              *)
THEOREM SettingsWhole == Spec => ConfigWhole
<1> DEFINE Whole ==
      /\ boots' # boots =>
           (\E restored \in Candidates(jumpers') : Agree(settings', restored)) \/ SameSum
      /\ RestoresLast =>
           Agree(settings', IF stored = {} THEN Defaults(jumpers')
                            ELSE Kept(CHOOSE was \in stored : TRUE, jumpers'))
<1>1. StoreInv /\ [Next]_vars => [Whole]_settingsVars
  <2> SUFFICES ASSUME StoreInv, [Next]_vars, boots' # boots PROVE Whole
    BY DEF RestoresLast
  <2>1. PowerOn
    BY BootsAlone DEF Next, vars, settingsVars
  <2>2. PICK hw \in Jumpers, skip \in BOOLEAN : PowerUp(hw, skip)
    BY <2>1 DEF PowerOn
  <2>3. settings' = read_configuration(eeprom, hw, skip) /\ jumpers' = hw /\ held' = skip
    BY <2>2 DEF PowerUp
  <2>4. QED BY <2>3, ReadWhole DEF RestoresLast
<1>2. QED BY <1>1, StoreInvariant, PTL DEF Spec, ConfigWhole

(***************************************************************************)
(* Programs in the drive's memory.                                         *)
(***************************************************************************)
(* A program is detected when it is in the table and its CRC was begun anew.   *)
Detectable(u) == u.program \in Known /\ u.clean
Captures(u) == Detectable(u) /\ u.program.capture # Nothing

(* How many of the bytes that are to be captured are in the first k blocks.   *)
InBlocks(p, k) == Block * k - p.capture.from

(* While u.blocks blocks of a program are written: the CRC, what is detected,  *)
(* and what is captured.                                                    *)
CrcSoFar(u, crc) ==
  IF u.clean THEN crc = SubSeq(u.program.code, 1, u.blocks) ELSE Len(crc) > u.blocks

DetectedSoFar(u, detected, fast) ==
  IF Detectable(u) /\ u.blocks >= u.program.detect
    THEN detected = u.program.type /\ (u.program.rxtx # Nothing => fast = u.program.rxtx)
    ELSE detected = "none"

Capturing(p, from, done, remain) ==
  [address |-> from + done, remain |-> remain, data |-> Bytes(p, from, done)]
CapturedUpTo(p, from, length, n, c, bytes) ==
  IF n >= length
    THEN c = Nothing /\ bytes = Bytes(p, from, length)
    ELSE c = Capturing(p, from, n, length - n) /\ bytes = Bytes(p, from, n)

CapturedSoFar(u, c, bytes) ==
  LET p == u.program
  IN IF Captures(u) /\ u.blocks >= p.detect
       THEN CapturedUpTo(p, p.capture.from, p.capture.length, InBlocks(p, u.blocks), c, bytes)
       ELSE c = Nothing /\ bytes = Nothing

Uploadings == [program : Programs, blocks : Nat, clean : BOOLEAN]
Writing ==
  ~Idle =>
    /\ uploading \in Uploadings
    /\ uploading.blocks \in 1 .. Len(uploading.program.code)
    /\ resident = Nothing /\ ran = Nothing /\ previous_loader = "none"
    /\ CrcSoFar(uploading, datacrc)
    /\ DetectedSoFar(uploading, detected_loader, fast_bytes)
    /\ CapturedSoFar(uploading, capture, captured)

(* What is in the memory was detected, or nothing was; before it is started    *)
(* all its bytes were captured.                                             *)
LoaderOf(r) == IF Detectable(r) THEN r.program.type ELSE "none"
CapturedOf(r) ==
  IF Captures(r) THEN Bytes(r.program, r.program.capture.from, r.program.capture.length) ELSE Nothing

Residents == [program : Programs, clean : BOOLEAN, started : BOOLEAN]
Holds(r, detected, previous, fast, bytes) ==
  /\ r \in Residents
  /\ \/ detected = LoaderOf(r) /\ previous = "none"
     \/ detected = "none" /\ previous = LoaderOf(r)
  /\ Detectable(r) /\ r.program.rxtx # Nothing => fast = r.program.rxtx
  /\ IF r.started THEN detected = "none" /\ bytes = Nothing ELSE bytes = CapturedOf(r)

InMemory ==
  Idle =>
    /\ capture = Nothing
    /\ IF resident = Nothing
         THEN detected_loader = "none" /\ previous_loader = "none" /\ captured = Nothing
         ELSE Holds(resident, detected_loader, previous_loader, fast_bytes, captured)

Ran == ran # Nothing => resident # Nothing /\ Fits(ran, resident.program)

UploadInv == datacrc \in Seq(Codes) /\ Writing /\ InMemory /\ Ran

(***************************************************************************)
(* The CRC meets one in the table exactly when a program in it was written    *)
(* alone, up to the block where it is detected.                              *)
(***************************************************************************)
LEMMA CodeFacts ==
  ASSUME NEW p \in Programs
  PROVE  /\ p.code \in Seq(Codes) /\ Len(p.code) \in Nat \ {0}
         /\ \A i \in 1 .. Len(p.code) : p.code[i] \in Codes
BY UploadAssumption

LEMMA PrefixGrows ==
  ASSUME NEW S, NEW s \in Seq(S), NEW k \in Nat, k + 1 \in 1 .. Len(s)
  PROVE  /\ SubSeq(s, 1, k) \in Seq(S) /\ Len(SubSeq(s, 1, k)) = k
         /\ Append(SubSeq(s, 1, k), s[k + 1]) = SubSeq(s, 1, k + 1)
OBVIOUS

LEMMA HitExactly ==
  ASSUME NEW u \in Uploadings, NEW crc \in Seq(Codes), CrcSoFar(u, crc),
         u.blocks + 1 \in 1 .. Len(u.program.code)
  PROVE  InCrcTable(Append(crc, u.program.code[u.blocks + 1])) =
           IF Detectable(u) /\ u.blocks + 1 = u.program.detect THEN {u.program} ELSE {}
<1> DEFINE p == u.program
           k == u.blocks
           new == Append(crc, p.code[k + 1])
<1>1. p \in Programs /\ k \in Nat /\ u.clean \in BOOLEAN
  BY DEF Uploadings
<1>2. p.code \in Seq(Codes) /\ p.code[k + 1] \in Codes
  BY <1>1, CodeFacts
<1>3. Len(crc) \in Nat /\ Len(new) = Len(crc) + 1 /\ new[Len(crc) + 1] = p.code[k + 1]
  BY <1>2
<1>4. ASSUME NEW q \in Known, CrcOf(q) = new
      PROVE  q = p /\ k + 1 = p.detect /\ u.clean
  <2>1. q \in Programs /\ q.detect \in 1 .. Len(q.code) /\ q.code \in Seq(Codes)
    BY UploadAssumption DEF Known
  <2>2. Len(CrcOf(q)) = q.detect /\ CrcOf(q)[q.detect] = q.code[q.detect]
    BY <2>1 DEF CrcOf
  <2>3. q.detect = Len(crc) + 1 /\ p.code[k + 1] = q.code[q.detect]
    BY <1>3, <1>4, <2>2
  <2>4. p = q /\ k + 1 = q.detect
    BY <1>1, <2>3, UploadAssumption
  <2>5. u.clean
    BY <1>1, <1>3, <2>3, <2>4 DEF CrcSoFar
  <2>6. QED BY <2>4, <2>5
<1>5. ASSUME p \in Known, u.clean, k + 1 = p.detect
      PROVE  CrcOf(p) = new
  BY <1>1, <1>2, <1>5, PrefixGrows DEF CrcOf, CrcSoFar
<1>6. CASE Detectable(u) /\ k + 1 = p.detect
  BY <1>4, <1>5, <1>6 DEF InCrcTable, Detectable
<1>7. CASE ~(Detectable(u) /\ k + 1 = p.detect)
  BY <1>4, <1>7 DEF InCrcTable, Detectable
<1>8. QED BY <1>6, <1>7

(***************************************************************************)
(* Capturing.                                                              *)
(***************************************************************************)
LEMMA Concatenation ==
  ASSUME NEW S, NEW a \in Seq(S), NEW b \in Seq(S)
  PROVE  /\ a \o b \in Seq(S) /\ Len(a \o b) = Len(a) + Len(b)
         /\ \A i \in 1 .. Len(a) : (a \o b)[i] = a[i]
         /\ \A i \in Len(a) + 1 .. Len(a) + Len(b) : (a \o b)[i] = b[i - Len(a)]
BY ConcatProperties

LEMMA BytesJoin ==
  ASSUME NEW p, NEW from \in Nat, NEW n \in Nat, NEW m \in Nat
  PROVE  /\ Bytes(p, from, 0) = <<>>
         /\ Bytes(p, from, n) \o Bytes(p, from + n, m) = Bytes(p, from, n + m)
         /\ Bytes(p, from, n) \in Seq({p.name} \X Nat)
<1> DEFINE a == Bytes(p, from, n)
           b == Bytes(p, from + n, m)
           c == Bytes(p, from, n + m)
           S == {p.name} \X Nat
<1>1. /\ a \in Seq(S) /\ Len(a) = n /\ \A i \in 1 .. n : a[i] = <<p.name, from + i - 1>>
      /\ b \in Seq(S) /\ Len(b) = m /\ \A i \in 1 .. m : b[i] = <<p.name, from + n + i - 1>>
      /\ c \in Seq(S) /\ Len(c) = n + m
      /\ \A i \in 1 .. n + m : c[i] = <<p.name, from + i - 1>>
  BY DEF Bytes
<1>2. Bytes(p, from, 0) = <<>>
  BY DEF Bytes
<1> HIDE DEF a, b, c, S
<1>3. /\ a \o b \in Seq(S) /\ Len(a \o b) = Len(a) + Len(b)
      /\ \A i \in 1 .. Len(a) : (a \o b)[i] = a[i]
      /\ \A i \in Len(a) + 1 .. Len(a) + Len(b) : (a \o b)[i] = b[i - Len(a)]
  BY <1>1, Concatenation
<1>4. ASSUME NEW i \in 1 .. n + m PROVE (a \o b)[i] = c[i]
  <2>1. CASE i \in 1 .. n
    BY <1>1, <1>3, <2>1
  <2>2. CASE i \notin 1 .. n
    <3>1. i - n \in 1 .. m /\ from + n + (i - n) - 1 = from + i - 1 /\ i \in n + 1 .. n + m
      BY <2>2
    <3>2. (a \o b)[i] = b[i - n]
      BY <1>1, <1>3, <3>1
    <3>3. b[i - n] = <<p.name, from + n + (i - n) - 1>>
      BY <1>1, <3>1
    <3>4. c[i] = <<p.name, from + i - 1>>
      BY <1>1
    <3>5. QED BY <3>1, <3>2, <3>3, <3>4
  <2>3. QED BY <2>1, <2>2
<1>5. a \o b = c
  BY <1>1, <1>3, <1>4, SeqEqual
<1>6. QED BY <1>1, <1>2, <1>5 DEF a, b, c, S

(* The next bytes, up to the end of the block at address.                    *)
Take(from, remain, address) ==
  IF remain < Block - (from - address) THEN remain ELSE Block - (from - address)

LEMMA CapturingIsSomething ==
  ASSUME NEW p \in Programs, NEW from \in Nat, NEW done \in Nat, NEW remain \in Nat
  PROVE  Capturing(p, from, done, remain) # Nothing
<1>1. Bytes(p, from, done) \in Seq({p.name} \X Nat)
  BY BytesJoin
<1>2. Bytes(p, from, done) \in Seq({q.name : q \in Programs} \X Nat)
  BY <1>1
<1>3. Capturing(p, from, done, remain) \in
        [address : Nat, remain : Nat, data : Seq({q.name : q \in Programs} \X Nat)]
  BY <1>2 DEF Capturing
<1>4. QED BY <1>3, NothingAssumption

LEMMA CaptureMore ==
  ASSUME NEW p \in Programs, NEW from \in Nat, NEW done \in Nat, NEW remain \in Nat,
         NEW address \in Nat, from + done \in address .. address + Block - 1,
         NEW n, n = Take(from + done, remain, address)
  PROVE  /\ n \in Nat /\ n <= remain
         /\ capture_fl_data(Capturing(p, from, done, remain), p, address) =
              Capturing(p, from, done + n, remain - n)
<1> DEFINE c == Capturing(p, from, done, remain)
<1>1. Block \in 1 .. 256
  BY UploadAssumption
<1>2. c.address = from + done /\ c.remain = remain /\ c.data = Bytes(p, from, done)
  BY DEF Capturing
<1>3. (from + done - address) % 256 = from + done - address
  BY <1>1
<1>4. n \in Nat /\ n <= remain
  BY <1>1 DEF Take
<1>5. address + (from + done - address) = from + done
  OBVIOUS
<1>6. Bytes(p, from, done) \o Bytes(p, from + done, n) = Bytes(p, from, done + n)
  <2>1. /\ Bytes(p, from, 0) = <<>>
        /\ Bytes(p, from, done) \o Bytes(p, from + done, n) = Bytes(p, from, done + n)
        /\ Bytes(p, from, done) \in Seq({p.name} \X Nat)
    BY ONLY <1>4, BytesJoin, from \in Nat, done \in Nat
  <2>2. QED BY <2>1
<1> DEFINE d == [c EXCEPT !.data = Bytes(p, from, done + n)]
           e == [d EXCEPT !.address = from + done + n]
<1>7. d = [address |-> from + done, remain |-> remain, data |-> Bytes(p, from, done + n)]
  BY DEF Capturing
<1>8. e = [address |-> from + done + n, remain |-> remain, data |-> Bytes(p, from, done + n)]
  <2> HIDE DEF d
  <2>1. QED BY <1>7
<1>9. [e EXCEPT !.remain = remain - n] =
        [address |-> from + done + n, remain |-> remain - n, data |-> Bytes(p, from, done + n)]
  <2> HIDE DEF e
  <2>1. QED BY <1>8
<1>10. capture_fl_data(c, p, address) = [e EXCEPT !.remain = remain - n]
  <2>1. capture_fl_data(c, p, address) =
          [c EXCEPT !.data = c.data \o Bytes(p, address + (from + done - address), n),
                    !.address = c.address + n, !.remain = c.remain - n]
    <3> HIDE DEF c
    <3>1. (c.address - address) % 256 = from + done - address
      BY <1>2, <1>3
    <3>2. (IF c.remain < Block - ((c.address - address) % 256) THEN c.remain
           ELSE Block - ((c.address - address) % 256)) = n
      BY <1>2, <3>1 DEF Take
    <3>3. QED BY <3>1, <3>2 DEF capture_fl_data
  <2>2. QED BY <2>1, <1>2, <1>5, <1>6, Zenon
<1>11. from + (done + n) = from + done + n
  BY <1>4
<1>12. QED BY <1>4, <1>9, <1>10, <1>11 DEF Capturing

LEMMA BlockCaptured ==
  ASSUME NEW p \in Programs, NEW from \in Nat, NEW length \in Nat, NEW n \in Nat, n < length,
         NEW address \in Nat, from + n \in address .. address + Block - 1,
         NEW end \in Int, end = address + Block,
         NEW to, to = capture_fl_data(Capturing(p, from, n, length - n), p, address)
  PROVE  /\ to # Nothing
         /\ CapturedUpTo(p, from, length, end - from, IF to.remain = 0 THEN Nothing ELSE to, to.data)
<1> DEFINE r == length - n
           t == Take(from + n, r, address)
<1>1. Block \in 1 .. 256
  BY UploadAssumption
<1>2. r \in Nat \ {0} /\ n + r = length
  OBVIOUS
<1>3. t = IF end - from >= length THEN r ELSE end - from - n
  BY <1>1 DEF Take
<1> HIDE DEF r, t
<1>4. /\ t \in Nat /\ t <= r
      /\ capture_fl_data(Capturing(p, from, n, r), p, address) = Capturing(p, from, n + t, r - t)
  <2>1. t = Take(from + n, r, address)
    BY DEF t
  <2>2. r \in Nat
    BY <1>2
  <2>3. QED BY <2>1, <2>2, CaptureMore
<1>5. to = Capturing(p, from, n + t, r - t)
  BY <1>4 DEF r
<1>6. n + t \in Nat /\ r - t \in Nat
  BY <1>2, <1>4
<1>7. to # Nothing
  BY <1>5, <1>6, CapturingIsSomething
<1>8. to.remain = r - t /\ to.data = Bytes(p, from, n + t)
  BY <1>5 DEF Capturing
<1>9. CASE end - from >= length
  <2>1. r - t = 0 /\ n + t = length
    BY <1>2, <1>3, <1>9
  <2>2. QED BY <1>7, <1>8, <1>9, <2>1 DEF CapturedUpTo
<1>10. CASE ~(end - from >= length)
  <2>1. n + t = end - from /\ r - t = length - (end - from) /\ r - t # 0
    BY <1>1, <1>2, <1>3, <1>10
  <2>2. QED BY <1>5, <1>7, <1>8, <1>10, <2>1 DEF CapturedUpTo
<1>11. QED BY <1>7, <1>9, <1>10

Grown(u) == [program |-> u.program, blocks |-> u.blocks + 1, clean |-> u.clean]

LEMMA CapturesFacts ==
  ASSUME NEW u \in Uploadings, Captures(u)
  PROVE  LET p == u.program
             c == p.capture
         IN /\ p \in Programs /\ p.detect \in Nat \ {0}
            /\ c.from \in Nat /\ c.length \in Nat \ {0}
            /\ c.from \in Block * (p.detect - 1) .. Block * p.detect - 1
            /\ c.from + c.length <= Block * Len(p.code)
<1> DEFINE p == u.program
           c == p.capture
<1>1. p \in Known /\ p \in Programs /\ c # Nothing
  BY DEF Captures, Detectable, Known
<1>2. p.detect \in 0 .. Len(p.code) /\ p.detect > 0 /\ Len(p.code) \in Nat
  BY <1>1, UploadAssumption DEF Known
<1>3. Block \in Nat
  <2>1. Block \in 1 .. 256
    BY UploadAssumption
  <2>2. QED BY <2>1
<1>4. c.from \in Block * (p.detect - 1) .. Block * p.detect - 1 /\ c.length \in 1 .. Block * Len(p.code) - c.from
  BY <1>1, TablesAssumption
<1>5. \A from, length : \A low \in Nat, high \in Nat, end \in Nat :
        from \in low .. high - 1 /\ length \in 1 .. end - from
          => from \in Nat /\ length \in Nat \ {0} /\ from + length <= end
  OBVIOUS
<1>6. \A i \in Nat : Block * i \in Nat
  BY <1>3
<1>7. p.detect \in Nat \ {0} /\ p.detect - 1 \in Nat
  BY <1>2
<1> HIDE DEF p, c
<1>8. c.from \in Nat /\ c.length \in Nat \ {0} /\ c.from + c.length <= Block * Len(p.code)
  BY <1>2, <1>4, <1>5, <1>6, <1>7
<1>9. QED BY <1>1, <1>4, <1>7, <1>8 DEF p, c

(* The boundaries of the blocks.                                            *)
LEMMA BlockBounds ==
  ASSUME NEW k \in Nat
  PROVE  /\ Block \in 1 .. 256 /\ Block * k \in Nat /\ Block * (k + 1) = Block * k + Block
         /\ \A i \in Nat : i <= k => Block * i <= Block * k
<1>1. Block \in 1 .. 256
  BY UploadAssumption
<1>2. QED BY <1>1

(* What to capture from a block is what comes next.                          *)
LEMMA CaptureOn ==
  ASSUME NEW u \in Uploadings, NEW c, NEW bytes, CapturedSoFar(u, c, bytes),
         NEW begun \in BOOLEAN, begun <=> Captures(u) /\ u.blocks + 1 = u.program.detect,
         NEW from, from = IF c # Nothing THEN c
                          ELSE IF begun
                          THEN Capturing(u.program, u.program.capture.from, 0, u.program.capture.length)
                          ELSE Nothing,
         NEW to, to = IF from = Nothing THEN Nothing
                      ELSE capture_fl_data(from, u.program, Block * u.blocks)
  PROVE  CapturedSoFar(Grown(u), IF to = Nothing THEN Nothing ELSE IF to.remain = 0 THEN Nothing ELSE to,
                                 IF to = Nothing THEN bytes ELSE to.data)
<1> DEFINE p == u.program
           k == u.blocks
           v == Grown(u)
           newc == IF to = Nothing THEN Nothing ELSE IF to.remain = 0 THEN Nothing ELSE to
           newbytes == IF to = Nothing THEN bytes ELSE to.data
<1>1. k \in Nat /\ p \in Programs
  BY DEF Uploadings
<1>2. v.program = p /\ v.blocks = k + 1 /\ v.clean = u.clean
  BY DEF Grown
<1>3. Captures(v) <=> Captures(u)
  BY <1>2 DEF Captures, Detectable
<1>4. ASSUME ~(Captures(v) /\ k + 1 >= p.detect)
      PROVE  CapturedSoFar(v, newc, newbytes)
  <2>1. ~Captures(u) \/ (p.detect \in Nat /\ k + 1 < p.detect)
    BY <1>1, <1>3, <1>4, CapturesFacts
  <2>2. ~(Captures(u) /\ k >= p.detect) /\ ~begun
    BY <1>1, <2>1
  <2>3. c = Nothing /\ bytes = Nothing
    BY <2>2 DEF CapturedSoFar
  <2>4. to = Nothing
    BY <2>2, <2>3
  <2>5. QED BY <1>2, <1>4, <2>3, <2>4 DEF CapturedSoFar
<1>5. ASSUME Captures(u), k + 1 >= p.detect,
             NEW first, first = p.capture.from, NEW length, length = p.capture.length,
             NEW m, m = Block * k, NEW end, end = Block * (k + 1), NEW d, d = p.detect,
             NEW low, low = Block * (p.detect - 1), NEW high, high = Block * p.detect
      PROVE  CapturedSoFar(v, newc, newbytes)
  <2>1. /\ d \in Nat \ {0} /\ first \in Nat /\ length \in Nat \ {0}
        /\ first \in low .. high - 1
    BY <1>5, CapturesFacts
  <2>2. /\ m \in Nat /\ end = m + Block /\ Block \in 1 .. 256
        /\ d <= k => high <= m
        /\ d = k + 1 => low = m /\ high = end
        /\ low \in Nat /\ high \in Nat
    <3>1. /\ Block \in 1 .. 256 /\ m \in Nat /\ end = m + Block
          /\ \A i \in Nat : i <= k => Block * i <= m
      <4>1. /\ Block \in 1 .. 256 /\ Block * k \in Nat /\ Block * (k + 1) = Block * k + Block
            /\ \A i \in Nat : i <= k => Block * i <= Block * k
        BY <1>1, BlockBounds
      <4>2. QED BY ONLY <1>5, <4>1
    <3>2. d <= k => high <= m
      BY <1>5, <2>1, <3>1
    <3>3. d = k + 1 => low = m /\ high = end
      <4>1. d = k + 1 => p.detect - 1 = k /\ p.detect = k + 1
        BY <1>1, <1>5
      <4>2. QED BY <1>5, <4>1
    <3>4. low \in Nat /\ high \in Nat
      <4>1. d - 1 \in Nat /\ d \in Nat
        BY <2>1
      <4>2. \A i \in Nat : Block * i \in Nat
        BY <3>1
      <4>3. QED BY <1>5, <4>1, <4>2
    <3>5. QED BY <3>1, <3>2, <3>3, <3>4
  <2>3. ASSUME CapturedUpTo(p, first, length, end - first, newc, newbytes)
        PROVE  CapturedSoFar(v, newc, newbytes)
    BY <1>2, <1>3, <1>5, <2>3 DEF CapturedSoFar, InBlocks
  <2> HIDE DEF newc, newbytes
  <2>4. ASSUME NEW n \in Nat, n < length, first + n \in m .. m + Block - 1,
               from = Capturing(p, first, n, length - n)
        PROVE  CapturedUpTo(p, first, length, end - first, newc, newbytes)
    <3>1. from # Nothing
      BY <1>1, <2>1, <2>4, CapturingIsSomething
    <3>2. to = capture_fl_data(Capturing(p, first, n, length - n), p, m)
      BY <1>5, <2>4, <3>1
    <3>3. /\ to # Nothing
          /\ CapturedUpTo(p, first, length, end - first, IF to.remain = 0 THEN Nothing ELSE to, to.data)
      <4>1. m \in Nat /\ end \in Int /\ end = m + Block /\ length \in Nat
        BY <2>1, <2>2
      <4>2. QED BY ONLY <1>1, <2>1, <2>4, <3>2, <4>1, BlockCaptured
    <3>4. newc = (IF to.remain = 0 THEN Nothing ELSE to) /\ newbytes = to.data
      BY <3>3 DEF newc, newbytes
    <3>5. QED BY <3>3, <3>4
  <2>5. CASE k + 1 = d
    <3>1. ~(k >= d)
      BY <1>1, <2>5
    <3>2. c = Nothing /\ begun
      BY <1>5, <2>5, <3>1 DEF CapturedSoFar
    <3>3. from = Capturing(p, first, 0, length - 0)
      BY <1>5, <2>1, <3>2
    <3>4. 0 \in Nat /\ 0 < length /\ first + 0 \in m .. m + Block - 1
      BY <2>1, <2>2, <2>5
    <3>5. QED BY <2>3, <2>4, <3>3, <3>4
  <2>6. CASE k + 1 # d
    <3>1. k >= d /\ ~begun
      BY <1>1, <1>5, <2>1, <2>6
    <3>2. CapturedUpTo(p, first, length, m - first, c, bytes)
      BY <1>5, <3>1 DEF CapturedSoFar, InBlocks
    <3>3. m - first \in Nat /\ first + (m - first) = m /\ m \in m .. m + Block - 1
      BY <2>1, <2>2, <3>1
    <3>4. CASE m - first >= length
      <4>1. c = Nothing /\ bytes = Bytes(p, first, length)
        BY <3>2, <3>4 DEF CapturedUpTo
      <4>2. to = Nothing
        BY <3>1, <4>1
      <4>3. end - first >= length
        BY <2>1, <2>2, <3>4
      <4>4. QED BY <2>3, <4>1, <4>2, <4>3 DEF CapturedUpTo, newc, newbytes
    <3>5. CASE ~(m - first >= length)
      <4>1. c = Capturing(p, first, m - first, length - (m - first))
        BY <3>2, <3>5 DEF CapturedUpTo
      <4>2. m - first < length /\ length - (m - first) \in Nat
        BY <2>1, <2>2, <3>5
      <4>3. c # Nothing
        BY <1>1, <2>1, <3>3, <4>1, <4>2, CapturingIsSomething
      <4>4. from = Capturing(p, first, m - first, length - (m - first))
        BY <4>1, <4>3
      <4>5. QED BY <2>3, <2>4, <3>3, <4>2, <4>4
    <3>6. QED BY <3>4, <3>5
  <2>7. QED BY <2>5, <2>6
<1>6. QED BY <1>2, <1>3, <1>4, <1>5

(* One block more of a program.                                             *)
LEMMA BlockWritten ==
  ASSUME NEW u \in Uploadings, u.blocks + 1 \in 1 .. Len(u.program.code), datacrc \in Seq(Codes),
         CrcSoFar(u, datacrc), DetectedSoFar(u, detected_loader, fast_bytes),
         CapturedSoFar(u, capture, captured),
         handle_memwrite(u.program, u.blocks + 1)
  PROVE  /\ datacrc' \in Seq(Codes) /\ previous_loader' = "none"
         /\ CrcSoFar(Grown(u), datacrc')
         /\ DetectedSoFar(Grown(u), detected_loader', fast_bytes')
         /\ CapturedSoFar(Grown(u), capture', captured')
<1> DEFINE p == u.program
           k == u.blocks
           v == Grown(u)
           hit == InCrcTable(Append(datacrc, p.code[k + 1]))
           hits == Detectable(u) /\ k + 1 = p.detect
<1>1. k \in Nat /\ p \in Programs /\ u.clean \in BOOLEAN
  BY DEF Uploadings
<1>2. v.program = p /\ v.blocks = k + 1 /\ v.clean = u.clean
  BY DEF Grown
<1>3. p.code \in Seq(Codes) /\ p.code[k + 1] \in Codes
  BY <1>1, CodeFacts
<1>4. hit = IF hits THEN {p} ELSE {}
  BY HitExactly
<1>5. datacrc' = Append(datacrc, p.code[k + 1]) /\ previous_loader' = "none"
  BY DEF handle_memwrite, PreviousEnded
<1>6. datacrc' \in Seq(Codes)
  BY <1>3, <1>5
<1>7. CrcSoFar(v, datacrc')
  <2>1. CASE u.clean
    BY <1>1, <1>2, <1>3, <1>5, <2>1, PrefixGrows DEF CrcSoFar
  <2>2. CASE ~u.clean
    <3>1. Len(datacrc) > k /\ Len(datacrc') = Len(datacrc) + 1 /\ Len(datacrc) \in Nat
      BY <1>3, <1>5, <2>2 DEF CrcSoFar
    <3>2. QED BY <1>1, <1>2, <2>2, <3>1 DEF CrcSoFar
  <2>3. QED BY <2>1, <2>2
<1>8. \/ hit = {} /\ detected_loader' = detected_loader /\ fast_bytes' = fast_bytes
      \/ \E q \in hit : /\ detected_loader' = q.type
                       /\ fast_bytes' = IF q.rxtx = Nothing THEN fast_bytes ELSE q.rxtx
  BY DEF handle_memwrite
<1>9. Detectable(u) => p.detect \in Nat
  BY UploadAssumption DEF Detectable, Known
<1>10. DetectedSoFar(v, detected_loader', fast_bytes')
  <2>1. CASE hits
    <3>1. detected_loader' = p.type /\ fast_bytes' = IF p.rxtx = Nothing THEN fast_bytes ELSE p.rxtx
      BY <1>4, <1>8, <2>1
    <3>2. Detectable(v) /\ k + 1 >= p.detect
      BY <1>1, <1>2, <1>9, <2>1 DEF Detectable
    <3> HIDE DEF p, v
    <3>3. QED BY <1>2, <3>1, <3>2 DEF DetectedSoFar
  <2>2. CASE ~hits
    <3>1. detected_loader' = detected_loader /\ fast_bytes' = fast_bytes
      BY <1>4, <1>8, <2>2
    <3>2. Detectable(v) <=> Detectable(u)
      BY <1>2 DEF Detectable
    <3>3. Detectable(u) => (k + 1 >= p.detect <=> k >= p.detect)
      BY <1>1, <1>9, <2>2
    <3>4. QED BY <1>2, <3>1, <3>2, <3>3 DEF DetectedSoFar
  <2>3. QED BY <2>1, <2>2
<1> DEFINE begins == Captures(u) /\ k + 1 = p.detect
           from == capture_start(hit)
           to == IF from = Nothing THEN Nothing ELSE capture_fl_data(from, p, Block * ((k + 1) - 1))
<1>11. /\ captured' = IF to = Nothing THEN captured ELSE to.data
       /\ capture' = IF to = Nothing THEN Nothing ELSE IF to.remain = 0 THEN Nothing ELSE to
  <2>1. captured' = IF to = Nothing THEN captured ELSE to.data
    BY Zenon DEF handle_memwrite
  <2>2. capture' = IF to = Nothing THEN Nothing ELSE IF to.remain = 0 THEN Nothing ELSE to
    BY Zenon DEF handle_memwrite
  <2>3. QED BY <2>1, <2>2
<1>12. ASSUME capture = Nothing, begins
       PROVE  from = Capturing(p, p.capture.from, 0, p.capture.length)
  <2>1. hit = {p} /\ p.capture # Nothing
    BY <1>4, <1>12 DEF Captures
  <2>2. (CHOOSE q \in hit : TRUE) = p
    BY <2>1
  <2>3. p.capture.from \in Nat
    BY <1>12, CapturesFacts
  <2>4. Bytes(p, p.capture.from, 0) = <<>> /\ p.capture.from + 0 = p.capture.from
    BY <2>3 DEF Bytes
  <2> HIDE DEF hit, p
  <2>5. QED BY <1>12, <2>1, <2>2, <2>4 DEF Capturing, capture_start
<1>13. ASSUME ~(capture = Nothing /\ begins)
       PROVE  from = capture
  BY <1>4, <1>13 DEF Captures, capture_start
<1>14. from = IF capture # Nothing THEN capture
              ELSE IF begins THEN Capturing(p, p.capture.from, 0, p.capture.length) ELSE Nothing
  <2> HIDE DEF begins, from
  <2>1. QED BY <1>12, <1>13
<1>15. to = IF from = Nothing THEN Nothing ELSE capture_fl_data(from, p, Block * k)
  <2>1. ((k + 1) - 1) = k
    BY <1>1
  <2> HIDE DEF from
  <2>2. QED BY <2>1
<1>16. begins \in BOOLEAN /\ (begins <=> Captures(u) /\ k + 1 = p.detect)
  OBVIOUS
<1>17. CapturedSoFar(v, capture', captured')
  <2> HIDE DEF from, to, begins, hit
  <2>1. CapturedSoFar(v, IF to = Nothing THEN Nothing ELSE IF to.remain = 0 THEN Nothing ELSE to,
                         IF to = Nothing THEN captured ELSE to.data)
    BY <1>14, <1>15, <1>16, CaptureOn
  <2>2. QED BY <1>11, <2>1
<1>18. QED BY <1>5, <1>6, <1>7, <1>10, <1>17

(***************************************************************************)
(* The steps.                                                              *)
(***************************************************************************)
LEMMA NothingWritten == Nothing \notin Uploadings /\ Nothing \notin Residents
BY NothingAssumption DEF Uploadings, Residents

LEMMA KeptUploads == ASSUME UploadInv, UNCHANGED uploadVars PROVE UploadInv'
BY DEF UploadInv, Writing, InMemory, Ran, Idle, uploadVars

(* No program waits to be started: nothing is detected or captured.           *)
LEMMA NothingBegun ==
  ASSUME UploadInv, Idle, ~Waiting
  PROVE  detected_loader = "none" /\ capture = Nothing /\ captured = Nothing
<1>1. CASE resident = Nothing
  BY <1>1 DEF UploadInv, InMemory
<1>2. CASE resident # Nothing
  BY <1>2 DEF UploadInv, InMemory, Holds, Waiting
<1>3. QED BY <1>1, <1>2

LEMMA BeginKeeps == ASSUME UploadInv, NEW p \in Programs, BeginUpload(p) PROVE UploadInv'
<1>1. PICK u : u = [program |-> p, blocks |-> 0, clean |-> datacrc = <<>>]
  OBVIOUS
<1>2. u \in Uploadings /\ u.program = p /\ u.blocks = 0 /\ (u.clean <=> datacrc = <<>>)
  BY <1>1 DEF Uploadings
<1>3. datacrc \in Seq(Codes) /\ p.code \in Seq(Codes) /\ Len(p.code) \in Nat \ {0}
  BY CodeFacts DEF UploadInv
<1>4. detected_loader = "none" /\ capture = Nothing /\ captured = Nothing
  BY NothingBegun DEF BeginUpload
<1>5. CrcSoFar(u, datacrc)
  <2>1. SubSeq(p.code, 1, 0) = <<>>
    BY <1>3
  <2>2. datacrc # <<>> => Len(datacrc) > 0
    BY <1>3
  <2>3. QED BY <1>2, <2>1, <2>2 DEF CrcSoFar
<1>6. Detectable(u) => ~(u.blocks >= u.program.detect)
  BY <1>2, UploadAssumption DEF Detectable, Known
<1>7. DetectedSoFar(u, detected_loader, fast_bytes) /\ CapturedSoFar(u, capture, captured)
  BY <1>4, <1>6 DEF DetectedSoFar, CapturedSoFar, Captures
<1>8. handle_memwrite(u.program, u.blocks + 1) /\ u.blocks + 1 \in 1 .. Len(u.program.code)
  BY <1>2, <1>3 DEF BeginUpload
<1>9. /\ datacrc' \in Seq(Codes) /\ previous_loader' = "none"
      /\ CrcSoFar(Grown(u), datacrc')
      /\ DetectedSoFar(Grown(u), detected_loader', fast_bytes')
      /\ CapturedSoFar(Grown(u), capture', captured')
  BY <1>2, <1>3, <1>5, <1>7, <1>8, BlockWritten
<1>10. uploading' = Grown(u) /\ resident' = Nothing /\ ran' = Nothing
  BY <1>1 DEF BeginUpload, Grown
<1>11. Grown(u) \in Uploadings /\ Grown(u).blocks \in 1 .. Len(Grown(u).program.code)
  BY <1>2, <1>3 DEF Grown, Uploadings
<1>12. Grown(u) # Nothing
  BY <1>11, NothingWritten
<1>13. Writing'
  BY <1>9, <1>10, <1>11 DEF Writing
<1>14. QED BY <1>9, <1>10, <1>12, <1>13 DEF UploadInv, InMemory, Idle, Ran

LEMMA WriteOnKeeps == ASSUME UploadInv, WriteOn PROVE UploadInv'
<1>1. PICK u : u = uploading
  OBVIOUS
<1>2. /\ u \in Uploadings /\ u.blocks \in 1 .. Len(u.program.code)
      /\ resident = Nothing /\ ran = Nothing
      /\ CrcSoFar(u, datacrc) /\ DetectedSoFar(u, detected_loader, fast_bytes)
      /\ CapturedSoFar(u, capture, captured) /\ datacrc \in Seq(Codes)
  BY <1>1 DEF UploadInv, Writing, WriteOn
<1>3. /\ u.blocks < Len(u.program.code) /\ handle_memwrite(u.program, u.blocks + 1)
      /\ uploading' = [u EXCEPT !.blocks = u.blocks + 1] /\ resident' = resident /\ ran' = ran
  BY <1>1 DEF WriteOn
<1>4. u.program \in Programs /\ Len(u.program.code) \in Nat
  BY <1>2, CodeFacts DEF Uploadings
<1>5. u.blocks + 1 \in 1 .. Len(u.program.code)
  BY <1>2, <1>3, <1>4
<1>6. /\ datacrc' \in Seq(Codes) /\ previous_loader' = "none"
      /\ CrcSoFar(Grown(u), datacrc')
      /\ DetectedSoFar(Grown(u), detected_loader', fast_bytes')
      /\ CapturedSoFar(Grown(u), capture', captured')
  BY <1>2, <1>3, <1>5, BlockWritten
<1>7. uploading' = Grown(u)
  BY <1>2, <1>3 DEF Grown, Uploadings
<1>8. Grown(u) \in Uploadings /\ Grown(u).blocks \in 1 .. Len(Grown(u).program.code)
  BY <1>2, <1>5 DEF Grown, Uploadings
<1>9. Grown(u) # Nothing
  BY <1>8, NothingWritten
<1>10. Writing'
  BY <1>2, <1>3, <1>6, <1>7, <1>8 DEF Writing
<1>11. QED BY <1>2, <1>3, <1>6, <1>7, <1>9, <1>10 DEF UploadInv, InMemory, Idle, Ran

LEMMA UploadedKeeps == ASSUME UploadInv, Uploaded PROVE UploadInv'
<1>1. PICK u : u = uploading
  OBVIOUS
<1>2. /\ u \in Uploadings /\ u.blocks = Len(u.program.code)
      /\ ran = Nothing /\ previous_loader = "none"
      /\ DetectedSoFar(u, detected_loader, fast_bytes)
      /\ CapturedSoFar(u, capture, captured) /\ datacrc \in Seq(Codes)
  BY <1>1 DEF UploadInv, Writing, Uploaded
<1>3. PICK r : r = [program |-> u.program, clean |-> u.clean, started |-> u.program.entries = {}]
  OBVIOUS
<1>4. r \in Residents /\ r.program = u.program /\ r.clean = u.clean /\ (r.started <=> r.program.entries = {})
  BY <1>2, <1>3 DEF Residents, Uploadings
<1>5. /\ resident' = r /\ uploading' = Nothing
      /\ UNCHANGED <<datacrc, detected_loader, previous_loader, fast_bytes, capture, captured, ran>>
  BY <1>1, <1>3 DEF Uploaded, Resident
<1>6. (Detectable(r) <=> Detectable(u)) /\ (Captures(r) <=> Captures(u))
  BY <1>4 DEF Detectable, Captures
<1>7. Detectable(u) => u.blocks >= u.program.detect
  BY <1>2, UploadAssumption DEF Detectable, Known
<1>8. detected_loader = LoaderOf(r)
  BY <1>2, <1>4, <1>6, <1>7 DEF DetectedSoFar, LoaderOf
<1>9. Detectable(r) /\ r.program.rxtx # Nothing => fast_bytes = r.program.rxtx
  BY <1>2, <1>4, <1>6, <1>7 DEF DetectedSoFar
<1>10. capture = Nothing /\ captured = CapturedOf(r)
  <2>1. CASE ~Captures(u)
    BY <1>2, <1>6, <2>1 DEF CapturedSoFar, CapturedOf
  <2>2. CASE Captures(u)
    <3> DEFINE p == u.program
               end == Block * Len(p.code)
    <3>1. p.capture.from \in Nat /\ p.capture.length \in Nat \ {0}
          /\ p.capture.from + p.capture.length <= end
      BY <1>2, <2>2, CapturesFacts
    <3>2. end \in Nat
      <4>1. Len(p.code) \in Nat
        BY <1>2, CodeFacts DEF Uploadings
      <4>2. QED BY <4>1, BlockBounds
    <3> HIDE DEF end
    <3>3. InBlocks(p, u.blocks) >= p.capture.length
      <4>1. InBlocks(p, u.blocks) = end - p.capture.from
        BY <1>2 DEF InBlocks, end
      <4>2. QED BY <3>1, <3>2, <4>1
    <3>4. u.blocks >= p.detect
      BY <1>7, <2>2 DEF Captures
    <3>5. QED BY <1>2, <1>4, <1>6, <2>2, <3>3, <3>4 DEF CapturedSoFar, CapturedUpTo, CapturedOf
  <2>3. QED BY <2>1, <2>2
<1>11. r.started => ~Detectable(r)
  BY <1>4, TablesAssumption DEF Detectable
<1>12. Holds(r, detected_loader, previous_loader, fast_bytes, captured)
  BY <1>2, <1>4, <1>8, <1>9, <1>10, <1>11 DEF Holds, LoaderOf, CapturedOf, Captures
<1>13. QED
  BY <1>2, <1>4, <1>5, <1>10, <1>12, NothingWritten DEF UploadInv, Writing, InMemory, Idle, Ran

LEMMA OpenKeeps == ASSUME UploadInv, OpenFile PROVE UploadInv'
BY DEF UploadInv, Writing, InMemory, Idle, Ran, OpenFile

LEMMA OffKeeps == ASSUME SwitchedOff PROVE UploadInv'
BY DEF UploadInv, Writing, InMemory, Idle, Ran, SwitchedOff

(* What is detected is found where it is started, and only there; its handler *)
(* has the captured bytes the first time, and none after that.               *)
LEMMA HandlerFound ==
  ASSUME NEW r, Detectable(r), NEW address
  PROVE  LET found == Handlers(r.program.type, address)
             h == CHOOSE q \in found : TRUE
         IN /\ found # {} <=> address \in r.program.entries
            /\ found # {} => h.capture = r.program.capture
<1> DEFINE p == r.program
           found == Handlers(p.type, address)
<1>1. p \in Known
  BY DEF Detectable
<1>2. \A q \in found : q \in Known /\ q.type = p.type /\ address \in q.entries
  BY DEF Handlers
<1>3. \A q \in found : q.entries = p.entries /\ q.capture = p.capture
  BY <1>1, <1>2, TablesAssumption
<1>4. address \in p.entries => p \in found
  BY <1>1 DEF Handlers
<1> HIDE DEF found
<1>5. found # {} => (CHOOSE q \in found : TRUE) \in found
  OBVIOUS
<1>6. QED BY <1>2, <1>3, <1>4, <1>5 DEF found

LEMMA ExecuteKeeps == ASSUME UploadInv, NEW address, Execute(address) PROVE UploadInv'
<1> DEFINE type == IF detected_loader = "none" THEN previous_loader ELSE detected_loader
           found == IF type = "none" THEN {} ELSE Handlers(type, address)
           h == CHOOSE q \in found : TRUE
           idle == found # {} /\ h.capture # Nothing /\ captured = Nothing
<1>1. /\ Idle /\ datacrc' = <<>> /\ previous_loader' = type /\ detected_loader' = "none"
      /\ captured' = IF found # {} /\ h.capture # Nothing THEN Nothing ELSE captured
      /\ ran' = IF found = {} \/ idle THEN Nothing
                ELSE [type |-> type, address |-> address, rxtx |-> fast_bytes,
                      bytes |-> IF h.capture = Nothing THEN Nothing ELSE captured]
      /\ UNCHANGED <<fast_bytes, capture, uploading>>
  BY Zenon DEF Execute, run_loader
<1>2. Idle' /\ capture' = Nothing /\ Writing'
  BY <1>1 DEF UploadInv, InMemory, Idle, Writing
<1>3. datacrc' \in Seq(Codes)
  BY <1>1
<1>4. CASE resident = Nothing
  <2>1. type = "none" /\ captured = Nothing /\ resident' = Nothing
    BY <1>1, <1>4 DEF UploadInv, InMemory, Execute
  <2>2. found = {}
    BY <2>1
  <2> HIDE DEF type, found, h, idle
  <2>3. previous_loader' = "none" /\ captured' = Nothing /\ ran' = Nothing
    BY <1>1, <2>1, <2>2
  <2>4. InMemory' /\ Ran'
    BY <1>1, <1>2, <2>1, <2>3 DEF InMemory, Ran
  <2>5. QED BY <1>2, <1>3, <2>4 DEF UploadInv
<1>5. CASE resident # Nothing
  <2>1. PICK r : r = resident
    OBVIOUS
  <2>2. Holds(r, detected_loader, previous_loader, fast_bytes, captured)
    BY <1>1, <1>5, <2>1 DEF UploadInv, InMemory
  <2>3. PICK s : s = [r EXCEPT !.started = r.started \/ address \in r.program.entries]
    OBVIOUS
  <2>4. resident' = s
    BY <1>5, <2>1, <2>3 DEF Execute
  <2>5. /\ s \in Residents /\ s.program = r.program /\ s.clean = r.clean
        /\ s.started <=> r.started \/ address \in r.program.entries
    BY <2>2, <2>3 DEF Holds, Residents
  <2>6. s # Nothing
    BY <2>5, NothingWritten
  <2>7. /\ Detectable(s) <=> Detectable(r)
        /\ LoaderOf(s) = LoaderOf(r) /\ CapturedOf(s) = CapturedOf(r)
    BY <2>5 DEF Detectable, LoaderOf, CapturedOf, Captures
  <2>8. type = LoaderOf(r)
    BY <2>2 DEF Holds
  <2>9. Detectable(r) => r.program.type # "none"
    BY TablesAssumption DEF Detectable
  <2>10. CASE ~Detectable(r)
    <3>1. type = "none" /\ captured = Nothing
      BY <2>2, <2>8, <2>10 DEF LoaderOf, Holds, CapturedOf, Captures
    <3>2. found = {}
      BY <3>1
    <3> HIDE DEF type, found, h, idle
    <3>3. captured' = Nothing /\ ran' = Nothing /\ previous_loader' = LoaderOf(s) /\ CapturedOf(s) = Nothing
      BY <1>1, <2>7, <2>8, <2>10, <3>1, <3>2 DEF CapturedOf, Captures
    <3>4. Holds(s, detected_loader', previous_loader', fast_bytes', captured')
      BY <1>1, <2>5, <2>7, <2>10, <3>3 DEF Holds
    <3>5. InMemory' /\ Ran'
      BY <1>2, <2>4, <2>6, <3>3, <3>4 DEF InMemory, Ran
    <3>6. QED BY <1>2, <1>3, <3>5 DEF UploadInv
  <2>11. CASE Detectable(r)
    <3> DEFINE p == r.program
    <3>1. type = p.type /\ type # "none"
      BY <2>8, <2>9, <2>11 DEF LoaderOf
    <3>2. /\ found # {} <=> address \in p.entries
          /\ found # {} => h.capture = p.capture
      BY <2>11, <3>1, HandlerFound
    <3>3. /\ p.rxtx # Nothing => fast_bytes = p.rxtx
          /\ p \in Known
          /\ ~r.started => captured = CapturedOf(r)
          /\ r.started => captured = Nothing
          /\ p.capture = Nothing => CapturedOf(r) = Nothing
          /\ p.capture # Nothing => CapturedOf(r) = Bytes(p, p.capture.from, p.capture.length)
      BY <2>2, <2>11 DEF Holds, CapturedOf, Captures, Detectable
    <3> HIDE DEF type, found, h
    <3>4. s.started => captured' = Nothing
      BY <1>1, <2>5, <3>2, <3>3
    <3>5. ~s.started => captured' = CapturedOf(s)
      BY <1>1, <2>5, <2>7, <3>2, <3>3
    <3>6. Holds(s, detected_loader', previous_loader', fast_bytes', captured')
      BY <1>1, <2>5, <2>7, <2>8, <2>11, <3>3, <3>4, <3>5 DEF Holds
    <3>7. ASSUME ran' # Nothing PROVE Fits(ran', p)
      <4>1. found # {} /\ ~(h.capture # Nothing /\ captured = Nothing)
        BY <1>1, <3>7
      <4>2. /\ ran'.type = type /\ ran'.address = address /\ ran'.rxtx = fast_bytes
            /\ h.capture # Nothing => ran'.bytes = captured
        <5> HIDE DEF idle
        <5>1. ran' = [type |-> type, address |-> address, rxtx |-> fast_bytes,
                      bytes |-> IF h.capture = Nothing THEN Nothing ELSE captured]
          BY <1>1, <3>7
        <5>2. QED BY <5>1
      <4>3. p.capture # Nothing => captured = Bytes(p, p.capture.from, p.capture.length)
        BY <3>2, <3>3, <4>1
      <4>4. QED BY <3>1, <3>2, <3>3, <4>1, <4>2, <4>3 DEF Fits
    <3>8. InMemory' /\ Ran'
      BY <1>2, <2>4, <2>5, <2>6, <3>6, <3>7 DEF InMemory, Ran
    <3>9. QED BY <1>2, <1>3, <3>8 DEF UploadInv
  <2>12. QED BY <2>10, <2>11
<1>6. QED BY <1>4, <1>5

LEMMA ProgramKeeps == ASSUME UploadInv, ProgramCommand PROVE UploadInv'
<1>1. CASE \E p \in Programs : BeginUpload(p)
  BY <1>1, BeginKeeps
<1>2. CASE WriteOn
  BY <1>2, WriteOnKeeps
<1>3. CASE Uploaded
  BY <1>3, UploadedKeeps
<1>4. CASE OpenFile
  BY <1>4, OpenKeeps
<1>5. CASE MemExec \/ UserExec
  <2>1. PICK address : Execute(address)
    BY <1>5 DEF MemExec, UserExec
  <2>2. QED BY <2>1, ExecuteKeeps
<1>6. CASE \/ IgnoredWrite \/ NotACommand \/ parse_getpartition
           \/ \E a \in Magics \cup {"elsewhere"}, n \in 1 .. 3 :
                handle_memread(a, n, settings.romname) /\ UNCHANGED uploadVars
  BY <1>6, KeptUploads DEF IgnoredWrite, NotACommand, parse_getpartition
<1>7. QED BY <1>1, <1>2, <1>3, <1>4, <1>5, <1>6 DEF ProgramCommand

(* A handler runs only for the program that is in the drive's memory, started *)
(* where that begins, with its functions for the bytes and all the bytes that  *)
(* were to be captured; one that is known is found (doscmd.c 437-485,          *)
(* 1244-1358).                                                             *)
THEOREM UploadedRuns == Spec => []RunsWhatWasUploaded
<1>1. Init => UploadInv
  <2>1. <<>> \in Seq(Codes)
    OBVIOUS
  <2>2. QED BY <2>1 DEF Init, UploadInit, UploadInv, Writing, InMemory, Idle, Ran
<1>2. UploadInv /\ [Next]_vars => UploadInv'
  <2> SUFFICES ASSUME UploadInv, [Next]_vars PROVE UploadInv'
    OBVIOUS
  <2>1. CASE ProgramCommand
    BY <2>1, ProgramKeeps
  <2>2. CASE PowerOn
    BY <2>2, OffKeeps DEF PowerOn
  <2>3. CASE UNCHANGED uploadVars
    BY <2>3, KeptUploads
  <2>4. QED BY <2>1, <2>2, <2>3 DEF Next, vars
<1>3. UploadInv => RunsWhatWasUploaded
  <2> SUFFICES ASSUME UploadInv PROVE RunsWhatWasUploaded
    OBVIOUS
  <2>1. ran # Nothing => resident # Nothing /\ Fits(ran, resident.program)
    BY DEF UploadInv, Ran
  <2>2. ASSUME resident # Nothing, resident.clean, resident.program \in Known
        PROVE  resident.program.type \in {detected_loader, previous_loader}
    <3>1. Holds(resident, detected_loader, previous_loader, fast_bytes, captured)
      BY <2>2 DEF UploadInv, Writing, InMemory
    <3>2. LoaderOf(resident) = resident.program.type
      BY <2>2 DEF LoaderOf, Detectable
    <3>3. QED BY <3>1, <3>2 DEF Holds
  <2>3. QED BY <2>1, <2>2 DEF RunsWhatWasUploaded
<1>4. QED BY <1>1, <1>2, <1>3, PTL DEF Spec

-----------------------------------------------------------------------------
(***************************************************************************)
(* The clocks: what Clock.tla says of the time that is told, for every date, *)
(* time, span and set of clocks within the limits of the model.             *)
(***************************************************************************)
(* What the constants are.                                                   *)
LEMMA ConstantsRight ==
  /\ \A d \in Dates : d.year \in 80 .. 179 /\ d.mon \in 0 .. 11 /\ d.mday \in 1 .. 31
  /\ \A s \in Times : s \in Nat /\ s < 86400
  /\ \A d \in Spans : d \in Nat
BY ClockAssumption, SMT

IsInstant(at) ==
  /\ at = [day |-> at.day, sec |-> at.sec]
  /\ at.day \in Nat /\ at.day < YearStart(180)
  /\ at.sec \in Nat /\ at.sec < 86400

(***************************************************************************)
(* The calendar.                                                            *)
(***************************************************************************)
TableOf(year, leap) ==
  /\ leap \in {0, 1} /\ (Leap(year) <=> leap = 1)
  /\ MonthStart(year, 0) = 0 /\ MonthStart(year, 1) = 31
  /\ MonthStart(year, 2) = 59 + leap /\ MonthStart(year, 3) = 90 + leap
  /\ MonthStart(year, 4) = 120 + leap /\ MonthStart(year, 5) = 151 + leap
  /\ MonthStart(year, 6) = 181 + leap /\ MonthStart(year, 7) = 212 + leap
  /\ MonthStart(year, 8) = 243 + leap /\ MonthStart(year, 9) = 273 + leap
  /\ MonthStart(year, 10) = 304 + leap /\ MonthStart(year, 11) = 334 + leap
  /\ MonthStart(year, 12) = 365 + leap

LEMMA Starts ==
  ASSUME NEW year \in 80 .. 180
  PROVE  \E leap : TableOf(year, leap)
<1>1. CASE Leap(year)
  <2>1. TableOf(year, 1)
    BY <1>1 DEF TableOf, MonthStart, Months
  <2>2. QED BY <2>1
<1>2. CASE ~Leap(year)
  <2>1. TableOf(year, 0)
    BY <1>2 DEF TableOf, MonthStart, Months
  <2>2. QED BY <2>1
<1>3. QED BY <1>1, <1>2

LEMMA LastDay == YearStart(180) = 36525
BY DEF YearStart

(* The year of a day, and the day's place in it.                            *)
LEMMA YearIsFound ==
  ASSUME NEW day \in Nat, day < YearStart(180)
  PROVE  /\ YearOf(day) \in 80 .. 179
         /\ day - YearStart(YearOf(day)) \in 0 .. (IF Leap(YearOf(day)) THEN 365 ELSE 364)
<1> DEFINE q == day \div 1461
           r == day % 1461
           j == IF r < 366 THEN 0 ELSE (r - 1) \div 365
<1>1. q \in 0 .. 24 /\ r \in 0 .. 1460 /\ day = 1461 * q + r
  BY LastDay
<1>2. YearOf(day) = 80 + 4 * q + j
  BY DEF YearOf
<1> HIDE DEF q
<1>3. \/ r < 366 /\ j = 0
      \/ r >= 366 /\ r < 731 /\ j = 1
      \/ r >= 731 /\ r < 1096 /\ j = 2
      \/ r >= 1096 /\ j = 3
  BY <1>1
<1> HIDE DEF r, j
<1>4. j \in 0 .. 3
  BY <1>3
<1>5. YearStart(80 + 4 * q + j) = 1461 * q + (IF j = 0 THEN 0 ELSE 365 * j + 1)
  BY <1>1, <1>4 DEF YearStart
<1>6. Leap(80 + 4 * q + j) <=> j = 0
  BY <1>1, <1>4 DEF Leap
<1> HIDE DEF j
<1>7. day - YearStart(80 + 4 * q + j) = r - (IF j = 0 THEN 0 ELSE 365 * j + 1)
  BY <1>1, <1>5, <1>4
<1>8. 80 + 4 * q + j \in 80 .. 179
  BY <1>1, <1>4
<1>9. QED BY <1>1, <1>2, <1>3, <1>6, <1>7, <1>8

(* The month of a day of the year.                                          *)
InMonth(year, r, m) == MonthStart(year, m) <= r /\ r < MonthStart(year, m + 1)

LEMMA MonthIsFound ==
  ASSUME NEW year \in 80 .. 179,
         NEW r \in 0 .. (IF Leap(year) THEN 365 ELSE 364)
  PROVE  /\ \E m \in 0 .. 11 : InMonth(year, r, m)
         /\ \A m \in 0 .. 11 : InMonth(year, r, m) => r - MonthStart(year, m) \in 0 .. 30
         /\ \A m, n \in 0 .. 11 : InMonth(year, r, m) /\ InMonth(year, r, n) => m = n
<1>1. PICK leap : TableOf(year, leap)
  BY Starts
<1>2. leap \in {0, 1} /\ (Leap(year) <=> leap = 1)
  BY <1>1 DEF TableOf
<1>3. \A m \in 0 .. 11 : m = 0 \/ m = 1 \/ m = 2 \/ m = 3 \/ m = 4 \/ m = 5 \/ m = 6 \/ m = 7 \/ m = 8
                         \/ m = 9 \/ m = 10 \/ m = 11
  OBVIOUS
<1>4. r \in 0 .. 364 + leap
  BY <1>2
<1>5. \E m \in 0 .. 11 : InMonth(year, r, m)
  BY <1>1, <1>2, <1>4 DEF InMonth, TableOf
<1>6. \A m \in 0 .. 11 : InMonth(year, r, m) => r - MonthStart(year, m) \in 0 .. 30
  BY <1>1, <1>2, <1>3, <1>4 DEF InMonth, TableOf
<1>7. \A m, n \in 0 .. 11 : m < n => MonthStart(year, m + 1) <= MonthStart(year, n)
  BY <1>1, <1>2, <1>3 DEF TableOf
<1>8. \A m \in 0 .. 12 : MonthStart(year, m) \in Int
  BY <1>1, <1>2 DEF TableOf
<1>9. \A m, n \in 0 .. 11 : InMonth(year, r, m) /\ InMonth(year, r, n) => ~(m < n)
  BY <1>7, <1>8, <1>4 DEF InMonth
<1>10. QED BY <1>5, <1>6, <1>9

(* A struct tm is what it says, of a date and a time of day.                 *)
Proper(tm) ==
  /\ tm = [year |-> tm.year, mon |-> tm.mon, mday |-> tm.mday,
           hour |-> tm.hour, min |-> tm.min, sec |-> tm.sec, wday |-> tm.wday]
  /\ tm.year \in 80 .. 179 /\ tm.mon \in 0 .. 11 /\ tm.mday \in 1 .. 31
  /\ tm.hour \in 0 .. 23 /\ tm.min \in 0 .. 59 /\ tm.sec \in 0 .. 59 /\ tm.wday \in 0 .. 6

LEMMA TimeOfDay ==
  ASSUME NEW sec \in Nat, sec < 86400
  PROVE  /\ sec \div 3600 \in 0 .. 23 /\ (sec \div 60) % 60 \in 0 .. 59 /\ sec % 60 \in 0 .. 59
         /\ 3600 * (sec \div 3600) + 60 * ((sec \div 60) % 60) + (sec % 60) = sec
<1> DEFINE m == sec \div 60
<1>1. m \in Nat /\ sec % 60 \in 0 .. 59 /\ sec = 60 * m + (sec % 60)
  OBVIOUS
<1>2. sec \div 3600 = m \div 60
  OBVIOUS
<1> HIDE DEF m
<1>3. m < 1440
  BY <1>1
<1>4. m \div 60 \in 0 .. 23 /\ m % 60 \in 0 .. 59 /\ m = 60 * (m \div 60) + (m % 60)
  BY <1>1, <1>3
<1>5. QED BY <1>1, <1>2, <1>4 DEF m

(* An instant and its struct tm say the same.                               *)
LEMMA ThereAndBack ==
  ASSUME NEW at, IsInstant(at), NEW wday \in 0 .. 6
  PROVE  /\ Proper(TmOf(at, wday)) /\ At(TmOf(at, wday)) = at
         /\ TmOf(at, wday).wday = wday
         /\ TmOf(at, wday).year = YearOf(at.day) /\ TmOf(at, wday).sec = at.sec % 60
<1> DEFINE year == YearOf(at.day)
           r == at.day - YearStart(year)
           mon == CHOOSE m \in 0 .. 11 : MonthStart(year, m) <= r /\ r < MonthStart(year, m + 1)
           tm == TmOf(at, wday)
<1>1. /\ at = [day |-> at.day, sec |-> at.sec]
      /\ at.day \in Nat /\ at.day < YearStart(180)
      /\ at.sec \in Nat /\ at.sec < 86400
  BY DEF IsInstant
<1>2. year \in 80 .. 179 /\ r \in 0 .. (IF Leap(year) THEN 365 ELSE 364)
  BY <1>1, YearIsFound
<1>3. tm = [year |-> year, mon |-> mon, mday |-> r - MonthStart(year, mon) + 1, hour |-> at.sec \div 3600,
            min |-> (at.sec \div 60) % 60, sec |-> at.sec % 60, wday |-> wday]
  BY DEF TmOf, Clocked
<1>4. at.day \in Int /\ YearStart(year) \in Int
  BY <1>1, <1>2 DEF YearStart
<1>5. at.day = YearStart(year) + r
  BY <1>4
<1> HIDE DEF year, r
<1>6. mon \in 0 .. 11 /\ InMonth(year, r, mon)
  <2>1. \E m \in 0 .. 11 : MonthStart(year, m) <= r /\ r < MonthStart(year, m + 1)
    BY <1>2, MonthIsFound DEF InMonth
  <2>2. QED BY <2>1 DEF InMonth
<1> HIDE DEF mon
<1>7. r - MonthStart(year, mon) \in 0 .. 30
  BY <1>2, <1>6, MonthIsFound
<1>8. MonthStart(year, mon) \in Int
  BY <1>2, <1>6 DEF MonthStart, Months
<1> HIDE DEF tm
<1>9. r - MonthStart(year, mon) + 1 \in 1 .. 31
  BY <1>2, <1>7, <1>8
<1>10. Proper(tm)
  BY <1>2, <1>3, <1>6, <1>9, <1>1, TimeOfDay DEF Proper
<1>11. DayOf(tm) = at.day
  BY <1>3, <1>5, <1>2, <1>4, <1>8 DEF DayOf
<1>12. SecOf(tm) = at.sec
  BY <1>3, <1>1, TimeOfDay DEF SecOf
<1>13. At(tm) = at
  BY <1>11, <1>12, <1>1 DEF At
<1>14. QED BY <1>10, <1>13, <1>3 DEF tm, year

(* Time that passes.                                                       *)
LEMMA TimePasses ==
  ASSUME NEW at, IsInstant(at), NEW days \in Nat, NEW secs \in {0, 1},
         After(at, days, secs).day < YearStart(180)
  PROVE  /\ IsInstant(After(at, days, secs))
         /\ days = 0 /\ secs = 0 => After(at, days, secs) = at
         /\ secs = 1 => After(at, days, secs).sec % 60 # at.sec % 60
<1> DEFINE s == at.sec + secs
           to == After(at, days, secs)
<1>1. /\ at = [day |-> at.day, sec |-> at.sec]
      /\ at.day \in Nat /\ at.sec \in Nat /\ at.sec < 86400
  BY DEF IsInstant
<1>2. to = [day |-> at.day + days + (s \div 86400), sec |-> s % 86400]
  BY DEF After
<1>3. s \in Nat
  BY <1>1
<1>4. \/ s < 86400 /\ s \div 86400 = 0 /\ s % 86400 = s
      \/ s = 86400 /\ s \div 86400 = 1 /\ s % 86400 = 0
  BY <1>1
<1>5. s \div 86400 \in Nat /\ s % 86400 \in Nat /\ s % 86400 < 86400
  BY <1>3, <1>4
<1>6. secs = 1 => (s % 86400) % 60 # at.sec % 60
  <2>1. CASE s < 86400 /\ s % 86400 = s
    BY <2>1, <1>1
  <2>2. CASE s = 86400 /\ s % 86400 = 0
    BY <2>2, <1>1
  <2>3. QED BY <1>4, <2>1, <2>2
<1>7. days = 0 /\ secs = 0 => s \div 86400 = 0 /\ s % 86400 = at.sec
  BY <1>1, <1>4
<1> HIDE DEF s
<1>8. IsInstant(to)
  BY <1>1, <1>2, <1>5 DEF IsInstant
<1>9. days = 0 /\ secs = 0 => to = at
  BY <1>1, <1>2, <1>7
<1>10. QED BY <1>2, <1>6, <1>8, <1>9

LEMMA DaysOfTheWeek ==
  ASSUME NEW day \in Int, NEW to \in Int
  PROVE  /\ Weekday(day) \in 0 .. 6
         /\ (Weekday(day) + to - day) % 7 = Weekday(to)
BY DEF Weekday

(* The day of the week, found from the date: where the byte wraps, it wraps   *)
(* by 256 days of 7 weeks.                                                  *)
LEMMA Weeks == ASSUME NEW x \in Int, NEW y \in Int, NEW k \in Int, x = y + 7 * k PROVE x % 7 = y % 7
OBVIOUS

LEMMA MonthIsNumber ==
  ASSUME NEW year \in Int, NEW mon \in 0 .. 12
  PROVE  MonthStart(year, mon) \in Int
BY DEF MonthStart, Months

LEMMA WeekdayOfDate ==
  ASSUME NEW tm, Proper(tm), WeekdayFits(tm)
  PROVE  day_of_week(tm.year, tm.mon + 1, tm.mday) = Weekday(DayOf(tm))
<1> DEFINE n == tm.year - 80
           m == tm.mon + 1
           early == m < 3
           y4 == IF early THEN (tm.year + 1900) - 1 ELSE tm.year + 1900
           byte == (tm.mday + (IF early THEN tm.year + 1900 ELSE (tm.year + 1900) - 2)) % 256
           x == DayOf(tm) + 2
           y == (23 * m) \div 9 + byte + 4 + y4 \div 4 - y4 \div 100 + y4 \div 400
<1>1. tm.year \in 80 .. 179 /\ tm.mon \in 0 .. 11 /\ tm.mday \in 1 .. 31 /\ tm.year + 1900 + tm.mday < 2048
  BY DEF Proper, WeekdayFits
<1>2. n \in 0 .. 67 /\ tm.year = 80 + n
  BY <1>1
<1>3. byte = tm.mday + n + (IF early THEN 188 ELSE 186)
  <2> DEFINE sum == tm.mday + (IF early THEN tm.year + 1900 ELSE (tm.year + 1900) - 2)
  <2>1. sum \in 1792 .. 2047 /\ sum = tm.mday + n + (IF early THEN 1980 ELSE 1978)
    <3>1. tm.year \in Int /\ tm.mday \in Int /\ n \in Int
      BY <1>1, <1>2
    <3>2. tm.year >= 80 /\ tm.mday >= 1 /\ tm.year + 1900 + tm.mday < 2048 /\ tm.year = 80 + n
      BY <1>1, <1>2
    <3>3. CASE early
      <4>1. sum = tm.mday + (tm.year + 1900)
        BY <3>3
      <4>2. sum \in 1792 .. 2047 /\ sum = tm.mday + n + 1980
        BY ONLY <3>1, <3>2, <4>1, SMT
      <4>3. QED BY <3>3, <4>2
    <3>4. CASE ~early
      <4>1. sum = tm.mday + ((tm.year + 1900) - 2)
        BY <3>4
      <4>2. sum \in 1792 .. 2047 /\ sum = tm.mday + n + 1978
        BY ONLY <3>1, <3>2, <4>1, SMT
      <4>3. QED BY <3>4, <4>2
    <3>5. QED BY <3>3, <3>4
  <2>2. byte = sum % 256
    OBVIOUS
  <2> HIDE DEF sum, byte
  <2>3. byte = sum - 1792
    BY <2>1, <2>2, SMT
  <2>4. tm.mday \in Int /\ n \in Int
    BY <1>1, <1>2
  <2> HIDE DEF n
  <2>5. CASE early
    <3>1. sum = tm.mday + n + 1980
      BY <2>1, <2>5
    <3>2. byte = tm.mday + n + 188
      BY ONLY <2>3, <2>4, <3>1, SMT
    <3>3. QED BY <2>5, <3>2
  <2>6. CASE ~early
    <3>1. sum = tm.mday + n + 1978
      BY <2>1, <2>6
    <3>2. byte = tm.mday + n + 186
      BY ONLY <2>3, <2>4, <3>1, SMT
    <3>3. QED BY <2>6, <3>2
  <2>7. QED BY <2>5, <2>6
<1>4. y4 \div 400 - y4 \div 100 = -15
  BY <1>1, <1>2
<1>5. PICK leap : TableOf(tm.year, leap)
  BY <1>1, Starts
<1>6. leap = IF n % 4 = 0 THEN 1 ELSE 0
  BY <1>2, <1>5 DEF TableOf, Leap
<1>7. y4 \div 4 = IF early THEN 494 + ((n + 3) \div 4) ELSE 495 + (n \div 4)
  BY <1>1, <1>2
<1>8. (n + 3) \div 4 = (n \div 4) + 1 - leap
  BY <1>2, <1>6
<1>9. DayOf(tm) = 365 * n + ((n + 3) \div 4) + MonthStart(tm.year, tm.mon) + tm.mday - 1
  BY DEF DayOf, YearStart
<1>10. PICK q : q = n \div 4 /\ q \in Int
  BY <1>2
<1>11. leap \in {0, 1}
  BY <1>6
<1>12. day_of_week(tm.year, m, tm.mday) = y % 7
  BY <1>1 DEF day_of_week
<1>13. Weekday(DayOf(tm)) = x % 7
  BY DEF Weekday
<1> DEFINE base == MonthStart(tm.year, tm.mon) - (IF early THEN 0 ELSE leap)
           e == (23 * m) \div 9
<1>14. e \in Int /\ tm.mday \in Int /\ early \in BOOLEAN
  BY <1>1
<1>15. /\ base \in Int
       /\ (base + 2 - e - (IF early THEN 672 ELSE 670)) % 7 = 0
  <2> USE <1>5, <1>11 DEF TableOf
  <2>1. CASE tm.mon \in 0 .. 1   BY <2>1
  <2>2. CASE tm.mon \in 2 .. 5   BY <2>2
  <2>3. CASE tm.mon \in 6 .. 8   BY <2>3
  <2>4. CASE tm.mon \in 9 .. 11  BY <2>4
  <2>5. QED BY ONLY <1>1, <2>1, <2>2, <2>3, <2>4
<1>16. MonthStart(tm.year, tm.mon) = base + (IF early THEN 0 ELSE leap)
  <2>1. MonthStart(tm.year, tm.mon) \in Int
    <3>1. tm.year \in Int /\ tm.mon \in 0 .. 12
      BY <1>1
    <3>2. QED BY ONLY <3>1, MonthIsNumber
  <2>2. QED BY <2>1, <1>11
<1>17. y4 \div 4 = IF early THEN 495 + q - leap ELSE 495 + q
  BY <1>7, <1>8, <1>10, <1>11
<1> DEFINE a == y4 \div 4
           b == y4 \div 100
           c == y4 \div 400
<1>18. a \in Int /\ b \in Int /\ c \in Int /\ y = e + byte + 4 + a - b + c
  BY <1>1
<1>19. a = (IF early THEN 495 + q - leap ELSE 495 + q) /\ c - b = -15
  BY <1>4, <1>17
<1> HIDE DEF a, b, c, e, base, y4, byte
<1>20. y = e + tm.mday + n + q + (IF early THEN 672 - leap ELSE 670)
  <2>1. tm.mday \in Int /\ n \in Int /\ q \in Int /\ e \in Int /\ a \in Int /\ leap \in Int
    BY <1>2, <1>10, <1>11, <1>14, <1>18
  <2> HIDE DEF n, y
  <2>2. CASE early
    <3>1. a = 495 + q - leap /\ byte = tm.mday + n + 188
      BY <1>3, <1>19, <2>2
    <3>2. b \in Int /\ c \in Int /\ c = b - 15
      BY <1>18, <1>19, SMT
    <3>3. y = e + byte + 4 + a - b + c
      BY <1>18
    <3>4. y = e + tm.mday + n + q + (672 - leap)
      BY ONLY <2>1, <3>1, <3>2, <3>3, SMT
    <3>5. QED BY <2>2, <3>4
  <2>3. CASE ~early
    <3>1. a = 495 + q /\ byte = tm.mday + n + 186
      BY <1>3, <1>19, <2>3
    <3>2. b \in Int /\ c \in Int /\ c = b - 15
      BY <1>18, <1>19, SMT
    <3>3. y = e + byte + 4 + a - b + c
      BY <1>18
    <3>4. y = e + tm.mday + n + q + 670
      BY ONLY <2>1, <3>1, <3>2, <3>3, SMT
    <3>5. QED BY <2>3, <3>4
  <2>4. QED BY <2>2, <2>3
<1>21. x = 365 * n + q + 1 - leap + base + (IF early THEN 0 ELSE leap) + tm.mday + 1
  BY <1>2, <1>8, <1>9, <1>10, <1>11, <1>14, <1>15, <1>16
<1>22. PICK k \in Int : base + 2 - e - (IF early THEN 672 ELSE 670) = 7 * k
  <2>1. PICK z \in Int : z = base + 2 - e - (IF early THEN 672 ELSE 670)
    BY <1>14, <1>15
  <2>2. z = 7 * (z \div 7) + (z % 7) /\ z \div 7 \in Int
    OBVIOUS
  <2>3. QED BY <2>1, <2>2, <1>15
<1>23. y \in Int /\ x \in Int /\ n \in Int /\ 52 * n + k \in Int
  BY <1>2, <1>10, <1>11, <1>14, <1>15, <1>20, <1>21
<1> HIDE DEF x, y, n
<1>24. x = y + 7 * (52 * n + k)
  BY <1>10, <1>11, <1>14, <1>15, <1>20, <1>21, <1>22, <1>23
<1>25. x % 7 = y % 7
  BY <1>23, <1>24, Weeks
<1>26. QED BY <1>12, <1>13, <1>25

(***************************************************************************)
(* T-W and T-R: what is sent is what is parsed, what is answered is what is    *)
(* understood, in every form.                                              *)
(***************************************************************************)
LEMMA TwelveHours ==
  ASSUME NEW hour \in 0 .. 23
  PROVE  /\ (Half(hour) % 12) + (IF hour >= 12 THEN 12 ELSE 0) = hour
         /\ (IF Half(hour) = 12 THEN 0 ELSE Half(hour)) + (IF hour >= 12 THEN 12 ELSE 0) = hour
<1>1. hour % 12 = IF hour >= 12 THEN hour - 12 ELSE hour
  OBVIOUS
<1>2. QED BY <1>1 DEF Half

LEMMA TwoDigitYears ==
  ASSUME NEW year \in 80 .. 179
  PROVE  /\ TwoDigits(year) = IF year < 100 THEN year ELSE year - 100
         /\ year \div 100 = IF year < 100 THEN 0 ELSE 1
BY DEF TwoDigits

LEMMA AsSentSoParsed ==
  ASSUME NEW tm, Proper(tm), NEW form \in WriteForms,
         form = "I" => WeekdayFits(tm) /\ tm.wday = Weekday(DayOf(tm))
  PROVE  /\ Parsed(Sent(form, tm)) = tm
         /\ parse_timewrite(Sent(form, tm)) = "ok"
<1> DEFINE c == Sent(form, tm)
           p == Parsed(c)
           year == IF form = "I" THEN c.year - 1900 ELSE c.year
<1>1. /\ tm = [year |-> tm.year, mon |-> tm.mon, mday |-> tm.mday,
               hour |-> tm.hour, min |-> tm.min, sec |-> tm.sec, wday |-> tm.wday]
      /\ tm.year \in 80 .. 179 /\ tm.mon \in 0 .. 11 /\ tm.mday \in 1 .. 31
      /\ tm.hour \in 0 .. 23 /\ tm.min \in 0 .. 59 /\ tm.sec \in 0 .. 59 /\ tm.wday \in 0 .. 6
  BY DEF Proper
<1>2. c = [form |-> form, long |-> TRUE, wday |-> tm.wday,
           year |-> IF form = "I" THEN 1900 + tm.year ELSE TwoDigits(tm.year),
           mon |-> tm.mon + 1, mday |-> tm.mday,
           hour |-> IF form \in {"A24", "I"} THEN tm.hour ELSE Half(tm.hour),
           pm |-> tm.hour >= 12, min |-> tm.min, sec |-> tm.sec]
  BY DEF Sent
<1>3. year = IF form = "I" THEN tm.year ELSE TwoDigits(tm.year)
  BY <1>1, <1>2
<1>4. (IF year < 80 THEN year + 100 ELSE year) = tm.year
  BY <1>1, <1>3, TwoDigitYears
<1>5. (c.mon + 255) % 256 = tm.mon
  BY <1>1, <1>2
<1>6. c.hour = (IF form \in {"A24", "I"} THEN tm.hour ELSE Half(tm.hour)) /\ (c.pm <=> tm.hour >= 12)
  <2>1. c.hour = IF form \in {"A24", "I"} THEN tm.hour ELSE Half(tm.hour)
    BY <1>2
  <2> HIDE DEF c
  <2>2. c.pm = (tm.hour >= 12)
    BY <1>2, Zenon
  <2>3. QED BY <2>1, <2>2, Zenon
<1>7. form \notin {"A24", "I"} => HourOf12(c) = tm.hour
  <2> HIDE DEF c
  <2>1. (IF Half(tm.hour) = 12 THEN 0 ELSE Half(tm.hour)) + (IF tm.hour >= 12 THEN 12 ELSE 0) = tm.hour
    BY <1>1, TwelveHours
  <2>2. QED BY <1>6, <2>1 DEF HourOf12
<1>8. (IF form \in {"A24", "I"} THEN c.hour ELSE HourOf12(c)) = tm.hour
  <2> HIDE DEF c
  <2>1. QED BY <1>6, <1>7
<1>9. (IF form = "I" THEN day_of_week(year, c.mon, c.mday) ELSE c.wday) = tm.wday
  BY <1>2, <1>3, WeekdayOfDate
<1>10. p = [year |-> IF year < 80 THEN year + 100 ELSE year,
            mon  |-> (c.mon + 255) % 256, mday |-> c.mday,
            hour |-> IF c.form \in {"A24", "I"} THEN c.hour ELSE HourOf12(c),
            min  |-> c.min, sec |-> c.sec,
            wday |-> IF c.form = "I" THEN day_of_week(year, c.mon, c.mday) ELSE c.wday]
  BY <1>2 DEF Parsed
<1>11. c.form = form /\ c.long = TRUE /\ c.mday = tm.mday /\ c.min = tm.min /\ c.sec = tm.sec
  BY <1>2
<1> HIDE DEF year, c, p
<1>12. p = tm
  BY <1>1, <1>4, <1>5, <1>8, <1>9, <1>10, <1>11
<1>13. Sensible(p)
  BY <1>1, <1>12 DEF Sensible
<1>14. parse_timewrite(c) = "ok"
  BY <1>11, <1>13 DEF parse_timewrite, p
<1>15. QED BY <1>12, <1>14 DEF p, c

YearIn(form, year) ==
  CASE form \in {"A", "B"} -> IF year < 80 THEN year + 100 ELSE year
    [] form = "D" -> year
    [] form = "I" -> year - 1900

LEMMA AsAnsweredSoUnderstood ==
  ASSUME NEW tm, Proper(tm), NEW form \in ReadForms
  PROVE  Understood(form, parse_timeread(form, tm)) = tm
<1> DEFINE a == parse_timeread(form, tm)
<1>1. /\ tm = [year |-> tm.year, mon |-> tm.mon, mday |-> tm.mday,
               hour |-> tm.hour, min |-> tm.min, sec |-> tm.sec, wday |-> tm.wday]
      /\ tm.year \in 80 .. 179 /\ tm.mon \in 0 .. 11
      /\ tm.hour \in 0 .. 23
  BY DEF Proper
<1> DEFINE year == CASE form \in {"A", "B"} -> TwoDigits(tm.year)
                     [] form = "D" -> tm.year
                     [] form = "I" -> 100 * (19 + tm.year \div 100) + TwoDigits(tm.year)
<1>2. a = [wday |-> tm.wday, mon |-> tm.mon + 1, mday |-> tm.mday, min |-> tm.min, sec |-> tm.sec,
           hour |-> IF form = "I" THEN tm.hour ELSE Half(tm.hour), pm |-> tm.hour >= 12, year |-> year]
  BY DEF parse_timeread
<1>3. YearIn(form, year) = tm.year
  <2>1. CASE form \in {"A", "B"}
    <3>1. year = TwoDigits(tm.year)
      BY <2>1
    <3>2. QED BY <2>1, <3>1, <1>1, TwoDigitYears DEF YearIn
  <2>2. CASE form = "D"
    BY <2>2 DEF YearIn
  <2>3. CASE form = "I"
    <3>1. year = 100 * (19 + tm.year \div 100) + TwoDigits(tm.year)
      BY <2>3
    <3>2. QED BY <2>3, <3>1, <1>1, TwoDigitYears DEF YearIn
  <2>4. QED BY <2>1, <2>2, <2>3 DEF ReadForms
<1>4. (IF form = "I" THEN a.hour ELSE (a.hour % 12) + (IF a.pm THEN 12 ELSE 0)) = tm.hour
  <2> HIDE DEF year
  <2>1. a.hour = (IF form = "I" THEN tm.hour ELSE Half(tm.hour)) /\ (a.pm <=> tm.hour >= 12)
    <3>1. a.hour = IF form = "I" THEN tm.hour ELSE Half(tm.hour)
      BY <1>2
    <3> HIDE DEF a
    <3>2. a.pm = (tm.hour >= 12)
      BY <1>2, Zenon
    <3>3. QED BY <3>1, <3>2, Zenon
  <2>2. (Half(tm.hour) % 12) + (IF tm.hour >= 12 THEN 12 ELSE 0) = tm.hour
    BY <1>1, TwelveHours
  <2> HIDE DEF a
  <2>3. QED BY <2>1, <2>2
<1> HIDE DEF year
<1>5. a.mon - 1 = tm.mon
  BY <1>1, <1>2
<1>6. a.wday = tm.wday /\ a.mday = tm.mday /\ a.min = tm.min /\ a.sec = tm.sec /\ a.year = year
  BY <1>2
<1> DEFINE hour == IF form = "I" THEN a.hour ELSE (a.hour % 12) + (IF a.pm THEN 12 ELSE 0)
<1>7. Understood(form, a) =
        [wday |-> a.wday, mon |-> a.mon - 1, mday |-> a.mday, min |-> a.min, sec |-> a.sec,
         hour |-> hour, year |-> YearIn(form, a.year)]
  BY DEF Understood, YearIn
<1>8. hour = tm.hour
  BY <1>4
<1> HIDE DEF a, hour
<1>9. Understood(form, a) = tm
  BY <1>1, <1>3, <1>5, <1>6, <1>7, <1>8
<1>10. QED BY <1>9 DEF a

(* What is sent by mistake is refused.                                      *)
LEMMA WrongIsRefused ==
  ASSUME NEW tm, Proper(tm),
         NEW wrong \in LET c == Sent("B", tm)
                       IN {[c EXCEPT !.form = "X"], [c EXCEPT !.long = FALSE], [c EXCEPT !.mday = 0],
                           [c EXCEPT !.mon = 0], [c EXCEPT !.hour = 13, !.pm = TRUE], [c EXCEPT !.wday = 7]}
  PROVE  parse_timewrite(wrong) # "ok"
<1> DEFINE c == Sent("B", tm)
<1>1. c = [form |-> "B", long |-> TRUE, wday |-> tm.wday, year |-> TwoDigits(tm.year),
           mon |-> tm.mon + 1, mday |-> tm.mday, hour |-> Half(tm.hour),
           pm |-> tm.hour >= 12, min |-> tm.min, sec |-> tm.sec]
  BY DEF Sent
<1> HIDE DEF c
<1>2. CASE wrong = [c EXCEPT !.form = "X"]
  BY <1>1, <1>2 DEF parse_timewrite, WriteForms
<1>3. CASE wrong = [c EXCEPT !.long = FALSE]
  BY <1>1, <1>3 DEF parse_timewrite
<1>4. CASE wrong = [c EXCEPT !.mday = 0]
  <2>1. wrong.mday = 0
    BY <1>1, <1>4
  <2>2. Parsed(wrong).mday = 0
    BY <2>1 DEF Parsed
  <2>3. QED BY <2>2 DEF parse_timewrite, Sensible
<1>5. CASE wrong = [c EXCEPT !.mon = 0]
  <2>1. wrong.mon = 0
    BY <1>1, <1>5
  <2>2. Parsed(wrong).mon = 255
    BY <2>1 DEF Parsed
  <2>3. QED BY <2>2 DEF parse_timewrite, Sensible
<1>6. CASE wrong = [c EXCEPT !.hour = 13, !.pm = TRUE]
  <2>1. wrong.form = "B" /\ wrong.hour = 13 /\ wrong.pm = TRUE
    BY <1>1, <1>6
  <2>2. Parsed(wrong).hour = 25
    BY <2>1 DEF Parsed, HourOf12
  <2>3. QED BY <2>2 DEF parse_timewrite, Sensible
<1>7. CASE wrong = [c EXCEPT !.wday = 7]
  <2>1. wrong.form = "B" /\ wrong.wday = 7
    BY <1>1, <1>7
  <2>2. Parsed(wrong).wday = 7
    BY <2>1 DEF Parsed
  <2>3. QED BY <2>2 DEF parse_timewrite, Sensible
<1>8. QED BY <1>2, <1>3, <1>4, <1>5, <1>6, <1>7 DEF c

(***************************************************************************)
(* The stamps of files.                                                     *)
(***************************************************************************)
LEMMA FatStamp ==
  ASSUME NEW tm, Proper(tm)
  PROVE  Rounded("fat", StampFat(tm)) = Rounded("fat", tm)
<1> DEFINE s == get_fattime(tm)
           stamp == StampFat(tm)
<1>1. /\ tm = [year |-> tm.year, mon |-> tm.mon, mday |-> tm.mday,
               hour |-> tm.hour, min |-> tm.min, sec |-> tm.sec, wday |-> tm.wday]
      /\ tm.year \in 80 .. 179 /\ tm.mon \in 0 .. 11 /\ tm.sec \in 0 .. 59
  BY DEF Proper
<1>2. s = [year |-> (tm.year - 80) % 128, mon |-> tm.mon + 1, mday |-> tm.mday,
           hour |-> tm.hour, min |-> tm.min, sec |-> tm.sec \div 2]
  BY DEF get_fattime
<1>3. stamp = [tm EXCEPT !.year = 80 + s.year, !.mon = s.mon - 1, !.mday = s.mday, !.hour = s.hour,
                         !.min = s.min, !.sec = 2 * s.sec]
  BY DEF StampFat
<1>4. 80 + ((tm.year - 80) % 128) = tm.year /\ tm.mon + 1 - 1 = tm.mon
  BY <1>1
<1>5. /\ s.year = (tm.year - 80) % 128 /\ s.mon = tm.mon + 1 /\ s.mday = tm.mday /\ s.hour = tm.hour
      /\ s.min = tm.min /\ s.sec = tm.sec \div 2
  BY <1>2
<1> DEFINE year == 80 + s.year
           mon == s.mon - 1
           sec == 2 * s.sec
<1>6. year = tm.year /\ mon = tm.mon /\ sec = 2 * (tm.sec \div 2)
  <2> HIDE DEF s
  <2>1. QED BY <1>1, <1>4, <1>5
<1>7. stamp = [tm EXCEPT !.year = year, !.mon = mon, !.mday = s.mday, !.hour = s.hour,
                       !.min = s.min, !.sec = sec]
  BY <1>3
<1> HIDE DEF s, year, mon, sec
<1>8. stamp = [year |-> tm.year, mon |-> tm.mon, mday |-> tm.mday,
               hour |-> tm.hour, min |-> tm.min, sec |-> 2 * (tm.sec \div 2), wday |-> tm.wday]
  <2>1. tm = [year |-> tm.year, mon |-> tm.mon, mday |-> tm.mday,
              hour |-> tm.hour, min |-> tm.min, sec |-> tm.sec, wday |-> tm.wday]
    BY <1>1
  <2>2. stamp = [year |-> year, mon |-> mon, mday |-> s.mday, hour |-> s.hour, min |-> s.min, sec |-> sec,
                 wday |-> tm.wday]
    BY ONLY <2>1, <1>7, Zenon
  <2>3. QED BY ONLY <2>2, <1>6, <1>5
<1> HIDE DEF stamp
<1>9. PICK half \in Int : half = tm.sec \div 2
  BY <1>1
<1>10. (2 * half) \div 2 = half
  BY <1>9
<1>11. Rounded("fat", stamp) = [year |-> tm.year, mon |-> tm.mon, mday |-> tm.mday,
                                hour |-> tm.hour, min |-> tm.min, sec |-> 2 * half, wday |-> 0]
  BY <1>8, <1>9, <1>10 DEF Rounded
<1>12. Rounded("fat", tm) = [year |-> tm.year, mon |-> tm.mon, mday |-> tm.mday,
                             hour |-> tm.hour, min |-> tm.min, sec |-> 2 * half, wday |-> 0]
  BY <1>1, <1>9 DEF Rounded
<1>13. QED BY <1>11, <1>12 DEF stamp

LEMMA ImageStamp ==
  ASSUME NEW tm, Proper(tm)
  PROVE  Rounded("image", StampImage(tm)) = Rounded("image", tm)
<1> DEFINE s == update_timestamp(tm)
           stamp == StampImage(tm)
<1>1. /\ tm = [year |-> tm.year, mon |-> tm.mon, mday |-> tm.mday,
               hour |-> tm.hour, min |-> tm.min, sec |-> tm.sec, wday |-> tm.wday]
      /\ tm.year \in 80 .. 179 /\ tm.mon \in 0 .. 11 /\ tm.sec \in 0 .. 59
  BY DEF Proper
<1>2. s = [year |-> tm.year % 100, mon |-> tm.mon + 1, mday |-> tm.mday, hour |-> tm.hour, min |-> tm.min]
  BY DEF update_timestamp
<1>3. stamp = [tm EXCEPT !.year = IF s.year < 80 THEN 100 + s.year ELSE s.year, !.mon = s.mon - 1,
                         !.mday = s.mday, !.hour = s.hour, !.min = s.min]
  BY DEF StampImage
<1>4. (IF tm.year % 100 < 80 THEN 100 + (tm.year % 100) ELSE tm.year % 100) = tm.year /\ tm.mon + 1 - 1 = tm.mon
  BY <1>1
<1>5. /\ s.year = tm.year % 100 /\ s.mon = tm.mon + 1 /\ s.mday = tm.mday /\ s.hour = tm.hour /\ s.min = tm.min
  BY <1>2
<1> DEFINE year == IF s.year < 80 THEN 100 + s.year ELSE s.year
           mon == s.mon - 1
<1>6. year = tm.year /\ mon = tm.mon
  <2> HIDE DEF s
  <2>1. QED BY <1>1, <1>4, <1>5
<1>7. stamp = [tm EXCEPT !.year = year, !.mon = mon, !.mday = s.mday, !.hour = s.hour, !.min = s.min]
  BY <1>3
<1> HIDE DEF s, year, mon
<1>8. stamp = tm
  <2>1. tm = [year |-> tm.year, mon |-> tm.mon, mday |-> tm.mday,
              hour |-> tm.hour, min |-> tm.min, sec |-> tm.sec, wday |-> tm.wday]
    BY <1>1
  <2>2. stamp = [year |-> year, mon |-> mon, mday |-> s.mday, hour |-> s.hour, min |-> s.min, sec |-> tm.sec,
                 wday |-> tm.wday]
    BY ONLY <2>1, <1>7, Zenon
  <2>3. stamp = [year |-> tm.year, mon |-> tm.mon, mday |-> tm.mday, hour |-> tm.hour, min |-> tm.min,
                 sec |-> tm.sec, wday |-> tm.wday]
    BY ONLY <2>2, <1>6, <1>5
  <2>4. QED BY ONLY <2>1, <2>3
<1>9. QED BY <1>8

LEMMA DefaultIsProper == Proper(rtc_default_date)
BY DEF Proper, rtc_default_date

LEMMA RoundedAnswer == ASSUME NEW form \in ReadForms, NEW tm PROVE Rounded(form, tm) = tm
BY DEF Rounded, ReadForms

(***************************************************************************)
(* The clocks.  What a clock holds that was set and tells the instant at.    *)
(***************************************************************************)
IsChip(c) ==
  /\ c = [at |-> c.at, wday |-> c.wday, ram |-> c.ram, valid |-> c.valid, runs |-> c.runs]
  /\ c.valid \in BOOLEAN /\ c.runs \in BOOLEAN

Tells(c, at) ==
  /\ c.at = at
  /\ current_rtc # "soft" => c.wday = Weekday(at.day)
  /\ current_rtc = "pcf" => c.ram \in Int /\ YearOf(at.day) + 1900 - c.ram \in 0 .. 3

TmAt(at) == TmOf(at, Weekday(at.day))

(* The software clock's count of days, from February on.                     *)
LEMMA DaysSince1970 ==
  ASSUME NEW tm, tm.year \in 80 .. 179, tm.mon \in 1 .. 11, tm.mday \in 1 .. 31
  PROVE  mktime(tm) - 3652 = DayOf(tm)
<1> DEFINE less == (tm.mon + 1 + 254) % 256
           mon == IF less = 0 THEN 12 ELSE less
           year == tm.year + 1900 - (IF less = 0 THEN 1 ELSE 0)
           n == tm.year - 80
           m == (367 * mon) \div 12
           y4 == year \div 4
           y100 == year \div 100
           y400 == year \div 400
           month == MonthStart(tm.year, tm.mon)
           v == (n + 3) \div 4
<1>1. mktime(tm) = y4 - y100 + y400 + m + tm.mday + year * 365 - 719499
  BY SMT DEF mktime
<1>2. DayOf(tm) = 365 * n + v + month + tm.mday - 1
  BY DEF DayOf, YearStart
<1>3. n \in 0 .. 99 /\ tm.year = 80 + n
  OBVIOUS
<1>4. PICK leap : TableOf(tm.year, leap)
  BY Starts
<1>5. leap = IF n % 4 = 0 THEN 1 ELSE 0
  BY <1>3, <1>4 DEF TableOf, Leap
<1>6. year \in Int /\ y100 \in Int /\ y400 \in Int /\ y100 - y400 = 15 /\ v \in Int
  BY <1>3, SMT
<1> HIDE DEF y100, y400
<1>7. CASE tm.mon = 1
  <2>1. mon = 12 /\ year = 1979 + n
    BY <1>3, <1>7
  <2>2. m = 367 /\ month = 31
    BY <1>4, <1>7, <2>1 DEF TableOf
  <2>3. y4 = 494 + v
    BY <1>3, <2>1, SMT
  <2> HIDE DEF y4, m, month, v, year, n
  <2> QED
    BY <1>1, <1>2, <1>3, <1>6, <2>1, <2>2, <2>3, SMT
<1>8. CASE tm.mon > 1
  <2>1. mon = tm.mon - 1 /\ year = 1980 + n
    BY <1>3, <1>8
  <2>2. m = month - leap - 29 /\ month \in Int
    BY <1>4, <1>5, <1>8, <2>1 DEF TableOf
  <2>3. y4 = 494 + v + leap /\ leap \in Int
    BY <1>3, <1>5, <2>1, SMT
  <2> HIDE DEF y4, m, month, v, year, n
  <2> QED
    BY <1>1, <1>2, <1>3, <1>6, <2>1, <2>2, <2>3, SMT
<1>9. QED BY <1>7, <1>8

Clocks == {"ds", "pcf", "lpc", "soft"}

LEMMA NoneIsNoClock == None \notin Clocks
BY ClockAssumption DEF Clocks

LEMMA SetTells ==
  ASSUME IsInstant(now), NEW c, IsChip(c), current_rtc \in Clocks,
         NEW form \in WriteForms, CanBeSet(form)
  PROVE  LET set_to == set_rtc(c, Parsed(Sent(form, TrueTime)))
         IN IsChip(set_to) /\ Tells(set_to, now) /\ set_to.valid /\ set_to.runs = c.runs
<1> DEFINE tm == TrueTime
           set_to == set_rtc(c, tm)
<1>1. now.day \in Int /\ Weekday(now.day) \in 0 .. 6
  <2>1. now.day \in Int
    BY DEF IsInstant
  <2>2. QED BY <2>1, DaysOfTheWeek
<1>2. Proper(tm) /\ At(tm) = now /\ tm.wday = Weekday(now.day) /\ tm.year = YearOf(now.day)
  BY <1>1, ThereAndBack DEF TrueTime
<1>3. DayOf(tm) = now.day /\ SecOf(tm) = now.sec
  <2>1. At(tm).day = now.day /\ At(tm).sec = now.sec
    BY <1>2
  <2>2. QED BY <2>1 DEF At
<1>4. form = "I" => WeekdayFits(tm) /\ tm.wday = Weekday(DayOf(tm))
  BY <1>2, <1>3 DEF CanBeSet
<1>5. Parsed(Sent(form, tm)) = tm
  BY <1>2, <1>4, AsSentSoParsed
<1>6. tm.year \in 80 .. 179 /\ tm.mon \in 0 .. 11 /\ tm.mday \in 1 .. 31
  BY <1>2 DEF Proper
<1>7. IsChip(set_to) /\ Tells(set_to, now) /\ set_to.valid /\ set_to.runs = c.runs
  <2>1. /\ c = [at |-> c.at, wday |-> c.wday, ram |-> c.ram, valid |-> c.valid, runs |-> c.runs]
        /\ c.runs \in BOOLEAN
    BY DEF IsChip
  <2>2. CASE current_rtc = "ds"
    <3>1. tm.year >= 100
      BY <2>2 DEF CanBeSet
    <3>2. ~(tm.year >= 200) /\ TwoDigits(tm.year) + 100 = tm.year
      BY <1>6, <3>1, TwoDigitYears
    <3>3. [tm EXCEPT !.year = TwoDigits(tm.year) + (IF tm.year >= 200 THEN 200 ELSE 100)] = tm
      BY <1>2, <3>2 DEF Proper
    <3>4. set_to = [c EXCEPT !.at = now, !.wday = tm.wday, !.valid = TRUE]
      BY <2>2, <3>3, <1>2 DEF set_rtc, dsrtc_set
    <3> HIDE DEF set_to
    <3>5. set_to = [at |-> now, wday |-> tm.wday, ram |-> c.ram, valid |-> TRUE, runs |-> c.runs]
      BY <2>1, <3>4
    <3>6. QED BY <2>1, <2>2, <3>5, <1>2 DEF IsChip, Tells
  <2>3. CASE current_rtc = "pcf"
    <3> DEFINE ram == tm.year + 1900
    <3>1. set_to = [c EXCEPT !.at = now, !.wday = tm.wday, !.ram = ram, !.valid = TRUE]
      BY <2>3, <1>2 DEF set_rtc, pcf8583_set
    <3> HIDE DEF set_to, ram
    <3>2. set_to = [at |-> now, wday |-> tm.wday, ram |-> ram, valid |-> TRUE, runs |-> c.runs]
      BY <2>1, <3>1
    <3>3. ram \in Int /\ YearOf(now.day) + 1900 - ram \in 0 .. 3
      BY <1>2, <1>6 DEF ram
    <3>4. QED BY <2>1, <2>3, <3>2, <3>3, <1>2 DEF IsChip, Tells
  <2>4. CASE current_rtc = "lpc"
    <3>1. set_to = [c EXCEPT !.at = now, !.wday = tm.wday, !.valid = TRUE]
      BY <2>4, <1>2 DEF set_rtc, lpcrtc_set
    <3> HIDE DEF set_to
    <3>2. set_to = [at |-> now, wday |-> tm.wday, ram |-> c.ram, valid |-> TRUE, runs |-> c.runs]
      BY <2>1, <3>1
    <3>3. QED BY <2>1, <2>4, <3>2, <1>2 DEF IsChip, Tells
  <2>5. CASE current_rtc = "soft"
    <3>1. tm.mon > 0
      BY <2>5 DEF CanBeSet
    <3>2. mktime(tm) - 3652 = DayOf(tm)
      BY <1>6, <3>1, DaysSince1970
    <3> DEFINE at == [day |-> mktime(tm) - 3652, sec |-> SecOf(tm)]
    <3>3. at = now
      BY <1>3, <3>2 DEF IsInstant
    <3>4. softrtc_set(c, tm) = [c EXCEPT !.at = at, !.valid = TRUE]
      BY DEF softrtc_set
    <3>5. set_to = softrtc_set(c, tm)
      BY <2>5 DEF set_rtc
    <3> HIDE DEF set_to, at
    <3>6. set_to = [c EXCEPT !.at = now, !.valid = TRUE]
      BY ONLY <3>3, <3>4, <3>5
    <3>7. set_to = [at |-> now, wday |-> c.wday, ram |-> c.ram, valid |-> TRUE, runs |-> c.runs]
      BY <2>1, <3>6
    <3>8. QED BY <2>1, <2>5, <3>7 DEF IsChip, Tells
  <2>6. QED BY <2>2, <2>3, <2>4, <2>5 DEF Clocks
<1>8. QED BY <1>5, <1>7

(* gmtime: its months are those of the calendar, but on the 29th of February   *)
(* and after it in the year 2000.                                           *)
SameMonth(year, r, left, m) ==
  /\ InMonth(year, r, m) <=> InMonth(81, left, m)
  /\ InMonth(year, r, m) => left - MonthStart(81, m) = r - MonthStart(year, m)

LEMMA SoftMonths ==
  ASSUME NEW year \in 80 .. 179, NEW r \in 0 .. (IF Leap(year) THEN 365 ELSE 364),
         SoftLeap(year) => r # 59, year = 100 => r < 59,
         NEW left, left = IF SoftLeap(year) /\ r >= 59 THEN r - 1 ELSE r,
         NEW m \in 0 .. 11
  PROVE  SameMonth(year, r, left, m)
<1>1. PICK leap : TableOf(year, leap)
  BY Starts
<1>2. PICK none : TableOf(81, none)
  BY Starts, 81 \in 80 .. 180
<1>3. none = 0
  BY <1>2 DEF TableOf, Leap
<1>4. /\ leap \in {0, 1} /\ (Leap(year) <=> leap = 1)
      /\ SoftLeap(year) => leap = 1
      /\ leap = 1 => SoftLeap(year) \/ year = 100
  BY <1>1 DEF TableOf, Leap, SoftLeap
<1>5. r \in Nat /\ left \in Int
  OBVIOUS
<1>6. m = 0 \/ m = 1 \/ m = 2 \/ m = 3 \/ m = 4 \/ m = 5 \/ m = 6 \/ m = 7 \/ m = 8
      \/ m = 9 \/ m = 10 \/ m = 11
  OBVIOUS
<1>7. CASE leap = 0 /\ left = r
  BY <1>1, <1>2, <1>3, <1>5, <1>6, <1>7 DEF TableOf, InMonth, SameMonth
<1>8. CASE leap = 1 /\ r < 59 /\ left = r
  BY <1>1, <1>2, <1>3, <1>5, <1>6, <1>8 DEF TableOf, InMonth, SameMonth
<1>9. CASE leap = 1 /\ r > 59 /\ left = r - 1
  BY <1>1, <1>2, <1>3, <1>5, <1>6, <1>9 DEF TableOf, InMonth, SameMonth
<1>10. QED BY <1>4, <1>5, <1>7, <1>8, <1>9

LEMMA SoftIsTrue ==
  ASSUME NEW c, IsInstant(c.at), gmtime(c) # None,
         ~(YearOf(c.at.day) = 100 /\ c.at.day >= YearStart(100) + 59)
  PROVE  gmtime(c) = TmAt(c.at)
<1> DEFINE year == YearOf(c.at.day)
           r == c.at.day - YearStart(year)
           left == IF SoftLeap(year) /\ r >= 59 THEN r - 1 ELSE r
           mons == {m \in 0 .. 11 : MonthStart(81, m) <= left /\ left < MonthStart(81, m + 1)}
           mon == CHOOSE m \in mons : TRUE
           tm == TmOf(c.at, (c.at.day + 3652 + 4) % 7)
<1>1. /\ ~(mons = {} \/ (SoftLeap(year) /\ r = 59))
      /\ gmtime(c) = [tm EXCEPT !.year = year, !.mon = mon, !.mday = left - MonthStart(81, mon) + 1]
  BY DEF gmtime
<1>2. c.at.day \in Nat /\ c.at.day < YearStart(180)
  BY DEF IsInstant
<1>3. year \in 80 .. 179 /\ r \in 0 .. (IF Leap(year) THEN 365 ELSE 364)
  BY <1>2, YearIsFound
<1>4. (c.at.day + 3652 + 4) % 7 = Weekday(c.at.day)
  BY <1>2, SMT DEF Weekday
<1>5. tm = TmAt(c.at)
  BY <1>4 DEF TmAt
<1> DEFINE month == CHOOSE m \in 0 .. 11 : InMonth(year, r, m)
<1>6. /\ tm.year = year /\ tm.mon = month /\ tm.mday = r - MonthStart(year, month) + 1
      /\ tm = [year |-> tm.year, mon |-> tm.mon, mday |-> tm.mday,
               hour |-> tm.hour, min |-> tm.min, sec |-> tm.sec, wday |-> tm.wday]
  BY DEF TmOf, InMonth
<1>7. YearStart(100) \in Int /\ YearStart(year) \in Int
  BY <1>3 DEF YearStart
<1>8. year = 100 => r < 59
  BY <1>2, <1>7
<1> HIDE DEF tm, year, r
<1>9. mon \in 0 .. 11 /\ InMonth(81, left, mon)
  BY <1>1 DEF InMonth
<1> HIDE DEF mon, left
<1>10. \A m \in 0 .. 11 : SameMonth(year, r, left, m)
  <2>1. SoftLeap(year) => r # 59
    BY <1>1
  <2>2. left = IF SoftLeap(year) /\ r >= 59 THEN r - 1 ELSE r
    BY DEF left
  <2>3. QED BY ONLY <1>3, <1>8, <2>1, <2>2, SoftMonths
<1>11. InMonth(year, r, mon)
  BY <1>9, <1>10 DEF SameMonth
<1>12. month \in 0 .. 11 /\ InMonth(year, r, month)
  BY <1>9, <1>11
<1>13. month = mon
  BY <1>3, <1>9, <1>11, <1>12, MonthIsFound
<1>14. left - MonthStart(81, mon) = r - MonthStart(year, mon)
  BY <1>9, <1>10, <1>11 DEF SameMonth
<1> DEFINE mday == left - MonthStart(81, mon) + 1
<1>15. mday = tm.mday
  BY <1>6, <1>13, <1>14
<1> HIDE DEF month, mday
<1>16. gmtime(c) = [tm EXCEPT !.year = year, !.mon = mon, !.mday = mday]
  BY <1>1 DEF mday
<1>17. gmtime(c) = [year |-> year, mon |-> mon, mday |-> mday,
                    hour |-> tm.hour, min |-> tm.min, sec |-> tm.sec, wday |-> tm.wday]
  <2>1. tm = [year |-> tm.year, mon |-> tm.mon, mday |-> tm.mday,
               hour |-> tm.hour, min |-> tm.min, sec |-> tm.sec, wday |-> tm.wday]
    BY <1>6
  <2>2. QED BY ONLY <2>1, <1>16, Zenon
<1>18. gmtime(c) = tm
  BY <1>6, <1>13, <1>15, <1>17
<1>19. QED BY <1>5, <1>18

(***************************************************************************)
(* Time passes for a clock that runs.                                       *)
(***************************************************************************)
LEMMA YearsPass ==
  ASSUME NEW day \in Nat, NEW to \in Nat, day <= to
  PROVE  YearOf(day) \in Int /\ YearOf(day) <= YearOf(to) /\ (to <= day + 1 => YearOf(to) <= YearOf(day) + 1)
<1> DEFINE q == day \div 1461
           r == day % 1461
           j == IF r < 366 THEN 0 ELSE (r - 1) \div 365
           p == to \div 1461
           s == to % 1461
           i == IF s < 366 THEN 0 ELSE (s - 1) \div 365
<1>1. q \in Nat /\ r \in 0 .. 1460 /\ day = 1461 * q + r /\ p \in Nat /\ s \in 0 .. 1460 /\ to = 1461 * p + s
  OBVIOUS
<1>2. YearOf(day) = 80 + 4 * q + j /\ YearOf(to) = 80 + 4 * p + i
  BY DEF YearOf
<1> HIDE DEF q, r, p, s
<1>3. j \in 0 .. 3 /\ i \in 0 .. 3
  BY <1>1
<1>4. r <= s => j <= i
  BY <1>1
<1>5. s <= r + 1 => i <= j + 1
  BY <1>1
<1>6. s = 0 => i = 0
  OBVIOUS
<1>7. r = 1460 => j = 3
  OBVIOUS
<1> HIDE DEF i, j
<1>8. (q = p /\ r <= s) \/ q < p
  BY <1>1
<1>9. to <= day + 1 => (q = p /\ s <= r + 1) \/ (p = q + 1 /\ s = 0 /\ r = 1460)
  BY <1>1, <1>8
<1>10. QED BY <1>1, <1>2, <1>3, <1>4, <1>5, <1>6, <1>7, <1>8, <1>9

LEMMA ClockGoesOn ==
  ASSUME NEW at, IsInstant(at), NEW days \in Nat, NEW secs \in {0, 1}, NEW to,
         to = After(at, days, secs), IsInstant(to),
         NEW c, IsChip(c), Tells(c, at), c.runs,
         current_rtc = "pcf" => YearOf(to.day) + 1900 < c.ram + 4
  PROVE  /\ IsChip(Elapsed(c, days, secs)) /\ Tells(Elapsed(c, days, secs), to)
         /\ Elapsed(c, days, secs).runs /\ Elapsed(c, days, secs).valid = c.valid
<1> DEFINE new == Elapsed(c, days, secs)
<1>1. /\ c = [at |-> c.at, wday |-> c.wday, ram |-> c.ram, valid |-> c.valid, runs |-> c.runs]
      /\ c.valid \in BOOLEAN /\ c.runs = TRUE
  BY DEF IsChip
<1>2. c.at = at
  BY DEF Tells
<1> DEFINE wday == (c.wday + to.day - at.day) % 7
<1>3. new = [c EXCEPT !.at = to, !.wday = wday]
  BY <1>2 DEF Elapsed
<1> HIDE DEF new, wday
<1>4. new = [at |-> to, wday |-> wday, ram |-> c.ram, valid |-> c.valid, runs |-> c.runs]
  <2>1. c = [at |-> c.at, wday |-> c.wday, ram |-> c.ram, valid |-> c.valid, runs |-> c.runs]
    BY <1>1
  <2>2. QED BY ONLY <2>1, <1>3, Zenon
<1>5. at.day \in Nat /\ at.sec \in Nat /\ to.day \in Nat /\ to.sec \in Nat
  BY DEF IsInstant
<1>6. at.day <= to.day
  <2>1. to.day = at.day + days + ((at.sec + secs) \div 86400)
    BY SMT DEF After
  <2>2. (at.sec + secs) \div 86400 \in Nat
    BY <1>5, SMT
  <2>3. QED BY <1>5, <2>1, <2>2
<1>7. current_rtc # "soft" => wday = Weekday(to.day)
  <2>1. at.day \in Int /\ to.day \in Int
    BY <1>5
  <2>2. (Weekday(at.day) + to.day - at.day) % 7 = Weekday(to.day)
    BY ONLY <2>1, DaysOfTheWeek
  <2>3. QED BY <2>2 DEF wday, Tells
<1>8. ASSUME current_rtc = "pcf" PROVE new.ram \in Int /\ YearOf(to.day) + 1900 - new.ram \in 0 .. 3
  <2>1. c.ram \in Int /\ YearOf(at.day) + 1900 - c.ram \in 0 .. 3
    BY <1>8 DEF Tells
  <2>2. YearOf(at.day) \in Int /\ YearOf(to.day) \in Int /\ YearOf(at.day) <= YearOf(to.day)
    BY <1>5, <1>6, YearsPass
  <2>3. YearOf(to.day) + 1900 < c.ram + 4
    BY <1>8
  <2>4. new.ram = c.ram
    BY <1>4
  <2>5. QED BY <2>1, <2>2, <2>3, <2>4
<1>9. Tells(new, to)
  BY <1>4, <1>7, <1>8 DEF Tells
<1>10. IsChip(new)
  BY <1>1, <1>4 DEF IsChip
<1>11. QED BY <1>4, <1>9, <1>10 DEF new

(* The year in the PCF8583's RAM, brought up to date.                        *)
LEMMA YearIsRight ==
  ASSUME NEW at, IsInstant(at), NEW c, IsChip(c), Tells(c, at), current_rtc = "pcf"
  PROVE  pcf8583_year(c) = [c EXCEPT !.ram = YearOf(at.day) + 1900]
<1> DEFINE year == YearOf(at.day)
           bits == year % 4
           found == YearNow(c.ram, bits)
<1>1. c.at = at /\ c.ram \in Int /\ year + 1900 - c.ram \in 0 .. 3
  BY DEF Tells
<1>2. year \in 80 .. 179
  BY YearIsFound DEF IsInstant
<1> HIDE DEF year
<1>3. year + 1900 \in c.ram .. c.ram + 3 /\ (year + 1900) % 4 = bits
  BY <1>1, <1>2
<1>4. \A y \in c.ram .. c.ram + 3 : y % 4 = bits => y = year + 1900
  BY <1>1, <1>2, <1>3
<1>5. found = year + 1900
  BY <1>3, <1>4 DEF YearNow
<1>6. pcf8583_year(c) = [c EXCEPT !.ram = found]
  BY <1>1 DEF pcf8583_year, year
<1>7. QED BY <1>5, <1>6 DEF year

(***************************************************************************)
(* What is read.                                                            *)
(***************************************************************************)
LEMMA TmIsProper ==
  ASSUME NEW at, IsInstant(at)
  PROVE  /\ Proper(TmAt(at)) /\ TmAt(at).year = YearOf(at.day) /\ TmAt(at).sec = at.sec % 60
         /\ TmAt(at).wday = Weekday(at.day)
<1>1. at.day \in Int
  BY DEF IsInstant
<1>2. Weekday(at.day) \in 0 .. 6
  BY <1>1, DaysOfTheWeek
<1>3. QED BY <1>2, ThereAndBack DEF TmAt

LEMMA ReadIsTrue ==
  ASSUME NEW at, IsInstant(at), NEW c, IsChip(c), Tells(c, at),
         current_rtc \in Clocks, current_rtc # "soft" => rtc_state = "ok",
         NEW to, NEW new, current_rtc = "lpc" => IsInstant(to) /\ Tells(new, to),
         NEW k \in Nat,
         to = at \/ to.sec % 60 # at.sec % 60,
         k = 0 => to = at,
         current_rtc = "soft" =>
           gmtime(c) # None /\ ~(YearOf(c.at.day) = 100 /\ c.at.day >= YearStart(100) + 59)
  PROVE  read_rtc(c, new, k) \in {TmAt(at), TmAt(to)}
<1>1. c.at = at
  BY DEF Tells
<1>2. CASE current_rtc = "ds"
  <2>1. c.wday = Weekday(at.day)
    BY <1>2 DEF Tells
  <2>2. read_rtc(c, new, k) = dsrtc_read(c)
    BY <1>2, NoneIsNoClock DEF read_rtc, Clocks
  <2>3. QED BY <1>1, <2>1, <2>2 DEF dsrtc_read, TmAt
<1>3. CASE current_rtc = "pcf"
  <2>1. c.wday = Weekday(at.day)
    BY <1>3 DEF Tells
  <2>2. read_rtc(c, new, k) = pcf8583_read(c)
    BY <1>3, NoneIsNoClock DEF read_rtc, Clocks
  <2>3. pcf8583_year(c).ram - 1900 = YearOf(at.day)
    <3>1. pcf8583_year(c) = [c EXCEPT !.ram = YearOf(at.day) + 1900]
      BY <1>3, YearIsRight
    <3>2. pcf8583_year(c).ram = YearOf(at.day) + 1900
      BY <3>1 DEF IsChip
    <3>3. YearOf(at.day) \in Int
      BY YearIsFound DEF IsInstant
    <3>4. QED BY <3>2, <3>3
  <2>4. [TmAt(at) EXCEPT !.year = YearOf(at.day)] = TmAt(at)
    BY TmIsProper DEF Proper
  <2>5. QED BY <1>1, <2>1, <2>2, <2>3, <2>4 DEF pcf8583_read, TmAt
<1>4. CASE current_rtc = "lpc"
  <2>1. c.wday = Weekday(at.day) /\ new.wday = Weekday(to.day) /\ new.at = to /\ IsInstant(to)
    BY <1>4 DEF Tells
  <2>2. read_rtc(c, new, k) = lpcrtc_read(TmAt(at), TmAt(to), k)
    BY <1>1, <1>4, <2>1, NoneIsNoClock DEF read_rtc, TmAt, Clocks
  <2> DEFINE tm == Torn(TmAt(at), TmAt(to), k)
  <2>3. lpcrtc_read(TmAt(at), TmAt(to), k) = IF tm.sec = TmAt(to).sec THEN tm ELSE TmAt(to)
    BY DEF lpcrtc_read
  <2>4. /\ TmAt(at) = [f \in DOMAIN TmAt(at) |-> TmAt(at)[f]]
        /\ TmAt(at).sec = at.sec % 60 /\ "sec" \in DOMAIN TmAt(at) /\ TmAt(to).sec = to.sec % 60
    BY <2>1, TmIsProper DEF Proper
  <2>5. CASE to = at
    <3>1. \A old : Torn(old, old, k) = [f \in DOMAIN old |-> old[f]]
      BY DEF Torn
    <3>2. tm = TmAt(at)
      BY ONLY <2>4, <2>5, <3>1
    <3>3. QED BY <2>2, <2>3, <2>5, <3>2
  <2>6. CASE to # at
    <3>1. 1 \in 1 .. k /\ Registers[1] = "sec"
      BY <2>6 DEF Registers
    <3>2. tm.sec = TmAt(at)["sec"]
      BY <2>4, <3>1 DEF Torn
    <3>3. tm.sec # TmAt(to).sec
      BY <2>4, <2>6, <3>2
    <3>4. QED BY <2>2, <2>3, <3>3
  <2>7. QED BY <2>5, <2>6
<1>5. CASE current_rtc = "soft"
  <2>1. read_rtc(c, new, k) = gmtime(c)
    BY <1>5, NoneIsNoClock DEF read_rtc, Clocks
  <2>2. gmtime(c) = TmAt(at)
    <3>1. IsInstant(c.at) /\ gmtime(c) # None /\ ~(YearOf(c.at.day) = 100 /\ c.at.day >= YearStart(100) + 59)
      BY <1>1, <1>5
    <3>2. QED BY ONLY <1>1, <3>1, SoftIsTrue
  <2>3. QED BY <2>1, <2>2
<1>6. QED BY <1>2, <1>3, <1>4, <1>5 DEF Clocks

(***************************************************************************)
(* The inductive invariant: a clock that was set and did not lose the time    *)
(* tells it, and the drive knows which clocks those are.                     *)
(***************************************************************************)
Works(c) == c.valid /\ (current_rtc = "lpc" => c.runs)

ToldRight(t) ==
  t # None =>
    LET tm == Rounded(t.by, t.tm)
    IN IF t.set
         THEN \E at \in {t.from, t.to} : tm = Rounded(t.by, TmAt(at))
         ELSE current_rtc = "soft" \/ (t.by \in {"fat", "image"} /\ tm = Rounded(t.by, rtc_default_date))

ClockRight(c, at, is_set, state) ==
  /\ IsInstant(at) /\ IsChip(c) /\ is_set \in BOOLEAN
  /\ current_rtc \in Clocks \ {"lpc"} => c.runs
  /\ current_rtc \in Clocks => (is_set => Tells(c, at) /\ c.runs)
  /\ current_rtc \in Clocks \ {"soft"} => (is_set <=> state = "ok") /\ (is_set <=> Works(c))

ClockInv ==
  /\ current_rtc \in Clocks \cup {None}
  /\ ClockRight(chip, now, set, rtc_state)
  /\ ToldRight(told)

LEMMA ToldMeans == ToldRight(told) <=> TimeTold
BY DEF ToldRight, TimeTold, TmAt

LEMMA InvariantNext ==
  ASSUME ClockInv, current_rtc' = current_rtc,
         ClockRight(chip', now', set', rtc_state'), ToldRight(told')
  PROVE  ClockInv'
<1>1. ClockRight(chip, now, set, rtc_state)' <=> ClockRight(chip', now', set', rtc_state')
  BY DEF ClockRight, Tells, Works
<1>2. ToldRight(told)' <=> ToldRight(told')
  BY DEF ToldRight
<1>3. QED BY <1>1, <1>2 DEF ClockInv

LEMMA PickIsClock == Pick \in Clocks \cup {None}
<1>1. CASE "ds" \in Found
  BY <1>1 DEF Pick, Clocks
<1>2. QED BY DEF Pick, Clocks

LEMMA StateIsValidity ==
  ASSUME NEW c, IsChip(c), current_rtc \in Clocks \ {"soft"}
  PROVE  StateOf(c, current_rtc) = "ok" <=> Works(c)
BY NoneIsNoClock DEF StateOf, Clocks, IsChip, Works

(* Between off and on the clock goes on as it was.                          *)
KeptBy(c, d, which) ==
  /\ IsChip(d) /\ (d.valid <=> c.valid)
  /\ which # "pcf" => (d.runs <=> c.runs)
  /\ which = "pcf" => d.runs /\ d.ram \in {c.ram, pcf8583_year(c).ram}
  /\ which # "soft" => d.at = c.at /\ d.wday = c.wday

LEMMA SwitchedOnKeeps ==
  ASSUME NEW c, IsChip(c), NEW which
  PROVE  KeptBy(c, SwitchedOn(c, which), which)
<1> DEFINE on_again == SwitchedOn(c, which)
<1>1. /\ c = [at |-> c.at, wday |-> c.wday, ram |-> c.ram, valid |-> c.valid, runs |-> c.runs]
      /\ c.valid \in BOOLEAN /\ c.runs \in BOOLEAN
  BY DEF IsChip
<1>2. CASE which = "soft"
  <2> DEFINE at == [day |-> YearStart(108) + 214, sec |-> 11925]
  <2>1. on_again = [c EXCEPT !.at = at]
    BY <1>2, SMT DEF SwitchedOn
  <2> HIDE DEF on_again, at
  <2>2. on_again = [at |-> at, wday |-> c.wday, ram |-> c.ram, valid |-> c.valid, runs |-> c.runs]
    BY <1>1, <2>1
  <2>3. KeptBy(c, on_again, which)
    BY <1>1, <1>2, <2>2 DEF KeptBy, IsChip
  <2>4. QED BY <2>3 DEF on_again
<1>3. CASE which = "pcf" /\ ~NeedMux /\ c.valid
  <2> DEFINE ram == YearNow(c.ram, YearOf(c.at.day) % 4)
             d == [c EXCEPT !.ram = ram]
  <2>1. pcf8583_year(c) = d
    BY DEF pcf8583_year
  <2>2. on_again = [pcf8583_year(c) EXCEPT !.runs = TRUE]
    BY <1>3, SMT DEF SwitchedOn
  <2> HIDE DEF ram, on_again
  <2>3. d = [at |-> c.at, wday |-> c.wday, ram |-> ram, valid |-> c.valid, runs |-> c.runs]
    BY <1>1
  <2> HIDE DEF d
  <2>4. on_again = [d EXCEPT !.runs = TRUE]
    BY <2>1, <2>2
  <2>5. on_again = [at |-> c.at, wday |-> c.wday, ram |-> ram, valid |-> c.valid, runs |-> TRUE]
    BY ONLY <2>3, <2>4, Zenon
  <2>6. pcf8583_year(c).ram = ram
    BY <2>1, <2>3
  <2>7. KeptBy(c, on_again, which)
    BY <1>1, <1>3, <2>5, <2>6 DEF KeptBy, IsChip
  <2>8. QED BY <2>7 DEF on_again
<1>4. CASE which = "pcf" /\ ~(~NeedMux /\ c.valid)
  <2>1. on_again = [c EXCEPT !.runs = TRUE]
    BY <1>4, SMT DEF SwitchedOn
  <2> HIDE DEF on_again
  <2>2. on_again = [at |-> c.at, wday |-> c.wday, ram |-> c.ram, valid |-> c.valid, runs |-> TRUE]
    BY <1>1, <2>1
  <2>3. KeptBy(c, on_again, which)
    BY <1>1, <1>4, <2>2 DEF KeptBy, IsChip
  <2>4. QED BY <2>3 DEF on_again
<1>5. CASE which \notin {"soft", "pcf"}
  <2>1. on_again = c
    BY <1>5, SMT DEF SwitchedOn
  <2>2. QED BY ONLY <1>1, <1>5, <2>1 DEF KeptBy, IsChip
<1>6. QED BY <1>2, <1>3, <1>4, <1>5

(***************************************************************************)
(* The steps.                                                               *)
(***************************************************************************)
LEMMA ElapsedKeeps ==
  ASSUME NEW c, IsChip(c), NEW days, NEW secs
  PROVE  /\ IsChip(Elapsed(c, days, secs))
         /\ (Elapsed(c, days, secs).valid <=> c.valid) /\ (Elapsed(c, days, secs).runs <=> c.runs)
<1> DEFINE to == After(c.at, days, secs)
           wday == (c.wday + to.day - c.at.day) % 7
           new == Elapsed(c, days, secs)
<1>1. /\ c = [at |-> c.at, wday |-> c.wday, ram |-> c.ram, valid |-> c.valid, runs |-> c.runs]
      /\ c.valid \in BOOLEAN /\ c.runs \in BOOLEAN
  BY DEF IsChip
<1>2. new = IF c.runs THEN [c EXCEPT !.at = to, !.wday = wday] ELSE c
  BY DEF Elapsed
<1> HIDE DEF to, wday, new
<1>3. CASE c.runs
  <2>1. new = [c EXCEPT !.at = to, !.wday = wday]
    BY <1>2, <1>3
  <2>2. c = [at |-> c.at, wday |-> c.wday, ram |-> c.ram, valid |-> c.valid, runs |-> c.runs]
    BY <1>1
  <2>3. new = [at |-> to, wday |-> wday, ram |-> c.ram, valid |-> c.valid, runs |-> c.runs]
    BY ONLY <2>1, <2>2, Zenon
  <2>4. IsChip(new) /\ (new.valid <=> c.valid) /\ (new.runs <=> c.runs)
    BY <1>1, <2>3 DEF IsChip
  <2>5. QED BY <2>4 DEF new
<1>4. CASE ~c.runs
  <2>1. new = c
    BY <1>2, <1>4
  <2>2. QED BY <2>1 DEF new
<1>5. QED BY <1>3, <1>4

LEMMA PassKeeps ==
  ASSUME ClockInv, NEW days \in Nat, NEW secs \in {0, 1}, Pass(days, secs)
  PROVE  ClockInv'
<1>1. /\ IsInstant(now) /\ IsChip(chip) /\ set \in BOOLEAN /\ ToldRight(told)
      /\ current_rtc \in Clocks \ {"lpc"} => chip.runs
      /\ current_rtc \in Clocks => (set => Tells(chip, now) /\ chip.runs)
      /\ current_rtc \in Clocks \ {"soft"} => (set <=> rtc_state = "ok") /\ (set <=> Works(chip))
  BY DEF ClockInv, ClockRight
<1>2. /\ now' = After(now, days, secs) /\ now'.day < YearStart(180)
      /\ current_rtc = "pcf" /\ chip.valid => YearOf(now'.day) + 1900 < chip.ram + 4
      /\ chip' = Elapsed(chip, days, secs)
      /\ rtc_state' = rtc_state /\ set' = set /\ told' = told /\ current_rtc' = current_rtc
  BY DEF Pass, BoardKept
<1>3. IsInstant(now')
  <2>1. After(now, days, secs).day < YearStart(180)
    BY <1>2
  <2>2. IsInstant(After(now, days, secs))
    BY <1>1, <2>1, TimePasses
  <2>3. QED BY <1>2, <2>2
<1>4. IsChip(chip') /\ (chip'.valid <=> chip.valid) /\ (chip'.runs <=> chip.runs)
  BY <1>1, <1>2, ElapsedKeeps
<1>5. Works(chip') <=> Works(chip)
  BY <1>4 DEF Works
<1>6. ASSUME current_rtc \in Clocks, set PROVE Tells(chip', now')
  <2>1. current_rtc = "pcf" => YearOf(now'.day) + 1900 < chip.ram + 4
    BY <1>1, <1>2, <1>6 DEF Works, Clocks
  <2>2. Tells(chip, now) /\ chip.runs
    BY <1>1, <1>6
  <2>3. Tells(Elapsed(chip, days, secs), now')
    BY <1>1, <1>2, <1>3, <2>1, <2>2, ClockGoesOn
  <2>4. QED BY <1>2, <2>3
<1>7. ClockRight(chip', now', set', rtc_state')
  BY <1>1, <1>2, <1>3, <1>4, <1>5, <1>6 DEF ClockRight
<1>8. QED BY <1>1, <1>2, <1>7, InvariantNext

(* A clock that is set.                                                     *)
LEMMA RunsFromNow ==
  ASSUME NEW c, IsChip(c), NEW at, Tells(c, at), NEW goes \in BOOLEAN, NEW valid \in BOOLEAN
  PROVE  /\ IsChip([c EXCEPT !.runs = goes]) /\ Tells([c EXCEPT !.runs = goes], at)
         /\ [c EXCEPT !.runs = goes].runs = goes /\ ([c EXCEPT !.runs = goes].valid <=> c.valid)
         /\ IsChip([c EXCEPT !.valid = valid]) /\ Tells([c EXCEPT !.valid = valid], at)
         /\ [c EXCEPT !.valid = valid].valid = valid /\ ([c EXCEPT !.valid = valid].runs <=> c.runs)
<1>1. /\ c = [at |-> c.at, wday |-> c.wday, ram |-> c.ram, valid |-> c.valid, runs |-> c.runs]
      /\ c.valid \in BOOLEAN /\ c.runs \in BOOLEAN
  BY DEF IsChip
<1> DEFINE d == [c EXCEPT !.runs = goes]
           e == [c EXCEPT !.valid = valid]
<1>2. /\ d = [at |-> c.at, wday |-> c.wday, ram |-> c.ram, valid |-> c.valid, runs |-> goes]
      /\ e = [at |-> c.at, wday |-> c.wday, ram |-> c.ram, valid |-> valid, runs |-> c.runs]
  BY <1>1
<1> HIDE DEF d, e
<1>3. IsChip(d) /\ IsChip(e)
  BY <1>1, <1>2 DEF IsChip
<1>4. Tells(d, at) /\ Tells(e, at)
  BY <1>2 DEF Tells
<1>5. d.runs = goes /\ (d.valid <=> c.valid) /\ e.valid = valid /\ (e.runs <=> c.runs)
  BY <1>1, <1>2
<1>6. QED BY <1>3, <1>4, <1>5 DEF d, e

LEMMA NothingChanges ==
  ASSUME ClockInv, UNCHANGED <<now, chip, rtc_state, set, current_rtc>>, told' \in {told, None}
  PROVE  ClockInv'
<1>1. ToldRight(told')
  BY DEF ClockInv, ToldRight
<1>2. QED BY <1>1, InvariantNext DEF ClockInv

LEMMA SetKeeps ==
  ASSUME ClockInv, NEW form \in WriteForms, SetTime(form)
  PROVE  ClockInv'
<1> DEFINE c == Sent(form, TrueTime)
           s == set_rtc(chip, Parsed(c))
<1>1. current_rtc \in Clocks /\ IsInstant(now) /\ IsChip(chip) /\ CanBeSet(form) /\ TimeWrite(c)
  BY DEF ClockInv, ClockRight, SetTime
<1>2. CASE parse_timewrite(c) = "ok" /\ rtc_state # "not_found"
  <2>1. /\ chip' = [s EXCEPT !.runs = TRUE] /\ rtc_state' = "ok" /\ set' = TRUE
        /\ now' = now /\ told' = told /\ current_rtc' = current_rtc
    BY <1>1, <1>2 DEF TimeWrite, BoardKept
  <2>2. IsChip(s) /\ Tells(s, now) /\ s.valid
    BY <1>1, SetTells
  <2> HIDE DEF s
  <2>3. IsChip(chip') /\ Tells(chip', now') /\ chip'.runs /\ chip'.valid
    <3>1. IsChip([s EXCEPT !.runs = TRUE]) /\ Tells([s EXCEPT !.runs = TRUE], now)
          /\ [s EXCEPT !.runs = TRUE].runs = TRUE /\ ([s EXCEPT !.runs = TRUE].valid <=> s.valid)
      BY <2>2, RunsFromNow
    <3>2. QED BY <2>1, <2>2, <3>1
  <2>4. ClockRight(chip', now', set', rtc_state')
    BY <1>1, <2>1, <2>3 DEF ClockRight, Works
  <2>5. QED BY <2>1, <2>4, InvariantNext DEF ClockInv
<1>3. CASE ~(parse_timewrite(c) = "ok" /\ rtc_state # "not_found")
  <2>1. UNCHANGED <<now, chip, rtc_state, current_rtc>> /\ told' = told /\ set' = (set \/ FALSE)
    BY <1>1, <1>3 DEF TimeWrite, BoardKept
  <2>2. set' = set
    BY <2>1 DEF ClockInv, ClockRight
  <2>3. QED BY <2>1, <2>2, NothingChanges
<1>4. QED BY <1>2, <1>3

LEMMA WrongKeeps ==
  ASSUME ClockInv, SetWrong
  PROVE  ClockInv'
<1>1. IsInstant(now) /\ set \in BOOLEAN
  BY DEF ClockInv, ClockRight
<1>2. Proper(TrueTime)
  BY <1>1, TmIsProper DEF TrueTime, TmAt
<1>3. PICK wrong : TimeWrite(wrong) /\ parse_timewrite(wrong) # "ok"
  BY <1>2, WrongIsRefused DEF SetWrong
<1>4. UNCHANGED <<now, chip, rtc_state, current_rtc>> /\ told' = told /\ set' = (set \/ FALSE)
  BY <1>3 DEF TimeWrite, BoardKept
<1>5. QED BY <1>1, <1>4, NothingChanges

LEMMA CutKeeps ==
  ASSUME ClockInv, CutSet
  PROVE  ClockInv'
<1> DEFINE s == set_rtc(chip, Parsed(Sent("B", TrueTime)))
           c == [s EXCEPT !.valid = chip.valid]
<1>1. /\ current_rtc \in {"ds", "lpc"} /\ IsInstant(now) /\ IsChip(chip) /\ CanBeSet("B")
      /\ current_rtc = "ds" => chip.runs
  BY DEF ClockInv, ClockRight, CutSet, Clocks
<1>2. /\ chip' \in IF current_rtc = "ds" THEN {c} ELSE {[c EXCEPT !.runs = FALSE], [c EXCEPT !.runs = TRUE]}
      /\ rtc_state' = StateOf(chip', current_rtc) /\ set' = (rtc_state' = "ok")
      /\ now' = now /\ told' = told /\ current_rtc' = current_rtc
  BY DEF CutSet, BoardKept
<1>3. IsChip(s) /\ Tells(s, now) /\ (s.runs <=> chip.runs)
  BY <1>1, SetTells DEF Clocks, WriteForms
<1>4. chip.valid \in BOOLEAN
  BY <1>1 DEF IsChip
<1> HIDE DEF s
<1>5. IsChip(c) /\ Tells(c, now) /\ (c.runs <=> chip.runs)
  BY <1>3, <1>4, RunsFromNow
<1> HIDE DEF c
<1>6. IsChip(chip') /\ Tells(chip', now) /\ (current_rtc = "ds" => chip'.runs)
  <2>1. CASE current_rtc = "ds"
    BY <1>1, <1>2, <1>5, <2>1
  <2>2. CASE current_rtc = "lpc"
    <3>1. PICK goes \in BOOLEAN : chip' = [c EXCEPT !.runs = goes]
      BY <1>2, <2>2
    <3>2. IsChip([c EXCEPT !.runs = goes]) /\ Tells([c EXCEPT !.runs = goes], now)
      BY <1>5, RunsFromNow
    <3>3. QED BY <2>2, <3>1, <3>2
  <2>3. QED BY <1>1, <2>1, <2>2
<1>7. set' <=> Works(chip')
  BY <1>1, <1>2, <1>6, StateIsValidity DEF Clocks
<1>8. ClockRight(chip', now', set', rtc_state')
  BY <1>1, <1>2, <1>6, <1>7 DEF ClockRight, Works, Clocks
<1>9. QED BY <1>2, <1>8, InvariantNext DEF ClockInv

(* Reading a PCF8583 brings its year up to date.                             *)
LEMMA YearBroughtUp ==
  ASSUME NEW at, IsInstant(at), NEW c, IsChip(c), Tells(c, at), current_rtc = "pcf"
  PROVE  LET d == pcf8583_year(c)
         IN /\ d = [at |-> at, wday |-> c.wday, ram |-> YearOf(at.day) + 1900, valid |-> c.valid, runs |-> c.runs]
            /\ IsChip(d) /\ Tells(d, at) /\ (d.valid <=> c.valid) /\ (d.runs <=> c.runs)
<1> DEFINE year == YearOf(at.day)
           ram == year + 1900
           d == pcf8583_year(c)
<1>1. /\ c = [at |-> c.at, wday |-> c.wday, ram |-> c.ram, valid |-> c.valid, runs |-> c.runs]
      /\ c.valid \in BOOLEAN /\ c.runs \in BOOLEAN /\ c.at = at /\ c.wday = Weekday(at.day)
  BY DEF IsChip, Tells
<1>2. d = [c EXCEPT !.ram = ram]
  BY YearIsRight
<1>3. year \in 80 .. 179
  BY YearIsFound DEF IsInstant
<1>4. ram \in Int /\ year + 1900 - ram \in 0 .. 3
  BY <1>3
<1> HIDE DEF ram, d
<1>5. d = [at |-> at, wday |-> c.wday, ram |-> ram, valid |-> c.valid, runs |-> c.runs]
  BY <1>1, <1>2
<1>6. IsChip(d) /\ Tells(d, at) /\ (d.valid <=> c.valid) /\ (d.runs <=> c.runs)
  BY <1>1, <1>4, <1>5 DEF IsChip, Tells
<1>7. QED BY <1>5, <1>6 DEF d, ram

(* The instant at which a reading ends: at once, or a second later.           *)
LEMMA ReadingEnds ==
  ASSUME NEW at, IsInstant(at), NEW secs \in {0, 1}, secs = 1 => After(at, 0, 1).day < YearStart(180)
  PROVE  /\ IsInstant(After(at, 0, secs)) /\ (secs = 0 => After(at, 0, secs) = at)
         /\ secs = 1 => After(at, 0, secs).sec % 60 # at.sec % 60
         /\ YearOf(at.day) \in Int /\ YearOf(After(at, 0, secs).day) \in Int
         /\ YearOf(After(at, 0, secs).day) <= YearOf(at.day) + 1
<1>1. /\ at = [day |-> at.day, sec |-> at.sec]
      /\ at.day \in Nat /\ at.day < YearStart(180)
      /\ at.sec \in Nat /\ at.sec < 86400
  BY DEF IsInstant
<1> DEFINE to == After(at, 0, secs)
           more == (at.sec + secs) \div 86400
<1>2. to.day = at.day + 0 + more
  BY SMT DEF After
<1>3. more \in {0, 1} /\ (secs = 0 => more = 0)
  BY <1>1, SMT
<1> HIDE DEF more
<1>4. at.day <= to.day /\ to.day <= at.day + 1 /\ to.day \in Nat /\ (secs = 0 => to.day = at.day)
  BY <1>1, <1>2, <1>3
<1>5. to.day < YearStart(180)
  BY <1>1, <1>4
<1>6. IsInstant(to) /\ (secs = 0 => to = at) /\ (secs = 1 => to.sec % 60 # at.sec % 60)
  BY <1>5, TimePasses
<1>7. YearOf(at.day) \in Int /\ YearOf(to.day) \in Int /\ YearOf(to.day) <= YearOf(at.day) + 1
  BY <1>1, <1>4, YearsPass
<1>8. QED BY <1>6, <1>7

(* The clock after it was read.                                             *)
LEMMA ReadingKeeps ==
  ASSUME ClockRight(chip, now, set, rtc_state), current_rtc \in Clocks,
         NEW secs \in {0, 1}, secs = 1 => After(now, 0, 1).day < YearStart(180),
         NEW new, new = IF secs = 0 THEN chip ELSE Elapsed(chip, 0, 1),
         current_rtc = "pcf" => set,
         NEW c, c = IF current_rtc = "pcf" THEN [new EXCEPT !.ram = pcf8583_year(chip).ram] ELSE new
  PROVE  /\ ClockRight(c, After(now, 0, secs), set, rtc_state)
         /\ set /\ current_rtc # "pcf" => Tells(new, After(now, 0, secs))
<1> DEFINE to == After(now, 0, secs)
<1>1. /\ IsInstant(now) /\ IsChip(chip) /\ set \in BOOLEAN
      /\ current_rtc \in Clocks \ {"lpc"} => chip.runs
      /\ set => Tells(chip, now) /\ chip.runs
      /\ current_rtc \in Clocks \ {"soft"} => (set <=> rtc_state = "ok") /\ (set <=> Works(chip))
  BY DEF ClockRight
<1>2. /\ IsInstant(to) /\ (secs = 0 => to = now)
      /\ YearOf(now.day) \in Int /\ YearOf(to.day) \in Int /\ YearOf(to.day) <= YearOf(now.day) + 1
  BY <1>1, ReadingEnds
<1>3. IsChip(new) /\ (new.valid <=> chip.valid) /\ (new.runs <=> chip.runs)
  BY <1>1, ElapsedKeeps
<1>4. CASE current_rtc # "pcf"
  <2>1. ASSUME set PROVE Tells(new, to)
    <3>1. CASE secs = 0
      BY <1>1, <1>2, <2>1, <3>1
    <3>2. CASE secs = 1
      <4>1. Tells(chip, now) /\ chip.runs /\ to = After(now, 0, 1)
        BY <1>1, <2>1, <3>2
      <4>2. Tells(Elapsed(chip, 0, 1), to)
        BY ONLY <1>1, <1>2, <1>4, <4>1, ClockGoesOn
      <4>3. QED BY <3>2, <4>2
    <3>3. QED BY <3>1, <3>2
  <2>2. c = new
    BY <1>4
  <2>3. Works(c) <=> Works(chip)
    BY <1>3, <2>2 DEF Works
  <2>4. ClockRight(c, to, set, rtc_state)
    BY <1>1, <1>2, <1>3, <2>1, <2>2, <2>3 DEF ClockRight
  <2>5. QED BY <2>1, <2>4
<1>5. CASE current_rtc = "pcf"
  <2> DEFINE d == pcf8583_year(chip)
             ram == YearOf(now.day) + 1900
  <2>1. Tells(chip, now) /\ chip.runs
    BY <1>1, <1>5
  <2>2. /\ d = [at |-> now, wday |-> chip.wday, ram |-> ram, valid |-> chip.valid, runs |-> chip.runs]
        /\ IsChip(d) /\ Tells(d, now) /\ (d.valid <=> chip.valid) /\ (d.runs <=> chip.runs)
    BY <1>1, <1>5, <2>1, YearBroughtUp
  <2> HIDE DEF d, ram
  <2>3. chip = [at |-> now, wday |-> chip.wday, ram |-> chip.ram, valid |-> chip.valid, runs |-> chip.runs]
    BY <1>1, <2>1 DEF IsChip, Tells
  <2>4. c = [new EXCEPT !.ram = ram]
    BY <1>5, <2>2 DEF d
  <2>5. CASE secs = 0
    <3>1. c = [chip EXCEPT !.ram = ram]
      BY <2>4, <2>5
    <3>2. c = [at |-> now, wday |-> chip.wday, ram |-> ram, valid |-> chip.valid, runs |-> chip.runs]
      <4>1. chip.valid \in BOOLEAN /\ chip.runs \in BOOLEAN
        BY <1>1 DEF IsChip
      <4>2. QED BY ONLY <2>3, <3>1, <4>1
    <3>3. c = d
      BY <2>2, <3>2
    <3>4. Works(c) <=> Works(chip)
      BY <2>2, <3>3 DEF Works
    <3>5. QED BY <1>1, <1>2, <1>5, <2>1, <2>2, <2>5, <3>3, <3>4 DEF ClockRight
  <2>6. CASE secs = 1
    <3> DEFINE wday == (chip.wday + to.day - now.day) % 7
    <3>1. new = [chip EXCEPT !.at = to, !.wday = wday]
      <4>1. chip.at = now
        BY <2>3
      <4>2. QED BY <2>1, <2>6, <4>1 DEF Elapsed
    <3>2. Elapsed(d, 0, 1) = [d EXCEPT !.at = to, !.wday = wday]
      <4>1. d.at = now /\ d.wday = chip.wday /\ d.runs
        BY <2>1, <2>2
      <4>2. QED BY <2>6, <4>1 DEF Elapsed
    <3> HIDE DEF wday, to
    <3>3. new = [at |-> to, wday |-> wday, ram |-> chip.ram, valid |-> chip.valid, runs |-> chip.runs]
      BY ONLY <2>3, <3>1, Zenon
    <3>4. c = [at |-> to, wday |-> wday, ram |-> ram, valid |-> chip.valid, runs |-> chip.runs]
      BY ONLY <2>4, <3>3, Zenon
    <3>5. Elapsed(d, 0, 1) = [at |-> to, wday |-> wday, ram |-> ram, valid |-> chip.valid, runs |-> chip.runs]
      BY ONLY <2>2, <3>2, Zenon
    <3>6. c = Elapsed(d, 0, 1)
      BY <3>4, <3>5
    <3>7. d.ram = ram /\ YearOf(to.day) + 1900 < d.ram + 4
      BY <1>2, <2>2 DEF ram
    <3>8. to = After(now, 0, 1) /\ d.runs
      BY <2>1, <2>2, <2>6 DEF to
    <3>9. IsChip(c) /\ Tells(c, to) /\ c.runs /\ c.valid = d.valid
      BY ONLY <1>1, <1>2, <2>2, <3>6, <3>7, <3>8, ClockGoesOn
    <3>10. Works(c) <=> Works(chip)
      BY <1>5, <2>2, <3>9 DEF Works
    <3>11. QED BY <1>1, <1>2, <1>5, <3>9, <3>10 DEF ClockRight, to
  <2>7. QED BY <2>5, <2>6
<1>6. QED BY <1>4, <1>5

(* T-R.                                                                     *)
LEMMA ReadKeeps ==
  ASSUME ClockInv, NEW form \in ReadForms \cup {"X"}, NEW k \in Nat, TimeRead(form, k)
  PROVE  ClockInv'
<1> DEFINE secs == IF k = 0 THEN 0 ELSE 1
           new == IF k = 0 THEN chip ELSE Elapsed(chip, 0, 1)
           tm == read_rtc(chip, new, k)
           to == After(now, 0, secs)
           c == IF current_rtc = "pcf" THEN [new EXCEPT !.ram = pcf8583_year(chip).ram] ELSE new
<1>1. /\ k > 0 => After(now, 0, 1).day < YearStart(180)
      /\ CanBeRead /\ (current_rtc = None => rtc_state # "ok")
      /\ rtc_state' = rtc_state /\ set' = set /\ current_rtc' = current_rtc
  BY DEF TimeRead, BoardKept
<1>2. CASE ~(rtc_state = "ok" /\ form \in ReadForms)
  <2>1. told' = None /\ now' = now /\ chip' = chip
    BY <1>2 DEF TimeRead
  <2>2. QED BY <1>1, <2>1, NothingChanges
<1>3. CASE rtc_state = "ok" /\ form \in ReadForms
  <2>1. /\ now' = to /\ chip' = c
        /\ told' = Told(form, Understood(form, parse_timeread(form, tm)), now, to)
    BY <1>3 DEF TimeRead
  <2>2. current_rtc \in Clocks /\ ClockRight(chip, now, set, rtc_state)
    BY <1>1, <1>3 DEF ClockInv
  <2>3. current_rtc # "soft" => set
    BY <1>3, <2>2 DEF ClockRight
  <2>4. secs \in {0, 1} /\ (secs = 1 => After(now, 0, 1).day < YearStart(180))
        /\ new = (IF secs = 0 THEN chip ELSE Elapsed(chip, 0, 1))
        /\ (secs = 0 <=> k = 0)
    BY <1>1
  <2>5. IsInstant(now) /\ IsChip(chip) /\ (set => Tells(chip, now))
    BY <2>2 DEF ClockRight
  <2> HIDE DEF secs, new, tm
  <2>6. ClockRight(c, to, set, rtc_state) /\ (set /\ current_rtc # "pcf" => Tells(new, to))
    BY <2>2, <2>3, <2>4, ReadingKeeps
  <2>7. IsInstant(to) /\ (secs = 0 => to = now) /\ (secs = 1 => to.sec % 60 # now.sec % 60)
    BY <2>4, <2>5, ReadingEnds
  <2> HIDE DEF to, c
  <2>8. ASSUME set PROVE Understood(form, parse_timeread(form, tm)) \in {TmAt(now), TmAt(to)}
    <3>1. current_rtc = "lpc" => IsInstant(to) /\ Tells(new, to)
      BY <2>6, <2>7, <2>8
    <3>2. (to = now \/ to.sec % 60 # now.sec % 60) /\ (k = 0 => to = now)
      BY <2>4, <2>7
    <3>3. current_rtc = "soft" =>
            gmtime(chip) # None /\ ~(YearOf(chip.at.day) = 100 /\ chip.at.day >= YearStart(100) + 59)
      BY <1>1 DEF CanBeRead
    <3>4. Tells(chip, now)
      BY <2>5, <2>8
    <3>5. tm \in {TmAt(now), TmAt(to)}
      BY ONLY <1>3, <2>2, <2>5, <3>1, <3>2, <3>3, <3>4, k \in Nat, ReadIsTrue DEF tm
    <3>6. Proper(tm)
      BY <2>5, <2>7, <3>5, TmIsProper
    <3>7. Understood(form, parse_timeread(form, tm)) = tm
      BY <1>3, <3>6, AsAnsweredSoUnderstood
    <3>8. QED BY <3>5, <3>7
  <2> DEFINE heard == Understood(form, parse_timeread(form, tm))
  <2>9. told' = [by |-> form, tm |-> heard, set |-> set, from |-> now, to |-> to]
    BY <2>1 DEF Told
  <2> HIDE DEF heard
  <2>10. ToldRight(told')
    <3>1. CASE set
      <4>1. \E at \in {now, to} : heard = TmAt(at)
        BY <2>8, <3>1 DEF heard
      <4>2. \A t : Rounded(form, t) = t
        BY <1>3, RoundedAnswer
      <4>3. \E at \in {now, to} : Rounded(form, heard) = Rounded(form, TmAt(at))
        BY <4>1, <4>2
      <4>4. QED BY <2>9, <3>1, <4>3 DEF ToldRight
    <3>2. CASE ~set
      BY <2>3, <2>9, <3>2 DEF ToldRight
    <3>3. QED BY <3>1, <3>2
  <2>11. ClockRight(chip', now', set', rtc_state')
    BY <1>1, <2>1, <2>6
  <2>12. QED BY <1>1, <2>10, <2>11, InvariantNext
<1>4. QED BY <1>2, <1>3

(* A file is stamped.                                                       *)
LEMMA StampKeeps ==
  ASSUME ClockInv, NEW by \in {"fat", "image"}, Stamp(by)
  PROVE  ClockInv'
<1> DEFINE tm == read_rtc(chip, chip, 0)
           stamp == IF by = "fat" THEN StampFat(tm) ELSE StampImage(tm)
<1>1. /\ CanBeRead /\ current_rtc # None
      /\ told' = [by |-> by, tm |-> stamp, set |-> set, from |-> now, to |-> now]
      /\ chip' = IF current_rtc = "pcf" /\ rtc_state = "ok" THEN pcf8583_year(chip) ELSE chip
      /\ now' = now /\ rtc_state' = rtc_state /\ set' = set /\ current_rtc' = current_rtc
  BY DEF Stamp, BoardKept, Told
<1>2. current_rtc \in Clocks /\ ClockRight(chip, now, set, rtc_state)
  BY <1>1 DEF ClockInv
<1>3. /\ IsInstant(now) /\ IsChip(chip) /\ set \in BOOLEAN /\ (set => Tells(chip, now))
      /\ current_rtc # "soft" => (set <=> rtc_state = "ok")
  BY <1>2 DEF ClockRight
<1>4. ASSUME set PROVE tm = TmAt(now)
  <2>1. current_rtc = "lpc" => IsInstant(now) /\ Tells(chip, now)
    BY <1>3, <1>4
  <2>2. (now = now \/ now.sec % 60 # now.sec % 60) /\ (0 = 0 => now = now) /\ 0 \in Nat
    OBVIOUS
  <2>3. current_rtc = "soft" =>
          gmtime(chip) # None /\ ~(YearOf(chip.at.day) = 100 /\ chip.at.day >= YearStart(100) + 59)
    BY <1>1 DEF CanBeRead
  <2>4. Tells(chip, now) /\ (current_rtc # "soft" => rtc_state = "ok")
    BY <1>3, <1>4
  <2>5. tm \in {TmAt(now), TmAt(now)}
    BY ONLY <1>2, <1>3, <2>1, <2>2, <2>3, <2>4, ReadIsTrue
  <2>6. QED BY <2>5
<1>5. ASSUME ~set, current_rtc # "soft" PROVE tm = rtc_default_date
  BY <1>1, <1>2, <1>3, <1>5 DEF read_rtc, Clocks
<1> HIDE DEF tm
<1>6. Proper(tm) => Rounded(by, stamp) = Rounded(by, tm)
  BY FatStamp, ImageStamp
<1> HIDE DEF stamp
<1>7. ToldRight(told')
  <2>1. CASE set
    <3>1. Rounded(by, stamp) = Rounded(by, TmAt(now))
      BY <1>3, <1>4, <1>6, <2>1, TmIsProper
    <3>2. QED BY <1>1, <2>1, <3>1 DEF ToldRight
  <2>2. CASE ~set /\ current_rtc # "soft"
    <3>1. Rounded(by, stamp) = Rounded(by, rtc_default_date)
      BY <1>5, <1>6, <2>2, DefaultIsProper
    <3>2. QED BY <1>1, <2>2, <3>1 DEF ToldRight
  <2>3. CASE ~set /\ current_rtc = "soft"
    BY <1>1, <2>3 DEF ToldRight
  <2>4. QED BY <1>3, <2>1, <2>2, <2>3
<1>8. CASE current_rtc = "pcf" /\ rtc_state = "ok"
  <2>1. set /\ Tells(chip, now)
    BY <1>3, <1>8
  <2> DEFINE d == pcf8583_year(chip)
  <2>2. IsChip(d) /\ Tells(d, now) /\ (d.valid <=> chip.valid) /\ (d.runs <=> chip.runs)
    BY <1>3, <1>8, <2>1, YearBroughtUp
  <2> HIDE DEF d
  <2>3. Works(d) <=> Works(chip)
    BY <2>2 DEF Works
  <2>4. ClockRight(d, now, set, rtc_state)
    BY <1>2, <2>2, <2>3 DEF ClockRight
  <2>5. QED BY <1>1, <1>7, <1>8, <2>4, InvariantNext DEF d
<1>9. CASE ~(current_rtc = "pcf" /\ rtc_state = "ok")
  <2>1. ClockRight(chip', now', set', rtc_state')
    BY <1>1, <1>2, <1>9
  <2>2. QED BY <1>1, <1>7, <2>1, InvariantNext
<1>10. QED BY <1>8, <1>9

(* Off and on.                                                              *)
LEMMA CycleKeeps ==
  ASSUME ClockInv, NEW battery \in BOOLEAN, PowerCycle(battery)
  PROVE  ClockInv'
<1> DEFINE valid == chip.valid /\ battery
           e == [chip EXCEPT !.valid = valid]
           c == SwitchedOn(e, current_rtc)
<1>1. /\ chip' = c /\ rtc_state' = StateOf(c, current_rtc) /\ set' = (set /\ battery /\ current_rtc # "soft")
      /\ told' = None /\ now' = now /\ current_rtc' = current_rtc
  <2>1. [chip EXCEPT !.valid = @ /\ battery] = e
    OBVIOUS
  <2>2. QED BY <2>1 DEF PowerCycle, BoardKept
<1>2. /\ IsInstant(now) /\ IsChip(chip) /\ set \in BOOLEAN
      /\ current_rtc \in Clocks \ {"lpc"} => chip.runs
      /\ current_rtc \in Clocks => (set => Tells(chip, now) /\ chip.runs)
      /\ current_rtc \in Clocks \ {"soft"} => (set <=> rtc_state = "ok") /\ (set <=> Works(chip))
  BY DEF ClockInv, ClockRight
<1>3. valid \in BOOLEAN
  OBVIOUS
<1> HIDE DEF valid
<1>4. /\ chip = [at |-> chip.at, wday |-> chip.wday, ram |-> chip.ram, valid |-> chip.valid, runs |-> chip.runs]
      /\ chip.valid \in BOOLEAN /\ chip.runs \in BOOLEAN
  BY <1>2 DEF IsChip
<1>5. e = [at |-> chip.at, wday |-> chip.wday, ram |-> chip.ram, valid |-> valid, runs |-> chip.runs]
  BY <1>4
<1> HIDE DEF e
<1>6. IsChip(e) /\ (e.valid <=> valid) /\ (e.runs <=> chip.runs) /\ e.at = chip.at /\ e.wday = chip.wday
      /\ e.ram = chip.ram
  BY <1>3, <1>4, <1>5 DEF IsChip
<1>7. KeptBy(e, c, current_rtc)
  BY <1>6, SwitchedOnKeeps
<1> HIDE DEF c
<1>8. IsChip(c) /\ (c.valid <=> valid)
  BY <1>6, <1>7 DEF KeptBy
<1>9. ASSUME current_rtc \in Clocks, set, current_rtc # "soft" PROVE Tells(c, now)
  <2>1. Tells(chip, now)
    BY <1>2, <1>9
  <2>2. c.at = now /\ c.wday = Weekday(now.day)
    BY <1>6, <1>7, <1>9, <2>1 DEF KeptBy, Tells
  <2>3. ASSUME current_rtc = "pcf" PROVE c.ram \in Int /\ YearOf(now.day) + 1900 - c.ram \in 0 .. 3
    <3>1. Tells(e, now)
      BY <1>6, <2>1 DEF Tells
    <3>2. Tells(pcf8583_year(e), now)
      BY <1>2, <1>6, <2>3, <3>1, YearBroughtUp
    <3>3. c.ram \in {e.ram, pcf8583_year(e).ram}
      BY <1>7, <2>3 DEF KeptBy
    <3>4. QED BY <2>3, <3>1, <3>2, <3>3 DEF Tells
  <2>4. QED BY <2>2, <2>3 DEF Tells
<1>10. current_rtc # "pcf" => (c.runs <=> chip.runs)
  BY <1>6, <1>7 DEF KeptBy
<1>11. current_rtc = "pcf" => c.runs
  BY <1>7 DEF KeptBy
<1>12. ASSUME current_rtc \in Clocks \ {"soft"} PROVE (set' <=> rtc_state' = "ok") /\ (set' <=> Works(c))
  <2>1. StateOf(c, current_rtc) = "ok" <=> Works(c)
    BY <1>8, <1>12, StateIsValidity
  <2>2. Works(c) <=> (Works(chip) /\ battery)
    BY <1>8, <1>10, <1>11 DEF Works, valid
  <2>3. set' <=> (set /\ battery)
    BY <1>1, <1>12
  <2>4. QED BY <1>1, <1>2, <1>12, <2>1, <2>2, <2>3
<1>13. ClockRight(c, now, set', rtc_state')
  <2>1. set' \in BOOLEAN /\ (set' => set /\ current_rtc # "soft")
    BY <1>1
  <2>2. current_rtc \in Clocks \ {"lpc"} => c.runs
    BY <1>2, <1>10, <1>11
  <2>3. current_rtc \in Clocks => (set' => Tells(c, now) /\ c.runs)
    BY <1>2, <1>9, <1>10, <1>11, <2>1
  <2>4. QED BY <1>2, <1>8, <1>12, <2>1, <2>2, <2>3 DEF ClockRight
<1>14. ToldRight(told')
  BY <1>1 DEF ToldRight
<1>15. QED BY <1>1, <1>13, <1>14, InvariantNext

(* The beginning.                                                           *)
LEMMA ClockBegins ==
  ASSUME ClockInit
  PROVE  ClockInv
<1> DEFINE off == [at |-> [day |-> 0, sec |-> 0], wday |-> 0, ram |-> 1980, valid |-> FALSE, runs |-> TRUE]
<1>1. /\ current_rtc = Pick /\ chip = SwitchedOn(off, Pick) /\ rtc_state = StateOf(chip, Pick)
      /\ set = FALSE /\ told = None
  BY DEF ClockInit
<1>2. PICK d \in Dates : \E s \in Times :
        now = [day |-> DayOf([year |-> d.year, mon |-> d.mon, mday |-> d.mday]), sec |-> s]
  BY DEF ClockInit
<1>3. PICK s \in Times : now = [day |-> DayOf([year |-> d.year, mon |-> d.mon, mday |-> d.mday]), sec |-> s]
  BY <1>2
<1>4. d.year \in 80 .. 179 /\ d.mon \in 0 .. 11 /\ d.mday \in 1 .. 31 /\ s \in Nat /\ s < 86400
  BY ConstantsRight
<1> DEFINE day == DayOf([year |-> d.year, mon |-> d.mon, mday |-> d.mday])
<1>5. day \in Nat /\ day < YearStart(180)
  <2>1. day = YearStart(d.year) + MonthStart(d.year, d.mon) + d.mday - 1
    BY DEF DayOf
  <2>2. PICK leap : TableOf(d.year, leap)
    BY <1>4, Starts
  <2>3. MonthStart(d.year, d.mon) \in 0 .. 334 + leap /\ leap \in {0, 1} /\ (leap = 1 => d.year % 4 = 0)
    BY <1>4, <2>2 DEF TableOf, Leap
  <2> DEFINE n == d.year - 80
             q == (n + 3) \div 4
  <2>4. YearStart(d.year) = 365 * n + q /\ n \in 0 .. 99
    BY <1>4 DEF YearStart
  <2>5. q \in Nat /\ (leap = 1 => q <= 24) /\ q <= 25 /\ (leap = 1 => n <= 96)
    BY <1>4, <2>3, <2>4
  <2> HIDE DEF day, n, q
  <2>6. day = 365 * n + q + MonthStart(d.year, d.mon) + d.mday - 1
    BY <2>1, <2>4
  <2>7. day \in Nat /\ day < 36525
    BY <1>4, <2>3, <2>4, <2>5, <2>6, SMT
  <2>8. QED BY <2>7, LastDay DEF day
<1> HIDE DEF day
<1>6. now = [day |-> day, sec |-> s]
  BY <1>3 DEF day
<1>7. IsInstant(now)
  BY <1>4, <1>5, <1>6 DEF IsInstant
<1>8. IsChip(off) /\ off.valid = FALSE /\ off.runs = TRUE
  BY DEF IsChip
<1> HIDE DEF off
<1>9. KeptBy(off, chip, Pick)
  BY <1>1, <1>8, SwitchedOnKeeps
<1>10. IsChip(chip) /\ ~chip.valid /\ (Pick # "pcf" => chip.runs) /\ (Pick = "pcf" => chip.runs)
  BY <1>8, <1>9 DEF KeptBy
<1>11. current_rtc \in Clocks \ {"soft"} => rtc_state # "ok" /\ ~Works(chip)
  BY <1>1, <1>10, StateIsValidity DEF Works
<1>12. ClockRight(chip, now, set, rtc_state)
  BY <1>1, <1>7, <1>10, <1>11 DEF ClockRight
<1>13. QED BY <1>1, <1>12, PickIsClock DEF ClockInv, ToldRight

(* Every step of the system keeps the invariant.                            *)
LEMMA ClockSteps ==
  ASSUME ClockInv, [Next]_vars
  PROVE  ClockInv'
<1>1. CASE UNCHANGED clockVars
  <2>1. UNCHANGED <<now, chip, rtc_state, set, current_rtc>> /\ told' = told
    BY <1>1 DEF clockVars
  <2>2. QED BY <2>1, NothingChanges
<1>2. CASE ClockCommand
  <2>1. ASSUME NEW f \in WriteForms, SetTime(f) PROVE ClockInv'
    BY <2>1, SetKeeps
  <2>2. CASE SetWrong
    BY <2>2, WrongKeeps
  <2>3. ASSUME NEW f \in ReadForms \cup {"X"}, NEW k \in 0 .. Len(Registers), TimeRead(f, k) PROVE ClockInv'
    <3>1. k \in Nat
      BY DEF Registers
    <3>2. QED BY <2>3, <3>1, ReadKeeps
  <2>4. ASSUME NEW by \in {"fat", "image"}, Stamp(by) PROVE ClockInv'
    BY <2>4, StampKeeps
  <2>5. QED BY <1>2, <2>1, <2>2, <2>3, <2>4 DEF ClockCommand
<1>3. CASE Pass(0, 1) \/ \E d \in Spans : Pass(d, 0)
  <2>1. CASE Pass(0, 1)
    BY <2>1, PassKeeps
  <2>2. ASSUME NEW d \in Spans, Pass(d, 0) PROVE ClockInv'
    <3>1. d \in Nat
      BY ConstantsRight
    <3>2. QED BY <2>2, <3>1, PassKeeps
  <2>3. QED BY <1>3, <2>1, <2>2
<1>4. CASE PowerOn
  <2>1. (\E battery \in BOOLEAN : PowerCycle(battery)) \/ CutSet
    BY <1>4 DEF PowerOn
  <2>2. QED BY <2>1, CycleKeeps, CutKeeps
<1>5. QED BY <1>1, <1>2, <1>3, <1>4 DEF Next, vars, Command

(***************************************************************************)
(* A clock that was set tells the computer the time, in every form and across  *)
(* every turn of the calendar, files are stamped with it, and one that was     *)
(* not tells none: T-R, T-W, rtc.c and the clocks, for every date and time of   *)
(* the hundred years, every span of days and every set of clocks.             *)
(***************************************************************************)
THEOREM TimeIsTold == Spec => []TimeTold
<1>1. Init => ClockInv
  BY ClockBegins DEF Init
<1>2. ClockInv /\ [Next]_vars => ClockInv'
  BY ClockSteps
<1>3. ClockInv => TimeTold
  BY ToldMeans DEF ClockInv
<1>4. QED BY <1>1, <1>2, <1>3, PTL DEF Spec
=============================================================================
