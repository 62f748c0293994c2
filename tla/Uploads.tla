------------------------------ MODULE Uploads ------------------------------
(***************************************************************************)
(* Programs that the computer writes into the drive's memory and starts       *)
(* (doscmd.c: M-W, M-E, U3 to U8, M-R).  The drive cannot run them: it knows   *)
(* some by the CRC of what was written and where they are started, and calls  *)
(* a handler of its own; the handlers are those of Loaders.tla.              *)
(* The CRC of some bytes stands for the bytes: no two programs have the same. *)
(***************************************************************************)
EXTENDS Integers, Sequences, FiniteSets, SequencesExt, ErrorChannel

CONSTANTS
  Programs,    (* [name, type, code, detect, entries, rxtx, capture]: the blocks, how many
                  of them the CRC in the table is of, where the program is started,
                  the functions that move its bytes, the bytes to be captured *)
  Block,       (* bytes in a block *)
  MaxUploads,  (* programs the computer uploads or writes to memory that are not *)
  MaxRuns,     (* and starts *)
  Nothing

VARIABLES
  datacrc,     (* the blocks it is the CRC of *)
  detected_loader, previous_loader,
  fast_bytes,  (* fast_get_byte and fast_send_byte *)
  capture,     (* capture_buffer and the variables to it; Nothing: NULL *)
  captured,    (* the contents of the system buffer, while there is one *)
  uploading,   (* what the computer is writing, and how many of its blocks are *)
  resident,    (* what is in the memory, and whether a file was opened or a program
                  started just before it was written *)
  ran,         (* what the last start came to *)
  uploads, runs

uploadVars == <<datacrc, detected_loader, previous_loader, fast_bytes, capture, captured,
                uploading, resident, ran, uploads, runs>>

(***************************************************************************)
(* The tables.  A program with detect = 0 is not in them.                    *)
(***************************************************************************)
Known == {p \in Programs : p.detect > 0}
CrcOf(p) == SubSeq(p.code, 1, p.detect)
InCrcTable(crc)   == {p \in Known : CrcOf(p) = crc}
Handlers(type, address) == {p \in Known : p.type = type /\ address \in p.entries}

(* Bytes from..to of a program; a block's bytes are numbered through.         *)
Bytes(p, from, n) == [i \in 1 .. n |-> <<p.name, from + i - 1>>]

(* A CRC in the table is of bytes whose last block no other program has, so   *)
(* that what is detected was written whole.  Where it is started and what is   *)
(* captured go with the type of a loader, as in fl_handler_table and           *)
(* fl_capture_table; the captured bytes begin in the block that completes the  *)
(* CRC and are all in the program.                                          *)
Codes == UNION {Range(p.code) : p \in Programs}

ASSUME UploadAssumption ==
  /\ Block \in 1 .. 256 /\ MaxUploads \in Nat /\ MaxRuns \in Nat
  /\ \A p \in Programs : p.code \in Seq(Codes) \ {<<>>} /\ p.detect \in 0 .. Len(p.code)
  /\ \A p \in Programs, q \in Known : \A i \in 1 .. Len(p.code) :
       p.code[i] = q.code[q.detect] => p = q /\ i = q.detect

ASSUME TablesAssumption ==
  /\ \A p \in Known : p.type # "none" /\ p.entries # {}
  /\ \A p, q \in Known : p.type = q.type => p.entries = q.entries /\ p.capture = q.capture
  /\ \A p \in Known : p.capture # Nothing =>
       /\ p.capture.from \in Block * (p.detect - 1) .. Block * p.detect - 1
       /\ p.capture.length \in 1 .. Block * Len(p.code) - p.capture.from

(* What is there differs from what is not.                                  *)
ASSUME NothingAssumption ==
  Nothing \notin [program : Programs, blocks : Nat, clean : BOOLEAN]
            \cup [program : Programs, clean : BOOLEAN, started : BOOLEAN]
            \cup [address : Nat, remain : Nat, data : Seq({p.name : p \in Programs} \X Nat)]

(***************************************************************************)
(* M-W.                                                                    *)
(***************************************************************************)
PreviousKept == previous_loader      (* mutant: writing does not end a program *)
PreviousEnded == "none"

(* The part of this block that is to be captured; one byte holds its offset.  *)
capture_fl_data(c, p, address) ==
  LET ofs   == (c.address - address) % 256
      bytes == IF c.remain < Block - ofs THEN c.remain ELSE Block - ofs
  IN [c EXCEPT !.data = @ \o Bytes(p, address + ofs, bytes),
               !.address = @ + bytes, !.remain = @ - bytes]

(* What is captured when a block comes: that begins with what was detected.    *)
capture_start(hit) ==
  IF capture = Nothing /\ \E q \in hit : q.capture # Nothing
    THEN LET q == CHOOSE q \in hit : TRUE
         IN [address |-> q.capture.from, remain |-> q.capture.length, data |-> <<>>]
    ELSE capture

(* Block i of p.                                                            *)
handle_memwrite(p, i) ==
  LET crc  == Append(datacrc, p.code[i])
      hit  == InCrcTable(crc)
      from == capture_start(hit)
      to   == IF from = Nothing THEN Nothing ELSE capture_fl_data(from, p, Block * (i - 1))
  IN /\ datacrc' = crc
     /\ previous_loader' = PreviousEnded
     /\ \/ hit = {} /\ UNCHANGED <<detected_loader, fast_bytes>>
        \/ \E q \in hit :
             /\ detected_loader' = q.type
             /\ fast_bytes' = IF q.rxtx = Nothing THEN fast_bytes ELSE q.rxtx
     /\ captured' = IF to = Nothing THEN captured ELSE to.data
     /\ capture' = IF to = Nothing THEN Nothing ELSE IF to.remain = 0 THEN Nothing ELSE to

(***************************************************************************)
(* M-E and U3 to UH.                                                        *)
(***************************************************************************)
U_address(c) == 1280 + 3 * c       (* c: the letter's distance from "3" *)

(* A handler that wants captured bytes does nothing when there is no buffer,   *)
(* and frees it.  The computer uses the fast functions of its program.       *)
run_loader(address) ==
  LET type == IF detected_loader = "none" THEN previous_loader ELSE detected_loader
      found == IF type = "none" THEN {} ELSE Handlers(type, address)
      h    == CHOOSE q \in found : TRUE
      idle == found # {} /\ h.capture # Nothing /\ captured = Nothing
  IN /\ ran' = IF found = {} \/ idle THEN Nothing
               ELSE [type |-> type, address |-> address, rxtx |-> fast_bytes,
                     bytes |-> IF h.capture = Nothing THEN Nothing ELSE captured]
     /\ captured' = IF found # {} /\ h.capture # Nothing THEN Nothing ELSE captured
     /\ datacrc' = <<>> /\ previous_loader' = type /\ detected_loader' = "none"
     /\ error_buffer' = IF found = {} THEN set_error("unknown_drivecode") ELSE Started
     /\ got' = 0

(***************************************************************************)
(* M-R: some addresses of the 1541's ROM, which are looked up only when a ROM  *)
(* file is named; else the answer is what is in the error buffer.            *)
(***************************************************************************)
Magics == {"fea0", "e5c6", "fffe"}
handle_memread(address, n, rom) ==
  /\ error_buffer' = AnswerFrom0([about |-> IF address \in Magics /\ rom # 0 THEN "memory" ELSE "message",
                                  is |-> IF address \in Magics /\ rom # 0 THEN address ELSE "ok",
                                  last |-> n - 1])
  /\ got' = 0

(***************************************************************************)
(* Steps.  A computer that begins to upload a program finishes that and       *)
(* starts it.                                                               *)
(***************************************************************************)
UploadInit ==
  /\ datacrc = <<>> /\ detected_loader = "none" /\ previous_loader = "none"
  /\ fast_bytes = Nothing /\ capture = Nothing /\ captured = Nothing
  /\ uploading = Nothing /\ resident = Nothing /\ ran = Nothing
  /\ uploads = 0 /\ runs = 0

OK == error_buffer' = Started /\ got' = 0
Idle == uploading = Nothing
Waiting == resident # Nothing /\ ~resident.started   (* for the start of a program *)

(* Any program, or a few bytes that are none (a program without entries).     *)
BeginUpload(p) ==
  /\ Idle /\ ~Waiting /\ uploads < MaxUploads
  /\ uploading' = [program |-> p, blocks |-> 1, clean |-> datacrc = <<>>]
  /\ resident' = Nothing /\ ran' = Nothing
  /\ uploads' = uploads + 1
  /\ handle_memwrite(p, 1) /\ OK /\ UNCHANGED runs

Resident(u) == [program |-> u.program, clean |-> u.clean, started |-> u.program.entries = {}]
WriteOn ==
  /\ ~Idle /\ uploading.blocks < Len(uploading.program.code)
  /\ uploading' = [uploading EXCEPT !.blocks = @ + 1]
  /\ handle_memwrite(uploading.program, uploading.blocks + 1)
  /\ OK /\ UNCHANGED <<resident, ran, uploads, runs>>
Uploaded ==
  /\ ~Idle /\ uploading.blocks = Len(uploading.program.code)
  /\ resident' = Resident(uploading) /\ uploading' = Nothing
  /\ UNCHANGED <<datacrc, detected_loader, previous_loader, fast_bytes, capture, captured, ran,
                 uploads, runs, errorVars>>

(* Registers that are ignored, M-W and M-E that are too short.                *)
IgnoredWrite == OK /\ UNCHANGED uploadVars

(* The start, again and again; or of something in the ROM.                   *)
Execute(address) ==
  /\ Idle /\ runs < MaxRuns
  /\ runs' = runs + 1
  /\ run_loader(address)
  /\ resident' = IF resident = Nothing THEN Nothing
                 ELSE [resident EXCEPT !.started = @ \/ address \in resident.program.entries]
  /\ UNCHANGED <<fast_bytes, capture, uploading, uploads>>
RomEntry == 65000
MemExec ==
  \E address \in UNION {p.entries : p \in Programs} \cup {RomEntry} :
    (Waiting => address \in resident.program.entries \cup {RomEntry}) /\ Execute(address)
UserExec ==
  \E c \in {0, 1, 16} :
    (Waiting => U_address(c) \in resident.program.entries) /\ Execute(U_address(c))

(* A file is opened: its name came in the command buffer.                    *)
OpenFile ==
  /\ Idle /\ datacrc' = <<>>
  /\ OK
  /\ UNCHANGED <<detected_loader, previous_loader, fast_bytes, capture, captured, uploading,
                 resident, ran, uploads, runs>>

SwitchedOff ==
  /\ datacrc' = <<>> /\ detected_loader' = "none" /\ previous_loader' = "none"
  /\ fast_bytes' = Nothing /\ capture' = Nothing /\ captured' = Nothing
  /\ uploading' = Nothing /\ resident' = Nothing /\ ran' = Nothing
  /\ UNCHANGED <<uploads, runs>>

(***************************************************************************)
(* Property.                                                               *)
(***************************************************************************)
(* A handler runs only for the program that is in the drive's memory, started *)
(* where that program begins, with its functions for the bytes and with all    *)
(* the bytes of it that were to be captured, also when it is started a second  *)
(* time, after a file was opened, or after programs that were not known; and   *)
(* one that is known and that nothing was written before is always found       *)
(* (doscmd.c 437-485, 1244-1358).                                           *)
Fits(r, p) ==
  /\ p \in Known /\ r.type = p.type /\ r.address \in p.entries
  /\ p.rxtx # Nothing => r.rxtx = p.rxtx
  /\ p.capture # Nothing => r.bytes = Bytes(p, p.capture.from, p.capture.length)

RunsWhatWasUploaded ==
  /\ ran # Nothing => resident # Nothing /\ Fits(ran, resident.program)
  /\ resident # Nothing /\ resident.clean /\ resident.program \in Known /\ ~resident.started =>
       resident.program.type \in {detected_loader, previous_loader}
=============================================================================
