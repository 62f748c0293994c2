---------------------------- MODULE FileChannel ----------------------------
(***************************************************************************)
(* A file on a channel: the buffer as a window on the file, between the     *)
(* bytes of the bus and the calls of the file system (fatops.c over ff.c,   *)
(* vfsops.c over POSIX), for sequential and for relative files.             *)
(*                                                                         *)
(* The two drivers are the same code twice; what differs is selected by     *)
(* driver.  A handler is an operator on a record d: the file, the channel   *)
(* ch, the error, ok, and fail, the call that fails in this handler.        *)
(***************************************************************************)
EXTENDS Integers, Sequences, FiniteSets, SequencesExt

CONSTANTS
  Drivers,     (* "fat", "vfs" *)
  Uses(_),     (* what the computer does with a driver's files: "seq", "append", "rel", "replace", "seek", "behind" (the end of a record) *)
  Block,       (* data bytes of a buffer: 254 *)
  Header,      (* P00_HEADER_SIZE: 26 *)
  RecLens,     (* record lengths of relative files, 1 .. 254 *)
  RelBytes,    (* bytes the computer writes into records *)
  Capacity,    (* bytes on the medium *)
  MaxText,     (* bytes, or records, in a file *)
  Wrap,        (* positions are counted modulo this: 2^32 *)
  MaxFaults

ASSUME FileChannelAssumption ==
  /\ Drivers \subseteq {"fat", "vfs"}
  /\ {Block, Capacity, MaxText, Wrap} \subseteq Nat \ {0} /\ {Header, MaxFaults} \subseteq Nat
  /\ RecLens \subseteq 1 .. Block /\ RelBytes \subseteq 0 .. 254
  /\ Capacity < Wrap \div 2

VARIABLES
  driver,  (* the driver of the partition *)
  file,    (* the file: there, bytes, size, x00, rel *)
  ch,      (* the buffer and file handle of the channel *)
  err,     (* current_error *)
  faults,  (* failed calls so far *)
  errno,   (* what the last failed call of POSIX left behind *)
  known,   (* history: "whole", "cut" by a full medium, "unknown" after a failed call *)
  text,    (* history: what is to be in the file, a sequence of bytes or of records *)
  sent,    (* history: what was sent of the record that was begun *)
  rec,     (* history: where the computer is: after that many bytes, or records and bytes *)
  heard,   (* history: what was read from there *)
  ended,   (* history: and whether it ended with an EOI *)
  replaced (* history: the last command replaced the file *)

vars == <<driver, file, ch, err, errno, faults, known, text, sent, rec, heard, ended, replaced>>

(* The bytes of a buffer: two unused ones, then the data. *)
Indices == 0 .. Block + 1
NewBuffer ==
  [mode |-> "closed", read |-> FALSE, write |-> FALSE, data |-> [i \in Indices |-> 0],
   position |-> 0, lastused |-> 0, dirty |-> FALSE, mustflush |-> FALSE, sendeoi |-> FALSE,
   recordlen |-> 0, fptr |-> 0, at |-> 0, head |-> 0]

NoFile == [there |-> FALSE, bytes |-> <<>>, size |-> 0, x00 |-> FALSE, rel |-> FALSE]
HeadByte == 254   (* a byte of a header that is not a record length *)
Junk     == 253   (* what a cluster holds that was never written *)

Least(a, b) == IF a < b THEN a ELSE b
Most(a, b)  == IF a < b THEN b ELSE a

(***************************************************************************)
(* The calls of the file system.                                           *)
(***************************************************************************)
With(d, F(_)) == F(d)   (* names a result that is used more than once *)
Then(d, F(_)) == IF d.ok THEN F(d) ELSE d   (* goes on when the call succeeded *)

Good(d)    == [d EXCEPT !.ok = TRUE]
Bad(d, e)  == [d EXCEPT !.ok = FALSE, !.err = e, !.full = @ \/ e = "full",
                        !.errno = IF d.driver = "vfs" THEN e ELSE @]
Size(d)    == Len(d.file.bytes)
Call(d, what) == IF d.fail = what THEN [Bad(d, "io") EXCEPT !.failed = TRUE] ELSE Good(d)

Grown(bytes, n, with) == bytes \o [i \in 1 .. Most(n - Len(bytes), 0) |-> with]

(* f_lseek extends a file open for writing as far as there is room, one     *)
(* open for reading is clipped; lseek goes anywhere but to what is negative *)
(* as a signed number.                                                      *)

lseek(d, pos) ==
  LET p == pos % Wrap
      reach == IF d.ch.write THEN Least(p, Capacity) ELSE Least(p, Size(d))
  IN IF d.driver = "fat"
     THEN Good([d EXCEPT !.ch.at = reach, !.file.bytes = Grown(@, reach, Junk)])
     ELSE IF p < Wrap \div 2 THEN Good([d EXCEPT !.ch.at = p]) ELSE Bad(d, "io")

WriteBytes(d, bytes) ==
  LET n     == Most(Least(Len(bytes), Capacity - d.ch.at), 0)
      whole == Grown(d.file.bytes, d.ch.at, 0)
      after == [i \in 1 .. Most(Len(whole), d.ch.at + n) |->
                  IF i \in d.ch.at + 1 .. d.ch.at + n THEN bytes[i - d.ch.at] ELSE whole[i]]
  IN Then(Call(d, "write"), LAMBDA c :
       IF n = 0 /\ Len(bytes) > 0 THEN Bad(c, "full")
       ELSE [c EXCEPT !.file.bytes = after, !.ch.at = @ + n,
                      !.ok = (n = Len(bytes)), !.full = @ \/ n < Len(bytes),
                      !.err = IF n = Len(bytes) THEN @ ELSE "full"])

(* FatFs keeps the length in memory until f_close.                          *)
CloseFile(d) == Then(Call(d, "close"), LAMBDA c : [c EXCEPT !.file.size = Size(d)])

Freed(d) == [d EXCEPT !.ch = NewBuffer, !.ok = FALSE]
(* close() in an error path of POSIX; what FatFs does not store is not there. *)
CloseAndFree(d) == Freed([CloseFile(d) EXCEPT !.err = d.err])
FreeOnly(d)     == IF d.driver = "fat" THEN Freed(d) ELSE Freed([d EXCEPT !.file.size = Size(d)])

(***************************************************************************)
(* The callbacks.                                                          *)
(***************************************************************************)

(* Trailing zeros of a record are not sent, even if that is all of it.       *)
RECURSIVE LastNonZero(_, _)
LastNonZero(data, n) == IF n > 1 /\ data[n] = 0 THEN LastNonZero(data, n - 1) ELSE n

file_read_ends(d) ==   (* mutant: a full buffer is always taken for the last *)
  LET want  == IF d.ch.recordlen > 0 THEN d.ch.recordlen ELSE Block
      n     == Least(want, Most(Size(d) - d.ch.at, 0))
  IN [d EXCEPT !.ch.data = [i \in Indices |-> IF i \in 2 .. n + 1 THEN d.file.bytes[d.ch.at + i - 1] ELSE @[i]],
               !.ch.at = @ + n, !.ch.fptr = d.ch.at - d.ch.head, !.ch.position = 2,
               !.ch.lastused = n + 1, !.ch.sendeoi = TRUE, !.ok = TRUE]

(* The next block of the file, or record; fptr says where it is.             *)
ReadBlock(d, fptr) ==
  LET want  == IF d.ch.recordlen > 0 THEN d.ch.recordlen ELSE Block
      n     == Least(want, Most(Size(d) - d.ch.at, 0))
      bytes == IF n = 0 THEN <<IF d.ch.recordlen > 0 THEN 255 ELSE 13>>
               ELSE SubSeq(d.file.bytes, d.ch.at + 1, d.ch.at + n)
      data  == [i \in Indices |-> IF i \in 2 .. Len(bytes) + 1 THEN bytes[i - 1] ELSE d.ch.data[i]]
      last  == Len(bytes) + 1
  IN With(Call(d, "read"), LAMBDA c :
       IF ~c.ok THEN FreeOnly(c)
       ELSE [c EXCEPT !.ch.data = data, !.ch.at = @ + n,
               !.ch.fptr = fptr, !.ch.position = 2,
               !.ch.lastused = IF d.ch.recordlen > 0 THEN LastNonZero(data, last) ELSE last,
               !.ch.sendeoi = (n < Block \/ d.ch.at + n = Size(d) \/ d.ch.recordlen > 0)])

(* vfs_file_read does not note where the block is.                           *)
fat_file_read(d) == ReadBlock(d, (d.ch.at - d.ch.head) % Wrap)
vfs_file_read(d) == ReadBlock(d, d.ch.fptr)
file_read(d)     == IF d.driver = "fat" THEN fat_file_read(d) ELSE vfs_file_read(d)

write_data_all(d) ==   (* mutant: a full buffer that was flushed is written again *)
  LET w == WriteBytes(d, [i \in 1 .. d.ch.lastused - 1 |-> d.ch.data[i + 1]])
  IN [w EXCEPT !.ch.dirty = FALSE, !.ch.mustflush = FALSE, !.ch.position = 2, !.ch.fptr = w.ch.at - w.ch.head]

(* write_data: a record is filled up with zeros.                            *)
write_data(d) ==
  LET b     == d.ch
      last  == IF b.mustflush THEN b.lastused ELSE b.position - 1
      data  == [i \in Indices |-> IF i \in last + 1 .. b.recordlen + 1 THEN 0 ELSE b.data[i]]
      upto  == IF b.recordlen > 0 THEN b.recordlen + 1 ELSE last
  IN With(WriteBytes([d EXCEPT !.ch.data = data], [i \in 1 .. upto - 1 |-> data[i + 1]]), LAMBDA w :
       IF ~w.ok THEN CloseAndFree(w)
       ELSE [w EXCEPT !.ch.dirty = FALSE, !.ch.mustflush = FALSE, !.ch.position = 2,
                      !.ch.lastused = 2, !.ch.fptr = (w.ch.at - w.ch.head) % Wrap])

(* What is missing between the old end and a record written beyond it.       *)
RECURSIVE FillGap(_, _)
FillGap(d, gap) ==
  LET n == IF d.ch.recordlen > 0 THEN d.ch.recordlen ELSE Least(gap, Block)
  IN IF gap = 0 THEN Good(d)
     ELSE Then(write_data([d EXCEPT !.ch.lastused = n, !.ch.position = n + 2]),
               LAMBDA w : FillGap(w, (gap - n) % Wrap))

WriteBlock(d, fills) ==
  LET b     == d.ch
      end   == (Size(d) - b.head) % Wrap
      empty == [i \in Indices |-> IF i = 2 /\ b.recordlen > 0 THEN 255 ELSE 0]
      gap   == IF fills THEN (b.fptr - end) % Wrap ELSE 0
      toEnd(e) == With(lseek(e, Size(e)), LAMBDA l : [l EXCEPT !.ch.fptr = (l.ch.at - b.head) % Wrap])
      filled(e) == FillGap([e EXCEPT !.ch.mustflush = FALSE, !.ch.fptr = end,
                                     !.ch.data = [empty EXCEPT ![1] = e.ch.data[1]]], gap)
  IN With(IF b.fptr # end THEN lseek(d, b.head + b.fptr) ELSE Good(d), LAMBDA at :
       IF ~at.ok THEN CloseAndFree(at)
       ELSE Then(write_data(at), LAMBDA w :
              IF b.fptr <= end THEN w ELSE Then(filled(lseek(w, b.head + end)), toEnd)))

(* The loop that fills the gap never runs in vfsops.c.                       *)
fat_file_write(d) == WriteBlock(d, TRUE)
vfs_file_write(d) == WriteBlock(d, FALSE)
file_write(d)     == IF d.driver = "fat" THEN fat_file_write(d) ELSE vfs_file_write(d)

file_seek(d, position, index) ==
  LET miss(w) == [w EXCEPT !.ch.data[2] = IF w.ch.recordlen > 0 THEN 255 ELSE 13, !.ch.lastused = 2,
                           !.ch.fptr = position, !.err = "missing", !.ok = TRUE]
  IN Then(IF d.ch.dirty THEN file_write(d) ELSE Good(d), LAMBDA w :
       LET pos == (position + w.ch.head) % Wrap
       IN Then(IF Size(w) < pos THEN miss(w) ELSE file_read(lseek(w, pos)),
               LAMBDA e : [e EXCEPT !.ch.position = Least(index + 2, e.ch.lastused)]))

file_sync(d) == file_seek(d, (d.ch.fptr + d.ch.recordlen) % Wrap, 0)

refill(d) ==
  CASE d.ch.mode = "read" -> file_read(d)
    [] d.ch.mode = "write" -> file_write(d)
    [] d.ch.mode = "rel" -> file_sync(d)

CloseChannel(d, answer) ==
  Then(IF d.ch.write THEN refill(d) ELSE Good(d), LAMBDA r :
  With(CloseFile(r), LAMBDA c :
    IF c.ok THEN [c EXCEPT !.ch = NewBuffer, !.err = answer] ELSE Freed(c)))

(* vfs_file_close reports whatever errno is.                                 *)
fat_file_close(d) == CloseChannel(d, "none")
vfs_file_close(d) == CloseChannel(d, d.errno)
file_close(d)     == IF d.driver = "fat" THEN fat_file_close(d) ELSE vfs_file_close(d)

(***************************************************************************)
(* Opening.  What FatFs did not store when it last closed the file is gone. *)
(***************************************************************************)
f_open(d, write) ==
  With(Call(d, "open"), LAMBDA c :
    [c EXCEPT !.ch = [NewBuffer EXCEPT !.write = write], !.file.bytes = SubSeq(@, 1, d.file.size)])

HeaderOf(x00, recordlen) ==
  IF x00 THEN [i \in 1 .. Header |-> IF i = Header THEN recordlen ELSE HeadByte]
  ELSE IF recordlen > 0 THEN <<recordlen>> ELSE <<>>

CreateFile(d, x00, recordlen) ==
  LET new  == [NoFile EXCEPT !.there = TRUE, !.x00 = x00, !.rel = recordlen > 0]
      head == HeaderOf(x00, recordlen)
  IN With(f_open([d EXCEPT !.file = new], TRUE), LAMBDA o :
       IF o.ok THEN [WriteBytes(o, head) EXCEPT !.ch.head = Len(head)] ELSE [o EXCEPT !.file = d.file])

(* FatFs reports a header that did not fit as a success.                     *)
fat_create_file(d, x00, recordlen) ==
  With(CreateFile(d, x00, recordlen), LAMBDA h :
    IF h.ok \/ h.failed THEN h ELSE [h EXCEPT !.ok = TRUE, !.err = d.err])
vfs_create_file(d, x00, recordlen) == CreateFile(d, x00, recordlen)
create_file(d, x00, recordlen) ==
  IF d.driver = "fat" THEN fat_create_file(d, x00, recordlen) ELSE vfs_create_file(d, x00, recordlen)

(* The buffer of a file that could not be opened has no callbacks.          *)
Opened(d, open) == IF d.ok THEN [d EXCEPT !.ch = open] ELSE [d EXCEPT !.ch = NewBuffer]

open_read(d) ==
  LET head == IF d.file.x00 THEN Header ELSE 0
  IN With(f_open(d, FALSE), LAMBDA o :
       IF ~o.ok THEN Opened(o, o.ch)
       ELSE file_read([lseek(o, head) EXCEPT !.ch.mode = "read", !.ch.read = TRUE, !.ch.head = head]))

WriteChannel(b) ==
  [b EXCEPT !.mode = "write", !.write = TRUE, !.position = 2, !.lastused = 2, !.data[2] = 13]

open_write(d, x00) == With(create_file(d, x00, 0), LAMBDA c : Opened(c, WriteChannel(c.ch)))

AppendAt(d, end) ==
  LET head == IF d.file.x00 THEN Header ELSE 0
  IN Opened(d, WriteChannel([d.ch EXCEPT !.head = head, !.fptr = (end - head) % Wrap]))

(* vfs_open_write asks file 0 for its size and moves in it: size is what     *)
(* that answers.                                                            *)
fat_open_append(d) == With(f_open(d, TRUE), LAMBDA o : AppendAt(lseek(o, Size(o)), Size(o)))
vfs_open_append(d, size) == AppendAt(f_open(d, TRUE), size)
open_append(d, size)     == IF d.driver = "fat" THEN fat_open_append(d) ELSE vfs_open_append(d, size)

RelChannel(d, length) ==
  IF ~d.ok THEN Opened(d, d.ch)
  ELSE file_read([d EXCEPT !.ch.head = d.ch.at, !.ch.recordlen = length, !.ch.mode = "rel",
                           !.ch.read = TRUE, !.ch.write = TRUE])

open_rel_new(d, x00, length) == RelChannel(create_file(d, x00, length), length)

(* An old file, whose records begin at; its length is the byte before.       *)
OpenRecords(d, length, at, prefersOwn) ==
  LET stored == IF at > 0 THEN d.file.bytes[at] ELSE length
      used   == IF at > 0 /\ prefersOwn THEN stored ELSE length
  IN With(Then(f_open(d, TRUE), LAMBDA o : IF at > 0 THEN Call(o, "read") ELSE o), LAMBDA c :
       IF ~c.ok THEN Opened(c, c.ch)
       ELSE Then(RelChannel([c EXCEPT !.ch.at = at], used), LAMBDA r :
              IF used # stored THEN [r EXCEPT !.err = "missing"] ELSE r))

(* fatops.c takes the length that was given if there is one; vfsops.c looks  *)
(* for the stored one only in an X00 file.                                  *)
fat_open_rel(d, length) == OpenRecords(d, length, IF d.file.x00 THEN Header ELSE 1, length = 0)
vfs_open_rel(d, length) == OpenRecords(d, length, IF d.file.x00 THEN Header ELSE 0, TRUE)
open_rel_old(d, length) == IF d.driver = "fat" THEN fat_open_rel(d, length) ELSE vfs_open_rel(d, length)

(* fat_delete answers 1 for a deleted file and 255 for an error, vfs_delete   *)
(* the other way round; file_open goes on unless it is 255.                  *)
delete_goes_on_swapped(d, deleted) == ~deleted   (* mutant *)
delete_goes_on(d, deleted) == deleted = (d.driver = "fat")

DeleteFile(d, answer) ==
  Then(Call(d, "delete"), LAMBDA c : [c EXCEPT !.file = NoFile, !.err = answer])
fat_delete(d)  == DeleteFile(d, "none")
vfs_delete(d)  == DeleteFile(d, d.errno)
file_delete(d) == IF d.driver = "fat" THEN fat_delete(d) ELSE vfs_delete(d)

(* file_open with '@': the old file is deleted first.                        *)
open_replace(d, x00) ==
  With(file_delete(d), LAMBDA c :
    IF ~delete_goes_on(d, c.ok) THEN c
    ELSE IF c.ok THEN open_write([c EXCEPT !.err = "none"], x00)
    ELSE Bad([c EXCEPT !.ch = NewBuffer], "exists"))

(***************************************************************************)
(* The bus.                                                                *)
(***************************************************************************)
Started(fail) ==
  [driver |-> driver, file |-> file, ch |-> ch, err |-> err, errno |-> errno,
   ok |-> TRUE, fail |-> fail, failed |-> FALSE, full |-> FALSE]

(* A failed call that the handler does not make is no failure.               *)
Finish(d, rel) ==
  /\ d.fail # "none" => d.failed
  /\ faults' = IF d.failed THEN faults + 1 ELSE faults
  /\ file' = d.file /\ ch' = d.ch /\ err' = d.err /\ errno' = d.errno
  /\ known' = IF ~d.file.there THEN "whole"
              ELSE IF d.failed \/ (d.full /\ (rel \/ d.ch.mode # "closed")) THEN "unknown"
              ELSE IF d.full /\ known = "whole" THEN "cut" ELSE known
  /\ UNCHANGED driver

Calls == IF faults < MaxFaults THEN {"none", "open", "read", "write", "close", "delete"} ELSE {"none"}

Padded(s, n) == [i \in 1 .. n |-> IF i <= Len(s) THEN s[i] ELSE 0]
Filled(n)    == Padded(<<255>>, n)

(* The file once the record that was begun is stored: what is before it is    *)
(* kept, what is behind it is gone, a gap is filled up.                      *)
Stored(bytes) ==
  LET n     == ch.recordlen
      keep  == IF rec[1] < Len(text) THEN SubSeq(text[rec[1] + 1], 1, rec[2]) ELSE <<>>
      whole == text \o [i \in 1 .. Most(rec[1] + 1 - Len(text), 0) |-> Filled(n)]
  IN IF bytes = <<>> THEN text ELSE [whole EXCEPT ![rec[1] + 1] = Padded(keep \o bytes, n)]

NoHistory == sent' = <<>> /\ rec' = <<0, 0>> /\ heard' = <<>> /\ ended' = FALSE

OpenWrite(fail, x00) ==
  /\ ch.mode = "closed" /\ ~file.there /\ "seq" \in Uses(driver)
  /\ \E d \in {open_write([Started(fail) EXCEPT !.err = "none"], x00)} : Finish(d, FALSE)
  /\ NoHistory /\ text' = <<>> /\ replaced' = FALSE

OpenReplace(fail, x00) ==
  /\ ch.mode = "closed" /\ file.there /\ ~file.rel /\ "replace" \in Uses(driver)
  /\ \E d \in {open_replace([Started(fail) EXCEPT !.err = "none"], x00)} : Finish(d, FALSE)
  /\ NoHistory /\ text' = <<>> /\ replaced' = TRUE

OpenRead(fail) ==
  /\ ch.mode = "closed" /\ file.there /\ ~file.rel
  /\ \E d \in {open_read([Started(fail) EXCEPT !.err = "none"])} : Finish(d, FALSE)
  /\ NoHistory /\ replaced' = FALSE /\ UNCHANGED text

OpenAppend(fail, size) ==
  /\ ch.mode = "closed" /\ file.there /\ ~file.rel /\ "append" \in Uses(driver)
  /\ \E d \in {open_append([Started(fail) EXCEPT !.err = "none"], size)} : Finish(d, FALSE)
  /\ NoHistory /\ replaced' = FALSE /\ UNCHANGED text

OpenRel(fail, x00, length) ==
  LET s == [Started(fail) EXCEPT !.err = "none"]
      d == IF file.there THEN open_rel_old(s, length) ELSE open_rel_new(s, x00, length)
  IN /\ ch.mode = "closed" /\ "rel" \in Uses(driver)
     /\ IF file.there THEN file.rel /\ known # "unknown" /\ length \in {0, file.bytes[IF file.x00 THEN Header ELSE 1]}
                      ELSE length > 0
     /\ Finish(d, TRUE) /\ NoHistory /\ replaced' = FALSE
     /\ text' = IF file.there THEN text ELSE <<>>

Delete(fail) ==
  LET d == file_delete([Started(fail) EXCEPT !.err = "none"])
  IN /\ ch.mode = "closed" /\ file.there
     /\ Finish(d, FALSE) /\ NoHistory /\ replaced' = FALSE
     /\ text' = IF d.ok THEN <<>> ELSE text

(* file_close is called for CLOSE, for the next OPEN and for a reset.         *)
Close(fail) ==
  /\ ch.mode # "closed"
  /\ Finish(file_close(Started(fail)), ch.recordlen > 0)
  /\ NoHistory /\ replaced' = FALSE
  /\ text' = IF ch.recordlen > 0 THEN Stored(sent) ELSE text

(* iec_listen_handler: a full buffer is flushed before the next byte, a       *)
(* record when its last byte has come.                                      *)
PutByte(s, c) ==
  LET b    == s.ch
      next == (b.position + 1) % (Block + 2)
  IN [s EXCEPT !.ch.data[b.position] = c, !.ch.dirty = TRUE, !.ch.lastused = Most(@, b.position),
               !.ch.position = next, !.ch.mustflush = @ \/ next = 0]

listen(d, c, eoi) ==
  Then(IF d.ch.mustflush THEN refill(d) ELSE d, LAMBDA s :
    IF s.ch.recordlen > 0 /\ eoi THEN refill(PutByte(s, c)) ELSE PutByte(s, c))

Send(fail, c, eoi) ==
  /\ ch.write /\ heard = <<>>
  /\ IF ch.recordlen > 0 THEN rec[1] < MaxText /\ Len(sent) + rec[2] < Block
                         ELSE Len(text) < MaxText /\ ~eoi
  /\ \E flushed \in {~ch.mustflush \/ refill(Started(fail)).ok}, d \in {listen(Started(fail), c, eoi)} :
       LET after == IF flushed THEN Append(sent, c) ELSE sent
       IN /\ Finish(d, ch.recordlen > 0)
          /\ IF ch.recordlen = 0
             THEN text' = (IF flushed THEN Append(text, c) ELSE text) /\ UNCHANGED <<sent, rec>>
             ELSE IF eoi THEN text' = Stored(after) /\ sent' = <<>> /\ rec' = <<rec[1] + 1, 0>>
                         ELSE sent' = after /\ UNCHANGED <<text, rec>>
  /\ replaced' = FALSE /\ UNCHANGED <<heard, ended>>

(* iec_talk_handler: the byte at position; behind the last one the next        *)
(* block, unless the file ends there.                                        *)
talk(d) ==
  IF ch.position < ch.lastused THEN d
  ELSE IF ch.sendeoi /\ ch.recordlen = 0 THEN [d EXCEPT !.ch.read = FALSE] ELSE refill(d)

Talk(fail) ==
  /\ ch.read /\ ~ended /\ sent = <<>>
  /\ \E d \in {talk([Started(fail) EXCEPT !.ch.position = (@ + 1) % (Block + 2)])} :
       Finish(d, ch.recordlen > 0)
  /\ heard' = Append(heard, ch.data[ch.position])
  /\ ended' = (ch.position = ch.lastused /\ ch.sendeoi)
  /\ replaced' = FALSE /\ UNCHANGED <<text, sent, rec>>

(* The computer goes on with the next record.                                *)
Proceed ==
  /\ ended /\ ch.mode = "rel" /\ rec[1] < MaxText
  /\ rec' = <<rec[1] + 1, 0>> /\ heard' = <<>> /\ ended' = FALSE
  /\ UNCHANGED <<driver, file, ch, err, errno, faults, known, text, sent, replaced>>

(* parse_position: a record and a byte of it, or an offset; what was sent of   *)
(* the record before is stored.                                             *)
Position(fail, record, index) ==
  LET rel == ch.recordlen > 0
      d   == file_seek(Started(fail), IF rel THEN record * ch.recordlen ELSE record, index)
  IN /\ ch.mode # "closed"
     /\ IF rel THEN /\ record <= MaxText /\ index < ch.recordlen
                    /\ index > 0 /\ "behind" \notin Uses(driver) =>
                         LET now == Stored(sent)
                         IN record < Len(now) /\ index < LastNonZero(now[record + 1], ch.recordlen)
               ELSE ch.mode = "read" /\ ch.read /\ "seek" \in Uses(driver) /\ index = 0 /\ record <= Size(Started(fail)) - ch.head
     /\ Finish(d, rel)
     /\ text' = IF rel THEN Stored(sent) ELSE text
     /\ sent' = <<>> /\ rec' = <<record, index>> /\ heard' = <<>> /\ ended' = FALSE /\ replaced' = FALSE

Init ==
  /\ driver \in Drivers
  /\ file = NoFile /\ ch = NewBuffer /\ err = "none" /\ errno = "none" /\ faults = 0
  /\ known = "whole" /\ text = <<>> /\ sent = <<>> /\ rec = <<0, 0>> /\ heard = <<>>
  /\ ended = FALSE /\ replaced = FALSE

Next ==
  \/ \E f \in Calls :
       \/ \E x00 \in BOOLEAN :
            OpenWrite(f, x00) \/ OpenReplace(f, x00) \/ \E n \in RecLens \cup {0} : OpenRel(f, x00, n)
       \/ OpenRead(f) \/ Delete(f) \/ Close(f) \/ Talk(f)
       \/ \E size \in {0, Wrap - 1} : OpenAppend(f, size)
       \/ \E c \in IF ch.recordlen > 0 THEN RelBytes ELSE {Len(text) + 1}, eoi \in BOOLEAN : Send(f, c, eoi)
       \/ \E r \in 0 .. MaxText, i \in 0 .. Block - 1 : Position(f, r, i)
  \/ Proceed

Spec == Init /\ [][Next]_vars

(***************************************************************************)
(* Properties.                                                             *)
(***************************************************************************)

TypeOK ==
  /\ driver \in Drivers /\ faults \in 0 .. MaxFaults /\ known \in {"whole", "cut", "unknown"}
  /\ file.size \in 0 .. Capacity /\ Len(file.bytes) <= Capacity
  /\ ch.position \in Indices /\ ch.lastused \in Indices /\ ch.at \in 0 .. Capacity
  /\ ch.fptr \in 0 .. Wrap - 1 /\ ch.recordlen \in RecLens \cup {0}

(* What a closed file holds is what was sent, behind its header: for a         *)
(* relative file the records as they were written last, each filled up with    *)
(* zeros, and the marker of an empty one in every gap; what a full medium cut  *)
(* off is missing at the end only (fatops.c 381-487, 500-574).               *)
RECURSIVE Joined(_)
Joined(records) == IF records = <<>> THEN <<>> ELSE Head(records) \o Joined(Tail(records))

StoredAsSent ==
  /\ TypeOK
  /\ ch.mode = "closed" /\ file.there /\ known # "unknown" =>
       LET head  == IF file.x00 THEN Header ELSE IF file.rel THEN 1 ELSE 0
           body  == SubSeq(file.bytes, head + 1, file.size)
           whole == IF file.rel THEN Joined(text) ELSE text
       IN /\ file.size >= head
          /\ IF known = "cut" THEN IsPrefix(body, whole) ELSE body = whole

(* What the computer reads is what was sent, from where it positioned to, and  *)
(* all of it when the drive says it was the last byte; a record without its    *)
(* trailing zeros, an empty file as a single CR (fatops.c 336-372, iec.c       *)
(* 415-478).                                                               *)
HearsFile ==
  known = "whole" /\ (ch.mode # "closed" \/ ended) =>
    LET r == rec[1] + 1
        content == IF ~file.rel THEN SubSeq(text, r, Len(text))
                   ELSE IF r > Len(text) THEN <<255>>
                   ELSE SubSeq(text[r], rec[2] + 1, LastNonZero(text[r], Len(text[r])))
        expected == IF content = <<>> THEN <<13>> ELSE content
    IN IF ended THEN heard = expected ELSE IsPrefix(heard, expected)

(* After a command that replaces a file there is a file open for what is to     *)
(* replace it, or the computer is told of an error (fileops.c, vfs_delete).   *)
ReplaceSaves == replaced => ch.mode = "write" \/ err # "none"
=============================================================================
