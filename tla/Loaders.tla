------------------------------ MODULE Loaders ------------------------------
(***************************************************************************)
(* The fast loaders (fl-*.c): a handler that doscmd.c calls in place of the *)
(* program the computer believes to run in the drive, and that serves the   *)
(* computer until it is told to leave.                                     *)
(*                                                                         *)
(* Some send or store a file, block by block, in a protocol of their own;   *)
(* others read and write sectors.  Meanwhile the user may press a key that  *)
(* mounts another disk and takes all buffers of files away.                 *)
(*                                                                         *)
(* A transfer of one block or sector is one step; lines and timing are left *)
(* out, the bytes and marks sent are not.  What the computer makes of them  *)
(* is external: Hears.                                                     *)
(***************************************************************************)
EXTENDS Integers, Sequences, FiniteSets

CONSTANTS
  FileLoaders,    (* loaders that send a file: the names of Says *)
  Savers,         (* loaders that store one: "fc3save", "dolphinsave", "samssave", "ar6save" *)
  SectorLoaders,  (* "uload3", "dreamload", "nippon", "geos", "geos_s1", "wheels", "mmzak" *)
  Drivers,        (* what stores a file: "fat" (and POSIX), "d64" *)
  Block,          (* bytes of a file in a buffer: 254 *)
  Texts,          (* contents of files *)
  Images,         (* for each disk of the swap list, its sectors: [next, bytes] *)
  Sent,           (* bytes the computer writes to a sector *)
  Slots,          (* CONFIG_BUFFER_COUNT *)
  Tells,          (* the loaders under which a medium may fail *)
  MaxTurns,       (* commands of the computer to one loader *)
  KeysInSave,     (* the user changes the disk while a file is stored *)
  LeavesInWrite,  (* the computer, or the user, leaves between a command to write and the data *)
  FastComputer    (* the computer sends a job before the drive is ready for it *)

Loaders == FileLoaders \cup Savers \cup SectorLoaders
Width   == Block + 2        (* positions in a buffer are modulo this: 2^8 *)
Top     == Width - 1
System  == 128              (* BUFFER_SEC_SYSTEM *)
Sectors == DOMAIN Images[1]
Sector  == [next : Sectors \cup {0}, bytes : Seq(Nat)]
Nobody  == [next |-> 0, bytes |-> <<>>]

ASSUME LoadersAssumption ==
  /\ FileLoaders \subseteq {"turbodisk", "ar6", "eload", "epyx", "fc3", "fc3freezed", "oldfreeze",
                            "gijoe", "n0sdos", "dolphin", "sams", "wheels_s1"}
  /\ Savers \subseteq {"fc3save", "dolphinsave", "samssave", "ar6save"}
  /\ SectorLoaders \subseteq {"uload3", "dreamload", "nippon", "geos", "geos_s1", "wheels", "mmzak"}
  /\ Drivers \subseteq {"fat", "d64"}
  /\ {Block, Slots} \subseteq Nat \ {0} /\ Block > 1 /\ MaxTurns \in Nat
  /\ {KeysInSave, LeavesInWrite, FastComputer} \subseteq BOOLEAN
  /\ Texts \subseteq Seq(Nat) \ {<<>>} /\ Sent \subseteq Seq(Nat)

(* The disks of the list are alike in their sectors.                        *)
ASSUME ImagesAssumption ==
  /\ Images \in Seq(Seq(Sector)) /\ Images # <<>> /\ Images[1] # <<>>
  /\ \A d \in DOMAIN Images : Len(Images[d]) = Len(Images[1])

(* AR6 sends the same for the end of a file and for an error.                *)
ASSUME TellsAssumption == "ar6" \notin Tells

VARIABLES
  loader,   (* detected_loader *)
  driver,   (* of the partition *)
  pc,       (* "start", "command", "block", "chain", "data", "done", "over" *)
  pool,     (* the buffers *)
  mine,     (* the buffers the handler has pointers to *)
  error,    (* current_error *)
  image,    (* the disk mounted *)
  store,    (* the sectors of all disks *)
  file,     (* the contents of the file that is stored *)
  first,    (* the first block is yet to be sent *)
  at,       (* the sector that a chain or a write is at, 0 if none *)
  job,      (* fl_sector, 0 if there is none *)
  dir_changed,
  c64,      (* history: what the computer asked for, sent, and was told *)
  turns, faults

vars == <<loader, driver, pc, pool, mine, error, image, store, file, first, at, job, dir_changed, c64, turns, faults>>
-----------------------------------------------------------------------------
(* buffers.c, as far as loaders use it.                                     *)
Slot    == 1 .. Slots
Indices == 0 .. Top
Free    == [allocated |-> FALSE, secondary |-> 0, what |-> "nothing", data |-> [i \in Indices |-> 0],
            position |-> 2, lastused |-> 2, sendeoi |-> FALSE, mustflush |-> FALSE, rest |-> <<>>,
            sector |-> Nobody]

Lowest(S)        == IF S = {} THEN 0 ELSE CHOOSE s \in S : \A t \in S : s <= t
FreeSlot(p)      == Lowest({s \in Slot : ~p[s].allocated})
find_buffer(p, sec) == Lowest({s \in Slot : p[s].allocated /\ p[s].secondary = sec})
Allocated(p, sec, what) ==
  IF FreeSlot(p) = 0 THEN p
  ELSE [p EXCEPT ![FreeSlot(p)] = [Free EXCEPT !.allocated = TRUE, !.secondary = sec, !.what = what]]
FreedSlots(p, S) == [s \in Slot |-> IF s \in S THEN [p[s] EXCEPT !.allocated = FALSE] ELSE p[s]]
User(p)          == {s \in Slot : p[s].allocated /\ p[s].secondary < System}

alloc_system_buffer(p, what) == Allocated(p, System, what)
alloc_buffer(p, what)        == Allocated(p, 0, what)

(* The next block of a file: refill of a file that is read.                 *)
Least(a, b) == IF a < b THEN a ELSE b
Filled(b) ==
  LET n == Least(Block, Len(b.rest))
  IN [b EXCEPT !.data = [i \in Indices |-> IF i \in 2 .. n + 1 THEN b.rest[i - 1] ELSE @[i]],
               !.position = 2, !.lastused = n + 1, !.rest = SubSeq(@, n + 1, Len(@)),
               !.sendeoi = (Len(b.rest) = n)]
OpenFile(p, sec, text) ==
  LET q == Allocated(p, sec, "file")  s == FreeSlot(p)
  IN [q EXCEPT ![s] = Filled([@ EXCEPT !.rest = text])]

NewFile(p, sec) == Allocated(p, sec, "file")

(* Bytes a buffer is sent from; behind it is the next one's.                *)
Behind     == 77
Byte(b, i) == IF i \in Indices THEN b.data[i] ELSE Behind
Bytes(b, from, to) == [i \in 1 .. to - from + 1 |-> Byte(b, from + i - 1)]
-----------------------------------------------------------------------------
(***************************************************************************)
(* What the loaders that send a file say: for a block of it, at its end,    *)
(* when the next block could not be read, when there is no such file.       *)
(***************************************************************************)
DataLow == -1   (* DATA is pulled low *)
BothLow == -2   (* CLOCK and DATA are *)
Hold    == -3   (* CLOCK is released and the handshake awaited *)

Once(esc, x) == IF x = esc THEN <<esc, esc>> ELSE <<x>>
Escaped(esc, bytes) ==
  LET sent[i \in 0 .. Len(bytes)] == IF i = 0 THEN <<>> ELSE sent[i - 1] \o Once(esc, bytes[i])
  IN sent[Len(bytes)]

(* A count, then that many bytes.                                           *)
Counted(b) == <<b.lastused - 1>> \o Bytes(b, 2, b.lastused)
ar6(b)   == Counted(b)
eload(b) == Counted(b)
epyx(b)  == Counted(b)

(* No count: the link in the sector, or the computer's own count, tells it.  *)
oldfreeze(b) == Bytes(b, 2, b.lastused)
wheels_s1(b) == Bytes(b, 0, Top)
n0sdos(b)    == Bytes(b, b.position, b.position + Block - 1)

(* A status, the address of the file, and the block; the last one with a    *)
(* count and at least one byte.                                            *)
turbodisk(b) ==
  LET p == IF first THEN b.position + 2 ELSE b.position
  IN <<IF b.sendeoi THEN 0 ELSE 1>>
     \o (IF first THEN Bytes(b, b.position, b.position + 1) ELSE <<>>)
     \o IF b.sendeoi
        THEN <<(b.lastused - p + 2) % Width>> \o Bytes(b, p, IF b.lastused < p THEN p ELSE b.lastused)
        ELSE Bytes(b, p, p + Block - 1)

(* A counter, the index of the last byte or 0, and more than the buffer.    *)
fc3(b) == <<0, IF b.sendeoi THEN b.lastused ELSE 0>> \o Bytes(b, 2, 2 + Width)

gijoe(b) == Escaped(172, Bytes(b, b.position, b.lastused)) \o IF b.sendeoi THEN <<172, 255>> ELSE <<172, 195>>

(* All of the block, except the last.                                       *)
dolphin(b) == Bytes(b, 2, IF b.sendeoi THEN b.lastused ELSE Top)

transmit_block(marker, bytes) == <<(Len(bytes) + 2) % Width, marker>> \o bytes
sams(b) == transmit_block(IF b.sendeoi THEN 1 ELSE 0, Bytes(b, 2, b.lastused))

Says(b) ==
  [turbodisk  |-> turbodisk(b),
   ar6        |-> ar6(b),
   eload      |-> eload(b),
   epyx       |-> epyx(b),
   fc3        |-> fc3(b),
   fc3freezed |-> fc3(b),
   oldfreeze  |-> oldfreeze(b),
   gijoe      |-> gijoe(b),
   n0sdos     |-> n0sdos(b),
   dolphin    |-> dolphin(b),
   sams       |-> sams(b),
   wheels_s1  |-> wheels_s1(b)][loader]

AtEnd ==
  CASE loader \in {"ar6", "eload"} -> <<0>>
    [] loader \in {"fc3", "fc3freezed"} -> <<DataLow>>
    [] loader = "dolphin" -> <<Hold>>
    [] OTHER -> <<>>

gijoe_error == <<254, 254, 172, 247>>
eload_eof == <<0>>   (* mutant *)
eload_error == <<255>>

WhenItFails ==
  CASE loader = "ar6" -> <<0>>
    [] loader = "turbodisk" -> <<255>>
    [] loader = "eload" -> eload_error
    [] loader \in {"fc3", "fc3freezed"} -> <<BothLow>>
    [] loader = "gijoe" -> gijoe_error
    [] loader \in {"sams", "samssave"} -> transmit_block(255, <<>>)
    [] OTHER -> <<>>

WhenThereIsNone ==
  CASE loader = "n0sdos" -> <<255>>
    [] loader = "ar6" -> <<>>
    [] OTHER -> WhenItFails
-----------------------------------------------------------------------------
(* The computer's side of the protocols: the bytes of the file in a message  *)
(* and the verdict in it.                                                  *)
Silent == [bytes |-> <<>>, mark |-> FALSE, over |-> FALSE]
Listen(esc, h, x) ==
  IF h.over THEN h
  ELSE IF h.mark
       THEN IF x = esc THEN [bytes |-> Append(h.bytes, x), mark |-> FALSE, over |-> FALSE]
            ELSE [h EXCEPT !.over = TRUE]   (* the mark at the end *)
       ELSE IF x = esc THEN [h EXCEPT !.mark = TRUE] ELSE [h EXCEPT !.bytes = Append(@, x)]

Listening(esc, m) ==
  LET heard[i \in 0 .. Len(m)] == IF i = 0 THEN Silent ELSE Listen(esc, heard[i - 1], m[i])
  IN heard[Len(m)]
Unescaped(esc, m) == Listening(esc, m).bytes

Cut(s, n) == SubSeq(s, 1, Least(n, Len(s)))
From(s, n) == SubSeq(s, n, Len(s))

HeardTurbodisk(m) ==
  LET address == IF first THEN SubSeq(m, 2, 3) ELSE <<>>
      data    == From(m, Len(address) + 2)
  IN CASE m[1] = 0 -> address \o Cut(Tail(data), data[1] - 1)
       [] m[1] = 1 -> address \o Cut(data, Block - Len(address))
       [] OTHER    -> <<>>

Hears(m) ==
  CASE loader = "turbodisk" -> HeardTurbodisk(m)
    [] loader \in {"ar6", "eload", "epyx"} -> Tail(m)
    [] loader \in {"fc3", "fc3freezed"} ->
         IF Len(m) < 2 THEN <<>> ELSE Cut(From(m, 3), IF m[2] = 0 THEN Block ELSE m[2] - 1)
    [] loader = "gijoe" -> IF m = gijoe_error THEN <<>> ELSE Unescaped(172, m)
    [] loader = "sams" -> From(m, 3)
    [] loader = "wheels_s1" -> From(m, 3)
    [] loader = "dolphin" -> IF m = <<Hold>> THEN <<>> ELSE m
    [] OTHER -> m

Verdict(m) ==
  IF m = <<>> THEN "none"
  ELSE CASE loader = "turbodisk" -> (IF m[1] = 0 THEN "complete" ELSE IF m[1] = 1 THEN "none" ELSE "error")
         [] loader \in {"ar6", "eload"} -> (IF m[1] = 0 THEN "complete" ELSE IF m[1] = 255 THEN "error" ELSE "none")
         [] loader \in {"fc3", "fc3freezed", "dolphin"} ->
              (IF m[1] \in {DataLow, Hold} THEN "complete" ELSE IF m[1] = BothLow THEN "error" ELSE "none")
         [] loader = "gijoe" ->
              (IF m = gijoe_error THEN "error" ELSE IF m[Len(m)] = 255 THEN "complete" ELSE "none")
         [] loader = "sams" -> (IF m[2] = 1 THEN "complete" ELSE IF m[2] = 255 THEN "error" ELSE "none")
         [] OTHER -> "none"

Told(c, m) ==
  IF m = <<>> THEN c
  ELSE [c EXCEPT !.got = @ \o Hears(m), !.verdict = IF Verdict(m) = "none" THEN @ ELSE Verdict(m)]
-----------------------------------------------------------------------------
(***************************************************************************)
(* The session.                                                            *)
(***************************************************************************)
NoFileYet == [text |-> <<>>, got |-> <<>>, verdict |-> "none", left |-> <<>>, saved |-> FALSE,
              want |-> Nobody.bytes, heard |-> Nobody.bytes, said |-> "nothing", changed |-> FALSE]

ByName   == {"turbodisk", "epyx", "gijoe", "n0sdos", "sams", "wheels_s1", "samssave"}
Repeats  == {"eload", "gijoe", "n0sdos", "sams", "samssave"}   (* serve one command after the other *)
Unused == [s \in Slot |-> Free]
Opened(n) == [s \in Slot |-> IF s <= n THEN [Free EXCEPT !.allocated = TRUE, !.secondary = 1 + s, !.what = "file"] ELSE Free]

(* The computer has opened the file of a loader that takes it from a        *)
(* channel, or failed to; it may have left files open before it starts one  *)
(* that serves sectors; the code GEOS sends first is captured.              *)
Init ==
  /\ loader \in Loaders /\ driver \in (IF loader \in Savers THEN Drivers ELSE {"fat"})
  /\ \/ /\ loader \in (FileLoaders \cup Savers) \ ByName
        /\ \E t \in Texts :
             /\ c64 = [NoFileYet EXCEPT !.text = t, !.left = t]
             /\ pool \in {Unused, IF loader \in Savers THEN NewFile(Unused, 1) ELSE OpenFile(Unused, 0, t)}
     \/ loader \in ByName /\ pool = Unused /\ c64 = NoFileYet
     \/ loader \in SectorLoaders \ {"geos_s1"} /\ pool \in {Opened(n) : n \in 0 .. Slots} /\ c64 = NoFileYet
     \/ loader = "geos_s1" /\ pool = alloc_system_buffer(Unused, "capture") /\ c64 = NoFileYet
  /\ pc = "start" /\ mine = {} /\ error = 0 /\ image = 1
  /\ store = Images /\ file = <<>> /\ first = TRUE /\ at = 0 /\ job = 0
  /\ dir_changed = FALSE /\ turns = 0 /\ faults = 0

Disk   == <<image, store, dir_changed>>
Fixed  == <<loader, driver>>

(* The handler returns; doscmd.c and the bus free what is not sticky.       *)
Leave == pc' = "done"
Sweep ==
  /\ pc = "done" /\ pc' = "over"
  /\ pool' = FreedSlots(pool, {s \in Slot : pool[s].what # "file"})
  /\ UNCHANGED <<Fixed, mine, error, Disk, file, first, at, job, c64, turns, faults>>

(* A handler that finds the file on channel 0 or 1, or does not.            *)
StartOnChannel ==
  /\ pc = "start" /\ loader \in (FileLoaders \cup Savers) \ (ByName \cup {"eload"})
  /\ LET b == find_buffer(pool, IF loader \in Savers THEN 1 ELSE 0)
     IN IF b = 0
        THEN /\ Leave /\ mine' = {}
             /\ c64' = Told(c64, IF loader \in Savers THEN <<>> ELSE WhenThereIsNone)
        ELSE /\ pc' = (IF loader \in Savers THEN "save" ELSE "block") /\ mine' = {b}
             /\ UNCHANGED c64
  /\ UNCHANGED <<Fixed, pool, error, Disk, file, first, at, job, turns, faults>>

StartCommands ==
  /\ pc = "start" /\ pc' = "command"
  /\ loader \in ByName \cup {"eload", "uload3"}
  /\ UNCHANGED <<Fixed, pool, mine, error, Disk, file, first, at, job, c64, turns, faults>>

Turn == pc = "command" /\ turns < MaxTurns /\ turns' = turns + 1

(* eload: a command to load what is open on channel 0; the computer opens it *)
(* anew for another.                                                       *)
LoadChannel ==
  /\ Turn /\ loader = "eload" /\ c64.verdict = "none"
  /\ LET b == find_buffer(pool, 0)
     IN IF b = 0
        THEN /\ Leave /\ mine' = {} /\ c64' = Told(c64, eload_error)
        ELSE /\ pc' = "block" /\ mine' = {b} /\ UNCHANGED c64
  /\ UNCHANGED <<Fixed, pool, error, Disk, file, first, at, job, faults>>

(* file_open closes what is on the channel, and sets the error.             *)
Name(sec) ==
  LET b == find_buffer(pool, sec) IN FreedSlots(pool, IF b = 0 THEN {} ELSE {b})

LoadByName ==
  /\ Turn /\ loader \in FileLoaders \cap ByName
  /\ FreeSlot(Name(0)) # 0
  /\ \E t \in Texts :
       /\ loader = "turbodisk" => Len(t) > 1   (* a program has an address *)
       /\ pool' = OpenFile(Name(0), 0, t) /\ mine' = {FreeSlot(Name(0))}
       /\ c64' = [NoFileYet EXCEPT !.text = t]
  /\ pc' = "block" /\ error' = 0 /\ first' = TRUE
  /\ UNCHANGED <<Fixed, Disk, file, at, job, faults>>

(* There is no such file, or no buffer for it.                              *)
NotFound ==
  /\ Turn /\ loader \in ByName
  /\ pool' = Name(IF loader \in Savers THEN 1 ELSE 0) /\ error' = 62
  /\ c64' = [NoFileYet EXCEPT !.verdict = IF WhenThereIsNone = <<>> THEN "none" ELSE "error"]
  /\ IF loader \in Repeats THEN UNCHANGED pc ELSE Leave
  /\ UNCHANGED <<Fixed, mine, Disk, file, first, at, job, faults>>

(* The computer calls the drive by ATN, or the user presses the sleep key,  *)
(* while the handler waits for a command.                                  *)
GoAway ==
  /\ pc = "command" /\ loader \in {"eload", "n0sdos", "sams", "samssave", "uload3"} \cup {"geos", "wheels", "mmzak", "nippon", "dreamload", "gijoe"}
  /\ Leave
  /\ UNCHANGED <<Fixed, pool, mine, error, Disk, file, first, at, job, c64, turns, faults>>
-----------------------------------------------------------------------------
The == CHOOSE s \in mine : TRUE

(* After a file: the handler gives it back and returns or goes on.          *)
Done(keeps) ==
  /\ pool' = IF keeps THEN pool ELSE FreedSlots(pool, mine)
  /\ IF loader \in Repeats THEN pc' = "command" ELSE Leave

Keeps == {"ar6", "eload"}

LastBlock ==
  /\ pc = "block" /\ loader # "n0sdos" /\ pool[The].sendeoi
  /\ c64' = Told(Told(c64, Says(pool[The])), AtEnd)
  /\ Done(loader \in Keeps)
  /\ mine' = {} /\ first' = FALSE
  /\ UNCHANGED <<Fixed, error, Disk, file, at, job, turns, faults>>

NextBlock ==
  /\ pc = "block" /\ loader # "n0sdos" /\ ~pool[The].sendeoi
  /\ c64' = Told(c64, Says(pool[The]))
  /\ pool' = [pool EXCEPT ![The] = Filled(@)]
  /\ first' = FALSE
  /\ UNCHANGED <<Fixed, pc, mine, error, Disk, file, at, job, turns, faults>>

(* The next block cannot be read: the callback frees the buffer.            *)
BlockFails ==
  /\ pc = "block" /\ loader \in Tells \ {"n0sdos"} /\ ~pool[The].sendeoi
  /\ faults = 0 /\ faults' = 1
  /\ c64' = Told(Told(c64, Says(pool[The])), WhenItFails)
  /\ error' = 20 /\ Done(FALSE)
  /\ mine' = {} /\ first' = FALSE
  /\ UNCHANGED <<Fixed, Disk, file, at, job, turns>>

(* n0sdos sends blocks, the last one again and again, until the computer     *)
(* has what it knows to be in the file.                                     *)
Repeating ==
  /\ pc = "block" /\ loader = "n0sdos"
  /\ IF Len(c64.got) >= Len(c64.text)
     THEN /\ c64' = [c64 EXCEPT !.got = Cut(@, Len(c64.text)), !.verdict = "complete"]
          /\ Done(FALSE) /\ mine' = {}
     ELSE /\ c64' = Told(c64, Says(pool[The]))
          /\ pool' = IF pool[The].sendeoi THEN pool ELSE [pool EXCEPT ![The] = Filled(@)]
          /\ UNCHANGED <<pc, mine>>
  /\ UNCHANGED <<Fixed, error, Disk, file, first, at, job, turns, faults>>

(* ATN while a block is sent.                                               *)
Abort ==
  /\ pc = "block" /\ loader \in {"eload", "epyx", "fc3", "fc3freezed", "oldfreeze", "dolphin", "n0sdos"}
  /\ c64' = [c64 EXCEPT !.verdict = "gave up"]
  /\ pool' = IF loader = "eload" THEN pool ELSE FreedSlots(pool, mine)
  /\ Leave /\ mine' = {}
  /\ UNCHANGED <<Fixed, error, Disk, file, first, at, job, turns, faults>>
-----------------------------------------------------------------------------
(***************************************************************************)
(* Loaders that store a file.  w is the buffer and the file.                *)
(***************************************************************************)
Writer(b) == [b |-> b, file |-> file]

(* write_data takes what is before the position unless the buffer is full;  *)
(* a sector of a disk image is stored whole, and counted when it is last.   *)
Stored(w, last) ==
  LET used == IF driver = "d64" THEN (IF last THEN w.b.lastused ELSE Top)
              ELSE IF w.b.mustflush THEN w.b.lastused ELSE (w.b.position - 1) % Width
  IN [b    |-> [w.b EXCEPT !.position = 2, !.lastused = IF driver = "d64" THEN 1 ELSE 2, !.mustflush = FALSE],
      file |-> w.file \o Bytes(w.b, 2, used)]

Flush(w) == IF w.b.mustflush THEN Stored(w, FALSE) ELSE w

PutUnflushed(w, x) ==   (* mutant: the flush is forgotten *)
  LET p == w.b.position
  IN [w EXCEPT !.b.data[p] = x, !.b.lastused = IF @ < p THEN p ELSE @,
               !.b.position = (p + 1) % Width, !.b.mustflush = @ \/ (p + 1) % Width = 0]

Put(w, x) ==
  LET f == Flush(w)
      p == f.b.position
  IN [f EXCEPT !.b.data[p] = x, !.b.lastused = IF @ < p THEN p ELSE @,
               !.b.position = (p + 1) % Width, !.b.mustflush = @ \/ (p + 1) % Width = 0]

Putting(w, bytes) ==
  LET into[i \in 0 .. Len(bytes)] == IF i = 0 THEN w ELSE Put(into[i - 1], bytes[i])
  IN into[Len(bytes)]

SaveByName ==
  /\ Turn /\ loader = "samssave"
  /\ FreeSlot(Name(1)) # 0
  /\ \E t \in Texts :
       /\ c64' = [NoFileYet EXCEPT !.text = t, !.left = t]
       /\ pool' = NewFile(Name(1), 1) /\ mine' = {FreeSlot(Name(1))}
  /\ file' = <<>> /\ error' = 0 /\ pc' = "save"
  /\ UNCHANGED <<Fixed, Disk, first, at, job, faults>>

(* A block: its count, zero for a full one, and the bytes.                  *)
ReceiveBlock ==
  /\ pc = "save" /\ loader # "ar6save"
  /\ LET n == Least(Block, Len(c64.left))
         w == Putting(Writer(pool[The]), Cut(c64.left, n))
     IN /\ n > 0
        /\ pool' = [pool EXCEPT ![The] = w.b] /\ file' = w.file
        /\ c64' = [c64 EXCEPT !.left = From(@, n + 1)]
  /\ UNCHANGED <<Fixed, pc, mine, error, Disk, first, at, job, turns, faults>>

Finished ==
  /\ pc = "save" /\ loader # "ar6save" /\ c64.left = <<>>
  /\ file' = Stored(Writer(pool[The]), TRUE).file
  /\ c64' = [c64 EXCEPT !.saved = TRUE]
  /\ Done(FALSE) /\ mine' = {}
  /\ UNCHANGED <<Fixed, error, Disk, first, at, job, turns, faults>>

(* ATN while a file is stored.                                              *)
SaveAborted ==
  /\ pc = "save" /\ loader = "samssave"
  /\ file' = Stored(Writer(pool[The]), TRUE).file
  /\ pool' = FreedSlots(pool, mine) /\ mine' = {} /\ Leave
  /\ UNCHANGED <<Fixed, error, Disk, first, at, job, c64, turns, faults>>

(* ar6: a whole sector, link and all, whose link says how much is in it.     *)
ReceiveSector ==
  /\ pc = "save" /\ loader = "ar6save"
  /\ LET n == Least(Block, Len(c64.left))
         last == n = Len(c64.left)
         b == [pool[The] EXCEPT
                !.data = [i \in Indices |-> IF i \in 2 .. n + 1 THEN c64.left[i - 1]
                                            ELSE IF i = 0 THEN IF last THEN 0 ELSE 1
                                            ELSE IF i = 1 /\ last THEN n + 1 ELSE 0],
                !.position = IF last THEN n + 1 ELSE 0]
         w == Stored(Writer(b), FALSE)
         goes_on == driver = "d64" \/ ~last   (* the link is that of the sector stored next *)
     IN /\ n > 0
        /\ file' = w.file
        /\ c64' = [c64 EXCEPT !.left = From(@, n + 1), !.saved = ~goes_on]
        /\ IF goes_on THEN pool' = [pool EXCEPT ![The] = w.b] /\ UNCHANGED <<pc, mine>>
           ELSE Done(FALSE) /\ mine' = {}
  /\ UNCHANGED <<Fixed, error, Disk, first, at, job, turns, faults>>
-----------------------------------------------------------------------------
(***************************************************************************)
(* Loaders that read and write sectors.                                    *)
(***************************************************************************)
Data == CHOOSE s \in mine : pool[s].what # "command"

start_user ==   (* mutant: memory for data *)
  IF loader = "geos" THEN alloc_buffer(alloc_system_buffer(pool, "command"), "sector")
  ELSE alloc_buffer(pool, "sector")

start_buffers ==
  IF loader = "geos" THEN alloc_system_buffer(alloc_system_buffer(pool, "command"), "sector")
  ELSE IF loader = "geos_s1" THEN alloc_buffer(pool, "sector")
  ELSE alloc_system_buffer(pool, "sector")

StartSectors ==
  /\ pc = "start" /\ loader \in SectorLoaders \ {"uload3"}
  /\ pool' = start_buffers
  /\ mine' = {s \in Slot : pool'[s].what \in {"command", "sector"}}
  /\ \/ /\ \E s \in mine' : pool'[s].what = "sector"
        /\ IF loader = "geos_s1" THEN pc' = "chain" /\ at' = 1 ELSE pc' = "command" /\ UNCHANGED at
     \/ /\ \A s \in mine' : pool'[s].what # "sector"
        /\ Leave /\ UNCHANGED at
  /\ UNCHANGED <<Fixed, error, Disk, file, first, job, c64, turns, faults>>

(* read_sector and write_sector set the error when they fail, and only then: *)
(* what may come of a call, and what the disk has for the computer.         *)
NoSector == 0
Fails == loader \in Tells /\ faults = 0

read_sector(s) ==
  (IF s = NoSector THEN {[sector |-> pool[Data].sector, error |-> 66, faults |-> faults, want |-> <<>>]}
   ELSE {[sector |-> store[image][s], error |-> error, faults |-> faults, want |-> store[image][s].bytes]})
  \cup IF Fails THEN {[sector |-> pool[Data].sector, error |-> 20, faults |-> 1, want |-> <<>>]} ELSE {}

write_sector(s, x) ==
  (IF s = NoSector THEN {[store |-> store, error |-> 66, faults |-> faults]}
   ELSE {[store |-> [store EXCEPT ![image][s].bytes = x], error |-> error, faults |-> faults]})
  \cup IF Fails THEN {[store |-> store, error |-> 26, faults |-> 1]} ELSE {}

On(disk, s) == IF s = NoSector THEN <<>> ELSE disk[image][s].bytes
Addresses   == Sectors \cup IF loader \in Tells THEN {NoSector} ELSE {}

StatusGood(e)      == "ok"   (* mutant *)
transmit_status(e) == CASE e = 0 -> "ok" [] e = 26 -> "protected" [] OTHER -> "error"

InBuffer(x) == [pool EXCEPT ![Data].sector.bytes = x]
Asks(want, heard, said) == [c64 EXCEPT !.want = want, !.heard = heard, !.said = said]

(* What the computer gets with an answer: the sector, a status, or both.     *)
Heard(parts, r) == IF "data" \in parts THEN r.sector.bytes ELSE <<>>
Said(parts, r)  == IF "status" \in parts THEN transmit_status(r.error) ELSE "nothing"

(* A command to read: the answer comes at once, or is asked for later.       *)
ReadSector(loaders, parts) ==
  /\ Turn /\ loader \in loaders
  /\ \E s \in Addresses : \E r \in read_sector(s) :
       /\ pool' = [pool EXCEPT ![Data].sector = r.sector]
       /\ error' = r.error /\ faults' = r.faults
       /\ c64' = Asks(r.want, Heard(parts, r), Said(parts, r))
  /\ UNCHANGED <<Fixed, pc, mine, Disk, file, first, at, job>>

ReadOnly        == ReadSector({"geos"}, {})
ReadAndTransmit == ReadSector({"geos", "wheels"}, {"data", "status"})
ReadLink        == ReadSector({"wheels"}, {"status"})
ReadNippon      == ReadSector({"nippon"}, {"data"})

(* GEOS: what was read before; in stage 2 the data, or the status if it is   *)
(* not good.                                                               *)
Transmit ==
  /\ Turn /\ loader = "geos"
  /\ c64' \in {[c64 EXCEPT !.heard = pool[Data].sector.bytes, !.said = transmit_status(error)],
               [c64 EXCEPT !.heard = IF error = 0 THEN pool[Data].sector.bytes ELSE @,
                           !.said = transmit_status(error)]}
  /\ UNCHANGED <<Fixed, pc, pool, mine, error, Disk, file, first, at, job, faults>>

Asked ==
  /\ Turn /\ loader \in {"geos", "wheels"}
  /\ c64' = [c64 EXCEPT !.said = transmit_status(error)]
  /\ UNCHANGED <<Fixed, pc, pool, mine, error, Disk, file, first, at, job, faults>>

(* A command to write, with its data at once.                               *)
WriteSector(loaders, parts) ==
  /\ Turn /\ loader \in loaders
  /\ \E s \in Addresses, x \in Sent : \E w \in write_sector(s, x) :
       /\ pool' = InBuffer(x) /\ store' = w.store
       /\ error' = w.error /\ faults' = w.faults
       /\ c64' = Asks(x, On(w.store, s), Said(parts, w))
  /\ UNCHANGED <<Fixed, pc, mine, image, dir_changed, file, first, at, job>>

WriteAndTell == WriteSector({"geos", "wheels"}, {"status"})
WriteNippon  == WriteSector({"nippon"}, {})

(* The data that do not come: nippon leaves its loop.                        *)
NipponOutOfStep ==
  /\ Turn /\ loader = "nippon"
  /\ pool' = FreedSlots(pool, mine) /\ mine' = {} /\ Leave
  /\ UNCHANGED <<Fixed, error, Disk, file, first, at, job, c64, faults>>

(* GEOS and mmzak wait for the data of a sector, or for the computer to take *)
(* one, and look at the keys meanwhile.                                     *)
WriteCommand ==
  /\ Turn /\ loader \in {"geos", "mmzak"}
  /\ at' \in Addresses /\ pc' = "data"
  /\ c64' = Asks(<<>>, <<>>, "nothing")
  /\ UNCHANGED <<Fixed, pool, mine, error, Disk, file, first, job, faults>>

DataArrives ==
  /\ pc = "data"
  /\ \E x \in Sent : \E w \in write_sector(at, x) :
       /\ pool' = InBuffer(x) /\ store' = w.store
       /\ error' = w.error /\ faults' = w.faults
       /\ c64' = Asks(x, On(w.store, at), IF loader = "geos" THEN "nothing"
                                         ELSE IF w.error = 0 THEN "ok" ELSE "error")
  /\ pc' = "command" /\ at' = 0
  /\ UNCHANGED <<Fixed, mine, image, dir_changed, file, first, job, turns>>

(* ATN, or the sleep key: GEOS takes this for a block of two zeros, and      *)
(* writes.                                                                 *)
NoDataArrives ==
  /\ pc = "data" /\ (loader = "geos" => LeavesInWrite)
  /\ store' = (IF loader = "geos" /\ at # NoSector
               THEN [store EXCEPT ![image][at] = [next |-> 0, bytes |-> pool[Data].sector.bytes]] ELSE store)
  /\ Leave /\ at' = 0
  /\ UNCHANGED <<Fixed, pool, mine, error, image, dir_changed, file, first, job, c64, turns, faults>>

ReadCommand ==
  /\ Turn /\ loader = "mmzak"
  /\ \E s \in Addresses : \E r \in read_sector(s) :
       /\ pool' = [pool EXCEPT ![Data].sector = r.sector]
       /\ error' = r.error /\ faults' = r.faults
       /\ c64' = Asks(r.want, <<>>, IF r.error = 0 THEN "nothing" ELSE "error")
       /\ pc' = (IF r.error = 0 THEN "sending" ELSE "command")
  /\ UNCHANGED <<Fixed, mine, Disk, file, first, at, job>>

(* A byte 1 is sent twice; 1 and 0x81 end a sector.                          *)
Taken ==
  /\ pc = "sending" /\ pc' = "command"
  /\ LET m == Escaped(1, pool[Data].sector.bytes) \o <<1, 129>>
     IN c64' = [c64 EXCEPT !.heard = Unescaped(1, m), !.said = "ok"]
  /\ UNCHANGED <<Fixed, pool, mine, error, Disk, file, first, at, job, turns, faults>>

(* wheels: the computer asks whether the disk was changed.                   *)
CheckChange ==
  /\ Turn /\ loader = "wheels"
  /\ dir_changed' = FALSE /\ c64' = [c64 EXCEPT !.changed = dir_changed]
  /\ UNCHANGED <<Fixed, pc, pool, mine, error, image, store, file, first, at, job, faults>>
-----------------------------------------------------------------------------
(* dreamload: an interrupt receives the job, the main loop does it and then  *)
(* clears it.                                                              *)
JobArrives ==
  /\ loader = "dreamload" /\ turns < MaxTurns /\ turns' = turns + 1
  /\ (pc = "command" /\ job = 0) \/ (FastComputer /\ pc = "clear")
  /\ job' \in Sectors
  /\ c64' = Asks(store[image][job'].bytes, <<>>, "nothing")
  /\ UNCHANGED <<Fixed, pc, pool, mine, error, Disk, file, first, at, faults>>

DoJob ==
  /\ loader = "dreamload" /\ pc = "command" /\ job # 0
  /\ \E r \in read_sector(job) :
       /\ pool' = [pool EXCEPT ![Data].sector = r.sector]
       /\ error' = r.error /\ faults' = r.faults
       /\ c64' = Asks(r.want, r.sector.bytes, "nothing")
  /\ pc' = "clear"
  /\ UNCHANGED <<Fixed, mine, Disk, file, first, at, job, turns>>

ClearJob ==
  /\ pc = "clear" /\ pc' = "command" /\ job' = 0
  /\ UNCHANGED <<Fixed, pool, mine, error, Disk, file, first, at, c64, turns, faults>>
-----------------------------------------------------------------------------
(* uload3: a chain of sectors from the one the computer names.  A buffer     *)
(* whose sector could not be read is not given back.                        *)
StartChain ==
  /\ Turn /\ loader = "uload3"
  /\ \/ /\ FreeSlot(pool) = 0
        /\ error' = 70 /\ c64' = Asks(<<>>, <<>>, "error")
        /\ UNCHANGED <<pc, pool, mine, at, first>>
     \/ /\ FreeSlot(pool) # 0
        /\ pool' = alloc_buffer(pool, "sector") /\ mine' = {FreeSlot(pool)}
        /\ at' \in Addresses /\ first' \in BOOLEAN   (* load, or save *)
        /\ pc' = "chain" /\ c64' = Asks(<<>>, <<>>, "nothing")
        /\ UNCHANGED error
  /\ UNCHANGED <<Fixed, Disk, file, job, faults>>

(* The end of a chain, or the next sector of it.                            *)
Follow(p, next) ==
  /\ at' = next
  /\ IF next = 0 THEN pc' = "command" /\ pool' = FreedSlots(p, mine) /\ mine' = {}
     ELSE pool' = p /\ UNCHANGED <<pc, mine>>

uload3_checks(r) == r.error # 0

ChainLoad ==
  /\ pc = "chain" /\ loader = "uload3" /\ first
  /\ \E r \in read_sector(at) :
       /\ error' = r.error /\ faults' = r.faults
       /\ IF uload3_checks(r)
          THEN pc' = "command" /\ mine' = {} /\ c64' = Asks(r.want, <<>>, "error") /\ UNCHANGED <<pool, at>>
          ELSE /\ Follow([pool EXCEPT ![Data].sector = r.sector], r.sector.next)
               /\ c64' = Asks(r.want, r.sector.bytes, "ok")
  /\ UNCHANGED <<Fixed, Disk, file, first, job, turns>>

(* A file is replaced sector by sector; the computer may stop in the middle, *)
(* and the sector is not written.                                          *)
ChainSave ==
  /\ pc = "chain" /\ loader = "uload3" /\ ~first
  /\ \E r \in read_sector(at), x \in Sent :
       IF uload3_checks(r)
       THEN /\ error' = r.error /\ faults' = r.faults
            /\ pc' = "command" /\ mine' = {} /\ c64' = Asks(<<>>, <<>>, "error")
            /\ UNCHANGED <<pool, at, store>>
       ELSE \E w \in write_sector(at, x) :
            /\ error' = w.error /\ faults' = w.faults /\ store' = w.store
            /\ IF uload3_checks(w)
               THEN pc' = "command" /\ mine' = {} /\ c64' = Asks(x, <<>>, "error") /\ UNCHANGED <<pool, at>>
               ELSE /\ Follow([pool EXCEPT ![Data].sector = [r.sector EXCEPT !.bytes = x]], r.sector.next)
                    /\ c64' = Asks(x, On(w.store, at), "ok")
  /\ UNCHANGED <<Fixed, image, dir_changed, file, first, job, turns>>

ChainAborted ==
  /\ pc = "chain" /\ loader = "uload3" /\ ~first
  /\ Leave
  /\ UNCHANGED <<Fixed, pool, mine, error, Disk, file, first, at, job, c64, turns, faults>>

(* GEOS boots: chains of sectors at fixed places, all but the first with     *)
(* the key that was captured.                                              *)
Decrypted(bytes) == [i \in DOMAIN bytes |-> 255 - bytes[i]]
Chains == IF Len(Images[1]) > 1 THEN <<1, 2>> ELSE <<1, 1>>

SendChain ==
  /\ pc = "chain" /\ loader = "geos_s1"
  /\ \E r \in read_sector(at) :
       LET clear(bytes) == IF first THEN bytes ELSE Decrypted(bytes)
       IN /\ error' = r.error /\ faults' = r.faults
          /\ pool' = [pool EXCEPT ![Data].sector = [r.sector EXCEPT !.bytes = clear(@)]]
          /\ c64' = Asks(clear(r.want), clear(r.sector.bytes), "nothing")
          /\ IF r.sector.next # 0 THEN at' = r.sector.next /\ UNCHANGED <<pc, first, turns>>
             ELSE IF turns + 1 < Len(Chains)
             THEN at' = Chains[turns + 2] /\ turns' = turns + 1 /\ first' = FALSE /\ UNCHANGED pc
             ELSE Leave /\ UNCHANGED <<at, first, turns>>
  /\ UNCHANGED <<Fixed, mine, Disk, file, job>>
-----------------------------------------------------------------------------
(* check_keys: mount_line takes the buffers of all files, and one for the    *)
(* list, which it does not give back; it mounts the next disk and forgets    *)
(* the error.                                                              *)
Waits ==
  \/ pc = "command" /\ loader \in {"gijoe", "n0sdos", "sams", "samssave", "epyx"}
  \/ pc = "save" /\ loader = "samssave" /\ KeysInSave
  \/ pc \in {"command", "data"} /\ loader \in {"geos", "wheels", "nippon", "dreamload"} /\ job = 0 /\ error = 0
  \/ pc \in {"command", "data", "sending"} /\ loader = "mmzak" /\ error = 0

KeyPressed ==
  /\ Waits /\ turns < MaxTurns /\ turns' = turns + 1
  /\ pool' = Allocated(FreedSlots(pool, User(pool)), 0, "list")
  /\ image' = (image % Len(Images)) + 1 /\ dir_changed' = TRUE /\ error' = 0
  /\ UNCHANGED store
  /\ UNCHANGED <<Fixed, pc, mine, file, first, at, job, c64, faults>>
-----------------------------------------------------------------------------
Next ==
  \/ StartOnChannel \/ StartCommands \/ StartSectors \/ Sweep \/ GoAway \/ KeyPressed
  \/ LoadChannel \/ LoadByName \/ NotFound
  \/ LastBlock \/ NextBlock \/ BlockFails \/ Repeating \/ Abort
  \/ SaveByName \/ ReceiveBlock \/ Finished \/ SaveAborted \/ ReceiveSector
  \/ ReadOnly \/ ReadAndTransmit \/ ReadLink \/ ReadNippon \/ Transmit \/ Asked
  \/ WriteAndTell \/ WriteNippon \/ NipponOutOfStep
  \/ WriteCommand \/ DataArrives \/ NoDataArrives \/ ReadCommand \/ Taken \/ CheckChange
  \/ JobArrives \/ DoJob \/ ClearJob
  \/ StartChain \/ ChainLoad \/ ChainSave \/ ChainAborted \/ SendChain

Spec == Init /\ [][Next]_vars
-----------------------------------------------------------------------------
(***************************************************************************)
(* Properties.                                                             *)
(***************************************************************************)
(* What the computer has taken from a loader is the beginning of the file,   *)
(* and all of it when the loader said that it is complete: also when a       *)
(* block could not be read, and for blocks and files of every length.        *)
WholeOrTold ==
  /\ \A i \in 1 .. Least(Len(c64.got), Len(c64.text)) : c64.got[i] = c64.text[i]
  /\ c64.verdict = "complete" => c64.got = c64.text

(* A file that was stored is what the computer sent.                        *)
SavedAsSent == c64.saved /\ loader # "ar6save" => file = c64.text

(* When a sector loader says that all is well, or has no way to say          *)
(* otherwise, what the computer got is what the disk had when it asked, and  *)
(* what it wrote is what is on the disk; also when the disk was changed.     *)
(* Dreamload answers every job.  Nothing gets on a disk that the computer    *)
(* did not send, and the links stay.                                       *)
ToldTrue ==
  (c64.said = "ok" \/ loader \notin Tells) /\ c64.heard # <<>> => c64.heard = c64.want
JobsDone ==
  loader = "dreamload" /\ loader \notin Tells /\ pc = "command" /\ job = 0 => c64.heard = c64.want
OnDisks ==
  \A d \in DOMAIN Images : \A s \in Sectors :
    /\ store[d][s].next = Images[d][s].next
    /\ store[d][s].bytes \in Sent \cup {Images[d][s].bytes}
SectorsAsTold == ToldTrue /\ JobsDone /\ OnDisks

(* The buffers a handler has pointers to are its own.                       *)
BuffersKept ==
  pc \notin {"done", "over"} =>
    \A s \in mine : pool[s].allocated /\ pool[s].what \in {"file", "sector", "command"}
=============================================================================
