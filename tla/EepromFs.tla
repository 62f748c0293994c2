------------------------------ MODULE EepromFs ------------------------------
(***************************************************************************)
(* The file system in the EEPROM (eeprom-fs.c) under its driver            *)
(* (eefs-ops.c): directory entries, sectors, the bitmaps in RAM, and a power *)
(* supply that may fail between two writes to the EEPROM.                  *)
(*                                                                         *)
(* There is one task: an operation runs to its end before the next starts.  *)
(* busy is the operation under way, and queue its writes to the EEPROM, in  *)
(* order, which have not been done yet.  Nobody reads while one is done, so  *)
(* a write of an entry, or of a part of a sector, is one step; but the power *)
(* may fail inside it.  A whole format is one step.                        *)
(*                                                                         *)
(* The computer deletes, renames and appends to files that are not open, and *)
(* formats when none is.                                                   *)
(***************************************************************************)
EXTENDS Integers, Sequences, FiniteSets

CONSTANTS
  Names, Channels,
  Entries,      (* EEPROMFS_ENTRIES *)
  Sectors,      (* SECTOR_COUNT *)
  SectorSize,   (* EEPROMFS_SECTORSIZE *)
  NameSectors,  (* sectors listed in a name entry: 12 *)
  ListSectors,  (* sectors listed in a list entry: 30 *)
  Block,        (* what a buffer holds: 254 *)
  Rests,        (* what may be left in it when a file is closed *)
  AnyAppend,    (* append to any file, not only where the last entry has one sector *)
  MaxCuts,      (* a bound on the number of power failures *)
  OpenAfterCut, (* a bound on the files open at a time after one *)
  AnyCut,       (* the power may fail also between a link and the entry it leads to *)
  AnyTear,      (* and inside the write of an entry that erases it or changes its name *)
  LowByte,      (* values of the first byte of a length: 256 *)
  None          (* SECTOR_FREE, no entry, no operation *)

ASSUME EepromFsAssumption ==
  /\ {Entries, Sectors, SectorSize, NameSectors, ListSectors, Block} \subseteq Nat \ {0}
  /\ {MaxCuts, OpenAfterCut} \subseteq Nat
  /\ NameSectors <= ListSectors /\ Rests \subseteq 0 .. Block
  /\ {AnyAppend, AnyCut, AnyTear} \subseteq BOOLEAN /\ LowByte \in Nat \ {0}
  /\ None \notin Int
  /\ LET Cell == (Names \X Nat) \cup {None}
     IN None \notin Seq(Cell) /\ None \notin [name : Names, cells : Seq(Cell)]

VARIABLES
  dir, sectors,                              (* the EEPROM *)
  used_sectors, used_entries, free_sectors,  (* RAM *)
  fh,           (* the file handle of each channel *)
  busy, queue,
  cuts,         (* power failures so far *)
  sent          (* history: name and contents of the file on each channel *)

hist   == <<cuts, sent>>
eeprom == <<dir, sectors>>
ram    == <<used_sectors, used_entries, free_sectors>>
vars   == <<eeprom, ram, fh, busy, queue, hist>>

Entry  == 0 .. Entries - 1
Sector == 0 .. Sectors - 1
Slot   == 0 .. ListSectors - 1

(* An erased entry has all bits set: a deleted list entry without sectors.  *)
Erased     == [kind |-> "free", name |-> None, size |-> 0, sectors |-> [i \in Slot |-> None],
               next |-> None]
NewFile(n) == [Erased EXCEPT !.kind = "name", !.name = n]
NewList(s) == [Erased EXCEPT !.kind = "list", !.sectors[0] = s]

curentry_max_sectors(e) == IF e.kind = "name" THEN NameSectors ELSE ListSectors

(* The sectors a live entry lists: init takes all, delete stops at a gap.   *)
Listed(e)     == {i \in 0 .. curentry_max_sectors(e) - 1 : e.sectors[i] # None}
ContiguousButLast(e) == {i \in Listed(e) : 0 .. i + 1 \subseteq Listed(e)}   (* mutant *)
Contiguous(e) == {i \in Listed(e) : 0 .. i \subseteq Listed(e)}
SectorsOf(e)  == {e.sectors[i] : i \in Listed(e)}
Live(d)       == {i \in Entry : d[i].kind # "free"}

Min(a, b) == IF a < b THEN a ELSE b

(* A search for a clear bit, from start on and around.                      *)
NextClear(used, count, start) ==
  LET clear == {d \in 0 .. count - 1 : (start + d) % count \notin used}
  IN IF clear = {} THEN None
     ELSE (start + CHOOSE d \in clear : \A other \in clear : d <= other) % count

next_free_entry(start) == NextClear(used_entries, Entries, start)

(* Appending to an empty file starts at sector 0xff, beyond the bitmap: the *)
(* byte read there ends the search or sends it to sector 0.                 *)
next_free_sector(start) ==
  IF start = None THEN {None, NextClear(used_sectors, Sectors, 0)}
  ELSE {NextClear(used_sectors, Sectors, start)}

find_entry(d, n) ==
  LET found == {i \in Entry : d[i].kind = "name" /\ d[i].name = n}
  IN IF found = {} THEN None ELSE CHOOSE i \in found : \A j \in found : i <= j

Blank    == [o \in 0 .. SectorSize - 1 |-> None]
NoHandle == [filemode |-> "closed", entry |-> 0, size |-> 0, cur_offset |-> 0, cur_sector |-> 0,
             cur_soffset |-> 0, cur_entry |-> 0, cur_sindex |-> 0]

(* mutant: the sectors behind a gap are overlooked *)
MarkUsedToGap ==
  /\ used_entries' = Live(dir')
  /\ used_sectors' = UNION {{dir'[i].sectors[k] : k \in Contiguous(dir'[i])} : i \in Live(dir')}
  /\ free_sectors' = Sectors - Cardinality(used_sectors')

(* eepromfs_init: the bitmaps are those of the directory found.             *)
MarkUsed ==
  /\ used_entries' = Live(dir')
  /\ used_sectors' = UNION {SectorsOf(dir'[i]) : i \in Live(dir')}
  /\ free_sectors' = Sectors - Cardinality(used_sectors')

Init ==
  /\ dir = [i \in Entry |-> Erased]
  /\ sectors = [s \in Sector |-> Blank]
  /\ used_entries = {} /\ used_sectors = {} /\ free_sectors = Sectors
  /\ fh = [c \in Channels |-> NoHandle]
  /\ busy = None /\ queue = <<>>
  /\ cuts = 0 /\ sent = [c \in Channels |-> None]
-----------------------------------------------------------------------------
WriteEntry(i, e)      == [what |-> "entry", at |-> i, entry |-> e]
WriteData(s, o, data) == [what |-> "data", at |-> s, offset |-> o, data |-> data]

(* What a sector holds is forgotten when no entry lists it any more: its     *)
(* bytes are not those of any file.                                        *)
PutEntry(i, e) ==
  /\ dir' = [dir EXCEPT ![i] = e]
  /\ sectors' = [s \in Sector |->
       IF \E j \in Live(dir') : s \in SectorsOf(dir'[j]) THEN sectors[s] ELSE Blank]

PutData(s, offset, data) ==
  /\ sectors' = [sectors EXCEPT ![s] = [o \in DOMAIN @ |->
       IF o - offset \in 0 .. Len(data) - 1 THEN data[o - offset + 1] ELSE @[o]]]
  /\ UNCHANGED dir

(* A write reaches the EEPROM.                                              *)
Flush ==
  /\ queue # <<>>
  /\ queue' = Tail(queue)
  /\ LET w == Head(queue)
     IN \/ w.what = "entry" /\ PutEntry(w.at, w.entry)
        \/ w.what = "data" /\ PutData(w.at, w.offset, w.data)
  /\ UNCHANGED <<ram, fh, busy, hist>>

(* write_entry, cut short.  The bytes are written in their order: sectors,   *)
(* name, length with its low byte first, flags, link.  Half a name is none   *)
(* that is used, and of a free entry only the link outlasts a new use.      *)
Remnant(e) == IF e.kind = "free" THEN [Erased EXCEPT !.next = e.next] ELSE e

Torn(old, new) ==
  LET listed(k) == [old EXCEPT !.sectors = [i \in Slot |-> IF i < k THEN new.sectors[i] ELSE @[i]]]
      named(n)  == [listed(ListSectors) EXCEPT !.name = n]
      low       == (old.size \div LowByte) * LowByte + (new.size % LowByte)
  IN {Remnant(e) : e \in {listed(k) : k \in 0 .. ListSectors}
                     \cup {named(IF new.name = old.name THEN new.name ELSE None)}
                     \cup {[named(new.name) EXCEPT !.size = z] : z \in {old.size, low, new.size}}
                     \cup {[new EXCEPT !.next = old.next]}} \ {old, new}

Spares(old, new) == new.kind = old.kind /\ new.name = old.name

(* The first write of the queue is begun and not ended.                     *)
Tear ==
  /\ queue # <<>>
  /\ LET w == Head(queue)
     IN \/ /\ w.what = "entry" /\ (Spares(dir[w.at], w.entry) \/ AnyTear)
           /\ \E e \in Torn(dir[w.at], w.entry) : PutEntry(w.at, e)
        \/ /\ w.what = "data"
           /\ \E n \in 1 .. Len(w.data) - 1 : PutData(w.at, w.offset, SubSeq(w.data, 1, n))

Linking ==
  /\ queue # <<>> /\ Head(queue).what = "entry"
  /\ Head(queue).entry.kind = "list" /\ dir[Head(queue).at].kind = "free"

(* The power fails, between two writes or inside one, and the drive starts   *)
(* again.                                                                  *)
PowerFails ==
  /\ Linking => AnyCut
  /\ cuts < MaxCuts /\ cuts' = cuts + 1
  /\ Tear \/ UNCHANGED eeprom
  /\ queue' = <<>> /\ busy' = None
  /\ fh' = [c \in Channels |-> NoHandle]
  /\ sent' = [c \in Channels |-> None]
  /\ MarkUsed

Ready       == queue = <<>> /\ busy = None
Running(op) == queue = <<>> /\ busy # None /\ busy.op = op
Opens(c, mode, e) ==
  /\ Ready /\ fh[c].filemode = "closed"
  /\ cuts = 0 \/ Cardinality({d \in Channels : fh[d].filemode # "closed"}) < OpenAfterCut
  /\ \A d \in Channels : fh[d].filemode # "closed" /\ fh[d].entry = e =>
       mode = "read" /\ fh[d].filemode = "read"
Idle(e) == \A c \in Channels : fh[c].filemode # "closed" => fh[c].entry # e

-----------------------------------------------------------------------------
(* A new file: an entry without sectors.                                    *)
OpenWrite(c, n) ==
  LET e == next_free_entry(0)
  IN /\ Opens(c, "write", e)
     /\ find_entry(dir, n) = None /\ e # None
     /\ used_entries' = used_entries \cup {e}
     /\ fh' = [fh EXCEPT ![c] = [NoHandle EXCEPT
          !.filemode = "write", !.entry = e, !.cur_entry = e, !.cur_sindex = -1]]
     /\ queue' = <<WriteEntry(e, NewFile(n))>>
     /\ sent' = [sent EXCEPT ![c] = [name |-> n, cells |-> <<>>]]
     /\ UNCHANGED <<eeprom, used_sectors, free_sectors, busy, cuts>>

(* The entries of a file, and the sector at a position of it.               *)
Chain(e) ==
  LET at[k \in Entry] == IF k = 0 THEN e ELSE IF at[k - 1] = None THEN None ELSE dir[at[k - 1]].next
  IN at

SectorAt(e, i) ==
  IF i < NameSectors THEN dir[e].sectors[i]
  ELSE LET k == 1 + (i - NameSectors) \div ListSectors
           l == IF k \in Entry THEN Chain(e)[k] ELSE None
       IN IF l = None THEN None ELSE dir[l].sectors[(i - NameSectors) % ListSectors]

CellAt(s, o)   == IF s = None THEN None ELSE sectors[s][o]
Contents(e)    == [k \in 1 .. dir[e].size |->
                     CellAt(SectorAt(e, (k - 1) \div SectorSize), (k - 1) % SectorSize)]
LastEntry(e)   == LET entries == {Chain(e)[k] : k \in Entry} \ {None}
                  IN CHOOSE i \in entries : dir[i].next = None \/ dir[i].next \notin entries
ListedUpTo(e)  == Cardinality(UNION {{<<k, i>> : i \in Listed(dir[Chain(e)[k]])} :
                                       k \in {j \in Entry : Chain(e)[j] # None}})

(* Where append works: the last entry has one sector, the first one listed, *)
(* and no sector of a write cut short before.                              *)
OneSectorLast(e) ==
  /\ Listed(dir[LastEntry(e)]) = {0}
  /\ ListedUpTo(e) = (dir[e].size + SectorSize - 1) \div SectorSize

(* Append: to the last sector of the last entry; cur_sindex stays 0.        *)
OpenAppend(c, n) ==
  LET e == find_entry(dir, n)
      last == LastEntry(e)
      full == Contiguous(dir[last])
      at == IF full = {} THEN 0 ELSE Cardinality(full) - 1
  IN /\ Opens(c, "write", e)
     /\ e # None
     /\ AnyAppend \/ OneSectorLast(e)
     /\ fh' = [fh EXCEPT ![c] = [NoHandle EXCEPT
          !.filemode = "write", !.entry = e, !.size = dir[e].size, !.cur_offset = dir[e].size,
          !.cur_sector = dir[last].sectors[at], !.cur_soffset = dir[e].size % SectorSize,
          !.cur_entry = last]]
     /\ sent' = [sent EXCEPT ![c] = [name |-> n, cells |-> Contents(e)]]
     /\ UNCHANGED <<eeprom, ram, busy, queue, cuts>>

(* A file opened for reading delivers its first block at once.              *)
Reads(c, h) == [op |-> "read", c |-> c, left |-> Min(Block, h.size - h.cur_offset)]

OpenRead(c, n) ==
  LET e == find_entry(dir, n)
      h == [NoHandle EXCEPT !.filemode = "read", !.entry = e, !.size = dir[e].size,
                            !.cur_sector = dir[e].sectors[0], !.cur_entry = e]
  IN /\ Opens(c, "read", e)
     /\ e # None
     /\ fh' = [fh EXCEPT ![c] = h]
     /\ busy' = Reads(c, h)
     /\ UNCHANGED <<eeprom, ram, queue, hist>>

Read(c) ==
  /\ Ready /\ fh[c].filemode = "read" /\ fh[c].cur_offset < fh[c].size
  /\ busy' = Reads(c, fh[c])
  /\ UNCHANGED <<eeprom, ram, fh, queue, hist>>

CloseRead(c) ==
  /\ Ready /\ fh[c].filemode = "read"
  /\ fh' = [fh EXCEPT ![c] = NoHandle]
  /\ UNCHANGED <<eeprom, ram, busy, queue, hist>>
-----------------------------------------------------------------------------
(* eepromfs_read, one sector after the other.                               *)
Advanced(h, n) ==
  [h EXCEPT !.cur_offset = @ + n, !.cur_soffset = (@ + n) % SectorSize]

(* mutant: the next entry is not read *)
NextSectorKeepsEntry(h) ==
  LET i == h.cur_sindex + 1
  IN IF i < curentry_max_sectors(dir[h.cur_entry])
       THEN [h EXCEPT !.cur_sindex = i, !.cur_sector = dir[h.cur_entry].sectors[i]]
       ELSE [h EXCEPT !.cur_sindex = 0, !.cur_sector = dir[h.cur_entry].sectors[0]]

(* The handle goes on to the next sector, in this entry or the next.        *)
NextSector(h) ==
  LET i == h.cur_sindex + 1
      next == dir[h.cur_entry].next
  IN IF i < curentry_max_sectors(dir[h.cur_entry])
       THEN [h EXCEPT !.cur_sindex = i, !.cur_sector = dir[h.cur_entry].sectors[i]]
       ELSE [h EXCEPT !.cur_sindex = 0, !.cur_entry = next, !.cur_sector = dir[next].sectors[0]]

ReadSome ==
  /\ Running("read") /\ busy.left > 0
  /\ LET h == fh[busy.c]
         n == Min(busy.left, SectorSize - h.cur_soffset)
         a == Advanced(h, n)
     IN /\ fh' = [fh EXCEPT ![busy.c] =
             IF a.cur_offset # a.size /\ a.cur_soffset = 0 THEN NextSector(a) ELSE a]
        /\ busy' = [busy EXCEPT !.left = @ - n]
  /\ UNCHANGED <<eeprom, ram, queue, hist>>

ReadDone ==
  /\ Running("read") /\ busy.left = 0
  /\ busy' = None
  /\ UNCHANGED <<eeprom, ram, fh, queue, hist>>
-----------------------------------------------------------------------------
(* A full block, or the rest of one when the file is closed.                *)
Write(c, n, closing) ==
  /\ Ready /\ fh[c].filemode = "write"
  /\ busy' = [op |-> "write", c |-> c, left |-> n, closing |-> closing]
  /\ UNCHANGED <<eeprom, ram, fh, queue, hist>>

(* eepromfs_write, once around its loop: handle h, brought to the sector to *)
(* be written with the writes of entries this took, stores what fits there. *)
StoreSome(h, entries) ==
  LET n == Min(busy.left, SectorSize - h.cur_soffset)
      old == sent[busy.c].cells
      cells == [k \in 1 .. n |-> <<sent[busy.c].name, Len(old) + k>>]
  IN /\ queue' = Append(entries, WriteData(h.cur_sector, h.cur_soffset, cells))
     /\ fh' = [fh EXCEPT ![busy.c] = [Advanced(h, n) EXCEPT !.size = @ + n]]
     /\ sent' = [sent EXCEPT ![busy.c].cells = old \o cells]
     /\ busy' = [busy EXCEPT !.left = @ - n]
     /\ UNCHANGED <<eeprom, cuts>>

mark_sector(s) ==
  /\ used_sectors' = used_sectors \cup {s}
  /\ free_sectors' = free_sectors - 1

WriteMore == Running("write") /\ busy.left > 0

WriteInSector ==
  /\ WriteMore /\ fh[busy.c].cur_soffset # 0
  /\ StoreSome(fh[busy.c], <<>>)
  /\ UNCHANGED ram

WriteNewSector ==
  /\ WriteMore /\ fh[busy.c].cur_soffset = 0
  /\ LET h == fh[busy.c]
         i == h.cur_sindex + 1
         e == dir[h.cur_entry]
     IN \E s \in next_free_sector(h.cur_sector) \ {None} :
          /\ i < curentry_max_sectors(e)
          /\ mark_sector(s)
          /\ StoreSome([h EXCEPT !.cur_sector = s, !.cur_sindex = i],
                       <<WriteEntry(h.cur_entry, [e EXCEPT !.sectors[i] = s])>>)
  /\ UNCHANGED used_entries

(* The entry is full: a link to a new one, then the new one.                *)
WriteNewEntry ==
  /\ WriteMore /\ fh[busy.c].cur_soffset = 0
  /\ LET h == fh[busy.c]
         e == dir[h.cur_entry]
         next == next_free_entry(h.cur_entry)
     IN \E s \in next_free_sector(h.cur_sector) \ {None} :
          /\ h.cur_sindex + 1 >= curentry_max_sectors(e) /\ next # None
          /\ used_entries' = used_entries \cup {next}
          /\ mark_sector(s)
          /\ StoreSome([h EXCEPT !.cur_sector = s, !.cur_sindex = 0, !.cur_entry = next],
                       <<WriteEntry(h.cur_entry, [e EXCEPT !.next = next]),
                         WriteEntry(next, NewList(s))>>)

(* mutant: the length goes to the last entry *)
CloseLastEntry(c) ==
  /\ queue' = <<WriteEntry(fh[c].cur_entry,
                          [dir[fh[c].cur_entry] EXCEPT !.size = fh[c].size])>>
  /\ busy' = [op |-> "close", c |-> c]
  /\ UNCHANGED <<eeprom, ram, fh, hist>>

(* eepromfs_close writes the length.                                        *)
CloseEntry(c) ==
  /\ queue' = <<WriteEntry(fh[c].entry, [dir[fh[c].entry] EXCEPT !.size = fh[c].size])>>
  /\ busy' = [op |-> "close", c |-> c]
  /\ UNCHANGED <<eeprom, ram, fh, hist>>

(* No sector, or no entry, is left: the file is closed as far as it got.    *)
WriteFails ==
  /\ WriteMore /\ fh[busy.c].cur_soffset = 0
  /\ LET h == fh[busy.c]
     IN \/ None \in next_free_sector(h.cur_sector)
        \/ /\ h.cur_sindex + 1 >= curentry_max_sectors(dir[h.cur_entry])
           /\ next_free_entry(h.cur_entry) = None
  /\ CloseEntry(busy.c)

WriteDone ==
  /\ Running("write") /\ busy.left = 0
  /\ IF busy.closing THEN CloseEntry(busy.c)
     ELSE busy' = None /\ UNCHANGED <<eeprom, ram, fh, queue, hist>>

CloseDone ==
  /\ Running("close")
  /\ fh' = [fh EXCEPT ![busy.c] = NoHandle]
  /\ sent' = [sent EXCEPT ![busy.c] = None]
  /\ busy' = None
  /\ UNCHANGED <<eeprom, ram, queue, cuts>>
-----------------------------------------------------------------------------
Rename(old, new) ==
  LET e == find_entry(dir, old)
  IN /\ Ready /\ find_entry(dir, new) = None /\ e # None /\ Idle(e)
     /\ queue' = <<WriteEntry(e, [dir[e] EXCEPT !.name = new])>>
     /\ UNCHANGED <<eeprom, ram, fh, busy, hist>>

Delete(n) ==
  LET e == find_entry(dir, n)
  IN /\ Ready /\ e # None /\ Idle(e)
     /\ busy' = [op |-> "delete", at |-> e]
     /\ UNCHANGED <<eeprom, ram, fh, queue, hist>>

(* eepromfs_delete, one entry after the other; used_entries stays.          *)
DeleteEntry ==
  /\ Running("delete")
  /\ LET e == dir[busy.at]
         freed == {e.sectors[i] : i \in Contiguous(e)}
     IN /\ used_sectors' = used_sectors \ freed
        /\ free_sectors' = free_sectors + Cardinality(Contiguous(e))
        /\ queue' = <<WriteEntry(busy.at, Erased)>>
        /\ busy' = IF e.next = None THEN None ELSE [busy EXCEPT !.at = e.next]
  /\ UNCHANGED <<eeprom, used_entries, fh, hist>>

(* eepromfs_format: every entry is erased, and the bitmaps follow.          *)
Format ==
  /\ Ready /\ \A c \in Channels : fh[c].filemode = "closed"
  /\ dir' = [i \in Entry |-> Erased] /\ sectors' = [s \in Sector |-> Blank]
  /\ used_entries' = {} /\ used_sectors' = {} /\ free_sectors' = Sectors
  /\ UNCHANGED <<fh, busy, queue, hist>>
-----------------------------------------------------------------------------
Next ==
  \/ Flush \/ PowerFails
  \/ \E c \in Channels, n \in Names : OpenWrite(c, n) \/ OpenAppend(c, n) \/ OpenRead(c, n)
  \/ \E c \in Channels : Read(c) \/ CloseRead(c) \/ Write(c, Block, FALSE)
  \/ \E c \in Channels, n \in Rests : Write(c, n, TRUE)
  \/ ReadSome \/ ReadDone
  \/ WriteInSector \/ WriteNewSector \/ WriteNewEntry \/ WriteFails \/ WriteDone \/ CloseDone
  \/ \E n \in Names : Delete(n)
  \/ \E old, new \in Names : Rename(old, new)
  \/ DeleteEntry \/ Format

Spec == Init /\ [][Next]_vars
-----------------------------------------------------------------------------
(***************************************************************************)
(* Properties.                                                             *)
(***************************************************************************)
(* Directory, bitmaps and handles have their types.                         *)
TypeOK ==
  /\ \A i \in Entry :
       /\ dir[i].kind \in {"free", "name", "list"}
       /\ dir[i].name \in Names \cup {None}
       /\ dir[i].size \in 0 .. Sectors * SectorSize
       /\ \A k \in Slot : dir[i].sectors[k] \in Sector \cup {None}
       /\ dir[i].next \in Entry \cup {None}
  /\ used_sectors \subseteq Sector /\ used_entries \subseteq Entry
  /\ free_sectors \in 0 .. Sectors
  /\ \A c \in Channels :
       /\ fh[c].filemode \in {"closed", "read", "write"}
       /\ fh[c].entry \in Entry /\ fh[c].cur_entry \in Entry
       /\ fh[c].cur_sindex \in -1 .. ListSectors - 1
       /\ fh[c].cur_sector \in Sector \cup {None}
       /\ fh[c].cur_soffset \in 0 .. SectorSize - 1

(* Between two operations the bitmap of the sectors, the counter shown as   *)
(* free blocks and the directory agree, and no entry in use is taken for    *)
(* free: no sector is handed out twice, and none is lost unless the write    *)
(* that erases an entry was cut short.  A handle's sector is the one that    *)
(* its index says, in the entry that it is at.                             *)
Bookkeeping ==
  /\ TypeOK
  /\ Ready =>
       /\ UNION {SectorsOf(dir[i]) : i \in Live(dir)} \subseteq used_sectors
       /\ ~ AnyTear \/ cuts = 0 => used_sectors = UNION {SectorsOf(dir[i]) : i \in Live(dir)}
       /\ free_sectors = Sectors - Cardinality(used_sectors)
       /\ Live(dir) \subseteq used_entries
       /\ \A c \in Channels : fh[c].filemode # "closed" /\ fh[c].size > 0 =>
            /\ fh[c].cur_sindex >= 0
            /\ dir[fh[c].cur_entry].sectors[fh[c].cur_sindex] = fh[c].cur_sector

(* No sector is listed twice, in one entry or in two, also while an         *)
(* operation is under way or after it was cut off; between operations no     *)
(* entry belongs to two files, and a chain leads only to list entries in use. *)
NothingShared ==
  \A i \in Live(dir) :
    /\ Cardinality(SectorsOf(dir[i])) = Cardinality(Listed(dir[i]))
    /\ \A j \in Live(dir) \ {i} : SectorsOf(dir[i]) \cap SectorsOf(dir[j]) = {}
    /\ Ready /\ dir[i].next # None =>
         /\ dir[dir[i].next].kind = "list"
         /\ \A j \in Live(dir) \ {i} : dir[j].next # dir[i].next

(* The next byte read from a file is the next byte of it.                   *)
ReadsOn ==
  \A c \in Channels : fh[c].filemode = "read" /\ fh[c].cur_offset < fh[c].size =>
    CellAt(fh[c].cur_sector, fh[c].cur_soffset) = Contents(fh[c].entry)[fh[c].cur_offset + 1]

(* While there is more to read, the handle is on a sector of the file.      *)
ReadAsserts ==
  \A c \in Channels : fh[c].filemode = "read" /\ fh[c].cur_offset < fh[c].size =>
    fh[c].cur_sector # None

(* An entry that is empty can be used for a new file.                       *)
EmptyEntryFound == Ready /\ Live(dir) # Entry => next_free_entry(0) # None

(* The files by their names, whatever the sectors and entries they are in.  *)
StoredFiles == [n \in Names |-> LET e == find_entry(dir, n)
                                IN IF e = None THEN None ELSE Contents(e)]

(* The files are those of the abstract file store: also across power        *)
(* failures between two writes to the EEPROM and inside one.               *)
FS == INSTANCE FileStore WITH files <- StoredFiles, writing <- sent

Stores == FS!Spec
=============================================================================
