------------------------------ MODULE D64Files ------------------------------
(***************************************************************************)
(* Files in a disk image (d64ops.c): the BAM behind two window buffers,     *)
(* the search for free sectors, the directory, writing, appending, deleting *)
(* and formatting, with accesses to the image that fail.                    *)
(*                                                                         *)
(* A handler is an operator on a record d: the image, the windows, the      *)
(* result of the last call (ok, val, at) and the current error.  d.io counts *)
(* down to the access that fails.  What a sector holds is what the code     *)
(* reads back from it: links, entries, bits, counters, and for a block of a *)
(* file its name and number.                                                *)
(*                                                                         *)
(* The geometry is scaled down.                                            *)
(***************************************************************************)
EXTENDS Integers, Sequences, FiniteSets, SequencesExt

CONSTANTS
  Types,            (* image types: "D41", "D71", "D81", "DNP" *)
  Half,             (* tracks on one side: 35, or 40 *)
  Middle,           (* the directory track of a 1541 or 1571 disk: 18 *)
  DnpTracks,        (* tracks of a DNP image *)
  DnpBamTracks,     (* tracks in one BAM sector of a DNP image: 8 *)
  DnpReserved,      (* sectors of track 1 not counted as free: 64 *)
  DirSectors(_),    (* sectors on the directory track of a type *)
  TrackSectors(_, _), (* sectors on another track of a type *)
  EntriesPerSector, (* 8 *)
  FileInterleave,
  Tries,            (* 99 *)
  Names, MaxBlocks,
  MayFail(_),       (* the kinds of access that may fail for a type: "data", "bam" *)
  MaxFaults, MaxAccesses,
  QuickFormatD71,   (* whether a D71 image is formatted without an ID *)
  WritesOn,         (* whether the computer writes on when a DNP image is full *)
  None

ASSUME D64Assumption ==
  /\ Types \subseteq {"D41", "D71", "D81", "DNP"}
  /\ {Half, Middle, DnpTracks, DnpBamTracks, DnpReserved, EntriesPerSector, Tries, MaxBlocks} \subseteq Nat \ {0}
  /\ {FileInterleave, MaxFaults, MaxAccesses} \subseteq Nat
  /\ Middle < Half /\ DnpTracks > 2
  /\ QuickFormatD71 \in BOOLEAN /\ WritesOn \in BOOLEAN

VARIABLES
  type,      (* partition[].imagetype *)
  img,       (* the image: what each sector holds *)
  one, two,  (* bam_buffer and bam_buffer2 *)
  fh,        (* the buffer of each file open for writing *)
  cwd,       (* the current directory, of a DNP image its header sector *)
  err,       (* current_error after the last handler *)
  hung,      (* a handler does not return *)
  faults,    (* failed accesses so far *)
  stored     (* history: for each name, how many blocks its closed file has *)

vars == <<type, img, one, two, fh, cwd, err, hung, faults, stored>>

(* With names a result that is used more than once; Then goes on with what   *)
(* follows only when the step before it succeeded.                          *)
With(d, F(_)) == F(d)
Then(d, F(_)) == IF d.ok THEN F(d) ELSE d

(* op on the elements of a sequence in order; SequencesExt's FoldLeft looks  *)
(* for the greatest index at every step.                                    *)
Through(op(_, _), base, seq) ==
  LET f[i \in 0 .. Len(seq)] == IF i = 0 THEN base ELSE op(f[i - 1], seq[i]) IN f[Len(seq)]

(***************************************************************************)
(* Geometry.                                                               *)
(***************************************************************************)
LastTrack(ty) == CASE ty = "D41" -> Half [] ty = "DNP" -> DnpTracks [] OTHER -> 2 * Half
DirTrack(ty)  == CASE ty = "D81" -> Half [] ty = "DNP" -> 1 [] OTHER -> Middle
DirStart(ty)  == IF ty = "D81" THEN 3 ELSE 1
D71Bam2       == Middle + Half

sectors_per_track(ty, t) == IF t = DirTrack(ty) THEN DirSectors(ty) ELSE TrackSectors(ty, t)
SectorsOf(ty, t) == {<<t, s>> : s \in 0 .. sectors_per_track(ty, t) - 1}
AllSectors       == [ty \in Types |-> UNION {SectorsOf(ty, t) : t \in 1 .. LastTrack(ty)}]
Sectors(ty)      == AllSectors[ty]
OnePerSector     == [ty \in Types |-> [i \in 1 .. Cardinality(Sectors(ty)) |-> i]]
End      == <<0, 0>>
DnpRoot  == 2 + DnpTracks \div DnpBamTracks + 1   (* DNP_ROOTDIR_SECTOR *)

(* The BAM sector that holds the bits or the counter of a track.            *)
BamSector(ty, t, what) ==
  CASE ty = "D41" -> <<Middle, 0>>
    [] ty = "D71" -> IF t > Half /\ what = "bits" THEN <<D71Bam2, 0>> ELSE <<Middle, 0>>
    [] ty = "D81" -> <<Half, IF t <= Half THEN 1 ELSE 2>>
    [] ty = "DNP" -> <<1, 2 + t \div DnpBamTracks>>

AllBamSectors  == [ty \in Types |-> {BamSector(ty, t, w) : t \in 1 .. LastTrack(ty), w \in {"bits", "count"}}]
BamSectors(ty) == AllBamSectors[ty]

(***************************************************************************)
(* What a sector holds.                                                    *)
(***************************************************************************)
FreeEntry == [kind |-> "free"]
FileEntry(n, first) == [kind |-> "splat", name |-> n, first |-> first, blocks |-> 0]
DirEntry(first)     == [kind |-> "dir", name |-> None, first |-> first, blocks |-> 2]

Zeroed     == [kind |-> "zero", next |-> End]
Block(n, k, next) == [kind |-> "data", next |-> next, file |-> n, number |-> k]
EmptyDir   == [kind |-> "dir", next |-> End, entries |-> [i \in 1 .. EntriesPerSector |-> FreeEntry]]
Header(ts) == [kind |-> "head", next |-> ts]
Bam(free, count) == [kind |-> "bam", next |-> End, free |-> free, count |-> count]

(* A sector of zeros read as a BAM has no free sector, read as a directory  *)
(* no entry.                                                                *)
AsBam(ty, c) == IF c.kind = "bam" THEN c ELSE Bam({}, [t \in 1 .. LastTrack(ty) |-> 0])
AsDir(c)     == IF c.kind = "dir" THEN c ELSE EmptyDir

NoWindow  == [at |-> None, bam |-> None, dirty |-> FALSE]  (* bam.part = 255 *)
NotThere  == [at |-> None, bam |-> None, dirty |-> None]   (* bam_buffer2 = NULL *)

(***************************************************************************)
(* Accesses to the image.                                                  *)
(***************************************************************************)
Access(d, what) ==
  IF what \notin MayFail(d.type) \/ d.io = 0 THEN [d EXCEPT !.ok = TRUE]
  ELSE [d EXCEPT !.io = @ - 1, !.ok = (d.io # 1), !.failed = (d.io = 1)]

Good(d)     == [d EXCEPT !.ok = TRUE]
Bad(d)      == [d EXCEPT !.ok = FALSE]
Failing(d, e) == [d EXCEPT !.ok = FALSE, !.err = IF @ = "none" THEN e ELSE @]

image_read(d) ==
  LET r == Access(d, "data") IN IF r.ok THEN r ELSE Failing(r, "read")

image_write(d, ts, c) ==
  LET w == Access(d, "data")
  IN IF w.ok THEN [w EXCEPT !.img[ts] = c] ELSE Failing(w, "write")

checked_read(d, ts) ==
  IF ts \in Sectors(d.type) THEN image_read(d) ELSE Failing(d, "link")

(***************************************************************************)
(* The BAM windows.                                                        *)
(***************************************************************************)

(* bam_buffer_flush: what could not be written is marked clean all the same. *)
Flushed(d, w) ==
  IF w.dirty # TRUE THEN Good(d)
  ELSE LET a == Access(d, "bam")
       IN IF a.ok THEN [a EXCEPT !.img[w.at] = w.bam] ELSE Failing(a, "write")
Clean(w) == [w EXCEPT !.dirty = IF w = NotThere THEN None ELSE FALSE]

FlushOne(d) == [Flushed(d, d.one) EXCEPT !.one = Clean(d.one)]

d64_bam_commit(d) ==
  With(FlushOne(d), LAMBDA e : [Flushed(e, e.two) EXCEPT !.two = Clean(e.two), !.ok = TRUE])



(* The other window, if there is or can be one, becomes bam_buffer.         *)
Swapped(d) ==
  IF d.two # NotThere THEN [d EXCEPT !.one = d.two, !.two = d.one]
  ELSE IF d.one.at # None /\ d.spare THEN [d EXCEPT !.one = NoWindow, !.two = d.one]
  ELSE d

ReadWindow(d, ts) ==
  LET r == Access(d, "bam")
  IN IF r.ok THEN [r EXCEPT !.one = [at |-> ts, bam |-> AsBam(d.type, d.img[ts]), dirty |-> FALSE]]
     ELSE Failing(r, "read")

ReadFlushed(d, ts, swapped) == Then(FlushOne(swapped), LAMBDA e : ReadWindow(e, ts))

move_bam_window(d, t, what) ==
  LET ts == BamSector(d.type, t, what)
  IN IF d.one.at = ts THEN Good(d)
     ELSE With(Swapped(d), LAMBDA e : IF e.one.at = ts THEN Good(e) ELSE ReadFlushed(d, ts, e))

(* val: 1 free, 0 allocated, -1 an error. *)
is_free(d, ts) ==
  With(move_bam_window(d, ts[1], "bits"),
       LAMBDA w : [w EXCEPT !.val = IF ~w.ok THEN -1 ELSE IF ts \in w.one.bam.free THEN 1 ELSE 0])

sectors_free(d, t) ==
  IF t \notin 1 .. LastTrack(d.type) THEN [d EXCEPT !.val = 0]
  ELSE With(move_bam_window(d, t, "count"), LAMBDA w :
         [w EXCEPT !.val =
            IF ~w.ok THEN 0
            ELSE IF d.type = "DNP" THEN Cardinality(SectorsOf(d.type, t) \cap w.one.bam.free)
            ELSE w.one.bam.count[t]])

(* allocate_sector and free_sector: the bit, then the counter, which may be *)
(* in another BAM sector.                                                   *)
SetBit(d, ts, on) ==
  Then(move_bam_window(d, ts[1], "bits"), LAMBDA w :
    [w EXCEPT !.one.dirty = TRUE, !.one.bam.free = IF on THEN @ \cup {ts} ELSE @ \ {ts}])

Count(d, t, n) ==
  Then(move_bam_window(d, t, "count"), LAMBDA w :
    IF w.one.bam.count[t] + n \notin 0 .. sectors_per_track(d.type, t) THEN w
    ELSE [w EXCEPT !.one.dirty = TRUE, !.one.bam.count[t] = @ + n])

Change(d, ts, on) ==
  With(is_free(d, ts), LAMBDA was :
    IF was.val < 0 THEN Bad(was)
    ELSE IF (was.val = 1) = on THEN Good(was)
    ELSE Then(SetBit(was, ts, on), LAMBDA bit :
           IF d.type = "DNP" THEN bit ELSE Count(bit, ts[1], IF on THEN 1 ELSE -1)))

allocate_bit_only(d, ts) == SetBit(d, ts, FALSE)   (* mutant: the counter is forgotten *)

allocate_sector(d, ts) == Change(d, ts, FALSE)
free_sector(d, ts)     == Change(d, ts, TRUE)

(***************************************************************************)
(* The search for a free sector.                                           *)
(***************************************************************************)

(* The first of some tracks, in this order, that has free sectors.          *)
FirstTrack(d, tracks) ==
  Through(LAMBDA a, t : IF a.val > 0 THEN a ELSE [sectors_free(a, t) EXCEPT !.at = <<t, 0>>],
           [d EXCEPT !.val = 0], tracks)

(* The first of some sectors that is_free finds free.                       *)
FirstSector(d, tss) ==
  Through(LAMBDA a, ts : IF a.val > 0 THEN a ELSE [is_free(a, ts) EXCEPT !.at = ts],
           [d EXCEPT !.val = 0], tss)

Upwards(a, b)   == [i \in 1 .. b - a + 1 |-> a + i - 1]
Downwards(a, b) == [i \in 1 .. a - b + 1 |-> a - i + 1]

(* On both sides of the directory in turn; DNP from track 2 to the last but *)
(* one, then track 1.                                                       *)
CloseToDirectory(ty) ==
  IF ty = "DNP" THEN <<2>> \o Upwards(3, LastTrack(ty) - 1) \o <<1>>
  ELSE [i \in 1 .. 2 * (LastTrack(ty) - 1) |->
          DirTrack(ty) + (IF i % 2 = 1 THEN - (i + 1) \div 2 ELSE i \div 2)]

get_first_sector(d) ==
  With(FirstTrack(d, CloseToDirectory(d.type)), LAMBDA track :
    LET t == track.at[1]
    IN IF track.val = 0 THEN IF d.type = "DNP" THEN Bad(track) ELSE Failing(track, "full")
       ELSE With(FirstSector(track, [i \in 1 .. sectors_per_track(d.type, t) |-> <<t, i - 1>>]),
                 LAMBDA sector : IF sector.val > 0 THEN Good(sector) ELSE Failing(sector, "full")))

(* From a track of a DNP image on and around, the last track left out: the  *)
(* search ends when it is back at the start, and never, when the start is   *)
(* track 0 or the last track and no other track has free sectors.           *)
DnpAround(ty, t) ==
  LET last == LastTrack(ty)
  IN IF t = 0 \/ t = last THEN <<t>> \o Upwards(1, last - 1)
     ELSE Upwards(t, last - 1) \o Upwards(1, t - 1)

(* A sector whose bit could not be read is taken as well.                   *)
DnpNextSector(d, ts) ==
  With(FirstTrack(d, DnpAround(d.type, ts[1])), LAMBDA track :
    LET t     == track.at[1]
        start == IF t = ts[1] THEN ts[2] ELSE 0
        spt   == sectors_per_track(d.type, t)
    IN IF track.val > 0
       THEN Good(Through(LAMBDA a, s : IF a.val # 0 THEN a ELSE [is_free(a, s) EXCEPT !.at = s],
                         [track EXCEPT !.val = 0],
                         [i \in 1 .. spt |-> <<t, (start + i - 1) % spt>>]))
       ELSE IF ts[1] \in {0, LastTrack(d.type)} THEN [track EXCEPT !.hung = TRUE, !.ok = FALSE]
       ELSE Bad(track))

OutwardsOnly(ty, t) == Downwards(t, 1)   (* mutant: the other side is not tried *)

(* Away from the directory, then the other side, then this side again; the  *)
(* second BAM track of a D71 is left out on the way up.                      *)
Outwards(ty, t) ==
  LET up(a)  == SelectSeq(Upwards(a, LastTrack(ty)), LAMBDA x : ty # "D71" \/ x # D71Bam2 \/ x = t)
      down(a) == Downwards(a, 1)
      dir    == DirTrack(ty)
  IN IF t < dir THEN down(t) \o up(dir + 1) \o down(dir - 1)
     ELSE up(t) \o down(dir - 1) \o up(dir + 1)

(* The search starts FileInterleave sectors on; after Tries sectors without      *)
(* success the wrapped counter is taken for success.                        *)
get_next_sector_file(d, ts) ==
  With(FirstTrack(d, Outwards(d.type, ts[1])), LAMBDA track :
    LET t     == track.at[1]
        spt   == sectors_per_track(d.type, t)
        side  == IF ts[1] < DirTrack(d.type) THEN 1 .. ts[1] ELSE ts[1] .. LastTrack(d.type)
        from  == (IF t \in side THEN ts[2] ELSE 0) + FileInterleave
        start == IF from < spt THEN from ELSE IF from = spt THEN 0 ELSE (from - spt - 1) % spt
    IN IF track.val = 0 THEN Failing(track, "full")
       ELSE Good(FirstSector(track, [i \in 1 .. Tries + 1 |-> <<t, (start + i - 1) % spt>>])))

get_next_sector(d, ts) ==
  IF d.type = "DNP" THEN DnpNextSector(d, ts)
  ELSE With(IF ts[1] # DirTrack(d.type) THEN [d EXCEPT !.val = 1] ELSE sectors_free(d, ts[1]),
            LAMBDA dir : IF dir.val = 0 THEN Failing(dir, "full") ELSE get_next_sector_file(dir, ts))

(***************************************************************************)
(* The directory.  d.dh is the place reached, d.entry the entry read last;   *)
(* val is 0 after an entry, -1 at the end, 1 after an error.                *)
(***************************************************************************)
DirHead(ty, dir) == IF ty = "DNP" THEN dir ELSE <<DirTrack(ty), 0>>
RootDir(ty)      == <<DirTrack(ty), DirStart(ty)>>

d64_opendir(d) ==
  IF d.type # "DNP" THEN [Good(d) EXCEPT !.dh = [at |-> d.cwd, entry |-> 1]]
  ELSE LET r == image_read(d)
       IN [r EXCEPT !.dh = [at |-> IF r.ok THEN d.img[d.cwd].next ELSE d.cwd, entry |-> 1]]

NextSector(d) ==
  LET next == d.img[d.dh.at].next
  IN With(checked_read(d, d.dh.at), LAMBDA link :
       IF ~link.ok THEN [link EXCEPT !.val = 1]
       ELSE IF next = End THEN [link EXCEPT !.val = -1]
       ELSE [link EXCEPT !.val = 0, !.dh = [at |-> next, entry |-> 1]])

nextdirentry(d) ==
  With(IF d.dh.entry > EntriesPerSector THEN NextSector(d) ELSE [d EXCEPT !.val = 0], LAMBDA e :
    IF e.val # 0 THEN e
    ELSE IF e.dh.at \notin Sectors(d.type) THEN [Failing(e, "link") EXCEPT !.val = 1]
    ELSE With(image_read(e), LAMBDA r :
           IF ~r.ok THEN [r EXCEPT !.val = 1]
           ELSE [r EXCEPT !.entry = AsDir(d.img[r.dh.at]).entries[r.dh.entry], !.dh.entry = @ + 1]))

(* Entries are read until one is as wanted, or to the end.                  *)
ReadDir(d, Wanted(_)) ==
  Through(LAMBDA a, i : IF a.val # 0 \/ (a.entry # None /\ Wanted(a.entry)) THEN a
                         ELSE nextdirentry(a),
           [d64_opendir(d) EXCEPT !.val = 0, !.entry = None],
           [i \in 1 .. Cardinality(Sectors(d.type)) * EntriesPerSector + 1 |-> i])

(* d64_readdir skips free entries; file_open and the commands compare names. *)
Lookup(d, n)    == ReadDir(d, LAMBDA e : e.kind \in {"splat", "closed"} /\ e.name = n)
LookupDir(d)    == ReadDir(d, LAMBDA e : e.kind = "dir")
EntryRead(d)    == [at |-> d.dh.at, entry |-> d.dh.entry - 1]  (* dent->pvt.dxx.dh *)

write_entry(d, dh, e) ==
  image_write(d, dh.at, [AsDir(d.img[dh.at]) EXCEPT !.entries[dh.entry] = e])

(* DNP: the entry of a subdirectory in its parent counts the blocks.        *)
ParentBlocks(d) ==
  LET entry == d.img[d.cwd].entry
  IN IF d.type # "DNP" \/ entry = None THEN Good(d)
     ELSE write_entry(d, entry, [d.img[entry.at].entries[entry.entry] EXCEPT !.blocks = @ + 1])

(* A full directory gets another sector: linked, allocated, cleared.        *)
AddDirSector(d) ==
  LET old == d.dh.at
  IN Then(get_next_sector(d, old), LAMBDA next :
     Then(image_write(next, old, [next.img[old] EXCEPT !.next = next.at]), LAMBDA linked :
     Then(allocate_sector(linked, next.at), LAMBDA taken :
     Then(ParentBlocks(taken), LAMBDA counted :
       [image_write(counted, next.at, EmptyDir) EXCEPT !.dh = [at |-> next.at, entry |-> 1]]))))

find_empty_entry(d) ==
  With(ReadDir(d, LAMBDA e : e.kind = "free"), LAMBDA r :
    IF r.val > 0 THEN Bad(r)
    ELSE IF r.val < 0 THEN AddDirSector(r)
    ELSE [Good(r) EXCEPT !.dh.entry = @ - 1])

(***************************************************************************)
(* Reading: the blocks of a chain.                                         *)
(***************************************************************************)
(* d64_read from the first sector to the last: at is the sector read last,   *)
(* blocks what was read.                                                    *)
d64_read(d, ts) ==
  Then(checked_read(d, ts), LAMBDA r : [r EXCEPT !.at = ts, !.blocks = Append(@, d.img[ts])])

ReadAll(d, first) ==
  Through(LAMBDA a, i : IF ~a.ok \/ a.img[a.at].next = End THEN a ELSE d64_read(a, a.img[a.at].next),
           d64_read([d EXCEPT !.blocks = <<>>], first),
           OnePerSector[d.type])

d64_open_read(d, dh) ==
  LET e == d.img[dh.at].entries[dh.entry]
  IN Then(image_read(d), LAMBDA r : ReadAll([r EXCEPT !.entry = e], e.first))

(***************************************************************************)
(* Writing.  A handle is [dh, at, blocks, number]: the entry, the sector     *)
(* reserved for the block in the buffer (track 0 after the disk was full),   *)
(* the blocks stored, the number of the block in the buffer.                *)
(***************************************************************************)
Handle(dh, at, blocks, number) == [dh |-> dh, at |-> at, blocks |-> blocks, number |-> number]

d64_open_write(d, n) ==
  Then(find_empty_entry(d), LAMBDA empty :
  Then(get_first_sector(empty), LAMBDA first :
  Then(allocate_sector(first, first.at), LAMBDA taken :
  Then(write_entry(taken, empty.dh, FileEntry(n, first.at)), LAMBDA entry :
    [entry EXCEPT !.handle = Handle(empty.dh, first.at, 0, 1)]))))

d64_open_append(d, dh) ==
  Then(d64_open_read(d, dh), LAMBDA r :
    [write_entry(r, dh, r.entry)
       EXCEPT !.handle = Handle(dh, r.at, r.entry.blocks - 1, Len(r.blocks))])

(* Storing a block past the end of the image (track 0) is not followed up.  *)
StoreBlock(d, h, n, next) ==
  IF h.at \in Sectors(d.type) THEN image_write(d, h.at, Block(n, h.number, next)) ELSE Good(d)


(* d64_write: the successor is chosen and allocated before the block is      *)
(* stored with a link to it.                                                *)
d64_write(d, n) ==
  LET h            == d.handle
      after(e, at) == [e EXCEPT !.handle = Handle(h.dh, at, h.blocks + 1, h.number + 1)]
      freed(e)     == [e EXCEPT !.handle = None, !.ok = FALSE]
  IN With(get_next_sector(d, h.at), LAMBDA next :
       IF next.hung THEN next
       ELSE IF next.ok
       THEN With(Then(allocate_sector(next, next.at),
                      LAMBDA taken : StoreBlock(taken, h, n, next.at)), LAMBDA linked :
              IF linked.ok THEN after(linked, next.at) ELSE freed(linked))
       ELSE With(StoreBlock(next, h, n, End), LAMBDA last :
              IF last.ok /\ next.err = "none" THEN after(last, End) ELSE freed(last)))

d64_write_cleanup_short(d, n) ==   (* mutant: the last block is not counted *)
  LET h == d.handle
  IN With(StoreBlock(d, h, n, End), LAMBDA data :
       write_entry(data, h.dh, [data.img[h.dh.at].entries[h.dh.entry] EXCEPT
                     !.kind = "closed", !.blocks = h.blocks]))

(* Closing: the last block, then the entry with the number of blocks.       *)
d64_write_cleanup(d, n) ==
  LET h == d.handle
  IN IF h.at[1] = 0 THEN Bad(d)
     ELSE Then(StoreBlock(d, h, n, End), LAMBDA data :
          Then(image_read(data), LAMBDA entry :
            write_entry(entry, h.dh, [entry.img[h.dh.at].entries[h.dh.entry] EXCEPT
                          !.kind = "closed", !.blocks = h.blocks + 1])))


(* d64_delete: every sector of the chain, then the entry.                   *)
d64_delete(d, dh) ==
  LET first   == d.img[dh.at].entries[dh.entry].first
      step(a) == [checked_read(free_sector(a, a.at), a.at) EXCEPT !.at = a.img[a.at].next]
  IN Then(image_read(d), LAMBDA r :
     Then(Through(LAMBDA a, i : IF ~a.ok \/ a.at[1] = 0 THEN a ELSE step(a),
                  [r EXCEPT !.at = first], OnePerSector[d.type]), LAMBDA freed :
       write_entry(freed, dh, FreeEntry)))

d64_rename(d, dh, new) ==
  Then(image_read(d), LAMBDA r :
    write_entry(r, dh, [d.img[dh.at].entries[dh.entry] EXCEPT !.name = new]))

(***************************************************************************)
(* Subdirectories of a DNP image: a header sector and a directory sector.   *)
(***************************************************************************)
SubHeader(dir, parent, dh) ==
  [kind |-> "head", next |-> dir, parent |-> parent, entry |-> dh]

d64_mkdir(d) ==
  LET full(e) == [e EXCEPT !.ok = FALSE, !.err = "full"]
  IN Then(find_empty_entry(d), LAMBDA empty :
     With(get_next_sector(empty, d.cwd), LAMBDA head :
       IF ~head.ok THEN full(head)
       ELSE Then(allocate_sector(head, head.at), LAMBDA taken :
            With(get_next_sector(taken, head.at), LAMBDA dir :
              IF ~dir.ok THEN free_sector(full(dir), head.at)
              ELSE Then(allocate_sector(dir, dir.at), LAMBDA both :
                   Then(image_write(both, head.at, SubHeader(dir.at, d.cwd, empty.dh)), LAMBDA h :
                   Then(image_write(h, dir.at, EmptyDir), LAMBDA clear :
                     write_entry(clear, empty.dh, DirEntry(head.at)))))))))

(***************************************************************************)
(* Formatting, with an ID or without.                                      *)
(***************************************************************************)
InOrder ==
  [ty \in Types |->
     Through(LAMBDA tss, t : tss \o [i \in 1 .. sectors_per_track(ty, t) |-> <<t, i - 1>>],
             <<>>, Upwards(1, LastTrack(ty)))]
Each(d, S, op(_, _)) == Through(op, d, SelectSeq(InOrder[d.type], LAMBDA ts : ts \in S))
Allocate(d, S) == Each(d, S, allocate_sector)
DirTrackTo(d, s) == {<<DirTrack(d.type), i>> : i \in 0 .. s}
Write(d, ts, c)  == image_write(d, ts, c)

format_d41_image(d) == Write(Allocate(d, DirTrackTo(d, 1)), <<Middle, 1>>, EmptyDir)
format_d71_image(d) == Allocate(format_d41_image(d), SectorsOf("D71", D71Bam2))
format_d81_image(d) ==
  With(sectors_free(Allocate(d, DirTrackTo(d, 3)), Half + 1), LAMBDA e :
    Write([e EXCEPT !.one.dirty = TRUE], <<Half, 3>>, EmptyDir))
format_dnp_image(d) ==
  LET e == Allocate(d, DirTrackTo(d, DnpRoot))
  IN Write(Write(e, <<1, 1>>, SubHeader(<<1, DnpRoot>>, End, None)), <<1, DnpRoot>>, EmptyDir)

Erased(d, S) == [d EXCEPT !.img = [ts \in DOMAIN @ |-> IF ts \in S THEN Zeroed ELSE @[ts]]]
Invalid(w)   == IF w = NotThere THEN w ELSE NoWindow

d64_format(d, id) ==
  LET cleared(e) == Erased([e EXCEPT !.one = Invalid(@), !.two = Invalid(@)],
                           IF id THEN Sectors(d.type) ELSE SectorsOf(d.type, DirTrack(d.type)))
  IN With(Each(cleared(d64_bam_commit(d)), Sectors(d.type), free_sector), LAMBDA free :
       CASE d.type = "D41" -> format_d41_image(free)
         [] d.type = "D71" -> format_d71_image(free)
         [] d.type = "D81" -> format_d81_image(free)
         [] d.type = "DNP" -> format_dnp_image(free))

(* The blocks free of a directory listing: not those of the directory track, *)
(* nor of the second BAM track, nor of the reserved part of a DNP's track 1. *)
d64_freeblocks(d) ==
  LET skipped == CASE d.type = "D81" -> {Half} [] d.type = "DNP" -> {1} [] OTHER -> {Middle, D71Bam2}
      tracks  == SelectSeq(Upwards(1, LastTrack(d.type)), LAMBDA t : t \notin skipped)
      track1  == IF d.type = "DNP" THEN Each([d EXCEPT !.at = 0],
                   SectorsOf("DNP", 1) \ DirTrackTo(d, DnpReserved - 1),
                   LAMBDA a, ts : LET f == is_free(a, ts)
                                  IN [f EXCEPT !.at = IF f.val > 0 THEN @ + 1 ELSE @])
                 ELSE [d EXCEPT !.at = 0]
  IN Through(LAMBDA a, t : LET f == sectors_free(a, t) IN [f EXCEPT !.at = @ + f.val], track1, tracks)

(***************************************************************************)
(* The handlers.                                                           *)
(***************************************************************************)
Start(ty, image, w1, w2, dir) ==
  [type |-> ty, img |-> image, one |-> w1, two |-> w2, cwd |-> dir, spare |-> FALSE,
   io |-> 0, failed |-> FALSE, ok |-> TRUE, val |-> 0, at |-> None, dh |-> None, entry |-> None,
   blocks |-> <<>>, handle |-> None, err |-> "none", hung |-> FALSE]
Now == Start(type, img, one, two, cwd)

(* What a handler may start from: the access that is going to fail, if any,  *)
(* and whether there is a buffer for a second window, while there is none.  *)
Starts == {[Now EXCEPT !.io = k, !.spare = s] :
             s \in IF two = NotThere /\ Cardinality(BamSectors(type)) > 1 THEN BOOLEAN ELSE {FALSE},
             k \in IF faults < MaxFaults /\ MayFail(type) # {} THEN 0 .. MaxAccesses ELSE {0}}

(* A handler's end.  What runs from BUS_CLEANUP ends with the commit.        *)
Settle(d) ==
  /\ img' = d.img /\ one' = d.one /\ two' = d.two
  /\ err' = d.err /\ hung' = d.hung
  /\ faults' = faults + (IF d.failed THEN 1 ELSE 0)
  /\ UNCHANGED type

Used(start, d) == start.io = 0 \/ d.failed   (* the access chosen to fail was reached *)

Finish(d) == \E e \in {d64_bam_commit(d)} : Settle(e)

Blank(ty) == Start(ty, [ts \in Sectors(ty) |-> Zeroed], NoWindow, NotThere, RootDir(ty))
Formatted(ty) == d64_bam_commit(d64_format(Blank(ty), TRUE))

(* d64_mount: an image that was formatted by this code. *)
Init ==
  /\ type \in Types
  /\ img = Formatted(type).img
  /\ one = NoWindow /\ two = NotThere
  /\ cwd = RootDir(type)
  /\ fh = [n \in Names |-> None]
  /\ err = "none" /\ hung = FALSE /\ faults = 0
  /\ stored = [n \in Names |-> 0]

Closed   == \A n \in Names : fh[n] = None
Unused(n) == stored[n] = 0 /\ fh[n] = None

(* A name is looked for in the current directory before it is used.         *)
Create(n) ==
  /\ Unused(n)
  /\ \E s \in Starts : \E l \in {Lookup(s, n)} :
       \E d \in {IF l.val = -1 THEN d64_open_write(l, n) ELSE l} :
          /\ Used(s, d) /\ Finish(d)
          /\ fh' = [fh EXCEPT ![n] = IF l.val = -1 /\ d.ok THEN d.handle ELSE None]
  /\ UNCHANGED <<cwd, stored>>

AppendTo(n) ==
  /\ stored[n] > 0 /\ fh[n] = None
  /\ \E s \in Starts : \E l \in {Lookup(s, n)} :
       \E d \in {IF l.val = 0 THEN d64_open_append(l, EntryRead(l)) ELSE l} :
          /\ Used(s, d) /\ Finish(d)
          /\ fh' = [fh EXCEPT ![n] = IF l.val = 0 /\ d.handle # None THEN d.handle ELSE None]
  /\ UNCHANGED <<cwd, stored>>

(* A file to which appending failed: there may be anything behind its last   *)
(* block.                                                                   *)
Kept(n, good) == [stored EXCEPT ![n] = IF good \/ @ = 0 THEN @ ELSE -1]

(* The buffer is full and another byte arrives.  Until the drive's next      *)
(* command the BAM stays in the windows.                                    *)
Refill(n) ==
  /\ fh[n] # None /\ fh[n].number < MaxBlocks
  /\ fh[n].at[1] = 0 => WritesOn
  /\ \E s \in Starts : \E d \in {d64_write([s EXCEPT !.handle = fh[n], !.err = err], n)} :
       /\ Used(s, d) /\ Settle(d)
       /\ fh' = [fh EXCEPT ![n] = d.handle]
       /\ stored' = Kept(n, d.handle # None)
  /\ UNCHANGED cwd

Close(n) ==
  /\ fh[n] # None
  /\ \E s \in Starts : \E d \in {d64_write_cleanup([s EXCEPT !.handle = fh[n]], n)} :
       /\ Used(s, d) /\ Finish(d)
       /\ stored' = IF d.ok THEN [stored EXCEPT ![n] = fh[n].number] ELSE Kept(n, FALSE)
  /\ fh' = [fh EXCEPT ![n] = None]
  /\ UNCHANGED cwd

Delete(n) ==
  /\ stored[n] > 0 /\ fh[n] = None
  /\ \E s \in Starts : \E l \in {Lookup(s, n)} :
       \E d \in {IF l.val = 0 THEN d64_delete(l, EntryRead(l)) ELSE l} :
          /\ Used(s, d) /\ Finish(d)
          /\ stored' = [stored EXCEPT ![n] = IF l.val = -1 THEN @ ELSE IF d.ok THEN 0 ELSE -1]
  /\ UNCHANGED <<cwd, fh>>

Rename(n, new) ==
  /\ stored[n] > 0 /\ fh[n] = None /\ Unused(new)
  /\ \E s \in Starts : \E taken \in {Lookup(s, new)} :
     \E l \in {IF taken.val = -1 THEN Lookup(taken, n) ELSE Bad(taken)} :
       \E d \in {IF l.ok /\ l.val = 0 THEN d64_rename(l, EntryRead(l), new) ELSE Bad(l)} :
          /\ Used(s, d) /\ Finish(d)
          /\ stored' = IF d.ok THEN [stored EXCEPT ![n] = 0, ![new] = stored[n]] ELSE stored
  /\ UNCHANGED <<cwd, fh>>

MakeDir ==
  /\ type = "DNP" /\ cwd = RootDir(type)
  /\ \E s \in Starts : \E l \in {LookupDir(s)} : \E d \in {d64_mkdir(l)} :
       l.val = -1 /\ Used(s, d) /\ Finish(d)
  /\ UNCHANGED <<cwd, fh, stored>>

(* d64_chdir: into the subdirectory, or up to the header of the parent.      *)
ChangeDir ==
  /\ type = "DNP"
  /\ \E s \in Starts : \E l \in {IF cwd = RootDir(type) THEN LookupDir(s) ELSE Good(s)} :
       \E d \in {image_read(l)} :
          /\ cwd = RootDir(type) => l.val = 0
          /\ Used(s, d) /\ Finish(d)
          /\ cwd' = IF ~d.ok THEN cwd
                    ELSE IF cwd = RootDir(type) THEN l.entry.first ELSE img[cwd].parent
  /\ UNCHANGED <<fh, stored>>

(* The handlers ignore a format outside the root directory.                 *)
Format(id) ==
  /\ Closed /\ cwd = RootDir(type)
  /\ ~id /\ type = "D71" => QuickFormatD71
  /\ Finish(d64_format(Now, id))
  /\ stored' = [n \in Names |-> 0]
  /\ UNCHANGED <<cwd, fh>>

(* Unmounting writes the windows and forgets them; mounting starts in the    *)
(* root directory.                                                          *)
Remount ==
  /\ Closed
  /\ \E s \in Starts : \E d \in {d64_bam_commit(s)} :
       Used(s, d) /\ Settle([d EXCEPT !.one = NoWindow, !.two = Invalid(@)])
  /\ cwd' = RootDir(type)
  /\ UNCHANGED <<fh, stored>>

(* Any other command ends with the commit as well.                          *)
Commit ==
  /\ \E s \in Starts : \E d \in {d64_bam_commit(s)} : Used(s, d) /\ Settle(d)
  /\ UNCHANGED <<cwd, fh, stored>>

Next ==
  /\ ~hung
  /\ \/ \E n \in Names : Create(n) \/ AppendTo(n) \/ Refill(n) \/ Close(n) \/ Delete(n)
     \/ \E n, new \in Names : Rename(n, new)
     \/ MakeDir \/ ChangeDir \/ Remount \/ Commit
     \/ \E id \in BOOLEAN : Format(id)

Spec == Init /\ [][Next]_vars
-----------------------------------------------------------------------------
(***************************************************************************)
(* Properties.                                                             *)
(***************************************************************************)
SectorType == Sectors(type) \cup {<<0, s>> : s \in 0 .. 255}

WindowOK(w) ==
  w.at = None \/ (w.at \in BamSectors(type) /\ w.bam.free \subseteq Sectors(type) /\ w.dirty \in BOOLEAN)

(* The image has a content for every sector, the windows hold BAM sectors,   *)
(* handles point into the image.                                            *)
TypeOK ==
  /\ type \in Types /\ DOMAIN img = Sectors(type)
  /\ \A ts \in Sectors(type) : img[ts].next \in Sectors(type) \cup {End}
  /\ WindowOK(one) /\ WindowOK(two) /\ (one.at = None \/ one.at # two.at)
  /\ \A n \in Names : fh[n] = None \/ fh[n].at \in SectorType
  /\ stored \in [Names -> -1 .. MaxBlocks]
  /\ faults \in 0 .. MaxFaults /\ hung \in BOOLEAN

Chain(ts) ==
  Through(LAMBDA c, i : LET next == img[c[Len(c)]].next
                         IN IF next = End THEN c ELSE Append(c, next),
           <<ts>>, OnePerSector[type])
ChainSet(ts) == ToSet(Chain(ts))

(* The directory sectors: those of the root and of the subdirectories.      *)
EntriesOf(S) == UNION {{AsDir(img[ts]).entries[i] : i \in 1 .. EntriesPerSector} : ts \in S}
RootSectors  == ChainSet(DirHead(type, RootDir(type))) \cup ChainSet(RootDir(type))
SubDirs      == {e.first : e \in {x \in EntriesOf(RootSectors) : x.kind = "dir"}}
DirSectorsInUse == RootSectors \cup UNION {ChainSet(h) : h \in SubDirs}
Files        == {e \in EntriesOf(DirSectorsInUse) :
                   e.kind = "closed" /\ stored[e.name] > 0 /\ fh[e.name] = None}
Reserved     == {fh[n].at : n \in {m \in Names : fh[m] # None}} \ {<<0, s>> : s \in 0 .. 255}

(* The BAM as the code sees it: the window, or what the image holds.        *)
BamNow(ts) ==
  IF one.at = ts THEN one.bam ELSE IF two.at = ts THEN two.bam ELSE AsBam(type, img[ts])
FreeNow == UNION {BamNow(ts).free : ts \in BamSectors(type)}
FreeOn(t) == Cardinality(SectorsOf(type, t) \cap FreeNow)

FirstOnes == {e.first : e \in {x \in EntriesOf(DirSectorsInUse) : x.kind \in {"splat", "closed"}}}
UpToReserved(ts) ==
  ToSet(Through(LAMBDA c, i : LET next == img[c[Len(c)]].next
                              IN IF next = End \/ c[Len(c)] \in Reserved THEN c ELSE Append(c, next),
                <<ts>>, OnePerSector[type]))
SystemSectors ==
  [ty \in Types |-> Sectors(ty) \ UNION {AsBam(ty, Formatted(ty).img[b]).free : b \in BamSectors(ty)}]

(* The BAM, whichever of its sectors are in the windows, tells the truth.     *)
(* allocate_sector and free_sector keep a bit and a counter that may be in    *)
(* different BAM sectors: for each track the counter is the number of free    *)
(* sectors.  No sector of a directory or of a closed file, and none reserved  *)
(* for a file being written, is free, whichever accesses failed.  And as long *)
(* as none failed, a sector that is not free belongs to the directory, to a   *)
(* file, to a file being written or to the BAM: deleting, closing and running *)
(* out of space lose none.                                                    *)
BamTrue ==
  /\ TypeOK
  /\ type # "DNP" => \A t \in 1 .. LastTrack(type) :
                       BamNow(BamSector(type, t, "count")).count[t] = FreeOn(t)
  /\ (DirSectorsInUse \cup UNION {ChainSet(f.first) : f \in Files} \cup Reserved) \cap FreeNow = {}
  /\ faults = 0 => Sectors(type) \ FreeNow \subseteq
       SystemSectors[type] \cup DirSectorsInUse \cup Reserved \cup UNION {UpToReserved(f) : f \in FirstOnes}

(* A closed file that is not open reads back, by d64_read, as the blocks      *)
(* written, in order, and its entry has their number, although other files   *)
(* were written, deleted or failed in the meantime.                         *)
Contents(first) == ReadAll(Now, first).blocks
ReadsBack ==
  \A n \in Names : stored[n] > 0 /\ fh[n] = None =>
    \E f \in Files :
      LET blocks == Contents(f.first)
      IN /\ f.name = n /\ f.blocks = stored[n] /\ Len(blocks) = stored[n]
         /\ \A k \in 1 .. stored[n] : blocks[k].kind = "data" /\ blocks[k].number = k

(* "Disk full" is only reported when the listing shows no free block, or     *)
(* when it is the directory track that is full (formats other than DNP).     *)
FullMeansFull ==
  [][type # "DNP" /\ err' = "full" /\ err # "full" =>
       \/ d64_freeblocks(Now).at = 0
       \/ FreeOn(DirTrack(type)) = 0]_vars

(* get_next_sector: "Returns 0 if successful or 1 if any error occured"; it   *)
(* returns.                                                                 *)
NeverHangs == ~hung
=============================================================================
