----------------------------- MODULE FatVolume -----------------------------
(***************************************************************************)
(* FatFs (ff.c), as fatops.c uses it: the allocation table and its copy,    *)
(* directories with long names in slots before the entry, files as chains   *)
(* of clusters, one sector window (static_buf) that the table, the          *)
(* directories and all files share and that is written when it moves, and a *)
(* power cut between any two writes.                                       *)
(*                                                                         *)
(* A call is an operator on a volume v: the disk, the window win, the       *)
(* fields of FATFS that change, log, the disks that the call has gone       *)
(* through, and the local variables dj, obj, len, e, val, ok of the call.   *)
(* A sector has SS units: bytes of a file, or entries of a directory.       *)
(***************************************************************************)
EXTENDS Integers, Sequences, FiniteSets

CONSTANTS
  Types,        (* 16, 32: FS_FAT16, FS_FAT32 *)
  Names,        (* what files are called *)
  Slots(_),     (* the slots of a name, 0 for an 8.3 name *)
  Short(_),     (* <<base, n>>: the 8.3 name of those, the first alias of the others *)
  DirName,      (* the subdirectory, an 8.3 name *)
  SS,           (* units of a sector *)
  FPS,          (* table entries of a sector *)
  CSize,        (* sectors of a cluster *)
  MaxClust,     (* the number of the last cluster + 1 *)
  RootSects,    (* sectors of the root directory of FAT16 *)
  Chunk,        (* what the drive reads or writes at once, less than a sector *)
  Positions,    (* where it seeks *)
  MaxSize, MaxChanges   (* bounds: units of a file, calls that are not about an open file *)

ASSUME FatVolumeAssumption ==
  /\ Types \subseteq {16, 32}
  /\ {SS, FPS, CSize, RootSects, Chunk} \subseteq Nat \ {0} /\ Chunk < SS
  /\ {MaxClust, MaxSize, MaxChanges} \subseteq Nat /\ MaxClust > 3 /\ DirName \notin Names

VARIABLES
  vol,      (* the volume *)
  fh,       (* the file objects of two channels: one writes, one reads *)
  cwd,      (* the current directory: "root" or "sub" *)
  stored,   (* history: what the closed files are to hold *)
  made,     (* history: the subdirectory exists *)
  kept,     (* history: a power cut during the last call leaves the other files alone *)
  denied,   (* history: what the last call did not find, a cluster or entries in a row *)
  changes

vars == <<vol, fh, cwd, stored, made, kept, denied, changes>>

Handles == {1, 2}
Writer  == 1
Reader  == 2
Dirs    == {"root", "sub"}
Gone    == [gone |-> TRUE]

With(v, F(_)) == F(v)                        (* names a result *)
Then(v, F(_)) == IF v.ok THEN F(v) ELSE v    (* goes on after a success *)

(***************************************************************************)
(* The layout.                                                             *)
(***************************************************************************)
EOC      == 999
Unknown  == 9999
Cluster  == 0
SectsFat == (MaxClust + FPS - 1) \div FPS
FatBase  == 1
DirBase  == FatBase + 2 * SectsFat
Database(type) == DirBase + IF type = 32 THEN 0 ELSE RootSects
RootClust(v)   == IF v.type = 32 THEN 2 ELSE 0
FsInfo   == 100
Sectors(type) == 1 .. Database(type) + (MaxClust - 2) * CSize - 1

Zero    == [st |-> "zero"]
Deleted == [st |-> "deleted"]
Blank   == [i \in 1 .. SS |-> Zero]
Slot(n, i) == [st |-> "lfn", of |-> n, n |-> i]
Entry(as, dir, org, size) == [st |-> "entry", as |-> as, dir |-> dir, org |-> org, size |-> size]

(***************************************************************************)
(* The window.  A sector of the table is written to the copy as well.       *)
(***************************************************************************)
disk_write(v, s, data) == With([v.disk EXCEPT ![s] = data], LAMBDA d : [v EXCEPT !.disk = d, !.log = Append(@, d)])

write_back(v) ==
  With(disk_write(v, v.win.sect, v.win.data), LAMBDA w :
    [(IF v.win.sect < FatBase + SectsFat THEN disk_write(w, v.win.sect + SectsFat, v.win.data) ELSE w)
       EXCEPT !.win.dirty = FALSE])

(* Sector 0 only writes the window.                                         *)
move_window(v, s) ==
  IF v.win.sect = s THEN v
  ELSE With(IF v.win.dirty THEN write_back(v) ELSE v, LAMBDA w :
         IF s = 0 THEN w ELSE [w EXCEPT !.win = [sect |-> s, dirty |-> FALSE, data |-> w.disk[s]]])

poke(v, i, c) == [v EXCEPT !.win.data[i] = c, !.win.dirty = TRUE]

sync(v) ==
  With(move_window([v EXCEPT !.win.dirty = TRUE], 0), LAMBDA w :
    IF w.type = 32 /\ w.fsi
    THEN [disk_write(w, FsInfo, <<w.last, w.free>>) EXCEPT !.win.sect = 0, !.fsi = FALSE] ELSE w)

(***************************************************************************)
(* Clusters.                                                               *)
(***************************************************************************)
ValidClust(c)    == c >= 2 /\ c < MaxClust
clust2sect(v, c) == IF ValidClust(c) THEN (c - 2) * CSize + Database(v.type) ELSE 0

get_cluster(v, c) ==
  IF ~ValidClust(c) THEN [v EXCEPT !.val = 1]
  ELSE With(move_window(v, FatBase + c \div FPS), LAMBDA w : [w EXCEPT !.val = w.win.data[(c % FPS) + 1]])

put_cluster(v, c, val) == poke(move_window(v, FatBase + c \div FPS), (c % FPS) + 1, val)

counted(v, n) == IF v.free = Unknown THEN v ELSE [v EXCEPT !.free = @ + n, !.fsi = TRUE]

remove_chain_first(v, c) ==   (* mutant: only the first cluster is freed *)
  IF ValidClust(c) THEN counted(put_cluster(v, c, 0), 1) ELSE v

RECURSIVE remove_chain(_, _)
remove_chain(v, c) ==
  IF ~ValidClust(c) THEN v
  ELSE With(get_cluster(v, c), LAMBDA g : remove_chain(counted(put_cluster(g, c, 0), 1), g.val))

(* create_chain: the first free cluster after scl, around the end; 0 if there *)
(* is none.                                                                *)
RECURSIVE free_after(_, _, _)
free_after(v, at, scl) ==
  LET wraps == at + 1 >= MaxClust
      ncl   == IF wraps THEN 2 ELSE at + 1
  IN IF wraps /\ ncl > scl THEN [v EXCEPT !.val = 0]
     ELSE With(get_cluster(v, ncl), LAMBDA g :
            IF g.val = 0 THEN [g EXCEPT !.val = ncl]
            ELSE IF ncl = scl THEN [g EXCEPT !.val = 0] ELSE free_after(g, ncl, scl))

new_cluster_no_wrap(v, after, scl) ==   (* mutant: the search ends with the last cluster *)
  With(free_after(v, scl, 1), LAMBDA f :
    IF f.val = 0 THEN [f EXCEPT !.lacks = <<Cluster>>]
    ELSE LET marked == put_cluster(f, f.val, EOC)
         IN [counted(IF after = 0 THEN marked ELSE put_cluster(marked, after, f.val), -1)
               EXCEPT !.last = f.val, !.val = f.val])

new_cluster(v, after, scl) ==
  With(free_after(v, scl, scl), LAMBDA f :
    IF f.val = 0 THEN [f EXCEPT !.lacks = <<Cluster>>]
    ELSE LET marked == put_cluster(f, f.val, EOC)
         IN [counted(IF after = 0 THEN marked ELSE put_cluster(marked, after, f.val), -1)
               EXCEPT !.last = f.val, !.val = f.val])

(* Starts a chain, or finds or makes what follows a cluster.                 *)
create_chain(v, c) ==
  IF c = 0 THEN new_cluster(v, 0, IF v.last \in 1 .. MaxClust - 1 THEN v.last ELSE 1)
  ELSE With(get_cluster(v, c), LAMBDA g :
         IF g.val < 2 THEN [g EXCEPT !.val = 1] ELSE IF g.val < MaxClust THEN g ELSE new_cluster(g, c, c))

(***************************************************************************)
(* Directories.                                                            *)
(***************************************************************************)
cell(v) == v.win.data[(v.dj.index % SS) + 1]
set(v, c) == poke(v, (v.dj.index % SS) + 1, c)

l_opendir(v, c) ==
  LET start == IF c = 0 THEN RootClust(v) ELSE c
  IN [v EXCEPT !.ok = TRUE, !.dj = [sclust |-> start, clust |-> start, index |-> 0,
                                    sect |-> IF start = 0 THEN DirBase ELSE clust2sect(v, start)]]

next_dir_entry(v) ==
  LET idx == v.dj.index + 1
      on  == [v EXCEPT !.dj.index = idx, !.dj.sect = @ + 1, !.ok = TRUE]
  IN IF idx % SS # 0 THEN [v EXCEPT !.dj.index = idx, !.ok = TRUE]
     ELSE IF v.dj.clust = 0 THEN IF idx >= RootSects * SS THEN [v EXCEPT !.ok = FALSE] ELSE on
     ELSE IF (idx \div SS) % CSize # 0 THEN on
     ELSE With(get_cluster(v, v.dj.clust), LAMBDA g :
            IF ~ValidClust(g.val) THEN [g EXCEPT !.ok = FALSE]
            ELSE [g EXCEPT !.dj.index = idx, !.dj.clust = g.val, !.dj.sect = clust2sect(v, g.val), !.ok = TRUE])

(* The search of trace_path: store says that the next entry begins a name,    *)
(* match and l follow the slots.  obj is where the name found begins, len its *)
(* slots, e the entry; a long name is compared by its slots alone.           *)
RECURSIVE trace(_, _, _, _, _)
trace(v, key, store, match, l) ==
  LET long == Len(key) = 1
  IN With(move_window(v, v.dj.sect), LAMBDA w :
     With(IF store THEN [w EXCEPT !.obj = w.dj, !.len = IF long THEN Slots(key[1]) ELSE 0] ELSE w, LAMBDA at :
     With(cell(at), LAMBDA e :
     LET n == IF long THEN l ELSE at.len
     IN IF e.st = "zero" THEN [at EXCEPT !.ok = FALSE]
        ELSE IF e.st = "entry" /\ IF long THEN match /\ n = Slots(key[1]) ELSE e.as = key
        THEN [at EXCEPT !.ok = TRUE, !.e = e]
        ELSE LET slot == e.st = "lfn"
                 moved == IF slot /\ ~long THEN [at EXCEPT !.len = @ + 1] ELSE at
             IN With(next_dir_entry(moved), LAMBDA x :
                  IF ~x.ok THEN [x EXCEPT !.len = IF long THEN @ ELSE 0]
                  ELSE trace(x, key, ~slot, (match \/ e.st = "entry") /\ (slot => <<e.of>> = key),
                             IF slot THEN n + 1 ELSE IF e.st = "entry" THEN 0 ELSE n)))))

(* An 8.3 name, or a long one. *)
Key(name) == IF Slots(name) = 0 THEN Short(name) ELSE <<name>>

trace_path(v, key) == trace([l_opendir(v, v.curr) EXCEPT !.len = 0], key, TRUE, TRUE, 0)

(* The entries free in a row from run on; n of them are wanted.              *)
RECURSIVE reserve(_, _, _, _)
reserve(v, n, run, count) ==
  With(move_window(v, v.dj.sect), LAMBDA w :
    LET free  == cell(w).st \in {"zero", "deleted"}
        start == IF free /\ count = 0 THEN w.dj ELSE run
        so    == IF free THEN count + 1 ELSE 0
    IN IF so = n THEN [w EXCEPT !.dj = start, !.ok = TRUE]
       ELSE With(next_dir_entry(w), LAMBDA x :
              IF x.ok THEN reserve(x, n, start, so) ELSE [x EXCEPT !.obj = start, !.len = so]))

RECURSIVE wipe(_, _, _)
wipe(v, s, n) == IF n = 0 THEN v ELSE wipe(disk_write(v, s, Blank), s + 1, n - 1)

(* A directory that is a chain of clusters grows by one.                     *)
grow_dir(v) ==
  With(create_chain(v, v.dj.clust), LAMBDA c :
    IF c.val = 0 THEN [c EXCEPT !.ok = FALSE]
    ELSE LET sect  == clust2sect(c, c.val)
             blank == [wipe(move_window(c, 0), sect, CSize)
                         EXCEPT !.win = [sect |-> sect, dirty |-> TRUE, data |-> Blank], !.ok = TRUE]
         IN IF v.len > 0 THEN [move_window(blank, v.obj.sect) EXCEPT !.dj = v.obj]
            ELSE [blank EXCEPT !.dj = [@ EXCEPT !.index = 0, !.sect = sect, !.clust = c.val]])

reserve_direntry(v, n) ==
  With(reserve(l_opendir(v, v.dj.sclust), n, v.dj, 0), LAMBDA r :
    IF r.ok THEN r ELSE IF r.dj.sclust = 0 THEN [r EXCEPT !.lacks = <<n>>] ELSE grow_dir(r))

(* create_short_name and fix_short_name: the number of the alias goes up until *)
(* no entry has it.                                                        *)
RECURSIVE alias(_, _)
alias(v, as) ==
  With(trace(l_opendir(v, v.dj.sclust), as, TRUE, TRUE, 0), LAMBDA t :
    IF t.ok THEN alias(t, <<as[1], as[2] + 1>>) ELSE [t EXCEPT !.val = as])

RECURSIVE put_slots(_, _, _)
put_slots(v, name, i) ==
  With(move_window(v, v.dj.sect), LAMBDA w :
    IF i = 0 THEN w ELSE put_slots(next_dir_entry(set(w, Slot(name, i))), name, i - 1))

add_direntry(v, name) == With(alias(v, Short(name)), LAMBDA a : put_slots([a EXCEPT !.dj = v.dj], name, Slots(name)))

(* The place for the entry of a name, and the 8.3 name in val.               *)
new_entry(v, name) == IF Slots(name) = 0 THEN [v EXCEPT !.val = Short(name)] ELSE add_direntry(v, name)

RECURSIVE mark_deleted(_, _, _)
mark_deleted(v, n, moves) ==
  With(move_window(v, v.dj.sect), LAMBDA w :
    With(set(w, Deleted), LAMBDA d :
      IF n = 0 /\ ~moves THEN [d EXCEPT !.ok = TRUE]
      ELSE With(next_dir_entry(d), LAMBDA x : IF n = 0 \/ ~x.ok THEN x ELSE mark_deleted(x, n - 1, moves))))

(* f_readdir, until a name or an alias: the alias in val.                    *)
RECURSIVE readdir(_, _, _)
readdir(v, name, lfn) ==
  With(move_window(v, v.dj.sect), LAMBDA w :
    With(cell(w), LAMBDA e :
      IF e.st = "zero" THEN [w EXCEPT !.ok = FALSE]
      ELSE IF e.st = "entry" /\ IF lfn = <<>> THEN e.as = Key(name) ELSE lfn = <<name>>
      THEN [w EXCEPT !.ok = TRUE, !.val = e.as, !.e = e]
      ELSE With(next_dir_entry(w), LAMBDA x :
             IF ~x.ok THEN x
             ELSE readdir(x, name, IF e.st = "lfn" THEN <<e.of>> ELSE IF e.st = "entry" THEN <<>> ELSE lfn))))

Find(v, name) == readdir(l_opendir(v, v.curr), name, <<>>)

(***************************************************************************)
(* Files.  v.f is the file object of the call.                             *)
(***************************************************************************)
NoFile == [mode |-> "closed", fptr |-> 0, fsize |-> 0, org |-> 0, clust |-> 0, csect |-> 0, sect |-> 0,
           dirSect |-> 0, dirPtr |-> 0, written |-> FALSE, name |-> Gone, id |-> 0, text |-> <<>>]

FileOf(v, mode) ==
  [v EXCEPT !.ok = TRUE,
     !.f = [NoFile EXCEPT !.mode = mode, !.fsize = v.e.size, !.org = v.e.org, !.csect = 1,
                          !.dirSect = v.win.sect, !.dirPtr = (v.dj.index % SS) + 1, !.written = (mode = "new")]]

(* FA_OPEN_EXISTING                                                         *)
f_open(v, key, mode) == Then(trace_path(v, key), LAMBDA t : IF t.e.dir THEN [t EXCEPT !.ok = FALSE] ELSE FileOf(t, mode))

(* FA_CREATE_NEW, FA_CREATE_ALWAYS                                          *)
make_file(v, name) ==
  Then(reserve_direntry(v, Slots(name) + 1), LAMBDA r : With(new_entry(r, name), LAMBDA n :
    With(Entry(n.val, FALSE, 0, 0), LAMBDA e : sync(FileOf([set(n, e) EXCEPT !.e = e], "new")))))

empty_file(v) ==
  With([v.e EXCEPT !.org = 0, !.size = 0], LAMBDA e :
    With(move_window(remove_chain(set(v, e), v.e.org), v.win.sect), LAMBDA m :
      sync(FileOf([m EXCEPT !.last = v.e.org - 1, !.e = e], "new"))))

f_create(v, name, always) ==
  With(trace_path(v, Key(name)), LAMBDA t :
    IF ~t.ok THEN make_file(t, name)
    ELSE IF ~always \/ t.e.dir THEN [t EXCEPT !.ok = FALSE] ELSE empty_file(t))

(* The sector of the next unit, when it is the first of a sector.            *)
next_file_cluster(v, writes) ==
  IF v.f.fptr = 0 THEN IF writes /\ v.f.org = 0 THEN create_chain(v, 0) ELSE [v EXCEPT !.val = v.f.org]
  ELSE IF writes THEN create_chain(v, v.f.clust) ELSE get_cluster(v, v.f.clust)

file_sector(v, writes) ==
  LET left == (v.f.csect - 1) % 256
  IN IF v.f.fptr % SS # 0 THEN [v EXCEPT !.ok = TRUE]
     ELSE IF left # 0 THEN [move_window(v, 0) EXCEPT !.f.csect = left, !.f.sect = @ + 1, !.ok = TRUE]
     ELSE With(next_file_cluster(v, writes), LAMBDA c :
            IF ~ValidClust(c.val) THEN [c EXCEPT !.f.csect = 0, !.ok = FALSE]
            ELSE [move_window(c, 0) EXCEPT !.f.clust = c.val, !.f.sect = clust2sect(c, c.val), !.ok = TRUE,
                    !.f.csect = CSize, !.f.org = IF v.f.fptr = 0 THEN c.val ELSE @])

Least(a, b) == IF a < b THEN a ELSE b

RECURSIVE f_read(_, _)
f_read(v, n) ==
  LET from == v.f.fptr % SS
      k    == Least(Least(n, v.f.fsize - v.f.fptr), SS - from)
  IN IF k = 0 THEN [v EXCEPT !.ok = TRUE]
     ELSE Then(file_sector(v, FALSE), LAMBDA a : With(move_window(a, a.f.sect), LAMBDA w :
            f_read([w EXCEPT !.f.fptr = @ + k, !.data = @ \o SubSeq(w.win.data, from + 1, from + k)], n - k)))

RECURSIVE f_write(_, _)
f_write(v, bytes) ==
  LET from == v.f.fptr % SS
      k    == Least(Len(bytes), SS - from)
      put(w) == [i \in 1 .. SS |-> IF i \in from + 1 .. from + k THEN bytes[i - from] ELSE w.win.data[i]]
      end(w) == [w EXCEPT !.f.fsize = IF @ < w.f.fptr THEN w.f.fptr ELSE @, !.f.written = TRUE]
  IN IF k = 0 THEN [end(v) EXCEPT !.ok = TRUE]
     ELSE With(file_sector(v, TRUE), LAMBDA a :
            IF ~a.ok THEN end(a)
            ELSE With(move_window(a, a.f.sect), LAMBDA w :
                   f_write([w EXCEPT !.f.fptr = @ + k, !.win.data = put(w), !.win.dirty = TRUE], SubSeq(bytes, k + 1, Len(bytes)))))

(* f_lseek: to the sector that the unit before the new position is in.       *)
ClustSize == CSize * SS
at_unit(v, ofs) ==
  LET csect == (ofs - 1) \div SS
  IN [v EXCEPT !.f.sect = clust2sect(v, v.f.clust) + csect, !.f.csect = CSize - csect]

RECURSIVE follow(_, _, _)
follow(v, clust, ofs) ==
  LET u == [v EXCEPT !.f.clust = clust]
  IN IF ofs <= ClustSize THEN at_unit([u EXCEPT !.f.fptr = @ + ofs], ofs)
     ELSE With(IF v.f.mode = "read" THEN get_cluster(u, clust) ELSE create_chain(u, clust), LAMBDA c :
            IF c.val = 0 THEN at_unit([c EXCEPT !.f.fptr = @ + ClustSize], ClustSize)
            ELSE follow([c EXCEPT !.f.fptr = @ + ClustSize], c.val, ofs - ClustSize))

seek_from_top(v, ofs) ==
  With(IF v.f.org = 0 THEN create_chain(v, 0) ELSE [v EXCEPT !.val = v.f.org], LAMBDA c :
    IF c.val = 0 THEN at_unit([c EXCEPT !.f.fptr = 0], ofs)
    ELSE follow([c EXCEPT !.f.org = c.val, !.f.fptr = 0], c.val, ofs))

seek_to(v, ofs) ==
  LET f    == v.f
      base == ((f.fptr - 1) \div ClustSize) * ClustSize
  IN IF ofs = 0 THEN [v EXCEPT !.f.fptr = 0, !.f.csect = 1]
     ELSE IF f.fptr > 0 /\ ofs \div ClustSize = (f.fptr - 1) \div ClustSize
     THEN at_unit([v EXCEPT !.f.fptr = ofs], ofs % ClustSize)
     ELSE IF f.fptr > 0 /\ ofs > f.fptr THEN follow([v EXCEPT !.f.fptr = base], f.clust, ofs - base)
     ELSE seek_from_top(v, ofs)

f_lseek(v, ofs) ==
  IF v.f.fptr = ofs THEN v
  ELSE With(seek_to(move_window(v, 0), IF v.f.mode = "read" THEN Least(ofs, v.f.fsize) ELSE ofs), LAMBDA s :
         IF s.f.fptr <= s.f.fsize THEN s ELSE [s EXCEPT !.f.fsize = s.f.fptr, !.f.written = TRUE])

f_sync_size(v) ==   (* mutant: the first cluster is stored only when the file is new *)
  IF ~v.f.written THEN v
  ELSE With(move_window(move_window(v, 0), v.f.dirSect), LAMBDA w :
         sync([w EXCEPT !.win.data[v.f.dirPtr].size = v.f.fsize, !.f.written = FALSE]))

f_sync(v) ==
  IF ~v.f.written THEN v
  ELSE With(move_window(move_window(v, 0), v.f.dirSect), LAMBDA w :
         sync([w EXCEPT !.win.data[v.f.dirPtr] = [@ EXCEPT !.size = v.f.fsize, !.org = v.f.org],
                        !.f.written = FALSE]))

f_close(v) == [f_sync(v) EXCEPT !.f = NoFile, !.ok = TRUE]

(***************************************************************************)
(* Directory entries.                                                      *)
(***************************************************************************)
RECURSIVE dir_empty(_)
dir_empty(v) ==
  With(move_window(v, v.dj.sect), LAMBDA w :
    IF cell(w).st = "zero" THEN [w EXCEPT !.ok = TRUE]
    ELSE IF cell(w).st = "entry" THEN [w EXCEPT !.ok = FALSE]
    ELSE With(next_dir_entry(w), LAMBDA x : IF x.ok THEN dir_empty(x) ELSE [x EXCEPT !.ok = TRUE]))

unlink_found(v) ==
  With(mark_deleted([v EXCEPT !.dj = v.obj], v.len, FALSE), LAMBDA d : sync(remove_chain(d, v.e.org)))

f_unlink(v, key) ==
  Then(trace_path(v, key), LAMBDA t :
    IF ~t.e.dir THEN unlink_found(t)
    ELSE IF t.e.org = t.curr THEN [t EXCEPT !.ok = FALSE]
    ELSE With(dir_empty([l_opendir(t, t.e.org) EXCEPT !.dj.index = 2]), LAMBDA d :
           IF ~d.ok THEN d ELSE unlink_found([d EXCEPT !.obj = t.obj, !.len = t.len, !.e = t.e])))

(* The new directory is written before the entry that leads to it.           *)
DotDir(org, parent) == [Blank EXCEPT ![1] = Entry(<<".", 0>>, TRUE, org, 0), ![2] = Entry(<<"..", 0>>, TRUE, parent, 0)]

make_dir(v, name) ==
  With(create_chain(v, 0), LAMBDA c :
    IF c.val = 0 THEN [c EXCEPT !.ok = FALSE]
    ELSE LET sect   == clust2sect(c, c.val)
             parent == IF v.dj.sclust = RootClust(v) THEN 0 ELSE v.dj.sclust
             dots   == [wipe(move_window(c, sect), sect + 1, CSize - 1)
                          EXCEPT !.win.data = DotDir(c.val, parent), !.win.dirty = TRUE]
         IN With(new_entry(move_window(dots, v.win.sect), name), LAMBDA n :
              [sync(set(n, Entry(n.val, TRUE, c.val, 0))) EXCEPT !.ok = TRUE]))

f_mkdir(v, name) ==
  With(trace_path(v, Key(name)), LAMBDA t :
    IF t.ok THEN [t EXCEPT !.ok = FALSE] ELSE Then(reserve_direntry(t, Slots(name) + 1), LAMBDA r : make_dir(r, name)))

(* The new entry is made before the old one is deleted; done says that it    *)
(* was.  When nothing follows the old entry the answer is an error.          *)
rename_found(v, key, old, new) ==
  Then(reserve_direntry(v, Slots(new) + 1), LAMBDA r : With(new_entry(r, new), LAMBDA n :
    With(trace_path(set(n, [old EXCEPT !.as = n.val]), key), LAMBDA t :
      With(mark_deleted([t EXCEPT !.dj = t.obj], t.len, TRUE), LAMBDA d :
        [(IF d.ok THEN sync(d) ELSE d) EXCEPT !.done = TRUE]))))

f_rename(v, key, new) ==
  Then(trace_path(v, key), LAMBDA o : With(trace_path(o, Key(new)), LAMBDA t :
    IF t.ok THEN [t EXCEPT !.ok = FALSE] ELSE rename_found(t, key, o.e, new)))

(***************************************************************************)
(* The volume.                                                             *)
(***************************************************************************)
RECURSIVE count_free(_, _, _)
count_free(v, s, n) ==
  IF s = SectsFat THEN [v EXCEPT !.free = n, !.fsi = @ \/ v.type = 32]
  ELSE With(move_window(v, FatBase + s), LAMBDA w :
         count_free(w, s + 1, n + Cardinality({i \in 1 .. Least(FPS, MaxClust - s * FPS) : w.win.data[i] = 0})))

l_getfree(v) == IF v.free <= MaxClust - 2 THEN v ELSE count_free(v, 0, 0)

(* f_mount: the window is written, but not to the copy of the table, because  *)
(* the fields that tell where it is are cleared already.                     *)
mount_drv(v) ==
  LET disk == IF v.win.dirty THEN [v.disk EXCEPT ![v.win.sect] = v.win.data] ELSE v.disk
      info == IF v.type = 32 THEN disk[FsInfo] ELSE <<0, Unknown>>
  IN [v EXCEPT !.disk = disk, !.win = [sect |-> IF v.type = 32 THEN FsInfo ELSE 0, dirty |-> FALSE, data |-> <<>>],
               !.last = info[1], !.free = info[2], !.fsi = FALSE, !.curr = 0]

Formatted(type) ==
  LET table == [i \in 1 .. FPS |-> 0]
      first == [table EXCEPT ![1] = EOC, ![2] = EOC, ![3] = IF type = 32 THEN EOC ELSE 0]
      fat(s) == IF s = 0 THEN first ELSE table
  IN [s \in Sectors(type) \cup {FsInfo} |->
        IF s = FsInfo THEN <<2, MaxClust - 2 - IF type = 32 THEN 1 ELSE 0>>
        ELSE IF s < DirBase THEN fat((s - FatBase) % SectsFat)
        ELSE IF s < DirBase + IF type = 32 THEN CSize ELSE RootSects THEN Blank
        ELSE [i \in 1 .. SS |-> Zero]]

NewVolume(type, disk) ==
  mount_drv([type |-> type, disk |-> disk, win |-> [sect |-> 0, dirty |-> FALSE, data |-> <<>>],
    last |-> 0, free |-> 0, fsi |-> FALSE, curr |-> 0,
    log |-> <<>>, dj |-> Gone, obj |-> Gone, len |-> 0, e |-> Gone, val |-> 0, ok |-> TRUE, lacks |-> <<>>,
    done |-> FALSE, f |-> NoFile, data |-> <<>>])

Rest(v) == [v EXCEPT !.log = <<>>, !.dj = Gone, !.obj = Gone, !.len = 0, !.e = Gone, !.val = 0, !.ok = TRUE,
                     !.lacks = <<>>, !.done = FALSE, !.f = NoFile, !.data = <<>>]

(***************************************************************************)
(* What is on a disk, whoever reads it.                                    *)
(***************************************************************************)
View(v) == (IF v.win.dirty THEN [v.disk EXCEPT ![v.win.sect] = v.win.data] ELSE v.disk)
Table(disk)  == [c \in 2 .. MaxClust - 1 |-> disk[FatBase + c \div FPS][(c % FPS) + 1]]
FreeIn(disk) == {c \in 2 .. MaxClust - 1 : Table(disk)[c] = 0}

(* The subdirectory is where its entry leads to.                            *)
Enter(v, dir) ==
  IF dir = "root" THEN [v EXCEPT !.curr = 0, !.ok = TRUE]
  ELSE Then(Find([v EXCEPT !.curr = 0], DirName), LAMBDA d : [d EXCEPT !.curr = d.e.org])

(* The file is listed, opened by the alias of the list and read.             *)
Contents(v, dir, name) ==
  With(Then(Enter(v, dir), LAMBDA d : Then(Find(d, name), LAMBDA l : f_open(l, l.val, "read"))), LAMBDA o :
    IF ~o.ok THEN Gone ELSE With(f_read(o, o.f.fsize), LAMBDA r : IF r.ok THEN r.data ELSE Gone))

Holds(v, dir, name, text) ==
  With(Contents(v, dir, name), LAMBDA c :
    c # Gone /\ Len(c) = Len(text) /\ \A i \in DOMAIN text : text[i].id # 0 => c[i] = text[i])

(***************************************************************************)
(* The calls of the drive.                                                 *)
(***************************************************************************)
OpenFiles(dir)      == {h \in Handles : fh[h].mode # "closed" /\ fh[h].name[1] = dir}
IsOpen(dir, name)   == \E h \in Handles : fh[h].mode # "closed" /\ fh[h].name = <<dir, name>>
Idle(h)             == fh[h].mode = "closed"
There(name)         == stored[cwd, name] # Gone
Start               == Rest(vol)
Change              == changes < MaxChanges /\ changes' = changes + 1

(* A power cut during the call leaves the files alone that it is not about.  *)
KeptBy(v, others) ==
  \A i \in 1 .. Len(v.log) : \A f \in others :
    stored[f] # Gone => Holds(NewVolume(v.type, v.log[i]), f[1], f[2], stored[f])

All == Dirs \X Names
Finish(v, others) ==
  /\ vol' = Rest(v) /\ denied' = v.lacks
  /\ kept' = KeptBy(v, others)

(* What it creates always are files of its own, whose names are no aliases.   *)
OpenNew(name, always) ==
  /\ Idle(Writer) /\ ~IsOpen(cwd, name) /\ Change
  /\ IF always THEN Slots(name) = 0 /\ \A n \in Names \ {name} : ~There(n) /\ ~IsOpen(cwd, n)
               ELSE ~There(name)
  /\ \E v \in {f_create(IF always THEN Start ELSE Find(Start, name), name, always)} :
       /\ Finish(v, All \ {<<cwd, name>>})
       /\ fh' = [fh EXCEPT ![Writer] = IF v.ok THEN [v.f EXCEPT !.name = <<cwd, name>>, !.id = changes'] ELSE NoFile]
       /\ stored' = IF v.ok THEN [stored EXCEPT ![cwd, name] = Gone] ELSE stored
  /\ UNCHANGED <<cwd, made>>

(* A file that is open for writing is not to be read, and the other way.     *)
OpenOld(h, name) ==
  /\ Idle(h) /\ There(name) /\ ~IsOpen(cwd, name) /\ Change
  /\ \E v \in {With(Find(Start, name), LAMBDA l : f_open(l, l.val, IF h = Reader THEN "read" ELSE "old"))} :
       /\ Finish(v, All)
       /\ fh' = [fh EXCEPT ![h] = [v.f EXCEPT !.name = <<cwd, name>>, !.id = changes', !.text = stored[cwd, name]]]
  /\ stored' = IF h = Reader THEN stored ELSE [stored EXCEPT ![cwd, name] = Gone]
  /\ UNCHANGED <<cwd, made>>

WithFile(h) == [Start EXCEPT !.f = fh[h]]
Others(h)   == All \ {fh[h].name}
SameDirs    == UNCHANGED <<cwd, made, changes>>

(* What was read is what the file holds there.                               *)
Read(h) ==
  /\ fh[h].mode = "read" /\ fh[h].fptr < fh[h].fsize
  /\ \E v \in {f_read(WithFile(h), Chunk)} :
       /\ vol' = Rest(v) /\ denied' = v.lacks
       /\ kept' = \A i \in 1 .. Len(v.data) :
                    LET u == fh[h].text[fh[h].fptr + i] IN u.id # 0 => v.data[i] = u
       /\ fh' = [fh EXCEPT ![h] = v.f]
  /\ SameDirs /\ UNCHANGED stored

Unit(h, at) == [st |-> "data", id |-> fh[h].id, at |-> at]
Unset       == [st |-> "data", id |-> 0, at |-> 0]
Overlay(text, from, bytes) ==
  [i \in 1 .. (IF Len(text) > from + Len(bytes) THEN Len(text) ELSE from + Len(bytes)) |->
     IF i \in from + 1 .. from + Len(bytes) THEN bytes[i - from]
     ELSE IF i <= Len(text) THEN text[i] ELSE Unset]

(* After a write that did not fit the drive only closes the file.             *)
Write(h) ==
  /\ fh[h].mode \in {"new", "old"} /\ fh[h].csect > 0 /\ fh[h].fptr + Chunk <= MaxSize
  /\ LET bytes == [i \in 1 .. Chunk |-> Unit(h, fh[h].fptr + i)]
     IN \E v \in {f_write(WithFile(h), bytes)} :
          /\ Finish(v, Others(h))
          /\ fh' = [fh EXCEPT ![h] = [v.f EXCEPT !.text = Overlay(@, fh[h].fptr, SubSeq(bytes, 1, v.f.fptr - fh[h].fptr))]]
  /\ SameDirs /\ UNCHANGED stored

(* Nor does it seek in an empty file when the medium is full; a new file is    *)
(* written to its end first.                                                *)
Seek(h, pos) ==
  /\ fh[h].mode \in {"read", "old"} /\ fh[h].csect > 0 /\ pos # fh[h].fptr
  /\ \E v \in {f_lseek(WithFile(h), pos)} :
       /\ ~(v.lacks # <<>> /\ fh[h].org = 0)
       /\ Finish(v, Others(h))
       /\ fh' = [fh EXCEPT ![h] = [v.f EXCEPT !.text = Overlay(@, v.f.fptr, <<>>)]]
  /\ SameDirs /\ UNCHANGED stored

Close(h) ==
  /\ fh[h].mode # "closed"
  /\ \E v \in {f_close(WithFile(h))} : Finish(v, Others(h))
  /\ fh' = [fh EXCEPT ![h] = NoFile]
  /\ stored' = [stored EXCEPT ![fh[h].name] = fh[h].text]
  /\ SameDirs

Unlink(name) ==
  /\ There(name) /\ ~IsOpen(cwd, name) /\ Change
  /\ \E v \in {With(Find(Start, name), LAMBDA l : f_unlink(l, l.val))} : Finish(v, All \ {<<cwd, name>>})
  /\ stored' = [stored EXCEPT ![cwd, name] = Gone]
  /\ UNCHANGED <<fh, cwd, made>>

(* fat_rename gives the name, or the alias of a file with a type suffix.      *)
Rename(old, new, byAlias) ==
  /\ There(old) /\ ~There(new) /\ ~IsOpen(cwd, old) /\ ~IsOpen(cwd, new) /\ Change
  /\ \E v \in {With(Find(Find(Start, new), old), LAMBDA l : f_rename(l, IF byAlias THEN l.val ELSE Key(old), new))} :
       /\ Finish(v, All \ {<<cwd, old>>})
       /\ stored' = IF v.done THEN [stored EXCEPT ![cwd, old] = Gone, ![cwd, new] = stored[cwd, old]] ELSE stored
  /\ UNCHANGED <<fh, cwd, made>>

MakeDir ==
  /\ cwd = "root" /\ ~made /\ Change
  /\ \E v \in {f_mkdir(Find(Start, DirName), DirName)} : Finish(v, All) /\ made' = v.ok
  /\ UNCHANGED <<fh, cwd, stored>>

RemoveDir ==
  /\ made /\ cwd = "root" /\ OpenFiles("sub") = {} /\ Change
  /\ \E v \in {With(Find(Start, DirName), LAMBDA l : f_unlink(l, l.val))} :
       Finish(v, All) /\ made' = ~v.ok
  /\ UNCHANGED <<fh, cwd, stored>>

ChangeDir ==
  /\ made /\ Change
  /\ cwd' = IF cwd = "root" THEN "sub" ELSE "root"
  /\ \E v \in {Enter(Start, cwd')} : Finish(v, All)
  /\ UNCHANGED <<fh, stored, made>>

(* When the number of free clusters is known nothing happens.               *)
GetFree ==
  /\ vol.free = Unknown /\ Change
  /\ \E v \in {l_getfree(Start)} : Finish(v, All)
  /\ UNCHANGED <<fh, stored, cwd, made>>

(* fatops_init, with the same card.                                         *)
Mount ==
  /\ (\A h \in Handles : fh[h].mode = "closed") /\ Change
  /\ vol' = mount_drv(Start) /\ denied' = <<>> /\ kept' = TRUE /\ cwd' = "root"
  /\ UNCHANGED <<fh, stored, made>>

Init ==
  /\ \E type \in Types : vol = NewVolume(type, Formatted(type))
  /\ fh = [h \in Handles |-> NoFile] /\ cwd = "root" /\ stored = [f \in All |-> Gone]
  /\ made = FALSE /\ kept = TRUE /\ denied = <<>> /\ changes = 0

Next ==
  \/ \E name \in Names : (\E always \in BOOLEAN : OpenNew(name, always)) \/ (\E h \in Handles : OpenOld(h, name))
  \/ \E h \in Handles : Read(h) \/ Write(h) \/ Close(h) \/ \E pos \in Positions : Seek(h, pos)
  \/ \E name \in Names : Unlink(name) \/ \E new \in Names, byAlias \in BOOLEAN : Rename(name, new, byAlias)
  \/ MakeDir \/ RemoveDir \/ ChangeDir \/ GetFree \/ Mount

Spec == Init /\ [][Next]_vars

(***************************************************************************)
(* Properties.                                                             *)
(***************************************************************************)

(* Every closed file is listed under its name, and what is read from it is     *)
(* what was written, whatever the window held in between; and so it is after   *)
(* a power cut between any two writes of a call that is about another file.   *)
ReadsBack ==
  /\ kept
  /\ \A f \in All : stored[f] # Gone => Holds(Start, f[1], f[2], stored[f])

(* A cluster that is allocated belongs to exactly one file or directory, every  *)
(* file has the clusters that its length needs, and the number of free ones    *)
(* is what the table says, whatever was created, deleted, renamed or cut off.  *)
RECURSIVE Chain(_, _, _)
Chain(table, c, n) == IF ValidClust(c) /\ n > 0 THEN <<c>> \o Chain(table, table[c], n - 1) ELSE <<>>

Clusters(table, c) == LET chain == Chain(table, c, MaxClust) IN {chain[i] : i \in DOMAIN chain}

DirSectors(table, org) ==
  IF org = 0 THEN DirBase .. DirBase + RootSects - 1
  ELSE UNION {{clust2sect(vol, c) + i : i \in 0 .. CSize - 1} : c \in Clusters(table, org)}

EntriesOf(disk, org) ==
  {e \in UNION {{<<s, i, disk[s][i]>> : i \in 1 .. SS} : s \in DirSectors(Table(disk), org)} :
     e[3].st = "entry" /\ e[3].as[1] \notin {".", ".."}}

(* What begins with which cluster, and how long it is: for a file that is open  *)
(* the file object knows.                                                    *)
Owner(e) ==
  LET open == {h \in Handles : fh[h].mode # "closed" /\ fh[h].dirSect = e[1] /\ fh[h].dirPtr = e[2]}
      f    == fh[CHOOSE h \in open : TRUE]
  IN IF open # {} THEN <<e[1], e[2], f.org, f.fsize>>
     ELSE <<e[1], e[2], e[3].org, IF e[3].dir THEN 1 ELSE e[3].size>>

OwnersIn(disk) ==
  LET top == EntriesOf(disk, RootClust(vol))
      sub == UNION {EntriesOf(disk, e[3].org) : e \in {t \in top : t[3].dir}}
  IN {Owner(e) : e \in top \cup sub} \cup IF vol.type = 32 THEN {<<0, 0, 2, 1>>} ELSE {}

ClustersAccounted ==
  \E disk \in {View(vol)} : \E table \in {Table(disk)} : \E owners \in {OwnersIn(disk)} :
    /\ \A o \in owners :
         /\ Cardinality(Clusters(table, o[3])) = Len(Chain(table, o[3], MaxClust))
         /\ Cardinality(Clusters(table, o[3])) * ClustSize >= o[4]
         /\ \A p \in owners \ {o} : Clusters(table, o[3]) \cap Clusters(table, p[3]) = {}
    /\ UNION {Clusters(table, o[3]) : o \in owners} = (2 .. MaxClust - 1) \ FreeIn(disk)
    /\ vol.free # Unknown => vol.free = Cardinality(FreeIn(disk))

(* The medium is found full only when it is: a call that wanted a cluster when *)
(* no cluster is free, one that wanted n entries for a name when the root     *)
(* directory of a FAT16 volume does not have n free ones in a row.             *)
FreeInRoot(disk) ==
  {i \in 0 .. RootSects * SS - 1 : disk[DirBase + i \div SS][(i % SS) + 1].st \in {"zero", "deleted"}}

FullMeansFull ==
  \A i \in DOMAIN denied :
    IF denied[i] = Cluster THEN FreeIn(View(vol)) = {}
    ELSE vol.type = 16 /\ \A first \in FreeInRoot(View(vol)) :
           \E k \in 1 .. denied[i] - 1 : first + k \notin FreeInRoot(View(vol))
=============================================================================
