----------------------------- MODULE HostNames -----------------------------
(***************************************************************************)
(* The names of files on a PC file system: how a name of the computer       *)
(* becomes one of the host (fatops.c, vfsops.c: build_name), how it is read *)
(* back (readdir), the X00 files with their internal names, and the cache   *)
(* of these names (p00cache.c), under saving, scratching, renaming, listing *)
(* and changes of the card.                                                *)
(*                                                                         *)
(* A name is a stem and the suffixes behind it; characters are abstracted   *)
(* to what the code asks of a stem: is it valid, what does it look like     *)
(* with its invalid characters replaced, which stems differ in case only.   *)
(***************************************************************************)
EXTENDS Integers, Sequences, FiniteSets, SequencesExt

CONSTANTS
  Drivers,       (* "fat", "vfs" *)
  Partitions,
  Written,       (* the partitions the computer writes to; it lists all *)
  Slots,         (* the places of a directory: 1 .. n *)
  Clusters,      (* first clusters of files, not 0 *)
  ValidStems,    (* is_valid_fat_name, but for the dots *)
  Refused,       (* stems that the host file system does not take *)
  Safe(_),       (* the stem with '_' for each invalid character *)
  Fold(_),       (* the stem in one case *)
  StemLength(_),
  Names(_),      (* the names the computer uses, for each driver *)
  Patterns(_),   (* what it scratches: names, or Star *)
  Types,         (* "PRG", "SEQ", ... *)
  Settings(_),   (* <<file_extension_mode, EXTENSION_HIDING>> *)
  Cards(_),      (* contents of the cards *)
  AnyRename,     (* also files whose type suffix the settings would not write *)
  MaxNum,        (* the last number of an X00 suffix: 99 *)
  CacheSize,     (* CONFIG_P00CACHE_SIZE / sizeof(p00name_t) *)
  DirLength,     (* characters of the path before the name (vfs) *)
  Finds          (* outcomes of opening by an uninitialised path (vfs) *)

ASSUME HostNamesAssumption ==
  /\ Drivers \subseteq {"fat", "vfs"} /\ "PRG" \in Types
  /\ {MaxNum, CacheSize, DirLength} \subseteq Nat /\ Slots = 1 .. Cardinality(Slots)
  /\ 0 \notin Clusters /\ Finds \subseteq BOOLEAN /\ Partitions \subseteq 0 .. 254 /\ Written \subseteq Partitions

VARIABLES
  driver,
  setting,   (* file_extension_mode and the flag in globalflags *)
  files,     (* the directory of each partition *)
  cache,     (* p00cache, entries, cache_part *)
  opened,    (* the file being written *)
  last       (* history: what was done to a file in the last step *)

vars == <<driver, setting, files, cache, opened, last>>

None == [none |-> TRUE]
TypeSuffix(type)     == [kind |-> "type", type |-> type]
X00Suffix(type, num) == [kind |-> "x00", type |-> type, num |-> num]
ImageSuffix          == [kind |-> "image"]
Nothing == [op |-> "none"]
Star    == [stem |-> "*", ext |-> <<>>]

LengthOf(name) == StemLength(name.stem) + 4 * Len(name.ext)
Folded(name)   == [name EXCEPT !.stem = Fold(@)]

(* FAT does not distinguish case, POSIX does.                               *)
SameHost(a, b) == IF driver = "fat" THEN Folded(a) = Folded(b) ELSE a = b

Used(dir)           == {s \in Slots : dir[s] # None}
Present(dir, host)  == \E s \in Used(dir) : SameHost(dir[s].host, host)
FreeClusters(p)     == Clusters \ {files[p][s].cluster : s \in Used(files[p])}

(***************************************************************************)
(* From the computer's names to the host's.                                *)
(***************************************************************************)
check_extension(host) == IF host.ext = <<>> THEN None ELSE host.ext[Len(host.ext)]
IsX00(host)           == check_extension(host) # None /\ check_extension(host).kind = "x00"
HasType(host)         == check_extension(host) # None /\ check_extension(host).kind = "type"
should_save_raw(name) == check_extension(name) = ImageSuffix
is_valid_name(name)   == name.stem \in ValidStems /\ Len(name.ext) <= 1

(* PC64 mode, or a name that the host would not take.                        *)
NeedsX00(name, type) ==
  (setting[1] = 1 /\ type # "PRG") \/ setting[1] = 2 \/ ~is_valid_name(name)

build_name_always_raw(name, type) == name   (* mutant *)

build_name(name, type) ==
  LET With(suffix) == [name EXCEPT !.ext = Append(@, suffix)]
  IN IF type = "PRG" /\ should_save_raw(name) THEN name
     ELSE IF NeedsX00(name, type) THEN [With(X00Suffix(type, 0)) EXCEPT !.stem = Safe(@)]
     ELSE IF setting[1] = 4 \/ (setting[1] = 3 /\ type # "PRG") THEN With(TypeSuffix(type))
     ELSE name

(* create_file counts the number of an X00 suffix up until the name is new.  *)
NewHost(dir, name, type) ==
  LET host == build_name(name, type)
      Numbered(n) == [host EXCEPT !.ext[Len(host.ext)].num = n]
      free == {n \in 0 .. MaxNum : ~Present(dir, Numbered(n))}
      x00  == IsX00(host) /\ host # name
  IN IF ~x00 THEN IF Present(dir, host) THEN None ELSE host
     ELSE IF free = {} THEN None ELSE Numbered(CHOOSE n \in free : \A k \in free : n <= k)

(***************************************************************************)
(* The cache of internal names.                                            *)
(***************************************************************************)
NoPart     == 255   (* (uint8_t)-1 *)
EmptyCache == [part |-> NoPart, entries |-> <<>>]
p00cache_kept(c)       == c   (* mutant *)
p00cache_invalidate(c) == EmptyCache

p00cache_lookup(c, p, key) ==
  LET hits == {i \in DOMAIN c.entries : c.entries[i].key = key}
  IN IF c.part # p \/ hits = {} THEN None ELSE c.entries[CHOOSE i \in hits : \A k \in hits : i <= k].name


p00cache_add(c, p, key, name) ==
  IF Len(c.entries) = CacheSize THEN c
  ELSE [part |-> p, entries |-> Append(IF c.part = p THEN c.entries ELSE <<>>, [key |-> key, name |-> name])]

(***************************************************************************)
(* Reading a directory.  What an entry is: its name, its type and whether   *)
(* the name is that of the host.                                           *)
(***************************************************************************)
HostDent(e, hiding) ==
  IF IsX00(e.host) THEN [name |-> e.host, type |-> check_extension(e.host).type, plain |-> TRUE]
  ELSE IF HasType(e.host) /\ hiding
       THEN [name |-> [e.host EXCEPT !.ext = Front(@)], type |-> check_extension(e.host).type, plain |-> TRUE]
       ELSE [name |-> e.host, type |-> "PRG", plain |-> TRUE]

X00Dent(e, name) == [name |-> name, type |-> check_extension(e.host).type, plain |-> FALSE]

(* The header is read from the file's first cluster; a file that is being    *)
(* written has none yet.                                                    *)
HasHeader(e) == IsX00(e.host) /\ e.head # None /\ e.cluster # 0

ReadX00(c, p, e, lookup, add, readable) ==
  LET hit == p00cache_lookup(c, p, lookup)
  IN IF hit # None THEN [cache |-> c, dent |-> X00Dent(e, hit)]
     ELSE IF HasHeader(e) /\ readable
          THEN [cache |-> p00cache_add(c, p, add, e.head), dent |-> X00Dent(e, e.head)]
          ELSE [cache |-> c, dent |-> HostDent(e, setting[2])]

fat_readdir(c, p, e) ==
  IF IsX00(e.host) THEN ReadX00(c, p, e, e.cluster, e.cluster, TRUE)
  ELSE [cache |-> c, dent |-> HostDent(e, setting[2])]

(* vfsops.c takes a CRC over as many characters of the path as the host's    *)
(* name has when it looks a name up, and over as many as the internal one    *)
(* has when it adds it; it opens the file by a path that is not set.         *)
Key(host, n) == IF n <= DirLength THEN <<n>> ELSE <<n, host>>

vfs_readdir(c, p, e, readable) ==
  IF IsX00(e.host)
  THEN ReadX00(c, p, e, Key(e.host, LengthOf(e.host)),
               IF e.head = None THEN <<>> ELSE Key(e.host, LengthOf(e.head)), readable)
  ELSE [cache |-> c, dent |-> HostDent(e, setting[2])]

readdir(c, p, e, readable) ==
  IF driver = "fat" THEN fat_readdir(c, p, e) ELSE vfs_readdir(c, p, e, readable)

(* next_match: the case of names that the host stores does not matter.       *)
match_name(pattern, dent) ==
  pattern = Star \/ IF dent.plain THEN Folded(pattern) = Folded(dent.name) ELSE pattern = dent.name

(* The first entry from slot s on that matches, and the cache after it.      *)
RECURSIVE next_match(_, _, _, _, _)
next_match(c, p, pattern, s, readable) ==
  IF s \notin Slots THEN [cache |-> c, slot |-> 0, dent |-> None]
  ELSE IF files[p][s] = None THEN next_match(c, p, pattern, s + 1, readable)
  ELSE LET r == readdir(c, p, files[p][s], readable)
       IN IF match_name(pattern, r.dent) THEN [cache |-> r.cache, slot |-> s, dent |-> r.dent]
          ELSE next_match(r.cache, p, pattern, s + 1, readable)

first_match(c, p, pattern, readable) == next_match(c, p, pattern, 1, readable)

(***************************************************************************)
(* Saving.                                                                 *)
(***************************************************************************)
Unchanged == UNCHANGED <<driver, setting, files, opened>> /\ last' = Nothing
Settled   == UNCHANGED <<driver, setting>>

(* The name exists after all, the directory is full, or the host refuses.    *)
CreateIn(p, dir, name, type) ==
  LET room == Slots \ Used(dir)
      slot == CHOOSE s \in room : \A k \in room : s <= k
  IN \E host \in {NewHost(dir, name, type)} :
     IF host = None \/ room = {} \/ (host # None /\ host.stem \in Refused)
     THEN files' = [files EXCEPT ![p] = dir] /\ opened' = opened
     ELSE /\ files' = [files EXCEPT ![p] = [dir EXCEPT ![slot] =
                [host |-> host, head |-> IF IsX00(host) /\ host # name THEN name ELSE None, cluster |-> 0]]]
          /\ opened' = [part |-> p, slot |-> slot, name |-> name, type |-> type]

Save(p, name, type, readable) ==
  /\ opened = None
  /\ \E r \in {first_match(cache, p, name, readable)} :
       /\ cache' = r.cache
       /\ IF r.slot # 0 THEN UNCHANGED <<files, opened>> ELSE CreateIn(p, files[p], name, type)
  /\ last' = Nothing /\ Settled

(* file_open with '@': the new file gets the name that was found.             *)
Replace(p, name, type) ==
  /\ opened = None /\ driver = "fat"
  /\ \E r \in {first_match(cache, p, name, TRUE)} :
       /\ r.slot # 0
       /\ cache' = p00cache_invalidate(r.cache)
       /\ CreateIn(p, [files[p] EXCEPT ![r.slot] = None], r.dent.name, type)
  /\ last' = Nothing /\ Settled

(* The directory learns of the first cluster when the file is closed.         *)
CloseSaved(c) ==
  LET p == opened.part
  IN /\ opened # None /\ c \in FreeClusters(p)
     /\ files' = [files EXCEPT ![p][opened.slot].cluster = c]
     /\ last' = [op |-> "named", part |-> p, name |-> opened.name, type |-> opened.type, slot |-> opened.slot]
     /\ opened' = None /\ Settled /\ UNCHANGED cache

(***************************************************************************)
(* Listing, loading, scratching, renaming.                                 *)
(***************************************************************************)
RECURSIVE ReadAll(_, _, _, _)
ReadAll(c, p, s, readable) ==
  IF s \notin Slots THEN c
  ELSE ReadAll(IF files[p][s] = None THEN c ELSE readdir(c, p, files[p][s], readable).cache, p, s + 1, readable)

List(p, readable) == cache' = ReadAll(cache, p, 1, readable) /\ Unchanged

Load(p, name, readable) == cache' = first_match(cache, p, name, readable).cache /\ Unchanged

(* parse_scratch; a deletion over POSIX ends the command.                      *)
RECURSIVE ScratchFrom(_, _, _, _, _)
ScratchFrom(d, p, pattern, s, readable) ==
  LET Ended(one, slot) == IF driver = "vfs" THEN one ELSE ScratchFrom(one, p, pattern, slot + 1, readable)
      Go(r) == IF r.slot = 0 THEN [d EXCEPT !.cache = r.cache]
               ELSE Ended([dir |-> [d.dir EXCEPT ![r.slot] = None], cache |-> p00cache_invalidate(r.cache)], r.slot)
  IN Go(next_match(d.cache, p, pattern, s, readable))

Scratch(p, pattern, readable) ==
  /\ opened = None
  /\ \E d \in {ScratchFrom([dir |-> files[p], cache |-> cache], p, pattern, 1, readable)} :
       files' = [files EXCEPT ![p] = d.dir] /\ cache' = d.cache
  /\ last' = [op |-> "scratched", part |-> p, name |-> pattern]
  /\ opened' = opened /\ Settled

(* Renaming changes the internal name of an X00 file, takes the suffix that   *)
(* the settings give for files that have one (which vfs_rename looks for in   *)
(* another directory, so that it fails), and else the name as it is.         *)
Accepts(p, s, host) ==
  ~Present([files[p] EXCEPT ![s] = None], host) /\ host.stem \notin Refused

NewEntry(e, dent, new) ==
  IF ~dent.plain THEN [e EXCEPT !.head = new]
  ELSE [e EXCEPT !.host = IF HasType(e.host) THEN build_name(new, dent.type) ELSE new]

fat_rename(p, s, dent, new) ==
  LET e == NewEntry(files[p][s], dent, new)
  IN IF dent.plain /\ ~Accepts(p, s, e.host) THEN files[p][s] ELSE e

vfs_rename(p, s, dent, new) ==
  IF dent.plain /\ HasType(files[p][s].host) THEN files[p][s] ELSE fat_rename(p, s, dent, new)

w_rename(p, s, dent, new) ==
  IF driver = "fat" THEN fat_rename(p, s, dent, new) ELSE vfs_rename(p, s, dent, new)

(* What is not named as it was before by the settings is left out.            *)
KeepsType(e, dent, new) ==
  dent.plain /\ HasType(e.host) =>
    LET host == build_name(new, dent.type)
    IN AnyRename \/ (HasType(host) /\ check_extension(host).type = dent.type)

found_free(slot) == slot = 0

(* parse_rename: the new name must not exist, and the old one must.           *)
RenameTo(p, new, r, e) ==
  LET named == e # files[p][r.slot]
  IN /\ KeepsType(files[p][r.slot], r.dent, new)
     /\ files' = [files EXCEPT ![p][r.slot] = e]
     /\ cache' = IF r.dent.plain THEN r.cache ELSE p00cache_invalidate(r.cache)
     /\ last' = IF named THEN [op |-> "named", part |-> p, name |-> new, type |-> r.dent.type, slot |-> r.slot]
                ELSE Nothing

Rename(p, old, new, readable) ==
  /\ opened = None
  /\ \E there \in {first_match(cache, p, new, readable)} :
       IF ~found_free(there.slot) THEN cache' = there.cache /\ files' = files /\ last' = Nothing
       ELSE \E r \in {first_match(there.cache, p, old, readable)} :
              IF r.slot = 0 THEN cache' = r.cache /\ files' = files /\ last' = Nothing
              ELSE \E e \in {w_rename(p, r.slot, r.dent, new)} : RenameTo(p, new, r, e)
  /\ opened' = opened /\ Settled

(***************************************************************************)
(* Settings and cards.                                                     *)
(***************************************************************************)
SetMode(s) == setting' = s /\ last' = Nothing /\ UNCHANGED <<driver, cache, files, opened>>

(* fatops_init, vfsops_init.                                                *)
NewCard(card) ==
  /\ opened = None
  /\ files' = card /\ cache' = p00cache_invalidate(cache)
  /\ opened' = opened /\ last' = Nothing /\ Settled

Init ==
  /\ driver \in Drivers /\ setting \in Settings(driver) /\ files \in Cards(driver)
  /\ cache = EmptyCache /\ opened = None /\ last = Nothing

Next ==
  \/ \E p \in Partitions, readable \in IF driver = "vfs" THEN Finds ELSE {TRUE} :
       \/ \E n \in Names(driver) : Load(p, n, readable)
       \/ List(p, readable)
  \/ \E p \in Written, readable \in IF driver = "vfs" THEN Finds ELSE {TRUE} :
       \/ \E n \in Names(driver), t \in Types : Save(p, n, t, readable)
       \/ \E n \in Patterns(driver) : Scratch(p, n, readable)
       \/ \E old, new \in Names(driver) : Rename(p, old, new, readable)
  \/ \E p \in Written, n \in Names(driver), t \in Types : Replace(p, n, t)
  \/ \E c \in Clusters : CloseSaved(c)
  \/ \E s \in Settings(driver) : SetMode(s)
  \/ \E card \in Cards(driver) : NewCard(card)

Spec == Init /\ [][Next]_vars

(***************************************************************************)
(* Properties.                                                             *)
(***************************************************************************)

(* What a directory entry is when it is read without the cache.             *)
Dent(e, hiding) == IF HasHeader(e) THEN X00Dent(e, e.head) ELSE HostDent(e, hiding)

TypeOK ==
  /\ Len(cache.entries) <= CacheSize
  /\ cache.entries # <<>> => cache.part \in Partitions
  /\ \A p \in Partitions : \A s \in Used(files[p]) : files[p][s].cluster \in Clusters \cup {0}

(* A name that the cache answers with is the internal name of that file, also  *)
(* after renaming, deleting, reusing its cluster, reading another partition    *)
(* and changing the card (p00cache.c, fatops.c 994, 1357, 1459).             *)
NameCacheTrue ==
  /\ TypeOK
  /\ \A p \in Partitions : \A s \in Used(files[p]) :
       LET e   == files[p][s]
           hit == p00cache_lookup(cache, p, IF driver = "fat" THEN e.cluster ELSE Key(e.host, LengthOf(e.host)))
       IN IsX00(e.host) /\ hit # None => HasHeader(e) /\ hit = e.head

(* A file that was saved or renamed is found under the name that was given,    *)
(* as a file of its type: what readdir does undoes what build_name did.  No    *)
(* other file has that name, so that every one can be reached (parse_rename,   *)
(* file_open, create_file).                                                    *)
FoundAsNamed ==
  /\ last.op = "named" =>
       /\ last.slot \in Used(files[last.part])
       /\ LET dent == Dent(files[last.part][last.slot], setting[2])
          IN match_name(last.name, dent) /\ dent.type = last.type
  /\ \A p \in Partitions : \A s, t \in Used(files[p]) :
       s # t => Dent(files[p][s], setting[2]).name # Dent(files[p][t], setting[2]).name

(* Scratching deletes the files that match, all of them and no others,          *)
(* whatever the cache holds (parse_scratch, fat_delete).                       *)
ScratchesWhatMatches ==
  [][last'.op = "scratched" =>
       \A s \in Used(files[last'.part]) :
         files'[last'.part][s] = None <=> match_name(last'.name, Dent(files[last'.part][s], setting[2]))]_vars
=============================================================================
