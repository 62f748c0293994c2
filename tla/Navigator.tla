----------------------------- MODULE Navigator -----------------------------
(***************************************************************************)
(* Partitions, directories, mounted images and swap lists: the commands CD, *)
(* MD, RD, CP, G-P and XS (doscmd.c), the paths they take (parser.c), what  *)
(* the drivers do to follow them (fatops.c, vfsops.c, d64ops.c) and the     *)
(* buttons that mount the disks of a list one after the other               *)
(* (diskchange.c).                                                         *)
(*                                                                         *)
(* A directory is the sequence of names that leads to it.  The drivers hold *)
(* a cluster or a path instead; a disk image has a place of its own beside   *)
(* the one of the partition, so that both are kept while it is mounted.     *)
(***************************************************************************)
EXTENDS Integers, Sequences, FiniteSets, SequencesExt

CONSTANTS
  Drivers,   (* "fat", "vfs" *)
  Names,     (* of directories, files and lists, and the empty one *)
  Parts,     (* max_part *)
  Dirs,      (* for each partition, the directories it begins with *)
  Files,     (* [part, dir, name, kind]: "d41", "dnp", "invalid" are images *)
  Inner,     (* the subdirectories of a DNP image *)
  Lists,     (* swap lists: [part, dir, name, lines] *)
  Cds,       (* what the computer gives to CD: [part, comps, colon, name] *)
  Paths,     (* and to MD and XS: the same without a name *)
  NewNames,  (* what it gives to MD and RD *)
  Depth,     (* of directories *)
  LastLine,      (* 255: linenum, when the last line is wanted *)
  MaxOpen    (* files that are open *)

Part    == 1 .. Parts
None    == "none"
NoName  == ""   (* between two slashes, or where none is given *)
NoList  == ""
Made    == "AUTOSWAP.GEN"
Lost    == "lost"       (* a list whose card was mounted anew: its handle is refused *)
Images  == {"d41", "dnp", "invalid"}

Given == [part : Nat, comps : Seq(Names), colon : BOOLEAN, name : Names]
Line  == [kind : {"comment"}] \cup [kind : {"entry"}, cd : Given]
File  == [part : Nat, dir : Seq(Names), name : Names, kind : Images \cup {"file"}]
List  == [part : Nat, dir : Seq(Names), name : Names, lines : Seq(Line)]

(* The lines of a list that name a disk.                                     *)
Entries(lines) == {i \in DOMAIN lines : lines[i].kind = "entry"}

ImagesAt(part, dir) == {f.name : f \in {g \in Files : g.part = part /\ g.dir = dir /\ g.kind \in Images}}

(* A directory is in one that exists.                                       *)
IsTree(dirs) == dirs \subseteq Seq(Names) /\ \A d \in dirs : d = <<>> \/ Front(d) \in dirs \cup {<<>>}

(* Lists and directories have at most 254 disks: 255 is taken for the last.   *)
ASSUME NavigatorAssumption ==
  /\ Parts \in Nat \ {0} /\ {Depth, LastLine, MaxOpen} \subseteq Nat
  /\ Dirs \in [Part -> SUBSET Seq(Names)] /\ \A p \in Part : IsTree(Dirs[p])
  /\ IsTree(Inner)
  /\ NoName \in Names /\ Cds \subseteq Given /\ Paths \subseteq Given /\ NewNames \subseteq Names
  /\ IsFiniteSet(Files) /\ Files \subseteq File /\ Lists \subseteq List
  /\ \A f \in Files : Cardinality(ImagesAt(f.part, f.dir)) < LastLine
  /\ \A l \in Lists :
       /\ l.name \notin {NoList, Made, Lost}
       /\ Entries(l.lines) # {} /\ Cardinality(Entries(l.lines)) < LastLine

VARIABLES
  driver,
  partition,     (* current_dir, the image that is mounted and the directory in it *)
  tree,          (* the directories there are *)
  current_part,
  open,          (* the files the computer has open: partition and image *)
  error,         (* current_error, "ok" or not *)
  swaplist,      (* the list that is open *)
  swappath,      (* where it is *)
  linenum,
  autoswap,      (* AUTOSWAP_ACTIVE *)
  pc,            (* "idle"; in mount_line: "scan", "mount" *)
  scan,          (* its variables: next line, effective_line, the entry found, olderror, and how often it began again *)
  due            (* history: which entry it is the turn of *)

vars == <<driver, partition, tree, current_part, open, error, swaplist, swappath, linenum, autoswap, pc, scan, due>>

NoScan  == [at |-> 1, effective_line |-> 0, entry |-> 0, olderror |-> "ok", restarts |-> 0]
-----------------------------------------------------------------------------
(***************************************************************************)
(* Paths.  s is what a change of directory may change: the partitions, the  *)
(* open files and the error.                                               *)
(***************************************************************************)
System  == [partition |-> partition, open |-> open, error |-> error]
Fail(s) == [s EXCEPT !.error = "bad"]

Here(s, p) == [part |-> p, dir |-> s.partition[p].dir, inner |-> s.partition[p].inner]
fop(s, p)  == s.partition[p].image.kind   (* "none" for the driver of the card *)

parse_partition(n) == IF n = 0 THEN current_part ELSE n

(* What a name in a directory is.                                          *)
FileAt(p, dir, name) == {f \in Files : f.part = p /\ f.dir = dir /\ f.name = name}
IsDir(s, path, name) ==
  CASE fop(s, path.part) = None  -> Append(path.dir, name) \in tree[path.part]
    [] fop(s, path.part) = "dnp" -> Append(path.inner, name) \in Inner
    [] OTHER -> FALSE
Kind(s, path, name) ==
  IF IsDir(s, path, name) THEN "dir"
  ELSE IF fop(s, path.part) = None /\ FileAt(path.part, path.dir, name) # {}
  THEN (CHOOSE f \in FileAt(path.part, path.dir, name) : TRUE).kind
  ELSE None

Into(s, path, name) ==
  IF fop(s, path.part) = None THEN [path EXCEPT !.dir = Append(@, name)] ELSE [path EXCEPT !.inner = Append(@, name)]

(* A D41 image has no root to go to, and parse_path does not ask.            *)
ToRoot(s, path) ==
  CASE fop(s, path.part) = None  -> [path EXCEPT !.dir = <<>>]
    [] fop(s, path.part) = "dnp" -> [path EXCEPT !.inner = <<>>]
    [] OTHER -> path

(* The components of a path, from left to right; for CD, the last one may be  *)
(* an image.                                                               *)
Places(s, path, comps) ==
  LET at[i \in 0 .. Len(comps)] ==
        IF i = 0 THEN path
        ELSE IF comps[i] = NoName THEN ToRoot(s, at[i - 1])
        ELSE Into(s, at[i - 1], comps[i])
  IN at

Walk(s, path, comps, for_cd, colon) ==
  LET at    == Places(s, path, comps)
      stops == {i \in 1 .. Len(comps) : comps[i] # NoName /\ Kind(s, at[i - 1], comps[i]) # "dir"}
      stop  == CHOOSE i \in stops : \A j \in stops : i <= j
  IN IF stops = {} THEN [ok |-> TRUE, path |-> at[Len(comps)], name |-> NoName]
     ELSE [ok   |-> for_cd /\ stop = Len(comps) /\ ~colon /\ Kind(s, at[stop - 1], comps[stop]) \in Images,
           path |-> at[stop - 1],
           name |-> comps[stop]]

parse_path(s, in, for_cd) ==
  IF ~for_cd /\ ~in.colon THEN [ok |-> TRUE, path |-> Here(s, current_part), name |-> in.name]
  ELSE LET p == parse_partition(in.part)
       IN IF p > Parts THEN [ok |-> FALSE, path |-> Here(s, current_part), name |-> NoName]
          ELSE LET r == Walk(s, Here(s, p), in.comps, for_cd, in.colon)
               IN IF r.name = NoName THEN [r EXCEPT !.name = in.name] ELSE r
-----------------------------------------------------------------------------
(***************************************************************************)
(* The drivers.                                                            *)
(***************************************************************************)
free_nothing(s) == s   (* mutant *)
free_user_buffers(s) == [s EXCEPT !.open = {}]

NoImage == [kind |-> None, dir |-> <<>>, name |-> None]

image_unmount(s, p) ==
  [free_user_buffers(s) EXCEPT !.partition[p].image = NoImage]

d64_mount(s, path, name) ==
  IF Kind(s, path, name) = "invalid" THEN [ok |-> FALSE, s |-> Fail(s), path |-> path]
  ELSE [ok |-> TRUE, path |-> [path EXCEPT !.inner = <<>>],
        s |-> [s EXCEPT !.partition[path.part].image =
                 [kind |-> Kind(s, path, name), dir |-> path.dir, name |-> name]]]

Ok(s, path) == [ok |-> TRUE, s |-> s, path |-> path]

fat_chdir(s, path, name) ==
  IF name = "_"
  THEN IF path.dir = <<>> THEN [ok |-> FALSE, s |-> Fail(s), path |-> path]
       ELSE Ok(s, [path EXCEPT !.dir = Front(@)])
  ELSE CASE Kind(s, path, name) = "dir"    -> Ok(s, Into(s, path, name))
         [] Kind(s, path, name) \in Images -> d64_mount(free_user_buffers(s), path, name)
         [] OTHER -> Ok(s, path)

(* The root has no parent: the path stays as it is, and nobody is told.      *)
vfs_chdir(s, path, name) ==
  IF name = "_" THEN Ok(s, [path EXCEPT !.dir = IF @ = <<>> THEN @ ELSE Front(@)])
  ELSE fat_chdir(s, path, name)

image_chdir(s, path, name) ==
  IF name = "_" THEN Ok(image_unmount(s, path.part), path) ELSE [ok |-> FALSE, s |-> s, path |-> path]

d64_chdir(s, path, name) ==
  IF fop(s, path.part) # "dnp" \/ (name = "_" /\ path.inner = <<>>) THEN image_chdir(s, path, name)
  ELSE Ok(s, IF name = "_" THEN [path EXCEPT !.inner = Front(@)] ELSE Into(s, path, name))

w_chdir(s, path, name) ==
  IF fop(s, path.part) # None THEN d64_chdir(s, path, name)
  ELSE IF driver = "fat" THEN fat_chdir(s, path, name)
  ELSE vfs_chdir(s, path, name)

update_current_dir(s, path) ==
  [s EXCEPT !.partition[path.part] = [dir |-> path.dir, inner |-> path.inner, image |-> @.image]]

do_chdir(s, in) ==
  LET r == parse_path(s, in, TRUE)
  IN IF ~r.ok THEN Fail(s)
     ELSE IF r.name = NoName THEN (IF in.comps = <<>> THEN Fail(s) ELSE update_current_dir(s, r.path))
     ELSE IF r.name # "_" /\ Kind(s, r.path, r.name) = None THEN Fail(s)
     ELSE LET c == w_chdir(s, r.path, r.name)
          IN IF c.ok THEN update_current_dir(c.s, c.path) ELSE c.s
-----------------------------------------------------------------------------
(***************************************************************************)
(* Swap lists.                                                             *)
(***************************************************************************)
ListAt(path, name) == {l \in Lists : l.part = path.part /\ l.dir = path.dir /\ l.name = name}

(* A list that is made of the images of a directory.                         *)
ImagesIn(path) ==
  LET n == SetToSeq(ImagesAt(path.part, path.dir))
  IN [i \in DOMAIN n |-> [kind |-> "entry", cd |-> [part |-> 0, comps |-> <<>>, colon |-> TRUE, name |-> n[i]]]]

LinesOf(path, list) ==
  IF list = Made THEN ImagesIn(path) ELSE (CHOOSE l \in ListAt(path, list) : TRUE).lines
Readable == swaplist \notin {NoList, Lost}
Lines    == LinesOf(swappath, swaplist)

(* What a list that is closed leaves in variables is not looked at again.     *)
NoPath == [part |-> 1, dir |-> <<>>, inner |-> <<>>]
CloseList ==
  swaplist' = NoList /\ swappath' = NoPath /\ linenum' = 0 /\ scan' = NoScan /\ due' = 0 /\ pc' = "idle"

(* mount_line begins: all files of the computer are closed.                  *)
MountLine(olderror) ==
  /\ pc' = "scan" /\ open' = {} /\ error' = "ok"
  /\ scan' = [NoScan EXCEPT !.olderror = olderror]

(* set_changelist_internal.                                                *)
OpenList(path, list, at_end, olderror) ==
  /\ swaplist' = list /\ swappath' = path
  /\ linenum' = IF at_end THEN LastLine ELSE 0
  /\ due' = IF at_end THEN Cardinality(Entries(LinesOf(path, list))) ELSE 1
  /\ MountLine(olderror)

(* The lines are read from the first one until there are enough entries;     *)
(* at the end of the list, the search starts again for the first entry, or   *)
(* for the last one, whose number is known then.                            *)
ReadLine ==
  /\ pc = "scan" /\ Readable /\ scan.at <= Len(Lines)
  /\ LET l == Lines[scan.at]
         n == IF l.kind = "entry" THEN scan.effective_line + 1 ELSE scan.effective_line
     IN /\ scan' = [scan EXCEPT !.at = @ + 1, !.effective_line = n,
                                !.entry = IF l.kind = "entry" THEN scan.at ELSE @]
        /\ pc' = IF n > linenum THEN "mount" ELSE "scan"
  /\ UNCHANGED <<driver, partition, tree, current_part, open, error, swaplist, swappath, linenum, autoswap, due>>

line_at_end(n, l) == IF l = LastLine THEN n ELSE 0   (* mutant: one too far *)
end_of_list(n, l) == IF l = LastLine THEN n - 1 ELSE 0

EndOfList ==
  /\ pc = "scan" /\ Readable /\ scan.at > Len(Lines)
  /\ linenum' = end_of_list(scan.effective_line, linenum)
  /\ scan' = [scan EXCEPT !.at = 1, !.effective_line = 0, !.restarts = @ + 1]
  /\ UNCHANGED <<driver, partition, tree, current_part, open, error, swaplist, swappath, autoswap, pc, due>>

ListUnreadable ==
  /\ pc = "scan" /\ swaplist = Lost
  /\ pc' = "idle" /\ error' = "bad" /\ scan' = NoScan
  /\ UNCHANGED <<driver, partition, tree, current_part, open, swaplist, swappath, linenum, autoswap, due>>

(* The entry is a CD in the directory of the list, out of any image.         *)
Mount ==
  /\ pc = "mount"
  /\ LET p == swappath.part
         cd == Lines[scan.entry].cd
         s == IF fop(System, p) # None THEN image_unmount(System, p) ELSE System
         t == do_chdir(update_current_dir(s, swappath), IF cd.part = 0 THEN [cd EXCEPT !.part = p] ELSE cd)
     IN /\ partition' = t.partition /\ open' = t.open /\ current_part' = p
        /\ error' = IF t.error # "ok" THEN scan.olderror ELSE "ok"
  /\ pc' = "idle" /\ scan' = [NoScan EXCEPT !.entry = scan.entry]
  /\ UNCHANGED <<driver, tree, swaplist, swappath, linenum, autoswap, due>>

set_changelist(path, name) ==
  IF ListAt(path, name) = {}
  THEN CloseList /\ error' = "bad" /\ UNCHANGED open
  ELSE OpenList(path, name, FALSE, "ok")

(* A button, while no list is in use: the list of the current directory, or  *)
(* one made of its images.                                                 *)
FirstKey(key) ==
  /\ pc = "idle" /\ driver = "fat" /\ swaplist = NoList
  /\ LET here == Here(System, current_part)
         auto == ListAt(here, "AUTOSWAP.LST")
     IN \/ /\ auto # {}
           /\ OpenList(here, "AUTOSWAP.LST", key = "prev", error) /\ autoswap' = TRUE
        \/ /\ auto = {} /\ key = "home" /\ ImagesIn(here) # <<>>
           /\ OpenList(here, Made, FALSE, "ok") /\ autoswap' = TRUE
        \/ /\ auto = {} /\ (key = "home" => ImagesIn(here) = <<>>)
           /\ error' = "ok" /\ autoswap' = FALSE
           /\ UNCHANGED <<swaplist, swappath, linenum, pc, scan, open, due>>
  /\ UNCHANGED <<driver, partition, tree, current_part>>

Turned(n, l) == ((n - 1) % l) + 1

Key(key) ==
  /\ pc = "idle" /\ driver = "fat" /\ swaplist # NoList
  /\ linenum' = CASE key = "next" -> (linenum + 1) % (LastLine + 1)
                  [] key = "prev" -> (linenum - 1) % (LastLine + 1)
                  [] key = "home" -> 0
  /\ due' = IF swaplist = Lost THEN due
            ELSE LET n == Cardinality(Entries(Lines))
                 IN CASE key = "next" -> Turned(due + 1, n)
                      [] key = "prev" -> Turned(due - 1, n)
                      [] key = "home" -> 1
  /\ MountLine(error)
  /\ UNCHANGED <<driver, partition, tree, current_part, swaplist, swappath, autoswap>>
-----------------------------------------------------------------------------
(***************************************************************************)
(* Commands.                                                               *)
(***************************************************************************)
Idle == pc = "idle"

(* CD and CP end a list that was found by itself.                            *)
EndAutoswap ==
  IF autoswap THEN CloseList /\ autoswap' = FALSE
  ELSE UNCHANGED <<swaplist, swappath, linenum, autoswap, pc, scan, due>>

parse_chdir ==
  /\ Idle
  /\ \E in \in Cds :
       LET s == do_chdir([System EXCEPT !.error = "ok"], in)
       IN partition' = s.partition /\ open' = s.open /\ error' = s.error
  /\ EndAutoswap
  /\ UNCHANGED <<driver, tree, current_part>>

parse_changepart ==
  /\ Idle
  /\ \E p \in 1 .. Parts + 1 :
       IF p > Parts
       THEN error' = "bad" /\ UNCHANGED <<current_part, swaplist, swappath, linenum, autoswap, pc, scan, due>>
       ELSE current_part' = p /\ error' = "ok" /\ EndAutoswap
  /\ UNCHANGED <<driver, partition, tree, open>>

(* MD and RD: what is in a DNP image stays as it is, and is not asked to change. *)
parse_mkdir ==
  /\ Idle
  /\ \E in \in Paths, name \in NewNames :
       LET r == parse_path(System, [in EXCEPT !.name = name], FALSE)
           new == Append(r.path.dir, name)
           may == r.ok /\ in.colon /\ fop(System, r.path.part) = None
                  /\ new \notin tree[r.path.part] /\ Len(new) <= Depth
       IN /\ fop(System, r.path.part) # "dnp"
          /\ tree' = IF may THEN [tree EXCEPT ![r.path.part] = @ \cup {new}] ELSE tree
          /\ error' = IF may THEN "ok" ELSE "bad"
  /\ UNCHANGED <<driver, partition, current_part, open, swaplist, swappath, linenum, autoswap, pc, scan, due>>

(* RD takes a directory of the current one, if there is nothing in it.        *)
FilesIn(p, d)   == {f \in Files : f.part = p /\ f.dir = d} \cup {l \in Lists : l.part = p /\ l.dir = d}
looks_empty(p, d) == TRUE   (* mutant *)
IsEmpty(p, d)   == FilesIn(p, d) = {} /\ \A e \in tree[p] : e = <<>> \/ Front(e) # d

parse_rmdir ==
  /\ Idle
  /\ \E p \in Part, name \in NewNames :
       LET old == Append(partition[p].dir, name)
           may == fop(System, p) = None /\ old \in tree[p] /\ IsEmpty(p, old)
       IN /\ fop(System, p) # "dnp"
          /\ tree' = IF may THEN [tree EXCEPT ![p] = @ \ {old}] ELSE tree
          /\ error' = IF may THEN "ok" ELSE "bad"
  /\ UNCHANGED <<driver, partition, current_part, open, swaplist, swappath, linenum, autoswap, pc, scan, due>>

(* XS: a list by name, or none.                                            *)
parse_swaplist ==
  /\ Idle /\ driver = "fat"
  /\ \E in \in Paths, name \in {l.name : l \in Lists} \cup {NoName} :
       LET r == parse_path(System, [in EXCEPT !.name = name], FALSE)
       IN IF ~r.ok THEN error' = "bad" /\ UNCHANGED <<swaplist, swappath, linenum, autoswap, pc, scan, open, due>>
          ELSE /\ autoswap' = FALSE
               /\ IF r.name = NoName THEN CloseList /\ error' = "ok" /\ UNCHANGED open
                  ELSE set_changelist(r.path, r.name)
  /\ UNCHANGED <<driver, partition, tree, current_part>>

(* Files, wherever a channel is opened; a new one takes the number of an old. *)
file_open ==
  /\ Idle
  /\ \E p \in Part : open' = open \cup {[part |-> p, image |-> partition[p].image, broken |-> FALSE]}
  /\ Cardinality(open') <= MaxOpen
  /\ error' = "ok"
  /\ UNCHANGED <<driver, partition, tree, current_part, swaplist, swappath, linenum, autoswap, pc, scan, due>>

file_close ==
  /\ Idle
  /\ \E f \in open : open' = open \ {f}
  /\ UNCHANGED <<driver, partition, tree, current_part, error, swaplist, swappath, linenum, autoswap, pc, scan, due>>

(* Another card: everything starts anew.  A card that failed is initialised   *)
(* again, its images are forgotten, and what was open can only fail.         *)
NewPartition == [dir |-> <<>>, inner |-> <<>>, image |-> NoImage]

CardChanged ==
  /\ Idle /\ driver = "fat"
  /\ partition' = [p \in Part |-> NewPartition] /\ current_part' = 1
  /\ open' = {} /\ autoswap' = FALSE /\ error' = "ok" /\ CloseList
  /\ UNCHANGED <<driver, tree>>

CardFailed ==
  /\ Idle /\ driver = "fat"
  /\ partition' = [p \in Part |-> [partition[p] EXCEPT !.image = NoImage]]
  /\ open' = {[f EXCEPT !.broken = TRUE] : f \in open}
  /\ swaplist' = IF swaplist = NoList THEN NoList ELSE Lost
  /\ error' = "ok"
  /\ UNCHANGED <<driver, tree, current_part, swappath, linenum, autoswap, pc, scan, due>>
-----------------------------------------------------------------------------
Init ==
  /\ driver \in Drivers
  /\ partition = [p \in Part |-> NewPartition] /\ tree = Dirs /\ current_part = 1
  /\ open = {} /\ error = "ok"
  /\ swaplist = NoList /\ swappath = NoPath
  /\ linenum = 0 /\ autoswap = FALSE /\ pc = "idle" /\ scan = NoScan /\ due = 0

Scan == ReadLine \/ EndOfList \/ ListUnreadable \/ Mount

Next ==
  \/ parse_chdir \/ parse_changepart \/ parse_mkdir \/ parse_rmdir \/ parse_swaplist
  \/ file_open \/ file_close \/ CardChanged \/ CardFailed
  \/ \E key \in {"next", "prev", "home"} : FirstKey(key) \/ Key(key)
  \/ Scan

Spec == Init /\ [][Next]_vars
-----------------------------------------------------------------------------
(***************************************************************************)
(* Properties.                                                             *)
(***************************************************************************)
(* The buttons go around the entries of a list one by one, past comments and *)
(* over both ends: what was mounted last is what it is the turn of, whatever *)
(* the computer did with directories and images meanwhile.  The search for it *)
(* begins again at most once, with a number that there is.                   *)
ListedDisk ==
  /\ pc = "idle" /\ Readable =>
       scan.entry \in Entries(Lines) /\ Cardinality({i \in Entries(Lines) : i <= scan.entry}) = due
  /\ scan.restarts <= 1

(* A file that is open belongs to what is mounted on its partition: no image *)
(* is changed under a channel.                                             *)
FilesOfMounted ==
  \A f \in open : f.broken \/ f.image = partition[f.part].image

(* The current directory of every partition exists, in the image too, and so *)
(* does the one that a swap list starts from and the one an image is in.     *)
DirsExist ==
  /\ \A p \in Part :
       /\ partition[p].dir \in tree[p] \cup {<<>>}
       /\ partition[p].image.dir \in tree[p] \cup {<<>>}
       /\ fop(System, p) = "dnp" => partition[p].inner \in Inner \cup {<<>>}
  /\ Readable => swappath.dir \in tree[swappath.part] \cup {<<>>}
=============================================================================
