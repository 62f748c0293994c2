--------------------------- MODULE EepromTheorems ---------------------------
(***************************************************************************)
(* Theorems about EepromFs: where append is used as the driver expects and  *)
(* the power fails neither between a link and the entry it leads to nor      *)
(* inside the write that erases or renames an entry, the bitmaps and the     *)
(* handles agree with the directory, and no sector and no entry belongs to   *)
(* two files.                                                              *)
(***************************************************************************)
EXTENDS EepromFs, FiniteSetTheorems, WellFoundedInduction, SequenceTheorems, TLAPS

EntryType ==
  [kind : {"free", "name", "list"}, name : Names \cup {None}, size : 0 .. Sectors * SectorSize,
   sectors : [Slot -> Sector \cup {None}], next : Entry \cup {None}]

HandleType ==
  [filemode : {"closed", "read", "write"}, entry : Entry, size : Nat, cur_offset : Nat,
   cur_sector : Sector \cup {None}, cur_soffset : 0 .. SectorSize - 1, cur_entry : Entry,
   cur_sindex : -1 .. ListSectors - 1]

-----------------------------------------------------------------------------
(***************************************************************************)
(* The inductive invariant.  d is a directory; own names the first entry of *)
(* the chain an entry is in, rank its place there, and pos how many sectors *)
(* come before those it lists.                                             *)
(***************************************************************************)
(* The sectors are listed from the first slot on, without a gap, and each   *)
(* once.                                                                   *)
Filled(e, n) == n \in 0 .. ListSectors /\ Listed(e) = 0 .. n - 1

Tidy(e) ==
  /\ \E n \in 0 .. ListSectors : Filled(e, n)
  /\ \A k, l \in Listed(e) : e.sectors[k] = e.sectors[l] => k = l

Apart(d) == \A i, j \in Live(d) : i # j => SectorsOf(d[i]) \cap SectorsOf(d[j]) = {}

Neat(d) ==
  /\ d \in [Entry -> EntryType]
  /\ \A i \in Live(d) : Tidy(d[i])
  /\ Apart(d)

(* The links make chains, each from its first entry to one last; only a full *)
(* entry has a next one.                                                    *)
Place(d, own, rank, pos, i) ==
  /\ own[i] \in Live(d) /\ own[own[i]] = own[i] /\ (rank[i] = 0 <=> own[i] = i)
  /\ d[i].kind = "name" => rank[i] = 0 /\ pos[i] = 0
  /\ rank[i] > 0 => \E b \in Live(d) : d[b].next = i

Leading(d, own, rank, pos, i) ==
  d[i].next # None =>
    /\ d[i].next \in Live(d) /\ d[d[i].next].kind = "list"
    /\ own[d[i].next] = own[i] /\ rank[d[i].next] = rank[i] + 1
    /\ pos[d[i].next] = pos[i] + curentry_max_sectors(d[i])
    /\ Filled(d[i], curentry_max_sectors(d[i]))

Order(d, own, rank, i) ==
  \A j \in Live(d) : own[j] = own[i] =>
    /\ d[i].next = None => rank[j] <= rank[i]
    /\ rank[j] = rank[i] => j = i

Linked(d, own, rank, pos) ==
  /\ own \in [Entry -> Entry] /\ rank \in [Entry -> Nat] /\ pos \in [Entry -> Nat]
  /\ \A i \in Live(d) :
       Place(d, own, rank, pos, i) /\ Leading(d, own, rank, pos, i) /\ Order(d, own, rank, i)

(* A file is no longer than its sectors, counted by their number and by the *)
(* place of the last.                                                      *)
Own(d, own, e) == {s \in Sector : \E i \in Live(d) : own[i] = e /\ s \in SectorsOf(d[i])}

Fits(d, own, pos, e, size) ==
  /\ size <= SectorSize * Cardinality(Own(d, own, e))
  /\ \A l \in Live(d) : own[l] = e /\ d[l].next = None =>
       \A n \in 0 .. ListSectors : Filled(d[l], n) => size <= SectorSize * (pos[l] + n)

Set(f, i, v) == [f EXCEPT ![i] = v]
With(e, k, s) == [e EXCEPT !.sectors[k] = s]
To(e, j) == [e EXCEPT !.next = j]

(* Nothing changes for a file other than f.                                 *)
Untouched(d, own, pos, d2, own2, pos2, f) ==
  \A g \in Live(d) : d[g].kind = "name" /\ g # f =>
    \A x \in Entry :
      /\ x \in Live(d) /\ own[x] = g <=> x \in Live(d2) /\ own2[x] = g
      /\ x \in Live(d) /\ own[x] = g => d2[x] = d[x] /\ pos2[x] = pos[x]

Sized(d, own, pos) ==
  \A i \in Live(d) : d[i].kind = "name" => Fits(d, own, pos, i, d[i].size)

Files(d, own, rank, pos) == Neat(d) /\ Linked(d, own, rank, pos) /\ Sized(d, own, pos)

(* The sectors that entries list.                                          *)
UsedOf(d) == UNION {SectorsOf(d[i]) : i \in Live(d)}

(* A handle that reads is where its index says, at the byte its offset says; *)
(* one that writes is behind the last sector of its file.                   *)
ReadsAt(d, pos, h) ==
  /\ h.size = d[h.entry].size /\ h.cur_offset <= h.size
  /\ h.cur_sindex \in 0 .. curentry_max_sectors(d[h.cur_entry]) - 1
  /\ h.cur_sector = d[h.cur_entry].sectors[h.cur_sindex]
  /\ h.cur_offset < h.size =>
       h.cur_offset = SectorSize * (pos[h.cur_entry] + h.cur_sindex) + h.cur_soffset

WritesAt(d, own, pos, h) ==
  /\ d[h.cur_entry].next = None /\ Filled(d[h.cur_entry], h.cur_sindex + 1)
  /\ h.cur_sindex = -1 => h.size = 0
  /\ h.cur_sindex >= 0 => h.cur_sector = d[h.cur_entry].sectors[h.cur_sindex]
  /\ h.cur_sector # None
  /\ Fits(d, own, pos, h.entry, h.size)
  /\ \E q \in 0 .. h.size : h.size = SectorSize * q + h.cur_soffset

Opened(d, own, pos, h) ==
  /\ d[h.entry].kind = "name"
  /\ h.cur_entry \in Live(d) /\ own[h.cur_entry] = h.entry
  /\ h.filemode = "read" => ReadsAt(d, pos, h)
  /\ h.filemode = "write" => WritesAt(d, own, pos, h)

-----------------------------------------------------------------------------
(***************************************************************************)
(* The parts of an entry and of a directory.                               *)
(***************************************************************************)
LEMMA Constants ==
  /\ Entries \in Nat \ {0} /\ Sectors \in Nat \ {0} /\ SectorSize \in Nat \ {0}
  /\ NameSectors \in Nat \ {0} /\ ListSectors \in Nat \ {0} /\ NameSectors <= ListSectors
  /\ Block \in Nat \ {0} /\ Rests \subseteq 0 .. Block
  /\ None \notin Int
BY EepromFsAssumption

LEMMA MaxSectors ==
  ASSUME NEW e
  PROVE  /\ curentry_max_sectors(e) \in 1 .. ListSectors
         /\ 0 .. curentry_max_sectors(e) - 1 \subseteq Slot
         /\ Listed(e) \subseteq Slot
BY Constants DEF curentry_max_sectors, Slot, Listed

LEMMA EntryParts ==
  ASSUME NEW e \in EntryType
  PROVE  /\ e.kind \in {"free", "name", "list"} /\ e.name \in Names \cup {None}
         /\ e.size \in 0 .. Sectors * SectorSize /\ e.sectors \in [Slot -> Sector \cup {None}]
         /\ e.next \in Entry \cup {None}
         /\ SectorsOf(e) \subseteq Sector
<1>1. /\ e.kind \in {"free", "name", "list"} /\ e.name \in Names \cup {None}
      /\ e.size \in 0 .. Sectors * SectorSize /\ e.sectors \in [Slot -> Sector \cup {None}]
      /\ e.next \in Entry \cup {None}
  BY DEF EntryType
<1>2. SectorsOf(e) \subseteq Sector
  BY <1>1, MaxSectors DEF SectorsOf, Listed
<1>3. QED BY <1>1, <1>2

LEMMA NewEntries ==
  /\ Erased \in EntryType /\ Erased.kind = "free"
  /\ \A n \in Names :
       /\ NewFile(n) \in EntryType /\ NewFile(n).kind = "name" /\ NewFile(n).size = 0
       /\ NewFile(n).next = None /\ Filled(NewFile(n), 0)
  /\ \A s \in Sector :
       /\ NewList(s) \in EntryType /\ NewList(s).kind = "list" /\ NewList(s).size = 0
       /\ NewList(s).next = None /\ Filled(NewList(s), 1) /\ SectorsOf(NewList(s)) = {s}
<1>1. 0 \in 0 .. Sectors * SectorSize
  <2>1. Sectors * SectorSize \in Nat
    BY Constants
  <2>2. QED BY <2>1
<1>2. Erased \in EntryType /\ Erased.kind = "free"
  BY <1>1 DEF Erased, EntryType
<1>3. ASSUME NEW n \in Names
      PROVE  /\ NewFile(n) \in EntryType /\ NewFile(n).kind = "name" /\ NewFile(n).size = 0
             /\ NewFile(n).next = None /\ Filled(NewFile(n), 0)
  <2>1. /\ NewFile(n) \in EntryType /\ NewFile(n).kind = "name" /\ NewFile(n).size = 0
        /\ NewFile(n).next = None /\ NewFile(n).sectors = [i \in Slot |-> None]
    BY <1>1 DEF NewFile, Erased, EntryType
  <2>2. Listed(NewFile(n)) = {}
    BY <2>1, MaxSectors DEF Listed
  <2>3. QED BY <2>1, <2>2, Constants DEF Filled
<1>4. ASSUME NEW s \in Sector
      PROVE  /\ NewList(s) \in EntryType /\ NewList(s).kind = "list" /\ NewList(s).size = 0
             /\ NewList(s).next = None /\ Filled(NewList(s), 1) /\ SectorsOf(NewList(s)) = {s}
  <2>1. 0 \in Slot
    BY Constants DEF Slot
  <2>2. /\ NewList(s) \in EntryType /\ NewList(s).kind = "list" /\ NewList(s).size = 0
        /\ NewList(s).next = None
        /\ NewList(s).sectors = [i \in Slot |-> IF i = 0 THEN s ELSE None]
    BY <1>1, <2>1 DEF NewList, Erased, EntryType
  <2>3. s # None
    BY Constants DEF Sector
  <2>4. Listed(NewList(s)) = {0}
    BY <2>1, <2>2, <2>3, MaxSectors, Constants DEF Listed, Slot
  <2>5. SectorsOf(NewList(s)) = {s}
    BY <2>1, <2>2, <2>4 DEF SectorsOf
  <2>6. Filled(NewList(s), 1)
    BY <2>4, Constants DEF Filled
  <2>7. QED BY <2>2, <2>5, <2>6
<1>5. QED BY <1>2, <1>3, <1>4

(* A sector in the slot behind the last.                                    *)
LEMMA OneMore ==
  ASSUME NEW e \in EntryType, NEW k \in Nat, Filled(e, k), k < curentry_max_sectors(e),
         NEW s \in Sector, NEW f, f = With(e, k, s)
  PROVE  /\ f \in EntryType /\ f.kind = e.kind /\ f.name = e.name /\ f.size = e.size
         /\ f.next = e.next
         /\ Filled(f, k + 1) /\ f.sectors[k] = s /\ \A l \in Listed(e) : f.sectors[l] = e.sectors[l]
         /\ SectorsOf(f) = SectorsOf(e) \cup {s}
<1>1. k \in Slot
  BY MaxSectors, Constants DEF Slot
<1>2. /\ f \in EntryType /\ f.kind = e.kind /\ f.name = e.name /\ f.size = e.size
      /\ f.next = e.next /\ f.sectors = [e.sectors EXCEPT ![k] = s]
  BY <1>1 DEF EntryType, With
<1>3. curentry_max_sectors(f) = curentry_max_sectors(e)
  BY <1>2 DEF curentry_max_sectors
<1>4. e.sectors \in [Slot -> Sector \cup {None}] /\ s # None
  BY EntryParts, Constants DEF Sector
<1>5. Listed(e) = 0 .. k - 1 /\ Listed(e) \subseteq Slot
  BY MaxSectors DEF Filled
<1>6. Listed(f) = Listed(e) \cup {k}
  <2>1. \A l \in 0 .. curentry_max_sectors(e) - 1 : l \in Slot
    BY MaxSectors
  <2>2. \A l \in 0 .. curentry_max_sectors(e) - 1 :
          f.sectors[l] # None <=> e.sectors[l] # None \/ l = k
    BY <1>2, <1>4, <2>1
  <2>3. k \in 0 .. curentry_max_sectors(e) - 1
    BY MaxSectors
  <2>4. QED BY <1>3, <2>2, <2>3 DEF Listed
<1>7. /\ f.sectors[k] = s
      /\ \A l \in Listed(e) : f.sectors[l] = e.sectors[l]
  BY <1>1, <1>2, <1>4, <1>5
<1>8. Filled(f, k + 1)
  <2>1. 0 .. k - 1 \cup {k} = 0 .. k
    OBVIOUS
  <2>2. k + 1 \in 0 .. ListSectors /\ (k + 1) - 1 = k
    BY MaxSectors, Constants
  <2>3. Listed(f) = 0 .. (k + 1) - 1
    BY <1>5, <1>6, <2>1, <2>2
  <2>4. QED BY <2>2, <2>3 DEF Filled
<1>9. SectorsOf(f) = SectorsOf(e) \cup {s}
  BY <1>6, <1>7 DEF SectorsOf
<1>10. QED BY <1>2, <1>7, <1>8, <1>9

LEMMA InUsed ==
  ASSUME NEW d
  PROVE  \A s : s \in UsedOf(d) <=> \E i \in Live(d) : s \in SectorsOf(d[i])
BY DEF UsedOf

LEMMA SameUsed ==
  ASSUME NEW d, NEW d2, Live(d2) = Live(d), \A i \in Live(d) : SectorsOf(d2[i]) = SectorsOf(d[i])
  PROVE  UsedOf(d2) = UsedOf(d)
<1>1. \A s : s \in UsedOf(d2) <=> s \in UsedOf(d)
  BY InUsed
<1>2. QED BY <1>1

LEMMA SameSectors ==
  ASSUME NEW e, NEW f, f.kind = e.kind, f.sectors = e.sectors
  PROVE  /\ curentry_max_sectors(f) = curentry_max_sectors(e) /\ Listed(f) = Listed(e)
         /\ SectorsOf(f) = SectorsOf(e) /\ \A n : Filled(f, n) <=> Filled(e, n)
BY DEF curentry_max_sectors, Listed, SectorsOf, Filled

LEMMA FilledOnce ==
  ASSUME NEW e, NEW n, NEW m, Filled(e, n), Filled(e, m)
  PROVE  n = m
<1>1. n \in Nat /\ m \in Nat /\ 0 .. n - 1 = 0 .. m - 1
  BY Constants DEF Filled
<1>2. CASE n < m
  <2>1. n \in 0 .. m - 1 /\ n \notin 0 .. n - 1
    BY <1>1, <1>2
  <2>2. QED BY <1>1, <2>1
<1>3. CASE m < n
  <2>1. m \in 0 .. n - 1 /\ m \notin 0 .. m - 1
    BY <1>1, <1>3
  <2>2. QED BY <1>1, <2>1
<1>4. QED BY <1>1, <1>2, <1>3

(* The sectors of a file are finitely many, and so are those in use.        *)
LEMMA Finite ==
  ASSUME NEW S, S \subseteq Sector
  PROVE  IsFiniteSet(S) /\ Cardinality(S) \in Nat /\ Cardinality(S) <= Sectors
<1>1. IsFiniteSet(Sector) /\ Cardinality(Sector) = Sectors
  BY Constants, FS_Interval DEF Sector
<1>2. IsFiniteSet(S) /\ Cardinality(S) <= Sectors /\ Cardinality(S) \in Nat
  BY <1>1, FS_Subset, FS_CardinalityType
<1>3. QED BY <1>2

(* What is not touched stays as it is.                                      *)
LEMMA SameFits ==
  ASSUME NEW d, NEW own, NEW pos, NEW d2, NEW own2, NEW pos2, NEW f,
         Untouched(d, own, pos, d2, own2, pos2, f),
         NEW g \in Live(d), d[g].kind = "name", g # f, NEW z
  PROVE  Fits(d, own, pos, g, z) => Fits(d2, own2, pos2, g, z)
<1>1. \A x \in Entry :
        /\ x \in Live(d) /\ own[x] = g <=> x \in Live(d2) /\ own2[x] = g
        /\ x \in Live(d) /\ own[x] = g => d2[x] = d[x] /\ pos2[x] = pos[x]
  BY DEF Untouched
<1>2. Own(d2, own2, g) = Own(d, own, g)
  <2>1. Live(d) \subseteq Entry /\ Live(d2) \subseteq Entry
    BY DEF Live
  <2>2. QED BY <1>1, <2>1 DEF Own
<1>3. QED
  <2>1. Live(d) \subseteq Entry /\ Live(d2) \subseteq Entry
    BY DEF Live
  <2>2. SUFFICES ASSUME Fits(d, own, pos, g, z), NEW l \in Live(d2), own2[l] = g, d2[l].next = None,
                        NEW n \in 0 .. ListSectors, Filled(d2[l], n)
                 PROVE  z <= SectorSize * (pos2[l] + n)
    BY <1>2 DEF Fits
  <2>3. l \in Live(d) /\ own[l] = g /\ d2[l] = d[l] /\ pos2[l] = pos[l]
    BY <1>1, <2>1, <2>2
  <2>4. QED BY <2>2, <2>3 DEF Fits

LEMMA RootOfFile ==
  ASSUME NEW d, NEW own, NEW rank, NEW pos, Linked(d, own, rank, pos), NEW i \in Live(d), d[i].kind = "name"
  PROVE  own[i] = i /\ pos[i] = 0 /\ rank[i] = 0 /\ i \in Entry
BY DEF Linked, Place, Live

LEMMA SameOpened ==
  ASSUME NEW d, NEW own, NEW rank, NEW pos, NEW d2, NEW own2, NEW pos2, NEW f,
         Linked(d, own, rank, pos),
         Untouched(d, own, pos, d2, own2, pos2, f),
         NEW h, h.entry \in Entry, h.entry # f, Opened(d, own, pos, h)
  PROVE  Opened(d2, own2, pos2, h)
<1>1. h.entry \in Live(d) /\ d[h.entry].kind = "name"
  BY DEF Opened, Live
<1>2. own[h.entry] = h.entry
  BY <1>1, RootOfFile
<1>3. d2[h.entry] = d[h.entry]
  BY <1>1, <1>2 DEF Untouched
<1>4. /\ h.cur_entry \in Live(d2) /\ own2[h.cur_entry] = h.entry
      /\ d2[h.cur_entry] = d[h.cur_entry] /\ pos2[h.cur_entry] = pos[h.cur_entry]
  <2>1. h.cur_entry \in Live(d) /\ h.cur_entry \in Entry /\ own[h.cur_entry] = h.entry
    BY DEF Opened, Live
  <2>2. QED BY <1>1, <2>1 DEF Untouched
<1>5. Fits(d, own, pos, h.entry, h.size) => Fits(d2, own2, pos2, h.entry, h.size)
  BY <1>1, SameFits
<1>6. ReadsAt(d, pos, h) => ReadsAt(d2, pos2, h)
  BY <1>3, <1>4 DEF ReadsAt
<1>7. WritesAt(d, own, pos, h) => WritesAt(d2, own2, pos2, h)
  BY <1>3, <1>4, <1>5 DEF WritesAt
<1>8. QED BY <1>3, <1>4, <1>6, <1>7, <1>1 DEF Opened

-----------------------------------------------------------------------------
(***************************************************************************)
(* What the operations do to the directory.                                *)
(***************************************************************************)
(* An entry gets another name or length.                                    *)
LEMMA Relabelled ==
  ASSUME NEW d, NEW own, NEW rank, NEW pos, Files(d, own, rank, pos),
         NEW i \in Live(d), d[i].kind = "name",
         NEW e \in EntryType, e.kind = "name", e.sectors = d[i].sectors, e.next = d[i].next,
         Fits(d, own, pos, i, e.size),
         NEW d2, d2 = Set(d, i, e)
  PROVE  /\ Files(d2, own, rank, pos)
         /\ Live(d2) = Live(d) /\ UsedOf(d2) = UsedOf(d)
         /\ Untouched(d, own, pos, d2, own, pos, i)
         /\ \A g, z : Fits(d, own, pos, g, z) => Fits(d2, own, pos, g, z)
<1>1. /\ d \in [Entry -> EntryType] /\ Live(d) \subseteq Entry /\ i \in Entry
      /\ Neat(d) /\ Linked(d, own, rank, pos) /\ Sized(d, own, pos)
  BY DEF Files, Neat, Live
<1>2. /\ d2 \in [Entry -> EntryType] /\ d2[i] = e /\ \A x \in Entry \ {i} : d2[x] = d[x]
  BY <1>1 DEF Set
<1>3. \A x \in Entry : /\ d2[x].kind = d[x].kind /\ d2[x].sectors = d[x].sectors
                       /\ d2[x].next = d[x].next
  BY <1>2
<1>4. Live(d2) = Live(d)
  BY <1>3 DEF Live
<1>5. \A x \in Live(d) :
        /\ curentry_max_sectors(d2[x]) = curentry_max_sectors(d[x])
        /\ Listed(d2[x]) = Listed(d[x]) /\ SectorsOf(d2[x]) = SectorsOf(d[x])
        /\ \A n : Filled(d2[x], n) <=> Filled(d[x], n)
  BY <1>1, <1>3, SameSectors
<1>6. UsedOf(d2) = UsedOf(d)
  <2>1. \A x \in Live(d) : SectorsOf(d2[x]) = SectorsOf(d[x])
    BY <1>5
  <2>2. QED BY <1>4, <2>1, SameUsed
<1>7. \A g, z : Fits(d, own, pos, g, z) => Fits(d2, own, pos, g, z)
  <2>1. \A g : Own(d2, own, g) = Own(d, own, g)
    BY <1>4, <1>5 DEF Own
  <2>2. QED BY <1>1, <1>3, <1>4, <1>5, <2>1 DEF Fits
<1>8. Neat(d2)
  <2>1. \A x \in Live(d) : Tidy(d2[x])
    <3>1. \A x \in Live(d) : Tidy(d[x])
      BY <1>1 DEF Neat
    <3>2. \A x \in Live(d) : d2[x].sectors = d[x].sectors
      BY <1>1, <1>3
    <3>3. QED BY <3>1, <3>2, <1>5 DEF Tidy
  <2>2. Apart(d2)
    BY <1>1, <1>4, <1>5 DEF Neat, Apart
  <2>3. QED BY <1>2, <1>4, <2>1, <2>2 DEF Neat
<1>9. Linked(d2, own, rank, pos)
  <2>1. \A x \in Live(d) : d2[x].kind = d[x].kind /\ d2[x].next = d[x].next
    BY <1>1, <1>3
  <2>2. ASSUME NEW x \in Live(d)
        PROVE  Place(d2, own, rank, pos, x)
    BY <1>1, <2>1, <1>4 DEF Linked, Place
  <2>3. ASSUME NEW x \in Live(d)
        PROVE  Leading(d2, own, rank, pos, x)
    <3>1. Leading(d, own, rank, pos, x)
      BY <1>1 DEF Linked
    <3>2. QED BY <2>1, <3>1, <1>4, <1>5 DEF Leading
  <2>4. ASSUME NEW x \in Live(d)
        PROVE  Order(d2, own, rank, x)
    <3>1. Order(d, own, rank, x)
      BY <1>1 DEF Linked
    <3>2. QED BY <2>1, <3>1, <1>4 DEF Order
  <2>5. QED BY <1>1, <1>4, <2>2, <2>3, <2>4 DEF Linked
<1>10. Sized(d2, own, pos)
  <2>1. Fits(d2, own, pos, i, e.size)
    BY <1>7
  <2>2. QED BY <1>1, <1>2, <1>4, <1>7, <2>1 DEF Sized
<1>11. Untouched(d, own, pos, d2, own, pos, i)
  <2>1. own[i] = i
    BY <1>1, RootOfFile
  <2>2. QED BY <1>1, <1>2, <1>4, <2>1 DEF Untouched
<1>12. QED BY <1>4, <1>6, <1>7, <1>8, <1>9, <1>10, <1>11 DEF Files

(* A new file.                                                              *)
LEMMA FileAdded ==
  ASSUME NEW d, NEW own, NEW rank, NEW pos, Files(d, own, rank, pos),
         NEW i \in Entry, i \notin Live(d), NEW n \in Names,
         NEW d2, d2 = Set(d, i, NewFile(n)),
         NEW own2, own2 = Set(own, i, i),
         NEW rank2, rank2 = Set(rank, i, 0),
         NEW pos2, pos2 = Set(pos, i, 0)
  PROVE  /\ Files(d2, own2, rank2, pos2)
         /\ Live(d2) = Live(d) \cup {i} /\ UsedOf(d2) = UsedOf(d)
         /\ Untouched(d, own, pos, d2, own2, pos2, i)
         /\ Fits(d2, own2, pos2, i, 0)
         /\ own2[i] = i /\ pos2[i] = 0 /\ d2[i] = NewFile(n)
         /\ \A x \in Live(d) : d2[x] = d[x] /\ own2[x] = own[x] /\ rank2[x] = rank[x] /\ pos2[x] = pos[x]
<1>1. /\ d \in [Entry -> EntryType] /\ Live(d) \subseteq Entry
      /\ Neat(d) /\ Linked(d, own, rank, pos) /\ Sized(d, own, pos)
  BY DEF Files, Neat, Live
<1>2. /\ NewFile(n) \in EntryType /\ NewFile(n).kind = "name" /\ NewFile(n).size = 0
      /\ NewFile(n).next = None /\ Filled(NewFile(n), 0) /\ Listed(NewFile(n)) = {}
      /\ SectorsOf(NewFile(n)) = {}
  <2>1. /\ NewFile(n) \in EntryType /\ NewFile(n).kind = "name" /\ NewFile(n).size = 0
        /\ NewFile(n).next = None /\ Filled(NewFile(n), 0)
    BY NewEntries
  <2>2. Listed(NewFile(n)) = {}
    BY <2>1 DEF Filled
  <2>3. QED BY <2>1, <2>2 DEF SectorsOf
<1>3. /\ own \in [Entry -> Entry] /\ rank \in [Entry -> Nat] /\ pos \in [Entry -> Nat]
  BY <1>1 DEF Linked
<1>4. /\ d2 \in [Entry -> EntryType] /\ d2[i] = NewFile(n)
      /\ own2 \in [Entry -> Entry] /\ own2[i] = i
      /\ rank2 \in [Entry -> Nat] /\ rank2[i] = 0
      /\ pos2 \in [Entry -> Nat] /\ pos2[i] = 0
  BY <1>1, <1>2, <1>3 DEF Set
<1>5. \A x \in Entry \ {i} : d2[x] = d[x] /\ own2[x] = own[x] /\ rank2[x] = rank[x] /\ pos2[x] = pos[x]
  BY <1>1, <1>3 DEF Set
<1>6. \A x \in Live(d) : d2[x] = d[x] /\ own2[x] = own[x] /\ rank2[x] = rank[x] /\ pos2[x] = pos[x] /\ x # i
  BY <1>1, <1>5
<1>7. Live(d2) = Live(d) \cup {i}
  BY <1>2, <1>4, <1>5 DEF Live
<1>8. UsedOf(d2) = UsedOf(d)
  <2>1. \A t : t \in UsedOf(d2) <=> \E x \in Live(d) : t \in SectorsOf(d2[x])
    BY <1>2, <1>4, <1>7, InUsed
  <2>2. \A t : t \in UsedOf(d) <=> \E x \in Live(d) : t \in SectorsOf(d[x])
    BY InUsed
  <2>3. \A x \in Live(d) : SectorsOf(d2[x]) = SectorsOf(d[x])
    BY <1>6
  <2>4. \A t : t \in UsedOf(d2) <=> t \in UsedOf(d)
    BY <2>1, <2>2, <2>3
  <2>5. QED BY <2>4
<1>9. Neat(d2)
  <2>1. \A x \in Live(d2) : Tidy(d2[x])
    <3>1. \A x \in Live(d) : Tidy(d2[x])
      BY <1>1, <1>6 DEF Neat
    <3>2. Tidy(d2[i])
      BY <1>2, <1>4, Constants DEF Tidy
    <3>3. QED BY <3>1, <3>2, <1>7
  <2>2. Apart(d2)
    <3>1. ASSUME NEW x \in Live(d2), NEW y \in Live(d2), x # y
          PROVE  SectorsOf(d2[x]) \cap SectorsOf(d2[y]) = {}
      <4>1. CASE x = i \/ y = i
        BY <4>1, <1>2, <1>4
      <4>2. CASE x \in Live(d) /\ y \in Live(d)
        BY <4>2, <3>1, <1>1, <1>6 DEF Neat, Apart
      <4>3. QED BY <4>1, <4>2, <1>7
    <3>2. QED BY <3>1 DEF Apart
  <2>3. QED BY <1>4, <2>1, <2>2 DEF Neat
<1>10. \A x \in Live(d) : own[x] \in Live(d) /\ own[x] # i /\ own[own[x]] = own[x]
  BY <1>1 DEF Linked, Place
<1>11. Linked(d2, own2, rank2, pos2)
  <2>1. ASSUME NEW x \in Live(d2)
        PROVE  Place(d2, own2, rank2, pos2, x)
    <3>1. CASE x = i
      BY <3>1, <1>4, <1>7 DEF Place
    <3>2. CASE x \in Live(d)
      <4>1. Place(d, own, rank, pos, x)
        BY <1>1, <3>2 DEF Linked
      <4>2. QED BY <3>2, <4>1, <1>6, <1>7, <1>10 DEF Place
    <3>3. QED BY <3>1, <3>2, <1>7
  <2>2. ASSUME NEW x \in Live(d2)
        PROVE  Leading(d2, own2, rank2, pos2, x)
    <3>1. CASE x = i
      BY <3>1, <1>2, <1>4 DEF Leading
    <3>2. CASE x \in Live(d)
      <4>1. Leading(d, own, rank, pos, x)
        BY <1>1, <3>2 DEF Linked
      <4>2. d2[x] = d[x] /\ own2[x] = own[x] /\ rank2[x] = rank[x] /\ pos2[x] = pos[x]
        BY <1>6, <3>2
      <4>3. CASE d[x].next # None
        <5>1. d[x].next \in Live(d)
          BY <4>1, <4>3 DEF Leading
        <5>2. QED BY <4>1, <4>2, <4>3, <5>1, <1>6, <1>7 DEF Leading
      <4>4. CASE d[x].next = None
        BY <4>2, <4>4 DEF Leading
      <4>5. QED BY <4>3, <4>4
    <3>3. QED BY <3>1, <3>2, <1>7
  <2>3. ASSUME NEW x \in Live(d2)
        PROVE  Order(d2, own2, rank2, x)
    <3>1. CASE x = i
      <4>1. \A y \in Live(d2) : own2[y] = own2[x] => y = x
        BY <3>1, <1>4, <1>6, <1>7, <1>10
      <4>2. rank2[x] \in Nat
        BY <3>1, <1>4
      <4>3. ASSUME NEW y \in Live(d2), own2[y] = own2[x]
            PROVE  /\ d2[x].next = None => rank2[y] <= rank2[x]
                   /\ rank2[y] = rank2[x] => y = x
        <5>1. y = x
          BY <4>1, <4>3
        <5>2. QED BY <4>2, <5>1
      <4>4. QED BY <4>3 DEF Order
    <3>2. CASE x \in Live(d)
      <4>1. Order(d, own, rank, x)
        BY <1>1, <3>2 DEF Linked
      <4>2. \A y \in Live(d2) : own2[y] = own2[x] => y \in Live(d)
        BY <3>2, <1>4, <1>6, <1>7, <1>10
      <4>3. d2[x] = d[x] /\ own2[x] = own[x] /\ rank2[x] = rank[x]
        BY <1>6, <3>2
      <4>4. ASSUME NEW y \in Live(d2), own2[y] = own2[x]
            PROVE  /\ d2[x].next = None => rank2[y] <= rank2[x]
                   /\ rank2[y] = rank2[x] => y = x
        <5>1. y \in Live(d) /\ own[y] = own[x] /\ rank2[y] = rank[y]
          BY <4>2, <4>3, <4>4, <1>6
        <5>2. QED BY <4>1, <4>3, <5>1 DEF Order
      <4>5. QED BY <4>4 DEF Order
    <3>3. QED BY <3>1, <3>2, <1>7
  <2>4. QED BY <1>4, <2>1, <2>2, <2>3 DEF Linked
<1>12. Untouched(d, own, pos, d2, own2, pos2, i)
  BY <1>4, <1>6, <1>7 DEF Untouched
<1>13. Fits(d2, own2, pos2, i, 0)
  <2>1. Own(d2, own2, i) \subseteq Sector
    BY DEF Own
  <2>2. Cardinality(Own(d2, own2, i)) \in Nat
    BY <2>1, Finite
  <2>3. 0 <= SectorSize * Cardinality(Own(d2, own2, i))
    BY <2>2, Constants
  <2>4. \A l \in Live(d2) : own2[l] = i => l = i
    BY <1>6, <1>7, <1>10
  <2>5. \A m \in 0 .. ListSectors : 0 <= SectorSize * (pos2[i] + m)
    BY <1>4, Constants
  <2>6. QED BY <2>3, <2>4, <2>5 DEF Fits
<1>14. Sized(d2, own2, pos2)
  <2>1. ASSUME NEW g \in Live(d2), d2[g].kind = "name", g # i
        PROVE  Fits(d2, own2, pos2, g, d2[g].size)
    <3>1. g \in Live(d) /\ d2[g] = d[g]
      BY <1>6, <1>7, <2>1
    <3>2. Fits(d, own, pos, g, d[g].size)
      BY <1>1, <2>1, <3>1 DEF Sized
    <3>3. QED BY <1>12, <2>1, <3>1, <3>2, SameFits
  <2>2. QED BY <1>2, <1>4, <1>13, <2>1 DEF Sized
<1>15. QED BY <1>4, <1>6, <1>7, <1>8, <1>9, <1>11, <1>12, <1>13, <1>14 DEF Files

LEMMA OneLast ==
  ASSUME NEW d, NEW own, NEW rank, NEW pos, Linked(d, own, rank, pos),
         NEW i \in Live(d), NEW j \in Live(d), own[i] = own[j], d[i].next = None, d[j].next = None
  PROVE  i = j
<1>1. Order(d, own, rank, i) /\ Order(d, own, rank, j)
  BY DEF Linked
<1>2. rank[i] \in Nat /\ rank[j] \in Nat
  BY DEF Linked, Live
<1>3. rank[j] <= rank[i] /\ rank[i] <= rank[j]
  BY <1>1 DEF Order
<1>4. rank[i] = rank[j]
  BY <1>2, <1>3
<1>5. QED BY <1>1, <1>4 DEF Order

LEMMA OneSectorMore ==
  ASSUME NEW a \in Nat, NEW z \in Nat, NEW n \in 0 .. SectorSize, z <= SectorSize * a
  PROVE  z + n <= SectorSize * (a + 1)
<1>1. SectorSize * (a + 1) = SectorSize * a + SectorSize
  BY Constants
<1>2. SectorSize * a \in Nat
  BY Constants
<1>3. QED BY <1>1, <1>2, Constants

(* A sector at the end of the last entry.                                   *)
LEMMA SectorAdded ==
  ASSUME NEW d, NEW own, NEW rank, NEW pos, Files(d, own, rank, pos),
         NEW i \in Live(d), d[i].next = None,
         NEW k \in Nat, Filled(d[i], k), k < curentry_max_sectors(d[i]),
         NEW s \in Sector, s \notin UsedOf(d),
         NEW e, e = With(d[i], k, s),
         NEW d2, d2 = Set(d, i, e)
  PROVE  /\ Files(d2, own, rank, pos)
         /\ Live(d2) = Live(d) /\ UsedOf(d2) = UsedOf(d) \cup {s}
         /\ Untouched(d, own, pos, d2, own, pos, own[i])
         /\ \A z \in Nat, n \in 0 .. SectorSize :
              Fits(d, own, pos, own[i], z) => Fits(d2, own, pos, own[i], z + n)
         /\ e \in EntryType /\ d2[i] = e /\ e.kind = d[i].kind /\ e.next = None
         /\ Filled(e, k + 1) /\ e.sectors[k] = s
         /\ \A x \in Entry : d2[x].kind = d[x].kind
<1>1. /\ d \in [Entry -> EntryType] /\ Live(d) \subseteq Entry /\ i \in Entry
      /\ Neat(d) /\ Linked(d, own, rank, pos) /\ Sized(d, own, pos)
      /\ own \in [Entry -> Entry] /\ rank \in [Entry -> Nat] /\ pos \in [Entry -> Nat]
  BY DEF Files, Neat, Live, Linked
<1>2. /\ e \in EntryType /\ e.kind = d[i].kind /\ e.name = d[i].name /\ e.size = d[i].size
      /\ e.next = d[i].next
      /\ Filled(e, k + 1) /\ e.sectors[k] = s /\ \A l \in Listed(d[i]) : e.sectors[l] = d[i].sectors[l]
      /\ SectorsOf(e) = SectorsOf(d[i]) \cup {s}
  <2>1. d[i] \in EntryType
    BY <1>1
  <2>2. QED BY ONLY <2>1, OneMore, k \in Nat, Filled(d[i], k), k < curentry_max_sectors(d[i]), s \in Sector, e = With(d[i], k, s)
<1>3. d2 \in [Entry -> EntryType] /\ d2[i] = e /\ \A x \in Entry \ {i} : d2[x] = d[x]
  BY <1>1, <1>2 DEF Set
<1>4. \A x \in Entry : d2[x].kind = d[x].kind /\ d2[x].next = d[x].next /\ d2[x].size = d[x].size
  BY <1>2, <1>3
<1>5. Live(d2) = Live(d)
  BY <1>4 DEF Live
<1>6. \A x \in Live(d) : SectorsOf(d2[x]) = SectorsOf(d[x]) \cup (IF x = i THEN {s} ELSE {})
  BY <1>1, <1>2, <1>3
<1>7. \A x \in Live(d) : s \notin SectorsOf(d[x])
  BY InUsed
<1>8. UsedOf(d2) = UsedOf(d) \cup {s}
  <2>1. \A t : t \in UsedOf(d2) <=> \E x \in Live(d) : t \in SectorsOf(d2[x])
    BY <1>5, InUsed
  <2>2. \A t : t \in UsedOf(d) <=> \E x \in Live(d) : t \in SectorsOf(d[x])
    BY InUsed
  <2>3. \A t : t \in UsedOf(d2) <=> t \in UsedOf(d) \/ t = s
    BY <2>1, <2>2, <1>6
  <2>4. QED BY <2>3
<1>9. Neat(d2)
  <2>1. Tidy(e)
    <3>1. Listed(d[i]) = 0 .. k - 1 /\ Listed(e) = 0 .. k
      BY <1>2 DEF Filled
    <3>2. \A l \in Listed(d[i]) : e.sectors[l] # s
      BY <1>2, <1>7 DEF SectorsOf
    <3>3. \A l \in Listed(e) : l \in Listed(d[i]) \/ l = k
      BY <3>1
    <3>4. \A l, m \in Listed(d[i]) : e.sectors[l] = e.sectors[m] => l = m
      BY <1>1, <1>2 DEF Neat, Tidy
    <3>5. \A l, m \in Listed(e) : e.sectors[l] = e.sectors[m] => l = m
      BY <1>2, <3>2, <3>3, <3>4
    <3>6. QED BY <1>2, <3>5 DEF Tidy, Filled
  <2>2. \A x \in Live(d) : Tidy(d2[x])
    <3>1. ASSUME NEW x \in Live(d), x # i PROVE Tidy(d2[x])
      BY <1>1, <1>3, <3>1 DEF Neat
    <3>2. QED BY <2>1, <3>1, <1>3
  <2>3. Apart(d2)
    <3>1. ASSUME NEW x \in Live(d), NEW y \in Live(d), x # y
          PROVE  SectorsOf(d2[x]) \cap SectorsOf(d2[y]) = {}
      <4>1. SectorsOf(d[x]) \cap SectorsOf(d[y]) = {}
        BY <1>1, <3>1 DEF Neat, Apart
      <4>2. s \notin SectorsOf(d[x]) /\ s \notin SectorsOf(d[y])
        BY <1>7
      <4>3. x # i \/ y # i
        BY <3>1
      <4>4. QED BY <1>6, <4>1, <4>2, <4>3
    <3>2. QED BY <3>1, <1>5 DEF Apart
  <2>4. QED BY <1>3, <1>5, <2>2, <2>3 DEF Neat
<1>10. Linked(d2, own, rank, pos)
  <2>1. ASSUME NEW x \in Live(d)
        PROVE  Place(d2, own, rank, pos, x)
    BY <1>1, <1>4, <1>5 DEF Linked, Place
  <2>2. ASSUME NEW x \in Live(d)
        PROVE  Leading(d2, own, rank, pos, x)
    <3>1. Leading(d, own, rank, pos, x)
      BY <1>1 DEF Linked
    <3>2. CASE d[x].next = None
      BY <1>1, <1>4, <3>2 DEF Leading
    <3>3. CASE d[x].next # None
      <4>1. d2[x] = d[x] /\ d[x].next \in Live(d) /\ d[x].next \in Entry
        BY <1>1, <1>3, <3>1, <3>3 DEF Leading
      <4>2. d2[d[x].next].kind = d[d[x].next].kind
        BY <1>4, <4>1
      <4>3. QED BY <3>1, <4>1, <4>2, <1>5 DEF Leading
    <3>4. QED BY <3>2, <3>3
  <2>3. ASSUME NEW x \in Live(d)
        PROVE  Order(d2, own, rank, x)
    <3>1. Order(d, own, rank, x)
      BY <1>1 DEF Linked
    <3>2. d2[x].next = d[x].next
      BY <1>1, <1>4
    <3>3. QED BY <3>1, <3>2, <1>5 DEF Order
  <2>4. QED BY <1>1, <1>5, <2>1, <2>2, <2>3 DEF Linked
<1>11. Untouched(d, own, pos, d2, own, pos, own[i])
  <2>1. \A x \in Live(d) : own[x] # own[i] => d2[x] = d[x]
    BY <1>1, <1>3
  <2>2. QED BY <2>1, <1>5 DEF Untouched
<1>12. ASSUME NEW z \in Nat, NEW n \in 0 .. SectorSize, Fits(d, own, pos, own[i], z)
       PROVE  Fits(d2, own, pos, own[i], z + n)
  <2>1. Own(d2, own, own[i]) = Own(d, own, own[i]) \cup {s} /\ s \notin Own(d, own, own[i])
    BY <1>5, <1>6, <1>7 DEF Own
  <2>2. Own(d, own, own[i]) \subseteq Sector
    BY DEF Own
  <2>3. /\ Cardinality(Own(d, own, own[i])) \in Nat
        /\ Cardinality(Own(d2, own, own[i])) = Cardinality(Own(d, own, own[i])) + 1
    BY <2>1, <2>2, Finite, FS_AddElement
  <2>4. z + n <= SectorSize * Cardinality(Own(d2, own, own[i]))
    <3>1. z <= SectorSize * Cardinality(Own(d, own, own[i]))
      BY <1>12 DEF Fits
    <3>2. QED BY <2>3, <3>1, OneSectorMore
  <2>5. ASSUME NEW l \in Live(d2), own[l] = own[i], d2[l].next = None,
               NEW m \in 0 .. ListSectors, Filled(d2[l], m)
        PROVE  z + n <= SectorSize * (pos[l] + m)
    <3>1. l \in Live(d) /\ d[l].next = None
      BY <1>1, <1>4, <1>5, <2>5
    <3>2. l = i
      BY <1>1, <2>5, <3>1, OneLast
    <3>3. Filled(e, m)
      BY <1>3, <2>5, <3>2
    <3>4. m = k + 1
      BY <1>2, <3>3, FilledOnce
    <3>5. k \in 0 .. ListSectors
      BY DEF Filled
    <3>6. z <= SectorSize * (pos[i] + k)
      BY <1>12, <3>5 DEF Fits
    <3>7. pos[i] \in Nat
      BY <1>1
    <3>8. z + n <= SectorSize * (pos[i] + k + 1)
      BY <3>6, <3>7, OneSectorMore
    <3>9. QED BY <3>2, <3>4, <3>7, <3>8
  <2>6. QED BY <2>4, <2>5 DEF Fits
<1>13. Sized(d2, own, pos)
  <2>1. ASSUME NEW g \in Live(d2), d2[g].kind = "name"
        PROVE  Fits(d2, own, pos, g, d2[g].size)
    <3>1. g \in Live(d) /\ g \in Entry /\ d[g].kind = "name" /\ d2[g].size = d[g].size
      BY <1>1, <1>4, <1>5, <2>1
    <3>2. Fits(d, own, pos, g, d[g].size)
      BY <1>1, <3>1 DEF Sized
    <3>3. d[g].size \in Nat
      BY <1>1, <3>1, EntryParts, Constants
    <3>4. CASE g = own[i]
      <4>1. Fits(d2, own, pos, g, d[g].size + 0)
        BY <1>12, <3>2, <3>3, <3>4, Constants
      <4>2. QED BY <3>1, <3>3, <4>1
    <3>5. CASE g # own[i]
      BY <1>11, <3>1, <3>2, <3>5, SameFits
    <3>6. QED BY <3>4, <3>5
  <2>2. QED BY <2>1 DEF Sized
<1>14. QED BY <1>2, <1>3, <1>4, <1>5, <1>8, <1>9, <1>10, <1>11, <1>12, <1>13 DEF Files

(* A full entry, the last of its chain, gets a next one with one sector.    *)
LEMMA EntryAdded ==
  ASSUME NEW d, NEW own, NEW rank, NEW pos, Files(d, own, rank, pos),
         NEW i \in Live(d), d[i].next = None, Filled(d[i], curentry_max_sectors(d[i])),
         NEW j \in Entry, j \notin Live(d),
         NEW s \in Sector, s \notin UsedOf(d),
         NEW d2, d2 = Set(Set(d, i, To(d[i], j)), j, NewList(s)),
         NEW own2, own2 = Set(own, j, own[i]),
         NEW rank2, rank2 = Set(rank, j, rank[i] + 1),
         NEW pos2, pos2 = Set(pos, j, pos[i] + curentry_max_sectors(d[i]))
  PROVE  /\ Files(d2, own2, rank2, pos2)
         /\ Live(d2) = Live(d) \cup {j} /\ UsedOf(d2) = UsedOf(d) \cup {s}
         /\ Untouched(d, own, pos, d2, own2, pos2, own[i])
         /\ \A z \in Nat, n \in 0 .. SectorSize :
              Fits(d, own, pos, own[i], z) => Fits(d2, own2, pos2, own[i], z + n)
         /\ To(d[i], j) \in EntryType /\ d2[j] = NewList(s) /\ own2[j] = own[i]
         /\ \A x \in Live(d) : d2[x].kind = d[x].kind
<1>1. /\ d \in [Entry -> EntryType] /\ Live(d) \subseteq Entry /\ i \in Entry
      /\ Neat(d) /\ Linked(d, own, rank, pos) /\ Sized(d, own, pos)
      /\ own \in [Entry -> Entry] /\ rank \in [Entry -> Nat] /\ pos \in [Entry -> Nat]
  BY DEF Files, Neat, Live, Linked
<1>2. d[i] \in EntryType /\ i # j /\ j # None
  BY <1>1, Constants DEF Entry
<1>3. /\ To(d[i], j) \in EntryType /\ To(d[i], j).kind = d[i].kind
      /\ To(d[i], j).sectors = d[i].sectors /\ To(d[i], j).next = j
      /\ To(d[i], j).size = d[i].size
  BY <1>2 DEF To, EntryType
<1>4. /\ NewList(s) \in EntryType /\ NewList(s).kind = "list" /\ NewList(s).size = 0
      /\ NewList(s).next = None /\ Filled(NewList(s), 1) /\ SectorsOf(NewList(s)) = {s}
  BY NewEntries
<1>5. curentry_max_sectors(d[i]) \in 1 .. ListSectors
  BY MaxSectors
<1>6. /\ d2 \in [Entry -> EntryType] /\ d2[j] = NewList(s) /\ d2[i] = To(d[i], j)
      /\ \A x \in Entry \ {i, j} : d2[x] = d[x]
  BY <1>1, <1>2, <1>3, <1>4 DEF Set
<1>7. /\ own2 \in [Entry -> Entry] /\ own2[j] = own[i] /\ \A x \in Entry \ {j} : own2[x] = own[x]
  BY <1>1 DEF Set
<1>8. /\ rank2 \in [Entry -> Nat] /\ rank2[j] = rank[i] + 1 /\ \A x \in Entry \ {j} : rank2[x] = rank[x]
  BY <1>1 DEF Set
<1>9. /\ pos2 \in [Entry -> Nat] /\ pos2[j] = pos[i] + curentry_max_sectors(d[i])
      /\ \A x \in Entry \ {j} : pos2[x] = pos[x]
  <2>1. pos[i] + curentry_max_sectors(d[i]) \in Nat
    BY <1>1, <1>5, Constants
  <2>2. QED BY <1>1, <2>1 DEF Set
<1>10. \A x \in Live(d) :
         /\ x # j /\ own2[x] = own[x] /\ rank2[x] = rank[x] /\ pos2[x] = pos[x]
         /\ d2[x].kind = d[x].kind /\ d2[x].sectors = d[x].sectors /\ d2[x].size = d[x].size
         /\ x # i => d2[x] = d[x]
  BY <1>1, <1>3, <1>6, <1>7, <1>8, <1>9
<1>11. Live(d2) = Live(d) \cup {j}
  <2>1. \A x \in Entry : x # j => (d2[x].kind = d[x].kind)
    BY <1>3, <1>6
  <2>2. d2[j].kind # "free"
    BY <1>4, <1>6
  <2>3. QED BY <2>1, <2>2 DEF Live
<1>12. \A x \in Live(d) :
         /\ curentry_max_sectors(d2[x]) = curentry_max_sectors(d[x])
         /\ Listed(d2[x]) = Listed(d[x]) /\ SectorsOf(d2[x]) = SectorsOf(d[x])
         /\ \A n : Filled(d2[x], n) <=> Filled(d[x], n)
  BY <1>10, SameSectors
<1>13. SectorsOf(d2[j]) = {s} /\ \A x \in Live(d) : s \notin SectorsOf(d[x])
  BY <1>4, <1>6, InUsed
<1>14. UsedOf(d2) = UsedOf(d) \cup {s}
  <2>1. \A t : t \in UsedOf(d2) <=> \E x \in Live(d) \cup {j} : t \in SectorsOf(d2[x])
    BY <1>11, InUsed
  <2>2. \A t : t \in UsedOf(d) <=> \E x \in Live(d) : t \in SectorsOf(d[x])
    BY InUsed
  <2>3. \A t : t \in UsedOf(d2) <=> t \in UsedOf(d) \/ t = s
    BY <2>1, <2>2, <1>12, <1>13
  <2>4. QED BY <2>3
<1>15. Neat(d2)
  <2>1. \A x \in Live(d) : Tidy(d2[x])
    <3>1. \A x \in Live(d) : Tidy(d[x])
      BY <1>1 DEF Neat
    <3>2. QED BY <3>1, <1>10, <1>12 DEF Tidy
  <2>2. Tidy(d2[j])
    <3>1. Listed(NewList(s)) = {0} /\ 1 \in 0 .. ListSectors
      BY <1>4, Constants DEF Filled
    <3>2. QED BY <3>1, <1>4, <1>6 DEF Tidy
  <2>3. Apart(d2)
    <3>1. ASSUME NEW x \in Live(d2), NEW y \in Live(d2), x # y
          PROVE  SectorsOf(d2[x]) \cap SectorsOf(d2[y]) = {}
      <4>1. CASE x \in Live(d) /\ y \in Live(d)
        <5>1. SectorsOf(d[x]) \cap SectorsOf(d[y]) = {}
          BY <1>1, <3>1, <4>1 DEF Neat, Apart
        <5>2. QED BY <4>1, <5>1, <1>12
      <4>2. CASE x = j \/ y = j
        BY <3>1, <4>2, <1>11, <1>12, <1>13
      <4>3. QED BY <4>1, <4>2, <1>11
    <3>2. QED BY <3>1 DEF Apart
  <2>4. QED BY <1>6, <1>11, <2>1, <2>2, <2>3 DEF Neat
<1>16. \A x \in Live(d) : own[x] \in Live(d) /\ own[x] # j /\ own[own[x]] = own[x]
  BY <1>1, <1>10 DEF Linked, Place
<1>17. own[i] \in Live(d) /\ own[i] # j /\ rank[i] \in Nat
  BY <1>1, <1>16
<1>18. \A x \in Live(d) : own[x] = own[i] => rank[x] <= rank[i] /\ rank[x] \in Nat
  BY <1>1 DEF Linked, Order
<1>19. Linked(d2, own2, rank2, pos2)
  <2>1. ASSUME NEW x \in Live(d2)
        PROVE  Place(d2, own2, rank2, pos2, x)
    <3>1. CASE x = j
      <4>1. own2[x] \in Live(d2) /\ own2[x] # x /\ rank2[x] # 0 /\ own2[own2[x]] = own2[x]
        BY <3>1, <1>7, <1>8, <1>10, <1>11, <1>16, <1>17
      <4>2. i \in Live(d2) /\ d2[i].next = x
        BY <3>1, <1>3, <1>6, <1>11
      <4>3. d2[x].kind # "name"
        BY <3>1, <1>4, <1>6
      <4>4. QED BY <4>1, <4>2, <4>3 DEF Place
    <3>2. CASE x \in Live(d)
      <4>1. Place(d, own, rank, pos, x)
        BY <1>1, <3>2 DEF Linked
      <4>2. rank[x] > 0 => \E b \in Live(d2) : d2[b].next = x
        <5>1. SUFFICES ASSUME rank[x] > 0 PROVE \E b \in Live(d2) : d2[b].next = x
          OBVIOUS
        <5>2. PICK b \in Live(d) : d[b].next = x
          BY <4>1, <5>1 DEF Place
        <5>3. x # None
          BY <3>2, <1>1, Constants DEF Entry
        <5>4. d2[b] = d[b]
          BY <5>2, <5>3, <1>10
        <5>5. QED BY <5>2, <5>4, <1>11
      <4>3. own2[x] = own[x] /\ own2[own2[x]] = own2[x]
        BY <3>2, <1>10, <1>16
      <4>4. QED BY <3>2, <4>1, <4>2, <4>3, <1>10, <1>11 DEF Place
    <3>3. QED BY <3>1, <3>2, <1>11
  <2>2. ASSUME NEW x \in Live(d2)
        PROVE  Leading(d2, own2, rank2, pos2, x)
    <3>1. CASE x = j
      BY <3>1, <1>4, <1>6 DEF Leading
    <3>2. CASE x = i
      <4>1. d2[x].next = j /\ j \in Live(d2) /\ d2[j].kind = "list"
        BY <3>2, <1>3, <1>4, <1>6, <1>11
      <4>2. own2[x] = own[i] /\ rank2[x] = rank[i] /\ pos2[x] = pos[i]
        BY <3>2, <1>10
      <4>3. /\ curentry_max_sectors(d2[x]) = curentry_max_sectors(d[i])
            /\ Filled(d2[x], curentry_max_sectors(d[i]))
        BY <3>2, <1>12
      <4>4. QED BY <4>1, <4>2, <4>3, <1>7, <1>8, <1>9 DEF Leading
    <3>3. CASE x \in Live(d) /\ x # i
      <4>1. Leading(d, own, rank, pos, x)
        BY <1>1, <3>3 DEF Linked
      <4>2. d2[x] = d[x] /\ own2[x] = own[x] /\ rank2[x] = rank[x] /\ pos2[x] = pos[x]
        BY <1>10, <3>3
      <4>3. CASE d[x].next # None
        <5>1. d[x].next \in Live(d)
          BY <4>1, <4>3 DEF Leading
        <5>2. d2[d[x].next].kind = d[d[x].next].kind
          BY <5>1, <1>10
        <5>3. QED BY <4>1, <4>2, <4>3, <5>1, <5>2, <1>10, <1>11 DEF Leading
      <4>4. CASE d[x].next = None
        BY <4>2, <4>4 DEF Leading
      <4>5. QED BY <4>3, <4>4
    <3>4. QED BY <3>1, <3>2, <3>3, <1>11
  <2>3. ASSUME NEW x \in Live(d2)
        PROVE  Order(d2, own2, rank2, x)
    <3>1. ASSUME NEW y \in Live(d2), own2[y] = own2[x]
          PROVE  /\ d2[x].next = None => rank2[y] <= rank2[x]
                 /\ rank2[y] = rank2[x] => y = x
      <4>1. CASE x = j /\ y = j
        BY <4>1, <1>8
      <4>2. CASE x = j /\ y \in Live(d)
        <5>1. own[y] = own[i] /\ rank2[y] = rank[y]
          BY <3>1, <4>2, <1>7, <1>10
        <5>2. rank[y] <= rank[i] /\ rank[y] \in Nat
          BY <4>2, <5>1, <1>18
        <5>3. QED BY <4>2, <5>1, <5>2, <1>8, <1>17
      <4>3. CASE x \in Live(d) /\ y = j
        <5>1. own[x] = own[i] /\ rank2[x] = rank[x]
          BY <3>1, <4>3, <1>7, <1>10
        <5>2. rank[x] <= rank[i] /\ rank[x] \in Nat
          BY <4>3, <5>1, <1>18
        <5>3. rank2[y] # rank2[x]
          BY <4>3, <5>1, <5>2, <1>8, <1>17
        <5>4. d2[x].next # None
          <6>1. CASE x = i
            BY <6>1, <1>2, <1>3, <1>6
          <6>2. CASE x # i
            <7>1. d[x].next # None
              BY <1>1, <4>3, <5>1, <6>2, OneLast
            <7>2. QED BY <4>3, <6>2, <7>1, <1>10
          <6>3. QED BY <6>1, <6>2
        <5>5. QED BY <5>3, <5>4
      <4>4. CASE x \in Live(d) /\ y \in Live(d)
        <5>1. own[y] = own[x] /\ rank2[x] = rank[x] /\ rank2[y] = rank[y]
          BY <3>1, <4>4, <1>10
        <5>2. d2[x].next = None => d[x].next = None
          BY <4>4, <1>10
        <5>3. Order(d, own, rank, x)
          BY <1>1, <4>4 DEF Linked
        <5>4. QED BY <4>4, <5>1, <5>2, <5>3 DEF Order
      <4>5. QED BY <4>1, <4>2, <4>3, <4>4, <1>11
    <3>2. QED BY <3>1 DEF Order
  <2>4. QED BY <1>7, <1>8, <1>9, <2>1, <2>2, <2>3 DEF Linked
<1>20. Untouched(d, own, pos, d2, own2, pos2, own[i])
  <2>1. \A x \in Live(d) : own[x] # own[i] => d2[x] = d[x]
    BY <1>10
  <2>2. QED BY <2>1, <1>7, <1>10, <1>11 DEF Untouched
<1>21. ASSUME NEW z \in Nat, NEW n \in 0 .. SectorSize, Fits(d, own, pos, own[i], z)
       PROVE  Fits(d2, own2, pos2, own[i], z + n)
  <2>1. Own(d2, own2, own[i]) = Own(d, own, own[i]) \cup {s} /\ s \notin Own(d, own, own[i])
    BY <1>7, <1>10, <1>11, <1>12, <1>13 DEF Own
  <2>2. Own(d, own, own[i]) \subseteq Sector
    BY DEF Own
  <2>3. /\ Cardinality(Own(d, own, own[i])) \in Nat
        /\ Cardinality(Own(d2, own2, own[i])) = Cardinality(Own(d, own, own[i])) + 1
    BY <2>1, <2>2, Finite, FS_AddElement
  <2>4. z + n <= SectorSize * Cardinality(Own(d2, own2, own[i]))
    <3>1. z <= SectorSize * Cardinality(Own(d, own, own[i]))
      BY <1>21 DEF Fits
    <3>2. QED BY <2>3, <3>1, OneSectorMore
  <2>5. ASSUME NEW l \in Live(d2), own2[l] = own[i], d2[l].next = None,
               NEW m \in 0 .. ListSectors, Filled(d2[l], m)
        PROVE  z + n <= SectorSize * (pos2[l] + m)
    <3>1. l = j
      <4>1. SUFFICES ASSUME l \in Live(d) PROVE FALSE
        BY <1>11
      <4>2. l # i
        BY <2>5, <1>2, <1>3, <1>6
      <4>3. d[l].next = None /\ own[l] = own[i]
        BY <2>5, <4>1, <4>2, <1>10
      <4>4. QED BY <1>1, <4>1, <4>2, <4>3, OneLast
    <3>2. m = 1
      BY <1>4, <1>6, <2>5, <3>1, FilledOnce
    <3>3. z <= SectorSize * (pos[i] + curentry_max_sectors(d[i]))
      BY <1>5, <1>21, Constants DEF Fits
    <3>4. pos2[l] \in Nat /\ pos2[l] = pos[i] + curentry_max_sectors(d[i])
      BY <3>1, <1>9
    <3>5. z <= SectorSize * pos2[l]
      BY <3>3, <3>4
    <3>6. z + n <= SectorSize * (pos2[l] + 1)
      BY <3>4, <3>5, OneSectorMore
    <3>7. QED BY <3>2, <3>6
  <2>6. QED BY <2>4, <2>5 DEF Fits
<1>22. Sized(d2, own2, pos2)
  <2>1. ASSUME NEW g \in Live(d2), d2[g].kind = "name"
        PROVE  Fits(d2, own2, pos2, g, d2[g].size)
    <3>1. g \in Live(d) /\ g \in Entry /\ d[g].kind = "name" /\ d2[g].size = d[g].size
      BY <1>1, <1>4, <1>6, <1>10, <1>11, <2>1
    <3>2. Fits(d, own, pos, g, d[g].size)
      BY <1>1, <3>1 DEF Sized
    <3>3. d[g].size \in Nat
      BY <1>1, <3>1, EntryParts, Constants
    <3>4. CASE g = own[i]
      <4>1. Fits(d2, own2, pos2, g, d[g].size + 0)
        BY <1>21, <3>2, <3>3, <3>4, Constants
      <4>2. QED BY <3>1, <3>3, <4>1
    <3>5. CASE g # own[i]
      BY <1>20, <3>1, <3>2, <3>5, SameFits
    <3>6. QED BY <3>4, <3>5
  <2>2. QED BY <2>1 DEF Sized
<1>23. QED BY <1>3, <1>6, <1>7, <1>10, <1>11, <1>14, <1>15, <1>19, <1>20, <1>21, <1>22 DEF Files

(* The first entry of a chain is erased; the rest is a chain of its own.    *)
LEMMA FirstErased ==
  ASSUME NEW d, NEW own, NEW rank, NEW pos, Files(d, own, rank, pos),
         NEW i \in Live(d), rank[i] = 0,
         NEW d2, d2 = Set(d, i, Erased)
  PROVE  /\ Live(d2) = Live(d) \ {i} /\ UsedOf(d2) = UsedOf(d) \ SectorsOf(d[i])
         /\ d[i].next # None => d[i].next \in Live(d2) /\ d2[d[i].next].kind = "list"
         /\ \E own2, rank2 :
              /\ Files(d2, own2, rank2, pos)
              /\ Untouched(d, own, pos, d2, own2, pos, i)
              /\ d[i].next # None => rank2[d[i].next] = 0
<1> DEFINE j     == IF d[i].next = None THEN i ELSE d[i].next
           own2  == [x \in Entry |-> IF own[x] = i THEN j ELSE own[x]]
           rank2 == [x \in Entry |-> IF own[x] = i /\ rank[x] > 0 THEN rank[x] - 1 ELSE rank[x]]
<1>1. /\ d \in [Entry -> EntryType] /\ Live(d) \subseteq Entry /\ i \in Entry
      /\ Neat(d) /\ Linked(d, own, rank, pos) /\ Sized(d, own, pos)
      /\ own \in [Entry -> Entry] /\ rank \in [Entry -> Nat] /\ pos \in [Entry -> Nat]
  BY DEF Files, Neat, Live, Linked
<1>2. /\ d2 \in [Entry -> EntryType] /\ d2[i] = Erased /\ \A x \in Entry \ {i} : d2[x] = d[x]
  BY <1>1, NewEntries DEF Set
<1>3. Live(d2) = Live(d) \ {i}
  BY <1>1, <1>2, NewEntries DEF Live
<1>4. \A x \in Live(d2) : x \in Live(d) /\ x # i /\ d2[x] = d[x] /\ x \in Entry
  BY <1>1, <1>2, <1>3
<1>5. UsedOf(d2) = UsedOf(d) \ SectorsOf(d[i])
  <2>1. \A t : t \in UsedOf(d2) <=> \E x \in Live(d2) : t \in SectorsOf(d2[x])
    BY InUsed
  <2>2. \A t : t \in UsedOf(d) <=> \E x \in Live(d) : t \in SectorsOf(d[x])
    BY InUsed
  <2>3. \A x \in Live(d) : x # i => SectorsOf(d[x]) \cap SectorsOf(d[i]) = {}
    BY <1>1 DEF Neat, Apart
  <2>4. \A t : t \in UsedOf(d2) <=> t \in UsedOf(d) /\ t \notin SectorsOf(d[i])
    BY <2>1, <2>2, <2>3, <1>3, <1>4
  <2>5. QED BY <2>4
<1>6. Neat(d2)
  <2>1. \A x \in Live(d2) : Tidy(d2[x])
    BY <1>1, <1>4 DEF Neat
  <2>2. Apart(d)
    BY <1>1 DEF Neat
  <2>3. Apart(d2)
    BY ONLY <1>4, <2>2 DEF Apart
  <2>4. QED BY <1>2, <2>1, <2>3 DEF Neat
<1>7. own[i] = i
  BY <1>1 DEF Linked, Place
<1>8. ASSUME NEW x \in Live(d), own[x] = i, x # i
      PROVE  d[i].next # None /\ rank[x] > 0
  <2>1. Order(d, own, rank, i)
    BY <1>1 DEF Linked
  <2>2. rank[x] # 0 /\ rank[x] \in Nat
    BY <1>1, <1>7, <1>8, <2>1 DEF Order
  <2>3. d[i].next # None
    BY <1>7, <1>8, <2>1, <2>2 DEF Order
  <2>4. QED BY <2>2, <2>3
<1>9. d[i].next # None =>
        /\ j = d[i].next /\ j \in Live(d2) /\ j \in Entry /\ j # i /\ d[j].kind = "list"
        /\ own[j] = i /\ rank[j] = 1
  <2>1. SUFFICES ASSUME d[i].next # None
                 PROVE  /\ j = d[i].next /\ j \in Live(d2) /\ j \in Entry /\ j # i
                        /\ d[j].kind = "list" /\ own[j] = i /\ rank[j] = 1
    OBVIOUS
  <2>2. Leading(d, own, rank, pos, i)
    BY <1>1 DEF Linked
  <2>3. j = d[i].next
    BY <2>1
  <2> HIDE DEF j
  <2>4. j \in Live(d) /\ d[j].kind = "list" /\ own[j] = i /\ rank[j] = 1
    BY <2>1, <2>2, <2>3, <1>7 DEF Leading
  <2>5. QED BY <1>1, <1>3, <2>3, <2>4
<1>10. j \in Entry
  BY <1>1, <1>9
<1> HIDE DEF j
<1>11. own2 \in [Entry -> Entry] /\ rank2 \in [Entry -> Nat]
  BY <1>1, <1>10
<1>12. \A x \in Live(d2) :
         /\ own[x] = i => own2[x] = j /\ rank2[x] = rank[x] - 1 /\ rank[x] > 0
         /\ own[x] # i => own2[x] = own[x] /\ rank2[x] = rank[x]
  BY <1>4, <1>8
<1>13. \A x \in Live(d2) :
         /\ own[x] = i => d[i].next # None
         /\ rank[x] \in Nat
         /\ Place(d, own, rank, pos, x) /\ Leading(d, own, rank, pos, x) /\ Order(d, own, rank, x)
  BY <1>1, <1>4, <1>8 DEF Linked
<1> HIDE DEF own2, rank2
<1>14. ASSUME NEW x \in Live(d2)
       PROVE  Place(d2, own2, rank2, pos, x)
  <2>1. CASE own[x] = i
    <3>1. own2[x] = j /\ j \in Live(d2) /\ own[j] = i /\ d[j].kind = "list" /\ rank[j] = 1
      BY <2>1, <1>9, <1>12, <1>13
    <3>2. own2[own2[x]] = own2[x]
      BY <3>1, <1>12
    <3>3. rank2[x] = 0 <=> own2[x] = x
      <4>1. rank[x] = rank[j] => x = j
        BY <2>1, <3>1, <1>3, <1>13 DEF Order
      <4>2. QED BY <2>1, <3>1, <4>1, <1>12, <1>13
    <3>4. d2[x].kind # "name"
      BY <2>1, <1>4, <1>12, <1>13 DEF Place
    <3>5. rank2[x] > 0 => \E b \in Live(d2) : d2[b].next = x
      <4>1. SUFFICES ASSUME rank2[x] > 0 PROVE \E b \in Live(d2) : d2[b].next = x
        OBVIOUS
      <4>2. PICK b \in Live(d) : d[b].next = x
        BY <1>12, <1>13, <2>1 DEF Place
      <4>3. b # i
        <5>1. SUFFICES ASSUME b = i PROVE FALSE
          OBVIOUS
        <5>2. x = j
          BY <4>2, <5>1, <1>9, <1>13, <2>1
        <5>3. QED BY <2>1, <3>1, <4>1, <5>2, <1>12
      <4>4. QED BY <4>2, <4>3, <1>3, <1>4
    <3>6. QED BY <3>1, <3>2, <3>3, <3>4, <3>5 DEF Place
  <2>2. CASE own[x] # i
    <3>1. own[x] \in Live(d2) /\ own[own[x]] = own[x]
      BY <2>2, <1>3, <1>13 DEF Place
    <3>2. own2[x] = own[x] /\ own2[own2[x]] = own2[x] /\ rank2[x] = rank[x] /\ d2[x] = d[x]
      BY <2>2, <3>1, <1>4, <1>12
    <3>3. rank[x] > 0 => \E b \in Live(d2) : d2[b].next = x
      <4>1. SUFFICES ASSUME rank[x] > 0 PROVE \E b \in Live(d2) : d2[b].next = x
        OBVIOUS
      <4>2. PICK b \in Live(d) : d[b].next = x
        BY <4>1, <1>13 DEF Place
      <4>3. b # i
        <5>1. x # None
          BY <1>4, Constants DEF Entry
        <5>2. SUFFICES ASSUME b = i PROVE FALSE
          OBVIOUS
        <5>3. own[x] = i
          BY <4>2, <5>1, <5>2, <1>9
        <5>4. QED BY <5>3, <2>2
      <4>4. QED BY <4>2, <4>3, <1>3, <1>4
    <3>4. QED BY <3>1, <3>2, <3>3, <1>13 DEF Place
  <2>3. QED BY <2>1, <2>2
<1>15. ASSUME NEW x \in Live(d2)
       PROVE  Leading(d2, own2, rank2, pos, x)
  <2>1. SUFFICES ASSUME d[x].next # None PROVE Leading(d2, own2, rank2, pos, x)
    BY <1>4 DEF Leading
  <2> DEFINE y == d[x].next
  <2>2. /\ y \in Live(d) /\ d[y].kind = "list" /\ own[y] = own[x] /\ rank[y] = rank[x] + 1
        /\ pos[y] = pos[x] + curentry_max_sectors(d[x]) /\ Filled(d[x], curentry_max_sectors(d[x]))
    BY <2>1, <1>13 DEF Leading
  <2>3. d2[x] = d[x] /\ d2[x].next = y
    BY <1>4
  <2> HIDE DEF y
  <2>4. y # i
    BY <2>2, <1>13
  <2>5. y \in Live(d2) /\ d2[y] = d[y]
    BY <2>2, <2>4, <1>3, <1>4
  <2>6. own2[y] = own2[x] /\ rank2[y] = rank2[x] + 1
    BY <2>2, <2>5, <1>12, <1>13
  <2>7. QED BY <2>2, <2>3, <2>5, <2>6 DEF Leading
<1>16. ASSUME NEW x \in Live(d2)
       PROVE  Order(d2, own2, rank2, x)
  <2>1. ASSUME NEW y \in Live(d2), own2[y] = own2[x]
        PROVE  own[y] = own[x]
    <3>1. CASE own[x] = i /\ own[y] # i
      <4>1. own[y] = j /\ own[own[y]] = own[y] /\ own[j] = i /\ j # i
        BY <2>1, <3>1, <1>9, <1>12, <1>13 DEF Place
      <4>2. QED BY <4>1
    <3>2. CASE own[y] = i /\ own[x] # i
      <4>1. own[x] = j /\ own[own[x]] = own[x] /\ own[j] = i /\ j # i
        BY <2>1, <3>2, <1>9, <1>12, <1>13 DEF Place
      <4>2. QED BY <4>1
    <3>3. CASE (own[x] = i /\ own[y] = i) \/ (own[x] # i /\ own[y] # i)
      BY <2>1, <3>3, <1>12
    <3>4. QED BY <3>1, <3>2, <3>3
  <2>2. ASSUME NEW y \in Live(d2), own2[y] = own2[x]
        PROVE  /\ d2[x].next = None => rank2[y] <= rank2[x]
               /\ rank2[y] = rank2[x] => y = x
    <3>1. own[y] = own[x] /\ y \in Live(d) /\ d2[x] = d[x]
      BY <2>1, <2>2, <1>4
    <3>2. /\ d[x].next = None => rank[y] <= rank[x]
          /\ rank[y] = rank[x] => y = x
      BY <3>1, <1>13 DEF Order
    <3>3. rank[x] \in Nat /\ rank[y] \in Nat
      BY <1>13
    <3>4. \/ rank2[x] = rank[x] /\ rank2[y] = rank[y]
          \/ rank2[x] = rank[x] - 1 /\ rank2[y] = rank[y] - 1
      BY <3>1, <1>12
    <3>5. QED BY <3>1, <3>2, <3>3, <3>4
  <2>3. QED BY <2>2 DEF Order
<1>17. Linked(d2, own2, rank2, pos)
  BY <1>1, <1>11, <1>14, <1>15, <1>16 DEF Linked
<1>18. Untouched(d, own, pos, d2, own2, pos, i)
  <2>1. ASSUME NEW g \in Live(d), d[g].kind = "name", g # i, NEW x \in Entry
        PROVE  x \in Live(d) /\ own[x] = g <=> x \in Live(d2) /\ own2[x] = g
    <3>1. CASE x \in Live(d2)
      <4>1. own[x] = i => own2[x] # g /\ own[x] # g
        BY <2>1, <3>1, <1>9, <1>12, <1>13
      <4>2. QED BY <3>1, <4>1, <1>4, <1>12
    <3>2. CASE x \notin Live(d2)
      BY <2>1, <3>2, <1>3, <1>7
    <3>3. QED BY <3>1, <3>2
  <2>2. ASSUME NEW g \in Live(d), g # i, NEW x \in Live(d), own[x] = g
        PROVE  d2[x] = d[x]
    BY <2>2, <1>3, <1>4, <1>7
  <2>3. QED BY <2>1, <2>2 DEF Untouched
<1>19. Sized(d2, own2, pos)
  <2>1. ASSUME NEW g \in Live(d2), d2[g].kind = "name"
        PROVE  Fits(d2, own2, pos, g, d2[g].size)
    <3>1. g \in Live(d) /\ d2[g] = d[g] /\ g # i
      BY <1>4
    <3>2. Fits(d, own, pos, g, d[g].size)
      BY <2>1, <3>1, <1>1 DEF Sized
    <3>3. QED BY <2>1, <3>1, <3>2, <1>18, SameFits
  <2>2. QED BY <2>1 DEF Sized
<1>20. d[i].next # None =>
         d[i].next \in Live(d2) /\ d2[d[i].next].kind = "list" /\ rank2[d[i].next] = 0
  BY <1>4, <1>9, <1>12
<1>21. Files(d2, own2, rank2, pos)
  BY <1>6, <1>17, <1>19 DEF Files
<1>22. QED BY <1>3, <1>5, <1>18, <1>20, <1>21

(* An empty directory.                                                      *)
LEMMA Emptied ==
  ASSUME NEW d, d = [i \in Entry |-> Erased], NEW own, NEW rank, NEW pos,
         own \in [Entry -> Entry], rank \in [Entry -> Nat], pos \in [Entry -> Nat]
  PROVE  Files(d, own, rank, pos) /\ Live(d) = {} /\ UsedOf(d) = {}
<1>1. Live(d) = {}
  BY NewEntries DEF Live
<1>2. UsedOf(d) = {}
  <2>1. \A t : t \notin UsedOf(d)
    BY <1>1, InUsed
  <2>2. QED BY <2>1
<1>3. d \in [Entry -> EntryType]
  BY NewEntries
<1>4. QED BY <1>1, <1>2, <1>3 DEF Files, Neat, Apart, Linked, Sized
-----------------------------------------------------------------------------
(***************************************************************************)
(* Searches.  There is no theorem on recursive definitions the provers can  *)
(* use, so what is recursive is proved from the least number for which it   *)
(* would be wrong.                                                         *)
(***************************************************************************)
LEMMA Least ==
  ASSUME NEW T, T \subseteq Nat, T # {}
  PROVE  \E n \in T : \A m \in T : n <= m
<1> DEFINE Less == OpToRel(<, Nat)
<1>1. IsWellFoundedOn(Less, Nat)
  BY NatLessThanWellFounded
<1>2. \A x, y \in Nat : <<y, x>> \in Less <=> y < x
  BY SMT DEF OpToRel
<1> HIDE DEF Less
<1>3. PICK x \in T : \A y \in T : ~ (<<y, x>> \in Less)
  BY <1>1, WFMin
<1>4. \A y \in T : x <= y
  <2> TAKE y \in T
  <2>1. ~ (<<y, x>> \in Less)
    BY <1>3
  <2>2. x \in Nat /\ y \in Nat
    OBVIOUS
  <2>3. ~ (y < x)
    BY <1>2, <2>1, <2>2
  <2>4. QED BY <2>2, <2>3
<1>5. QED BY <1>4

(* What is found clear is in the bitmap, and clear.                         *)
LEMMA Clear ==
  ASSUME NEW used, NEW count \in Nat \ {0}, NEW start \in Int
  PROVE  LET found == NextClear(used, count, start)
         IN found # None => found \in 0 .. count - 1 /\ found \notin used
<1> DEFINE clear == {x \in 0 .. count - 1 : (start + x) % count \notin used}
           first == CHOOSE x \in clear : \A other \in clear : x <= other
           found == NextClear(used, count, start)
<1>1. CASE clear = {}
  BY <1>1 DEF NextClear
<1>2. CASE clear # {}
  <2>1. found = (start + first) % count
    BY <1>2 DEF NextClear
  <2>2. \E x \in clear : \A other \in clear : x <= other
    <3>1. clear \subseteq Nat
      OBVIOUS
    <3> HIDE DEF clear
    <3>2. QED BY <1>2, <3>1, Least
  <2>3. first \in clear
    <3> HIDE DEF clear
    <3>1. QED BY <2>2
  <2> HIDE DEF first
  <2>4. first \in Int /\ (start + first) % count \notin used
    BY <2>3
  <2>5. (start + first) % count \in 0 .. count - 1
    BY <2>4
  <2>6. QED BY <2>1, <2>4, <2>5
<1>3. QED BY <1>1, <1>2

LEMMA FreeEntry ==
  ASSUME NEW start \in Int
  PROVE  next_free_entry(start) # None =>
           next_free_entry(start) \in Entry /\ next_free_entry(start) \notin used_entries
BY Clear, Constants DEF next_free_entry, Entry

LEMMA FreeSector ==
  ASSUME NEW start, start \in Sector \cup {None}, NEW s \in next_free_sector(start) \ {None}
  PROVE  s \in Sector /\ s \notin used_sectors
<1>1. CASE start = None
  BY <1>1, Clear, Constants DEF next_free_sector, Sector
<1>2. CASE start # None
  <2>1. start \in Int
    BY <1>2, Constants DEF Sector
  <2>2. s = NextClear(used_sectors, Sectors, start)
    BY <1>2 DEF next_free_sector
  <2>3. QED BY <2>1, <2>2, Clear, Constants DEF Sector
<1>3. QED BY <1>1, <1>2

LEMMA FoundEntry ==
  ASSUME NEW d, NEW n, find_entry(d, n) # None
  PROVE  /\ find_entry(d, n) \in Live(d) /\ d[find_entry(d, n)].kind = "name"
         /\ d[find_entry(d, n)].name = n
<1> DEFINE found == {i \in Entry : d[i].kind = "name" /\ d[i].name = n}
           first == CHOOSE i \in found : \A j \in found : i <= j
<1>1. found # {} /\ find_entry(d, n) = first
  BY DEF find_entry
<1>2. \E i \in found : \A j \in found : i <= j
  <2>1. found \subseteq Nat
    BY Constants DEF Entry
  <2> HIDE DEF found
  <2>2. QED BY <1>1, <2>1, Least
<1>3. first \in found
  <2> HIDE DEF found
  <2>1. QED BY <1>2
<1> HIDE DEF first
<1>4. QED BY <1>1, <1>3 DEF Live

LEMMA FindsNone ==
  ASSUME NEW d, NEW n, find_entry(d, n) = None
  PROVE  \A i \in Live(d) : d[i].kind = "name" => d[i].name # n
<1> DEFINE found == {i \in Entry : d[i].kind = "name" /\ d[i].name = n}
<1>1. ASSUME found # {} PROVE FALSE
  <2>1. find_entry(d, n) = CHOOSE i \in found : \A j \in found : i <= j
    BY <1>1 DEF find_entry
  <2>2. found \subseteq Nat
    BY Constants DEF Entry
  <2>3. \E i \in found : \A j \in found : i <= j
    <3> HIDE DEF found
    <3>1. QED BY <1>1, <2>2, Least
  <2>4. find_entry(d, n) \in found
    BY <2>1, <2>3
  <2>5. QED BY <2>4, Constants DEF Entry
<1>2. QED BY <1>1 DEF Live

(* The chain of a file in a directory d, by the equation that Chain has for  *)
(* dir, and that it satisfies this equation.                               *)
ChainOf(d, e) ==
  LET at[k \in Entry] == IF k = 0 THEN e ELSE IF at[k - 1] = None THEN None ELSE d[at[k - 1]].next
  IN at

Steps(d, at, e, n) ==
  at = [k \in 0 .. n |-> IF k = 0 THEN e ELSE IF at[k - 1] = None THEN None ELSE d[at[k - 1]].next]

LEMMA StepsExist ==
  ASSUME NEW d, NEW e, NEW n \in Nat
  PROVE  \E at : Steps(d, at, e, n)
<1> DEFINE Bad == {m \in Nat : ~ \E at : Steps(d, at, e, m)}
<1>1. SUFFICES ASSUME Bad # {} PROVE FALSE
  OBVIOUS
<1>2. PICK m \in Bad : \A l \in Bad : m <= l
  <2>1. Bad \subseteq Nat
    OBVIOUS
  <2> HIDE DEF Bad
  <2>2. QED BY <1>1, <2>1, Least
<1>3. CASE m = 0
  <2> DEFINE at == [k \in 0 .. 0 |-> e]
  <2>1. Steps(d, at, e, 0)
    BY DEF Steps
  <2>2. QED BY <2>1, <1>2, <1>3
<1>4. CASE m # 0
  <2>1. m \in Nat /\ m - 1 \in Nat /\ m - 1 \notin Bad
    BY <1>2, <1>4
  <2>2. PICK before : Steps(d, before, e, m - 1)
    BY <2>1
  <2> DEFINE last == IF before[m - 1] = None THEN None ELSE d[before[m - 1]].next
             at   == [k \in 0 .. m |-> IF k = m THEN last ELSE before[k]]
  <2>3. \A k \in 0 .. m - 1 : before[k] =
          IF k = 0 THEN e ELSE IF before[k - 1] = None THEN None ELSE d[before[k - 1]].next
    BY <2>2, <2>1 DEF Steps
  <2> HIDE DEF last
  <2>4. (\A k \in 0 .. m - 1 : at[k] = before[k]) /\ at[m] = last
    BY <2>1
  <2>5. at = [k \in 0 .. m |-> at[k]]
    OBVIOUS
  <2> HIDE DEF at
  <2>6. \A k \in 0 .. m : at[k] =
          IF k = 0 THEN e ELSE IF at[k - 1] = None THEN None ELSE d[at[k - 1]].next
    <3> TAKE k \in 0 .. m
    <3>1. CASE k = m
      <4>1. at[m - 1] = before[m - 1]
        BY <2>1, <2>4
      <4>2. QED BY <2>4, <3>1, <4>1, <1>4 DEF last
    <3>2. CASE k # m
      <4>1. k \in 0 .. m - 1 /\ at[k] = before[k]
        BY <2>1, <2>4, <3>2
      <4>2. k # 0 => at[k - 1] = before[k - 1]
        BY <2>1, <2>4, <3>2
      <4>3. QED BY <2>3, <4>1, <4>2
    <3>3. QED BY <3>1, <3>2
  <2>7. Steps(d, at, e, m)
    BY <2>5, <2>6 DEF Steps
  <2>8. QED BY <2>7, <1>2
<1>5. QED BY <1>3, <1>4

LEMMA ChainOfStep ==
  ASSUME NEW d, NEW e, e # None
  PROVE  /\ 0 \in Entry /\ ChainOf(d, e)[0] = e
         /\ \A k \in Entry \ {0} :
              /\ k - 1 \in Entry
              /\ ChainOf(d, e)[k] = IF ChainOf(d, e)[k - 1] = None THEN None ELSE d[ChainOf(d, e)[k - 1]].next
<1> DEFINE Is(at) ==
      at = [k \in Entry |-> IF k = 0 THEN e ELSE IF at[k - 1] = None THEN None ELSE d[at[k - 1]].next]
<1>1. ChainOf(d, e) = CHOOSE at : Is(at)
  BY DEF ChainOf
<1>2. \E at : Is(at)
  <2>1. Entries - 1 \in Nat
    BY Constants
  <2>2. PICK at : Steps(d, at, e, Entries - 1)
    BY <2>1, StepsExist
  <2>3. QED BY <2>2 DEF Steps, Entry
<1>3. Is(ChainOf(d, e))
  <2> HIDE DEF Is
  <2>1. QED BY <1>1, <1>2
<1>4. \A k \in Entry : ChainOf(d, e)[k] =
        IF k = 0 THEN e ELSE IF ChainOf(d, e)[k - 1] = None THEN None ELSE d[ChainOf(d, e)[k - 1]].next
  BY <1>3
<1> HIDE DEF Is
<1>5. 0 \in Entry /\ \A k \in Entry \ {0} : k - 1 \in Entry
  BY Constants DEF Entry
<1>6. QED BY <1>4, <1>5

LEMMA ChainStep ==
  ASSUME NEW e, e # None
  PROVE  /\ 0 \in Entry /\ Chain(e)[0] = e
         /\ \A k \in Entry \ {0} :
              /\ k - 1 \in Entry
              /\ Chain(e)[k] = IF Chain(e)[k - 1] = None THEN None ELSE dir[Chain(e)[k - 1]].next
<1>1. Chain(e) = ChainOf(dir, e)
  BY DEF Chain, ChainOf
<1>2. QED BY <1>1, ChainOfStep

(* The entry at a place of the chain is the one of that rank.               *)
LEMMA ChainRanks ==
  ASSUME NEW own, NEW rank, NEW pos, Files(dir, own, rank, pos),
         NEW e \in Live(dir), dir[e].kind = "name",
         NEW k \in Entry, Chain(e)[k] # None
  PROVE  Chain(e)[k] \in Live(dir) /\ own[Chain(e)[k]] = e /\ rank[Chain(e)[k]] = k
<1>1. Linked(dir, own, rank, pos) /\ e \in Entry /\ e # None
  BY Constants DEF Files, Live, Entry
<1> DEFINE Right(m) == Chain(e)[m] \in Live(dir) /\ own[Chain(e)[m]] = e /\ rank[Chain(e)[m]] = m
           Bad      == {m \in Entry : Chain(e)[m] # None /\ ~ Right(m)}
<1>2. SUFFICES ASSUME Bad # {} PROVE FALSE
  OBVIOUS
<1>3. PICK m \in Bad : \A l \in Bad : m <= l
  <2>1. Bad \subseteq Nat
    BY Constants DEF Entry
  <2> HIDE DEF Bad
  <2>2. QED BY <1>2, <2>1, Least
<1>4. CASE m = 0
  <2>1. own[e] = e /\ rank[e] = 0
    BY <1>1, RootOfFile
  <2>2. Chain(e)[m] = e
    BY <1>1, <1>4, ChainStep
  <2>3. QED BY <1>3, <1>4, <2>1, <2>2
<1>5. CASE m # 0
  <2>1. m \in Entry /\ Chain(e)[m] # None /\ ~ Right(m)
    BY <1>3
  <2>2. /\ m - 1 \in Entry /\ m \in Nat
        /\ Chain(e)[m] = IF Chain(e)[m - 1] = None THEN None ELSE dir[Chain(e)[m - 1]].next
    BY <1>1, <1>5, <2>1, ChainStep, Constants DEF Entry
  <2>3. Chain(e)[m - 1] # None /\ m - 1 \notin Bad
    BY <1>3, <2>1, <2>2
  <2>4. Right(m - 1)
    BY <2>2, <2>3
  <2>5. Leading(dir, own, rank, pos, Chain(e)[m - 1])
    BY <1>1, <2>4 DEF Linked
  <2>6. Right(m)
    BY <2>1, <2>2, <2>3, <2>4, <2>5 DEF Leading
  <2>7. QED BY <2>1, <2>6
<1>6. QED BY <1>4, <1>5

(* As long as all entries so far are there, the chain is not at its end for *)
(* want of places.                                                         *)
LEMMA ChainBefore ==
  ASSUME NEW e, e # None, NEW k \in Entry, Chain(e)[k] # None, NEW m \in 0 .. k
  PROVE  m \in Entry /\ Chain(e)[m] # None
<1>1. k \in Nat /\ 0 .. k \subseteq Entry
  BY Constants DEF Entry
<1> DEFINE Bad == {n \in 0 .. k : Chain(e)[k - n] = None}
<1>2. ASSUME Bad # {} PROVE FALSE
  <2>1. PICK n \in Bad : \A l \in Bad : n <= l
    <3>1. Bad \subseteq Nat
      OBVIOUS
    <3> HIDE DEF Bad
    <3>2. QED BY <1>2, <3>1, Least
  <2>2. n # 0
    BY <1>1, <2>1
  <2>3. n - 1 \in 0 .. k /\ n - 1 \notin Bad
    BY <1>1, <2>1, <2>2
  <2>4. k - (n - 1) \in Entry \ {0} /\ (k - (n - 1)) - 1 = k - n
    BY <1>1, <2>1, <2>2
  <2>5. Chain(e)[k - (n - 1)] # None
    BY <2>3
  <2>6. Chain(e)[k - n] # None
    BY <2>4, <2>5, ChainStep
  <2>7. QED BY <2>1, <2>6
<1>3. k - m \notin Bad /\ k - m \in 0 .. k /\ k - (k - m) = m
  BY <1>1, <1>2
<1>4. QED BY <1>1, <1>3

(* The last entry of a file, as append finds it.                            *)
LEMMA LastOfFile ==
  ASSUME NEW own, NEW rank, NEW pos, Files(dir, own, rank, pos),
         NEW e \in Live(dir), dir[e].kind = "name"
  PROVE  LET last == LastEntry(e)
         IN last \in Live(dir) /\ own[last] = e /\ dir[last].next = None
<1>1. /\ Linked(dir, own, rank, pos) /\ e \in Entry /\ e # None /\ Live(dir) \subseteq Entry
      /\ dir \in [Entry -> EntryType]
  BY Constants DEF Files, Neat, Live, Entry
<1> DEFINE entries == {Chain(e)[k] : k \in Entry} \ {None}
           Ends(i) == dir[i].next = None \/ dir[i].next \notin entries
<1>2. \A i \in entries : i \in Live(dir) /\ own[i] = e
  BY ChainRanks
<1>3. ASSUME NEW k \in Entry, Chain(e)[k] # None, dir[Chain(e)[k]].next # None
      PROVE  dir[Chain(e)[k]].next \in entries
  <2> DEFINE i == Chain(e)[k]
             next == dir[i].next
  <2>1. i \in Live(dir) /\ own[i] = e /\ rank[i] = k
    BY <1>3, ChainRanks
  <2>2. next \in Live(dir) /\ rank[next] = k + 1
    BY <1>1, <1>3, <2>1 DEF Linked, Leading
  <2>3. CASE k + 1 \in Entry
    <3>1. k + 1 \in Entry \ {0} /\ (k + 1) - 1 = k
      BY <2>3, Constants DEF Entry
    <3>2. Chain(e)[k + 1] = next
      BY <1>1, <1>3, <3>1, ChainStep
    <3>3. QED BY <1>3, <2>3, <3>2
  <2>4. CASE k + 1 \notin Entry
    <3>1. k = Entries - 1 /\ Entries \in Nat \ {0}
      BY <2>4, Constants DEF Entry
    <3> DEFINE all == [m \in 0 .. Entries |-> IF m = Entries THEN next ELSE Chain(e)[m]]
    <3> HIDE DEF next, i
    <3>2. ASSUME NEW m \in 0 .. Entries
          PROVE  all[m] \in Entry /\ rank[all[m]] = m
      <4>1. CASE m = Entries
        BY <4>1, <2>2, <3>1, <1>1
      <4>2. CASE m # Entries
        <5>1. m \in Entry /\ m \in 0 .. k
          BY <3>1, <4>2 DEF Entry
        <5>2. Chain(e)[m] # None
          BY <1>1, <1>3, <5>1, ChainBefore
        <5>3. QED BY <1>1, <4>2, <5>1, <5>2, ChainRanks
      <4>3. QED BY <4>1, <4>2
    <3>3. all \in [0 .. Entries -> Entry]
      BY <3>2
    <3> HIDE DEF all
    <3>4. /\ IsFiniteSet(0 .. Entries) /\ Cardinality(0 .. Entries) = Entries + 1
          /\ IsFiniteSet(Entry) /\ Cardinality(Entry) = Entries
      BY <3>1, FS_Interval DEF Entry
    <3>5. \E x, y \in 0 .. Entries : x # y /\ all[x] = all[y]
      <4> DEFINE places == 0 .. Entries
      <4>1. Cardinality(Entry) < Cardinality(places)
        BY <3>1, <3>4
      <4>2. IsFiniteSet(places) /\ IsFiniteSet(Entry) /\ all \in [places -> Entry]
        BY <3>3, <3>4
      <4> HIDE DEF places
      <4>3. \E x, y \in places : x # y /\ all[x] = all[y]
        BY <4>1, <4>2, FS_PigeonHole
      <4>4. QED BY <4>3 DEF places
    <3>6. QED BY <3>2, <3>5
  <2>5. QED BY <2>3, <2>4
<1>4. \A i \in entries : Ends(i) => dir[i].next = None
  BY <1>3
<1>5. \E i \in entries : Ends(i)
  <2> DEFINE Free == {k \in Entry : Chain(e)[k] = None}
  <2>1. CASE Free = {}
    <3>1. Entries - 1 \in Entry
      BY Constants DEF Entry
    <3>2. Chain(e)[Entries - 1] # None
      BY <2>1, <3>1
    <3> DEFINE i == Chain(e)[Entries - 1]
    <3>3. i \in Live(dir) /\ rank[i] = Entries - 1 /\ i \in entries
      BY <3>1, <3>2, ChainRanks
    <3>4. dir[i].next # None => FALSE
      <4>1. SUFFICES ASSUME dir[i].next # None PROVE FALSE
        OBVIOUS
      <4>2. dir[i].next \in entries
        BY <3>1, <3>2, <4>1, <1>3
      <4>3. PICK k \in Entry : Chain(e)[k] = dir[i].next /\ Chain(e)[k] # None
        BY <4>2
      <4>4. rank[dir[i].next] = k
        BY <4>3, ChainRanks
      <4>5. rank[dir[i].next] = rank[i] + 1
        BY <1>1, <3>3, <4>1 DEF Linked, Leading
      <4>6. QED BY <3>3, <4>4, <4>5, Constants DEF Entry
    <3>5. QED BY <3>3, <3>4
  <2>2. CASE Free # {}
    <3>1. PICK k \in Free : \A l \in Free : k <= l
      <4>1. Free \subseteq Nat
        BY Constants DEF Entry
      <4> HIDE DEF Free
      <4>2. QED BY <2>2, <4>1, Least
    <3>2. k \in Entry \ {0}
      BY <1>1, <3>1, ChainStep
    <3>3. k - 1 \in Entry /\ k - 1 \notin Free /\ Chain(e)[k] = None
      BY <1>1, <3>1, <3>2, ChainStep, Constants DEF Entry
    <3>4. Chain(e)[k - 1] # None /\ dir[Chain(e)[k - 1]].next = None
      BY <1>1, <3>2, <3>3, ChainStep
    <3>5. Chain(e)[k - 1] \in entries
      BY <3>3, <3>4
    <3>6. QED BY <3>4, <3>5
  <2>3. QED BY <2>1, <2>2
<1>6. LastEntry(e) = CHOOSE i \in entries : Ends(i)
  BY DEF LastEntry
<1>7. LastEntry(e) \in entries /\ Ends(LastEntry(e))
  <2> HIDE DEF entries, Ends
  <2>1. QED BY <1>5, <1>6
<1>8. QED BY <1>2, <1>4, <1>7

-----------------------------------------------------------------------------
(***************************************************************************)
(* The inductive invariant.  d is the directory as it is when the writes    *)
(* under way have been done.                                               *)
(***************************************************************************)
Counted(used, free, entries, d) ==
  /\ used = UsedOf(d)
  /\ free = Sectors - Cardinality(used)
  /\ Live(d) \subseteq entries /\ entries \subseteq Entry

Handled(h, d, own, pos) ==
  /\ h \in [Channels -> HandleType]
  /\ \A c \in Channels : h[c].filemode # "closed" =>
       /\ Opened(d, own, pos, h[c])
       /\ \A b \in Channels \ {c} : h[b].filemode # "closed" /\ h[b].entry = h[c].entry =>
            h[b].filemode = "read" /\ h[c].filemode = "read"

(* The operation under way.                                                 *)
Reading(h, job) ==
  \E c \in Channels, n \in Nat :
    /\ job = [op |-> "read", c |-> c, left |-> n]
    /\ h[c].filemode = "read" /\ n <= h[c].size - h[c].cur_offset
Writing(h, job) ==
  \E c \in Channels, n \in Nat, closing \in BOOLEAN :
    /\ job = [op |-> "write", c |-> c, left |-> n, closing |-> closing]
    /\ h[c].filemode = "write"
Closing(job) == \E c \in Channels : job = [op |-> "close", c |-> c]
Deleting(h, job, d, rank) ==
  \E i \in Live(d) :
    /\ job = [op |-> "delete", at |-> i] /\ rank[i] = 0
    /\ \A c \in Channels : h[c].filemode # "closed" => h[c].entry # i

Job(h, job, d, rank) ==
  job = None \/ Reading(h, job) \/ Writing(h, job) \/ Closing(job) \/ Deleting(h, job, d, rank)

(* What the writes under way lead to.                                       *)
IsData(w) == w.what = "data"

Leads(from, q, d) ==
  \/ q = <<>> /\ d = from
  \/ \E i \in Entry, e \in EntryType : q = <<WriteEntry(i, e)>> /\ d = Set(from, i, e)
  \/ \E w : q = <<w>> /\ IsData(w) /\ d = from
  \/ \E i \in Entry, e \in EntryType : \E w :
       q = <<WriteEntry(i, e), w>> /\ IsData(w) /\ d = Set(from, i, e)
  \/ \E i, j \in Entry, e \in EntryType, s \in Sector : \E w :
       /\ q = <<WriteEntry(i, e), WriteEntry(j, NewList(s)), w>> /\ IsData(w)
       /\ i # j /\ from[j].kind = "free" /\ from[i].kind # "free"
       /\ d = Set(Set(from, i, e), j, NewList(s))

Good(d, own, rank, pos) ==
  /\ Files(d, own, rank, pos) /\ Counted(used_sectors, free_sectors, used_entries, d)
  /\ Handled(fh, d, own, pos) /\ Job(fh, busy, d, rank)

Sound(d) == \E own, rank, pos : Files(d, own, rank, pos)

IInv ==
  /\ dir \in [Entry -> EntryType]
  /\ \E d : Leads(dir, queue, d) /\ \E own, rank, pos : Good(d, own, rank, pos)
  /\ Linking \/ Sound(dir)

(* What is written next: data, an entry that is made, erased or renamed, or   *)
(* one that gets a sector, a link or, last of all, its length.  A file is no  *)
(* shorter on its channel than in its entry, so its length grows.           *)
Making(d, w) == w.entry.kind # d[w.at].kind /\ (w.entry.kind = "name" => w.entry.size = 0)

Renaming(d, w) ==
  /\ w.entry.kind = d[w.at].kind /\ w.entry.name # d[w.at].name
  /\ w.entry.size = d[w.at].size

Extending(d, w) ==
  /\ d[w.at].kind # "free"
  /\ \/ \E k \in Slot, s \in Sector : w.entry = With(d[w.at], k, s)
     \/ \E j \in Entry : w.entry = To(d[w.at], j)

Sizing(q, c) ==
  /\ fh[c].filemode = "write" /\ dir[fh[c].entry].kind = "name"
  /\ q = <<WriteEntry(fh[c].entry, [dir[fh[c].entry] EXCEPT !.size = fh[c].size])>>

Ordered(q) ==
  q # <<>> =>
    \/ IsData(Head(q))
    \/ Head(q).what = "entry" /\ (Making(dir, Head(q)) \/ Renaming(dir, Head(q)) \/ Extending(dir, Head(q)))
    \/ \E c \in Channels : Sizing(q, c)
Growing ==
  \A c \in Channels : fh[c].filemode = "write" /\ dir[fh[c].entry].kind = "name" =>
    dir[fh[c].entry].size <= fh[c].size

TInv == Ordered(queue) /\ Growing
-----------------------------------------------------------------------------
LEMMA Writes ==
  /\ \A i, e : /\ WriteEntry(i, e).what = "entry" /\ WriteEntry(i, e).at = i
               /\ WriteEntry(i, e).entry = e /\ ~ IsData(WriteEntry(i, e))
  /\ \A s, o, x : /\ IsData(WriteData(s, o, x)) /\ WriteData(s, o, x).at = s
                  /\ WriteData(s, o, x).offset = o /\ WriteData(s, o, x).data = x
BY DEF WriteEntry, WriteData, IsData

(* What is under way leads to one directory.                                *)
LEMMA LeadsOnly ==
  ASSUME NEW from, NEW q, NEW d, Leads(from, q, d)
  PROVE  /\ q = <<>> => d = from
         /\ \A i, e : q = <<WriteEntry(i, e)>> => d = Set(from, i, e)
         /\ \A w : q = <<w>> /\ IsData(w) => d = from
         /\ \A i, e, w : q = <<WriteEntry(i, e), w>> /\ IsData(w) => d = Set(from, i, e)
         /\ \A i, e, j, f, w : q = <<WriteEntry(i, e), WriteEntry(j, f), w>> =>
              d = Set(Set(from, i, e), j, f)
<1>1. CASE q = <<>> /\ d = from
  BY <1>1
<1>2. ASSUME NEW i \in Entry, NEW e \in EntryType, q = <<WriteEntry(i, e)>>, d = Set(from, i, e)
      PROVE  /\ \A k, f : q = <<WriteEntry(k, f)>> => d = Set(from, k, f)
             /\ \A w : q = <<w>> /\ IsData(w) => d = from
  <2>1. ASSUME NEW w, q = <<w>>
        PROVE  w = WriteEntry(i, e)
    BY <1>2, <2>1
  <2>2. QED BY <1>2, <2>1, Writes
<1>3. ASSUME NEW w, q = <<w>>, IsData(w), d = from
      PROVE  \A k, f : q # <<WriteEntry(k, f)>>
  <2>1. ASSUME NEW v, q = <<v>>
        PROVE  v = w
    BY <1>3, <2>1
  <2>2. QED BY <1>3, <2>1, Writes
<1>4. ASSUME NEW i \in Entry, NEW e \in EntryType, NEW w, q = <<WriteEntry(i, e), w>>, IsData(w),
             d = Set(from, i, e)
      PROVE  \A k, f, v : q = <<WriteEntry(k, f), v>> => d = Set(from, k, f)
  <2>1. ASSUME NEW x, NEW v, q = <<x, v>>
        PROVE  x = WriteEntry(i, e)
    BY <1>4, <2>1
  <2>2. QED BY <1>4, <2>1, Writes
<1>5. ASSUME NEW i \in Entry, NEW j \in Entry, NEW e \in EntryType, NEW s \in Sector, NEW w,
             q = <<WriteEntry(i, e), WriteEntry(j, NewList(s)), w>>,
             d = Set(Set(from, i, e), j, NewList(s))
      PROVE  \A k, f, l, g, v : q = <<WriteEntry(k, f), WriteEntry(l, g), v>> =>
               d = Set(Set(from, k, f), l, g)
  <2>1. ASSUME NEW x, NEW y, NEW v, q = <<x, y, v>>
        PROVE  x = WriteEntry(i, e) /\ y = WriteEntry(j, NewList(s))
    BY <1>5, <2>1
  <2>2. ASSUME NEW k, NEW f, NEW l, NEW g, NEW v, q = <<WriteEntry(k, f), WriteEntry(l, g), v>>
        PROVE  d = Set(Set(from, k, f), l, g)
    <3>1. WriteEntry(k, f) = WriteEntry(i, e) /\ WriteEntry(l, g) = WriteEntry(j, NewList(s))
      BY <2>1, <2>2
    <3>2. k = i /\ f = e /\ l = j /\ g = NewList(s)
      BY <3>1, Writes
    <3>3. QED BY <1>5, <3>2
  <2>3. QED BY <2>2
<1>6. \A x, y, z : /\ Len(<<>>) = 0 /\ Len(<<x>>) = 1 /\ Len(<<x, y>>) = 2 /\ Len(<<x, y, z>>) = 3
  OBVIOUS
<1>7. CASE \E i \in Entry, e \in EntryType : q = <<WriteEntry(i, e)>> /\ d = Set(from, i, e)
  BY <1>2, <1>6, <1>7
<1>8. CASE \E w : q = <<w>> /\ IsData(w) /\ d = from
  BY <1>3, <1>6, <1>8
<1>9. CASE \E i \in Entry, e \in EntryType : \E w :
             q = <<WriteEntry(i, e), w>> /\ IsData(w) /\ d = Set(from, i, e)
  BY <1>4, <1>6, <1>9
<1>10. CASE \E i, j \in Entry, e \in EntryType, s \in Sector : \E w :
              /\ q = <<WriteEntry(i, e), WriteEntry(j, NewList(s)), w>> /\ IsData(w)
              /\ i # j /\ from[j].kind = "free" /\ from[i].kind # "free"
              /\ d = Set(Set(from, i, e), j, NewList(s))
  BY <1>5, <1>6, <1>10
<1>11. QED BY <1>1, <1>7, <1>8, <1>9, <1>10 DEF Leads

LEMMA InitGood == Init => IInv
<1> SUFFICES ASSUME Init PROVE IInv
  OBVIOUS
<1> DEFINE zero == [i \in Entry |-> 0]
<1>1. zero \in [Entry -> Entry] /\ zero \in [Entry -> Nat]
  BY Constants DEF Entry
<1> HIDE DEF zero
<1>2. /\ dir = [i \in Entry |-> Erased] /\ queue = <<>> /\ busy = None
      /\ used_entries = {} /\ used_sectors = {} /\ free_sectors = Sectors
      /\ fh = [c \in Channels |-> NoHandle]
  BY DEF Init
<1>3. Files(dir, zero, zero, zero) /\ Live(dir) = {} /\ UsedOf(dir) = {}
  BY <1>1, <1>2, Emptied
<1>4. Counted(used_sectors, free_sectors, used_entries, dir)
  BY <1>2, <1>3, FS_EmptySet, Constants DEF Counted
<1>5. NoHandle \in HandleType /\ NoHandle.filemode = "closed"
  BY Constants DEF NoHandle, HandleType, Entry, Sector
<1>6. Handled(fh, dir, zero, zero)
  BY <1>2, <1>5 DEF Handled
<1>7. Good(dir, zero, zero, zero)
  BY <1>2, <1>3, <1>4, <1>6 DEF Good, Job
<1>8. Leads(dir, queue, dir)
  BY <1>2 DEF Leads
<1>9. dir \in [Entry -> EntryType]
  BY <1>3 DEF Files, Neat
<1>10. QED BY <1>3, <1>7, <1>8, <1>9 DEF IInv, Sound

(* When nothing is left to be written, the directory is as it should be.    *)
LEMMA Settled ==
  ASSUME IInv, queue = <<>>
  PROVE  \E own, rank, pos : Good(dir, own, rank, pos)
<1>1. PICK d : Leads(dir, queue, d) /\ \E own, rank, pos : Good(d, own, rank, pos)
  BY DEF IInv
<1>2. d = dir
  BY <1>1 DEF Leads
<1>3. QED BY <1>1, <1>2

LEMMA FilesTyped ==
  ASSUME NEW d, NEW own, NEW rank, NEW pos, Files(d, own, rank, pos)
  PROVE  /\ d \in [Entry -> EntryType] /\ Live(d) \subseteq Entry
         /\ Neat(d) /\ Linked(d, own, rank, pos) /\ Sized(d, own, pos)
         /\ own \in [Entry -> Entry] /\ rank \in [Entry -> Nat] /\ pos \in [Entry -> Nat]
         /\ Sound(d)
BY DEF Files, Neat, Linked, Live, Sound

(* A step that begins with nothing to be written, and writes nothing yet.   *)
LEMMA GoesOn ==
  ASSUME NEW own, NEW rank, NEW pos, Files(dir, own, rank, pos), dir' = dir,
         NEW d, Leads(dir, queue', d), NEW own2, NEW rank2, NEW pos2,
         Files(d, own2, rank2, pos2), Counted(used_sectors', free_sectors', used_entries', d), Handled(fh', d, own2, pos2),
         Job(fh', busy', d, rank2)
  PROVE  IInv'
<1>1. dir' \in [Entry -> EntryType] /\ Sound(dir)'
  BY FilesTyped DEF Sound
<1>2. Leads(dir, queue, d)'
  BY DEF Leads
<1>3. Good(d, own2, rank2, pos2)'
  BY DEF Good
<1>4. QED BY <1>1, <1>2, <1>3 DEF IInv

LEMMA FlushKeeps == ASSUME IInv, Flush PROVE IInv'
<1>1. PICK d : Leads(dir, queue, d) /\ \E own, rank, pos : Good(d, own, rank, pos)
  BY DEF IInv
<1>2. PICK own, rank, pos : Good(d, own, rank, pos)
  BY <1>1
<1>3. Files(d, own, rank, pos) /\ d \in [Entry -> EntryType] /\ Sound(d)
  BY <1>2, FilesTyped DEF Good
<1>4. Good(d, own, rank, pos)'
  BY <1>2 DEF Good, Counted, Flush, ram
<1>5. \/ Head(queue).what = "entry" /\ dir' = Set(dir, Head(queue).at, Head(queue).entry)
      \/ Head(queue).what = "data" /\ dir' = dir
  BY DEF Flush, PutEntry, PutData, Set
<1>6. queue # <<>> /\ queue' = Tail(queue)
  BY DEF Flush
<1>7. CASE dir' = d /\ (queue' = <<>> \/ \E w : queue' = <<w>> /\ IsData(w))
  <2>1. Leads(dir, queue, d)'
    BY <1>7 DEF Leads
  <2>2. QED BY <1>3, <1>4, <1>7, <2>1 DEF IInv, Sound
<1>8. ASSUME NEW i \in Entry, NEW e \in EntryType, queue = <<WriteEntry(i, e)>>, d = Set(dir, i, e)
      PROVE  IInv'
  <2>1. Head(queue) = WriteEntry(i, e) /\ queue' = <<>>
    BY <1>6, <1>8
  <2>2. dir' = d
    BY <1>5, <1>8, <2>1 DEF WriteEntry
  <2>3. QED BY <1>7, <2>1, <2>2
<1>9. ASSUME NEW w, queue = <<w>>, IsData(w), d = dir
      PROVE  IInv'
  <2>1. Head(queue) = w /\ queue' = <<>>
    BY <1>6, <1>9
  <2>2. dir' = d
    BY <1>5, <1>9, <2>1 DEF IsData
  <2>3. QED BY <1>7, <2>1, <2>2
<1>10. ASSUME NEW i \in Entry, NEW e \in EntryType, NEW w, queue = <<WriteEntry(i, e), w>>, IsData(w),
              d = Set(dir, i, e)
       PROVE  IInv'
  <2>1. Head(queue) = WriteEntry(i, e) /\ queue' = <<w>>
    BY <1>6, <1>10
  <2>2. dir' = d
    BY <1>5, <1>10, <2>1 DEF WriteEntry
  <2>3. QED BY <1>7, <1>10, <2>1, <2>2
<1>11. ASSUME NEW i \in Entry, NEW j \in Entry, NEW e \in EntryType, NEW s \in Sector, NEW w,
              queue = <<WriteEntry(i, e), WriteEntry(j, NewList(s)), w>>, IsData(w),
              i # j, dir[j].kind = "free", dir[i].kind # "free",
              d = Set(Set(dir, i, e), j, NewList(s))
       PROVE  IInv'
  <2>1. Head(queue) = WriteEntry(i, e) /\ queue' = <<WriteEntry(j, NewList(s)), w>>
    BY <1>6, <1>11
  <2>2. dir' = Set(dir, i, e)
    BY <1>5, <1>11, <2>1 DEF WriteEntry
  <2>3. dir' \in [Entry -> EntryType] /\ dir'[j] = dir[j]
    BY <1>11, <2>2 DEF IInv, Set
  <2>4. NewList(s) \in EntryType /\ NewList(s).kind = "list"
    BY NewEntries
  <2>5. Leads(dir, queue, d)'
    <3>1. d = Set(dir', j, NewList(s))
      BY <1>11, <2>2
    <3>2. QED BY <1>11, <2>1, <2>4, <3>1 DEF Leads
  <2>6. Linking'
    <3>1. queue' # <<>> /\ Head(queue') = WriteEntry(j, NewList(s))
      BY <2>1
    <3>2. QED BY <1>11, <2>3, <2>4, <3>1 DEF Linking, WriteEntry
  <2>7. QED BY <1>4, <2>3, <2>5, <2>6 DEF IInv
<1>12. QED BY <1>1, <1>6, <1>8, <1>9, <1>10, <1>11 DEF Leads

(***************************************************************************)
(* A power failure inside a write of an entry.                             *)
(***************************************************************************)
(* The low byte of a greater length makes no length that is greater still.  *)
LEMMA LowFirst ==
  ASSUME NEW a \in Nat, NEW b \in Nat, a <= b
  PROVE  (a \div LowByte) * LowByte + (b % LowByte) \in 0 .. b
<1>1. PICK n \in Nat \ {0} : n = LowByte
  BY EepromFsAssumption
<1> DEFINE p == a \div n
           q == b \div n
           t == b % n
<1>2. p \in Nat /\ a % n \in 0 .. n - 1 /\ a = n * p + (a % n)
  OBVIOUS
<1>3. q \in Nat /\ t \in 0 .. n - 1 /\ b = n * q + t
  OBVIOUS
<1>4. (a \div LowByte) * LowByte + (b % LowByte) = p * n + t
  BY <1>1
<1> HIDE DEF p, q, t
<1>5. n * p \in Nat /\ n * q \in Nat /\ p * n = n * p
  BY <1>2, <1>3
<1>6. p <= q
  <2>1. SUFFICES ASSUME q < p PROVE FALSE
    BY <1>2, <1>3
  <2>2. n * (q + 1) <= n * p
    BY <2>1, <1>2, <1>3
  <2>3. n * (q + 1) = n * q + n
    BY <1>3
  <2>4. QED BY <1>2, <1>3, <1>5, <2>2, <2>3
<1>7. n * p <= n * q
  BY <1>2, <1>3, <1>6
<1>8. p * n + t \in 0 .. b
  BY <1>3, <1>5, <1>7
<1>9. QED BY <1>4, <1>8

(* A sector or a link that is added is one byte: it is written or not.      *)
LEMMA ExtendedWhole ==
  ASSUME NEW old \in EntryType, old.kind # "free", NEW new,
         \/ \E k \in Slot, s \in Sector : new = With(old, k, s)
         \/ \E j \in Entry : new = To(old, j)
  PROVE  Torn(old, new) = {}
<1> DEFINE listed(k) == [old EXCEPT !.sectors = [i \in Slot |-> IF i < k THEN new.sectors[i] ELSE @[i]]]
<1>1. /\ old.sectors \in [Slot -> Sector \cup {None}] /\ Slot \subseteq Nat /\ ListSectors \in Nat
      /\ Slot = 0 .. ListSectors - 1
  BY EntryParts, Constants DEF Slot
<1>2. /\ new.kind = old.kind /\ new.name = old.name /\ new.size = old.size
      /\ [new EXCEPT !.next = old.next] \in {old, new}
  BY DEF With, To, EntryType
<1>3. ASSUME NEW k \in Nat PROVE listed(k) = old \/ (listed(k) = new /\ new.next = old.next)
  <2>1. CASE \E j \in Entry : new = To(old, j)
    <3>1. new.sectors = old.sectors
      BY <2>1 DEF To, EntryType
    <3>2. [i \in Slot |-> IF i < k THEN new.sectors[i] ELSE old.sectors[i]] = old.sectors
      BY <1>1, <3>1
    <3>3. QED BY <3>2 DEF EntryType
  <2>2. ASSUME NEW l \in Slot, NEW s \in Sector, new = With(old, l, s)
        PROVE  listed(k) = old \/ (listed(k) = new /\ new.next = old.next)
    <3>1. /\ new.sectors = [old.sectors EXCEPT ![l] = s] /\ new.next = old.next
          /\ new = [old EXCEPT !.sectors = new.sectors]
      BY <1>1, <2>2 DEF With, EntryType
    <3>2. CASE l < k
      <4>1. [i \in Slot |-> IF i < k THEN new.sectors[i] ELSE old.sectors[i]] = new.sectors
        BY <1>1, <3>1, <3>2
      <4>2. QED BY <3>1, <4>1
    <3>3. CASE ~ (l < k)
      <4>1. [i \in Slot |-> IF i < k THEN new.sectors[i] ELSE old.sectors[i]] = old.sectors
        BY <1>1, <3>1, <3>3
      <4>2. QED BY <4>1 DEF EntryType
    <3>4. QED BY <3>2, <3>3
  <2>3. QED BY <2>1, <2>2
<1>4. \A k \in Nat : listed(k) \in {old, new}
  BY <1>3
<1> HIDE DEF listed
<1>5. PICK all : all = listed(ListSectors)
  OBVIOUS
<1>6. all \in {old, new} /\ all.name = old.name /\ all.size = old.size
  BY <1>1, <1>2, <1>4, <1>5
<1>7. [all EXCEPT !.name = new.name] = all /\ [[all EXCEPT !.name = new.name] EXCEPT !.size = old.size] = all
  <2>1. new \in [kind : {old.kind}, name : {old.name}, size : {old.size}, sectors : {new.sectors}, next : {new.next}]
    BY <1>1, <1>2 DEF With, To, EntryType
  <2>2. QED BY <1>2, <1>6, <2>1 DEF EntryType
<1>8. (old.size \div LowByte) * LowByte + (old.size % LowByte) = old.size
  <2>1. old.size \in Nat /\ LowByte \in Nat \ {0}
    <3>1. Sectors * SectorSize \in Nat
      BY Constants
    <3>2. QED BY <3>1, EntryParts, EepromFsAssumption
  <2>2. PICK a \in Nat, n \in Nat \ {0} : a = old.size /\ n = LowByte
    BY <2>1
  <2>3. (a \div n) * n + (a % n) = a
    OBVIOUS
  <2>4. QED BY <2>2, <2>3
<1>9. \A e \in {old, new} : Remnant(e) = e
  BY <1>2 DEF Remnant
<1>10. Torn(old, new) = {Remnant(e) : e \in {listed(k) : k \in 0 .. ListSectors}
                     \cup {[listed(ListSectors) EXCEPT !.name = IF new.name = old.name THEN new.name ELSE None]}
                     \cup {[[listed(ListSectors) EXCEPT !.name = new.name] EXCEPT !.size = z] :
                             z \in {old.size, (old.size \div LowByte) * LowByte + (new.size % LowByte), new.size}}
                     \cup {[new EXCEPT !.next = old.next]}} \ {old, new}
  BY DEF Torn, listed
<1>11. ASSUME NEW e \in {listed(k) : k \in 0 .. ListSectors}
                     \cup {[listed(ListSectors) EXCEPT !.name = IF new.name = old.name THEN new.name ELSE None]}
                     \cup {[[listed(ListSectors) EXCEPT !.name = new.name] EXCEPT !.size = z] :
                             z \in {old.size, (old.size \div LowByte) * LowByte + (new.size % LowByte), new.size}}
                     \cup {[new EXCEPT !.next = old.next]}
       PROVE  Remnant(e) \in {old, new}
  <2>1. \A k \in 0 .. ListSectors : listed(k) \in {old, new}
    BY <1>1, <1>4
  <2>2. [listed(ListSectors) EXCEPT !.name = IF new.name = old.name THEN new.name ELSE None] = all
    BY <1>2, <1>5, <1>7
  <2>3. {old.size, (old.size \div LowByte) * LowByte + (new.size % LowByte), new.size} = {old.size}
    BY <1>2, <1>8
  <2>4. \A z \in {old.size} : [[listed(ListSectors) EXCEPT !.name = new.name] EXCEPT !.size = z] = all
    BY <1>5, <1>7
  <2>5. e \in {old, new}
    BY ONLY <1>2, <1>6, <1>11, <2>1, <2>2, <2>3, <2>4
  <2>6. QED BY <1>9, <2>5
<1>12. QED BY <1>10, <1>11

LEMMA SizeBound ==
  ASSUME NEW d, NEW own, NEW pos, NEW f, NEW z \in Nat, Fits(d, own, pos, f, z)
  PROVE  z \in 0 .. Sectors * SectorSize
<1> DEFINE n == Cardinality(Own(d, own, f))
<1>1. n \in Nat /\ n <= Sectors
  BY Finite DEF Own
<1>2. z <= SectorSize * n
  BY DEF Fits
<1> HIDE DEF n
<1>3. SectorSize * n <= SectorSize * Sectors /\ SectorSize * Sectors = Sectors * SectorSize
  BY <1>1, Constants
<1>4. SectorSize * n \in Nat /\ Sectors * SectorSize \in Nat
  BY <1>1, Constants
<1>5. QED BY <1>2, <1>3, <1>4

(* Of a length the low byte may be written and the high byte not.           *)
LEMMA LengthHalf ==
  ASSUME NEW old \in EntryType, old.kind # "free", NEW b \in Nat, old.size <= b,
         NEW new, new = [old EXCEPT !.size = b], NEW t \in Torn(old, new)
  PROVE  \E z \in 0 .. b : t = [old EXCEPT !.size = z]
<1> DEFINE listed(k) == [old EXCEPT !.sectors = [i \in Slot |-> IF i < k THEN new.sectors[i] ELSE @[i]]]
           low == (old.size \div LowByte) * LowByte + (new.size % LowByte)
<1>1. /\ old.sectors \in [Slot -> Sector \cup {None}] /\ new.sectors = old.sectors /\ new.name = old.name
      /\ new.size = b /\ new.next = old.next /\ new.kind = old.kind
  BY DEF EntryType
<1>2. old.size \in 0 .. b
  <2>1. Sectors * SectorSize \in Nat
    BY Constants
  <2>2. QED BY <2>1, EntryParts
<1>3. low \in 0 .. b
  BY <1>1, <1>2, LowFirst
<1> HIDE DEF low
<1>4. \A k : listed(k) = old
  <2>1. \A k : [i \in Slot |-> IF i < k THEN new.sectors[i] ELSE old.sectors[i]] = old.sectors
    BY <1>1
  <2>2. QED BY <2>1 DEF EntryType
<1> HIDE DEF listed
<1>5. old = [old EXCEPT !.size = old.size] /\ old = [old EXCEPT !.name = new.name]
      /\ [new EXCEPT !.next = old.next] = new
  BY <1>1 DEF EntryType
<1>6. Torn(old, new) = {Remnant(e) : e \in {listed(k) : k \in 0 .. ListSectors}
                     \cup {[listed(ListSectors) EXCEPT !.name = IF new.name = old.name THEN new.name ELSE None]}
                     \cup {[[listed(ListSectors) EXCEPT !.name = new.name] EXCEPT !.size = z] :
                             z \in {old.size, low, new.size}}
                     \cup {[new EXCEPT !.next = old.next]}} \ {old, new}
  BY DEF Torn, listed, low
<1>7. PICK e \in {listed(k) : k \in 0 .. ListSectors}
                     \cup {[listed(ListSectors) EXCEPT !.name = IF new.name = old.name THEN new.name ELSE None]}
                     \cup {[[listed(ListSectors) EXCEPT !.name = new.name] EXCEPT !.size = z] :
                             z \in {old.size, low, new.size}}
                     \cup {[new EXCEPT !.next = old.next]} : t = Remnant(e)
  BY <1>6
<1>8. [listed(ListSectors) EXCEPT !.name = new.name] = old
  BY <1>4, <1>5
<1>9. e \in {old, new} \cup {[old EXCEPT !.size = z] : z \in {old.size, low, new.size}}
  <2>1. \A k \in 0 .. ListSectors : listed(k) = old
    BY <1>4
  <2>2. [listed(ListSectors) EXCEPT !.name = IF new.name = old.name THEN new.name ELSE None] = old
    BY <1>1, <1>8
  <2>3. QED BY ONLY <1>5, <1>7, <1>8, <2>1, <2>2
<1>10. PICK z \in 0 .. b : e = [old EXCEPT !.size = z]
  <2>1. b \in 0 .. b
    OBVIOUS
  <2>2. QED BY <1>1, <1>2, <1>3, <1>5, <1>9, <2>1
<1>11. e.kind = old.kind
  BY <1>10 DEF EntryType
<1>12. Remnant(e) = e
  BY <1>11 DEF Remnant
<1>13. QED BY <1>7, <1>10, <1>12

(* Where an entry is written that was there.                                *)
LEMMA WrittenAt ==
  ASSUME IInv, queue # <<>>, Head(queue).what = "entry"
  PROVE  Head(queue).at \in Entry /\ dir[Head(queue).at] \in EntryType
<1>1. dir \in [Entry -> EntryType] /\ \E d : Leads(dir, queue, d)
  BY DEF IInv
<1>2. Head(queue).at \in Entry
  BY <1>1 DEF Leads, WriteEntry, IsData
<1>3. QED BY <1>1, <1>2

(* What is left of the first write.                                         *)
LEMMA TearLeaves ==
  ASSUME IInv, TInv, ~ AnyTear, Tear
  PROVE  \/ dir' = dir /\ IsData(Head(queue))
         \/ \E c \in Channels : \E z \in 0 .. fh[c].size :
              Sizing(queue, c) /\ PutEntry(fh[c].entry, [dir[fh[c].entry] EXCEPT !.size = z])
<1>1. queue # <<>> /\ Ordered(queue) /\ Growing
  BY DEF TInv, Tear
<1>2. PICK w : w = Head(queue)
  OBVIOUS
<1>3. CASE IsData(w)
  BY <1>2, <1>3 DEF Tear, IsData, PutData
<1>4. ASSUME ~ IsData(w)
      PROVE  \E c \in Channels : \E z \in 0 .. fh[c].size :
               Sizing(queue, c) /\ PutEntry(fh[c].entry, [dir[fh[c].entry] EXCEPT !.size = z])
  <2>1. w.what = "entry" /\ Spares(dir[w.at], w.entry)
    BY <1>2, <1>4 DEF Tear, IsData
  <2>2. PICK t \in Torn(dir[w.at], w.entry) : PutEntry(w.at, t)
    BY <1>2, <1>4 DEF Tear, IsData
  <2>3. w.at \in Entry /\ dir[w.at] \in EntryType
    BY <1>1, <1>2, <2>1, WrittenAt
  <2>4. ~ Making(dir, w) /\ ~ Renaming(dir, w)
    BY <2>1 DEF Making, Renaming, Spares
  <2>5. ~ Extending(dir, w)
    <3> SUFFICES ASSUME Extending(dir, w) PROVE FALSE
      OBVIOUS
    <3>1. Torn(dir[w.at], w.entry) = {}
      BY <2>3, ExtendedWhole DEF Extending
    <3>2. QED BY <2>2, <3>1
  <2>6. PICK c \in Channels : Sizing(queue, c)
    BY <1>1, <1>2, <1>4, <2>4, <2>5 DEF Ordered
  <2>7. PICK i, b, old, new : i = fh[c].entry /\ b = fh[c].size /\ old = dir[i] /\ new = [old EXCEPT !.size = b]
    OBVIOUS
  <2>8. w = WriteEntry(i, new) /\ w.at = i /\ w.entry = new
    BY <1>2, <2>6, <2>7 DEF Sizing, WriteEntry
  <2>9. b \in Nat
    <3>1. fh \in [Channels -> HandleType]
      BY DEF IInv, Good, Handled
    <3>2. QED BY <2>7, <3>1 DEF HandleType
  <2>10. old.kind = "name" /\ old.size <= b
    BY <1>1, <2>6, <2>7 DEF Sizing, Growing
  <2>11. PICK z \in 0 .. b : t = [old EXCEPT !.size = z]
    BY <2>2, <2>3, <2>7, <2>8, <2>9, <2>10, LengthHalf
  <2>12. QED BY <2>2, <2>6, <2>7, <2>8, <2>11
<1>5. QED BY <1>2, <1>3, <1>4

(* The length is cut short: the file is that of the writer, but shorter.      *)
LEMMA LengthLeft ==
  ASSUME IInv, NEW c \in Channels, Sizing(queue, c), NEW z \in 0 .. fh[c].size,
         NEW i, i = fh[c].entry, NEW d2, d2 = Set(dir, i, [dir[i] EXCEPT !.size = z]),
         NEW d, NEW own, NEW rank, NEW pos, Leads(dir, queue, d), Good(d, own, rank, pos)
  PROVE  /\ Files(d2, own, rank, pos) /\ z \in Nat /\ z <= fh[c].size /\ fh[c].size \in Nat
         /\ i \in Entry /\ d2[i].size = z
         /\ \A x \in Entry : d2[x].kind = d[x].kind /\ d2[x].name = d[x].name /\ d2[x].sectors = d[x].sectors
<1>1. dir \in [Entry -> EntryType]
  BY DEF IInv
<1>2. Files(d, own, rank, pos) /\ fh \in [Channels -> HandleType] /\ Opened(d, own, pos, fh[c])
  BY DEF Good, Handled, Sizing
<1>3. PICK b : b = fh[c].size
  OBVIOUS
<1>4. i \in Entry /\ b \in Nat /\ z \in Nat /\ z <= b
  BY <1>2, <1>3 DEF HandleType
<1>5. PICK old, new : old = dir[i] /\ new = [old EXCEPT !.size = b]
  OBVIOUS
<1>6. queue = <<WriteEntry(i, new)>>
  BY <1>3, <1>5 DEF Sizing
<1>7. d = Set(dir, i, new)
  BY <1>6, LeadsOnly
<1>8. d[i] = new /\ d \in [Entry -> EntryType] /\ old \in EntryType /\ new.size = b
  <2>1. d \in [Entry -> EntryType] /\ old \in EntryType
    BY <1>1, <1>2, <1>4, <1>5, FilesTyped
  <2>2. d[i] = new
    BY <1>1, <1>4, <1>7 DEF Set
  <2>3. new.size = b
    BY <1>5, <2>1 DEF EntryType
  <2>4. QED BY <2>1, <2>2, <2>3
<1>9. i \in Live(d) /\ d[i].kind = "name"
  BY <1>2, <1>4 DEF Opened, Live, Sizing
<1>10. Fits(d, own, pos, i, b)
  BY <1>2, <1>8, <1>9 DEF Files, Sized
<1>11. Fits(d, own, pos, i, z)
  <2>1. \A l \in Live(d), n \in 0 .. ListSectors : pos[l] \in Nat /\ n \in Nat
    BY <1>2, FilesTyped, Constants
  <2>2. Cardinality(Own(d, own, i)) \in Nat
    BY Finite DEF Own
  <2>3. z <= SectorSize * Cardinality(Own(d, own, i))
    <3>1. SectorSize * Cardinality(Own(d, own, i)) \in Nat
      BY <2>2, Constants
    <3>2. QED BY <1>4, <1>10, <3>1 DEF Fits
  <2>4. ASSUME NEW l \in Live(d), own[l] = i, d[l].next = None, NEW n \in 0 .. ListSectors, Filled(d[l], n)
        PROVE  z <= SectorSize * (pos[l] + n)
    <3>1. b <= SectorSize * (pos[l] + n)
      BY <1>10, <2>4 DEF Fits
    <3>2. SectorSize * (pos[l] + n) \in Nat
      BY <2>1, Constants
    <3>3. QED BY <1>4, <3>1, <3>2
  <2>5. QED BY <2>3, <2>4 DEF Fits
<1>12. PICK e : e = [new EXCEPT !.size = z]
  OBVIOUS
<1>13. z \in 0 .. Sectors * SectorSize
  BY <1>4, <1>11, SizeBound
<1>14. /\ e \in EntryType /\ e.kind = "name" /\ e.name = d[i].name /\ e.sectors = d[i].sectors
       /\ e.next = d[i].next /\ e.size = z /\ e = [old EXCEPT !.size = z]
  BY <1>5, <1>8, <1>9, <1>12, <1>13 DEF EntryType
<1>15. d2 = Set(d, i, e)
  BY <1>1, <1>4, <1>5, <1>7, <1>14 DEF Set
<1>16. Files(d2, own, rank, pos)
  BY <1>2, <1>9, <1>11, <1>14, <1>15, Relabelled
<1>17. d2[i] = e /\ \A x \in Entry \ {i} : d2[x] = d[x]
  BY <1>4, <1>8, <1>15 DEF Set
<1>18. QED BY <1>3, <1>4, <1>9, <1>14, <1>16, <1>17

(* The directory found when the power is back.                              *)
LEMMA CutLeaves ==
  ASSUME IInv, TInv, ~ AnyCut, ~ AnyTear, PowerFails
  PROVE  dir' \in [Entry -> EntryType] /\ Sound(dir')
<1>1. Sound(dir) /\ dir \in [Entry -> EntryType]
  BY DEF IInv, PowerFails
<1>2. CASE dir' = dir
  BY <1>1, <1>2
<1>3. ASSUME NEW c \in Channels, NEW z \in 0 .. fh[c].size, Sizing(queue, c),
             PutEntry(fh[c].entry, [dir[fh[c].entry] EXCEPT !.size = z])
      PROVE  dir' \in [Entry -> EntryType] /\ Sound(dir')
  <2>1. PICK d, own, rank, pos : Leads(dir, queue, d) /\ Good(d, own, rank, pos)
    BY DEF IInv
  <2>2. PICK i, d2 : i = fh[c].entry /\ d2 = Set(dir, i, [dir[i] EXCEPT !.size = z])
    OBVIOUS
  <2>3. dir' = d2
    BY <1>3, <2>2 DEF PutEntry, Set
  <2>4. Files(d2, own, rank, pos)
    BY <1>3, <2>1, <2>2, LengthLeft
  <2>5. QED BY <2>3, <2>4, FilesTyped DEF Sound
<1>4. CASE Tear
  BY <1>2, <1>3, <1>4, TearLeaves
<1>5. QED BY <1>2, <1>4 DEF PowerFails, eeprom

LEMMA PowerFailsKeeps == ASSUME IInv, TInv, ~ AnyCut, ~ AnyTear, PowerFails PROVE IInv'
<1>1. Sound(dir') /\ dir' \in [Entry -> EntryType]
  BY CutLeaves
<1>2. PICK own, rank, pos : Files(dir', own, rank, pos)
  BY <1>1 DEF Sound
<1>3. /\ queue' = <<>> /\ busy' = None /\ fh' = [c \in Channels |-> NoHandle]
      /\ used_entries' = Live(dir') /\ used_sectors' = UsedOf(dir')
      /\ free_sectors' = Sectors - Cardinality(used_sectors')
  BY DEF PowerFails, MarkUsed, UsedOf
<1>4. Counted(used_sectors', free_sectors', used_entries', dir')
  <2>1. Live(dir') \subseteq Entry
    BY DEF Live
  <2>2. QED BY <1>3, <2>1 DEF Counted
<1>5. NoHandle \in HandleType /\ NoHandle.filemode = "closed"
  BY Constants DEF NoHandle, HandleType, Entry, Sector
<1>6. Handled(fh', dir', own, pos)
  BY <1>3, <1>5 DEF Handled
<1>7. PICK d : d = dir'
  OBVIOUS
<1>8. Good(d, own, rank, pos)'
  BY <1>2, <1>3, <1>4, <1>6, <1>7 DEF Good, Job
<1>9. Leads(dir, queue, d)'
  BY <1>3, <1>7 DEF Leads
<1>10. dir' \in [Entry -> EntryType] /\ Sound(dir)'
  BY <1>1 DEF Sound
<1>11. QED BY <1>8, <1>9, <1>10 DEF IInv
-----------------------------------------------------------------------------
(***************************************************************************)
(* Handles.                                                                *)
(***************************************************************************)
LEMMA Closed == NoHandle \in HandleType /\ NoHandle.filemode = "closed"
BY Constants DEF NoHandle, HandleType, Entry, Sector

(* One handle changes, and the entries of no other.                         *)
LEMMA OneHandled ==
  ASSUME NEW h, NEW d, NEW own, NEW rank, NEW pos, Files(d, own, rank, pos), Handled(h, d, own, pos),
         NEW d2, NEW own2, NEW pos2, NEW f, Untouched(d, own, pos, d2, own2, pos2, f),
         NEW c \in Channels, NEW g \in HandleType,
         NEW h2, h2 = Set(h, c, g),
         \A b \in Channels \ {c} : h[b].filemode # "closed" => h[b].entry # f,
         g.filemode # "closed" => Opened(d2, own2, pos2, g) /\ g.entry = f
  PROVE  Handled(h2, d2, own2, pos2)
<1>1. h \in [Channels -> HandleType] /\ Linked(d, own, rank, pos)
  BY DEF Handled, Files
<1>2. h2 \in [Channels -> HandleType] /\ h2[c] = g /\ \A b \in Channels \ {c} : h2[b] = h[b]
  BY <1>1 DEF Set
<1>3. ASSUME NEW b \in Channels, h2[b].filemode # "closed"
      PROVE  Opened(d2, own2, pos2, h2[b])
  <2>1. CASE b = c
    BY <1>2, <1>3, <2>1
  <2>2. CASE b # c
    <3>1. h2[b] = h[b] /\ h[b].entry \in Entry /\ h[b].entry # f /\ Opened(d, own, pos, h[b])
      BY <1>1, <1>2, <1>3, <2>2 DEF Handled, HandleType
    <3>2. QED BY <1>1, <3>1, SameOpened
  <2>3. QED BY <2>1, <2>2
<1>4. ASSUME NEW a \in Channels, NEW b \in Channels, a # b, h2[a].filemode # "closed",
             h2[b].filemode # "closed", h2[a].entry = h2[b].entry
      PROVE  h2[b].filemode = "read" /\ h2[a].filemode = "read"
  <2>1. CASE a = c \/ b = c
    BY <1>2, <1>4, <2>1
  <2>2. CASE a # c /\ b # c
    BY <1>2, <1>4, <2>2 DEF Handled
  <2>3. QED BY <2>1, <2>2
<1>5. QED BY <1>2, <1>3, <1>4 DEF Handled

(* The directory stays as it is.                                            *)
LEMMA SameUntouched ==
  ASSUME NEW d, NEW own, NEW pos, NEW f
  PROVE  Untouched(d, own, pos, d, own, pos, f)
BY DEF Untouched

(* A handle changes but keeps its mode, and what is open on its file.       *)
LEMMA SameFileHandled ==
  ASSUME NEW h, NEW d, NEW own, NEW pos, Handled(h, d, own, pos),
         NEW c \in Channels, NEW g \in HandleType, NEW h2, h2 = Set(h, c, g),
         g.filemode # "closed" =>
           /\ Opened(d, own, pos, g)
           /\ \A b \in Channels \ {c} : h[b].filemode # "closed" /\ h[b].entry = g.entry =>
                h[b].filemode = "read" /\ g.filemode = "read"
  PROVE  Handled(h2, d, own, pos)
<1>1. h \in [Channels -> HandleType]
  BY DEF Handled
<1>2. h2 \in [Channels -> HandleType] /\ h2[c] = g /\ \A b \in Channels \ {c} : h2[b] = h[b]
  BY <1>1 DEF Set
<1>3. ASSUME NEW b \in Channels, h2[b].filemode # "closed"
      PROVE  Opened(d, own, pos, h2[b])
  BY <1>2, <1>3 DEF Handled
<1>4. ASSUME NEW a \in Channels, NEW b \in Channels, a # b, h2[a].filemode # "closed",
             h2[b].filemode # "closed", h2[a].entry = h2[b].entry
      PROVE  h2[b].filemode = "read" /\ h2[a].filemode = "read"
  <2>1. CASE a = c \/ b = c
    BY <1>2, <1>4, <2>1
  <2>2. CASE a # c /\ b # c
    BY <1>2, <1>4, <2>2 DEF Handled
  <2>3. QED BY <2>1, <2>2
<1>5. QED BY <1>2, <1>3, <1>4 DEF Handled
-----------------------------------------------------------------------------
(***************************************************************************)
(* Opening and closing.                                                    *)
(***************************************************************************)
LEMMA NewHandle ==
  ASSUME NEW e \in Entry,
         NEW g, g = [NoHandle EXCEPT !.filemode = "write", !.entry = e, !.cur_entry = e, !.cur_sindex = -1]
  PROVE  /\ g \in HandleType /\ g.filemode = "write" /\ g.entry = e /\ g.cur_entry = e
         /\ g.cur_sindex = -1 /\ g.size = 0 /\ g.cur_soffset = 0 /\ g.cur_sector = 0
<1>1. -1 \in -1 .. ListSectors - 1
  BY Constants
<1>2. g \in HandleType
  BY <1>1, Closed DEF HandleType
<1>3. /\ g.filemode = "write" /\ g.entry = e /\ g.cur_entry = e
      /\ g.cur_sindex = -1 /\ g.size = 0 /\ g.cur_soffset = 0 /\ g.cur_sector = 0
  BY DEF NoHandle
<1>4. QED BY <1>2, <1>3

LEMMA OpenWriteKeeps ==
  ASSUME NEW own, NEW rank, NEW pos, Good(dir, own, rank, pos), queue = <<>>,
         NEW c \in Channels, NEW n \in Names, OpenWrite(c, n)
  PROVE  IInv'
<1> DEFINE e == next_free_entry(0)
           d == Set(dir, e, NewFile(n))
           own2 == Set(own, e, e)
           rank2 == Set(rank, e, 0)
           pos2 == Set(pos, e, 0)
           g == [NoHandle EXCEPT !.filemode = "write", !.entry = e, !.cur_entry = e, !.cur_sindex = -1]
<1>1. /\ Files(dir, own, rank, pos) /\ Counted(used_sectors, free_sectors, used_entries, dir) /\ Handled(fh, dir, own, pos)
  BY DEF Good
<1>2. /\ busy = None /\ e # None
      /\ used_entries' = used_entries \cup {e}
      /\ fh' = [fh EXCEPT ![c] = g]
      /\ queue' = <<WriteEntry(e, NewFile(n))>>
      /\ dir' = dir /\ used_sectors' = used_sectors /\ free_sectors' = free_sectors /\ busy' = busy
  BY DEF OpenWrite, Opens, Ready, eeprom
<1>3. e \in Entry /\ e \notin used_entries
  BY <1>2, FreeEntry
<1>4. /\ g \in HandleType /\ g.filemode = "write" /\ g.entry = e /\ g.cur_entry = e
      /\ g.cur_sindex = -1 /\ g.size = 0 /\ g.cur_soffset = 0 /\ g.cur_sector = 0
  BY <1>3, NewHandle
<1> HIDE DEF e, g
<1>5. e \notin Live(dir)
  BY <1>1, <1>3 DEF Counted
<1> HIDE DEF d, own2, rank2, pos2
<1>6. /\ Files(d, own2, rank2, pos2)
      /\ Live(d) = Live(dir) \cup {e} /\ UsedOf(d) = UsedOf(dir)
      /\ Untouched(dir, own, pos, d, own2, pos2, e)
      /\ Fits(d, own2, pos2, e, 0)
      /\ own2[e] = e /\ pos2[e] = 0 /\ d[e] = NewFile(n)
  BY <1>1, <1>3, <1>5, FileAdded DEF d, own2, rank2, pos2
<1>7. Counted(used_sectors', free_sectors', used_entries', d)
  BY <1>1, <1>2, <1>3, <1>6 DEF Counted
<1>8. Opened(d, own2, pos2, g)
  <2>1. NewFile(n).kind = "name" /\ NewFile(n).next = None /\ Filled(NewFile(n), 0)
    BY NewEntries
  <2>2. WritesAt(d, own2, pos2, g)
    <3>1. g.cur_sector # None /\ 0 \in 0 .. g.size /\ g.size = SectorSize * 0 + g.cur_soffset
      BY <1>4, Constants
    <3>2. QED BY <1>4, <1>6, <2>1, <3>1 DEF WritesAt
  <2>3. QED BY <1>4, <1>6, <2>1, <2>2 DEF Opened
<1>9. \A b \in Channels \ {c} : fh[b].filemode # "closed" => fh[b].entry # e
  <2>1. \A b \in Channels : fh[b].filemode # "closed" => fh[b].entry \in Live(dir)
    <3>1. \A b \in Channels : fh[b].filemode # "closed" =>
            fh[b].entry \in Entry /\ dir[fh[b].entry].kind = "name"
      BY <1>1 DEF Handled, Opened, HandleType
    <3>2. QED BY <3>1 DEF Live
  <2>2. QED BY <2>1, <1>5
<1>10. Handled(fh', d, own2, pos2)
  <2>1. fh' = Set(fh, c, g)
    BY <1>2 DEF Set
  <2>2. QED BY <1>1, <1>4, <1>6, <1>8, <1>9, <2>1, OneHandled
<1>11. Leads(dir, queue', d)
  <2>1. NewFile(n) \in EntryType
    BY NewEntries
  <2>2. QED BY <1>2, <1>3, <2>1 DEF Leads, d
<1>12. Job(fh', busy', d, rank2)
  BY <1>2 DEF Job
<1>13. QED BY <1>1, <1>2, <1>6, <1>7, <1>10, <1>11, <1>12, GoesOn

LEMMA Offset ==
  ASSUME NEW z \in Nat
  PROVE  /\ z % SectorSize \in 0 .. SectorSize - 1
         /\ \E q \in 0 .. z : z = SectorSize * q + (z % SectorSize)
<1>1. z % SectorSize \in 0 .. SectorSize - 1 /\ z = SectorSize * (z \div SectorSize) + (z % SectorSize)
  BY Constants
<1>2. z \div SectorSize \in 0 .. z
  BY Constants
<1>3. QED BY <1>1, <1>2

AppendAt(e, last, z, s) ==
  [NoHandle EXCEPT !.filemode = "write", !.entry = e, !.size = z, !.cur_offset = z,
     !.cur_sector = s, !.cur_soffset = z % SectorSize, !.cur_entry = last]

LEMMA AppendHandle ==
  ASSUME NEW e \in Entry, NEW last \in Entry, NEW z \in Nat, NEW s \in Sector,
         NEW g, g = AppendAt(e, last, z, s)
  PROVE  /\ g \in HandleType /\ g.filemode = "write" /\ g.entry = e /\ g.size = z
         /\ g.cur_sector = s /\ g.cur_soffset = z % SectorSize /\ g.cur_entry = last /\ g.cur_sindex = 0
<1>1. z % SectorSize \in 0 .. SectorSize - 1
  BY Offset
<1> DEFINE o == z % SectorSize
<1> HIDE DEF o
<1>2. g = [NoHandle EXCEPT !.filemode = "write", !.entry = e, !.size = z, !.cur_offset = z,
             !.cur_sector = s, !.cur_soffset = o, !.cur_entry = last]
  BY DEF o, AppendAt
<1>3. o \in 0 .. SectorSize - 1
  BY <1>1 DEF o
<1>4. g \in HandleType
  BY <1>2, <1>3, Closed DEF HandleType
<1>5. /\ g.filemode = "write" /\ g.entry = e /\ g.size = z
      /\ g.cur_sector = s /\ g.cur_soffset = o /\ g.cur_entry = last /\ g.cur_sindex = 0
  BY <1>2 DEF NoHandle
<1>6. QED BY <1>4, <1>5 DEF o

LEMMA OpenAppendKeeps ==
  ASSUME NEW own, NEW rank, NEW pos, Good(dir, own, rank, pos), queue = <<>>, ~ AnyAppend,
         NEW c \in Channels, NEW n \in Names, OpenAppend(c, n)
  PROVE  IInv'
<1> DEFINE e == find_entry(dir, n)
           last == LastEntry(e)
           full == Contiguous(dir[last])
           at == IF full = {} THEN 0 ELSE Cardinality(full) - 1
           g == [NoHandle EXCEPT !.filemode = "write", !.entry = e, !.size = dir[e].size,
                   !.cur_offset = dir[e].size, !.cur_sector = dir[last].sectors[at],
                   !.cur_soffset = dir[e].size % SectorSize, !.cur_entry = last]
<1>1. /\ Files(dir, own, rank, pos) /\ Counted(used_sectors, free_sectors, used_entries, dir) /\ Handled(fh, dir, own, pos)
  BY DEF Good
<1>2. /\ busy = None /\ e # None /\ OneSectorLast(e)
      /\ fh' = [fh EXCEPT ![c] = g]
      /\ used_entries' = used_entries /\ used_sectors' = used_sectors /\ free_sectors' = free_sectors
      /\ dir' = dir /\ busy' = busy /\ queue' = queue
  BY DEF OpenAppend, Opens, Ready, eeprom, ram
<1>3. \A b \in Channels : fh[b].filemode # "closed" => fh[b].entry # e
  BY DEF OpenAppend, Opens
<1>4. e \in Live(dir) /\ dir[e].kind = "name" /\ e \in Entry
  BY <1>2, FoundEntry DEF Live
<1> HIDE DEF e
<1>5. last \in Live(dir) /\ own[last] = e /\ dir[last].next = None /\ last \in Entry
  BY <1>1, <1>4, LastOfFile DEF Live
<1>6. Listed(dir[last]) = {0} /\ Filled(dir[last], 1)
  <2>1. Listed(dir[last]) = {0}
    BY <1>2 DEF OneSectorLast
  <2>2. QED BY <2>1, Constants DEF Filled
<1> HIDE DEF last
<1>7. at = 0
  <2>1. full = {0}
    BY <1>6 DEF Contiguous
  <2> HIDE DEF full
  <2>2. Cardinality(full) = 1
    BY <2>1, FS_Singleton
  <2>3. QED BY <2>1, <2>2
<1>8. dir[last].sectors[0] \in Sector
  <2>1. dir[last] \in EntryType
    BY <1>1, <1>5, FilesTyped
  <2>2. dir[last].sectors[0] # None
    BY <1>6 DEF Listed
  <2>3. 0 \in Slot
    BY Constants DEF Slot
  <2>4. QED BY <2>1, <2>2, <2>3, EntryParts
<1>9. dir[e].size \in Nat /\ Fits(dir, own, pos, e, dir[e].size)
  <2>1. dir[e] \in EntryType
    BY <1>1, <1>4, FilesTyped
  <2>2. dir[e].size \in 0 .. Sectors * SectorSize /\ Sectors * SectorSize \in Nat
    BY <2>1, EntryParts, Constants
  <2>3. Fits(dir, own, pos, e, dir[e].size)
    BY <1>1, <1>4, FilesTyped DEF Sized
  <2>4. QED BY <2>2, <2>3
<1>10. g = [NoHandle EXCEPT !.filemode = "write", !.entry = e, !.size = dir[e].size,
              !.cur_offset = dir[e].size, !.cur_sector = dir[last].sectors[0],
              !.cur_soffset = dir[e].size % SectorSize, !.cur_entry = last]
  BY <1>7
<1> HIDE DEF g
<1>11. /\ g \in HandleType /\ g.filemode = "write" /\ g.entry = e /\ g.size = dir[e].size
       /\ g.cur_sector = dir[last].sectors[0] /\ g.cur_soffset = dir[e].size % SectorSize
       /\ g.cur_entry = last /\ g.cur_sindex = 0
  <2> DEFINE z == dir[e].size
             s == dir[last].sectors[0]
  <2>1. z \in Nat /\ s \in Sector
    BY <1>8, <1>9
  <2>2. g = AppendAt(e, last, z, s)
    BY <1>10 DEF AppendAt
  <2> HIDE DEF z, s
  <2>3. /\ g \in HandleType /\ g.filemode = "write" /\ g.entry = e /\ g.size = z
        /\ g.cur_sector = s /\ g.cur_soffset = z % SectorSize /\ g.cur_entry = last /\ g.cur_sindex = 0
    BY <1>4, <1>5, <2>1, <2>2, AppendHandle
  <2>4. QED BY <2>3 DEF z, s
<1>12. Opened(dir, own, pos, g)
  <2>1. g.cur_sector # None
    BY <1>8, <1>11, Constants DEF Sector
  <2>2. \E q \in 0 .. g.size : g.size = SectorSize * q + g.cur_soffset
    BY <1>9, <1>11, Offset
  <2>3. WritesAt(dir, own, pos, g)
    BY <1>5, <1>6, <1>9, <1>11, <2>1, <2>2 DEF WritesAt
  <2>4. QED BY <1>4, <1>5, <1>11, <2>3 DEF Opened
<1>13. Handled(fh', dir, own, pos)
  <2>1. fh' = Set(fh, c, g)
    BY <1>2 DEF Set
  <2>2. QED BY <1>1, <1>3, <1>11, <1>12, <2>1, SameFileHandled
<1>14. Leads(dir, queue', dir)
  BY <1>2 DEF Leads
<1>15. Job(fh', busy', dir, rank)
  BY <1>2 DEF Job
<1>16. Counted(used_sectors', free_sectors', used_entries', dir)
  BY <1>1, <1>2
<1>17. QED BY <1>1, <1>2, <1>13, <1>14, <1>15, <1>16, GoesOn

ReadFrom(e, z, s) ==
  [NoHandle EXCEPT !.filemode = "read", !.entry = e, !.size = z, !.cur_sector = s, !.cur_entry = e]

LEMMA ReadHandle ==
  ASSUME NEW e \in Entry, NEW z \in Nat, NEW s \in Sector \cup {None},
         NEW g, g = ReadFrom(e, z, s)
  PROVE  /\ g \in HandleType /\ g.filemode = "read" /\ g.entry = e /\ g.size = z /\ g.cur_offset = 0
         /\ g.cur_sector = s /\ g.cur_soffset = 0 /\ g.cur_entry = e /\ g.cur_sindex = 0
<1>1. g \in HandleType
  BY Closed DEF HandleType, ReadFrom
<1>2. /\ g.filemode = "read" /\ g.entry = e /\ g.size = z /\ g.cur_offset = 0
      /\ g.cur_sector = s /\ g.cur_soffset = 0 /\ g.cur_entry = e /\ g.cur_sindex = 0
  BY DEF NoHandle, ReadFrom
<1>3. QED BY <1>1, <1>2

(* A read asks for no more than is left of the file.                        *)
LEMMA ReadsLeft ==
  ASSUME NEW h, h \in [Channels -> HandleType], NEW c \in Channels, h[c].filemode = "read",
         h[c].cur_offset <= h[c].size
  PROVE  Reading(h, Reads(c, h[c]))
<1> DEFINE left == Min(Block, h[c].size - h[c].cur_offset)
<1>1. left \in Nat /\ left <= h[c].size - h[c].cur_offset
  <2>1. h[c].size \in Nat /\ h[c].cur_offset \in Nat
    BY DEF HandleType
  <2>2. QED BY <2>1, Constants DEF Min
<1>2. Reads(c, h[c]) = [op |-> "read", c |-> c, left |-> left]
  BY DEF Reads
<1> HIDE DEF left
<1>3. QED BY <1>1, <1>2 DEF Reading

LEMMA OpenReadKeeps ==
  ASSUME NEW own, NEW rank, NEW pos, Good(dir, own, rank, pos), queue = <<>>,
         NEW c \in Channels, NEW n \in Names, OpenRead(c, n)
  PROVE  IInv'
<1> DEFINE e == find_entry(dir, n)
           z == dir[e].size
           s == dir[e].sectors[0]
           g == ReadFrom(e, z, s)
<1>1. /\ Files(dir, own, rank, pos) /\ Counted(used_sectors, free_sectors, used_entries, dir) /\ Handled(fh, dir, own, pos)
  BY DEF Good
<1>2. /\ e # None /\ fh' = [fh EXCEPT ![c] = g] /\ busy' = Reads(c, g)
      /\ used_entries' = used_entries /\ used_sectors' = used_sectors /\ free_sectors' = free_sectors
      /\ dir' = dir /\ queue' = queue
  BY DEF OpenRead, eeprom, ram, ReadFrom
<1>3. \A b \in Channels : fh[b].filemode # "closed" /\ fh[b].entry = e => fh[b].filemode = "read"
  BY DEF OpenRead, Opens
<1>4. e \in Live(dir) /\ dir[e].kind = "name" /\ e \in Entry
  BY <1>2, FoundEntry DEF Live
<1> HIDE DEF e
<1>5. z \in Nat /\ s \in Sector \cup {None}
  <2>1. dir[e] \in EntryType
    BY <1>1, <1>4, FilesTyped
  <2>2. z \in 0 .. Sectors * SectorSize /\ Sectors * SectorSize \in Nat
    BY <2>1, EntryParts, Constants
  <2>3. 0 \in Slot
    BY Constants DEF Slot
  <2>4. QED BY <2>1, <2>2, <2>3, EntryParts
<1> HIDE DEF z, s, g
<1>6. /\ g \in HandleType /\ g.filemode = "read" /\ g.entry = e /\ g.size = z /\ g.cur_offset = 0
      /\ g.cur_sector = s /\ g.cur_soffset = 0 /\ g.cur_entry = e /\ g.cur_sindex = 0
  <2>1. g = ReadFrom(e, z, s)
    BY DEF g
  <2>2. QED BY <1>4, <1>5, <2>1, ReadHandle
<1>7. own[e] = e /\ pos[e] = 0
  BY <1>1, <1>4, RootOfFile, FilesTyped
<1>8. ReadsAt(dir, pos, g)
  <2>1. g.size = dir[g.entry].size /\ g.cur_sector = dir[g.cur_entry].sectors[g.cur_sindex]
    BY <1>6 DEF z, s
  <2>2. g.cur_sindex \in 0 .. curentry_max_sectors(dir[g.cur_entry]) - 1
    BY <1>6, MaxSectors, Constants
  <2>3. g.cur_offset = SectorSize * (pos[g.cur_entry] + g.cur_sindex) + g.cur_soffset
    BY <1>6, <1>7, Constants
  <2>4. g.cur_offset <= g.size
    BY <1>5, <1>6
  <2>5. QED BY <2>1, <2>2, <2>3, <2>4 DEF ReadsAt
<1>9. Opened(dir, own, pos, g)
  BY <1>4, <1>6, <1>7, <1>8 DEF Opened
<1>10. fh' = Set(fh, c, g)
  BY <1>2 DEF Set
<1>11. Handled(fh', dir, own, pos)
  BY <1>1, <1>3, <1>6, <1>9, <1>10, SameFileHandled
<1>12. Leads(dir, queue', dir)
  BY <1>2 DEF Leads
<1>13. Job(fh', busy', dir, rank)
  <2>1. fh'[c] = g /\ fh' \in [Channels -> HandleType]
    BY <1>1, <1>2, <1>11 DEF Handled
  <2>2. Reading(fh', Reads(c, fh'[c]))
    BY <1>5, <1>6, <2>1, ReadsLeft
  <2>3. QED BY <1>2, <2>1, <2>2 DEF Job
<1>14. Counted(used_sectors', free_sectors', used_entries', dir)
  BY <1>1, <1>2
<1>15. QED BY <1>1, <1>2, <1>11, <1>12, <1>13, <1>14, GoesOn

(* Steps that write nothing and leave the handles as they are.              *)
LEMMA StaysHandled ==
  ASSUME NEW own, NEW rank, NEW pos, Good(dir, own, rank, pos), queue = <<>>,
         UNCHANGED <<eeprom, ram, fh, queue>>, Job(fh, busy', dir, rank)
  PROVE  IInv'
<1>1. /\ Files(dir, own, rank, pos) /\ Counted(used_sectors, free_sectors, used_entries, dir) /\ Handled(fh, dir, own, pos)
  BY DEF Good
<1>2. /\ used_entries' = used_entries /\ used_sectors' = used_sectors /\ free_sectors' = free_sectors
      /\ dir' = dir /\ queue' = queue /\ fh' = fh
  BY DEF eeprom, ram
<1>3. Leads(dir, queue', dir)
  BY <1>2 DEF Leads
<1>4. /\ Counted(used_sectors', free_sectors', used_entries', dir) /\ Handled(fh', dir, own, pos)
      /\ Job(fh', busy', dir, rank)
  BY <1>1, <1>2
<1>5. QED BY <1>1, <1>2, <1>3, <1>4, GoesOn

LEMMA ReadKeeps ==
  ASSUME NEW own, NEW rank, NEW pos, Good(dir, own, rank, pos), queue = <<>>,
         NEW c \in Channels, Read(c)
  PROVE  IInv'
<1>1. fh \in [Channels -> HandleType]
  BY DEF Good, Handled
<1>2. fh[c].filemode = "read" /\ fh[c].cur_offset <= fh[c].size /\ busy' = Reads(c, fh[c])
  BY <1>1 DEF Read, HandleType
<1>3. Job(fh, busy', dir, rank)
  BY <1>1, <1>2, ReadsLeft DEF Job
<1>4. UNCHANGED <<eeprom, ram, fh, queue>>
  BY DEF Read
<1>5. QED BY <1>3, <1>4, StaysHandled

LEMMA WriteKeeps ==
  ASSUME NEW own, NEW rank, NEW pos, Good(dir, own, rank, pos), queue = <<>>,
         NEW c \in Channels, NEW n \in Nat, NEW closing \in BOOLEAN, Write(c, n, closing)
  PROVE  IInv'
<1>1. fh[c].filemode = "write" /\ busy' = [op |-> "write", c |-> c, left |-> n, closing |-> closing]
  BY DEF Write
<1>2. Job(fh, busy', dir, rank)
  BY <1>1 DEF Job, Writing
<1>3. UNCHANGED <<eeprom, ram, fh, queue>>
  BY DEF Write
<1>4. QED BY <1>2, <1>3, StaysHandled

LEMMA ReadDoneKeeps ==
  ASSUME NEW own, NEW rank, NEW pos, Good(dir, own, rank, pos), queue = <<>>, ReadDone
  PROVE  IInv'
<1>1. Job(fh, busy', dir, rank)
  BY DEF Job, ReadDone
<1>2. UNCHANGED <<eeprom, ram, fh, queue>>
  BY DEF ReadDone
<1>3. QED BY <1>1, <1>2, StaysHandled

LEMMA DeleteKeeps ==
  ASSUME NEW own, NEW rank, NEW pos, Good(dir, own, rank, pos), queue = <<>>,
         NEW n \in Names, Delete(n)
  PROVE  IInv'
<1> DEFINE e == find_entry(dir, n)
<1>1. e # None /\ Idle(e) /\ busy' = [op |-> "delete", at |-> e]
  BY DEF Delete
<1>2. e \in Live(dir) /\ dir[e].kind = "name"
  BY <1>1, FoundEntry
<1> HIDE DEF e
<1>3. rank[e] = 0
  BY <1>2, RootOfFile, FilesTyped DEF Good
<1>4. Deleting(fh, busy', dir, rank)
  BY <1>1, <1>2, <1>3 DEF Deleting, Idle
<1>5. Job(fh, busy', dir, rank)
  BY <1>4 DEF Job
<1>6. UNCHANGED <<eeprom, ram, fh, queue>>
  BY DEF Delete
<1>7. QED BY <1>5, <1>6, StaysHandled

(* A handle is closed.                                                      *)
LEMMA ClosesHandle ==
  ASSUME NEW own, NEW rank, NEW pos, Good(dir, own, rank, pos), queue = <<>>,
         NEW c \in Channels, fh' = [fh EXCEPT ![c] = NoHandle],
         UNCHANGED <<eeprom, ram, queue>>, busy' = None
  PROVE  IInv'
<1>1. /\ Files(dir, own, rank, pos) /\ Counted(used_sectors, free_sectors, used_entries, dir) /\ Handled(fh, dir, own, pos)
  BY DEF Good
<1>2. /\ used_entries' = used_entries /\ used_sectors' = used_sectors /\ free_sectors' = free_sectors
      /\ dir' = dir /\ queue' = queue
  BY DEF eeprom, ram
<1>3. fh' = Set(fh, c, NoHandle)
  BY DEF Set
<1>4. Handled(fh', dir, own, pos)
  BY <1>1, <1>3, Closed, SameFileHandled
<1>5. Leads(dir, queue', dir)
  BY <1>2 DEF Leads
<1>6. Job(fh', busy', dir, rank) /\ Counted(used_sectors', free_sectors', used_entries', dir)
  BY <1>1, <1>2 DEF Job
<1>7. QED BY <1>1, <1>2, <1>4, <1>5, <1>6, GoesOn

LEMMA CloseReadKeeps ==
  ASSUME NEW own, NEW rank, NEW pos, Good(dir, own, rank, pos), queue = <<>>,
         NEW c \in Channels, CloseRead(c)
  PROVE  IInv'
<1>1. busy' = None /\ fh' = [fh EXCEPT ![c] = NoHandle] /\ UNCHANGED <<eeprom, ram, queue>>
  BY DEF CloseRead, Ready
<1>2. QED BY <1>1, ClosesHandle

LEMMA CloseDoneKeeps ==
  ASSUME NEW own, NEW rank, NEW pos, Good(dir, own, rank, pos), queue = <<>>, CloseDone
  PROVE  IInv'
<1>1. busy.op = "close"
  BY DEF CloseDone, Running
<1>2. PICK c \in Channels : busy = [op |-> "close", c |-> c]
  <2>1. Job(fh, busy, dir, rank) /\ busy # None
    BY DEF Good, CloseDone, Running
  <2>2. ~ Reading(fh, busy) /\ ~ Writing(fh, busy) /\ ~ Deleting(fh, busy, dir, rank)
    BY <1>1 DEF Reading, Writing, Deleting
  <2>3. Closing(busy)
    BY <2>1, <2>2 DEF Job
  <2>4. QED BY <2>3 DEF Closing
<1>3. busy.c = c
  BY <1>2
<1>4. busy' = None /\ fh' = [fh EXCEPT ![c] = NoHandle] /\ UNCHANGED <<eeprom, ram, queue>>
  BY <1>3 DEF CloseDone
<1>5. QED BY <1>4, ClosesHandle
-----------------------------------------------------------------------------
(***************************************************************************)
(* Reading.                                                                *)
(***************************************************************************)
LEMMA IsReading ==
  ASSUME NEW own, NEW rank, NEW pos, Good(dir, own, rank, pos), Running("read")
  PROVE  /\ busy.c \in Channels /\ busy.left \in Nat
         /\ busy = [op |-> "read", c |-> busy.c, left |-> busy.left]
         /\ fh[busy.c].filemode = "read" /\ busy.left <= fh[busy.c].size - fh[busy.c].cur_offset
         /\ Opened(dir, own, pos, fh[busy.c]) /\ fh[busy.c] \in HandleType
<1>1. Job(fh, busy, dir, rank) /\ busy # None /\ busy.op = "read"
  BY DEF Good, Running
<1>2. ~ Closing(busy) /\ ~ Writing(fh, busy) /\ ~ Deleting(fh, busy, dir, rank)
  BY <1>1 DEF Closing, Writing, Deleting
<1>3. Reading(fh, busy)
  BY <1>1, <1>2 DEF Job
<1>4. PICK c \in Channels, n \in Nat :
        /\ busy = [op |-> "read", c |-> c, left |-> n]
        /\ fh[c].filemode = "read" /\ n <= fh[c].size - fh[c].cur_offset
  BY <1>3 DEF Reading
<1>5. busy.c = c /\ busy.left = n
  BY <1>4
<1>6. Opened(dir, own, pos, fh[c]) /\ fh[c] \in HandleType
  BY <1>4 DEF Good, Handled
<1>7. QED BY <1>4, <1>5, <1>6

(* The place behind n bytes more.                                           *)
LEMMA Behind ==
  ASSUME NEW o \in 0 .. SectorSize - 1, NEW n \in 1 .. SectorSize - o
  PROVE  /\ o + n < SectorSize => (o + n) % SectorSize = o + n
         /\ o + n = SectorSize => (o + n) % SectorSize = 0
         /\ (o + n) % SectorSize \in 0 .. SectorSize - 1
BY Constants

LEMMA Advances ==
  ASSUME NEW h \in HandleType, NEW n \in 1 .. SectorSize - h.cur_soffset,
         NEW g, g = Advanced(h, n)
  PROVE  /\ g \in HandleType /\ g.filemode = h.filemode /\ g.entry = h.entry /\ g.size = h.size
         /\ g.cur_offset = h.cur_offset + n /\ g.cur_soffset = (h.cur_soffset + n) % SectorSize
         /\ g.cur_sector = h.cur_sector /\ g.cur_entry = h.cur_entry /\ g.cur_sindex = h.cur_sindex
<1> DEFINE o == (h.cur_soffset + n) % SectorSize
           p == h.cur_offset + n
<1>1. h.cur_soffset \in 0 .. SectorSize - 1 /\ h.cur_offset \in Nat
  BY DEF HandleType
<1>2. o \in 0 .. SectorSize - 1 /\ p \in Nat
  <2>1. o \in 0 .. SectorSize - 1
    BY <1>1, Behind
  <2>2. n \in Nat
    BY <1>1, Constants
  <2>3. QED BY <1>1, <2>1, <2>2
<1>3. g = [h EXCEPT !.cur_offset = p, !.cur_soffset = o]
  BY DEF Advanced
<1> HIDE DEF o, p
<1>4. /\ g.filemode = h.filemode /\ g.entry = h.entry /\ g.size = h.size
      /\ g.cur_offset = p /\ g.cur_soffset = o
      /\ g.cur_sector = h.cur_sector /\ g.cur_entry = h.cur_entry /\ g.cur_sindex = h.cur_sindex
  BY <1>3 DEF HandleType
<1>5. g \in HandleType
  BY <1>2, <1>3 DEF HandleType
<1>6. QED BY <1>4, <1>5 DEF o, p

At(h, i, k, s) == [h EXCEPT !.cur_sindex = k, !.cur_entry = i, !.cur_sector = s]

LEMMA Goes ==
  ASSUME NEW h \in HandleType, NEW i \in Entry, NEW k \in 0 .. ListSectors - 1,
         NEW s \in Sector \cup {None}, NEW g, g = At(h, i, k, s)
  PROVE  /\ g \in HandleType /\ g.filemode = h.filemode /\ g.entry = h.entry /\ g.size = h.size
         /\ g.cur_offset = h.cur_offset /\ g.cur_soffset = h.cur_soffset
         /\ g.cur_sector = s /\ g.cur_entry = i /\ g.cur_sindex = k
<1>1. g \in HandleType
  <2>1. k \in -1 .. ListSectors - 1
    BY Constants
  <2>2. QED BY <2>1 DEF At, HandleType
<1>2. /\ g.filemode = h.filemode /\ g.entry = h.entry /\ g.size = h.size
      /\ g.cur_offset = h.cur_offset /\ g.cur_soffset = h.cur_soffset
      /\ g.cur_sector = s /\ g.cur_entry = i /\ g.cur_sindex = k
  BY DEF At, HandleType
<1>3. QED BY <1>1, <1>2

(* The next sector of the entry, or the first of the next entry.            *)
LEMMA NextIsThere ==
  ASSUME NEW own, NEW rank, NEW pos, Files(dir, own, rank, pos),
         NEW a \in HandleType, a.filemode = "read", a.cur_soffset = 0, a.cur_offset < a.size,
         dir[a.entry].kind = "name", a.entry \in Entry, a.size = dir[a.entry].size,
         a.cur_entry \in Live(dir), own[a.cur_entry] = a.entry,
         a.cur_sindex \in 0 .. curentry_max_sectors(dir[a.cur_entry]) - 1,
         a.cur_offset = SectorSize * (pos[a.cur_entry] + a.cur_sindex + 1),
         NEW g, g = NextSector(a)
  PROVE  g \in HandleType /\ g.filemode = a.filemode /\ g.entry = a.entry
         /\ g.size = a.size /\ g.cur_offset = a.cur_offset /\ Opened(dir, own, pos, g)
<1> DEFINE i == a.cur_entry
           k == a.cur_sindex
           max == curentry_max_sectors(dir[i])
           next == dir[i].next
<1>1. /\ Neat(dir) /\ Linked(dir, own, rank, pos) /\ Sized(dir, own, pos) /\ pos \in [Entry -> Nat]
      /\ dir \in [Entry -> EntryType] /\ i \in Entry /\ Live(dir) \subseteq Entry
  BY FilesTyped DEF HandleType
<1>2. max \in 1 .. ListSectors /\ 0 .. max - 1 \subseteq Slot
  BY MaxSectors
<1>3. /\ k \in 0 .. max - 1 /\ i \in Live(dir) /\ own[i] = a.entry
      /\ a.cur_offset = SectorSize * (pos[i] + k + 1) /\ a.cur_offset \in Nat /\ a.size \in Nat
  BY DEF HandleType
<1>4. \A x \in Entry, l \in Slot : dir[x].sectors[l] \in Sector \cup {None}
  BY <1>1, EntryParts
<1>5. CASE k + 1 < max
  <2> DEFINE s == dir[i].sectors[k + 1]
  <2>1. k + 1 \in 0 .. ListSectors - 1 /\ k + 1 \in 0 .. max - 1 /\ k + 1 \in Slot
    BY <1>2, <1>3, <1>5 DEF Slot
  <2>2. s \in Sector \cup {None}
    BY <1>1, <1>4, <2>1
  <2>3. g = At(a, i, k + 1, s)
    <3>1. g = [a EXCEPT !.cur_sindex = k + 1, !.cur_sector = s]
      BY <1>5 DEF NextSector
    <3>2. QED BY <3>1 DEF At, HandleType
  <2> HIDE DEF s
  <2>4. /\ g \in HandleType /\ g.filemode = a.filemode /\ g.entry = a.entry /\ g.size = a.size
        /\ g.cur_offset = a.cur_offset /\ g.cur_soffset = a.cur_soffset
        /\ g.cur_sector = s /\ g.cur_entry = i /\ g.cur_sindex = k + 1
    <3> DEFINE l == k + 1
    <3>1. l \in 0 .. ListSectors - 1 /\ g = At(a, i, l, s)
      BY <2>1, <2>3
    <3> HIDE DEF l, i
    <3>2. /\ g \in HandleType /\ g.filemode = a.filemode /\ g.entry = a.entry /\ g.size = a.size
          /\ g.cur_offset = a.cur_offset /\ g.cur_soffset = a.cur_soffset
          /\ g.cur_sector = s /\ g.cur_entry = i /\ g.cur_sindex = l
      BY <1>1, <2>2, <3>1, Goes
    <3>3. QED BY <3>2 DEF l
  <2>5. ReadsAt(dir, pos, g)
    <3>1. g.cur_offset = SectorSize * (pos[g.cur_entry] + g.cur_sindex) + g.cur_soffset
      <4>1. pos[i] + k + 1 = pos[i] + (k + 1)
        BY <1>1, <1>3
      <4>2. SectorSize * (pos[i] + (k + 1)) \in Nat
        BY <1>1, <1>3, Constants
      <4>3. QED BY <1>3, <2>4, <4>1, <4>2
    <3>2. g.size = dir[g.entry].size /\ g.cur_offset <= g.size
      BY <1>3, <2>4
    <3>3. g.cur_sindex \in 0 .. curentry_max_sectors(dir[g.cur_entry]) - 1
      BY <2>1, <2>4
    <3>4. g.cur_sector = dir[g.cur_entry].sectors[g.cur_sindex]
      BY <2>4 DEF s
    <3>5. QED BY <3>1, <3>2, <3>3, <3>4 DEF ReadsAt
  <2>6. Opened(dir, own, pos, g)
    BY <1>3, <2>4, <2>5 DEF Opened
  <2>7. QED BY <2>4, <2>6
<1>6. CASE k + 1 >= max
  <2>1. k + 1 = max
    BY <1>2, <1>3, <1>6
  <2>2. next # None
    <3>1. SUFFICES ASSUME next = None PROVE FALSE
      OBVIOUS
    <3>2. Fits(dir, own, pos, a.entry, a.size)
      <4>1. a.entry \in Live(dir)
        BY DEF Live
      <4>2. QED BY <1>1, <4>1 DEF Sized
    <3>3. PICK n \in 0 .. ListSectors : Filled(dir[i], n)
      BY <1>1, <1>3 DEF Neat, Tidy
    <3>4. a.size <= SectorSize * (pos[i] + n)
      BY <1>3, <3>1, <3>2, <3>3 DEF Fits
    <3>5. n <= max
      <4>1. SUFFICES ASSUME n > max PROVE FALSE
        BY <1>2, <3>3
      <4>2. max \in 0 .. n - 1
        BY <1>2, <3>3, <4>1
      <4>3. max \in 0 .. max - 1
        BY <3>3, <4>2 DEF Filled, Listed
      <4>4. QED BY <1>2, <4>3
    <3>6. PICK b \in Nat : b = pos[i] + n
      BY <1>1, <3>3
    <3>7. PICK c \in Nat : c = pos[i] + k + 1
      BY <1>1, <1>3
    <3>8. b <= c
      BY <1>1, <1>2, <1>3, <2>1, <3>3, <3>5, <3>6, <3>7
    <3>9. a.size <= SectorSize * b /\ a.cur_offset = SectorSize * c
      BY <1>3, <3>4, <3>6, <3>7
    <3>10. SectorSize * b <= SectorSize * c
      BY <3>8, Constants
    <3>11. SectorSize * b \in Nat /\ SectorSize * c \in Nat
      BY Constants
    <3>12. QED BY <1>3, <3>9, <3>10, <3>11
  <2>3. /\ next \in Live(dir) /\ own[next] = own[i] /\ pos[next] = pos[i] + max /\ next \in Entry
    BY <1>1, <1>3, <2>2 DEF Linked, Leading
  <2> DEFINE s == dir[next].sectors[0]
  <2>4. 0 \in Slot /\ 0 \in 0 .. ListSectors - 1
    BY Constants DEF Slot
  <2>5. s \in Sector \cup {None}
    BY <1>4, <2>3, <2>4
  <2>6. g = At(a, next, 0, s)
    BY <1>2, <1>3, <1>6 DEF NextSector, At
  <2>7. curentry_max_sectors(dir[next]) \in 1 .. ListSectors
    BY MaxSectors
  <2> HIDE DEF s, next
  <2>8. /\ g \in HandleType /\ g.filemode = a.filemode /\ g.entry = a.entry /\ g.size = a.size
        /\ g.cur_offset = a.cur_offset /\ g.cur_soffset = a.cur_soffset
        /\ g.cur_sector = s /\ g.cur_entry = next /\ g.cur_sindex = 0
    BY <2>3, <2>4, <2>5, <2>6, Goes
  <2>9. ReadsAt(dir, pos, g)
    <3>1. g.cur_offset = SectorSize * (pos[g.cur_entry] + g.cur_sindex) + g.cur_soffset
      <4>1. pos[i] + k + 1 = pos[next] + 0
        BY <1>1, <1>2, <1>3, <2>1, <2>3
      <4>2. SectorSize * (pos[next] + 0) \in Nat
        BY <1>1, <2>3, Constants
      <4>3. QED BY <1>3, <2>8, <4>1, <4>2
    <3>2. g.size = dir[g.entry].size /\ g.cur_offset <= g.size
      BY <1>3, <2>8
    <3>3. g.cur_sindex \in 0 .. curentry_max_sectors(dir[g.cur_entry]) - 1
      BY <2>7, <2>8
    <3>4. g.cur_sector = dir[g.cur_entry].sectors[g.cur_sindex]
      BY <2>8 DEF s
    <3>5. QED BY <3>1, <3>2, <3>3, <3>4 DEF ReadsAt
  <2>10. Opened(dir, own, pos, g)
    BY <1>3, <2>3, <2>8, <2>9 DEF Opened
  <2>11. QED BY <2>8, <2>10
<1>7. QED BY <1>2, <1>3, <1>5, <1>6

LEMMA Lesser ==
  ASSUME NEW m \in Nat \ {0}, NEW n \in Nat \ {0}
  PROVE  Min(m, n) \in Nat \ {0} /\ Min(m, n) <= m /\ Min(m, n) <= n
BY DEF Min

LEMMA ReadSomeKeeps ==
  ASSUME NEW own, NEW rank, NEW pos, Good(dir, own, rank, pos), queue = <<>>, ReadSome
  PROVE  IInv'
<1> DEFINE c == busy.c
           h == fh[c]
           n == Min(busy.left, SectorSize - h.cur_soffset)
           a == Advanced(h, n)
           g == IF a.cur_offset # a.size /\ a.cur_soffset = 0 THEN NextSector(a) ELSE a
<1>1. /\ Files(dir, own, rank, pos) /\ Counted(used_sectors, free_sectors, used_entries, dir) /\ Handled(fh, dir, own, pos)
  BY DEF Good
<1>2. /\ Running("read") /\ busy.left > 0
      /\ fh' = [fh EXCEPT ![c] = g] /\ busy' = [busy EXCEPT !.left = @ - n]
      /\ used_entries' = used_entries /\ used_sectors' = used_sectors /\ free_sectors' = free_sectors
      /\ dir' = dir /\ queue' = queue
  BY DEF ReadSome, eeprom, ram
<1>3. /\ c \in Channels /\ busy.left \in Nat /\ busy = [op |-> "read", c |-> c, left |-> busy.left]
      /\ h.filemode = "read" /\ busy.left <= h.size - h.cur_offset
      /\ Opened(dir, own, pos, h) /\ h \in HandleType
  BY <1>2, IsReading
<1> HIDE DEF c, h
<1>4. /\ h.size \in Nat /\ h.cur_offset \in Nat /\ h.cur_soffset \in 0 .. SectorSize - 1
      /\ h.entry \in Entry /\ h.cur_entry \in Entry
  BY <1>3 DEF HandleType
<1>5. n \in 1 .. SectorSize - h.cur_soffset /\ n <= busy.left /\ n \in Nat \ {0}
  <2> DEFINE room == SectorSize - h.cur_soffset
  <2>1. room \in Nat \ {0} /\ busy.left \in Nat \ {0}
    <3>1. room \in Nat \ {0}
      BY ONLY <1>4, Constants
    <3>2. busy.left \in Nat \ {0}
      BY ONLY <1>2, <1>3
    <3>3. QED BY <3>1, <3>2
  <2> HIDE DEF room
  <2>2. n \in Nat \ {0} /\ n <= busy.left /\ n <= room
    BY <2>1, Lesser DEF room
  <2>3. QED BY <2>1, <2>2 DEF room
<1>6. ReadsAt(dir, pos, h) /\ dir[h.entry].kind = "name" /\ h.cur_entry \in Live(dir)
      /\ own[h.cur_entry] = h.entry
  BY <1>3 DEF Opened
<1> DEFINE p == pos[h.cur_entry] + h.cur_sindex
<1>7. /\ h.size = dir[h.entry].size
      /\ h.cur_sindex \in 0 .. curentry_max_sectors(dir[h.cur_entry]) - 1
      /\ h.cur_sector = dir[h.cur_entry].sectors[h.cur_sindex]
      /\ h.cur_offset = SectorSize * p + h.cur_soffset
  BY <1>2, <1>3, <1>4, <1>6 DEF ReadsAt
<1>8. p \in Nat
  BY <1>1, <1>4, <1>7, FilesTyped
<1> HIDE DEF n, p
<1>9. /\ a \in HandleType /\ a.filemode = h.filemode /\ a.entry = h.entry /\ a.size = h.size
      /\ a.cur_offset = h.cur_offset + n /\ a.cur_soffset = (h.cur_soffset + n) % SectorSize
      /\ a.cur_sector = h.cur_sector /\ a.cur_entry = h.cur_entry /\ a.cur_sindex = h.cur_sindex
  BY <1>3, <1>5, Advances
<1> HIDE DEF a, g
<1>10. a.cur_offset <= a.size /\ busy.left - n <= a.size - a.cur_offset /\ busy.left - n \in Nat
       /\ a.cur_offset \in Nat /\ a.size \in Nat
  <2> DEFINE z == h.size
             y == h.cur_offset
             l == busy.left
  <2>1. z \in Nat /\ y \in Nat /\ l \in Nat /\ n \in Nat /\ n <= l /\ l <= z - y
    BY <1>3, <1>4, <1>5
  <2>2. a.size = z /\ a.cur_offset = y + n
    BY <1>9
  <2> HIDE DEF z, y, l
  <2>3. y + n <= z /\ l - n <= z - (y + n) /\ l - n \in Nat /\ y + n \in Nat
    BY <2>1
  <2>4. QED BY <2>1, <2>2, <2>3 DEF l
<1>11. PICK x \in Nat : x = SectorSize * p
  BY <1>8, Constants
<1>12. ASSUME a.cur_offset < a.size => a.cur_soffset = h.cur_soffset + n
       PROVE  Opened(dir, own, pos, a)
  <2>1. a.cur_offset < a.size =>
          a.cur_offset = SectorSize * (pos[a.cur_entry] + a.cur_sindex) + a.cur_soffset
    <3>1. pos[a.cur_entry] + a.cur_sindex = p
      BY <1>9 DEF p
    <3>2. a.cur_offset < a.size => a.cur_offset = SectorSize * p + a.cur_soffset
      BY <1>4, <1>5, <1>7, <1>9, <1>11, <1>12, Constants
    <3>3. QED BY <3>1, <3>2
  <2>2. ReadsAt(dir, pos, a)
    BY <1>7, <1>9, <1>10, <2>1 DEF ReadsAt
  <2>3. QED BY <1>3, <1>6, <1>9, <2>2 DEF Opened
<1>13. g \in HandleType /\ g.filemode = "read" /\ g.entry = h.entry
       /\ g.size = a.size /\ g.cur_offset = a.cur_offset /\ Opened(dir, own, pos, g)
  <2>1. CASE a.cur_offset = a.size
    <3>1. g = a
      BY <2>1 DEF g
    <3>2. Opened(dir, own, pos, a)
      BY <1>4, <1>9, <1>12, <2>1
    <3>3. QED BY <1>3, <1>9, <3>1, <3>2
  <2>2. CASE a.cur_offset # a.size /\ h.cur_soffset + n < SectorSize
    <3>1. a.cur_soffset = h.cur_soffset + n
      BY <1>4, <1>5, <1>9, <2>2, Behind
    <3>2. a.cur_soffset # 0
      BY <1>4, <1>5, <3>1, Constants
    <3>3. g = a
      BY <3>2 DEF g
    <3>4. Opened(dir, own, pos, a)
      BY <1>12, <3>1
    <3>5. QED BY <1>3, <1>9, <3>3, <3>4
  <2>3. CASE a.cur_offset # a.size /\ h.cur_soffset + n = SectorSize
    <3>1. a.cur_soffset = 0 /\ g = NextSector(a)
      <4>1. a.cur_soffset = 0
        BY <1>4, <1>5, <1>9, <2>3, Behind
      <4>2. QED BY <2>3, <4>1 DEF g
    <3>2. a.cur_offset < a.size
      BY <1>10, <2>3
    <3>3. a.cur_offset = SectorSize * (pos[a.cur_entry] + a.cur_sindex + 1)
      <4>1. pos[a.cur_entry] + a.cur_sindex + 1 = p + 1
        BY <1>9 DEF p
      <4>2. SectorSize * (p + 1) = x + SectorSize
        BY <1>8, <1>11, Constants
      <4>3. a.cur_offset = x + SectorSize
        BY <1>4, <1>5, <1>7, <1>9, <1>11, <2>3, Constants
      <4>4. QED BY <4>1, <4>2, <4>3
    <3>4. /\ dir[a.entry].kind = "name" /\ a.entry \in Entry /\ a.size = dir[a.entry].size
          /\ a.cur_entry \in Live(dir) /\ own[a.cur_entry] = a.entry
          /\ a.cur_sindex \in 0 .. curentry_max_sectors(dir[a.cur_entry]) - 1
      BY <1>4, <1>6, <1>7, <1>9
    <3>5. g \in HandleType /\ g.filemode = a.filemode /\ g.entry = a.entry
          /\ g.size = a.size /\ g.cur_offset = a.cur_offset /\ Opened(dir, own, pos, g)
      BY <1>1, <1>3, <1>9, <3>1, <3>2, <3>3, <3>4, NextIsThere
    <3>6. QED BY <1>3, <1>9, <3>5
  <2>4. QED BY <1>4, <1>5, <2>1, <2>2, <2>3, Constants
<1>14. fh' = Set(fh, c, g)
  BY <1>2 DEF Set
<1>15. \A b \in Channels \ {c} : fh[b].filemode # "closed" /\ fh[b].entry = g.entry =>
         fh[b].filemode = "read" /\ g.filemode = "read"
  BY <1>1, <1>3, <1>13 DEF Handled, h, c
<1>16. Handled(fh', dir, own, pos)
  <2>1. g.filemode # "closed" =>
           /\ Opened(dir, own, pos, g)
           /\ \A b \in Channels \ {c} : fh[b].filemode # "closed" /\ fh[b].entry = g.entry =>
                fh[b].filemode = "read" /\ g.filemode = "read"
    BY <1>13, <1>15
  <2>2. QED BY <1>1, <1>3, <1>13, <1>14, <2>1, SameFileHandled
<1>17. Job(fh', busy', dir, rank)
  <2>1. busy' = [op |-> "read", c |-> c, left |-> busy.left - n]
    BY <1>2, <1>3
  <2>2. fh'[c] = g
    BY <1>1, <1>2, <1>3 DEF Handled
  <2> DEFINE m == busy.left - n
  <2>3. m \in Nat /\ m <= fh'[c].size - fh'[c].cur_offset /\ fh'[c].filemode = "read"
    BY <1>10, <1>13, <2>2
  <2> HIDE DEF m
  <2>4. busy' = [op |-> "read", c |-> c, left |-> m]
    BY <2>1 DEF m
  <2>5. Reading(fh', busy')
    BY <1>3, <2>3, <2>4 DEF Reading
  <2>6. QED BY <2>5 DEF Job
<1>18. Leads(dir, queue', dir)
  BY <1>2 DEF Leads
<1>19. Counted(used_sectors', free_sectors', used_entries', dir)
  BY <1>1, <1>2
<1>20. QED BY <1>1, <1>2, <1>16, <1>17, <1>18, <1>19, GoesOn

-----------------------------------------------------------------------------
(***************************************************************************)
(* Writing.                                                                *)
(***************************************************************************)
LEMMA IsWriting ==
  ASSUME NEW own, NEW rank, NEW pos, Good(dir, own, rank, pos), Running("write")
  PROVE  /\ busy.c \in Channels /\ busy.left \in Nat /\ busy.closing \in BOOLEAN
         /\ busy = [op |-> "write", c |-> busy.c, left |-> busy.left, closing |-> busy.closing]
         /\ fh[busy.c].filemode = "write" /\ fh[busy.c] \in HandleType
         /\ Opened(dir, own, pos, fh[busy.c])
         /\ \A b \in Channels \ {busy.c} : fh[b].filemode # "closed" => fh[b].entry # fh[busy.c].entry
<1>1. Job(fh, busy, dir, rank) /\ busy # None /\ busy.op = "write"
  BY DEF Good, Running
<1>2. ~ Closing(busy) /\ ~ Reading(fh, busy) /\ ~ Deleting(fh, busy, dir, rank)
  BY <1>1 DEF Closing, Reading, Deleting
<1>3. Writing(fh, busy)
  BY <1>1, <1>2 DEF Job
<1>4. PICK c \in Channels, n \in Nat, closing \in BOOLEAN :
        /\ busy = [op |-> "write", c |-> c, left |-> n, closing |-> closing]
        /\ fh[c].filemode = "write"
  BY <1>3 DEF Writing
<1>5. busy.c = c /\ busy.left = n /\ busy.closing = closing
  BY <1>4
<1>6. Opened(dir, own, pos, fh[c]) /\ fh[c] \in HandleType
  BY <1>4 DEF Good, Handled
<1>7. \A b \in Channels \ {c} : fh[b].filemode # "closed" => fh[b].entry # fh[c].entry
  BY <1>4 DEF Good, Handled
<1>8. QED BY <1>4, <1>5, <1>6, <1>7

LEMMA FilledBound ==
  ASSUME NEW e, NEW n, Filled(e, n)
  PROVE  n \in 0 .. ListSectors /\ n <= curentry_max_sectors(e)
<1>1. n \in 0 .. ListSectors /\ curentry_max_sectors(e) \in 1 .. ListSectors
  BY MaxSectors DEF Filled
<1> DEFINE max == curentry_max_sectors(e)
<1>2. SUFFICES ASSUME n > max PROVE FALSE
  BY <1>1, Constants
<1>3. max \in 0 .. n - 1
  BY <1>1, <1>2, Constants
<1>4. max \in 0 .. max - 1
  BY <1>3 DEF Filled, Listed
<1>5. QED BY <1>1, <1>4

Longer(h, n) == [Advanced(h, n) EXCEPT !.size = @ + n]

LEMMA Lengthens ==
  ASSUME NEW h \in HandleType, NEW n \in 1 .. SectorSize - h.cur_soffset,
         NEW g, g = Longer(h, n)
  PROVE  /\ g \in HandleType /\ g.filemode = h.filemode /\ g.entry = h.entry /\ g.size = h.size + n
         /\ g.cur_soffset = (h.cur_soffset + n) % SectorSize
         /\ g.cur_sector = h.cur_sector /\ g.cur_entry = h.cur_entry /\ g.cur_sindex = h.cur_sindex
<1> DEFINE a == Advanced(h, n)
           z == h.size + n
<1>1. /\ a \in HandleType /\ a.filemode = h.filemode /\ a.entry = h.entry /\ a.size = h.size
      /\ a.cur_offset = h.cur_offset + n /\ a.cur_soffset = (h.cur_soffset + n) % SectorSize
      /\ a.cur_sector = h.cur_sector /\ a.cur_entry = h.cur_entry /\ a.cur_sindex = h.cur_sindex
  BY Advances
<1>2. z \in Nat
  <2>1. h.size \in Nat /\ h.cur_soffset \in Nat
    BY Constants DEF HandleType
  <2>2. QED BY <2>1, Constants
<1>3. g = [a EXCEPT !.size = z]
  BY <1>1 DEF Longer
<1> HIDE DEF a, z
<1>4. g \in HandleType
  BY <1>1, <1>2, <1>3 DEF HandleType
<1>5. /\ g.filemode = a.filemode /\ g.entry = a.entry /\ g.size = z
      /\ g.cur_soffset = a.cur_soffset
      /\ g.cur_sector = a.cur_sector /\ g.cur_entry = a.cur_entry /\ g.cur_sindex = a.cur_sindex
  BY <1>1, <1>3 DEF HandleType
<1>6. QED BY <1>1, <1>4, <1>5 DEF z

(* A file that ends within a sector grows up to the end of that sector.     *)
LEMMA EndsAt ==
  ASSUME NEW z \in Nat, NEW o \in 0 .. SectorSize - 1, NEW q \in 0 .. z, z = SectorSize * q + o,
         NEW n \in 1 .. SectorSize - o
  PROVE  \E r \in 0 .. z + n : z + n = SectorSize * r + ((o + n) % SectorSize)
<1>1. n \in Nat \ {0} /\ o \in Nat
  BY Constants
<1>2. CASE o + n < SectorSize
  <2>1. (o + n) % SectorSize = o + n
    BY <1>2, Behind
  <2>2. PICK x \in Nat : x = SectorSize * q
    BY Constants
  <2>3. z + n = SectorSize * q + ((o + n) % SectorSize)
    BY <1>1, <2>1, <2>2
  <2>4. q \in 0 .. z + n
    BY <1>1
  <2>5. QED BY <2>3, <2>4
<1>3. CASE o + n = SectorSize
  <2>1. (o + n) % SectorSize = 0
    BY <1>3, Behind
  <2>2. PICK x \in Nat : x = SectorSize * q
    BY Constants
  <2>3. SectorSize * (q + 1) = x + SectorSize
    BY <2>2, Constants
  <2>4. z + n = SectorSize * (q + 1) + ((o + n) % SectorSize)
    BY <1>1, <1>3, <2>1, <2>2, <2>3, Constants
  <2>5. q + 1 \in 0 .. z + n
    BY <1>1
  <2>6. QED BY <2>4, <2>5
<1>4. QED BY <1>1, <1>2, <1>3, Constants

LEMMA InSector ==
  ASSUME NEW z \in Nat, NEW o \in 1 .. SectorSize - 1, NEW q \in Nat, z = SectorSize * q + o,
         NEW n \in 1 .. SectorSize - o, NEW a \in Nat, z <= SectorSize * a
  PROVE  z + n <= SectorSize * a
<1>1. PICK x \in Nat : x = SectorSize * q
  BY Constants
<1>2. q < a
  <2>1. SUFFICES ASSUME a <= q PROVE FALSE
    OBVIOUS
  <2>2. SectorSize * a <= SectorSize * q
    BY <2>1, Constants
  <2>3. PICK y \in Nat : y = SectorSize * a
    BY Constants
  <2>4. QED BY <1>1, <2>2, <2>3, Constants
<1>3. SectorSize * (q + 1) <= SectorSize * a
  BY <1>2, Constants
<1>4. SectorSize * (q + 1) = x + SectorSize
  BY <1>1, Constants
<1>5. PICK y \in Nat : y = SectorSize * a
  BY Constants
<1>6. z + n <= x + SectorSize
  BY <1>1, Constants
<1>7. z + n \in Nat
  BY Constants
<1>8. QED BY <1>3, <1>4, <1>5, <1>6, <1>7, Constants

(* Once around the loop, with d2 the directory that this leads to.          *)
LEMMA StoresSome ==
  ASSUME NEW own, NEW rank, NEW pos, Good(dir, own, rank, pos), queue = <<>>, WriteMore,
         NEW d2, NEW own2, NEW rank2, NEW pos2, Files(d2, own2, rank2, pos2),
         Counted(used_sectors', free_sectors', used_entries', d2),
         NEW f, f = fh[busy.c].entry, Untouched(dir, own, pos, d2, own2, pos2, f),
         d2[f].kind = "name",
         NEW h \in HandleType, h.filemode = "write", h.entry = f,
         h.cur_entry \in Live(d2), own2[h.cur_entry] = f, d2[h.cur_entry].next = None,
         h.cur_sindex >= 0, Filled(d2[h.cur_entry], h.cur_sindex + 1),
         h.cur_sector = d2[h.cur_entry].sectors[h.cur_sindex], h.cur_sector # None,
         \E q \in 0 .. h.size : h.size = SectorSize * q + h.cur_soffset,
         \A n \in 1 .. SectorSize - h.cur_soffset : Fits(d2, own2, pos2, f, h.size + n),
         NEW entries, StoreSome(h, entries), Leads(dir, queue', d2)
  PROVE  IInv'
<1> DEFINE c == busy.c
           n == Min(busy.left, SectorSize - h.cur_soffset)
           g == Longer(h, n)
<1>1. /\ Files(dir, own, rank, pos) /\ Counted(used_sectors, free_sectors, used_entries, dir) /\ Handled(fh, dir, own, pos)
  BY DEF Good
<1>2. /\ dir' = dir /\ fh' = [fh EXCEPT ![c] = g] /\ busy' = [busy EXCEPT !.left = @ - n]
  BY DEF StoreSome, eeprom, Longer
<1>3. /\ c \in Channels /\ busy.left \in Nat /\ busy.closing \in BOOLEAN
      /\ busy = [op |-> "write", c |-> c, left |-> busy.left, closing |-> busy.closing]
      /\ fh[c].filemode = "write" /\ fh[c].entry = f
      /\ \A b \in Channels \ {c} : fh[b].filemode # "closed" => fh[b].entry # f
  BY IsWriting DEF WriteMore
<1> HIDE DEF c
<1>4. busy.left > 0
  BY DEF WriteMore
<1>5. n \in 1 .. SectorSize - h.cur_soffset /\ n <= busy.left /\ n \in Nat \ {0}
  <2> DEFINE room == SectorSize - h.cur_soffset
  <2>1. h.cur_soffset \in 0 .. SectorSize - 1
    BY DEF HandleType
  <2>2. room \in Nat \ {0} /\ busy.left \in Nat \ {0}
    <3>1. room \in Nat \ {0}
      BY ONLY <2>1, Constants
    <3>2. busy.left \in Nat \ {0}
      BY ONLY <1>3, <1>4
    <3>3. QED BY <3>1, <3>2
  <2> HIDE DEF room
  <2>3. n \in Nat \ {0} /\ n <= busy.left /\ n <= room
    BY <2>2, Lesser DEF room
  <2>4. QED BY <2>2, <2>3 DEF room
<1> HIDE DEF n, g
<1>6. /\ g \in HandleType /\ g.filemode = h.filemode /\ g.entry = h.entry /\ g.size = h.size + n
      /\ g.cur_soffset = (h.cur_soffset + n) % SectorSize
      /\ g.cur_sector = h.cur_sector /\ g.cur_entry = h.cur_entry /\ g.cur_sindex = h.cur_sindex
  <2>1. g = Longer(h, n)
    BY DEF g
  <2>2. QED BY <1>5, <2>1, Lengthens
<1>7. \E r \in 0 .. g.size : g.size = SectorSize * r + g.cur_soffset
  <2> DEFINE z == h.size
             o == h.cur_soffset
  <2>1. z \in Nat /\ o \in 0 .. SectorSize - 1
    BY DEF HandleType
  <2>2. PICK q \in 0 .. z : z = SectorSize * q + o
    OBVIOUS
  <2>3. n \in 1 .. SectorSize - o
    BY <1>5
  <2>4. g.size = z + n /\ g.cur_soffset = (o + n) % SectorSize
    BY <1>6
  <2> HIDE DEF z, o
  <2>5. \E r \in 0 .. z + n : z + n = SectorSize * r + ((o + n) % SectorSize)
    BY <2>1, <2>2, <2>3, EndsAt
  <2>6. QED BY <2>4, <2>5
<1>8. Opened(d2, own2, pos2, g)
  <2>1. Fits(d2, own2, pos2, g.entry, g.size)
    BY <1>5, <1>6
  <2>2. /\ d2[g.cur_entry].next = None /\ Filled(d2[g.cur_entry], g.cur_sindex + 1)
        /\ g.cur_sindex >= 0 /\ g.cur_sector = d2[g.cur_entry].sectors[g.cur_sindex]
        /\ g.cur_sector # None
    BY <1>6
  <2>3. g.cur_sindex # -1
    BY <2>2, <1>6 DEF HandleType
  <2>4. WritesAt(d2, own2, pos2, g)
    BY <1>7, <2>1, <2>2, <2>3 DEF WritesAt
  <2>5. QED BY <1>6, <2>4 DEF Opened
<1>9. Handled(fh', d2, own2, pos2)
  <2>1. fh' = Set(fh, c, g)
    BY <1>2 DEF Set
  <2>2. g.filemode # "closed" => Opened(d2, own2, pos2, g) /\ g.entry = f
    BY <1>6, <1>8
  <2>3. QED BY <1>1, <1>3, <1>6, <2>1, <2>2, OneHandled
<1>10. Job(fh', busy', d2, rank2)
  <2> DEFINE m == busy.left - n
  <2>1. m \in Nat
    BY <1>3, <1>5
  <2>2. busy' = [op |-> "write", c |-> c, left |-> m, closing |-> busy.closing]
    BY <1>2, <1>3
  <2>3. fh'[c].filemode = "write"
    BY <1>1, <1>2, <1>3, <1>6 DEF Handled
  <2> HIDE DEF m
  <2>4. Writing(fh', busy')
    BY <1>3, <2>1, <2>2, <2>3 DEF Writing
  <2>5. QED BY <2>4 DEF Job
<1>11. QED BY <1>1, <1>2, <1>9, <1>10, GoesOn

LEMMA WriteInSectorKeeps ==
  ASSUME NEW own, NEW rank, NEW pos, Good(dir, own, rank, pos), queue = <<>>, WriteInSector
  PROVE  IInv'
<1> DEFINE h == fh[busy.c]
           f == h.entry
<1>1. /\ Files(dir, own, rank, pos) /\ Counted(used_sectors, free_sectors, used_entries, dir) /\ Handled(fh, dir, own, pos)
  BY DEF Good
<1>2. /\ WriteMore /\ h.cur_soffset # 0 /\ StoreSome(h, <<>>)
      /\ used_entries' = used_entries /\ used_sectors' = used_sectors /\ free_sectors' = free_sectors
  BY DEF WriteInSector, ram
<1>3. h.filemode = "write" /\ h \in HandleType /\ Opened(dir, own, pos, h)
  BY <1>2, IsWriting DEF WriteMore
<1>4. Leads(dir, queue', dir)
  <2>1. PICK w : queue' = <<w>> /\ IsData(w)
    BY <1>2 DEF StoreSome, IsData, WriteData
  <2>2. QED BY <2>1 DEF Leads
<1>5. Counted(used_sectors', free_sectors', used_entries', dir)
  BY <1>1, <1>2
<1>6. Untouched(dir, own, pos, dir, own, pos, f)
  BY SameUntouched
<1>7. f = fh[busy.c].entry
  OBVIOUS
<1> HIDE DEF h, f
<1>8. /\ dir[f].kind = "name" /\ h.cur_entry \in Live(dir) /\ own[h.cur_entry] = f
      /\ h.entry = f /\ WritesAt(dir, own, pos, h)
  BY <1>3 DEF Opened, f
<1>9. /\ dir[h.cur_entry].next = None /\ Filled(dir[h.cur_entry], h.cur_sindex + 1)
      /\ h.cur_sector # None /\ Fits(dir, own, pos, f, h.size)
  BY <1>8 DEF WritesAt
<1>10. PICK q \in 0 .. h.size : h.size = SectorSize * q + h.cur_soffset
  BY <1>8 DEF WritesAt
<1>11. h.size \in Nat /\ h.cur_soffset \in 1 .. SectorSize - 1 /\ h.cur_sindex \in -1 .. ListSectors - 1
  BY <1>2, <1>3, Constants DEF HandleType
<1>12. h.cur_sindex >= 0 /\ h.cur_sector = dir[h.cur_entry].sectors[h.cur_sindex]
  <2>1. h.cur_sindex # -1
    <3>1. SUFFICES ASSUME h.cur_sindex = -1 PROVE FALSE
      OBVIOUS
    <3>2. h.size = 0
      BY <1>8, <3>1 DEF WritesAt
    <3>3. PICK x \in Nat : x = SectorSize * q
      BY <1>11, Constants
    <3>4. h.cur_soffset = 0
      BY <1>10, <1>11, <3>2, <3>3
    <3>5. QED BY <1>2, <3>4
  <2>2. QED BY <1>8, <1>11, <2>1 DEF WritesAt
<1>13. ASSUME NEW n \in 1 .. SectorSize - h.cur_soffset
       PROVE  Fits(dir, own, pos, f, h.size + n)
  <2> DEFINE z == h.size
             o == h.cur_soffset
  <2>1. z \in Nat /\ o \in 1 .. SectorSize - 1 /\ q \in Nat /\ z = SectorSize * q + o
        /\ n \in 1 .. SectorSize - o
    BY <1>10, <1>11
  <2>2. Fits(dir, own, pos, f, z)
    BY <1>9
  <2> HIDE DEF z, o
  <2>3. \A a \in Nat : z <= SectorSize * a => z + n <= SectorSize * a
    BY <2>1, InSector
  <2>4. Cardinality(Own(dir, own, f)) \in Nat
    BY Finite DEF Own
  <2>5. z + n <= SectorSize * Cardinality(Own(dir, own, f))
    BY <2>2, <2>3, <2>4 DEF Fits
  <2>6. ASSUME NEW l \in Live(dir), own[l] = f, dir[l].next = None,
               NEW m \in 0 .. ListSectors, Filled(dir[l], m)
        PROVE  z + n <= SectorSize * (pos[l] + m)
    <3>1. z <= SectorSize * (pos[l] + m)
      BY <2>2, <2>6 DEF Fits
    <3>2. pos[l] + m \in Nat
      <4>1. pos[l] \in Nat
        BY <1>1, <2>6, FilesTyped DEF Live
      <4>2. QED BY <4>1, Constants
    <3>3. QED BY <2>3, <3>1, <3>2
  <2>7. Fits(dir, own, pos, f, z + n)
    BY <2>5, <2>6 DEF Fits
  <2>8. QED BY <2>7 DEF z
<1>14. \A n \in 1 .. SectorSize - h.cur_soffset : Fits(dir, own, pos, f, h.size + n)
  BY <1>13
<1>15. \E p \in 0 .. h.size : h.size = SectorSize * p + h.cur_soffset
  BY <1>10
<1>16. QED
  BY <1>1, <1>2, <1>3, <1>4, <1>5, <1>6, <1>7, <1>8, <1>9, <1>12, <1>14, <1>15, StoresSome

(* What a handle that writes says when its sector is full, or none was.     *)
LEMMA AtEnd ==
  ASSUME NEW own, NEW rank, NEW pos, Good(dir, own, rank, pos), WriteMore,
         NEW h, h = fh[busy.c], h.cur_soffset = 0
  PROVE  /\ h.filemode = "write" /\ h \in HandleType /\ dir[h.entry].kind = "name"
         /\ h.entry \in Live(dir) /\ h.cur_entry \in Live(dir) /\ own[h.cur_entry] = h.entry
         /\ dir[h.cur_entry].next = None /\ Filled(dir[h.cur_entry], h.cur_sindex + 1)
         /\ h.cur_sindex + 1 \in Nat /\ h.cur_sindex + 1 <= curentry_max_sectors(dir[h.cur_entry])
         /\ Fits(dir, own, pos, h.entry, h.size) /\ h.size \in Nat
         /\ h.cur_sector \in Sector \cup {None}
         /\ \E q \in 0 .. h.size : h.size = SectorSize * q + 0
<1>1. /\ h.filemode = "write" /\ h \in HandleType /\ Opened(dir, own, pos, h)
  BY IsWriting DEF WriteMore
<1>2. /\ dir[h.entry].kind = "name" /\ h.cur_entry \in Live(dir) /\ own[h.cur_entry] = h.entry
      /\ WritesAt(dir, own, pos, h) /\ h.entry \in Entry
  BY <1>1 DEF Opened, HandleType
<1>3. h.entry \in Live(dir)
  BY <1>2 DEF Live
<1>4. /\ dir[h.cur_entry].next = None /\ Filled(dir[h.cur_entry], h.cur_sindex + 1)
      /\ Fits(dir, own, pos, h.entry, h.size)
      /\ \E q \in 0 .. h.size : h.size = SectorSize * q + 0
  BY <1>2 DEF WritesAt
<1>5. h.size \in Nat /\ h.cur_sindex + 1 \in Nat /\ h.cur_sector \in Sector \cup {None}
  BY <1>1, Constants DEF HandleType
<1>6. h.cur_sindex + 1 <= curentry_max_sectors(dir[h.cur_entry])
  BY <1>4, FilledBound
<1>7. QED BY <1>1, <1>2, <1>3, <1>4, <1>5, <1>6

LEMMA CountedOneMore ==
  ASSUME NEW own, NEW rank, NEW pos, Good(dir, own, rank, pos), NEW s \in Sector, s \notin used_sectors,
         mark_sector(s), NEW d2, UsedOf(d2) = UsedOf(dir) \cup {s},
         Live(d2) \subseteq used_entries', used_entries' \subseteq Entry
  PROVE  Counted(used_sectors', free_sectors', used_entries', d2)
<1>1. Counted(used_sectors, free_sectors, used_entries, dir) /\ dir \in [Entry -> EntryType]
  BY FilesTyped DEF Good
<1>2. used_sectors = UsedOf(dir) /\ free_sectors = Sectors - Cardinality(used_sectors)
  BY <1>1 DEF Counted
<1>3. used_sectors \subseteq Sector
  <2>1. \A i \in Live(dir) : SectorsOf(dir[i]) \subseteq Sector
    BY <1>1, EntryParts DEF Live
  <2>2. QED BY <1>2, <2>1 DEF UsedOf
<1>4. IsFiniteSet(used_sectors) /\ Cardinality(used_sectors) \in Nat
  BY <1>3, Finite
<1>5. Cardinality(used_sectors \cup {s}) = Cardinality(used_sectors) + 1
  BY <1>4, FS_AddElement
<1>6. used_sectors' = used_sectors \cup {s} /\ free_sectors' = free_sectors - 1
  BY DEF mark_sector
<1>7. used_sectors' = UsedOf(d2) /\ free_sectors' = Sectors - Cardinality(used_sectors')
  BY <1>2, <1>4, <1>5, <1>6, Constants
<1>8. QED BY <1>7 DEF Counted

(* Short sequences, one element longer.                                     *)
LEMMA AppendTwo ==
  ASSUME NEW x, NEW w
  PROVE  Append(<<x>>, w) = <<x, w>>
<1> DEFINE a == Append(<<x>>, w)
           b == <<x, w>>
           S == {x, w}
<1>1. <<x>> \in Seq(S) /\ b \in Seq(S) /\ Len(b) = 2 /\ b[1] = x /\ b[2] = w /\ Len(<<x>>) = 1 /\ <<x>>[1] = x
  OBVIOUS
<1>2. a \in Seq(S) /\ Len(a) = 2 /\ a[1] = x /\ a[2] = w
  BY <1>1, AppendProperties
<1> HIDE DEF a, b, S
<1>3. \A i \in 1 .. Len(a) : a[i] = b[i]
  BY <1>1, <1>2
<1>4. a = b
  BY <1>1, <1>2, <1>3, SeqEqual
<1>5. QED BY <1>4 DEF a, b

LEMMA AppendThree ==
  ASSUME NEW x, NEW y, NEW w
  PROVE  Append(<<x, y>>, w) = <<x, y, w>>
<1> DEFINE a == Append(<<x, y>>, w)
           b == <<x, y, w>>
           S == {x, y, w}
<1>1. <<x, y>> \in Seq(S) /\ b \in Seq(S) /\ Len(b) = 3 /\ b[1] = x /\ b[2] = y /\ b[3] = w
      /\ Len(<<x, y>>) = 2 /\ <<x, y>>[1] = x /\ <<x, y>>[2] = y
  OBVIOUS
<1>2. a \in Seq(S) /\ Len(a) = 3 /\ a[1] = x /\ a[2] = y /\ a[3] = w
  BY <1>1, AppendProperties
<1> HIDE DEF a, b, S
<1>3. \A i \in 1 .. Len(a) : a[i] = b[i]
  BY <1>1, <1>2
<1>4. a = b
  BY <1>1, <1>2, <1>3, SeqEqual
<1>5. QED BY <1>4 DEF a, b

LEMMA DataLast ==
  ASSUME NEW h, NEW entries, StoreSome(h, entries)
  PROVE  \E w : queue' = Append(entries, w) /\ IsData(w)
<1> DEFINE n == Min(busy.left, SectorSize - h.cur_soffset)
           old == sent[busy.c].cells
           cells == [k \in 1 .. n |-> <<sent[busy.c].name, Len(old) + k>>]
           w == WriteData(h.cur_sector, h.cur_soffset, cells)
<1>1. queue' = Append(entries, w)
  BY DEF StoreSome
<1>2. IsData(w)
  BY DEF IsData, WriteData
<1>3. QED BY <1>1, <1>2

LEMMA WriteNewSectorKeeps ==
  ASSUME NEW own, NEW rank, NEW pos, Good(dir, own, rank, pos), queue = <<>>, WriteNewSector
  PROVE  IInv'
<1> DEFINE h == fh[busy.c]
           f == h.entry
           k == h.cur_sindex + 1
           i == h.cur_entry
<1>1. /\ Files(dir, own, rank, pos) /\ Counted(used_sectors, free_sectors, used_entries, dir) /\ Handled(fh, dir, own, pos)
  BY DEF Good
<1>2. PICK s \in next_free_sector(h.cur_sector) \ {None} :
        /\ k < curentry_max_sectors(dir[i]) /\ mark_sector(s)
        /\ StoreSome([h EXCEPT !.cur_sector = s, !.cur_sindex = k],
                     <<WriteEntry(i, [dir[i] EXCEPT !.sectors[k] = s])>>)
  BY DEF WriteNewSector
<1>3. WriteMore /\ h.cur_soffset = 0 /\ used_entries' = used_entries
  BY DEF WriteNewSector
<1>4. f = fh[busy.c].entry /\ h = fh[busy.c] /\ f = h.entry
  OBVIOUS
<1> HIDE DEF h, f
<1>5. /\ h.filemode = "write" /\ h \in HandleType /\ dir[h.entry].kind = "name"
      /\ h.entry \in Live(dir) /\ h.cur_entry \in Live(dir) /\ own[h.cur_entry] = h.entry
      /\ dir[h.cur_entry].next = None /\ Filled(dir[h.cur_entry], h.cur_sindex + 1)
      /\ h.cur_sindex + 1 \in Nat /\ h.cur_sindex + 1 <= curentry_max_sectors(dir[h.cur_entry])
      /\ Fits(dir, own, pos, h.entry, h.size) /\ h.size \in Nat
      /\ h.cur_sector \in Sector \cup {None}
      /\ \E q \in 0 .. h.size : h.size = SectorSize * q + 0
  BY <1>3, <1>4, AtEnd
<1>6. /\ i \in Live(dir) /\ own[i] = f /\ dir[i].next = None /\ Filled(dir[i], k) /\ k \in Nat
      /\ Fits(dir, own, pos, f, h.size) /\ dir[f].kind = "name" /\ i \in Entry /\ f \in Entry
  BY <1>4, <1>5 DEF Live
<1>7. s \in Sector /\ s \notin used_sectors
  BY <1>5, FreeSector
<1>8. s \notin UsedOf(dir)
  BY <1>1, <1>7 DEF Counted
<1> DEFINE e == With(dir[i], k, s)
           d2 == Set(dir, i, e)
           g == At(h, i, k, s)
<1> HIDE DEF i, k, e, d2, g
<1>9. e = With(dir[i], k, s) /\ d2 = Set(dir, i, e)
  BY DEF e, d2
<1>10. /\ Files(d2, own, rank, pos)
       /\ Live(d2) = Live(dir) /\ UsedOf(d2) = UsedOf(dir) \cup {s}
       /\ Untouched(dir, own, pos, d2, own, pos, own[i])
       /\ \A z \in Nat, n \in 0 .. SectorSize :
            Fits(dir, own, pos, own[i], z) => Fits(d2, own, pos, own[i], z + n)
       /\ e \in EntryType /\ d2[i] = e /\ e.kind = dir[i].kind /\ e.next = None
       /\ Filled(e, k + 1) /\ e.sectors[k] = s
       /\ \A x \in Entry : d2[x].kind = dir[x].kind
  BY <1>1, <1>2, <1>6, <1>7, <1>8, <1>9, SectorAdded
<1>11. StoreSome(g, <<WriteEntry(i, e)>>)
  <2>1. [h EXCEPT !.cur_sector = s, !.cur_sindex = k] = g
    BY <1>5 DEF g, At, HandleType, i
  <2>2. [dir[i] EXCEPT !.sectors[k] = s] = e
    BY DEF e, With
  <2>3. QED BY <1>2, <2>1, <2>2
<1>12. k \in 0 .. ListSectors - 1
  BY <1>2, <1>6, MaxSectors, Constants
<1>13. /\ g \in HandleType /\ g.filemode = h.filemode /\ g.entry = h.entry /\ g.size = h.size
       /\ g.cur_offset = h.cur_offset /\ g.cur_soffset = h.cur_soffset
       /\ g.cur_sector = s /\ g.cur_entry = i /\ g.cur_sindex = k
  <2>1. g = At(h, i, k, s) /\ s \in Sector \cup {None}
    BY <1>7 DEF g
  <2>2. QED BY <1>5, <1>6, <1>12, <2>1, Goes
<1>14. Leads(dir, queue', d2)
  <2>1. PICK w : queue' = Append(<<WriteEntry(i, e)>>, w) /\ IsData(w)
    BY <1>11, DataLast
  <2>2. queue' = <<WriteEntry(i, e), w>>
    BY <2>1, AppendTwo
  <2>3. QED BY <1>6, <1>9, <1>10, <2>1, <2>2 DEF Leads
<1>15. Counted(used_sectors', free_sectors', used_entries', d2)
  <2>1. Live(d2) \subseteq used_entries' /\ used_entries' \subseteq Entry
    BY <1>1, <1>3, <1>10 DEF Counted
  <2>2. QED BY <1>2, <1>7, <1>10, <2>1, CountedOneMore
<1>16. Untouched(dir, own, pos, d2, own, pos, f)
  BY <1>6, <1>10
<1>17. \A n \in 1 .. SectorSize - g.cur_soffset : Fits(d2, own, pos, f, g.size + n)
  <2>1. g.size = h.size /\ g.cur_soffset = 0
    BY <1>3, <1>13
  <2>2. \A n \in 1 .. SectorSize - 0 : n \in 0 .. SectorSize
    BY Constants
  <2>3. QED BY <1>5, <1>6, <1>10, <2>1, <2>2
<1>18. /\ g.filemode = "write" /\ g.entry = f /\ g.cur_entry \in Live(d2) /\ own[g.cur_entry] = f
       /\ d2[g.cur_entry].next = None /\ d2[f].kind = "name"
  BY <1>4, <1>5, <1>6, <1>10, <1>13
<1>19. /\ g.cur_sindex >= 0 /\ Filled(d2[g.cur_entry], g.cur_sindex + 1)
       /\ g.cur_sector = d2[g.cur_entry].sectors[g.cur_sindex] /\ g.cur_sector # None
  BY <1>7, <1>10, <1>12, <1>13, Constants DEF Sector
<1>20. \E q \in 0 .. g.size : g.size = SectorSize * q + g.cur_soffset
  BY <1>3, <1>5, <1>13
<1>21. QED
  BY <1>3, <1>4, <1>10, <1>11, <1>13, <1>14, <1>15, <1>16, <1>17, <1>18, <1>19, <1>20, StoresSome

LEMMA WriteNewEntryKeeps ==
  ASSUME NEW own, NEW rank, NEW pos, Good(dir, own, rank, pos), queue = <<>>, WriteNewEntry
  PROVE  IInv'
<1> DEFINE h == fh[busy.c]
           f == h.entry
           i == h.cur_entry
           max == curentry_max_sectors(dir[i])
           j == next_free_entry(i)
<1>1. /\ Files(dir, own, rank, pos) /\ Counted(used_sectors, free_sectors, used_entries, dir) /\ Handled(fh, dir, own, pos)
  BY DEF Good
<1>2. PICK s \in next_free_sector(h.cur_sector) \ {None} :
        /\ h.cur_sindex + 1 >= max /\ j # None /\ mark_sector(s)
        /\ used_entries' = used_entries \cup {j}
        /\ StoreSome([h EXCEPT !.cur_sector = s, !.cur_sindex = 0, !.cur_entry = j],
                     <<WriteEntry(i, [dir[i] EXCEPT !.next = j]), WriteEntry(j, NewList(s))>>)
  BY DEF WriteNewEntry
<1>3. WriteMore /\ h.cur_soffset = 0
  BY DEF WriteNewEntry
<1>4. f = fh[busy.c].entry /\ h = fh[busy.c] /\ f = h.entry
  OBVIOUS
<1> HIDE DEF h, f
<1>5. /\ h.filemode = "write" /\ h \in HandleType /\ dir[h.entry].kind = "name"
      /\ h.entry \in Live(dir) /\ h.cur_entry \in Live(dir) /\ own[h.cur_entry] = h.entry
      /\ dir[h.cur_entry].next = None /\ Filled(dir[h.cur_entry], h.cur_sindex + 1)
      /\ h.cur_sindex + 1 \in Nat /\ h.cur_sindex + 1 <= curentry_max_sectors(dir[h.cur_entry])
      /\ Fits(dir, own, pos, h.entry, h.size) /\ h.size \in Nat
      /\ h.cur_sector \in Sector \cup {None}
      /\ \E q \in 0 .. h.size : h.size = SectorSize * q + 0
  BY <1>3, <1>4, AtEnd
<1>6. /\ i \in Live(dir) /\ own[i] = f /\ dir[i].next = None /\ Fits(dir, own, pos, f, h.size)
      /\ dir[f].kind = "name" /\ i \in Entry /\ f \in Entry /\ f \in Live(dir)
  BY <1>4, <1>5 DEF Live
<1>7. Filled(dir[i], max)
  <2>1. max \in Nat
    BY MaxSectors
  <2>2. h.cur_sindex + 1 = max
    BY <1>2, <1>5, <2>1
  <2>3. QED BY <1>5, <2>2
<1>8. s \in Sector /\ s \notin used_sectors
  BY <1>5, FreeSector
<1>9. s \notin UsedOf(dir)
  BY <1>1, <1>8 DEF Counted
<1>10. j \in Entry /\ j \notin used_entries
  <2>1. i \in Int
    BY <1>6 DEF Entry
  <2>2. QED BY <1>2, <2>1, FreeEntry
<1>11. j \notin Live(dir) /\ i # j
  BY <1>1, <1>6, <1>10 DEF Counted
<1> DEFINE e == To(dir[i], j)
           d2 == Set(Set(dir, i, e), j, NewList(s))
           own2 == Set(own, j, own[i])
           rank2 == Set(rank, j, rank[i] + 1)
           pos2 == Set(pos, j, pos[i] + max)
           g == At(h, j, 0, s)
<1>12. /\ d2 = Set(Set(dir, i, To(dir[i], j)), j, NewList(s))
       /\ own2 = Set(own, j, own[i]) /\ rank2 = Set(rank, j, rank[i] + 1)
       /\ pos2 = Set(pos, j, pos[i] + curentry_max_sectors(dir[i]))
       /\ d2 = Set(Set(dir, i, e), j, NewList(s))
  OBVIOUS
<1> HIDE DEF i, j, max, d2, own2, rank2, pos2, g
<1>13. Filled(dir[i], curentry_max_sectors(dir[i]))
  BY <1>7 DEF max
<1>14. /\ Files(d2, own2, rank2, pos2)
       /\ Live(d2) = Live(dir) \cup {j} /\ UsedOf(d2) = UsedOf(dir) \cup {s}
       /\ Untouched(dir, own, pos, d2, own2, pos2, own[i])
       /\ \A z \in Nat, n \in 0 .. SectorSize :
            Fits(dir, own, pos, own[i], z) => Fits(d2, own2, pos2, own[i], z + n)
       /\ To(dir[i], j) \in EntryType /\ d2[j] = NewList(s) /\ own2[j] = own[i]
       /\ \A x \in Live(dir) : d2[x].kind = dir[x].kind
  <2>1. Files(dir, own, rank, pos) /\ i \in Live(dir) /\ dir[i].next = None
    BY <1>1, <1>6
  <2>2. j \in Entry /\ j \notin Live(dir) /\ s \in Sector /\ s \notin UsedOf(dir)
    BY <1>8, <1>9, <1>10, <1>11
  <2>3. /\ d2 = Set(Set(dir, i, To(dir[i], j)), j, NewList(s))
        /\ own2 = Set(own, j, own[i]) /\ rank2 = Set(rank, j, rank[i] + 1)
        /\ pos2 = Set(pos, j, pos[i] + curentry_max_sectors(dir[i]))
    BY <1>12
  <2>4. QED BY ONLY <1>13, <2>1, <2>2, <2>3, EntryAdded
<1>15. StoreSome(g, <<WriteEntry(i, e), WriteEntry(j, NewList(s))>>)
  <2>1. [h EXCEPT !.cur_sector = s, !.cur_sindex = 0, !.cur_entry = j] = g
    BY <1>5 DEF g, At, HandleType
  <2>2. [dir[i] EXCEPT !.next = j] = e
    BY DEF To
  <2> HIDE DEF e
  <2>3. QED BY <1>2, <2>1, <2>2
<1> HIDE DEF e
<1>16. /\ g \in HandleType /\ g.filemode = h.filemode /\ g.entry = h.entry /\ g.size = h.size
       /\ g.cur_offset = h.cur_offset /\ g.cur_soffset = h.cur_soffset
       /\ g.cur_sector = s /\ g.cur_entry = j /\ g.cur_sindex = 0
  <2>1. g = At(h, j, 0, s) /\ s \in Sector \cup {None} /\ 0 \in 0 .. ListSectors - 1
    BY <1>8, Constants DEF g
  <2>2. QED BY <1>5, <1>10, <2>1, Goes
<1>17. Leads(dir, queue', d2)
  <2>1. PICK w : queue' = Append(<<WriteEntry(i, e), WriteEntry(j, NewList(s))>>, w) /\ IsData(w)
    BY <1>15, DataLast
  <2>2. queue' = <<WriteEntry(i, e), WriteEntry(j, NewList(s)), w>>
    BY <2>1, AppendThree
  <2>3. dir[j].kind = "free" /\ dir[i].kind # "free"
    BY <1>6, <1>10, <1>11 DEF Live
  <2>4. e \in EntryType
    BY <1>14 DEF e
  <2>5. QED BY <1>6, <1>8, <1>10, <1>11, <1>12, <2>1, <2>2, <2>3, <2>4 DEF Leads
<1>18. Counted(used_sectors', free_sectors', used_entries', d2)
  <2>1. used_entries' = used_entries \cup {j}
    BY <1>2
  <2>2. Live(d2) \subseteq used_entries' /\ used_entries' \subseteq Entry
    BY <1>1, <1>10, <1>14, <2>1 DEF Counted
  <2>3. QED BY <1>2, <1>8, <1>14, <2>2, CountedOneMore
<1>19. Untouched(dir, own, pos, d2, own2, pos2, f)
  BY <1>6, <1>14
<1>20. \A n \in 1 .. SectorSize - g.cur_soffset : Fits(d2, own2, pos2, f, g.size + n)
  <2>1. g.size = h.size /\ g.cur_soffset = 0
    BY <1>3, <1>16
  <2>2. \A n \in 1 .. SectorSize - 0 : n \in 0 .. SectorSize
    BY Constants
  <2>3. QED BY <1>5, <1>6, <1>14, <2>1, <2>2
<1>21. NewList(s).next = None /\ Filled(NewList(s), 1) /\ NewList(s).sectors[0] = s
  <2>1. NewList(s).sectors[0] = s
    <3>1. 0 \in Slot
      BY Constants DEF Slot
    <3>2. QED BY <3>1 DEF NewList, Erased
  <2>2. QED BY <1>8, <2>1, NewEntries
<1>22. /\ g.filemode = "write" /\ g.entry = f /\ g.cur_entry \in Live(d2) /\ own2[g.cur_entry] = f
       /\ d2[g.cur_entry].next = None /\ d2[f].kind = "name"
  BY <1>4, <1>5, <1>6, <1>14, <1>16, <1>21
<1>23. /\ g.cur_sindex >= 0 /\ Filled(d2[g.cur_entry], g.cur_sindex + 1)
       /\ g.cur_sector = d2[g.cur_entry].sectors[g.cur_sindex] /\ g.cur_sector # None
  BY <1>8, <1>14, <1>16, <1>21, Constants DEF Sector
<1>24. \E q \in 0 .. g.size : g.size = SectorSize * q + g.cur_soffset
  BY <1>3, <1>5, <1>16
<1>25. QED
  BY <1>3, <1>4, <1>14, <1>15, <1>16, <1>17, <1>18, <1>19, <1>20, <1>22, <1>23, <1>24, StoresSome

-----------------------------------------------------------------------------
(***************************************************************************)
(* Closing a file that was written.                                        *)
(***************************************************************************)
LEMMA ClosesEntry ==
  ASSUME NEW own, NEW rank, NEW pos, Good(dir, own, rank, pos), queue = <<>>,
         Running("write"), CloseEntry(busy.c)
  PROVE  IInv'
<1> DEFINE c == busy.c
           h == fh[c]
           f == h.entry
           z == h.size
           e == [dir[f] EXCEPT !.size = z]
           d2 == Set(dir, f, e)
<1>1. /\ Files(dir, own, rank, pos) /\ Counted(used_sectors, free_sectors, used_entries, dir) /\ Handled(fh, dir, own, pos)
  BY DEF Good
<1>2. /\ queue' = <<WriteEntry(f, e)>> /\ busy' = [op |-> "close", c |-> c]
      /\ used_entries' = used_entries /\ used_sectors' = used_sectors /\ free_sectors' = free_sectors
      /\ dir' = dir /\ fh' = fh
  BY DEF CloseEntry, eeprom, ram
<1>3. /\ c \in Channels /\ h.filemode = "write" /\ h \in HandleType /\ Opened(dir, own, pos, h)
      /\ \A b \in Channels \ {c} : fh[b].filemode # "closed" => fh[b].entry # f
  BY IsWriting
<1> HIDE DEF c, h
<1>4. /\ dir[f].kind = "name" /\ h.cur_entry \in Live(dir) /\ own[h.cur_entry] = f
      /\ WritesAt(dir, own, pos, h) /\ f \in Entry /\ z \in Nat /\ h.cur_entry \in Entry
  BY <1>3 DEF Opened, HandleType
<1>5. f \in Live(dir) /\ Fits(dir, own, pos, f, z) /\ dir[f] \in EntryType
      /\ dir \in [Entry -> EntryType]
  BY <1>1, <1>4, FilesTyped DEF Live, WritesAt
<1>6. z \in 0 .. Sectors * SectorSize
  BY <1>4, <1>5, SizeBound
<1> HIDE DEF f, z
<1>7. /\ e \in EntryType /\ e.kind = "name" /\ e.sectors = dir[f].sectors /\ e.next = dir[f].next
      /\ e.size = z
  BY <1>4, <1>5, <1>6 DEF EntryType
<1>8. d2 = Set(dir, f, e)
  OBVIOUS
<1> HIDE DEF e, d2
<1>9. Fits(dir, own, pos, f, e.size)
  BY <1>5, <1>7
<1>10. /\ Files(d2, own, rank, pos)
       /\ Live(d2) = Live(dir) /\ UsedOf(d2) = UsedOf(dir)
       /\ Untouched(dir, own, pos, d2, own, pos, f)
       /\ \A g, y : Fits(dir, own, pos, g, y) => Fits(d2, own, pos, g, y)
  BY <1>1, <1>4, <1>5, <1>7, <1>8, <1>9, Relabelled
<1>11. Counted(used_sectors', free_sectors', used_entries', d2)
  BY <1>1, <1>2, <1>10 DEF Counted
<1>12. \A x \in Entry : d2[x].kind = dir[x].kind /\ d2[x].sectors = dir[x].sectors /\ d2[x].next = dir[x].next
  BY <1>4, <1>5, <1>7, <1>8 DEF Set
<1>13. Opened(d2, own, pos, h)
  <2> DEFINE x == h.cur_entry
  <2>1. d2[x].next = dir[x].next /\ d2[x].sectors = dir[x].sectors
        /\ \A n : Filled(d2[x], n) <=> Filled(dir[x], n)
    BY <1>4, <1>12, SameSectors
  <2>2. h.entry = f /\ h.size = z
    BY DEF f, z
  <2>3. Fits(d2, own, pos, f, z)
    BY <1>5, <1>10
  <2>4. WritesAt(d2, own, pos, h)
    BY <1>4, <2>1, <2>2, <2>3 DEF WritesAt
  <2>5. QED BY <1>3, <1>4, <1>10, <1>12, <2>2, <2>4 DEF Opened
<1>14. Handled(fh', d2, own, pos)
  <2>1. fh' = Set(fh, c, h)
    BY <1>1, <1>2, <1>3 DEF Set, h, Handled
  <2>2. h.filemode # "closed" => Opened(d2, own, pos, h) /\ h.entry = f
    BY <1>13 DEF f
  <2>3. QED BY <1>1, <1>3, <1>10, <2>1, <2>2, OneHandled
<1>15. Leads(dir, queue', d2)
  BY <1>2, <1>4, <1>7, <1>8 DEF Leads
<1>16. Job(fh', busy', d2, rank)
  BY <1>2, <1>3 DEF Job, Closing
<1>17. QED BY <1>1, <1>2, <1>10, <1>11, <1>14, <1>15, <1>16, GoesOn

LEMMA WriteFailsKeeps ==
  ASSUME NEW own, NEW rank, NEW pos, Good(dir, own, rank, pos), queue = <<>>, WriteFails
  PROVE  IInv'
<1>1. Running("write") /\ CloseEntry(busy.c)
  BY DEF WriteFails, WriteMore
<1>2. QED BY <1>1, ClosesEntry

LEMMA WriteDoneKeeps ==
  ASSUME NEW own, NEW rank, NEW pos, Good(dir, own, rank, pos), queue = <<>>, WriteDone
  PROVE  IInv'
<1>1. CASE busy.closing
  <2>1. Running("write") /\ CloseEntry(busy.c)
    BY <1>1 DEF WriteDone
  <2>2. QED BY <2>1, ClosesEntry
<1>2. CASE ~ busy.closing
  <2>1. UNCHANGED <<eeprom, ram, fh, queue>> /\ Job(fh, busy', dir, rank)
    BY <1>2 DEF WriteDone, Job
  <2>2. QED BY <2>1, StaysHandled
<1>3. QED BY <1>1, <1>2
-----------------------------------------------------------------------------
(***************************************************************************)
(* Renaming, deleting, formatting: no handle is on the file.               *)
(***************************************************************************)
LEMMA OthersHandled ==
  ASSUME NEW h, NEW d, NEW own, NEW rank, NEW pos, Files(d, own, rank, pos), Handled(h, d, own, pos),
         NEW d2, NEW own2, NEW pos2, NEW f, Untouched(d, own, pos, d2, own2, pos2, f),
         \A b \in Channels : h[b].filemode # "closed" => h[b].entry # f
  PROVE  Handled(h, d2, own2, pos2)
<1>1. h \in [Channels -> HandleType] /\ Linked(d, own, rank, pos)
  BY DEF Handled, Files
<1>2. ASSUME NEW b \in Channels, h[b].filemode # "closed"
      PROVE  Opened(d2, own2, pos2, h[b])
  <2>1. h[b].entry \in Entry /\ h[b].entry # f /\ Opened(d, own, pos, h[b])
    BY <1>1, <1>2 DEF Handled, HandleType
  <2>2. QED BY <1>1, <2>1, SameOpened
<1>3. QED BY <1>1, <1>2 DEF Handled

LEMMA RenameKeeps ==
  ASSUME NEW own, NEW rank, NEW pos, Good(dir, own, rank, pos), queue = <<>>,
         NEW old \in Names, NEW new \in Names, Rename(old, new)
  PROVE  IInv'
<1> DEFINE f == find_entry(dir, old)
           e == [dir[f] EXCEPT !.name = new]
           d2 == Set(dir, f, e)
<1>1. /\ Files(dir, own, rank, pos) /\ Counted(used_sectors, free_sectors, used_entries, dir) /\ Handled(fh, dir, own, pos)
  BY DEF Good
<1>2. /\ f # None /\ Idle(f) /\ queue' = <<WriteEntry(f, e)>> /\ busy = None /\ busy' = busy
      /\ used_entries' = used_entries /\ used_sectors' = used_sectors /\ free_sectors' = free_sectors
      /\ dir' = dir /\ fh' = fh
  BY DEF Rename, Ready, eeprom, ram
<1>3. f \in Live(dir) /\ dir[f].kind = "name" /\ f \in Entry
  BY <1>2, FoundEntry DEF Live
<1> HIDE DEF f
<1>4. dir[f] \in EntryType /\ Fits(dir, own, pos, f, dir[f].size)
  BY <1>1, <1>3, FilesTyped DEF Sized
<1>5. /\ e \in EntryType /\ e.kind = "name" /\ e.sectors = dir[f].sectors /\ e.next = dir[f].next
      /\ e.size = dir[f].size
  BY <1>3, <1>4 DEF EntryType
<1>6. d2 = Set(dir, f, e)
  OBVIOUS
<1> HIDE DEF e, d2
<1>7. Fits(dir, own, pos, f, e.size)
  BY <1>4, <1>5
<1>8. /\ Files(d2, own, rank, pos)
      /\ Live(d2) = Live(dir) /\ UsedOf(d2) = UsedOf(dir)
      /\ Untouched(dir, own, pos, d2, own, pos, f)
      /\ \A g, y : Fits(dir, own, pos, g, y) => Fits(d2, own, pos, g, y)
  BY <1>1, <1>3, <1>5, <1>6, <1>7, Relabelled
<1>9. Counted(used_sectors', free_sectors', used_entries', d2)
  BY <1>1, <1>2, <1>8 DEF Counted
<1>10. Handled(fh', d2, own, pos)
  <2>1. \A b \in Channels : fh[b].filemode # "closed" => fh[b].entry # f
    BY <1>2 DEF Idle
  <2>2. Handled(fh, d2, own, pos)
    BY <1>1, <1>8, <2>1, OthersHandled
  <2>3. QED BY <1>2, <2>2
<1>11. Leads(dir, queue', d2)
  BY <1>2, <1>3, <1>5, <1>6 DEF Leads
<1>12. Job(fh', busy', d2, rank)
  BY <1>2 DEF Job
<1>13. QED BY <1>1, <1>2, <1>8, <1>9, <1>10, <1>11, <1>12, GoesOn

(* As many sectors as slots that list one.                                  *)
LEMMA AsManySectors ==
  ASSUME NEW e, Tidy(e)
  PROVE  /\ IsFiniteSet(SectorsOf(e)) /\ IsFiniteSet(Listed(e))
         /\ Cardinality(SectorsOf(e)) = Cardinality(Listed(e))
<1> DEFINE S == Listed(e)
           T == SectorsOf(e)
           m == [k \in S |-> e.sectors[k]]
<1>1. IsFiniteSet(S)
  <2>1. PICK n \in 0 .. ListSectors : S = 0 .. n - 1
    BY DEF Tidy, Filled
  <2>2. n - 1 \in Int
    BY Constants
  <2>3. QED BY <2>1, <2>2, FS_Interval
<1>2. T = {m[k] : k \in S} /\ \A k \in S : m[k] \in T
  BY DEF SectorsOf
<1>3. \A k, l \in S : m[k] = m[l] => k = l
  BY DEF Tidy
<1>4. m \in [S -> T]
  BY <1>2
<1>5. m \in Surjection(S, T)
  BY <1>2, <1>4 DEF Surjection
<1>6. m \in Injection(S, T)
  BY <1>3, <1>4 DEF Injection, IsInjective
<1> HIDE DEF S, T, m
<1>7. IsFiniteSet(T) /\ Cardinality(T) = Cardinality(S)
  BY <1>1, <1>5, <1>6, FS_Surjection
<1>8. QED BY <1>1, <1>7 DEF S, T

LEMMA CountedFewer ==
  ASSUME NEW used, NEW S, used \subseteq Sector, S \subseteq used
  PROVE  Sectors - Cardinality(used \ S) = (Sectors - Cardinality(used)) + Cardinality(S)
<1>1. IsFiniteSet(used) /\ IsFiniteSet(S) /\ Cardinality(used) \in Nat /\ Cardinality(S) \in Nat
  BY Finite
<1>2. Cardinality(used \ S) = Cardinality(used) - Cardinality(used \cap S) /\ used \cap S = S
  BY <1>1, FS_Difference
<1>3. QED BY <1>1, <1>2, Constants

LEMMA DeleteEntryKeeps ==
  ASSUME NEW own, NEW rank, NEW pos, Good(dir, own, rank, pos), queue = <<>>, DeleteEntry
  PROVE  IInv'
<1> DEFINE i == busy.at
           S == SectorsOf(dir[i])
           next == dir[i].next
           d2 == Set(dir, i, Erased)
<1>1. /\ Files(dir, own, rank, pos) /\ Counted(used_sectors, free_sectors, used_entries, dir) /\ Handled(fh, dir, own, pos)
      /\ Job(fh, busy, dir, rank)
  BY DEF Good
<1>2. /\ busy # None /\ busy.op = "delete"
      /\ used_sectors' = used_sectors \ {dir[i].sectors[k] : k \in Contiguous(dir[i])}
      /\ free_sectors' = free_sectors + Cardinality(Contiguous(dir[i]))
      /\ queue' = <<WriteEntry(i, Erased)>>
      /\ busy' = IF next = None THEN None ELSE [busy EXCEPT !.at = next]
      /\ used_entries' = used_entries /\ dir' = dir /\ fh' = fh
  BY DEF DeleteEntry, Running, eeprom
<1>3. PICK j \in Live(dir) :
        /\ busy = [op |-> "delete", at |-> j] /\ rank[j] = 0
        /\ \A c \in Channels : fh[c].filemode # "closed" => fh[c].entry # j
  <2>1. ~ Reading(fh, busy) /\ ~ Writing(fh, busy) /\ ~ Closing(busy)
    BY <1>2 DEF Reading, Writing, Closing
  <2>2. Deleting(fh, busy, dir, rank)
    BY <1>1, <1>2, <2>1 DEF Job
  <2>3. QED BY <2>2 DEF Deleting
<1>4. /\ i \in Live(dir) /\ rank[i] = 0 /\ busy = [op |-> "delete", at |-> i]
      /\ \A c \in Channels : fh[c].filemode # "closed" => fh[c].entry # i
  <2>1. i = j
    BY <1>3
  <2>2. QED BY <1>3, <2>1
<1>5. i \in Entry /\ dir[i] \in EntryType /\ Tidy(dir[i]) /\ dir \in [Entry -> EntryType]
  BY <1>1, <1>4, FilesTyped DEF Live, Neat
<1> HIDE DEF i
<1>6. Contiguous(dir[i]) = Listed(dir[i])
  <2>1. PICK n \in 0 .. ListSectors : Listed(dir[i]) = 0 .. n - 1
    BY <1>5 DEF Tidy, Filled
  <2>2. \A k \in 0 .. n - 1 : 0 .. k \subseteq 0 .. n - 1
    BY Constants
  <2>3. QED BY <2>1, <2>2 DEF Contiguous
<1>7. used_sectors' = used_sectors \ S /\ free_sectors' = free_sectors + Cardinality(S)
  <2>1. {dir[i].sectors[k] : k \in Contiguous(dir[i])} = S
    BY <1>6 DEF SectorsOf
  <2>2. Cardinality(Contiguous(dir[i])) = Cardinality(S)
    BY <1>5, <1>6, AsManySectors
  <2>3. QED BY <1>2, <2>1, <2>2
<1>8. d2 = Set(dir, i, Erased)
  OBVIOUS
<1> HIDE DEF S, d2
<1>9. /\ Live(d2) = Live(dir) \ {i} /\ UsedOf(d2) = UsedOf(dir) \ SectorsOf(dir[i])
      /\ dir[i].next # None => dir[i].next \in Live(d2) /\ d2[dir[i].next].kind = "list"
      /\ \E own2, rank2 :
           /\ Files(d2, own2, rank2, pos)
           /\ Untouched(dir, own, pos, d2, own2, pos, i)
           /\ dir[i].next # None => rank2[dir[i].next] = 0
  BY <1>1, <1>4, <1>8, FirstErased
<1>10. PICK own2, rank2 :
         /\ Files(d2, own2, rank2, pos)
         /\ Untouched(dir, own, pos, d2, own2, pos, i)
         /\ next # None => rank2[next] = 0
  BY <1>9
<1>11. Counted(used_sectors', free_sectors', used_entries', d2)
  <2>1. used_sectors = UsedOf(dir) /\ free_sectors = Sectors - Cardinality(used_sectors)
        /\ Live(dir) \subseteq used_entries /\ used_entries \subseteq Entry
    BY <1>1 DEF Counted
  <2>2. used_sectors \subseteq Sector
    <3>1. \A x \in Live(dir) : SectorsOf(dir[x]) \subseteq Sector
      BY <1>5, EntryParts DEF Live
    <3>2. QED BY <2>1, <3>1 DEF UsedOf
  <2>3. S \subseteq used_sectors
    BY <1>4, <2>1 DEF S, UsedOf
  <2>4. used_sectors' = UsedOf(d2)
    BY <1>7, <1>9, <2>1 DEF S
  <2>5. free_sectors' = Sectors - Cardinality(used_sectors')
    BY <1>7, <2>1, <2>2, <2>3, CountedFewer
  <2>6. Live(d2) \subseteq used_entries' /\ used_entries' \subseteq Entry
    BY <1>2, <1>9, <2>1
  <2>7. QED BY <2>4, <2>5, <2>6 DEF Counted
<1>12. Handled(fh', d2, own2, pos)
  <2>1. Handled(fh, d2, own2, pos)
    BY <1>1, <1>4, <1>10, OthersHandled
  <2>2. QED BY <1>2, <2>1
<1>13. Job(fh', busy', d2, rank2)
  <2>1. CASE next = None
    BY <1>2, <2>1 DEF Job
  <2>2. CASE next # None
    <3>1. busy' = [op |-> "delete", at |-> next]
      BY <1>2, <1>4, <2>2
    <3>2. next \in Live(d2) /\ rank2[next] = 0 /\ d2[next].kind = "list"
      BY <1>9, <1>10, <2>2
    <3>3. \A c \in Channels : fh'[c].filemode # "closed" => d2[fh'[c].entry].kind = "name"
      BY <1>12 DEF Handled, Opened
    <3> HIDE DEF next
    <3>4. \A c \in Channels : fh'[c].filemode # "closed" => fh'[c].entry # next
      BY <3>2, <3>3
    <3>5. Deleting(fh', busy', d2, rank2)
      BY <3>1, <3>2, <3>4 DEF Deleting
    <3>6. QED BY <3>5 DEF Job
  <2>3. QED BY <2>1, <2>2
<1>14. Leads(dir, queue', d2)
  <2>1. Erased \in EntryType
    BY NewEntries
  <2>2. QED BY <1>2, <1>5, <1>8, <2>1 DEF Leads
<1>15. QED BY <1>1, <1>2, <1>10, <1>11, <1>12, <1>13, <1>14, GoesOn

LEMMA FormatKeeps ==
  ASSUME NEW own, NEW rank, NEW pos, Good(dir, own, rank, pos), queue = <<>>, Format
  PROVE  IInv'
<1>1. PICK zero : zero \in [Entry -> Entry] /\ zero \in [Entry -> Nat]
  <2> DEFINE none == [i \in Entry |-> 0]
  <2>1. none \in [Entry -> Entry] /\ none \in [Entry -> Nat]
    BY Constants DEF Entry
  <2>2. QED BY <2>1
<1>2. /\ dir' = [i \in Entry |-> Erased] /\ queue' = <<>> /\ busy' = None
      /\ used_entries' = {} /\ used_sectors' = {} /\ free_sectors' = Sectors
      /\ fh' = fh /\ \A c \in Channels : fh[c].filemode = "closed"
  BY DEF Format, Ready
<1>3. Files(dir', zero, zero, zero) /\ Live(dir') = {} /\ UsedOf(dir') = {}
  BY <1>1, <1>2, Emptied
<1>4. Counted(used_sectors', free_sectors', used_entries', dir')
  BY <1>2, <1>3, FS_EmptySet, Constants DEF Counted
<1>5. Handled(fh', dir', zero, zero)
  BY <1>2 DEF Handled, Good
<1>6. Good(dir, zero, zero, zero)'
  BY <1>2, <1>3, <1>4, <1>5 DEF Good, Job
<1>7. Leads(dir, queue, dir)'
  BY <1>2 DEF Leads
<1>8. dir' \in [Entry -> EntryType]
  BY <1>3 DEF Files, Neat
<1>9. Sound(dir)'
  BY <1>3 DEF Sound
<1>10. QED BY <1>6, <1>7, <1>8, <1>9 DEF IInv

-----------------------------------------------------------------------------
(***************************************************************************)
(* The first write, and the lengths.                                       *)
(***************************************************************************)
LEMMA InitTears == Init => TInv
<1> SUFFICES ASSUME Init PROVE TInv
  OBVIOUS
<1>1. queue = <<>> /\ \A c \in Channels : fh[c].filemode = "closed"
  BY Closed DEF Init
<1>2. QED BY <1>1 DEF TInv, Ordered, Growing

(* The types that this needs.                                               *)
LEMMA Lengths ==
  ASSUME IInv
  PROVE  /\ dir \in [Entry -> EntryType] /\ fh \in [Channels -> HandleType]
         /\ \A i \in Entry : dir[i].size \in Nat
         /\ \A c \in Channels : fh[c].size \in Nat /\ fh[c].entry \in Entry
         /\ \A b, c \in Channels : b # c /\ fh[b].filemode = "write" /\ fh[c].filemode = "write" =>
              fh[b].entry # fh[c].entry
<1>1. PICK d, own, rank, pos : Good(d, own, rank, pos)
  BY DEF IInv
<1>2. dir \in [Entry -> EntryType] /\ Handled(fh, d, own, pos)
  BY <1>1 DEF IInv, Good
<1>3. \A i \in Entry : dir[i].size \in Nat
  <2>1. Sectors * SectorSize \in Nat
    BY Constants
  <2>2. QED BY <1>2, <2>1, EntryParts
<1>4. fh \in [Channels -> HandleType]
  BY <1>2 DEF Handled
<1>5. \A c \in Channels : fh[c].size \in Nat /\ fh[c].entry \in Entry
  BY <1>4 DEF HandleType
<1>6. QED BY <1>2, <1>3, <1>4, <1>5 DEF Handled

LEMMA FlushGrows == ASSUME IInv, TInv, Flush PROVE Growing'
<1>1. /\ dir \in [Entry -> EntryType]
      /\ \A i \in Entry : dir[i].size \in Nat
      /\ \A c \in Channels : fh[c].size \in Nat /\ fh[c].entry \in Entry
      /\ \A b, c \in Channels : b # c /\ fh[b].filemode = "write" /\ fh[c].filemode = "write" =>
           fh[b].entry # fh[c].entry
  BY Lengths
<1>2. PICK w : w = Head(queue)
  OBVIOUS
<1>3. queue # <<>> /\ fh' = fh /\ Ordered(queue) /\ Growing
  BY DEF Flush, TInv
<1>4. CASE w.what # "entry"
  <2>1. dir' = dir
    BY <1>2, <1>4 DEF Flush, PutData
  <2>2. QED BY <1>3, <2>1 DEF Growing
<1>5. CASE w.what = "entry"
  <2>1. w.at \in Entry
    BY <1>2, <1>3, <1>5, WrittenAt
  <2>2. dir' = [dir EXCEPT ![w.at] = w.entry]
    BY <1>2, <1>5 DEF Flush, PutEntry, PutData
  <2>3. ASSUME NEW c \in Channels, fh[c].filemode = "write", fh[c].entry = w.at, w.entry.kind = "name"
        PROVE  w.entry.size <= fh[c].size
    <3>1. CASE Making(dir, w)
      BY <1>1, <2>3, <3>1 DEF Making
    <3>2. CASE Renaming(dir, w)
      BY <1>3, <2>3, <3>2 DEF Renaming, Growing
    <3>3. CASE Extending(dir, w)
      <4>1. PICK old \in EntryType : old = dir[w.at]
        BY <1>1, <2>1
      <4>2. /\ \A k, x : With(old, k, x).size = old.size /\ With(old, k, x).kind = old.kind
            /\ \A x : To(old, x).size = old.size /\ To(old, x).kind = old.kind
        BY DEF With, To, EntryType
      <4>3. w.entry.size = dir[w.at].size /\ w.entry.kind = dir[w.at].kind
        BY <3>3, <4>1, <4>2 DEF Extending
      <4>4. QED BY <1>3, <2>3, <4>3 DEF Growing
    <3>4. CASE \E b \in Channels : Sizing(queue, b)
      <4>1. PICK b \in Channels : Sizing(queue, b)
        BY <3>4
      <4>2. w = WriteEntry(fh[b].entry, [dir[fh[b].entry] EXCEPT !.size = fh[b].size])
        BY <1>2, <4>1 DEF Sizing
      <4>3. w.at = fh[b].entry /\ w.entry = [dir[w.at] EXCEPT !.size = fh[b].size]
        BY <4>2, Writes
      <4>4. b = c
        BY <1>1, <2>3, <4>1, <4>3 DEF Sizing
      <4>5. w.entry.size = fh[c].size
        BY <1>1, <2>1, <4>3, <4>4 DEF EntryType
      <4>6. QED BY <1>1, <4>5
    <3>5. ~ IsData(w)
      BY <1>5 DEF IsData
    <3>6. QED BY <1>2, <1>3, <3>1, <3>2, <3>3, <3>4, <3>5 DEF Ordered
  <2>4. ASSUME NEW c \in Channels, fh'[c].filemode = "write", dir'[fh'[c].entry].kind = "name"
        PROVE  dir'[fh'[c].entry].size <= fh'[c].size
    <3>1. CASE fh[c].entry = w.at
      BY <1>1, <1>3, <2>1, <2>2, <2>3, <2>4, <3>1
    <3>2. CASE fh[c].entry # w.at
      <4>1. dir'[fh[c].entry] = dir[fh[c].entry]
        BY <1>1, <2>2, <3>2
      <4>2. QED BY <1>3, <2>4, <4>1 DEF Growing
    <3>3. QED BY <3>1, <3>2
  <2>5. QED BY <2>4 DEF Growing
<1>6. QED BY <1>4, <1>5

(* What comes next is data, or an entry made after the link to it.          *)
LEMMA FlushTears == ASSUME IInv, TInv, Flush PROVE TInv'
<1>1. PICK d : Leads(dir, queue, d)
  BY DEF IInv
<1>2. queue # <<>> /\ queue' = Tail(queue)
  BY DEF Flush
<1>3. CASE queue' = <<>>
  BY <1>3, FlushGrows DEF TInv, Ordered
<1>4. CASE \E w : queue' = <<w>> /\ IsData(w)
  <2>1. PICK w : queue' = <<w>> /\ IsData(w)
    BY <1>4
  <2>2. IsData(Head(queue'))
    BY <2>1
  <2>3. Ordered(queue)'
    BY <2>2 DEF Ordered
  <2>4. QED BY <2>3, FlushGrows DEF TInv
<1>5. ASSUME NEW i \in Entry, NEW j \in Entry, NEW e \in EntryType, NEW s \in Sector, NEW w,
             queue = <<WriteEntry(i, e), WriteEntry(j, NewList(s)), w>>, i # j, dir[j].kind = "free"
      PROVE  TInv'
  <2>1. Head(queue) = WriteEntry(i, e) /\ Head(queue') = WriteEntry(j, NewList(s))
    BY <1>2, <1>5
  <2>2. dir' = [dir EXCEPT ![i] = e]
    <3>1. WriteEntry(i, e).what = "entry" /\ WriteEntry(i, e).what # "data" /\ WriteEntry(i, e).at = i
          /\ WriteEntry(i, e).entry = e
      BY DEF WriteEntry
    <3>2. QED BY <2>1, <3>1 DEF Flush, PutEntry
  <2>3. dir'[j].kind = "free"
    BY <1>5, <2>2 DEF IInv
  <2>4. NewList(s).kind = "list"
    BY NewEntries
  <2>5. Making(dir', Head(queue'))
    BY <2>1, <2>3, <2>4, Writes DEF Making
  <2>6. Head(queue').what = "entry"
    BY <2>1, Writes
  <2>7. Ordered(queue)'
    BY <2>5, <2>6 DEF Ordered
  <2>8. QED BY <2>7, FlushGrows DEF TInv
<1>6. \A x : Tail(<<x>>) = <<>>
  OBVIOUS
<1>7. \A x, y : Tail(<<x, y>>) = <<y>>
  OBVIOUS
<1>8. QED BY <1>1, <1>2, <1>3, <1>4, <1>5, <1>6, <1>7 DEF Leads

LEMMA CutTears == ASSUME PowerFails PROVE TInv'
<1>1. queue' = <<>> /\ \A c \in Channels : fh'[c].filemode = "closed"
  BY Closed DEF PowerFails
<1>2. QED BY <1>1 DEF TInv, Ordered, Growing

(* No writer is new, and none has become shorter.                           *)
LEMMA WritersGrow ==
  ASSUME IInv, TInv, dir' = dir, fh' \in [Channels -> HandleType],
         \A c \in Channels : fh'[c].filemode = "write" =>
           /\ fh[c].filemode = "write" /\ fh'[c].entry = fh[c].entry /\ fh[c].size <= fh'[c].size
  PROVE  Growing'
<1>1. /\ \A i \in Entry : dir[i].size \in Nat
      /\ \A c \in Channels : fh[c].size \in Nat /\ fh[c].entry \in Entry
  BY Lengths
<1>2. ASSUME NEW c \in Channels, fh'[c].filemode = "write", dir[fh[c].entry].kind = "name"
      PROVE  dir[fh[c].entry].size <= fh'[c].size
  <2>1. dir[fh[c].entry].size <= fh[c].size /\ fh[c].size <= fh'[c].size
    BY <1>2 DEF TInv, Growing
  <2>2. fh'[c].size \in Nat
    BY DEF HandleType
  <2>3. QED BY <1>1, <2>1, <2>2
<1>3. QED BY <1>2 DEF Growing

(* Nothing is written, and no handle is one that writes but was.            *)
LEMMA NothingWritten ==
  ASSUME IInv, IInv', TInv, dir' = dir, queue' = <<>>,
         \A c \in Channels : fh'[c].filemode = "write" => fh'[c] = fh[c]
  PROVE  TInv'
<1>1. fh' \in [Channels -> HandleType] /\ \A c \in Channels : fh[c].size \in Nat
  <2>1. PICK d, own, pos : Handled(fh, d, own, pos)'
    BY DEF IInv, Good
  <2>2. QED BY <2>1, Lengths DEF Handled
<1>2. Growing'
  BY <1>1, WritersGrow
<1>3. QED BY <1>2 DEF TInv, Ordered

LEMMA OpensTears ==
  ASSUME IInv, IInv', TInv, queue = <<>>, NEW c \in Channels, NEW n \in Names,
         OpenWrite(c, n) \/ OpenAppend(c, n) \/ OpenRead(c, n)
  PROVE  TInv'
<1>1. /\ dir \in [Entry -> EntryType] /\ fh \in [Channels -> HandleType]
      /\ \A i \in Entry : dir[i].size \in Nat
      /\ \A b \in Channels : fh[b].entry \in Entry
  BY Lengths
<1>2. ASSUME dir' = dir, NEW g \in HandleType, fh' = [fh EXCEPT ![c] = g],
             g.filemode = "write" /\ dir[g.entry].kind = "name" => dir[g.entry].size <= g.size
      PROVE  Growing'
  BY <1>1, <1>2 DEF TInv, Growing
<1>3. CASE OpenWrite(c, n)
  <2> DEFINE e == next_free_entry(0)
             g == [NoHandle EXCEPT !.filemode = "write", !.entry = e, !.cur_entry = e, !.cur_sindex = -1]
  <2>1. /\ e # None /\ dir' = dir /\ fh' = [fh EXCEPT ![c] = g] /\ queue' = <<WriteEntry(e, NewFile(n))>>
    BY <1>3 DEF OpenWrite, eeprom
  <2>2. e \in Entry /\ e \notin used_entries
    BY <2>1, FreeEntry
  <2>3. g \in HandleType /\ g.entry = e
    BY <2>2, NewHandle
  <2> HIDE DEF e, g
  <2>4. dir[e].kind = "free"
    <3>1. PICK own, rank, pos : Good(dir, own, rank, pos)
      BY Settled
    <3>2. e \notin Live(dir)
      BY <2>2, <3>1 DEF Good, Counted
    <3>3. QED BY <2>2, <3>2 DEF Live
  <2>5. Growing'
    BY <1>2, <2>1, <2>3, <2>4
  <2>6. Head(queue') = WriteEntry(e, NewFile(n))
    BY <2>1
  <2>7. NewFile(n).kind = "name" /\ NewFile(n).size = 0
    BY DEF NewFile, Erased
  <2>8. Making(dir', Head(queue')) /\ Head(queue').what = "entry"
    BY <2>1, <2>4, <2>6, <2>7, Writes DEF Making
  <2>9. Ordered(queue)'
    BY <2>8 DEF Ordered
  <2>10. QED BY <2>5, <2>9 DEF TInv
<1>4. CASE OpenAppend(c, n)
  <2> DEFINE e == find_entry(dir, n)
             last == LastEntry(e)
             full == Contiguous(dir[last])
             at == IF full = {} THEN 0 ELSE Cardinality(full) - 1
             g == [NoHandle EXCEPT !.filemode = "write", !.entry = e, !.size = dir[e].size,
                     !.cur_offset = dir[e].size, !.cur_sector = dir[last].sectors[at],
                     !.cur_soffset = dir[e].size % SectorSize, !.cur_entry = last]
  <2>1. dir' = dir /\ fh' = [fh EXCEPT ![c] = g] /\ queue' = <<>> /\ e # None
    BY <1>4 DEF OpenAppend, eeprom
  <2>2. g.filemode = "write" /\ g.entry = e /\ g.size = dir[e].size
    BY DEF NoHandle
  <2>3. e \in Entry
    BY <2>1, FoundEntry DEF Live
  <2>4. fh' \in [Channels -> HandleType]
    BY DEF IInv, Good, Handled
  <2> HIDE DEF e, g
  <2>5. g \in HandleType
    BY <1>1, <2>1, <2>4
  <2>6. dir[g.entry].size <= g.size
    BY <1>1, <2>2, <2>3
  <2>7. Growing'
    BY <1>2, <2>1, <2>5, <2>6
  <2>8. QED BY <2>1, <2>7 DEF TInv, Ordered
<1>5. CASE OpenRead(c, n)
  <2>1. PICK g : g.filemode = "read" /\ fh' = [fh EXCEPT ![c] = g]
    BY <1>5 DEF OpenRead, NoHandle
  <2>2. dir' = dir /\ queue' = <<>>
    BY <1>5 DEF OpenRead, eeprom
  <2>3. \A b \in Channels : fh'[b].filemode = "write" => fh'[b] = fh[b]
    BY <1>1, <2>1
  <2>4. QED BY <2>2, <2>3, NothingWritten
<1>6. QED BY <1>3, <1>4, <1>5

(* The directory and the handles stay, or one is closed.                    *)
LEMMA QuietTears ==
  ASSUME IInv, IInv', TInv, queue = <<>>, UNCHANGED <<dir, queue>>,
         fh' = fh \/ \E c \in Channels : fh' = [fh EXCEPT ![c] = NoHandle]
  PROVE  TInv'
<1>1. fh \in [Channels -> HandleType]
  BY Lengths
<1>2. \A c \in Channels : fh'[c].filemode = "write" => fh'[c] = fh[c]
  BY <1>1, Closed
<1>3. QED BY <1>2, NothingWritten

LEMMA ReadSomeTears == ASSUME IInv, IInv', TInv, queue = <<>>, ReadSome PROVE TInv'
<1>1. PICK own, rank, pos : Good(dir, own, rank, pos)
  BY Settled
<1>2. Running("read") /\ dir' = dir /\ queue' = <<>>
  BY DEF ReadSome, eeprom
<1>3. PICK c \in Channels : /\ c = busy.c /\ fh[c].filemode = "read" /\ fh[c] \in HandleType
                           /\ busy.left \in Nat /\ busy.left > 0
  BY <1>1, <1>2, IsReading DEF ReadSome
<1>4. PICK g : fh' = [fh EXCEPT ![c] = g] /\ g.filemode = "read"
  <2> DEFINE h == fh[c]
             room == SectorSize - h.cur_soffset
             n == Min(busy.left, room)
             a == Advanced(h, n)
  <2>1. fh' = [fh EXCEPT ![c] = a] \/ fh' = [fh EXCEPT ![c] = NextSector(a)]
    BY <1>3 DEF ReadSome
  <2>2. h.cur_soffset \in 0 .. SectorSize - 1
    BY <1>3 DEF HandleType
  <2>3. room \in Nat \ {0} /\ busy.left \in Nat \ {0}
    <3>1. room \in Nat \ {0}
      BY ONLY <2>2, Constants
    <3>2. busy.left \in Nat \ {0}
      BY ONLY <1>3
    <3>3. QED BY <3>1, <3>2
  <2>4. n \in 1 .. SectorSize - h.cur_soffset
    <3> HIDE DEF room
    <3>1. n \in Nat \ {0} /\ n <= room
      BY <2>3, Lesser
    <3>2. QED BY <2>3, <3>1 DEF room
  <2> HIDE DEF h, n, room
  <2>5. a \in HandleType /\ a.filemode = "read"
    <3>1. h \in HandleType /\ h.filemode = "read"
      BY <1>3 DEF h
    <3>2. PICK x : x = a
      OBVIOUS
    <3>3. QED BY <2>4, <3>1, Advances
  <2> HIDE DEF a
  <2>6. NextSector(a).filemode = "read"
    BY <2>5 DEF NextSector, HandleType
  <2>7. QED BY <2>1, <2>5, <2>6
<1>5. fh \in [Channels -> HandleType]
  BY Lengths
<1>6. \A b \in Channels : fh'[b].filemode = "write" => fh'[b] = fh[b]
  BY <1>4, <1>5
<1>7. QED BY <1>2, <1>6, NothingWritten

(* Once around the loop: the file grows on its channel.                     *)
LEMMA StoreGrows ==
  ASSUME IInv, TInv, NEW own, NEW rank, NEW pos, Good(dir, own, rank, pos), queue = <<>>, WriteMore,
         NEW h \in HandleType, h.filemode = "write", h.entry = fh[busy.c].entry,
         h.size = fh[busy.c].size, NEW entries, StoreSome(h, entries)
  PROVE  Growing'
<1> DEFINE n == Min(busy.left, SectorSize - h.cur_soffset)
           g == Longer(h, n)
<1>1. busy.c \in Channels /\ busy.left \in Nat /\ fh[busy.c].filemode = "write" /\ busy.left > 0
  BY IsWriting DEF WriteMore
<1>2. fh' = [fh EXCEPT ![busy.c] = g] /\ dir' = dir
  BY DEF StoreSome, eeprom, Longer
<1>3. n \in 1 .. SectorSize - h.cur_soffset /\ n \in Nat
  <2> DEFINE room == SectorSize - h.cur_soffset
  <2>1. h.cur_soffset \in 0 .. SectorSize - 1
    BY DEF HandleType
  <2>2. room \in Nat \ {0}
    BY ONLY <2>1, Constants
  <2>3. busy.left \in Nat \ {0}
    BY ONLY <1>1
  <2> HIDE DEF room
  <2>4. n \in Nat \ {0} /\ n <= room
    BY <2>2, <2>3, Lesser DEF room
  <2>5. QED BY <2>2, <2>4 DEF room
<1> HIDE DEF n, g
<1>4. g \in HandleType /\ g.filemode = "write" /\ g.entry = h.entry /\ g.size = h.size + n
  <2>1. g = Longer(h, n)
    BY DEF g
  <2>2. QED BY <1>3, <2>1, Lengthens
<1>5. fh \in [Channels -> HandleType] /\ \A c \in Channels : fh[c].size \in Nat
  BY Lengths
<1>6. fh' \in [Channels -> HandleType] /\ fh'[busy.c] = g /\ \A c \in Channels \ {busy.c} : fh'[c] = fh[c]
  BY <1>1, <1>2, <1>4, <1>5
<1>7. fh[busy.c].size <= g.size
  BY <1>1, <1>3, <1>4, <1>5
<1>8. \A c \in Channels : fh'[c].filemode = "write" =>
        /\ fh[c].filemode = "write" /\ fh'[c].entry = fh[c].entry /\ fh[c].size <= fh'[c].size
  BY <1>1, <1>4, <1>5, <1>6, <1>7
<1>9. QED BY <1>2, <1>6, <1>8, WritersGrow

LEMMA WriteInSectorTears == ASSUME IInv, TInv, queue = <<>>, WriteInSector PROVE TInv'
<1>1. PICK own, rank, pos : Good(dir, own, rank, pos)
  BY Settled
<1>2. WriteMore /\ StoreSome(fh[busy.c], <<>>)
  BY DEF WriteInSector
<1>3. fh[busy.c].filemode = "write" /\ fh[busy.c] \in HandleType
  BY <1>1, <1>2, IsWriting DEF WriteMore
<1>4. Growing'
  BY <1>1, <1>2, <1>3, StoreGrows
<1>5. IsData(Head(queue'))
  <2>1. PICK w : queue' = <<w>> /\ IsData(w)
    BY <1>2 DEF StoreSome, IsData, WriteData
  <2>2. QED BY <2>1
<1>6. QED BY <1>4, <1>5 DEF TInv, Ordered

LEMMA WriteNewSectorTears == ASSUME IInv, TInv, queue = <<>>, WriteNewSector PROVE TInv'
<1> DEFINE h == fh[busy.c]
           k == h.cur_sindex + 1
           i == h.cur_entry
<1>1. PICK own, rank, pos : Good(dir, own, rank, pos)
  BY Settled
<1>2. PICK s \in next_free_sector(h.cur_sector) \ {None} :
        /\ k < curentry_max_sectors(dir[i])
        /\ StoreSome([h EXCEPT !.cur_sector = s, !.cur_sindex = k],
                     <<WriteEntry(i, [dir[i] EXCEPT !.sectors[k] = s])>>)
  BY DEF WriteNewSector
<1>3. WriteMore /\ h.cur_soffset = 0
  BY DEF WriteNewSector
<1>4. h = fh[busy.c]
  OBVIOUS
<1> HIDE DEF h
<1>5. /\ h.filemode = "write" /\ h \in HandleType /\ h.cur_entry \in Live(dir)
      /\ h.cur_sindex + 1 \in Nat /\ h.cur_sector \in Sector \cup {None}
  BY <1>1, <1>3, <1>4, AtEnd
<1>6. s \in Sector /\ i \in Entry /\ dir[i].kind # "free"
  BY <1>5, FreeSector DEF Live
<1>7. k \in Slot /\ k \in 0 .. ListSectors - 1
  BY <1>2, <1>5, MaxSectors, Constants DEF Slot
<1>8. PICK g : g = At(h, i, k, s)
  OBVIOUS
<1>9. /\ g = [h EXCEPT !.cur_sector = s, !.cur_sindex = k]
      /\ g \in HandleType /\ g.filemode = "write" /\ g.entry = h.entry /\ g.size = h.size
  <2>1. g = [h EXCEPT !.cur_sector = s, !.cur_sindex = k]
    BY <1>5, <1>8 DEF At, HandleType
  <2>2. g \in HandleType /\ g.filemode = h.filemode /\ g.entry = h.entry /\ g.size = h.size
    BY <1>5, <1>6, <1>7, <1>8, Goes
  <2>3. QED BY <1>5, <2>1, <2>2
<1> DEFINE entries == <<WriteEntry(i, [dir[i] EXCEPT !.sectors[k] = s])>>
<1>10. StoreSome(g, entries)
  BY <1>2, <1>9
<1>11. Growing' /\ dir' = dir
  <2> HIDE DEF entries
  <2>1. Growing'
    BY <1>1, <1>3, <1>4, <1>9, <1>10, StoreGrows
  <2>2. QED BY <1>10, <2>1 DEF StoreSome, eeprom
<1>12. Head(queue') = WriteEntry(i, With(dir[i], k, s))
  <2>1. PICK w : queue' = Append(entries, w)
    BY <1>10 DEF StoreSome
  <2>2. PICK v : v = WriteEntry(i, With(dir[i], k, s)) /\ entries = <<v>>
    BY DEF With
  <2>3. Head(Append(<<v>>, w)) = v
    OBVIOUS
  <2>4. QED BY <2>1, <2>2, <2>3
<1>13. Extending(dir', Head(queue')) /\ Head(queue').what = "entry"
  BY <1>6, <1>7, <1>11, <1>12, Writes DEF Extending
<1>14. QED BY <1>11, <1>13 DEF TInv, Ordered

LEMMA WriteNewEntryTears == ASSUME IInv, TInv, queue = <<>>, WriteNewEntry PROVE TInv'
<1> DEFINE h == fh[busy.c]
           i == h.cur_entry
           j == next_free_entry(i)
<1>1. PICK own, rank, pos : Good(dir, own, rank, pos)
  BY Settled
<1>2. PICK s \in next_free_sector(h.cur_sector) \ {None} :
        /\ j # None
        /\ StoreSome([h EXCEPT !.cur_sector = s, !.cur_sindex = 0, !.cur_entry = j],
                     <<WriteEntry(i, [dir[i] EXCEPT !.next = j]), WriteEntry(j, NewList(s))>>)
  BY DEF WriteNewEntry
<1>3. WriteMore /\ h.cur_soffset = 0
  BY DEF WriteNewEntry
<1>4. h = fh[busy.c]
  OBVIOUS
<1> HIDE DEF h
<1>5. /\ h.filemode = "write" /\ h \in HandleType /\ h.cur_entry \in Live(dir)
      /\ h.cur_sector \in Sector \cup {None}
  BY <1>1, <1>3, <1>4, AtEnd
<1>6. s \in Sector /\ i \in Entry /\ dir[i].kind # "free"
  BY <1>5, FreeSector DEF Live
<1>7. j \in Entry
  <2>1. i \in Int
    BY <1>6 DEF Entry
  <2>2. QED BY <1>2, <2>1, FreeEntry
<1> HIDE DEF j
<1>8. PICK g : g = [h EXCEPT !.cur_sector = s, !.cur_sindex = 0, !.cur_entry = j]
  OBVIOUS
<1>9. g \in HandleType /\ g.filemode = "write" /\ g.entry = h.entry /\ g.size = h.size
  <2>1. 0 \in -1 .. ListSectors - 1
    BY Constants
  <2>2. QED BY <1>5, <1>6, <1>7, <1>8, <2>1 DEF HandleType
<1> DEFINE entries == <<WriteEntry(i, [dir[i] EXCEPT !.next = j]), WriteEntry(j, NewList(s))>>
<1>10. StoreSome(g, entries)
  BY <1>2, <1>8
<1>11. Growing' /\ dir' = dir
  <2> HIDE DEF entries
  <2>1. Growing'
    BY <1>1, <1>3, <1>4, <1>9, <1>10, StoreGrows
  <2>2. QED BY <1>10, <2>1 DEF StoreSome, eeprom
<1>12. Head(queue') = WriteEntry(i, To(dir[i], j))
  <2>1. PICK w : queue' = Append(entries, w)
    BY <1>10 DEF StoreSome
  <2>2. PICK v, u : v = WriteEntry(i, To(dir[i], j)) /\ entries = <<v, u>>
    BY DEF To
  <2>3. Head(Append(<<v, u>>, w)) = v
    OBVIOUS
  <2>4. QED BY <2>1, <2>2, <2>3
<1>13. Extending(dir', Head(queue')) /\ Head(queue').what = "entry"
  BY <1>6, <1>7, <1>11, <1>12, Writes DEF Extending
<1>14. QED BY <1>11, <1>13 DEF TInv, Ordered

LEMMA CloseTears ==
  ASSUME IInv, IInv', TInv, queue = <<>>, Running("write"), CloseEntry(busy.c)
  PROVE  TInv'
<1>1. PICK own, rank, pos : Good(dir, own, rank, pos)
  BY Settled
<1>2. PICK c \in Channels : c = busy.c
  BY <1>1, IsWriting
<1>3. /\ fh[c].filemode = "write" /\ dir[fh[c].entry].kind = "name"
      /\ dir' = dir /\ fh' = fh /\ Growing /\ CloseEntry(c)
  BY <1>1, <1>2, IsWriting DEF Opened, CloseEntry, eeprom, TInv
<1>4. Sizing(queue, c)'
  BY <1>3 DEF Sizing, CloseEntry
<1>5. Ordered(queue)'
  BY <1>2, <1>4 DEF Ordered
<1>6. Growing'
  BY <1>3 DEF Growing
<1>7. QED BY <1>5, <1>6 DEF TInv

LEMMA RenameTears ==
  ASSUME IInv, TInv, NEW old \in Names, NEW new \in Names, Rename(old, new)
  PROVE  TInv'
<1> DEFINE f == find_entry(dir, old)
           e == [dir[f] EXCEPT !.name = new]
<1>1. /\ f # None /\ find_entry(dir, new) = None /\ queue' = <<WriteEntry(f, e)>> /\ dir' = dir /\ fh' = fh
  BY DEF Rename, eeprom
<1>2. f \in Live(dir) /\ dir[f].kind = "name" /\ dir[f] \in EntryType
  BY <1>1, FoundEntry DEF Live, IInv
<1> HIDE DEF f
<1>3. dir[f].name # new
  BY <1>1, <1>2, FindsNone
<1>4. e.kind = dir[f].kind /\ e.name = new /\ e.size = dir[f].size
  BY <1>2 DEF EntryType
<1> HIDE DEF e
<1>5. Head(queue') = WriteEntry(f, e)
  BY <1>1
<1>6. Renaming(dir', Head(queue')) /\ Head(queue').what = "entry"
  BY <1>1, <1>3, <1>4, <1>5, Writes DEF Renaming
<1>7. Growing'
  BY <1>1 DEF TInv, Growing
<1>8. QED BY <1>6, <1>7 DEF TInv, Ordered

LEMMA DeleteEntryTears == ASSUME IInv, TInv, queue = <<>>, DeleteEntry PROVE TInv'
<1>1. PICK own, rank, pos : Good(dir, own, rank, pos)
  BY Settled
<1>2. /\ busy # None /\ busy.op = "delete"
      /\ queue' = <<WriteEntry(busy.at, Erased)>> /\ dir' = dir /\ fh' = fh
  BY DEF DeleteEntry, Running, eeprom
<1>3. busy.at \in Live(dir)
  <2>1. ~ Reading(fh, busy) /\ ~ Writing(fh, busy) /\ ~ Closing(busy)
    BY <1>2 DEF Reading, Writing, Closing
  <2>2. Deleting(fh, busy, dir, rank)
    BY <1>1, <1>2, <2>1 DEF Job, Good
  <2>3. QED BY <2>2 DEF Deleting
<1>4. Head(queue') = WriteEntry(busy.at, Erased)
  BY <1>2
<1>5. Erased.kind = "free" /\ dir[busy.at].kind # "free"
  BY <1>3 DEF Erased, Live
<1>6. Making(dir', Head(queue')) /\ Head(queue').what = "entry"
  BY <1>2, <1>4, <1>5, Writes DEF Making
<1>7. Growing'
  BY <1>2 DEF TInv, Growing
<1>8. QED BY <1>6, <1>7 DEF TInv, Ordered

LEMMA FormatTears == ASSUME queue = <<>>, Format PROVE TInv'
<1>1. queue' = <<>> /\ \A c \in Channels : fh'[c].filemode = "closed"
  BY DEF Format
<1>2. QED BY <1>1 DEF TInv, Ordered, Growing

-----------------------------------------------------------------------------
(***************************************************************************)
(* The theorems.                                                           *)
(***************************************************************************)
LEMMA StaysTrue ==
  ASSUME IInv, TInv, ~ AnyAppend, ~ AnyCut, ~ AnyTear, [Next]_vars
  PROVE  IInv'
<1>1. CASE UNCHANGED vars
  <2>1. /\ dir' = dir /\ queue' = queue /\ fh' = fh /\ busy' = busy
        /\ used_entries' = used_entries /\ used_sectors' = used_sectors /\ free_sectors' = free_sectors
    BY <1>1 DEF vars, eeprom, ram
  <2>2. IInv' <=> IInv
    BY <2>1 DEF IInv, Good, Linking
  <2>3. QED BY <2>2
<1>2. CASE Flush
  BY <1>2, FlushKeeps
<1>3. CASE PowerFails
  BY <1>3, PowerFailsKeeps
<1>4. ASSUME queue = <<>>, Next, ~ Flush, ~ PowerFails
      PROVE  IInv'
  <2>1. PICK own, rank, pos : Good(dir, own, rank, pos)
    BY <1>4, Settled
  <2>2. ASSUME NEW c \in Channels, NEW n \in Names, OpenWrite(c, n) \/ OpenAppend(c, n) \/ OpenRead(c, n)
        PROVE  IInv'
    BY <1>4, <2>1, <2>2, OpenWriteKeeps, OpenAppendKeeps, OpenReadKeeps
  <2>3. ASSUME NEW c \in Channels, Read(c) \/ CloseRead(c)
        PROVE  IInv'
    BY <1>4, <2>1, <2>3, ReadKeeps, CloseReadKeeps
  <2>4. ASSUME NEW c \in Channels, NEW n \in Nat, NEW closing \in BOOLEAN, Write(c, n, closing)
        PROVE  IInv'
    BY <1>4, <2>1, <2>4, WriteKeeps
  <2>5. CASE ReadSome \/ ReadDone
    BY <1>4, <2>1, <2>5, ReadSomeKeeps, ReadDoneKeeps
  <2>6. CASE WriteInSector \/ WriteNewSector \/ WriteNewEntry
    BY <1>4, <2>1, <2>6, WriteInSectorKeeps, WriteNewSectorKeeps, WriteNewEntryKeeps
  <2>7. CASE WriteFails \/ WriteDone \/ CloseDone
    BY <1>4, <2>1, <2>7, WriteFailsKeeps, WriteDoneKeeps, CloseDoneKeeps
  <2>8. ASSUME NEW n \in Names, Delete(n)
        PROVE  IInv'
    BY <1>4, <2>1, <2>8, DeleteKeeps
  <2>9. ASSUME NEW old \in Names, NEW new \in Names, Rename(old, new)
        PROVE  IInv'
    BY <1>4, <2>1, <2>9, RenameKeeps
  <2>10. CASE DeleteEntry \/ Format
    BY <1>4, <2>1, <2>10, DeleteEntryKeeps, FormatKeeps
  <2>11. Block \in Nat /\ Rests \subseteq Nat /\ TRUE \in BOOLEAN /\ FALSE \in BOOLEAN
    BY Constants
  <2>12. QED
    BY <1>4, <2>2, <2>3, <2>4, <2>5, <2>6, <2>7, <2>8, <2>9, <2>10, <2>11 DEF Next
<1>5. Next /\ ~ Flush /\ ~ PowerFails => queue = <<>>
  BY DEF Next, OpenWrite, OpenAppend, OpenRead, Read, CloseRead, Write, ReadSome, ReadDone, WriteInSector,
         WriteNewSector, WriteNewEntry, WriteFails, WriteDone, CloseDone, Delete, Rename, DeleteEntry, Format,
         WriteMore, Opens, Ready, Running
<1>6. QED BY <1>1, <1>2, <1>3, <1>4, <1>5

LEMMA TearsStay == ASSUME IInv, TInv, IInv', [Next]_vars PROVE TInv'
<1>1. CASE UNCHANGED vars
  BY <1>1 DEF vars, eeprom, TInv, Ordered, Growing, Sizing
<1>2. CASE Flush
  BY <1>2, FlushTears
<1>3. CASE PowerFails
  BY <1>3, CutTears
<1>4. ASSUME queue = <<>>, Next, ~ Flush, ~ PowerFails
      PROVE  TInv'
  <2>1. ASSUME NEW c \in Channels, NEW n \in Names, OpenWrite(c, n) \/ OpenAppend(c, n) \/ OpenRead(c, n)
        PROVE  TInv'
    BY <1>4, <2>1, OpensTears
  <2>2. ASSUME NEW c \in Channels, Read(c) \/ CloseRead(c) \/ \E n, closing : Write(c, n, closing)
        PROVE  TInv'
    <3>1. UNCHANGED <<dir, queue>> /\ (fh' = fh \/ fh' = [fh EXCEPT ![c] = NoHandle])
      BY <2>2 DEF Read, CloseRead, Write, eeprom
    <3>2. QED BY <1>4, <3>1, QuietTears
  <2>3. CASE ReadSome
    BY <1>4, <2>3, ReadSomeTears
  <2>4. CASE ReadDone \/ CloseDone
    <3>1. PICK c \in Channels : ReadDone \/ c = busy.c
      <4>1. CASE ReadDone
        <5>1. PICK own, rank, pos : Good(dir, own, rank, pos)
          BY <1>4, Settled
        <5>2. busy.c \in Channels
          BY <4>1, <5>1, IsReading DEF ReadDone
        <5>3. QED BY <5>2
      <4>2. CASE CloseDone
        <5>1. PICK own, rank, pos : Good(dir, own, rank, pos)
          BY <1>4, Settled
        <5>2. Job(fh, busy, dir, rank) /\ busy # None /\ busy.op = "close"
          BY <4>2, <5>1 DEF Good, CloseDone, Running
        <5>3. ~ Reading(fh, busy) /\ ~ Writing(fh, busy) /\ ~ Deleting(fh, busy, dir, rank)
          BY <5>2 DEF Reading, Writing, Deleting
        <5>4. busy.c \in Channels
          BY <5>2, <5>3 DEF Job, Closing
        <5>5. QED BY <5>4
      <4>3. QED BY <2>4, <4>1, <4>2
    <3>2. UNCHANGED <<dir, queue>> /\ (fh' = fh \/ fh' = [fh EXCEPT ![c] = NoHandle])
      BY <2>4, <3>1 DEF ReadDone, CloseDone, eeprom
    <3>3. QED BY <1>4, <3>2, QuietTears
  <2>5. CASE WriteInSector \/ WriteNewSector \/ WriteNewEntry
    BY <1>4, <2>5, WriteInSectorTears, WriteNewSectorTears, WriteNewEntryTears
  <2>6. CASE WriteFails \/ WriteDone
    <3>1. CASE Running("write") /\ CloseEntry(busy.c)
      BY <1>4, <3>1, CloseTears
    <3>2. CASE UNCHANGED <<dir, queue>> /\ fh' = fh
      BY <1>4, <3>2, QuietTears
    <3>3. QED BY <2>6, <3>1, <3>2 DEF WriteFails, WriteMore, WriteDone, eeprom
  <2>7. ASSUME NEW n \in Names, Delete(n)
        PROVE  TInv'
    <3>1. UNCHANGED <<dir, queue>> /\ fh' = fh
      BY <2>7 DEF Delete, eeprom
    <3>2. QED BY <1>4, <3>1, QuietTears
  <2>8. ASSUME NEW old \in Names, NEW new \in Names, Rename(old, new)
        PROVE  TInv'
    BY <2>8, RenameTears
  <2>9. CASE DeleteEntry \/ Format
    BY <1>4, <2>9, DeleteEntryTears, FormatTears
  <2>10. QED BY <1>4, <2>1, <2>2, <2>3, <2>4, <2>5, <2>6, <2>7, <2>8, <2>9 DEF Next
<1>5. Next /\ ~ Flush /\ ~ PowerFails => queue = <<>>
  BY DEF Next, OpenWrite, OpenAppend, OpenRead, Read, CloseRead, Write, ReadSome, ReadDone, WriteInSector,
         WriteNewSector, WriteNewEntry, WriteFails, WriteDone, CloseDone, Delete, Rename, DeleteEntry, Format,
         WriteMore, Opens, Ready, Running
<1>6. QED BY <1>1, <1>2, <1>3, <1>4, <1>5

(* The invariant holds of every behaviour in which append is used where it   *)
(* works, and the power fails neither between a link and its entry nor inside  *)
(* the write that erases or renames an entry.                               *)
THEOREM DirectoryKept ==
  ASSUME ~ AnyAppend, ~ AnyCut, ~ AnyTear
  PROVE  Spec => [](IInv /\ TInv)
<1>1. Init => IInv /\ TInv
  BY InitGood, InitTears
<1>2. (IInv /\ TInv) /\ [Next]_vars => (IInv /\ TInv)'
  BY StaysTrue, TearsStay
<1>3. QED BY <1>1, <1>2, PTL DEF Spec

LEMMA Typed == ASSUME IInv PROVE TypeOK
<1>1. PICK d, own, rank, pos : Leads(dir, queue, d) /\ Good(d, own, rank, pos)
  BY DEF IInv
<1>2. Files(d, own, rank, pos) /\ Counted(used_sectors, free_sectors, used_entries, d) /\ Handled(fh, d, own, pos)
  BY <1>1 DEF Good
<1>3. ASSUME NEW i \in Entry
      PROVE  /\ dir[i].kind \in {"free", "name", "list"}
             /\ dir[i].name \in Names \cup {None}
             /\ dir[i].size \in 0 .. Sectors * SectorSize
             /\ \A k \in Slot : dir[i].sectors[k] \in Sector \cup {None}
             /\ dir[i].next \in Entry \cup {None}
  <2>1. dir[i] \in EntryType
    BY DEF IInv
  <2>2. QED BY <2>1, EntryParts
<1>4. used_sectors \subseteq Sector
  <2>1. \A i \in Live(d) : SectorsOf(d[i]) \subseteq Sector
    BY <1>2, FilesTyped, EntryParts DEF Live
  <2>2. QED BY <1>2, <2>1 DEF UsedOf, Counted
<1>5. used_entries \subseteq Entry
  BY <1>2 DEF Counted
<1>6. free_sectors \in 0 .. Sectors
  <2>1. Cardinality(used_sectors) \in Nat /\ Cardinality(used_sectors) <= Sectors
    BY <1>4, Finite
  <2>2. QED BY <1>2, <2>1, Constants DEF Counted
<1>7. ASSUME NEW c \in Channels
      PROVE  /\ fh[c].filemode \in {"closed", "read", "write"}
             /\ fh[c].entry \in Entry /\ fh[c].cur_entry \in Entry
             /\ fh[c].cur_sindex \in -1 .. ListSectors - 1
             /\ fh[c].cur_sector \in Sector \cup {None}
             /\ fh[c].cur_soffset \in 0 .. SectorSize - 1
  <2>1. fh[c] \in HandleType
    BY <1>2 DEF Handled
  <2>2. QED BY <2>1 DEF HandleType
<1>8. QED BY <1>3, <1>4, <1>5, <1>6, <1>7 DEF TypeOK

LEMMA KeepsBooks == ASSUME IInv PROVE Bookkeeping
<1>1. TypeOK
  BY Typed
<1>2. SUFFICES ASSUME Ready
               PROVE  /\ used_sectors = UsedOf(dir)
                      /\ free_sectors = Sectors - Cardinality(used_sectors)
                      /\ Live(dir) \subseteq used_entries
                      /\ \A c \in Channels : fh[c].filemode # "closed" /\ fh[c].size > 0 =>
                           /\ fh[c].cur_sindex >= 0
                           /\ dir[fh[c].cur_entry].sectors[fh[c].cur_sindex] = fh[c].cur_sector
  BY <1>1 DEF Bookkeeping, UsedOf
<1>3. PICK own, rank, pos : Good(dir, own, rank, pos)
  BY <1>2, Settled DEF Ready
<1>4. Counted(used_sectors, free_sectors, used_entries, dir) /\ Handled(fh, dir, own, pos)
  BY <1>3 DEF Good
<1>5. ASSUME NEW c \in Channels, fh[c].filemode # "closed", fh[c].size > 0
      PROVE  /\ fh[c].cur_sindex >= 0
             /\ dir[fh[c].cur_entry].sectors[fh[c].cur_sindex] = fh[c].cur_sector
  <2>1. fh[c] \in HandleType /\ Opened(dir, own, pos, fh[c])
    BY <1>4, <1>5 DEF Handled
  <2> DEFINE h == fh[c]
  <2>2. h.filemode \in {"read", "write"} /\ h.cur_sindex \in -1 .. ListSectors - 1
    BY <1>5, <2>1 DEF HandleType
  <2> HIDE DEF h
  <2>3. CASE h.filemode = "read"
    <3>1. ReadsAt(dir, pos, h)
      BY <2>1, <2>3 DEF Opened, h
    <3>2. h.cur_sindex >= 0 /\ dir[h.cur_entry].sectors[h.cur_sindex] = h.cur_sector
      BY <2>2, <3>1 DEF ReadsAt
    <3>3. QED BY <3>2 DEF h
  <2>4. CASE h.filemode = "write"
    <3>1. WritesAt(dir, own, pos, h) /\ h.size > 0
      BY <1>5, <2>1, <2>4 DEF Opened, h
    <3>2. h.cur_sindex # -1
      BY <3>1 DEF WritesAt
    <3>3. h.cur_sindex >= 0
      BY <2>2, <3>2
    <3>4. dir[h.cur_entry].sectors[h.cur_sindex] = h.cur_sector
      BY <3>1, <3>3 DEF WritesAt
    <3>5. QED BY <3>3, <3>4 DEF h
  <2>5. QED BY <2>2, <2>3, <2>4
<1>6. QED BY <1>4, <1>5 DEF Counted

(* While a link is under way, the entries in use are as they will be.       *)
LEMMA LinkingKeeps ==
  ASSUME Linking, NEW d, Leads(dir, queue, d), dir \in [Entry -> EntryType]
  PROVE  \A x \in Live(dir) : x \in Live(d) /\ d[x] = dir[x]
<1>1. /\ queue # <<>> /\ Head(queue).what = "entry"
      /\ Head(queue).entry.kind = "list" /\ dir[Head(queue).at].kind = "free"
  BY DEF Linking
<1>2. ASSUME NEW i \in Entry, NEW e \in EntryType, Head(queue) = WriteEntry(i, e), d = Set(dir, i, e)
      PROVE  \A x \in Live(dir) : x \in Live(d) /\ d[x] = dir[x]
  <2>1. dir[i].kind = "free"
    BY <1>1, <1>2 DEF WriteEntry
  <2>2. QED BY <1>2, <2>1 DEF Live, Set
<1>3. CASE \E i \in Entry, e \in EntryType : queue = <<WriteEntry(i, e)>> /\ d = Set(dir, i, e)
  <2>1. PICK i \in Entry, e \in EntryType : queue = <<WriteEntry(i, e)>> /\ d = Set(dir, i, e)
    BY <1>3
  <2>2. Head(queue) = WriteEntry(i, e)
    BY <2>1
  <2>3. QED BY <1>2, <2>1, <2>2
<1>4. CASE \E w : queue = <<w>> /\ IsData(w) /\ d = dir
  BY <1>4
<1>5. CASE \E i \in Entry, e \in EntryType : \E w :
             queue = <<WriteEntry(i, e), w>> /\ IsData(w) /\ d = Set(dir, i, e)
  <2>1. PICK i \in Entry, e \in EntryType :
          (\E w : queue = <<WriteEntry(i, e), w>>) /\ d = Set(dir, i, e)
    BY <1>5
  <2>2. Head(queue) = WriteEntry(i, e)
    BY <2>1
  <2>3. QED BY <1>2, <2>1, <2>2
<1>6. CASE \E i, j \in Entry, e \in EntryType, s \in Sector : \E w :
             /\ queue = <<WriteEntry(i, e), WriteEntry(j, NewList(s)), w>> /\ IsData(w)
             /\ i # j /\ dir[j].kind = "free" /\ dir[i].kind # "free"
             /\ d = Set(Set(dir, i, e), j, NewList(s))
  <2>1. PICK i, j \in Entry, e \in EntryType, s \in Sector :
          (\E w : queue = <<WriteEntry(i, e), WriteEntry(j, NewList(s)), w>>) /\ dir[i].kind # "free"
    BY <1>6
  <2>2. Head(queue) = WriteEntry(i, e)
    BY <2>1
  <2>3. QED BY <1>1, <2>1, <2>2 DEF WriteEntry
<1>7. QED BY <1>1, <1>3, <1>4, <1>5, <1>6 DEF Leads

LEMMA SharesNothing == ASSUME IInv PROVE NothingShared
<1>1. SUFFICES ASSUME NEW i \in Live(dir)
               PROVE  /\ Cardinality(SectorsOf(dir[i])) = Cardinality(Listed(dir[i]))
                      /\ \A j \in Live(dir) \ {i} : SectorsOf(dir[i]) \cap SectorsOf(dir[j]) = {}
                      /\ Ready /\ dir[i].next # None =>
                           /\ dir[dir[i].next].kind = "list"
                           /\ \A j \in Live(dir) \ {i} : dir[j].next # dir[i].next
  BY DEF NothingShared
<1>2. PICK d, own, rank, pos : Neat(d) /\ \A x \in Live(dir) : x \in Live(d) /\ d[x] = dir[x]
  <2>1. CASE Linking
    <3>1. PICK d, own, rank, pos : Leads(dir, queue, d) /\ Good(d, own, rank, pos)
      BY DEF IInv
    <3>2. Neat(d)
      BY <3>1 DEF Good, Files
    <3>3. \A x \in Live(dir) : x \in Live(d) /\ d[x] = dir[x]
      BY <2>1, <3>1, LinkingKeeps DEF IInv
    <3>4. QED BY <3>2, <3>3
  <2>2. CASE Sound(dir)
    BY <2>2 DEF Sound, Files
  <2>3. QED BY <2>1, <2>2 DEF IInv
<1>3. Tidy(dir[i])
  BY <1>2 DEF Neat
<1>4. Cardinality(SectorsOf(dir[i])) = Cardinality(Listed(dir[i]))
  BY <1>3, AsManySectors
<1>5. \A j \in Live(dir) \ {i} : SectorsOf(dir[i]) \cap SectorsOf(dir[j]) = {}
  BY <1>2 DEF Neat, Apart
<1>6. ASSUME Ready, dir[i].next # None
      PROVE  /\ dir[dir[i].next].kind = "list"
             /\ \A j \in Live(dir) \ {i} : dir[j].next # dir[i].next
  <2>1. PICK own2, rank2, pos2 : Good(dir, own2, rank2, pos2)
    BY <1>6, Settled DEF Ready
  <2>2. Files(dir, own2, rank2, pos2)
    BY <2>1 DEF Good
  <2>3. Linked(dir, own2, rank2, pos2) /\ rank2 \in [Entry -> Nat] /\ Live(dir) \subseteq Entry
    BY <2>2, FilesTyped
  <2>4. \A x \in Live(dir) : dir[x].next # None =>
          /\ dir[dir[x].next].kind = "list" /\ own2[dir[x].next] = own2[x]
          /\ rank2[dir[x].next] = rank2[x] + 1
    BY <2>3 DEF Linked, Leading
  <2>5. ASSUME NEW j \in Live(dir), dir[j].next = dir[i].next
        PROVE  j = i
    <3>1. own2[j] = own2[i] /\ rank2[j] + 1 = rank2[i] + 1
      BY <1>6, <2>4, <2>5
    <3>2. rank2[j] = rank2[i]
      BY <2>3, <3>1
    <3>3. QED BY <2>3, <3>1, <3>2 DEF Linked, Order
  <2>6. QED BY <1>6, <2>4, <2>5
<1>7. QED BY <1>4, <1>5, <1>6

(* Between two operations the bitmaps, the free count and the directory      *)
(* agree (eepromfs_init, _write, _delete), and each handle is where its      *)
(* index says.                                                             *)
THEOREM BooksAreKept ==
  ASSUME ~ AnyAppend, ~ AnyCut, ~ AnyTear
  PROVE  Spec => []Bookkeeping
<1>1. IInv => Bookkeeping
  BY KeepsBooks
<1>2. QED BY <1>1, DirectoryKept, PTL

(* No sector is handed out twice and no entry belongs to two files, also     *)
(* while writes are under way or after a power failure.                     *)
THEOREM NoSectorTwice ==
  ASSUME ~ AnyAppend, ~ AnyCut, ~ AnyTear
  PROVE  Spec => []NothingShared
<1>1. IInv => NothingShared
  BY SharesNothing
<1>2. QED BY <1>1, DirectoryKept, PTL
=============================================================================
