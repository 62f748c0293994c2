--------------------------- MODULE EepromContents ---------------------------
(***************************************************************************)
(* Theorems about the contents of the files of EepromFs: what has been sent *)
(* is in the sectors of its file, what is read is the file, in order, and    *)
(* the files are those of FileStore, also after a power failure.            *)
(***************************************************************************)
EXTENDS EepromTheorems

(***************************************************************************)
(* The contents of a file as a function of a directory d and of the bytes   *)
(* sec of the sectors.                                                     *)
(***************************************************************************)
SectorIn(d, e, i) ==
  IF i < NameSectors THEN d[e].sectors[i]
  ELSE LET k == 1 + (i - NameSectors) \div ListSectors
           l == IF k \in Entry THEN ChainOf(d, e)[k] ELSE None
       IN IF l = None THEN None ELSE d[l].sectors[(i - NameSectors) % ListSectors]

CellIn(sec, s, o) == IF s = None THEN None ELSE sec[s][o]
ContentsIn(d, sec, e) ==
  [k \in 1 .. d[e].size |->
     CellIn(sec, SectorIn(d, e, (k - 1) \div SectorSize), (k - 1) % SectorSize)]

LEMMA ContentsNow ==
  /\ \A e, i : SectorAt(e, i) = SectorIn(dir, e, i)
  /\ \A e : Contents(e) = ContentsIn(dir, sectors, e)
<1>1. \A e : Chain(e) = ChainOf(dir, e)
  BY DEF Chain, ChainOf
<1>2. \A e, i : SectorAt(e, i) = SectorIn(dir, e, i)
  BY <1>1 DEF SectorAt, SectorIn
<1>3. \A e : Contents(e) = ContentsIn(dir, sectors, e)
  BY <1>2 DEF Contents, ContentsIn, CellAt, CellIn
<1>4. QED BY <1>2, <1>3

(* A byte of a file: in slot i of entry x, at o of the sector.              *)
ByteAt(pos, x, i, o) == SectorSize * (pos[x] + i) + o

LEMMA Divided ==
  ASSUME NEW q \in Nat, NEW o \in 0 .. SectorSize - 1
  PROVE  (SectorSize * q + o) \div SectorSize = q /\ (SectorSize * q + o) % SectorSize = o
<1> DEFINE p == SectorSize * q + o
           a == p \div SectorSize
           r == p % SectorSize
<1>1. SectorSize \in Nat \ {0} /\ p \in Nat
  BY Constants
<1>2. a \in Nat /\ r \in 0 .. SectorSize - 1 /\ p = SectorSize * a + r
  <2> HIDE DEF p
  <2>1. QED BY <1>1
<1> HIDE DEF a, r
<1>3. SectorSize * q + o = SectorSize * a + r
  BY <1>2
<1>4. a = q
  <2>1. CASE a < q
    <3>1. SectorSize * (a + 1) <= SectorSize * q
      BY <1>1, <1>2, <2>1
    <3>2. SectorSize * (a + 1) = SectorSize * a + SectorSize
      BY <1>1, <1>2
    <3>3. SectorSize * a \in Int /\ SectorSize * q \in Int
      BY <1>1, <1>2
    <3>4. QED BY <1>1, <1>2, <1>3, <3>1, <3>2, <3>3
  <2>2. CASE q < a
    <3>1. SectorSize * (q + 1) <= SectorSize * a
      BY <1>1, <1>2, <2>2
    <3>2. SectorSize * (q + 1) = SectorSize * q + SectorSize
      BY <1>1, <1>2
    <3>3. SectorSize * a \in Int /\ SectorSize * q \in Int
      BY <1>1, <1>2
    <3>4. QED BY <1>1, <1>2, <1>3, <3>1, <3>2, <3>3
  <2>3. QED BY <1>2, <2>1, <2>2
<1>5. r = o
  <2>1. SectorSize * q \in Int
    BY <1>1
  <2>2. QED BY <1>2, <1>3, <1>4, <2>1
<1>6. QED BY <1>4, <1>5 DEF a, r

LEMMA Division ==
  ASSUME NEW p \in Nat
  PROVE  \E q \in Nat, o \in 0 .. SectorSize - 1 :
           p = SectorSize * q + o /\ q = p \div SectorSize /\ o = p % SectorSize
<1>1. SectorSize \in Nat \ {0}
  BY Constants
<1>2. /\ p \div SectorSize \in Nat /\ p % SectorSize \in 0 .. SectorSize - 1
      /\ p = SectorSize * (p \div SectorSize) + (p % SectorSize)
  BY <1>1
<1>3. QED BY <1>2

-----------------------------------------------------------------------------
(***************************************************************************)
(* The places of the entries of a file.                                    *)
(***************************************************************************)
(* What comes before an entry that is not the first of its chain.           *)
LEMMA Before ==
  ASSUME NEW d, NEW own, NEW rank, NEW pos, Linked(d, own, rank, pos),
         NEW x \in Live(d), rank[x] # 0
  PROVE  \E b \in Live(d) :
           /\ d[b].next = x /\ own[b] = own[x] /\ rank[x] = rank[b] + 1 /\ rank[b] \in Nat
           /\ pos[x] = pos[b] + curentry_max_sectors(d[b])
           /\ Filled(d[b], curentry_max_sectors(d[b])) /\ d[x].kind = "list"
<1>1. x \in Entry /\ x # None
  BY Constants DEF Live, Entry
<1>2. rank \in [Entry -> Nat] /\ rank[x] > 0
  BY <1>1 DEF Linked
<1>3. PICK b \in Live(d) : d[b].next = x
  BY <1>2 DEF Linked, Place
<1>4. Leading(d, own, rank, pos, b) /\ b \in Entry
  BY DEF Linked, Live
<1>5. QED BY <1>1, <1>2, <1>3, <1>4 DEF Leading

(* How many sectors come before an entry follows from its place.            *)
LEMMA PlaceOf ==
  ASSUME NEW d, NEW own, NEW rank, NEW pos, Linked(d, own, rank, pos),
         NEW e \in Live(d), d[e].kind = "name", NEW x \in Live(d), own[x] = e
  PROVE  /\ rank[x] = 0 => x = e /\ pos[x] = 0
         /\ rank[x] # 0 => /\ d[x].kind = "list" /\ rank[x] - 1 \in Nat
                           /\ pos[x] = NameSectors + (rank[x] - 1) * ListSectors
<1> DEFINE File == {y \in Live(d) : own[y] = e}
           Right(y) == IF rank[y] = 0 THEN y = e /\ pos[y] = 0
                       ELSE pos[y] = NameSectors + (rank[y] - 1) * ListSectors
           Bad == {n \in Nat : \E y \in File : rank[y] = n /\ ~ Right(y)}
<1>1. own[e] = e /\ pos[e] = 0 /\ rank[e] = 0
  BY RootOfFile
<1>2. rank \in [Entry -> Nat] /\ pos \in [Entry -> Nat] /\ File \subseteq Entry /\ x \in File
  BY DEF Linked, Live
<1>3. ASSUME NEW y \in File, rank[y] = 0
      PROVE  y = e
  <2>1. Place(d, own, rank, pos, y)
    BY DEF Linked
  <2>2. QED BY <1>3, <2>1 DEF Place
<1>4. ASSUME Bad # {} PROVE FALSE
  <2>1. PICK n \in Bad : \A m \in Bad : n <= m
    <3>1. Bad \subseteq Nat
      OBVIOUS
    <3> HIDE DEF Bad
    <3>2. QED BY <1>4, <3>1, Least
  <2>2. PICK y \in File : rank[y] = n /\ ~ Right(y)
    BY <2>1
  <2>3. rank[y] # 0
    BY <1>1, <1>3, <2>2
  <2>4. PICK b \in Live(d) :
          /\ own[b] = own[y] /\ rank[y] = rank[b] + 1 /\ rank[b] \in Nat
          /\ pos[y] = pos[b] + curentry_max_sectors(d[b])
    BY <2>3, Before
  <2>5. b \in File /\ rank[b] \notin Bad
    <3>1. b \in File /\ ~ (n <= rank[b])
      BY <2>2, <2>4
    <3>2. QED BY <2>1, <3>1
  <2>6. Right(b)
    BY <2>4, <2>5
  <2> DEFINE r == rank[b]
  <2>7. CASE r = 0
    <3>1. b = e /\ pos[b] = 0 /\ curentry_max_sectors(d[b]) = NameSectors
      BY <2>6, <2>7 DEF curentry_max_sectors
    <3>2. QED BY <2>2, <2>3, <2>4, <2>7, <3>1, Constants
  <2>8. CASE r # 0
    <3>1. d[b].kind = "list"
      BY <2>8, Before
    <3>2. curentry_max_sectors(d[b]) = ListSectors
      BY <3>1 DEF curentry_max_sectors
    <3>3. pos[b] = NameSectors + (r - 1) * ListSectors
      BY <2>6, <2>8
    <3>4. r \in Nat /\ rank[y] = r + 1
      BY <2>4
    <3> HIDE DEF r
    <3>5. pos[y] = NameSectors + (r - 1) * ListSectors + ListSectors
      BY <2>4, <3>2, <3>3
    <3>6. (r - 1) * ListSectors + ListSectors = r * ListSectors
      BY <3>4, Constants
    <3>7. (r - 1) * ListSectors \in Int
      BY <3>4, Constants
    <3>8. pos[y] = NameSectors + (rank[y] - 1) * ListSectors
      BY <3>4, <3>5, <3>6, <3>7, Constants
    <3>9. QED BY <2>2, <2>3, <3>8
  <2>9. QED BY <2>7, <2>8
<1>5. Right(x)
  <2>1. rank[x] \notin Bad /\ rank[x] \in Nat
    BY <1>2, <1>4
  <2>2. QED BY <1>2, <2>1
<1>6. rank[x] # 0 => d[x].kind = "list" /\ rank[x] - 1 \in Nat
  BY <1>2, Before
<1>7. QED BY <1>5, <1>6

(* There are no more places in a chain than entries.                        *)
LEMMA RankBound ==
  ASSUME NEW d, NEW own, NEW rank, NEW pos, Linked(d, own, rank, pos), NEW x \in Live(d)
  PROVE  rank[x] \in Entry
<1>1. /\ rank \in [Entry -> Nat] /\ Live(d) \subseteq Entry /\ x \in Entry /\ rank[x] \in Nat
  BY DEF Linked, Live
<1> DEFINE r == rank[x]
           Bad == {n \in Nat : n <= r /\ ~ \E y \in Live(d) : rank[y] = r - n}
<1>2. ASSUME Bad # {} PROVE FALSE
  <2>1. PICK n \in Bad : \A m \in Bad : n <= m
    <3>1. Bad \subseteq Nat
      OBVIOUS
    <3> HIDE DEF Bad
    <3>2. QED BY <1>2, <3>1, Least
  <2>2. n # 0
    BY <1>1, <2>1
  <2>3. n - 1 \in Nat /\ n - 1 <= r /\ n - 1 \notin Bad
    BY <1>1, <2>1, <2>2
  <2>4. PICK y \in Live(d) : rank[y] = r - (n - 1)
    BY <2>3
  <2>5. rank[y] # 0
    BY <1>1, <2>1, <2>2, <2>4
  <2>6. PICK b \in Live(d) : rank[y] = rank[b] + 1 /\ rank[b] \in Nat
    BY <2>5, Before
  <2>7. rank[b] = r - n
    BY <1>1, <2>1, <2>4, <2>6
  <2>8. QED BY <2>1, <2>7
<1>3. ASSUME NEW m \in 0 .. r
      PROVE  \E y \in Live(d) : rank[y] = m
  <2>1. r - m \in Nat /\ r - m <= r /\ r - (r - m) = m
    BY <1>1, <1>3
  <2>2. r - m \notin Bad
    BY <1>2
  <2>3. QED BY <2>1, <2>2
<1> DEFINE all == [m \in 0 .. r |-> CHOOSE y \in Live(d) : rank[y] = m]
<1> HIDE DEF r, Bad
<1>4. ASSUME NEW m \in 0 .. r
      PROVE  all[m] \in Entry /\ rank[all[m]] = m
  BY <1>1, <1>3
<1> HIDE DEF all
<1>5. SUFFICES ASSUME r >= Entries PROVE FALSE
  BY <1>1, Constants DEF Entry, r
<1>6. r \in Nat /\ all \in [0 .. r -> Entry]
  <2>1. all = [m \in 0 .. r |-> all[m]]
    BY DEF all
  <2>2. QED BY <1>1, <1>4, <2>1 DEF r
<1>7. /\ IsFiniteSet(0 .. r) /\ Cardinality(0 .. r) = r + 1
      /\ IsFiniteSet(Entry) /\ Cardinality(Entry) = Entries
  BY <1>6, FS_Interval, Constants DEF Entry
<1>8. \E a, b \in 0 .. r : a # b /\ all[a] = all[b]
  <2> DEFINE places == 0 .. r
  <2>1. Cardinality(Entry) < Cardinality(places)
    BY <1>5, <1>6, <1>7, Constants
  <2>2. IsFiniteSet(places) /\ IsFiniteSet(Entry) /\ all \in [places -> Entry]
    BY <1>6, <1>7
  <2> HIDE DEF places
  <2>3. \E a, b \in places : a # b /\ all[a] = all[b]
    BY <2>1, <2>2, FS_PigeonHole
  <2>4. QED BY <2>3 DEF places
<1>9. QED BY <1>4, <1>8

-----------------------------------------------------------------------------
(***************************************************************************)
(* Where the bytes of a file are.  In d2 the file e is what it is in d, or   *)
(* has more: a directory in the middle of a change need not be one that     *)
(* Files holds of.                                                         *)
(***************************************************************************)
Grows(d, own, e, d2) ==
  \A x \in Live(d) : own[x] = e =>
    /\ d[x].next # None => d2[x].next = d[x].next
    /\ \A i \in Listed(d[x]) : d2[x].sectors[i] = d[x].sectors[i]

LEMMA InChain ==
  ASSUME NEW d, NEW own, NEW rank, NEW pos, Linked(d, own, rank, pos),
         NEW e \in Live(d), d[e].kind = "name", NEW d2, Grows(d, own, e, d2), NEW x \in Live(d), own[x] = e
  PROVE  rank[x] \in Entry /\ ChainOf(d2, e)[rank[x]] = x
<1> DEFINE File == {y \in Live(d) : own[y] = e}
           Right(y) == ChainOf(d2, e)[rank[y]] = y
           Bad == {n \in Nat : \E y \in File : rank[y] = n /\ ~ Right(y)}
<1>1. e \in Entry /\ e # None /\ File \subseteq Entry /\ \A y \in File : rank[y] \in Entry /\ y # None
  BY RankBound, Constants DEF Live, Entry
<1>2. ASSUME Bad # {} PROVE FALSE
  <2>1. PICK n \in Bad : \A m \in Bad : n <= m
    <3>1. Bad \subseteq Nat
      OBVIOUS
    <3> HIDE DEF Bad
    <3>2. QED BY <1>2, <3>1, Least
  <2>2. PICK y \in File : rank[y] = n /\ ~ Right(y)
    BY <2>1
  <2>3. CASE rank[y] = 0
    <3>1. y = e
      BY <2>3, PlaceOf
    <3>2. ChainOf(d2, e)[0] = e
      BY <1>1, ChainOfStep
    <3>3. QED BY <2>2, <2>3, <3>1, <3>2
  <2>4. CASE rank[y] # 0
    <3>1. PICK b \in Live(d) :
            /\ d[b].next = y /\ own[b] = own[y] /\ rank[y] = rank[b] + 1 /\ rank[b] \in Nat
      BY <2>4, Before
    <3>2. b \in File /\ rank[b] \notin Bad
      <4>1. b \in File /\ ~ (n <= rank[b])
        BY <2>2, <3>1
      <4>2. QED BY <2>1, <4>1
    <3>3. ChainOf(d2, e)[rank[b]] = b /\ b # None
      BY <1>1, <3>1, <3>2
    <3>4. d2[b].next = y
      BY <1>1, <3>1 DEF Grows
    <3>5. rank[y] \in Entry \ {0} /\ rank[y] - 1 = rank[b]
      BY <1>1, <2>4, <3>1
    <3>6. ChainOf(d2, e)[rank[y]] = d2[b].next
      BY <1>1, <3>3, <3>5, ChainOfStep
    <3>7. QED BY <2>2, <3>4, <3>6
  <2>5. QED BY <2>3, <2>4
<1>3. rank[x] \in Nat /\ rank[x] \notin Bad /\ x \in File
  BY <1>1, <1>2, Constants DEF Entry
<1>4. QED BY <1>1, <1>3

LEMMA Quotient ==
  ASSUME NEW r \in Nat, NEW i \in 0 .. ListSectors - 1,
         NEW q, q = NameSectors + r * ListSectors + i
  PROVE  /\ q \in Nat /\ q >= NameSectors
         /\ (q - NameSectors) \div ListSectors = r /\ (q - NameSectors) % ListSectors = i
<1> DEFINE p == r * ListSectors
           t == q - NameSectors
           a == t \div ListSectors
           m == t % ListSectors
<1>1. ListSectors \in Nat \ {0} /\ p \in Nat /\ NameSectors \in Nat
  BY Constants
<1>2. q \in Nat /\ q >= NameSectors /\ t = p + i /\ t \in Nat
  <2> HIDE DEF p
  <2>1. q = NameSectors + p + i
    BY DEF p
  <2>2. QED BY <1>1, <2>1
<1>3. a \in Nat /\ m \in 0 .. ListSectors - 1 /\ t = a * ListSectors + m
  <2> HIDE DEF t
  <2>1. a \in Nat /\ m \in 0 .. ListSectors - 1 /\ t = ListSectors * a + m
    BY <1>1, <1>2
  <2>2. ListSectors * a = a * ListSectors
    BY <1>1, <2>1
  <2>3. QED BY <2>1, <2>2
<1> HIDE DEF t, a, m
<1>4. r * ListSectors + i = a * ListSectors + m
  BY <1>2, <1>3 DEF p
<1>5. a = r
  <2>1. CASE a < r
    <3>1. (a + 1) * ListSectors <= r * ListSectors
      BY <1>1, <1>3, <2>1
    <3>2. (a + 1) * ListSectors = a * ListSectors + ListSectors
      BY <1>1, <1>3
    <3>3. a * ListSectors \in Int /\ r * ListSectors \in Int
      BY <1>1, <1>3
    <3>4. QED BY <1>1, <1>3, <1>4, <3>1, <3>2, <3>3
  <2>2. CASE r < a
    <3>1. (r + 1) * ListSectors <= a * ListSectors
      BY <1>1, <1>3, <2>2
    <3>2. (r + 1) * ListSectors = r * ListSectors + ListSectors
      BY <1>1, <1>3
    <3>3. a * ListSectors \in Int /\ r * ListSectors \in Int
      BY <1>1, <1>3
    <3>4. QED BY <1>1, <1>3, <1>4, <3>1, <3>2, <3>3
  <2>3. QED BY <1>3, <2>1, <2>2
<1>6. m = i
  BY <1>1, <1>3, <1>4, <1>5 DEF p
<1>7. QED BY <1>2, <1>5, <1>6 DEF t, a, m

(* SectorAt finds the sector that is listed at a place.                     *)
LEMMA Placed ==
  ASSUME NEW d, NEW own, NEW rank, NEW pos, Linked(d, own, rank, pos),
         NEW e \in Live(d), d[e].kind = "name", NEW d2, Grows(d, own, e, d2), NEW x \in Live(d), own[x] = e,
         NEW i \in 0 .. curentry_max_sectors(d[x]) - 1, d2[x].sectors[i] = d[x].sectors[i]
  PROVE  SectorIn(d2, e, pos[x] + i) = d[x].sectors[i] /\ pos[x] + i \in Nat
<1>1. d2[x].sectors[i] = d[x].sectors[i]
  OBVIOUS
<1>2. rank[x] \in Entry /\ ChainOf(d2, e)[rank[x]] = x /\ x # None /\ x \in Entry
  BY InChain, Constants DEF Live, Entry
<1>3. i \in 0 .. curentry_max_sectors(d[x]) - 1
  OBVIOUS
<1>4. CASE rank[x] = 0
  <2>1. x = e /\ pos[x] = 0 /\ curentry_max_sectors(d[x]) = NameSectors
    BY <1>4, PlaceOf DEF curentry_max_sectors
  <2>2. pos[x] + i = i /\ i < NameSectors /\ i \in Nat
    BY <1>3, <2>1, Constants
  <2>3. QED BY <1>1, <2>1, <2>2 DEF SectorIn
<1>5. CASE rank[x] # 0
  <2> DEFINE r == rank[x] - 1
             q == pos[x] + i
  <2>1. /\ d[x].kind = "list" /\ r \in Nat /\ pos[x] = NameSectors + r * ListSectors
        /\ curentry_max_sectors(d[x]) = ListSectors
    BY <1>5, PlaceOf DEF curentry_max_sectors
  <2>2. i \in 0 .. ListSectors - 1
    BY <1>3, <2>1
  <2>3. q = NameSectors + r * ListSectors + i /\ 1 + r = rank[x]
    BY <2>1, <1>2, Constants DEF Entry
  <2> HIDE DEF r, q
  <2>4. /\ q \in Nat /\ ~ (q < NameSectors)
        /\ (q - NameSectors) \div ListSectors = r /\ (q - NameSectors) % ListSectors = i
    <3>1. /\ q \in Nat /\ q >= NameSectors
          /\ (q - NameSectors) \div ListSectors = r /\ (q - NameSectors) % ListSectors = i
      BY ONLY <2>1, <2>2, <2>3, Quotient
    <3>2. q \in Nat /\ NameSectors \in Nat /\ q >= NameSectors
      BY <3>1, Constants
    <3>3. ~ (q < NameSectors)
      BY ONLY <3>2
    <3>4. QED BY <3>1, <3>3
  <2>5. SectorIn(d2, e, q) = d2[x].sectors[i]
    BY <1>2, <2>3, <2>4 DEF SectorIn
  <2>6. QED BY <1>1, <2>4, <2>5 DEF q
<1>6. QED BY <1>4, <1>5

(* Every place before the last is one of a sector that is listed.           *)
LEMMA Reached ==
  ASSUME NEW d, NEW own, NEW rank, NEW pos, Files(d, own, rank, pos),
         NEW e \in Live(d), d[e].kind = "name", NEW last \in Live(d), own[last] = e,
         NEW many \in 0 .. ListSectors, Filled(d[last], many), NEW q \in Nat, q < pos[last] + many
  PROVE  \E x \in Live(d) : own[x] = e /\ \E i \in Listed(d[x]) : pos[x] + i = q
<1>1. /\ Linked(d, own, rank, pos) /\ own[e] = e /\ Live(d) \subseteq Entry
      /\ pos \in [Entry -> Nat] /\ rank \in [Entry -> Nat]
  BY FilesTyped, RootOfFile DEF Linked
<1> DEFINE File == {y \in Live(d) : own[y] = e}
           Reach == {n \in Nat : \E y \in File : rank[y] = n /\
                       \E m \in 0 .. ListSectors : Filled(d[y], m) /\ q < pos[y] + m}
<1>2. Reach # {}
  BY <1>1
<1>3. PICK n \in Reach : \A m \in Reach : n <= m
  <2>1. Reach \subseteq Nat
    OBVIOUS
  <2> HIDE DEF Reach
  <2>2. QED BY <1>2, <2>1, Least
<1>4. PICK x \in File : rank[x] = n /\ \E m \in 0 .. ListSectors : Filled(d[x], m) /\ q < pos[x] + m
  BY <1>3
<1>5. PICK m \in 0 .. ListSectors : Filled(d[x], m) /\ q < pos[x] + m
  BY <1>4
<1>6. pos[x] <= q
  <2>1. SUFFICES ASSUME q < pos[x] PROVE FALSE
    BY <1>1
  <2>2. rank[x] # 0
    BY <1>1, <2>1, PlaceOf
  <2>3. PICK b \in Live(d) :
          /\ own[b] = own[x] /\ rank[x] = rank[b] + 1 /\ rank[b] \in Nat
          /\ pos[x] = pos[b] + curentry_max_sectors(d[b])
          /\ Filled(d[b], curentry_max_sectors(d[b]))
    BY <1>1, <2>2, Before
  <2>4. curentry_max_sectors(d[b]) \in 0 .. ListSectors
    BY <2>3 DEF Filled
  <2>5. rank[b] \in Reach
    BY <2>1, <2>3, <2>4
  <2>6. n <= rank[b]
    BY <1>3, <2>5
  <2>7. QED BY <1>4, <2>3, <2>6
<1>7. q - pos[x] \in Listed(d[x]) /\ pos[x] + (q - pos[x]) = q
  <2>1. pos[x] \in Nat
    BY <1>1
  <2>2. q - pos[x] \in 0 .. m - 1
    BY <1>5, <1>6, <2>1
  <2>3. QED BY <1>5, <2>1, <2>2 DEF Filled
<1>8. QED BY <1>7

(* Every sector within the length of a file is listed.                      *)
LEMMA Covered ==
  ASSUME NEW d, NEW own, NEW rank, NEW pos, Files(d, own, rank, pos),
         NEW e \in Live(d), d[e].kind = "name",
         NEW z \in Nat, Fits(d, own, pos, e, z), NEW q \in Nat, SectorSize * q < z
  PROVE  \E x \in Live(d) : own[x] = e /\ \E i \in Listed(d[x]) : pos[x] + i = q
<1>1. /\ Linked(d, own, rank, pos) /\ own[e] = e /\ Live(d) \subseteq Entry
      /\ pos \in [Entry -> Nat] /\ rank \in [Entry -> Nat]
  BY FilesTyped, RootOfFile DEF Linked
<1> DEFINE File == {y \in Live(d) : own[y] = e}
           Left == {n \in Nat : \E y \in File : n = Entries - rank[y]}
<1>2. \A y \in File : rank[y] \in Entry /\ Entries - rank[y] \in Nat
  <2>1. \A y \in File : rank[y] \in Entry
    BY <1>1, RankBound
  <2>2. QED BY <2>1, Constants DEF Entry
<1>3. PICK last \in File : d[last].next = None
  <2>1. Left # {} /\ Left \subseteq Nat
    BY <1>1, <1>2
  <2>2. PICK n \in Left : \A m \in Left : n <= m
    <3> HIDE DEF Left
    <3>1. QED BY <2>1, Least
  <2>3. PICK y \in File : n = Entries - rank[y]
    BY <2>2
  <2>4. ASSUME d[y].next # None PROVE FALSE
    <3>1. d[y].next \in File /\ rank[d[y].next] = rank[y] + 1
      BY <1>1, <2>4 DEF Linked, Leading
    <3>2. Entries - rank[d[y].next] \in Left
      BY <1>2, <3>1
    <3>3. n <= Entries - rank[d[y].next]
      BY <2>2, <3>2
    <3>4. QED BY <1>2, <2>3, <3>1, <3>3, Constants DEF Entry
  <2>5. QED BY <2>4
<1>4. PICK m \in 0 .. ListSectors : Filled(d[last], m)
  BY FilesTyped DEF Neat, Tidy
<1>5. z <= SectorSize * (pos[last] + m)
  BY <1>3, <1>4 DEF Fits
<1>6. q < pos[last] + m
  <2> DEFINE a == pos[last] + m
  <2>1. a \in Nat
    BY <1>1, <1>4
  <2>2. SectorSize * q < SectorSize * a
    <3>1. SectorSize * q \in Int /\ SectorSize * a \in Int
      BY <2>1, Constants
    <3>2. QED BY <1>5, <3>1
  <2> HIDE DEF a
  <2>3. ASSUME a <= q PROVE FALSE
    <3>1. SectorSize * a <= SectorSize * q
      BY <2>1, <2>3, Constants
    <3>2. SectorSize * q \in Int /\ SectorSize * a \in Int
      BY <2>1, Constants
    <3>3. QED BY <2>2, <3>1, <3>2
  <2>4. q < a
    BY <2>1, <2>3
  <2>5. QED BY <2>4 DEF a
<1>7. /\ Files(d, own, rank, pos) /\ e \in Live(d) /\ d[e].kind = "name"
      /\ last \in Live(d) /\ own[last] = e /\ q \in Nat
  BY <1>3
<1>8. QED BY ONLY <1>7, <1>4, <1>6, Reached

(* The first z bytes of a file are those of a sequence.                     *)
Holds(d, own, pos, sec, e, z, cells) ==
  \A x \in Live(d) : own[x] = e =>
    \A i \in Listed(d[x]), o \in 0 .. SectorSize - 1 :
      ByteAt(pos, x, i, o) < z => sec[d[x].sectors[i]][o] = cells[ByteAt(pos, x, i, o) + 1]

LEMMA EveryByte ==
  ASSUME NEW d, NEW own, NEW rank, NEW pos, Files(d, own, rank, pos),
         NEW e \in Live(d), d[e].kind = "name",
         NEW z \in Nat, Fits(d, own, pos, e, z), NEW k \in 1 .. z
  PROVE  \E x \in Live(d) : own[x] = e /\ \E i \in Listed(d[x]), o \in 0 .. SectorSize - 1 :
           k = ByteAt(pos, x, i, o) + 1 /\ ByteAt(pos, x, i, o) < z
<1>1. k - 1 \in Nat /\ k - 1 < z
  OBVIOUS
<1>2. PICK q \in Nat, o \in 0 .. SectorSize - 1 : k - 1 = SectorSize * q + o
  BY <1>1, Division
<1>3. SectorSize * q < z
  <2>1. SectorSize * q \in Int
    BY Constants
  <2>2. QED BY <1>1, <1>2, <2>1
<1>4. PICK x \in Live(d) : own[x] = e /\ \E i \in Listed(d[x]) : pos[x] + i = q
  BY <1>3, Covered
<1>5. PICK i \in Listed(d[x]) : pos[x] + i = q
  BY <1>4
<1>6. ByteAt(pos, x, i, o) = k - 1
  BY <1>2, <1>5 DEF ByteAt
<1>7. QED BY <1>1, <1>4, <1>6

LEMMA ContentsAre ==
  ASSUME NEW d, NEW own, NEW rank, NEW pos, Files(d, own, rank, pos),
         NEW e \in Live(d), d[e].kind = "name", NEW d2, Grows(d, own, e, d2), NEW sec,
         NEW z \in Nat, z = d2[e].size,
         NEW f, f = ContentsIn(d2, sec, e)
  PROVE  /\ f = [k \in 1 .. z |-> f[k]]
         /\ Holds(d, own, pos, sec, e, z, f)
<1>1. /\ f = [k \in 1 .. z |->
               CellIn(sec, SectorIn(d2, e, (k - 1) \div SectorSize), (k - 1) % SectorSize)]
  BY DEF ContentsIn
<1>2. ASSUME NEW x \in Live(d), own[x] = e, NEW i \in Listed(d[x]), NEW o \in 0 .. SectorSize - 1,
             ByteAt(pos, x, i, o) < z
      PROVE  sec[d[x].sectors[i]][o] = f[ByteAt(pos, x, i, o) + 1]
  <2> DEFINE q == pos[x] + i
             p == ByteAt(pos, x, i, o)
  <2>1. SectorIn(d2, e, q) = d[x].sectors[i] /\ q \in Nat
    <3>1. i \in 0 .. curentry_max_sectors(d[x]) - 1 /\ d2[x].sectors[i] = d[x].sectors[i]
      BY <1>2 DEF Listed, Grows
    <3>2. QED BY <1>2, <3>1, Placed, FilesTyped
  <2>2. p = SectorSize * q + o
    BY DEF ByteAt
  <2>3. d[x].sectors[i] # None
    BY DEF Listed
  <2> HIDE DEF q
  <2>4. p \div SectorSize = q /\ p % SectorSize = o
    BY <2>1, <2>2, Divided
  <2>5. p \in Nat /\ p < z
    <3>1. SectorSize * q \in Nat
      BY <2>1, Constants
    <3>2. QED BY <1>2, <2>2, <3>1
  <2> HIDE DEF p
  <2>6. p + 1 \in 1 .. z /\ (p + 1) - 1 = p
    BY <2>5
  <2>7. f[p + 1] = CellIn(sec, SectorIn(d2, e, p \div SectorSize), p % SectorSize)
    BY <1>1, <2>6
  <2>8. f[p + 1] = sec[d[x].sectors[i]][o]
    BY <2>1, <2>3, <2>4, <2>7 DEF CellIn
  <2>9. QED BY <2>8 DEF p
<1>3. Holds(d, own, pos, sec, e, z, f)
  BY <1>2 DEF Holds
<1>4. QED BY <1>1, <1>3

(* Bytes that agree wherever there is one are the contents.                 *)
LEMMA IsContents ==
  ASSUME NEW d, NEW own, NEW rank, NEW pos, Files(d, own, rank, pos),
         NEW e \in Live(d), d[e].kind = "name", NEW d2, Grows(d, own, e, d2), NEW sec,
         NEW z \in Nat, z = d2[e].size,
         Fits(d, own, pos, e, z),
         NEW f, f = [k \in 1 .. z |-> f[k]], Holds(d, own, pos, sec, e, z, f)
  PROVE  ContentsIn(d2, sec, e) = f
<1> DEFINE g == ContentsIn(d2, sec, e)
<1>1. g = [k \in 1 .. z |-> g[k]] /\ Holds(d, own, pos, sec, e, z, g)
  <2>1. g = ContentsIn(d2, sec, e)
    OBVIOUS
  <2> HIDE DEF g
  <2>2. QED BY <2>1, ContentsAre
<1> HIDE DEF g
<1>2. ASSUME NEW k \in 1 .. z
      PROVE  g[k] = f[k]
  <2>1. PICK x \in Live(d) : own[x] = e /\ \E i \in Listed(d[x]), o \in 0 .. SectorSize - 1 :
          k = ByteAt(pos, x, i, o) + 1 /\ ByteAt(pos, x, i, o) < z
    BY EveryByte
  <2>2. PICK i \in Listed(d[x]), o \in 0 .. SectorSize - 1 :
          k = ByteAt(pos, x, i, o) + 1 /\ ByteAt(pos, x, i, o) < z
    BY <2>1
  <2> DEFINE p == ByteAt(pos, x, i, o)
  <2>3. sec[d[x].sectors[i]][o] = g[p + 1]
    BY <1>1, <2>1, <2>2 DEF Holds
  <2>4. sec[d[x].sectors[i]][o] = f[p + 1]
    BY <2>1, <2>2 DEF Holds
  <2>5. QED BY <2>2, <2>3, <2>4
<1>3. g = f
  BY <1>1, <1>2
<1>4. QED BY <1>3 DEF g

LEMMA Itself == ASSUME NEW d, NEW own, NEW e PROVE Grows(d, own, e, d)
BY DEF Grows

(* The functions that describe the files of a directory are its own.        *)
LEMMA Unique ==
  ASSUME NEW d, NEW own, NEW rank, NEW pos, Linked(d, own, rank, pos),
         NEW own2, NEW rank2, NEW pos2, Linked(d, own2, rank2, pos2), NEW x \in Live(d)
  PROVE  /\ own2[x] = own[x] /\ rank2[x] = rank[x]
         /\ d[own[x]].kind = "name" => pos2[x] = pos[x]
<1> DEFINE Right(y) == own2[y] = own[y] /\ rank2[y] = rank[y]
           Bad == {n \in Nat : \E y \in Live(d) : rank[y] = n /\ ~ Right(y)}
<1>1. rank \in [Entry -> Nat] /\ rank2 \in [Entry -> Nat] /\ Live(d) \subseteq Entry
  BY DEF Linked, Live
<1>2. ASSUME Bad # {} PROVE FALSE
  <2>1. PICK n \in Bad : \A m \in Bad : n <= m
    <3>1. Bad \subseteq Nat
      OBVIOUS
    <3> HIDE DEF Bad
    <3>2. QED BY <1>2, <3>1, Least
  <2>2. PICK y \in Live(d) : rank[y] = n /\ ~ Right(y)
    BY <2>1
  <2>3. Place(d, own, rank, pos, y) /\ Place(d, own2, rank2, pos2, y)
    BY DEF Linked
  <2>4. CASE rank[y] = 0
    <3>1. rank2[y] # 0 => \E b \in Live(d) : d[b].next = y
      BY Before
    <3>2. \A b \in Live(d) : d[b].next = y => rank[y] = rank[b] + 1 /\ rank[b] \in Nat
      <4> TAKE b \in Live(d)
      <4>1. Leading(d, own, rank, pos, b) /\ y # None /\ b \in Entry
        BY <1>1, Constants DEF Linked, Entry
      <4>2. QED BY <1>1, <4>1 DEF Leading
    <3>3. rank2[y] = 0
      BY <2>4, <3>1, <3>2
    <3>4. QED BY <2>2, <2>3, <2>4, <3>3 DEF Place
  <2>5. CASE rank[y] # 0
    <3>1. PICK b \in Live(d) :
            d[b].next = y /\ own[b] = own[y] /\ rank[y] = rank[b] + 1 /\ rank[b] \in Nat
      BY <2>5, Before
    <3>2. Right(b)
      <4>1. ~ (n <= rank[b])
        BY <2>2, <3>1
      <4>2. rank[b] \notin Bad
        BY <2>1, <4>1
      <4>3. QED BY <3>1, <4>2
    <3>3. Leading(d, own2, rank2, pos2, b) /\ y # None
      BY <1>1, Constants DEF Linked, Entry
    <3>4. own2[y] = own2[b] /\ rank2[y] = rank2[b] + 1
      BY <3>1, <3>3 DEF Leading
    <3>5. QED BY <2>2, <3>1, <3>2, <3>4
  <2>6. QED BY <2>4, <2>5
<1>3. Right(x)
  <2>1. rank[x] \in Nat /\ rank[x] \notin Bad
    BY <1>1, <1>2
  <2>2. QED BY <2>1
<1>4. ASSUME d[own[x]].kind = "name"
      PROVE  pos2[x] = pos[x]
  <2>1. own[x] \in Live(d)
    BY DEF Linked, Place
  <2>2. /\ rank[x] = 0 => pos[x] = 0
        /\ rank[x] # 0 => pos[x] = NameSectors + (rank[x] - 1) * ListSectors
    BY <1>4, <2>1, PlaceOf
  <2>3. /\ rank2[x] = 0 => pos2[x] = 0
        /\ rank2[x] # 0 => pos2[x] = NameSectors + (rank2[x] - 1) * ListSectors
    BY <1>3, <1>4, <2>1, PlaceOf
  <2>4. QED BY <1>3, <2>2, <2>3
<1>5. QED BY <1>3, <1>4
-----------------------------------------------------------------------------
(***************************************************************************)
(* The inductive invariant of the contents.  The sectors that no entry lists *)
(* are blank; what a channel has sent is in the sectors of its file, when   *)
(* the data under way is there too; and what is under way is one of the     *)
(* writes that the operations make.                                        *)
(***************************************************************************)
CellType == (Names \X Nat) \cup {None}
Bytes == [Sector -> [0 .. SectorSize - 1 -> CellType]]

Blanked(d, sec) == \A s \in Sector : s \notin UsedOf(d) => sec[s] = Blank

(* Files have names, each its own.                                          *)
Known(d) ==
  \A i \in Live(d) : d[i].kind = "name" =>
    /\ d[i].name \in Names
    /\ \A j \in Live(d) : d[j].kind = "name" /\ d[j].name = d[i].name => j = i

(* The sectors when the data under way is written.                          *)
After(sec, w) ==
  [sec EXCEPT ![w.at] = [o \in DOMAIN @ |->
     IF o - w.offset \in 0 .. Len(w.data) - 1 THEN w.data[o - w.offset + 1] ELSE @[o]]]
Coming(sec, q) == IF q # <<>> /\ IsData(q[Len(q)]) THEN After(sec, q[Len(q)]) ELSE sec

(* A handle that writes is at the end of its file.                          *)
Ends(h, pos) ==
  \/ h.cur_soffset = 0 /\ h.size = SectorSize * (pos[h.cur_entry] + h.cur_sindex + 1)
  \/ h.cur_soffset # 0 /\ h.size = SectorSize * (pos[h.cur_entry] + h.cur_sindex) + h.cur_soffset

Writer(d, own, pos, sec, h, s) ==
  /\ s \in [name : Names, cells : Seq(CellType)] /\ s.name = d[h.entry].name
  /\ Len(s.cells) = h.size /\ d[h.entry].size <= h.size
  /\ Ends(h, pos) /\ Holds(d, own, pos, sec, h.entry, h.size, s.cells)

Writers(d, own, pos, sec, h, sn) ==
  \A c \in Channels :
    IF h[c].filemode = "write" THEN Writer(d, own, pos, sec, h[c], sn[c]) ELSE sn[c] = None

Part(cells, z, n) == [k \in 1 .. n |-> cells[z + k]]

(* Data under way: the last n bytes sent, behind those that are stored.     *)
DataOf(w, d, pos, h, s) ==
  \E n \in 1 .. SectorSize, o \in 0 .. SectorSize - 1 :
    /\ o + n <= SectorSize /\ d[h.entry].size + n <= h.size
    /\ h.size = SectorSize * (pos[h.cur_entry] + h.cur_sindex) + o + n
    /\ w = WriteData(h.cur_sector, o, Part(s.cells, h.size - n, n))

(* What is under way.                                                       *)
NewDue(h, s) ==
  h.entry \notin Live(dir) /\ queue = <<WriteEntry(h.entry, NewFile(s.name))>>
SizeDue(h) ==
  /\ h.entry \in Live(dir) /\ dir[h.entry].kind = "name"
  /\ queue = <<WriteEntry(h.entry, [dir[h.entry] EXCEPT !.size = h.size])>>
DataDue(h, s, d, pos) == \E w : DataOf(w, d, pos, h, s) /\ queue = <<w>>
SectorDue(h, s, d, pos) ==
  /\ h.cur_entry \in Live(dir) /\ dir[h.cur_entry].next = None
  /\ Filled(dir[h.cur_entry], h.cur_sindex) /\ h.cur_sindex \in Nat /\ h.cur_sector \in Sector
  /\ \E w : /\ DataOf(w, d, pos, h, s)
            /\ queue = <<WriteEntry(h.cur_entry, With(dir[h.cur_entry], h.cur_sindex, h.cur_sector)), w>>
LinkDue(h, s, d, pos) ==
  /\ h.cur_entry \notin Live(dir) /\ h.cur_sector \in Sector
  /\ \E i \in Live(dir) : \E w :
       /\ dir[i].next = None /\ DataOf(w, d, pos, h, s)
       /\ queue = <<WriteEntry(i, To(dir[i], h.cur_entry)), WriteEntry(h.cur_entry, NewList(h.cur_sector)), w>>
ListDue(h, s, d, pos) ==
  /\ h.cur_entry \notin Live(dir) /\ h.cur_sector \in Sector
  /\ \E w : DataOf(w, d, pos, h, s) /\ queue = <<WriteEntry(h.cur_entry, NewList(h.cur_sector)), w>>
  /\ \E before : \E i \in Live(before) :
       Sound(before) /\ before[i].next = None /\ dir = Set(before, i, To(before[i], h.cur_entry))
NameDue ==
  \E i \in Live(dir), n \in Names :
    /\ dir[i].kind = "name" /\ dir[i].name # n
    /\ \A c \in Channels : fh[c].filemode # "closed" => fh[c].entry # i
    /\ queue = <<WriteEntry(i, [dir[i] EXCEPT !.name = n])>>
EraseDue ==
  \E i \in Live(dir) :
    /\ \A c \in Channels : fh[c].filemode # "closed" => fh[c].entry # i
    /\ queue = <<WriteEntry(i, Erased)>>

Due(h, s, d, pos) ==
  \/ NewDue(h, s) \/ SizeDue(h) \/ DataDue(h, s, d, pos) \/ SectorDue(h, s, d, pos)
  \/ LinkDue(h, s, d, pos) \/ ListDue(h, s, d, pos)

Pending(d, pos) ==
  \/ queue = <<>> \/ NameDue \/ EraseDue
  \/ \E c \in Channels : fh[c].filemode = "write" /\ Due(fh[c], sent[c], d, pos)

(* A file that is being closed has its length.                              *)
Finishing(job, c) == job # None /\ job = [op |-> "close", c |-> c]
Closes(d) ==
  \A c \in Channels : Finishing(busy, c) =>
    fh[c].filemode = "write" /\ d[fh[c].entry].size = fh[c].size

Kept(d, own, pos) ==
  /\ Known(d) /\ Writers(d, own, pos, Coming(sectors, queue), fh, sent)
  /\ Pending(d, pos) /\ Closes(d)

CInv ==
  /\ sectors \in Bytes /\ sent = [c \in Channels |-> sent[c]]
  /\ Known(dir) /\ Blanked(dir, sectors)
  /\ \A d, own, rank, pos : Leads(dir, queue, d) /\ Files(d, own, rank, pos) => Kept(d, own, pos)

-----------------------------------------------------------------------------
LEMMA DataIsData ==
  ASSUME NEW w, NEW d, NEW pos, NEW h, NEW s, DataOf(w, d, pos, h, s)
  PROVE  IsData(w)
BY Writes DEF DataOf

(* What is under way is not in a file that is being read.                   *)
LEMMA Still ==
  ASSUME NEW d, Leads(dir, queue, d), dir \in [Entry -> EntryType],
         NEW own, NEW rank, NEW pos, Files(d, own, rank, pos), Handled(fh, d, own, pos), Pending(d, pos),
         NEW c \in Channels, fh[c].filemode = "read"
  PROVE  \A x \in Live(d) : own[x] = fh[c].entry => dir[x] = d[x]
<1> DEFINE Same == \A x \in Live(d) : own[x] = fh[c].entry => dir[x] = d[x]
<1>1. /\ Linked(d, own, rank, pos) /\ Live(d) \subseteq Entry
      /\ \A x \in Live(d) : d[x].kind = "name" => own[x] = x
  BY FilesTyped, RootOfFile
<1>2. CASE queue = <<>>
  BY <1>2, LeadsOnly
<1>3. ASSUME NEW i, NEW e, d = Set(dir, i, e), i \in Live(d) => own[i] # fh[c].entry
      PROVE  Same
  <2>1. \A x \in Live(d) : x # i => d[x] = dir[x]
    BY <1>1, <1>3 DEF Set
  <2>2. QED BY <1>3, <2>1
<1>4. CASE NameDue
  <2>1. PICK i \in Live(dir), n \in Names :
          /\ dir[i].kind = "name" /\ fh[c].entry # i
          /\ queue = <<WriteEntry(i, [dir[i] EXCEPT !.name = n])>>
    BY <1>4 DEF NameDue
  <2> DEFINE e == [dir[i] EXCEPT !.name = n]
  <2>2. d = Set(dir, i, e)
    BY <2>1, LeadsOnly
  <2>3. d[i].kind = "name"
    <3>1. i \in Entry /\ dir[i] \in EntryType
      BY DEF Live
    <3>2. e.kind = "name"
      BY <2>1, <3>1 DEF EntryType
    <3>3. QED BY <2>2, <3>1, <3>2 DEF Set
  <2>4. QED BY <1>1, <1>3, <2>1, <2>2, <2>3
<1>5. CASE EraseDue
  <2>1. PICK i \in Live(dir) : queue = <<WriteEntry(i, Erased)>>
    BY <1>5 DEF EraseDue
  <2>2. d = Set(dir, i, Erased)
    BY <2>1, LeadsOnly
  <2>3. i \notin Live(d)
    BY <2>2, NewEntries DEF Live, Set
  <2>4. QED BY <1>3, <2>2, <2>3
<1>6. ASSUME NEW b \in Channels, fh[b].filemode = "write", Due(fh[b], sent[b], d, pos)
      PROVE  Same
  <2> DEFINE h == fh[b]
             j == h.cur_entry
             f == h.entry
  <2>1. f # fh[c].entry /\ f \in Entry /\ d[f].kind = "name" /\ own[j] = f /\ j \in Live(d)
    BY <1>6 DEF Handled, Opened, HandleType
  <2>2. f \in Live(d) /\ own[f] = f
    BY <1>1, <2>1 DEF Live
  <2>3. CASE NewDue(h, sent[b])
    <3>1. d = Set(dir, f, NewFile(sent[b].name))
      BY <2>3, LeadsOnly DEF NewDue
    <3>2. QED BY <1>3, <2>1, <2>2, <3>1
  <2>4. CASE SizeDue(h)
    <3>1. d = Set(dir, f, [dir[f] EXCEPT !.size = h.size])
      BY <2>4, LeadsOnly DEF SizeDue
    <3>2. QED BY <1>3, <2>1, <2>2, <3>1
  <2>5. CASE DataDue(h, sent[b], d, pos)
    <3>1. d = dir
      BY <2>5, LeadsOnly, DataIsData DEF DataDue
    <3>2. QED BY <3>1
  <2>6. CASE SectorDue(h, sent[b], d, pos)
    <3>1. d = Set(dir, j, With(dir[j], h.cur_sindex, h.cur_sector))
      BY <2>6, LeadsOnly, DataIsData DEF SectorDue
    <3>2. QED BY <1>3, <2>1, <3>1
  <2>7. CASE LinkDue(h, sent[b], d, pos)
    <3> DEFINE l == NewList(h.cur_sector)
    <3>1. j \notin Live(dir)
      BY <2>7 DEF LinkDue
    <3>2. PICK i \in Live(dir) : \E w : queue = <<WriteEntry(i, To(dir[i], j)), WriteEntry(j, l), w>>
      BY <2>7 DEF LinkDue
    <3>3. d = Set(Set(dir, i, To(dir[i], j)), j, l)
      BY <3>2, LeadsOnly
    <3>4. i \in Entry /\ i # j /\ dir[i] \in EntryType /\ dir[i].kind # "free" /\ j \in Entry
      BY <1>1, <2>1, <3>1 DEF Live
    <3>5. d[i] = To(dir[i], j) /\ \A x \in Entry \ {i, j} : d[x] = dir[x]
      BY <3>3, <3>4 DEF Set
    <3>6. d[i].kind # "free" /\ d[i].next = j
      BY <3>4, <3>5 DEF To, EntryType
    <3>7. own[i] = f
      <4>1. i \in Live(d) /\ j # None
        BY <3>4, <3>6, Constants DEF Live, Entry
      <4>2. QED BY <1>1, <2>1, <3>6, <4>1 DEF Linked, Leading
    <3>8. QED BY <1>1, <2>1, <3>5, <3>7
  <2>8. CASE ListDue(h, sent[b], d, pos)
    <3>1. d = Set(dir, j, NewList(h.cur_sector))
      BY <2>8, LeadsOnly, DataIsData DEF ListDue
    <3>2. QED BY <1>3, <2>1, <3>1
  <2>9. QED BY <1>6, <2>3, <2>4, <2>5, <2>6, <2>7, <2>8 DEF Due
<1>7. QED BY <1>2, <1>4, <1>5, <1>6 DEF Pending

LEMMA ReadsInOrder == ASSUME IInv, CInv PROVE ReadsOn
<1>1. SUFFICES ASSUME NEW c \in Channels, fh[c].filemode = "read", fh[c].cur_offset < fh[c].size
               PROVE  CellAt(fh[c].cur_sector, fh[c].cur_soffset)
                        = Contents(fh[c].entry)[fh[c].cur_offset + 1]
  BY DEF ReadsOn
<1>2. PICK d : Leads(dir, queue, d) /\ \E own, rank, pos : Good(d, own, rank, pos)
  BY DEF IInv
<1>3. PICK own, rank, pos : Good(d, own, rank, pos)
  BY <1>2
<1>4. /\ Files(d, own, rank, pos) /\ Handled(fh, d, own, pos) /\ Pending(d, pos)
      /\ dir \in [Entry -> EntryType] /\ Linked(d, own, rank, pos)
  BY <1>2, <1>3, FilesTyped DEF Good, CInv, Kept, IInv
<1> DEFINE h == fh[c]
           e == h.entry
           x == h.cur_entry
           i == h.cur_sindex
           q == pos[x] + i
           o == h.cur_soffset
           p == h.cur_offset
<1>5. /\ e \in Entry /\ d[e].kind = "name" /\ x \in Live(d) /\ own[x] = e
      /\ h.size = d[e].size /\ i \in 0 .. curentry_max_sectors(d[x]) - 1
      /\ h.cur_sector = d[x].sectors[i] /\ p = SectorSize * q + o
      /\ o \in 0 .. SectorSize - 1 /\ p \in Nat /\ h.size \in Nat
  BY <1>1, <1>4 DEF Handled, Opened, ReadsAt, HandleType
<1>6. \A y \in Live(d) : own[y] = e => dir[y] = d[y]
  BY <1>1, <1>2, <1>4, Still
<1>7. e \in Live(d) /\ own[e] = e /\ dir[e] = d[e]
  <2>1. e \in Live(d)
    BY <1>5 DEF Live
  <2>2. QED BY <1>4, <1>5, <1>6, <2>1, RootOfFile
<1>8. Contents(e) = [k \in 1 .. h.size |->
                        CellAt(SectorAt(e, (k - 1) \div SectorSize), (k - 1) % SectorSize)]
  BY <1>5, <1>7 DEF Contents
<1>9. Contents(e)[p + 1] = CellAt(SectorAt(e, p \div SectorSize), p % SectorSize)
  <2>1. p < h.size
    BY <1>1
  <2> HIDE DEF p
  <2>2. p + 1 \in 1 .. h.size /\ (p + 1) - 1 = p
    BY <1>5, <2>1
  <2>3. QED BY <1>8, <2>2
<1>10. SectorAt(e, q) = h.cur_sector /\ q \in Nat
  <2>1. Grows(d, own, e, dir)
    BY <1>6 DEF Grows
  <2>2. dir[x].sectors[i] = d[x].sectors[i]
    BY <1>5, <1>6
  <2> HIDE DEF e, x, i
  <2>3. SectorIn(dir, e, q) = d[x].sectors[i] /\ q \in Nat
    BY <1>4, <1>5, <1>7, <2>1, <2>2, Placed
  <2>4. QED BY <1>5, <2>3, ContentsNow
<1>11. p \div SectorSize = q /\ p % SectorSize = o
  <2> HIDE DEF p, q, o
  <2>1. QED BY <1>5, <1>10, Divided
<1>12. QED BY <1>5, <1>9, <1>10, <1>11

-----------------------------------------------------------------------------
(***************************************************************************)
(* The invariant after a step.                                             *)
(***************************************************************************)
LEMMA LeadsOnce ==
  ASSUME NEW from, NEW q, NEW d, Leads(from, q, d), NEW d2, Leads(from, q, d2)
  PROVE  d2 = d
<1>1. CASE q = <<>>
  BY <1>1, LeadsOnly
<1>2. CASE \E i \in Entry, e \in EntryType : q = <<WriteEntry(i, e)>> /\ d2 = Set(from, i, e)
  BY <1>2, LeadsOnly
<1>3. CASE \E w : q = <<w>> /\ IsData(w) /\ d2 = from
  BY <1>3, LeadsOnly
<1>4. CASE \E i \in Entry, e \in EntryType : \E w :
             q = <<WriteEntry(i, e), w>> /\ IsData(w) /\ d2 = Set(from, i, e)
  BY <1>4, LeadsOnly
<1>5. CASE \E i, j \in Entry, e \in EntryType, s \in Sector : \E w :
             /\ q = <<WriteEntry(i, e), WriteEntry(j, NewList(s)), w>> /\ IsData(w)
             /\ i # j /\ from[j].kind = "free" /\ from[i].kind # "free"
             /\ d2 = Set(Set(from, i, e), j, NewList(s))
  BY <1>5, LeadsOnly
<1>6. QED BY <1>1, <1>2, <1>3, <1>4, <1>5 DEF Leads

(* What is said of a file in terms of one description of the directory is    *)
(* true of each.                                                           *)
LEMMA HoldsToo ==
  ASSUME NEW d, NEW own, NEW rank, NEW pos, Linked(d, own, rank, pos),
         NEW own2, NEW rank2, NEW pos2, Linked(d, own2, rank2, pos2),
         NEW e \in Live(d), d[e].kind = "name", NEW sec, NEW z, NEW cells,
         Holds(d, own, pos, sec, e, z, cells)
  PROVE  Holds(d, own2, pos2, sec, e, z, cells)
<1>1. ASSUME NEW x \in Live(d), own2[x] = e
      PROVE  own[x] = e /\ pos2[x] = pos[x]
  <2>1. own[x] = e
    BY <1>1, Unique
  <2>2. QED BY <2>1, Unique
<1>2. \A x, i, o : pos2[x] = pos[x] => ByteAt(pos2, x, i, o) = ByteAt(pos, x, i, o)
  BY DEF ByteAt
<1>3. QED BY <1>1, <1>2 DEF Holds

LEMMA WritersToo ==
  ASSUME NEW d, NEW own, NEW rank, NEW pos, Files(d, own, rank, pos),
         NEW own1, NEW rank1, NEW pos1, Files(d, own1, rank1, pos1),
         NEW own2, NEW rank2, NEW pos2, Files(d, own2, rank2, pos2),
         NEW h, Handled(h, d, own1, pos1), NEW sec, NEW sn, Writers(d, own, pos, sec, h, sn)
  PROVE  Writers(d, own2, pos2, sec, h, sn)
<1>1. /\ Linked(d, own, rank, pos) /\ Linked(d, own1, rank1, pos1) /\ Linked(d, own2, rank2, pos2)
      /\ Live(d) \subseteq Entry
  BY DEF Files, Live
<1>2. ASSUME NEW c \in Channels, h[c].filemode = "write"
      PROVE  Writer(d, own2, pos2, sec, h[c], sn[c])
  <2> DEFINE e == h[c].entry
             x == h[c].cur_entry
  <2>1. e \in Entry /\ d[e].kind = "name" /\ x \in Live(d) /\ own1[x] = e
    BY <1>2 DEF Handled, Opened, HandleType
  <2>2. e \in Live(d)
    BY <2>1 DEF Live
  <2>3. pos[x] = pos1[x] /\ pos2[x] = pos1[x]
    BY <1>1, <2>1, Unique
  <2>4. Writer(d, own, pos, sec, h[c], sn[c])
    BY <1>2 DEF Writers
  <2>5. Holds(d, own2, pos2, sec, e, h[c].size, sn[c].cells)
    <3> DEFINE z == h[c].size
               cells == sn[c].cells
    <3>1. Holds(d, own, pos, sec, e, z, cells)
      BY <2>4 DEF Writer
    <3> HIDE DEF e, z, cells
    <3>2. Holds(d, own2, pos2, sec, e, z, cells)
      BY ONLY <1>1, <2>1, <2>2, <3>1, HoldsToo
    <3>3. QED BY <3>2 DEF e, z, cells
  <2>6. Ends(h[c], pos2)
    BY <2>3, <2>4 DEF Writer, Ends
  <2>7. QED BY <2>4, <2>5, <2>6 DEF Writer
<1>3. QED BY <1>2 DEF Writers

(* It is enough to know the writers by one description of the directory.     *)
LEMMA Remains ==
  ASSUME IInv', sectors' \in Bytes, sent' = [c \in Channels |-> sent'[c]],
         Known(dir'), Blanked(dir', sectors'),
         NEW d, Leads(dir', queue', d), NEW own, NEW rank, NEW pos, Files(d, own, rank, pos),
         Known(d), Writers(d, own, pos, Coming(sectors', queue'), fh', sent'),
         \A pos2 : (\A x \in Live(d) : d[own[x]].kind = "name" => pos2[x] = pos[x]) => Pending(d, pos2)',
         Closes(d)'
  PROVE  CInv'
<1>1. PICK d1 : Leads(dir', queue', d1) /\ \E own1, rank1, pos1 : Good(d1, own1, rank1, pos1)'
  BY DEF IInv
<1>2. d1 = d
  BY <1>1, LeadsOnce
<1>3. PICK own1, rank1, pos1 : Good(d, own1, rank1, pos1)'
  BY <1>1, <1>2
<1>4. Files(d, own1, rank1, pos1) /\ Handled(fh', d, own1, pos1)
  BY <1>3 DEF Good
<1>5. ASSUME NEW d2, NEW own2, NEW rank2, NEW pos2,
             Leads(dir', queue', d2), Files(d2, own2, rank2, pos2)
      PROVE  Kept(d2, own2, pos2)'
  <2>1. d2 = d
    BY <1>5, LeadsOnce
  <2>2. Files(d, own2, rank2, pos2)
    BY <1>5, <2>1
  <2>3. Writers(d, own2, pos2, Coming(sectors', queue'), fh', sent')
    <3> DEFINE sec == Coming(sectors', queue')
    <3> HIDE DEF sec
    <3>1. Writers(d, own, pos, sec, fh', sent')
      BY DEF sec
    <3>2. Files(d, own, rank, pos)
      OBVIOUS
    <3>3. Writers(d, own2, pos2, sec, fh', sent')
      BY ONLY <1>4, <2>2, <3>1, <3>2, WritersToo
    <3>4. QED BY <3>3 DEF sec
  <2>4. Pending(d, pos2)'
    <3>1. ASSUME NEW x \in Live(d), d[own[x]].kind = "name"
          PROVE  pos2[x] = pos[x]
      BY <2>2, <3>1, Unique, FilesTyped
    <3>2. QED BY <3>1
  <2>5. Kept(d, own2, pos2)'
    BY <2>3, <2>4 DEF Kept
  <2>6. QED BY <2>1, <2>5
<1>6. QED BY <1>5 DEF CInv

(* A step that does nothing to files and writing handles.                   *)
LEMMA Quiet ==
  ASSUME IInv, CInv, IInv', queue = <<>>, queue' = <<>>, UNCHANGED <<dir, sectors, sent>>,
         \A c \in Channels :
           /\ fh'[c].filemode = "write" <=> fh[c].filemode = "write"
           /\ fh'[c].filemode = "write" => fh'[c] = fh[c],
         \A c \in Channels : ~ Finishing(busy', c)
  PROVE  CInv'
<1>1. PICK own, rank, pos : Good(dir, own, rank, pos)
  BY Settled
<1>2. Files(dir, own, rank, pos) /\ Leads(dir, queue, dir)
  BY <1>1 DEF Good, Leads
<1>3. Kept(dir, own, pos) /\ sectors \in Bytes /\ sent = [c \in Channels |-> sent[c]]
      /\ Known(dir) /\ Blanked(dir, sectors)
  BY <1>2 DEF CInv
<1>4. Writers(dir, own, pos, Coming(sectors', queue'), fh', sent')
  <2>1. Writers(dir, own, pos, Coming(sectors, queue), fh, sent)
    BY <1>3 DEF Kept
  <2>2. Coming(sectors', queue') = Coming(sectors, queue)
    OBVIOUS
  <2>3. QED BY <2>1, <2>2 DEF Writers
<1>5. \A pos2 : Pending(dir, pos2)'
  BY DEF Pending
<1>6. Leads(dir', queue', dir)
  BY <1>2
<1>7. Closes(dir)'
  BY DEF Closes
<1>8. /\ sectors' \in Bytes /\ sent' = [c \in Channels |-> sent'[c]]
      /\ Known(dir') /\ Blanked(dir', sectors')
  BY <1>3
<1>9. QED BY <1>2, <1>3, <1>4, <1>5, <1>6, <1>7, <1>8, Remains

-----------------------------------------------------------------------------
(***************************************************************************)
(* Writers of other files than the one that changes.                       *)
(***************************************************************************)
SameBytes(d, own, f, sec, sec2) ==
  \A x \in Live(d) : own[x] # f => \A i \in Listed(d[x]) : sec2[d[x].sectors[i]] = sec[d[x].sectors[i]]

LEMMA OtherWriter ==
  ASSUME NEW d, NEW own, NEW rank, NEW pos, Linked(d, own, rank, pos),
         NEW d2, NEW own2, NEW pos2, NEW f, Untouched(d, own, pos, d2, own2, pos2, f),
         NEW sec, NEW sec2, SameBytes(d, own, f, sec, sec2),
         NEW h \in HandleType, Opened(d, own, pos, h), h.entry # f,
         NEW s, Writer(d, own, pos, sec, h, s)
  PROVE  Writer(d2, own2, pos2, sec2, h, s)
<1> DEFINE e == h.entry
           x == h.cur_entry
<1>1. e \in Entry /\ e \in Live(d) /\ d[e].kind = "name" /\ x \in Entry /\ x \in Live(d) /\ own[x] = e
  BY DEF Opened, HandleType, Live
<1>2. own[e] = e
  BY <1>1, RootOfFile
<1>3. /\ d2[e] = d[e] /\ pos2[x] = pos[x]
      /\ \A y \in Entry :
           /\ y \in Live(d) /\ own[y] = e <=> y \in Live(d2) /\ own2[y] = e
           /\ y \in Live(d) /\ own[y] = e => d2[y] = d[y] /\ pos2[y] = pos[y]
  BY <1>1, <1>2 DEF Untouched
<1>4. /\ s \in [name : Names, cells : Seq(CellType)] /\ s.name = d[e].name
      /\ Len(s.cells) = h.size /\ d[e].size <= h.size /\ Ends(h, pos)
      /\ Holds(d, own, pos, sec, e, h.size, s.cells)
  BY DEF Writer
<1>5. Ends(h, pos2)
  BY <1>3, <1>4 DEF Ends
<1>6. Holds(d2, own2, pos2, sec2, e, h.size, s.cells)
  <2> DEFINE z == h.size
             cells == s.cells
  <2> HIDE DEF z, cells, e
  <2>1. ASSUME NEW y \in Live(d2), own2[y] = e, NEW i \in Listed(d2[y]), NEW o \in 0 .. SectorSize - 1,
               ByteAt(pos2, y, i, o) < z
        PROVE  sec2[d2[y].sectors[i]][o] = cells[ByteAt(pos2, y, i, o) + 1]
    <3>1. y \in Live(d) /\ own[y] = e /\ d2[y] = d[y] /\ pos2[y] = pos[y]
      BY <1>3, <2>1 DEF Live
    <3>2. ByteAt(pos2, y, i, o) = ByteAt(pos, y, i, o)
      BY <3>1 DEF ByteAt
    <3>3. sec2[d[y].sectors[i]] = sec[d[y].sectors[i]]
      BY <2>1, <3>1 DEF SameBytes, e
    <3>4. Holds(d, own, pos, sec, e, z, cells)
      BY <1>4 DEF z, cells
    <3>5. sec[d[y].sectors[i]][o] = cells[ByteAt(pos, y, i, o) + 1]
      BY <2>1, <3>1, <3>2, <3>4 DEF Holds
    <3>6. QED BY <3>1, <3>2, <3>3, <3>5
  <2>2. Holds(d2, own2, pos2, sec2, e, z, cells)
    BY <2>1 DEF Holds
  <2>3. QED BY <2>2 DEF z, cells
<1>7. QED BY <1>3, <1>4, <1>5, <1>6 DEF Writer

(* One channel goes on, with the file f.                                    *)
LEMMA WritersGo ==
  ASSUME NEW d, NEW own, NEW rank, NEW pos, Files(d, own, rank, pos),
         NEW h, Handled(h, d, own, pos), NEW sec, NEW sn, Writers(d, own, pos, sec, h, sn),
         sn = [b \in Channels |-> sn[b]],
         NEW d2, NEW own2, NEW pos2, NEW f, Untouched(d, own, pos, d2, own2, pos2, f),
         NEW sec2, SameBytes(d, own, f, sec, sec2),
         NEW c \in Channels, \A b \in Channels \ {c} : h[b].filemode = "write" => h[b].entry # f,
         NEW g, NEW h2, h2 = Set(h, c, g), NEW s, NEW sn2, sn2 = Set(sn, c, s),
         g.filemode = "write" => Writer(d2, own2, pos2, sec2, g, s),
         g.filemode # "write" => s = None
  PROVE  Writers(d2, own2, pos2, sec2, h2, sn2) /\ sn2 = [b \in Channels |-> sn2[b]]
<1>1. h \in [Channels -> HandleType] /\ Linked(d, own, rank, pos)
  BY DEF Handled, Files
<1>2. /\ h2[c] = g /\ sn2[c] = s /\ sn2 = [b \in Channels |-> sn2[b]]
      /\ \A b \in Channels \ {c} : h2[b] = h[b] /\ sn2[b] = sn[b]
  BY <1>1 DEF Set
<1>3. ASSUME NEW b \in Channels \ {c}, h[b].filemode = "write"
      PROVE  Writer(d2, own2, pos2, sec2, h[b], sn[b])
  <2>1. Opened(d, own, pos, h[b]) /\ h[b] \in HandleType /\ h[b].entry # f
    BY <1>1, <1>3 DEF Handled
  <2>2. Writer(d, own, pos, sec, h[b], sn[b])
    BY <1>3 DEF Writers
  <2>3. QED BY <1>1, <2>1, <2>2, OtherWriter
<1>4. ASSUME NEW b \in Channels
      PROVE  IF h2[b].filemode = "write" THEN Writer(d2, own2, pos2, sec2, h2[b], sn2[b]) ELSE sn2[b] = None
  <2>1. CASE b = c
    BY <1>2, <2>1
  <2>2. CASE b # c
    <3>1. h2[b] = h[b] /\ sn2[b] = sn[b]
      BY <1>2, <2>2
    <3>2. CASE h[b].filemode = "write"
      BY <1>3, <2>2, <3>1, <3>2
    <3>3. CASE h[b].filemode # "write"
      BY <3>1, <3>3 DEF Writers
    <3>4. QED BY <3>2, <3>3
  <2>3. QED BY <2>1, <2>2
<1>5. QED BY <1>2, <1>4 DEF Writers

(* No channel writes the file that changes.                                 *)
LEMMA WritersStay ==
  ASSUME NEW d, NEW own, NEW rank, NEW pos, Files(d, own, rank, pos),
         NEW h, Handled(h, d, own, pos), NEW sec, NEW sn, Writers(d, own, pos, sec, h, sn),
         NEW d2, NEW own2, NEW pos2, NEW f, Untouched(d, own, pos, d2, own2, pos2, f),
         NEW sec2, SameBytes(d, own, f, sec, sec2),
         \A b \in Channels : h[b].filemode = "write" => h[b].entry # f
  PROVE  Writers(d2, own2, pos2, sec2, h, sn)
<1>1. h \in [Channels -> HandleType] /\ Linked(d, own, rank, pos)
  BY DEF Handled, Files
<1>2. ASSUME NEW b \in Channels, h[b].filemode = "write"
      PROVE  Writer(d2, own2, pos2, sec2, h[b], sn[b])
  <2>1. Opened(d, own, pos, h[b]) /\ h[b] \in HandleType /\ h[b].entry # f
    BY <1>1, <1>2 DEF Handled
  <2>2. Writer(d, own, pos, sec, h[b], sn[b])
    BY <1>2 DEF Writers
  <2>3. QED BY <1>1, <2>1, <2>2, OtherWriter
<1>3. QED BY <1>2 DEF Writers

LEMMA EqualBytes == ASSUME NEW d, NEW own, NEW f, NEW sec PROVE SameBytes(d, own, f, sec, sec)
BY DEF SameBytes
-----------------------------------------------------------------------------
(***************************************************************************)
(* Names.                                                                  *)
(***************************************************************************)
LEMMA Finds ==
  ASSUME NEW d, Known(d), NEW i \in Live(d), d[i].kind = "name"
  PROVE  find_entry(d, d[i].name) = i
<1>1. find_entry(d, d[i].name) # None
  BY FindsNone
<1>2. QED BY <1>1, FoundEntry DEF Known

LEMMA KnownToo ==
  ASSUME NEW d, Known(d), NEW d2,
         \A i \in Live(d2) : d2[i].kind = "name" => i \in Live(d) /\ d[i].kind = "name" /\ d2[i].name = d[i].name
  PROVE  Known(d2)
BY DEF Known

LEMMA KnownNew ==
  ASSUME NEW d, Known(d), NEW n \in Names, find_entry(d, n) = None,
         NEW k, NEW d2, d2[k].name = n,
         \A i \in Live(d2) : d2[i].kind = "name" /\ i # k =>
           i \in Live(d) /\ d[i].kind = "name" /\ d2[i].name = d[i].name
  PROVE  Known(d2)
<1>1. \A i \in Live(d) : d[i].kind = "name" => d[i].name # n
  BY FindsNone
<1>2. QED BY <1>1 DEF Known

(* What holds when an operation starts.                                     *)
LEMMA AtStart ==
  ASSUME IInv, CInv, queue = <<>>
  PROVE  \E own, rank, pos :
           /\ Good(dir, own, rank, pos) /\ Files(dir, own, rank, pos) /\ Handled(fh, dir, own, pos)
           /\ Writers(dir, own, pos, sectors, fh, sent) /\ Closes(dir)
<1>1. PICK own, rank, pos : Good(dir, own, rank, pos)
  BY Settled
<1>2. Files(dir, own, rank, pos) /\ Handled(fh, dir, own, pos) /\ Leads(dir, queue, dir)
  BY <1>1 DEF Good, Leads
<1>3. Kept(dir, own, pos)
  BY <1>2 DEF CInv
<1>4. Coming(sectors, queue) = sectors
  BY DEF Coming
<1>5. Writers(dir, own, pos, sectors, fh, sent) /\ Closes(dir)
  BY <1>3, <1>4 DEF Kept
<1>6. QED BY <1>1, <1>2, <1>5

LEMMA Whole ==
  ASSUME CInv
  PROVE  sectors \in Bytes /\ sent = [c \in Channels |-> sent[c]] /\ Known(dir) /\ Blanked(dir, sectors)
BY DEF CInv

(* A write of an entry brings no data.                                      *)
LEMMA NoData ==
  ASSUME NEW i, NEW e, NEW sec
  PROVE  Coming(sec, <<WriteEntry(i, e)>>) = sec
<1>1. Len(<<WriteEntry(i, e)>>) = 1 /\ <<WriteEntry(i, e)>>[1] = WriteEntry(i, e)
  OBVIOUS
<1>2. QED BY <1>1, Writes DEF Coming

-----------------------------------------------------------------------------
(***************************************************************************)
(* Renaming, closing, deleting, formatting, and a power failure.           *)
(***************************************************************************)
LEMMA Blanks == Blank \in [0 .. SectorSize - 1 -> CellType]
BY DEF Blank, CellType

LEMMA InitContents == Init => CInv
<1> SUFFICES ASSUME Init PROVE CInv
  OBVIOUS
<1>1. /\ dir = [i \in Entry |-> Erased] /\ queue = <<>> /\ busy = None
      /\ sectors = [s \in Sector |-> Blank]
      /\ fh = [c \in Channels |-> NoHandle] /\ sent = [c \in Channels |-> None]
  BY DEF Init
<1>2. Live(dir) = {}
  BY <1>1, NewEntries DEF Live
<1>3. sectors \in Bytes /\ Blanked(dir, sectors) /\ Known(dir)
  BY <1>1, <1>2, Blanks DEF Bytes, Blanked, Known
<1>4. sent = [c \in Channels |-> sent[c]]
  BY <1>1
<1>5. ASSUME NEW d, NEW own, NEW rank, NEW pos, Leads(dir, queue, d), Files(d, own, rank, pos)
      PROVE  Kept(d, own, pos)
  <2>1. d = dir
    BY <1>1, <1>5, LeadsOnly
  <2>2. \A c \in Channels : fh[c].filemode # "write" /\ sent[c] = None
    BY <1>1 DEF NoHandle
  <2>3. Writers(d, own, pos, Coming(sectors, queue), fh, sent)
    BY <2>2 DEF Writers
  <2>4. Closes(d)
    BY <1>1 DEF Closes, Finishing
  <2>5. QED BY <1>1, <1>3, <2>1, <2>3, <2>4 DEF Kept, Pending
<1>6. QED BY <1>3, <1>4, <1>5 DEF CInv

(* What a writer has sent is in its file, whatever else its entry says.      *)
LEMMA SameWriter ==
  ASSUME NEW d, NEW own, NEW pos, NEW sec, NEW h, NEW s, Writer(d, own, pos, sec, h, s),
         NEW d2, Live(d2) = Live(d), \A x \in Live(d) : d2[x].kind = d[x].kind /\ d2[x].sectors = d[x].sectors,
         d2[h.entry].name = d[h.entry].name, d2[h.entry].size <= h.size
  PROVE  Writer(d2, own, pos, sec, h, s)
<1>1. \A x \in Live(d) : Listed(d2[x]) = Listed(d[x])
  BY SameSectors
<1>2. Holds(d, own, pos, sec, h.entry, h.size, s.cells)
  BY DEF Writer
<1>3. Holds(d2, own, pos, sec, h.entry, h.size, s.cells)
  <2> DEFINE e == h.entry
             z == h.size
             cells == s.cells
  <2>1. Holds(d, own, pos, sec, e, z, cells)
    BY <1>2
  <2> HIDE DEF e, z, cells
  <2>2. Holds(d2, own, pos, sec, e, z, cells)
    BY <1>1, <2>1 DEF Holds
  <2>3. QED BY <2>2 DEF e, z, cells
<1>4. QED BY <1>3 DEF Writer

LEMMA RenameContents ==
  ASSUME IInv, CInv, IInv', queue = <<>>, NEW old \in Names, NEW new \in Names, Rename(old, new)
  PROVE  CInv'
<1> DEFINE f == find_entry(dir, old)
           e == [dir[f] EXCEPT !.name = new]
<1>1. PICK own, rank, pos :
        /\ Good(dir, own, rank, pos) /\ Files(dir, own, rank, pos) /\ Handled(fh, dir, own, pos)
        /\ Writers(dir, own, pos, sectors, fh, sent) /\ Closes(dir)
  BY AtStart
<1>2. sectors \in Bytes /\ sent = [c \in Channels |-> sent[c]] /\ Known(dir) /\ Blanked(dir, sectors)
  BY Whole
<1>3. /\ f # None /\ Idle(f) /\ queue' = <<WriteEntry(f, e)>> /\ busy' = None
      /\ dir' = dir /\ sectors' = sectors /\ fh' = fh /\ sent' = sent /\ find_entry(dir, new) = None
  BY DEF Rename, Ready, eeprom, hist
<1>4. f \in Live(dir) /\ dir[f].kind = "name" /\ f \in Entry
  BY <1>3, FoundEntry DEF Live
<1>5. dir[f].name # new
  BY <1>3, <1>4, FindsNone
<1>6. dir[f] \in EntryType /\ Fits(dir, own, pos, f, dir[f].size) /\ dir \in [Entry -> EntryType]
  BY <1>1, <1>4, FilesTyped DEF Sized
<1>7. /\ e \in EntryType /\ e.kind = "name" /\ e.sectors = dir[f].sectors /\ e.next = dir[f].next
      /\ e.size = dir[f].size /\ e.name = new
  BY <1>4, <1>6 DEF EntryType
<1>8. NameDue'
  BY <1>3, <1>4, <1>5 DEF NameDue, Idle
<1> HIDE DEF f
<1>9. PICK d2 : d2 = Set(dir, f, e)
  OBVIOUS
<1> HIDE DEF e
<1>10. Fits(dir, own, pos, f, e.size)
  BY <1>6, <1>7
<1>11. /\ Files(d2, own, rank, pos)
       /\ Live(d2) = Live(dir) /\ UsedOf(d2) = UsedOf(dir)
       /\ Untouched(dir, own, pos, d2, own, pos, f)
       /\ \A g, y : Fits(dir, own, pos, g, y) => Fits(d2, own, pos, g, y)
  BY <1>1, <1>4, <1>7, <1>9, <1>10, Relabelled
<1>12. Known(d2)
  <2>1. d2[f] = e /\ \A i \in Entry \ {f} : d2[i] = dir[i]
    BY <1>4, <1>6, <1>9 DEF Set
  <2>2. Live(d2) \subseteq Entry
    BY DEF Live
  <2>3. QED BY <1>2, <1>3, <1>7, <1>11, <2>1, <2>2, KnownNew
<1>13. Writers(d2, own, pos, sectors, fh, sent)
  <2>1. \A b \in Channels : fh[b].filemode = "write" => fh[b].entry # f
    BY <1>3 DEF Idle
  <2>2. QED BY <1>1, <1>11, <2>1, EqualBytes, WritersStay
<1>14. Leads(dir', queue', d2)
  BY <1>3, <1>4, <1>7, <1>9 DEF Leads
<1>15. Coming(sectors', queue') = sectors
  BY <1>3, NoData
<1>16. Writers(d2, own, pos, Coming(sectors', queue'), fh', sent')
  BY <1>3, <1>13, <1>15
<1>17. \A pos2 : (\A x \in Live(d2) : d2[own[x]].kind = "name" => pos2[x] = pos[x]) => Pending(d2, pos2)'
  BY <1>8 DEF Pending
<1>18. Closes(d2)'
  BY <1>3 DEF Closes, Finishing
<1>19. /\ sectors' \in Bytes /\ sent' = [c \in Channels |-> sent'[c]] /\ Known(dir') /\ Blanked(dir', sectors')
  BY <1>2, <1>3
<1>20. IInv' /\ Files(d2, own, rank, pos)
  BY <1>11
<1>21. QED BY ONLY <1>12, <1>14, <1>16, <1>17, <1>18, <1>19, <1>20, Remains

LEMMA CloseEntryContents ==
  ASSUME IInv, CInv, IInv', queue = <<>>, Running("write"), CloseEntry(busy.c)
  PROVE  CInv'
<1>1. PICK own, rank, pos :
        /\ Good(dir, own, rank, pos) /\ Files(dir, own, rank, pos) /\ Handled(fh, dir, own, pos)
        /\ Writers(dir, own, pos, sectors, fh, sent) /\ Closes(dir)
  BY AtStart
<1>2. sectors \in Bytes /\ sent = [c \in Channels |-> sent[c]] /\ Known(dir) /\ Blanked(dir, sectors)
  BY Whole
<1>3. PICK c \in Channels : c = busy.c
  BY <1>1, IsWriting
<1> DEFINE h == fh[c]
           f == h.entry
           z == h.size
           e == [dir[f] EXCEPT !.size = z]
<1>4. /\ queue' = <<WriteEntry(f, e)>> /\ busy' = [op |-> "close", c |-> c]
      /\ dir' = dir /\ sectors' = sectors /\ fh' = fh /\ sent' = sent
  BY <1>3 DEF CloseEntry, eeprom, hist
<1>5. /\ h.filemode = "write" /\ h \in HandleType /\ Opened(dir, own, pos, h)
      /\ \A b \in Channels \ {c} : fh[b].filemode # "closed" => fh[b].entry # f
  BY <1>1, <1>3, IsWriting
<1>6. /\ dir[f].kind = "name" /\ WritesAt(dir, own, pos, h) /\ f \in Entry /\ z \in Nat
  BY <1>5 DEF Opened, HandleType
<1>7. f \in Live(dir) /\ Fits(dir, own, pos, f, z) /\ dir[f] \in EntryType
      /\ dir \in [Entry -> EntryType]
  BY <1>1, <1>6, FilesTyped DEF Live, WritesAt
<1>8. z \in 0 .. Sectors * SectorSize
  BY <1>6, <1>7, SizeBound
<1>9. SizeDue(fh[c])'
  BY <1>4, <1>6, <1>7 DEF SizeDue
<1>10. PICK d2 : d2 = Set(dir, f, e)
  OBVIOUS
<1>11. Closes(d2)'
  <2>1. d2[f].size = z
    <3>1. e.size = z
      BY <1>7 DEF EntryType
    <3> HIDE DEF e
    <3>2. QED BY <1>6, <1>7, <1>10, <3>1 DEF Set
  <2>2. fh'[c].filemode = "write" /\ d2[fh'[c].entry].size = fh'[c].size
    BY <1>4, <1>5, <2>1
  <2>3. ASSUME NEW b \in Channels, Finishing(busy', b)
        PROVE  b = c
    BY <1>4, <2>3 DEF Finishing
  <2>4. QED BY <2>2, <2>3 DEF Closes, Finishing
<1>12. fh = Set(fh, c, h) /\ sent = Set(sent, c, sent[c])
  BY <1>1, <1>2 DEF Set, Handled
<1>13. Writer(dir, own, pos, sectors, h, sent[c])
  BY <1>1, <1>5 DEF Writers
<1>14. c \in Channels /\ fh[c] = h
  OBVIOUS
<1> HIDE DEF h
<1>15. h.entry = f /\ h.size = z
  OBVIOUS
<1> HIDE DEF f, z
<1>16. /\ e \in EntryType /\ e.kind = "name" /\ e.sectors = dir[f].sectors /\ e.next = dir[f].next
       /\ e.size = z /\ e.name = dir[f].name
  BY <1>6, <1>7, <1>8 DEF EntryType
<1> HIDE DEF e
<1>17. Fits(dir, own, pos, f, e.size)
  BY <1>7, <1>16
<1>18. /\ Files(d2, own, rank, pos)
       /\ Live(d2) = Live(dir) /\ UsedOf(d2) = UsedOf(dir)
       /\ Untouched(dir, own, pos, d2, own, pos, f)
       /\ \A g, y : Fits(dir, own, pos, g, y) => Fits(d2, own, pos, g, y)
  BY <1>1, <1>6, <1>7, <1>16, <1>10, <1>17, Relabelled
<1>19. /\ d2[f] = e
       /\ \A x \in Entry : d2[x].kind = dir[x].kind /\ d2[x].sectors = dir[x].sectors /\ d2[x].name = dir[x].name
  BY <1>6, <1>7, <1>16, <1>10 DEF Set
<1>20. Live(dir) \subseteq Entry
  BY DEF Live
<1>21. Known(d2)
  BY <1>2, <1>18, <1>19, <1>20, KnownToo
<1>22. Writers(d2, own, pos, sectors, fh, sent)
  <2>1. Writer(d2, own, pos, sectors, h, sent[c])
    <3>1. d2[h.entry].name = dir[h.entry].name /\ d2[h.entry].size <= h.size
      BY <1>6, <1>15, <1>16, <1>19
    <3>2. QED BY <1>13, <1>18, <1>19, <1>20, <3>1, SameWriter
  <2>2. \A b \in Channels \ {c} : fh[b].filemode = "write" => fh[b].entry # f
    BY <1>5 DEF f
  <2> DEFINE s == sent[c]
  <2>3. Writer(d2, own, pos, sectors, h, s) /\ sent = Set(sent, c, s)
    BY <1>12, <2>1
  <2> HIDE DEF s
  <2>4. SameBytes(dir, own, f, sectors, sectors)
    BY EqualBytes
  <2>5. Files(dir, own, rank, pos) /\ Handled(fh, dir, own, pos) /\ Writers(dir, own, pos, sectors, fh, sent)
    BY <1>1
  <2>6. fh = Set(fh, c, h) /\ sent = [b \in Channels |-> sent[b]] /\ h.filemode = "write"
        /\ Untouched(dir, own, pos, d2, own, pos, f)
    BY <1>2, <1>5, <1>12, <1>18
  <2>7. QED BY <2>2, <2>3, <2>4, <2>5, <2>6, WritersGo
<1>23. Leads(dir', queue', d2)
  BY <1>4, <1>6, <1>16, <1>10 DEF Leads
<1>24. Coming(sectors', queue') = sectors
  BY <1>4, NoData
<1>25. Writers(d2, own, pos, Coming(sectors', queue'), fh', sent')
  BY <1>4, <1>22, <1>24
<1>26. \A pos2 : (\A x \in Live(d2) : d2[own[x]].kind = "name" => pos2[x] = pos[x]) => Pending(d2, pos2)'
  BY <1>4, <1>5, <1>9, <1>14 DEF Pending, Due
<1>27. /\ sectors' \in Bytes /\ sent' = [b \in Channels |-> sent'[b]] /\ Known(dir') /\ Blanked(dir', sectors')
  BY <1>2, <1>4
<1>28. IInv' /\ Files(d2, own, rank, pos)
  BY <1>18
<1>29. QED BY ONLY <1>11, <1>21, <1>23, <1>25, <1>26, <1>27, <1>28, Remains

LEMMA DeleteEntryContents ==
  ASSUME IInv, CInv, IInv', queue = <<>>, DeleteEntry
  PROVE  CInv'
<1>1. PICK own, rank, pos :
        /\ Good(dir, own, rank, pos) /\ Files(dir, own, rank, pos) /\ Handled(fh, dir, own, pos)
        /\ Writers(dir, own, pos, sectors, fh, sent) /\ Closes(dir)
  BY AtStart
<1>2. sectors \in Bytes /\ sent = [c \in Channels |-> sent[c]] /\ Known(dir) /\ Blanked(dir, sectors)
  BY Whole
<1>3. /\ busy # None /\ busy.op = "delete" /\ queue' = <<WriteEntry(busy.at, Erased)>>
      /\ busy' = IF dir[busy.at].next = None THEN None ELSE [busy EXCEPT !.at = dir[busy.at].next]
      /\ dir' = dir /\ sectors' = sectors /\ fh' = fh /\ sent' = sent
  BY DEF DeleteEntry, Running, eeprom, hist
<1>4. PICK i \in Live(dir) :
        /\ busy = [op |-> "delete", at |-> i] /\ rank[i] = 0
        /\ \A c \in Channels : fh[c].filemode # "closed" => fh[c].entry # i
  <2>1. ~ Reading(fh, busy) /\ ~ Writing(fh, busy) /\ ~ Closing(busy)
    BY <1>3 DEF Reading, Writing, Closing
  <2>2. Deleting(fh, busy, dir, rank)
    BY <1>1, <1>3, <2>1 DEF Good, Job
  <2>3. QED BY <2>2 DEF Deleting
<1>5. busy.at = i /\ i \in Entry /\ dir \in [Entry -> EntryType]
  BY <1>1, <1>4, FilesTyped DEF Live
<1>6. PICK d2 : d2 = Set(dir, i, Erased)
  OBVIOUS
<1>7. /\ Live(d2) = Live(dir) \ {i} /\ UsedOf(d2) = UsedOf(dir) \ SectorsOf(dir[i])
      /\ dir[i].next # None => dir[i].next \in Live(d2) /\ d2[dir[i].next].kind = "list"
      /\ \E own2, rank2 :
           /\ Files(d2, own2, rank2, pos)
           /\ Untouched(dir, own, pos, d2, own2, pos, i)
           /\ dir[i].next # None => rank2[dir[i].next] = 0
  BY <1>1, <1>4, <1>6, FirstErased
<1>8. PICK own2, rank2 : Files(d2, own2, rank2, pos) /\ Untouched(dir, own, pos, d2, own2, pos, i)
  BY <1>7
<1>9. Known(d2)
  <2>1. \A x \in Live(d2) : d2[x] = dir[x] /\ x \in Live(dir)
    BY <1>5, <1>6, <1>7 DEF Set, Live
  <2>2. QED BY <1>2, <2>1, KnownToo
<1>10. Writers(d2, own2, pos, sectors, fh, sent)
  <2>1. \A b \in Channels : fh[b].filemode = "write" => fh[b].entry # i
    BY <1>4
  <2>2. QED BY <1>1, <1>8, <2>1, EqualBytes, WritersStay
<1>11. Leads(dir', queue', d2)
  <2>1. Erased \in EntryType
    BY NewEntries
  <2>2. QED BY <1>3, <1>5, <1>6, <2>1 DEF Leads
<1>12. Writers(d2, own2, pos, Coming(sectors', queue'), fh', sent')
  BY <1>3, <1>10, NoData
<1>13. EraseDue'
  BY <1>3, <1>4, <1>5 DEF EraseDue
<1>14. \A pos2 : (\A x \in Live(d2) : d2[own2[x]].kind = "name" => pos2[x] = pos[x]) => Pending(d2, pos2)'
  BY <1>13 DEF Pending
<1>15. Closes(d2)'
  <2>1. \A c \in Channels : ~ Finishing(busy', c)
    <3>1. busy' = None \/ busy'.op = "delete"
      BY <1>3, <1>4
    <3>2. QED BY <3>1 DEF Finishing
  <2>2. QED BY <2>1 DEF Closes
<1>16. /\ sectors' \in Bytes /\ sent' = [c \in Channels |-> sent'[c]] /\ Known(dir') /\ Blanked(dir', sectors')
  BY <1>2, <1>3
<1>17. IInv' /\ Files(d2, own2, rank2, pos)
  BY <1>8
<1>18. QED BY ONLY <1>9, <1>11, <1>12, <1>14, <1>15, <1>16, <1>17, Remains

LEMMA CloseDoneContents ==
  ASSUME IInv, CInv, IInv', queue = <<>>, CloseDone
  PROVE  CInv'
<1>1. PICK own, rank, pos :
        /\ Good(dir, own, rank, pos) /\ Files(dir, own, rank, pos) /\ Handled(fh, dir, own, pos)
        /\ Writers(dir, own, pos, sectors, fh, sent) /\ Closes(dir)
  BY AtStart
<1>2. sectors \in Bytes /\ sent = [c \in Channels |-> sent[c]] /\ Known(dir) /\ Blanked(dir, sectors)
  BY Whole
<1>3. /\ busy # None /\ busy.op = "close" /\ busy' = None /\ queue' = <<>>
      /\ fh' = [fh EXCEPT ![busy.c] = NoHandle] /\ sent' = [sent EXCEPT ![busy.c] = None]
      /\ dir' = dir /\ sectors' = sectors
  BY DEF CloseDone, Running, eeprom
<1>4. PICK c \in Channels : busy = [op |-> "close", c |-> c]
  <2>1. ~ Reading(fh, busy) /\ ~ Writing(fh, busy) /\ ~ Deleting(fh, busy, dir, rank)
    BY <1>3 DEF Reading, Writing, Deleting
  <2>2. Closing(busy)
    BY <1>1, <1>3, <2>1 DEF Good, Job
  <2>3. QED BY <2>2 DEF Closing
<1>5. busy.c = c /\ fh[c].filemode = "write"
  BY <1>1, <1>3, <1>4 DEF Closes, Finishing
<1>6. fh' = Set(fh, c, NoHandle) /\ sent' = Set(sent, c, None) /\ NoHandle.filemode = "closed"
  BY <1>3, <1>5, Closed DEF Set
<1>7. \A b \in Channels \ {c} : fh[b].filemode = "write" => fh[b].entry # fh[c].entry
  BY <1>1, <1>5 DEF Handled
<1>8. PICK d2 : d2 = dir
  OBVIOUS
<1>9. Writers(d2, own, pos, sectors, fh', sent') /\ sent' = [b \in Channels |-> sent'[b]]
  <2>1. PICK f : f = fh[c].entry
    OBVIOUS
  <2>2. \A b \in Channels \ {c} : fh[b].filemode = "write" => fh[b].entry # f
    BY <1>7, <2>1
  <2>3. /\ Files(dir, own, rank, pos) /\ Handled(fh, dir, own, pos)
       /\ Writers(dir, own, pos, sectors, fh, sent)
    BY <1>1
  <2>4. Untouched(dir, own, pos, d2, own, pos, f) /\ SameBytes(dir, own, f, sectors, sectors)
    BY <1>8, SameUntouched, EqualBytes
  <2>5. PICK g : g = NoHandle
    OBVIOUS
  <2>6. PICK h2, sn2 : h2 = fh' /\ sn2 = sent'
    OBVIOUS
  <2>7. PICK s : s = None
    OBVIOUS
  <2>8. /\ g.filemode # "write" /\ h2 = Set(fh, c, g) /\ sn2 = Set(sent, c, s)
        /\ g.filemode = "write" => Writer(d2, own, pos, sectors, g, s)
        /\ g.filemode # "write" => s = None
    BY <1>6, <2>5, <2>6, <2>7
  <2>9. c \in Channels /\ sent = [b \in Channels |-> sent[b]]
    BY <1>2
  <2>10. Writers(d2, own, pos, sectors, h2, sn2) /\ sn2 = [b \in Channels |-> sn2[b]]
    BY ONLY <2>3, <2>2, <2>4, <2>8, <2>9, WritersGo
  <2>11. QED BY <2>6, <2>10
<1>10. Coming(sectors', queue') = sectors
  BY <1>3 DEF Coming
<1>11. Writers(d2, own, pos, Coming(sectors', queue'), fh', sent')
  BY <1>9, <1>10
<1>12. Leads(dir', queue', d2)
  BY <1>3, <1>8 DEF Leads
<1>13. \A pos2 : (\A x \in Live(d2) : d2[own[x]].kind = "name" => pos2[x] = pos[x]) => Pending(d2, pos2)'
  BY <1>3 DEF Pending
<1>14. Closes(d2)'
  BY <1>3 DEF Closes, Finishing
<1>15. /\ sectors' \in Bytes /\ sent' = [b \in Channels |-> sent'[b]] /\ Known(dir') /\ Blanked(dir', sectors')
  BY <1>2, <1>3, <1>9
<1>16. IInv' /\ Files(d2, own, rank, pos) /\ Known(d2)
  BY <1>1, <1>2, <1>8
<1>17. QED BY ONLY <1>11, <1>12, <1>13, <1>14, <1>15, <1>16, Remains

(* No file is open.                                                         *)
LEMMA NothingOpen ==
  ASSUME IInv', NEW d2, NEW own, NEW rank, NEW pos, Files(d2, own, rank, pos),
         dir' = d2, queue' = <<>>, Known(d2), sectors' \in Bytes, Blanked(d2, sectors'),
         busy' = None, \A c \in Channels : fh'[c].filemode = "closed" /\ sent'[c] = None,
         sent' = [c \in Channels |-> sent'[c]]
  PROVE  CInv'
<1>1. Writers(d2, own, pos, Coming(sectors', queue'), fh', sent')
  BY DEF Writers
<1>2. Leads(dir', queue', d2)
  BY DEF Leads
<1>3. \A pos2 : (\A x \in Live(d2) : d2[own[x]].kind = "name" => pos2[x] = pos[x]) => Pending(d2, pos2)'
  BY DEF Pending
<1>4. Closes(d2)'
  BY DEF Closes, Finishing
<1>5. /\ sectors' \in Bytes /\ sent' = [b \in Channels |-> sent'[b]] /\ Known(dir') /\ Blanked(dir', sectors')
  OBVIOUS
<1>6. IInv' /\ Files(d2, own, rank, pos) /\ Known(d2)
  OBVIOUS
<1>7. QED BY ONLY <1>1, <1>2, <1>3, <1>4, <1>5, <1>6, Remains

LEMMA FormatContents ==
  ASSUME IInv, CInv, IInv', queue = <<>>, Format
  PROVE  CInv'
<1>1. PICK own, rank, pos :
        /\ Good(dir, own, rank, pos) /\ Files(dir, own, rank, pos) /\ Handled(fh, dir, own, pos)
        /\ Writers(dir, own, pos, sectors, fh, sent) /\ Closes(dir)
  BY AtStart
<1>2. /\ dir' = [i \in Entry |-> Erased] /\ sectors' = [s \in Sector |-> Blank]
      /\ queue' = <<>> /\ busy' = None /\ fh' = fh /\ sent' = sent
      /\ \A c \in Channels : fh[c].filemode = "closed"
  BY DEF Format, Ready, hist
<1>3. own \in [Entry -> Entry] /\ rank \in [Entry -> Nat] /\ pos \in [Entry -> Nat]
  BY <1>1, FilesTyped
<1>4. PICK d2 : d2 = [i \in Entry |-> Erased]
  OBVIOUS
<1>5. Files(d2, own, rank, pos) /\ Live(d2) = {}
  BY <1>3, <1>4, Emptied
<1>6. Known(d2) /\ sectors' \in Bytes /\ Blanked(d2, sectors') /\ dir' = d2
  BY <1>2, <1>4, <1>5, Blanks DEF Known, Bytes, Blanked
<1>7. \A c \in Channels : fh'[c].filemode = "closed" /\ sent'[c] = None
  BY <1>1, <1>2 DEF Writers
<1>8. sent' = [c \in Channels |-> sent'[c]]
  BY <1>2, Whole
<1>9. QED BY <1>2, <1>5, <1>6, <1>7, <1>8, NothingOpen

-----------------------------------------------------------------------------
(***************************************************************************)
(* Operations that store nothing.                                          *)
(***************************************************************************)
LEMMA OpenReadContents ==
  ASSUME IInv, CInv, IInv', queue = <<>>, NEW c \in Channels, NEW n \in Names, OpenRead(c, n)
  PROVE  CInv'
<1> DEFINE e == find_entry(dir, n)
           h == ReadFrom(e, dir[e].size, dir[e].sectors[0])
<1>1. PICK own, rank, pos :
        /\ Good(dir, own, rank, pos) /\ Files(dir, own, rank, pos) /\ Handled(fh, dir, own, pos)
        /\ Writers(dir, own, pos, sectors, fh, sent) /\ Closes(dir)
  BY AtStart
<1>2. /\ queue' = <<>> /\ dir' = dir /\ sectors' = sectors /\ sent' = sent /\ e # None
      /\ fh' = [fh EXCEPT ![c] = h] /\ fh[c].filemode = "closed"
      /\ busy' = Reads(c, h)
  BY DEF OpenRead, Opens, eeprom, hist, ReadFrom
<1>3. e \in Live(dir) /\ e \in Entry /\ dir[e] \in EntryType
  BY <1>1, <1>2, FoundEntry, FilesTyped DEF Live
<1>4. h.filemode = "read"
  <2>1. dir[e].size \in Nat /\ dir[e].sectors[0] \in Sector \cup {None} /\ h = ReadFrom(e, dir[e].size, dir[e].sectors[0])
    <3>1. dir[e].size \in 0 .. Sectors * SectorSize /\ dir[e].sectors \in [Slot -> Sector \cup {None}]
      BY <1>3, EntryParts
    <3>2. 0 \in Slot
      BY Constants DEF Slot
    <3>3. QED BY <3>1, <3>2
  <2> HIDE DEF h
  <2>2. QED BY <1>3, <2>1, ReadHandle
<1> HIDE DEF h, e
<1>5. fh'[c] = h /\ \A b \in Channels \ {c} : fh'[b] = fh[b]
  BY <1>1, <1>2 DEF Handled
<1>6. \A b \in Channels : /\ fh'[b].filemode = "write" <=> fh[b].filemode = "write"
                          /\ fh'[b].filemode = "write" => fh'[b] = fh[b]
  BY <1>2, <1>4, <1>5
<1>7. \A b \in Channels : ~ Finishing(busy', b)
  BY <1>2 DEF Reads, Finishing
<1>8. QED BY <1>2, <1>6, <1>7, Quiet

LEMMA CloseReadContents ==
  ASSUME IInv, CInv, IInv', queue = <<>>, NEW c \in Channels, CloseRead(c)
  PROVE  CInv'
<1>1. PICK own, rank, pos :
        /\ Good(dir, own, rank, pos) /\ Files(dir, own, rank, pos) /\ Handled(fh, dir, own, pos)
        /\ Writers(dir, own, pos, sectors, fh, sent) /\ Closes(dir)
  BY AtStart
<1>2. /\ queue' = <<>> /\ dir' = dir /\ sectors' = sectors /\ sent' = sent /\ busy' = None
      /\ fh' = [fh EXCEPT ![c] = NoHandle] /\ fh[c].filemode = "read"
  BY DEF CloseRead, Ready, eeprom, hist
<1>3. fh'[c] = NoHandle /\ \A b \in Channels \ {c} : fh'[b] = fh[b]
  BY <1>1, <1>2 DEF Handled
<1>4. \A b \in Channels : /\ fh'[b].filemode = "write" <=> fh[b].filemode = "write"
                          /\ fh'[b].filemode = "write" => fh'[b] = fh[b]
  BY <1>2, <1>3, Closed
<1>5. \A b \in Channels : ~ Finishing(busy', b)
  BY <1>2 DEF Finishing
<1>6. QED BY <1>2, <1>4, <1>5, Quiet

LEMMA ReadSomeContents ==
  ASSUME IInv, CInv, IInv', queue = <<>>, ReadSome
  PROVE  CInv'
<1>1. PICK own, rank, pos :
        /\ Good(dir, own, rank, pos) /\ Files(dir, own, rank, pos) /\ Handled(fh, dir, own, pos)
        /\ Writers(dir, own, pos, sectors, fh, sent) /\ Closes(dir)
  BY AtStart
<1>2. /\ busy.c \in Channels /\ fh[busy.c].filemode = "read" /\ fh[busy.c] \in HandleType
      /\ busy = [op |-> "read", c |-> busy.c, left |-> busy.left]
  BY <1>1, IsReading DEF ReadSome
<1>3. /\ queue' = <<>> /\ dir' = dir /\ sectors' = sectors /\ sent' = sent
      /\ \E n : busy' = [busy EXCEPT !.left = n]
      /\ \E g : g.filemode = "read" /\ fh' = [fh EXCEPT ![busy.c] = g]
  <2> DEFINE h == fh[busy.c]
             n == Min(busy.left, SectorSize - h.cur_soffset)
             a == Advanced(h, n)
             g == IF a.cur_offset # a.size /\ a.cur_soffset = 0 THEN NextSector(a) ELSE a
  <2>1. fh' = [fh EXCEPT ![busy.c] = g]
    BY DEF ReadSome
  <2>2. a.filemode = "read"
    BY <1>2 DEF Advanced, HandleType
  <2>3. a = [h EXCEPT !.cur_offset = @ + n, !.cur_soffset = (@ + n) % SectorSize]
    BY DEF Advanced
  <2>4. g.filemode = "read"
    <3> HIDE DEF n
    <3>1. h \in HandleType
      BY <1>2
    <3> HIDE DEF h
    <3>2. NextSector(a).filemode = "read"
      BY <1>2, <2>2, <2>3, <3>1 DEF NextSector, HandleType
    <3>3. QED BY <2>2, <3>2
  <2> HIDE DEF g
  <2>5. QED BY <2>1, <2>4 DEF ReadSome, eeprom, hist
<1>4. PICK g : g.filemode = "read" /\ fh' = [fh EXCEPT ![busy.c] = g]
  BY <1>3
<1>5. fh'[busy.c] = g /\ \A b \in Channels \ {busy.c} : fh'[b] = fh[b]
  BY <1>1, <1>2, <1>4 DEF Handled
<1>6. \A b \in Channels : /\ fh'[b].filemode = "write" <=> fh[b].filemode = "write"
                          /\ fh'[b].filemode = "write" => fh'[b] = fh[b]
  BY <1>2, <1>4, <1>5
<1>7. \A b \in Channels : ~ Finishing(busy', b)
  <2>1. PICK n : busy' = [busy EXCEPT !.left = n]
    BY <1>3
  <2>2. busy'.op = "read"
    BY <1>2, <2>1
  <2>3. QED BY <2>2 DEF Finishing
<1>8. QED BY <1>3, <1>6, <1>7, Quiet

(* Steps that only change what is to be done.                               *)
LEMMA BusyContents ==
  ASSUME IInv, CInv, IInv', queue = <<>>, queue' = <<>>, UNCHANGED <<dir, sectors, fh, sent>>,
         busy' = None \/ busy'.op \in {"read", "write", "delete"}
  PROVE  CInv'
<1>1. \A b \in Channels : ~ Finishing(busy', b)
  BY DEF Finishing
<1>2. QED BY <1>1, Quiet

-----------------------------------------------------------------------------
(***************************************************************************)
(* A new file.                                                             *)
(***************************************************************************)
LEMMA NewWriter ==
  ASSUME NEW d, NEW own, NEW rank, NEW pos, Files(d, own, rank, pos), NEW e \in Entry, NEW n \in Names,
         d[e] = NewFile(n), pos[e] = 0, NEW sec,
         NEW g, g.entry = e, g.cur_entry = e, g.cur_sindex = -1, g.size = 0, g.cur_soffset = 0,
         NEW s, s = [name |-> n, cells |-> <<>>]
  PROVE  Writer(d, own, pos, sec, g, s)
<1>1. <<>> \in Seq(CellType) /\ Len(<<>>) = 0
  OBVIOUS
<1>2. /\ s \in [name : Names, cells : Seq(CellType)] /\ s.name = n /\ s.cells = <<>>
  BY <1>1
<1>3. NewFile(n).name = n /\ NewFile(n).size = 0
  BY NewEntries DEF NewFile, Erased
<1>4. Ends(g, pos)
  <2>1. 0 = SectorSize * (0 + (-1) + 1)
    BY Constants
  <2>2. QED BY <2>1 DEF Ends
<1>5. Holds(d, own, pos, sec, e, 0, s.cells)
  <2>1. ASSUME NEW x \in Live(d), NEW i \in Listed(d[x]), NEW o \in 0 .. SectorSize - 1
        PROVE  ~ (ByteAt(pos, x, i, o) < 0)
    <3>1. pos[x] \in Nat /\ i \in Nat /\ o \in Nat
      BY FilesTyped, MaxSectors, Constants DEF Slot
    <3>2. pos[x] + i \in Nat
      BY <3>1
    <3>3. SectorSize * (pos[x] + i) \in Nat
      BY <3>2, Constants
    <3> DEFINE m == SectorSize * (pos[x] + i)
    <3> HIDE DEF m
    <3>4. m \in Nat /\ ByteAt(pos, x, i, o) = m + o
      BY <3>3 DEF m, ByteAt
    <3>5. QED BY <3>1, <3>4
  <2>2. QED BY <2>1 DEF Holds
<1>6. QED BY <1>1, <1>2, <1>3, <1>4, <1>5 DEF Writer

LEMMA OpenWriteContents ==
  ASSUME IInv, CInv, IInv', queue = <<>>, NEW c \in Channels, NEW n \in Names, OpenWrite(c, n)
  PROVE  CInv'
<1> DEFINE e == next_free_entry(0)
<1>1. PICK own, rank, pos :
        /\ Good(dir, own, rank, pos) /\ Files(dir, own, rank, pos) /\ Handled(fh, dir, own, pos)
        /\ Writers(dir, own, pos, sectors, fh, sent) /\ Closes(dir)
  BY AtStart
<1>2. sectors \in Bytes /\ sent = [b \in Channels |-> sent[b]] /\ Known(dir) /\ Blanked(dir, sectors)
  BY Whole
<1>3. PICK g : g = [NoHandle EXCEPT !.filemode = "write", !.entry = e, !.cur_entry = e, !.cur_sindex = -1]
  OBVIOUS
<1>4. PICK s : s = [name |-> n, cells |-> <<>>]
  OBVIOUS
<1>5. /\ busy' = None /\ e # None /\ find_entry(dir, n) = None
      /\ fh' = [fh EXCEPT ![c] = g] /\ sent' = [sent EXCEPT ![c] = s]
      /\ queue' = <<WriteEntry(e, NewFile(n))>>
      /\ dir' = dir /\ sectors' = sectors
  BY <1>3, <1>4 DEF OpenWrite, Opens, Ready, eeprom
<1>6. e \in Entry /\ e \notin Live(dir)
  <2>1. Counted(used_sectors, free_sectors, used_entries, dir)
    BY <1>1 DEF Good
  <2>2. QED BY <1>5, <2>1, FreeEntry DEF Counted
<1> HIDE DEF e
<1>7. /\ g \in HandleType /\ g.filemode = "write" /\ g.entry = e /\ g.cur_entry = e
      /\ g.cur_sindex = -1 /\ g.size = 0 /\ g.cur_soffset = 0 /\ g.cur_sector = 0
  BY <1>3, <1>6, NewHandle
<1>8. PICK d2, own2, rank2, pos2 :
        /\ d2 = Set(dir, e, NewFile(n)) /\ own2 = Set(own, e, e)
        /\ rank2 = Set(rank, e, 0) /\ pos2 = Set(pos, e, 0)
  OBVIOUS
<1>9. /\ Files(d2, own2, rank2, pos2)
      /\ Live(d2) = Live(dir) \cup {e} /\ UsedOf(d2) = UsedOf(dir)
      /\ Untouched(dir, own, pos, d2, own2, pos2, e)
      /\ own2[e] = e /\ pos2[e] = 0 /\ d2[e] = NewFile(n)
      /\ \A x \in Live(dir) : d2[x] = dir[x] /\ own2[x] = own[x] /\ rank2[x] = rank[x] /\ pos2[x] = pos[x]
  BY <1>1, <1>6, <1>8, FileAdded
<1>10. Known(d2)
  <2>1. d2[e].name = n
    BY <1>9, NewEntries DEF NewFile, Erased
  <2>2. QED BY <1>2, <1>5, <1>9, <2>1, KnownNew
<1>11. Writer(d2, own2, pos2, sectors, g, s)
  BY <1>4, <1>6, <1>7, <1>9, NewWriter
<1>12. Writers(d2, own2, pos2, sectors, fh', sent') /\ sent' = [b \in Channels |-> sent'[b]]
  <2>1. \A b \in Channels \ {c} : fh[b].filemode = "write" => fh[b].entry # e
    <3>1. \A b \in Channels : fh[b].filemode # "closed" =>
            fh[b].entry \in Entry /\ dir[fh[b].entry].kind = "name"
      BY <1>1 DEF Handled, Opened, HandleType
    <3>2. QED BY <1>6, <3>1 DEF Live
  <2>2. Files(dir, own, rank, pos) /\ Handled(fh, dir, own, pos) /\ Writers(dir, own, pos, sectors, fh, sent)
    BY <1>1
  <2>3. SameBytes(dir, own, e, sectors, sectors) /\ Untouched(dir, own, pos, d2, own2, pos2, e)
    BY <1>9, EqualBytes
  <2>4. PICK h2, sn2 : h2 = fh' /\ sn2 = sent'
    OBVIOUS
  <2>5. /\ h2 = Set(fh, c, g) /\ sn2 = Set(sent, c, s)
        /\ g.filemode = "write" => Writer(d2, own2, pos2, sectors, g, s)
        /\ g.filemode # "write" => s = None
    BY <1>5, <1>7, <1>11, <2>4 DEF Set
  <2>6. c \in Channels /\ sent = [b \in Channels |-> sent[b]]
    BY <1>2
  <2>7. Writers(d2, own2, pos2, sectors, h2, sn2) /\ sn2 = [b \in Channels |-> sn2[b]]
    BY ONLY <2>1, <2>2, <2>3, <2>5, <2>6, WritersGo
  <2>8. QED BY <2>4, <2>7
<1>13. Leads(dir', queue', d2)
  <2>1. NewFile(n) \in EntryType
    BY NewEntries
  <2>2. QED BY <1>5, <1>6, <1>8, <2>1 DEF Leads
<1>14. Writers(d2, own2, pos2, Coming(sectors', queue'), fh', sent')
  BY <1>5, <1>12, NoData
<1>15. fh'[c] = g /\ sent'[c] = s
  BY <1>1, <1>2, <1>5 DEF Handled
<1>16. NewDue(fh[c], sent[c])'
  BY <1>4, <1>5, <1>6, <1>7, <1>15 DEF NewDue
<1>17. \A p : (\A x \in Live(d2) : d2[own2[x]].kind = "name" => p[x] = pos2[x]) => Pending(d2, p)'
  BY <1>7, <1>15, <1>16 DEF Pending, Due
<1>18. Closes(d2)'
  BY <1>5 DEF Closes, Finishing
<1>19. /\ sectors' \in Bytes /\ sent' = [b \in Channels |-> sent'[b]] /\ Known(dir') /\ Blanked(dir', sectors')
  BY <1>2, <1>5, <1>12
<1>20. IInv' /\ Files(d2, own2, rank2, pos2)
  BY <1>9
<1>21. QED BY ONLY <1>10, <1>13, <1>14, <1>17, <1>18, <1>19, <1>20, Remains

-----------------------------------------------------------------------------
(***************************************************************************)
(* Appending to a file.                                                    *)
(***************************************************************************)
(* An entry's sectors come before those of the entries after it.            *)
LEMMA Earlier ==
  ASSUME NEW d, NEW own, NEW rank, NEW pos, Linked(d, own, rank, pos),
         NEW e \in Live(d), d[e].kind = "name",
         NEW x \in Live(d), own[x] = e, NEW y \in Live(d), own[y] = e, rank[x] < rank[y]
  PROVE  pos[x] + curentry_max_sectors(d[x]) <= pos[y]
<1> DEFINE m == rank[x]
           n == rank[y]
           w == curentry_max_sectors(d[x])
           a == pos[x]
           b == pos[y]
<1>1. m \in Nat /\ n \in Nat /\ m < n /\ n # 0
  <2>1. rank \in [Entry -> Nat] /\ x \in Entry /\ y \in Entry
    BY DEF Linked, Live
  <2>2. m \in Nat /\ n \in Nat /\ m < n
    BY <2>1
  <2> HIDE DEF m, n
  <2>3. QED BY <2>2
<1>2. b = NameSectors + (n - 1) * ListSectors
  BY <1>1, PlaceOf
<1>3. m = 0 => a = 0 /\ w = NameSectors
  BY PlaceOf DEF curentry_max_sectors
<1>4. m # 0 => a = NameSectors + (m - 1) * ListSectors /\ w = ListSectors
  BY PlaceOf DEF curentry_max_sectors
<1> HIDE DEF m, n, w, a, b
<1>5. a + w <= b
  <2>1. (n - 1) * ListSectors \in Nat
    BY <1>1, Constants
  <2>2. CASE m = 0
    BY <1>2, <1>3, <2>1, <2>2, Constants
  <2>3. CASE m # 0
    <3>1. m * ListSectors <= (n - 1) * ListSectors
      <4>1. m \in Nat /\ n - 1 \in Nat /\ m <= n - 1
        BY <1>1
      <4>2. QED BY <4>1, Constants
    <3>2. (m - 1) * ListSectors + ListSectors = m * ListSectors
      BY <1>1, Constants
    <3>3. (m - 1) * ListSectors \in Int /\ m * ListSectors \in Int
      BY <1>1, Constants
    <3>4. QED BY <1>2, <1>4, <2>1, <2>3, <3>1, <3>2, <3>3, Constants
  <2>4. QED BY <2>2, <2>3
<1>6. QED BY <1>5 DEF a, b, w

(* A place belongs to one slot.                                             *)
LEMMA OnePlace ==
  ASSUME NEW d, NEW own, NEW rank, NEW pos, Linked(d, own, rank, pos),
         NEW e \in Live(d), d[e].kind = "name",
         NEW x \in Live(d), own[x] = e, NEW i \in Listed(d[x]),
         NEW y \in Live(d), own[y] = e, NEW j \in Listed(d[y]), pos[x] + i = pos[y] + j
  PROVE  x = y /\ i = j
<1>1. /\ pos[x] \in Nat /\ pos[y] \in Nat /\ rank[x] \in Nat /\ rank[y] \in Nat
  BY DEF Linked, Live
<1>2. /\ i \in Nat /\ i < curentry_max_sectors(d[x]) /\ j \in Nat /\ j < curentry_max_sectors(d[y])
      /\ curentry_max_sectors(d[x]) \in Nat /\ curentry_max_sectors(d[y]) \in Nat
  BY MaxSectors, Constants DEF Listed
<1>3. ~ (rank[x] < rank[y])
  <2>1. ASSUME pos[x] + curentry_max_sectors(d[x]) <= pos[y] PROVE FALSE
    BY <1>1, <1>2, <2>1
  <2>2. QED BY <2>1, Earlier
<1>4. ~ (rank[y] < rank[x])
  <2>1. ASSUME pos[y] + curentry_max_sectors(d[y]) <= pos[x] PROVE FALSE
    BY <1>1, <1>2, <2>1
  <2>2. QED BY <2>1, Earlier
<1>5. rank[x] = rank[y]
  BY <1>1, <1>3, <1>4
<1>6. x = y
  BY <1>5 DEF Linked, Order
<1>7. QED BY <1>1, <1>2, <1>6

(* Up to a last entry with one sector, there is one for every place.        *)
LEMMA CountListed ==
  ASSUME NEW own, NEW rank, NEW pos, Files(dir, own, rank, pos),
         NEW e \in Live(dir), dir[e].kind = "name",
         NEW last \in Live(dir), own[last] = e, dir[last].next = None, Filled(dir[last], 1)
  PROVE  ListedUpTo(e) = pos[last] + 1
<1> DEFINE ks == {k \in Entry : Chain(e)[k] # None}
           T == UNION {{<<k, i>> : i \in Listed(dir[Chain(e)[k]])} : k \in ks}
           P == 0 .. pos[last]
           m == [t \in T |-> pos[Chain(e)[t[1]]] + t[2]]
<1>1. /\ Linked(dir, own, rank, pos) /\ Live(dir) \subseteq Entry
      /\ pos \in [Entry -> Nat] /\ rank \in [Entry -> Nat]
      /\ Chain(e) = ChainOf(dir, e)
  BY FilesTyped DEF Chain, ChainOf
<1>2. pos[last] \in Nat
  BY <1>1
<1>3. \A k \in ks : Chain(e)[k] \in Live(dir) /\ own[Chain(e)[k]] = e /\ rank[Chain(e)[k]] = k
  BY ChainRanks
<1>4. \A t \in T : /\ t = <<t[1], t[2]>> /\ t[1] \in ks /\ t[2] \in Listed(dir[Chain(e)[t[1]]])
  OBVIOUS
<1>5. \A k \in ks : \A i \in Listed(dir[Chain(e)[k]]) : <<k, i>> \in T
  OBVIOUS
<1>6. ASSUME NEW x \in Live(dir), own[x] = e
      PROVE  rank[x] \in ks /\ Chain(e)[rank[x]] = x
  <2>1. Grows(dir, own, e, dir)
    BY Itself
  <2>2. rank[x] \in Entry /\ ChainOf(dir, e)[rank[x]] = x
    BY <1>1, <1>6, <2>1, InChain
  <2>3. x # None
    BY <1>1, Constants DEF Entry
  <2>4. QED BY <1>1, <2>2, <2>3
<1>7. ListedUpTo(e) = Cardinality(T)
  BY DEF ListedUpTo
<1> HIDE DEF ks, T
<1>8. ASSUME NEW t \in T
      PROVE  m[t] \in P
  <2> DEFINE x == Chain(e)[t[1]]
             i == t[2]
  <2>1. x \in Live(dir) /\ own[x] = e /\ i \in Listed(dir[x])
    BY <1>3, <1>4
  <2>2. m[t] = pos[x] + i
    OBVIOUS
  <2> HIDE DEF x, i, m
  <2>3. i \in Nat /\ pos[x] \in Nat /\ i < curentry_max_sectors(dir[x]) /\ curentry_max_sectors(dir[x]) \in Nat
    BY <1>1, <2>1, MaxSectors, Constants DEF Listed
  <2>4. CASE x = last
    <3>1. i = 0
      BY <2>1, <2>3, <2>4 DEF Filled
    <3>2. QED BY <1>2, <2>2, <2>4, <3>1
  <2>5. CASE x # last
    <3>1. rank[x] < rank[last]
      <4>1. Order(dir, own, rank, last) /\ rank[x] \in Nat /\ rank[last] \in Nat
        BY <1>1, <2>1 DEF Linked
      <4>2. rank[x] <= rank[last] /\ rank[x] # rank[last]
        BY <2>1, <2>5, <4>1 DEF Order
      <4>3. QED BY <4>1, <4>2
    <3>2. pos[x] + curentry_max_sectors(dir[x]) <= pos[last]
      BY <1>1, <2>1, <3>1, Earlier
    <3>3. QED BY <1>2, <2>2, <2>3, <3>2
  <2>6. QED BY <2>4, <2>5
<1>9. m \in [T -> P]
  <2>1. m = [t \in T |-> m[t]]
    OBVIOUS
  <2> HIDE DEF m, P
  <2>2. QED BY <1>8, <2>1
<1>10. \A t, u \in T : m[t] = m[u] => t = u
  <2> TAKE t, u \in T
  <2> HAVE m[t] = m[u]
  <2> DEFINE x == Chain(e)[t[1]]
             y == Chain(e)[u[1]]
             i == t[2]
             j == u[2]
  <2>1. /\ x \in Live(dir) /\ own[x] = e /\ i \in Listed(dir[x]) /\ rank[x] = t[1]
        /\ y \in Live(dir) /\ own[y] = e /\ j \in Listed(dir[y]) /\ rank[y] = u[1]
    BY <1>3, <1>4
  <2>2. pos[x] + i = pos[y] + j
    OBVIOUS
  <2> HIDE DEF x, y, i, j
  <2>3. x = y /\ i = j
    BY <1>1, <2>1, <2>2, OnePlace
  <2>4. QED BY <1>4, <2>1, <2>3 DEF i, j
<1>11. \A q \in P : \E t \in T : m[t] = q
  <2> TAKE q \in P
  <2>1. q \in Nat /\ q < pos[last] + 1
    BY <1>2
  <2>2. 1 \in 0 .. ListSectors
    BY Constants
  <2>3. \E x \in Live(dir) : own[x] = e /\ \E i \in Listed(dir[x]) : pos[x] + i = q
    BY <2>1, <2>2, Reached
  <2>4. PICK x \in Live(dir) : own[x] = e /\ \E i \in Listed(dir[x]) : pos[x] + i = q
    BY <2>3
  <2>5. PICK i \in Listed(dir[x]) : pos[x] + i = q
    BY <2>4
  <2>6. rank[x] \in ks /\ Chain(e)[rank[x]] = x
    BY <1>6, <2>4
  <2>7. <<rank[x], i>> \in T
    BY <1>5, <2>6
  <2>8. m[<<rank[x], i>>] = q
    BY <2>5, <2>6, <2>7
  <2>9. QED BY <2>7, <2>8
<1> HIDE DEF m
<1>12. m \in Injection(T, P) /\ m \in Surjection(T, P)
  BY <1>9, <1>10, <1>11 DEF Injection, IsInjective, Surjection
<1>13. IsFiniteSet(P) /\ Cardinality(P) = pos[last] + 1
  <2>1. pos[last] \in Nat
    BY <1>2
  <2>2. PICK n : n = pos[last]
    OBVIOUS
  <2>3. n \in Int /\ 0 \in Int /\ n >= 0
    BY ONLY <2>1, <2>2
  <2>4. IsFiniteSet(0 .. n) /\ Cardinality(0 .. n) = IF 0 > n THEN 0 ELSE n - 0 + 1
    BY ONLY <2>3, FS_Interval, Zenon
  <2>5. Cardinality(0 .. n) = n + 1
    BY ONLY <2>3, <2>4
  <2>6. QED BY <2>2, <2>4, <2>5
<1> HIDE DEF P
<1>14. Cardinality(T) = Cardinality(P)
  BY <1>12, <1>13, FS_Injection
<1>15. QED BY <1>7, <1>13, <1>14

(* The end of a file whose sectors are all in use.                          *)
LEMMA LastByte ==
  ASSUME NEW z \in Nat, NEW p \in Nat, p + 1 = (z + SectorSize - 1) \div SectorSize
  PROVE  \/ z % SectorSize = 0 /\ z = SectorSize * (p + 1)
         \/ z % SectorSize # 0 /\ z = SectorSize * p + (z % SectorSize)
<1>1. PICK q \in Nat, o \in 0 .. SectorSize - 1 :
        z = SectorSize * q + o /\ o = z % SectorSize
  BY Division
<1>2. SectorSize * q \in Nat /\ SectorSize \in Nat \ {0} /\ SectorSize * (q + 1) = SectorSize * q + SectorSize
  BY Constants
<1> DEFINE a == SectorSize * q
           w == z + SectorSize - 1
<1>3. CASE o = 0
  <2>1. w = SectorSize * q + (SectorSize - 1)
    <3>1. z = a + o /\ a \in Nat
      BY <1>1, <1>2
    <3>2. w = a + (SectorSize - 1)
      <4> HIDE DEF a
      <4>1. QED BY <1>2, <1>3, <3>1
    <3>3. QED BY <3>2
  <2>2. SectorSize - 1 \in 0 .. SectorSize - 1
    BY <1>2
  <2>3. (SectorSize * q + (SectorSize - 1)) \div SectorSize = q
    BY <2>2, Divided
  <2>4. p + 1 = q
    BY <2>1, <2>3
  <2>5. QED BY <1>1, <1>2, <1>3, <2>4
<1>4. CASE o # 0
  <2>1. w = SectorSize * (q + 1) + (o - 1)
    <3>1. z = a + o /\ SectorSize * (q + 1) = a + SectorSize
      BY <1>1, <1>2
    <3>2. w = a + SectorSize + (o - 1)
      <4> HIDE DEF a
      <4>1. QED BY <1>1, <1>2, <3>1
    <3>3. QED BY <3>1, <3>2
  <2>2. o - 1 \in 0 .. SectorSize - 1 /\ q + 1 \in Nat
    BY <1>2, <1>4
  <2> DEFINE r == q + 1
             t == o - 1
  <2>3. (SectorSize * r + t) \div SectorSize = r
    <3>1. r \in Nat /\ t \in 0 .. SectorSize - 1
      BY <2>2
    <3> HIDE DEF r, t
    <3>2. QED BY <3>1, Divided
  <2>4. p + 1 = q + 1
    BY <2>1, <2>3
  <2>5. p = q
    BY <2>4
  <2>6. QED BY <1>1, <1>4, <2>5
<1>5. QED BY <1>3, <1>4

LEMMA ContentsTyped ==
  ASSUME NEW d, NEW own, NEW rank, NEW pos, Files(d, own, rank, pos),
         NEW e \in Live(d), d[e].kind = "name", NEW sec \in Bytes, NEW f, f = ContentsIn(d, sec, e)
  PROVE  /\ f \in Seq(CellType) /\ Len(f) = d[e].size /\ d[e].size \in Nat
         /\ Holds(d, own, pos, sec, e, d[e].size, f)
<1> DEFINE z == d[e].size
<1>1. z \in Nat /\ Fits(d, own, pos, e, z) /\ z = d[e].size
  <2>1. d[e] \in EntryType
    BY FilesTyped
  <2>2. z \in 0 .. Sectors * SectorSize /\ Sectors * SectorSize \in Nat
    BY <2>1, EntryParts, Constants
  <2>3. Fits(d, own, pos, e, z)
    BY FilesTyped DEF Sized
  <2>4. QED BY <2>2, <2>3
<1> HIDE DEF z
<1>2. f = [k \in 1 .. z |-> f[k]] /\ Holds(d, own, pos, sec, e, z, f)
  <2>1. Grows(d, own, e, d)
    BY Itself
  <2>2. QED BY <1>1, <2>1, ContentsAre
<1>3. ASSUME NEW k \in 1 .. z
      PROVE  f[k] \in CellType
  <2>1. PICK x \in Live(d) : own[x] = e /\ \E i \in Listed(d[x]), o \in 0 .. SectorSize - 1 :
          k = ByteAt(pos, x, i, o) + 1 /\ ByteAt(pos, x, i, o) < z
    BY <1>1, EveryByte
  <2>2. PICK i \in Listed(d[x]), o \in 0 .. SectorSize - 1 :
          k = ByteAt(pos, x, i, o) + 1 /\ ByteAt(pos, x, i, o) < z
    BY <2>1
  <2>3. sec[d[x].sectors[i]][o] = f[ByteAt(pos, x, i, o) + 1]
    BY <1>2, <2>1, <2>2 DEF Holds
  <2>4. d[x].sectors[i] \in Sector
    <3>1. d[x] \in EntryType /\ i \in Slot /\ d[x].sectors[i] # None
      BY FilesTyped, MaxSectors DEF Listed
    <3>2. QED BY <3>1, EntryParts
  <2>5. QED BY <2>2, <2>3, <2>4 DEF Bytes
<1>4. f \in [1 .. z -> CellType]
  BY <1>2, <1>3
<1>5. f \in Seq(CellType) /\ Len(f) = z
  BY <1>1, <1>4
<1>6. QED BY <1>1, <1>2, <1>5

LEMMA OpenAppendContents ==
  ASSUME IInv, CInv, IInv', queue = <<>>, ~ AnyAppend,
         NEW c \in Channels, NEW n \in Names, OpenAppend(c, n)
  PROVE  CInv'
<1> DEFINE e == find_entry(dir, n)
           last == LastEntry(e)
           full == Contiguous(dir[last])
           at == IF full = {} THEN 0 ELSE Cardinality(full) - 1
           z == dir[e].size
<1>1. PICK own, rank, pos :
        /\ Good(dir, own, rank, pos) /\ Files(dir, own, rank, pos) /\ Handled(fh, dir, own, pos)
        /\ Writers(dir, own, pos, sectors, fh, sent) /\ Closes(dir)
  BY AtStart
<1>2. sectors \in Bytes /\ sent = [b \in Channels |-> sent[b]] /\ Known(dir) /\ Blanked(dir, sectors)
  BY Whole
<1>3. PICK g : g = [NoHandle EXCEPT !.filemode = "write", !.entry = e, !.size = z,
                      !.cur_offset = z, !.cur_sector = dir[last].sectors[at],
                      !.cur_soffset = z % SectorSize, !.cur_entry = last]
  OBVIOUS
<1>4. PICK s : s = [name |-> n, cells |-> Contents(e)]
  OBVIOUS
<1>5. /\ busy' = None /\ e # None /\ OneSectorLast(e) /\ queue' = <<>>
      /\ fh' = [fh EXCEPT ![c] = g] /\ sent' = [sent EXCEPT ![c] = s]
      /\ dir' = dir /\ sectors' = sectors
  BY <1>3, <1>4 DEF OpenAppend, Opens, Ready, eeprom
<1>6. \A b \in Channels \ {c} : fh[b].filemode = "write" => fh[b].entry # e
  BY DEF OpenAppend, Opens
<1>7. e \in Live(dir) /\ dir[e].kind = "name" /\ e \in Entry /\ dir[e].name = n
  BY <1>5, FoundEntry DEF Live
<1> HIDE DEF e
<1>8. last \in Live(dir) /\ own[last] = e /\ dir[last].next = None /\ last \in Entry
  BY <1>1, <1>7, LastOfFile DEF Live
<1>9. Filled(dir[last], 1) /\ ListedUpTo(e) = (z + SectorSize - 1) \div SectorSize
  <2>1. Listed(dir[last]) = {0}
    BY <1>5 DEF OneSectorLast
  <2>2. QED BY <1>5, <2>1, Constants DEF Filled, OneSectorLast
<1> HIDE DEF last, at, z
<1>10. g.filemode = "write" /\ g.entry = e /\ g.size = z /\ g.cur_soffset = z % SectorSize
       /\ g.cur_entry = last /\ g.cur_sindex = 0
  BY <1>3 DEF NoHandle
<1>11. pos[last] \in Nat /\ ListedUpTo(e) = pos[last] + 1
  <2>1. pos[last] \in Nat
    BY <1>1, <1>8, FilesTyped
  <2>2. QED BY <1>1, <1>7, <1>8, <1>9, <2>1, CountListed
<1>12. PICK f : f = ContentsIn(dir, sectors, e)
  OBVIOUS
<1>13. /\ f \in Seq(CellType) /\ Len(f) = z /\ z \in Nat /\ Holds(dir, own, pos, sectors, e, z, f)
  BY <1>1, <1>2, <1>7, <1>12, ContentsTyped DEF z
<1>14. s = [name |-> n, cells |-> f]
  BY <1>4, <1>12, ContentsNow
<1>15. Ends(g, pos)
  <2> DEFINE p == pos[last]
             o == z % SectorSize
  <2>1. p \in Nat /\ p + 1 = (z + SectorSize - 1) \div SectorSize
    BY <1>9, <1>11
  <2> HIDE DEF p
  <2>2. \/ o = 0 /\ z = SectorSize * (p + 1)
        \/ o # 0 /\ z = SectorSize * p + o
    BY <1>13, <2>1, LastByte
  <2> HIDE DEF o
  <2>3. g.size = z /\ g.cur_soffset = o /\ pos[g.cur_entry] = p /\ g.cur_sindex = 0 /\ p + 0 = p
    BY <1>10, <2>1 DEF p, o
  <2>4. QED BY <2>2, <2>3 DEF Ends
<1>16. Writer(dir, own, pos, sectors, g, s)
  <2>1. s \in [name : Names, cells : Seq(CellType)] /\ s.name = n /\ s.cells = f
    BY <1>13, <1>14
  <2>2. z <= z /\ dir[e].size = z
    BY <1>13 DEF z
  <2>3. QED BY <1>7, <1>10, <1>13, <1>15, <2>1, <2>2 DEF Writer
<1>17. PICK d2 : d2 = dir
  OBVIOUS
<1>18. Writers(d2, own, pos, sectors, fh', sent') /\ sent' = [b \in Channels |-> sent'[b]]
  <2>1. Files(dir, own, rank, pos) /\ Handled(fh, dir, own, pos) /\ Writers(dir, own, pos, sectors, fh, sent)
    BY <1>1
  <2>2. SameBytes(dir, own, e, sectors, sectors) /\ Untouched(dir, own, pos, d2, own, pos, e)
    BY <1>17, SameUntouched, EqualBytes
  <2>3. PICK h2, sn2 : h2 = fh' /\ sn2 = sent'
    OBVIOUS
  <2>4. /\ h2 = Set(fh, c, g) /\ sn2 = Set(sent, c, s)
        /\ g.filemode = "write" => Writer(d2, own, pos, sectors, g, s)
        /\ g.filemode # "write" => s = None
    BY <1>5, <1>10, <1>16, <1>17, <2>3 DEF Set
  <2>5. c \in Channels /\ sent = [b \in Channels |-> sent[b]]
    BY <1>2
  <2>6. Writers(d2, own, pos, sectors, h2, sn2) /\ sn2 = [b \in Channels |-> sn2[b]]
    BY ONLY <1>6, <2>1, <2>2, <2>4, <2>5, WritersGo
  <2>7. QED BY <2>3, <2>6
<1>19. Leads(dir', queue', d2)
  BY <1>5, <1>17 DEF Leads
<1>20. Writers(d2, own, pos, Coming(sectors', queue'), fh', sent')
  BY <1>5, <1>18 DEF Coming
<1>21. \A p : (\A x \in Live(d2) : d2[own[x]].kind = "name" => p[x] = pos[x]) => Pending(d2, p)'
  BY <1>5 DEF Pending
<1>22. Closes(d2)'
  BY <1>5 DEF Closes, Finishing
<1>23. /\ sectors' \in Bytes /\ sent' = [b \in Channels |-> sent'[b]] /\ Known(dir') /\ Blanked(dir', sectors')
  BY <1>2, <1>5, <1>18
<1>24. IInv' /\ Files(d2, own, rank, pos) /\ Known(d2)
  BY <1>1, <1>2, <1>17
<1>25. QED BY ONLY <1>19, <1>20, <1>21, <1>22, <1>23, <1>24, Remains

-----------------------------------------------------------------------------
(***************************************************************************)
(* Bytes that are written behind those a file has.                         *)
(***************************************************************************)
LEMMA Written ==
  ASSUME NEW sec \in Bytes, NEW t \in Sector, NEW o \in 0 .. SectorSize - 1, NEW data \in Seq(CellType),
         NEW w, w = WriteData(t, o, data)
  PROVE  /\ After(sec, w) \in Bytes /\ \A u \in Sector \ {t} : After(sec, w)[u] = sec[u]
         /\ \A p \in 0 .. SectorSize - 1 :
              After(sec, w)[t][p] = IF p - o \in 0 .. Len(data) - 1 THEN data[p - o + 1] ELSE sec[t][p]
<1>1. w.at = t /\ w.offset = o /\ w.data = data
  BY Writes
<1>2. sec \in [Sector -> [0 .. SectorSize - 1 -> CellType]] /\ DOMAIN sec[t] = 0 .. SectorSize - 1
  BY DEF Bytes
<1> DEFINE now == [p \in 0 .. SectorSize - 1 |->
                     IF p - o \in 0 .. Len(data) - 1 THEN data[p - o + 1] ELSE sec[t][p]]
<1>3. After(sec, w) = [sec EXCEPT ![t] = now]
  BY <1>1, <1>2 DEF After
<1>4. now \in [0 .. SectorSize - 1 -> CellType]
  <2>1. Len(data) \in Nat /\ \A k \in 1 .. Len(data) : data[k] \in CellType
    BY LenProperties, ElementOfSeq
  <2>2. ASSUME NEW p \in 0 .. SectorSize - 1
        PROVE  (IF p - o \in 0 .. Len(data) - 1 THEN data[p - o + 1] ELSE sec[t][p]) \in CellType
    <3>1. sec[t][p] \in CellType
      BY <1>2
    <3>2. p - o \in 0 .. Len(data) - 1 => p - o + 1 \in 1 .. Len(data)
      BY <2>1
    <3>3. QED BY <2>1, <3>1, <3>2
  <2>3. QED BY <2>2
<1>5. \A p \in 0 .. SectorSize - 1 :
        now[p] = IF p - o \in 0 .. Len(data) - 1 THEN data[p - o + 1] ELSE sec[t][p]
  OBVIOUS
<1> HIDE DEF now
<1>6. After(sec, w)[t] = now /\ \A u \in Sector \ {t} : After(sec, w)[u] = sec[u]
  BY <1>2, <1>3
<1>7. After(sec, w) \in Bytes
  BY <1>2, <1>3, <1>4 DEF Bytes
<1>8. QED BY <1>5, <1>6, <1>7

(* A sector is in one slot.                                                 *)
LEMMA OneSlot ==
  ASSUME NEW d, Neat(d), NEW x \in Live(d), NEW i \in Listed(d[x]), NEW y \in Live(d), NEW j \in Listed(d[y]),
         d[x].sectors[i] = d[y].sectors[j]
  PROVE  x = y /\ i = j
<1>1. d[x].sectors[i] \in SectorsOf(d[x]) /\ d[y].sectors[j] \in SectorsOf(d[y])
  BY DEF SectorsOf
<1>2. x = y
  BY <1>1 DEF Neat, Apart
<1>3. QED BY <1>2 DEF Neat, Tidy

(* The file is what it was, and what is written behind it.                  *)
LEMMA HoldsMore ==
  ASSUME NEW d, NEW own, NEW rank, NEW pos, Files(d, own, rank, pos),
         NEW f \in Live(d), d[f].kind = "name",
         NEW x \in Live(d), own[x] = f, NEW i \in Listed(d[x]), NEW t, t = d[x].sectors[i], t \in Sector,
         NEW sec \in Bytes, NEW z \in Nat, NEW o \in 0 .. SectorSize - 1,
         z = SectorSize * (pos[x] + i) + o,
         NEW old \in Seq(CellType), Len(old) = z, Holds(d, own, pos, sec, f, z, old),
         NEW n \in Nat, o + n <= SectorSize, NEW data \in Seq(CellType), Len(data) = n,
         NEW w, w = WriteData(t, o, data)
  PROVE  Holds(d, own, pos, After(sec, w), f, z + n, old \o data)
<1>1. /\ Neat(d) /\ Linked(d, own, rank, pos) /\ pos \in [Entry -> Nat] /\ Live(d) \subseteq Entry
      /\ d \in [Entry -> EntryType]
  BY FilesTyped
<1>2. /\ After(sec, w) \in Bytes /\ \A u \in Sector \ {t} : After(sec, w)[u] = sec[u]
      /\ \A p \in 0 .. SectorSize - 1 :
           After(sec, w)[t][p] = IF p - o \in 0 .. Len(data) - 1 THEN data[p - o + 1] ELSE sec[t][p]
  <2>1. /\ sec \in Bytes /\ t \in Sector /\ o \in 0 .. SectorSize - 1 /\ data \in Seq(CellType)
        /\ w = WriteData(t, o, data)
    OBVIOUS
  <2>2. QED BY ONLY <2>1, Written
<1>3. \A k \in 1 .. z + n : (old \o data)[k] = IF k <= z THEN old[k] ELSE data[k - z]
  <2>1. old \in Seq(CellType) /\ data \in Seq(CellType) /\ Len(old) = z /\ Len(data) = n
    OBVIOUS
  <2>2. QED BY ONLY <2>1, ConcatProperties
<1>4. ASSUME NEW y \in Live(d), own[y] = f, NEW j \in Listed(d[y]), NEW p \in 0 .. SectorSize - 1,
             ByteAt(pos, y, j, p) < z + n
      PROVE  After(sec, w)[d[y].sectors[j]][p] = (old \o data)[ByteAt(pos, y, j, p) + 1]
  <2> DEFINE b == ByteAt(pos, y, j, p)
             q == pos[x] + i
             r == pos[y] + j
  <2>1. q \in Nat /\ r \in Nat /\ b = SectorSize * r + p /\ b < z + n /\ z = SectorSize * q + o
        /\ SectorSize * r \in Nat /\ SectorSize * q \in Nat
    <3>1. q \in Nat /\ r \in Nat
      <4>1. pos[x] \in Nat /\ pos[y] \in Nat /\ i \in Nat /\ j \in Nat
        BY <1>1, MaxSectors, Constants DEF Slot
      <4>2. QED BY ONLY <4>1
    <3>2. b = SectorSize * r + p
      BY DEF ByteAt
    <3> HIDE DEF b, q, r
    <3>3. SectorSize * r \in Nat /\ SectorSize * q \in Nat
      BY <3>1, Constants
    <3>4. QED BY <1>4, <3>1, <3>2, <3>3 DEF b, q
  <2>2. r = q => y = x /\ j = i
    <3>1. /\ Linked(d, own, rank, pos) /\ f \in Live(d) /\ d[f].kind = "name"
          /\ x \in Live(d) /\ own[x] = f /\ i \in Listed(d[x])
          /\ y \in Live(d) /\ own[y] = f /\ j \in Listed(d[y])
      BY <1>1, <1>4
    <3>2. QED BY ONLY <3>1, OnePlace
  <2>3. d[y].sectors[j] \in Sector
    <3>1. d[y] \in EntryType /\ j \in Slot /\ d[y].sectors[j] # None
      BY <1>1, MaxSectors DEF Listed
    <3>2. QED BY <3>1, EntryParts
  <2>4. b < z => sec[d[y].sectors[j]][p] = old[b + 1]
    BY <1>4 DEF Holds
  <2>5. ASSUME d[y].sectors[j] = t
        PROVE  y = x /\ j = i
    <3>1. Neat(d) /\ d[x].sectors[i] = d[y].sectors[j]
      BY <1>1, <2>5
    <3>2. QED BY ONLY <3>1, OneSlot
  <2> HIDE DEF b, q, r
  <2>6. b \in Nat /\ z \in Nat /\ n \in Nat /\ o \in Nat /\ p \in Nat /\ b < z + n
    <3> DEFINE u == SectorSize * r
    <3>1. u \in Nat /\ b = u + p /\ p \in Nat
      BY <2>1
    <3> HIDE DEF u
    <3>2. QED BY ONLY <3>1, <2>1, Constants
  <2>7. b >= z => r = q
    <3> DEFINE u == SectorSize * r
               v == SectorSize * q
    <3>1. u \in Nat /\ v \in Nat /\ b = u + p /\ z = v + o
      BY <2>1
    <3>2. ASSUME b >= z, r < q PROVE FALSE
      <4>1. SectorSize * (r + 1) <= SectorSize * q /\ SectorSize * (r + 1) = u + SectorSize
        BY <2>1, <3>2, Constants
      <4> HIDE DEF u, v
      <4>2. u + SectorSize <= v
        BY <4>1 DEF v
      <4>3. QED BY <2>1, <3>1, <3>2, <4>2, Constants
    <3>3. ASSUME b >= z, q < r PROVE FALSE
      <4>1. SectorSize * (q + 1) <= SectorSize * r /\ SectorSize * (q + 1) = v + SectorSize
        BY <2>1, <3>3, Constants
      <4> HIDE DEF u, v
      <4>2. v + SectorSize <= u
        BY <4>1 DEF u
      <4>3. QED BY <2>1, <3>1, <3>3, <4>2, Constants
    <3>4. QED BY <2>1, <3>2, <3>3
  <2>8. CASE b < z
    <3>1. After(sec, w)[d[y].sectors[j]][p] = sec[d[y].sectors[j]][p]
      <4>1. CASE d[y].sectors[j] = t
        <5>1. r = q
          BY <2>5, <4>1 DEF r, q
        <5>2. ~ (p - o \in 0 .. Len(data) - 1)
          <6>1. b = SectorSize * q + p
            BY <2>1, <5>1
          <6> DEFINE v == SectorSize * q
          <6>2. v \in Nat /\ b = v + p /\ z = v + o
            BY <2>1, <6>1
          <6> HIDE DEF v
          <6>3. p < o
            BY <2>8, <6>2
          <6>4. QED BY <6>3
        <5>3. QED BY <1>2, <4>1, <5>2
      <4>2. CASE d[y].sectors[j] # t
        BY <1>2, <2>3, <4>2
      <4>3. QED BY <4>1, <4>2
    <3>2. (old \o data)[b + 1] = old[b + 1]
      <4>1. b + 1 \in 1 .. z + n /\ b + 1 <= z
        BY ONLY <2>6, <2>8
      <4>2. QED BY <1>3, <4>1
    <3>3. QED BY <2>4, <2>8, <3>1, <3>2 DEF b
  <2>9. CASE b >= z
    <3>1. r = q
      BY <2>7, <2>9
    <3>2. d[y].sectors[j] = t
      BY <2>2, <3>1
    <3> DEFINE v == SectorSize * q
    <3>3. v \in Nat /\ b = v + p /\ z = v + o
      BY <2>1, <3>1
    <3> HIDE DEF v
    <3>4. p - o \in 0 .. n - 1 /\ (b + 1) - z = p - o + 1 /\ b + 1 \in 1 .. z + n /\ ~ (b + 1 <= z)
      BY ONLY <2>6, <2>9, <3>3
    <3>5. (old \o data)[b + 1] = data[(b + 1) - z]
      BY <1>3, <3>4
    <3>6. After(sec, w)[d[y].sectors[j]][p] = data[p - o + 1]
      BY <1>2, <3>2, <3>4
    <3>7. QED BY <3>4, <3>5, <3>6 DEF b
  <2>10. b < z \/ b >= z
    BY <2>1
  <2>11. QED BY <2>8, <2>9, <2>10
<1>5. QED BY <1>4 DEF Holds

(* What is sent next, as it is kept in the history.                         *)
Sends(s, n) == [k \in 1 .. n |-> <<s.name, Len(s.cells) + k>>]
SentMore(s, n) == [s EXCEPT !.cells = s.cells \o Sends(s, n)]

LEMMA NextCells ==
  ASSUME NEW s \in [name : Names, cells : Seq(CellType)], NEW n \in Nat, NEW t, t = SentMore(s, n)
  PROVE  /\ Sends(s, n) \in Seq(CellType) /\ Len(Sends(s, n)) = n
         /\ t \in [name : Names, cells : Seq(CellType)] /\ t.name = s.name
         /\ t.cells = s.cells \o Sends(s, n) /\ Len(t.cells) = Len(s.cells) + n
         /\ Len(s.cells) \in Nat
         /\ Sends(s, n) = Part(t.cells, Len(s.cells), n)
<1> DEFINE cells == Sends(s, n)
           z == Len(s.cells)
<1>1. z \in Nat /\ s.cells \in Seq(CellType) /\ s.name \in Names
  BY LenProperties
<1>2. cells = [k \in 1 .. n |-> <<s.name, z + k>>]
  BY DEF Sends
<1> HIDE DEF cells, z
<1>3. \A k \in 1 .. n : <<s.name, z + k>> \in CellType
  BY <1>1 DEF CellType
<1>4. cells \in [1 .. n -> CellType]
  BY <1>2, <1>3
<1>5. cells \in Seq(CellType) /\ Len(cells) = n
  <2>1. n \in Nat
    OBVIOUS
  <2>2. QED BY ONLY <1>4, <2>1
<1>6. /\ s.cells \o cells \in Seq(CellType) /\ Len(s.cells \o cells) = z + n
      /\ \A k \in 1 .. z + n : (s.cells \o cells)[k] = IF k <= z THEN s.cells[k] ELSE cells[k - z]
  BY <1>1, <1>5, ConcatProperties DEF z
<1> DEFINE all == s.cells \o cells
<1>7. t = [s EXCEPT !.cells = all]
  BY DEF cells, SentMore
<1>8. all \in Seq(CellType)
  BY <1>6
<1> HIDE DEF all
<1>9. t \in [name : Names, cells : Seq(CellType)] /\ t.name = s.name /\ t.cells = all
  BY <1>7, <1>8
<1>10. \A k \in 1 .. n : t.cells[z + k] = cells[k]
  <2> TAKE k \in 1 .. n
  <2>1. z + k \in 1 .. z + n /\ ~ (z + k <= z) /\ (z + k) - z = k
    BY <1>1
  <2>2. QED BY <1>6, <1>9, <2>1 DEF all
<1>11. cells = Part(t.cells, z, n)
  BY <1>2, <1>10 DEF Part
<1>12. QED BY <1>1, <1>5, <1>6, <1>9, <1>11 DEF cells, z, all

LEMMA WriterMore ==
  ASSUME NEW d, NEW own, NEW rank, NEW pos, Files(d, own, rank, pos),
         NEW f \in Live(d), d[f].kind = "name",
         NEW sec \in Bytes, NEW h \in HandleType, h.entry = f,
         h.cur_entry \in Live(d), own[h.cur_entry] = f, h.cur_sindex \in Listed(d[h.cur_entry]),
         h.cur_sector = d[h.cur_entry].sectors[h.cur_sindex], h.cur_sector \in Sector,
         h.size = SectorSize * (pos[h.cur_entry] + h.cur_sindex) + h.cur_soffset,
         NEW s \in [name : Names, cells : Seq(CellType)], s.name = d[f].name, Len(s.cells) = h.size,
         d[f].size <= h.size, Holds(d, own, pos, sec, f, h.size, s.cells),
         NEW n \in 1 .. SectorSize - h.cur_soffset,
         NEW g, g = Longer(h, n), NEW t, t = SentMore(s, n),
         NEW w, w = WriteData(h.cur_sector, h.cur_soffset, Sends(s, n))
  PROVE  /\ Writer(d, own, pos, After(sec, w), g, t)
         /\ \A p : p[h.cur_entry] = pos[h.cur_entry] => DataOf(w, d, p, g, t)
<1> DEFINE z == h.size
           o == h.cur_soffset
           x == h.cur_entry
           i == h.cur_sindex
           b == h.cur_sector
           m == d[f].size
           cells == Sends(s, n)
           old == s.cells
<1>1. /\ g \in HandleType /\ g.filemode = h.filemode /\ g.entry = f /\ g.size = z + n
      /\ g.cur_soffset = (o + n) % SectorSize
      /\ g.cur_sector = b /\ g.cur_entry = x /\ g.cur_sindex = i
  BY Lengthens
<1>2. z \in Nat /\ o \in 0 .. SectorSize - 1 /\ n \in Nat \ {0} /\ o + n <= SectorSize /\ m \in Nat /\ m <= z
  <2>1. z \in Nat /\ o \in 0 .. SectorSize - 1
    BY DEF HandleType
  <2>2. n \in 1 .. SectorSize - o
    OBVIOUS
  <2>3. m \in Nat
    <3>1. d[f] \in EntryType
      BY FilesTyped
    <3>2. m \in 0 .. Sectors * SectorSize /\ Sectors * SectorSize \in Nat
      BY <3>1, EntryParts, Constants
    <3>3. QED BY <3>2
  <2>4. m <= z
    OBVIOUS
  <2> HIDE DEF z, o, m
  <2>5. QED BY <2>1, <2>2, <2>3, <2>4, Constants
<1>3. /\ cells \in Seq(CellType) /\ Len(cells) = n
      /\ t \in [name : Names, cells : Seq(CellType)] /\ t.name = s.name
      /\ t.cells = old \o cells /\ Len(t.cells) = z + n
      /\ cells = Part(t.cells, z, n)
  <2>1. /\ s \in [name : Names, cells : Seq(CellType)] /\ n \in Nat
        /\ t = SentMore(s, n)
    BY <1>2
  <2>2. /\ Sends(s, n) \in Seq(CellType) /\ Len(Sends(s, n)) = n
        /\ t \in [name : Names, cells : Seq(CellType)] /\ t.name = s.name
        /\ t.cells = s.cells \o Sends(s, n) /\ Len(t.cells) = Len(s.cells) + n
        /\ Len(s.cells) \in Nat
        /\ Sends(s, n) = Part(t.cells, Len(s.cells), n)
    BY ONLY <2>1, NextCells
  <2>3. Len(s.cells) = z
    OBVIOUS
  <2>4. QED BY ONLY <2>2, <2>3
<1>4. /\ x \in Live(d) /\ own[x] = f /\ i \in Listed(d[x]) /\ b = d[x].sectors[i] /\ b \in Sector
      /\ z = SectorSize * (pos[x] + i) + o
      /\ old \in Seq(CellType) /\ Len(old) = z /\ Holds(d, own, pos, sec, f, z, old)
      /\ w = WriteData(b, o, cells)
  OBVIOUS
<1>5. t.name = d[f].name
  BY <1>3
<1> HIDE DEF z, o, x, i, b, cells, old, m
<1>6. Holds(d, own, pos, After(sec, w), f, z + n, old \o cells)
  <2>1. /\ Files(d, own, rank, pos) /\ f \in Live(d) /\ d[f].kind = "name" /\ sec \in Bytes
        /\ z \in Nat /\ o \in 0 .. SectorSize - 1 /\ n \in Nat /\ o + n <= SectorSize
        /\ cells \in Seq(CellType) /\ Len(cells) = n
    BY <1>2, <1>3
  <2>2. QED BY ONLY <1>4, <2>1, HoldsMore
<1> DEFINE q == pos[x] + i
<1>7. q \in Nat /\ SectorSize * q \in Nat
  <2>1. pos[x] \in Nat /\ i \in Nat
    BY <1>4, FilesTyped, MaxSectors, Constants DEF Slot
  <2>2. q \in Nat
    BY <2>1
  <2>3. QED BY <2>2, Constants
<1>8. Ends(g, pos)
  <2> DEFINE v == SectorSize * q
             r == (o + n) % SectorSize
  <2>1. z = v + o /\ v \in Nat
    BY <1>4, <1>7
  <2>2. SectorSize * (pos[x] + i + 1) = v + SectorSize
    <3>1. pos[x] + i + 1 = q + 1
      OBVIOUS
    <3> HIDE DEF q
    <3>2. SectorSize * (q + 1) = v + SectorSize
      BY <1>7, Constants
    <3>3. QED BY <3>1, <3>2
  <2>3. n \in 1 .. SectorSize - o
    BY <1>2, Constants
  <2>4. /\ o + n < SectorSize => r = o + n
        /\ o + n = SectorSize => r = 0
        /\ r \in 0 .. SectorSize - 1
    BY <1>2, <2>3, Behind
  <2> HIDE DEF v, r
  <2>5. CASE o + n < SectorSize
    <3>1. r # 0 /\ z + n = v + r
      BY <1>2, <2>1, <2>4, <2>5
    <3>2. QED BY <1>1, <3>1 DEF Ends, r, v
  <2>6. CASE o + n = SectorSize
    <3>1. r = 0 /\ z + n = v + SectorSize
      BY <1>2, <2>1, <2>4, <2>6
    <3>2. g.size = SectorSize * (pos[x] + i + 1)
      BY <1>1, <2>2, <3>1
    <3>3. QED BY <1>1, <3>1, <3>2 DEF Ends, r
  <2>7. o + n < SectorSize \/ o + n = SectorSize
    <3>1. o \in Nat /\ n \in Nat /\ SectorSize \in Nat /\ o + n <= SectorSize
      BY <1>2, Constants
    <3>2. QED BY ONLY <3>1
  <2>8. QED BY ONLY <2>5, <2>6, <2>7
<1>9. m <= z + n
  BY ONLY <1>2
<1>10. Writer(d, own, pos, After(sec, w), g, t)
  <2>1. /\ t \in [name : Names, cells : Seq(CellType)] /\ t.name = d[g.entry].name
        /\ Len(t.cells) = g.size /\ d[g.entry].size <= g.size
    BY <1>1, <1>3, <1>5, <1>9 DEF m
  <2>2. Holds(d, own, pos, After(sec, w), g.entry, g.size, t.cells)
    BY <1>1, <1>3, <1>6
  <2>3. QED BY <1>8, <2>1, <2>2 DEF Writer
<1>11. ASSUME NEW p, p[x] = pos[x]
       PROVE  DataOf(w, d, p, g, t)
  <2>1. n \in 1 .. SectorSize
    BY <1>2, Constants
  <2>2. d[g.entry].size + n <= g.size
    <3>1. m + n <= z + n
      BY ONLY <1>2
    <3>2. QED BY <1>1, <3>1 DEF m
  <2>3. g.size = SectorSize * (p[g.cur_entry] + g.cur_sindex) + o + n
    BY <1>1, <1>4, <1>11
  <2>4. w = WriteData(g.cur_sector, o, Part(t.cells, g.size - n, n))
    <3>1. g.size - n = z
      <4>1. z \in Nat /\ n \in Nat /\ g.size = z + n
        BY <1>1, <1>2
      <4>2. QED BY ONLY <4>1
    <3>2. QED BY <1>1, <1>3, <1>4, <3>1
  <2>5. QED BY <1>2, <2>1, <2>2, <2>3, <2>4 DEF DataOf
<1>12. QED BY <1>10, <1>11 DEF x

-----------------------------------------------------------------------------
(* The bytes a file has are where they were in a directory that lists more.  *)
LEMMA HoldsThere ==
  ASSUME NEW d, NEW own, NEW pos, NEW d2, NEW own2, NEW pos2, NEW sec, NEW e, NEW z, NEW cells,
         Holds(d, own, pos, sec, e, z, cells),
         \A x \in Live(d2) : own2[x] = e => \A i \in Listed(d2[x]) :
           \/ /\ x \in Live(d) /\ own[x] = e /\ i \in Listed(d[x])
              /\ d[x].sectors[i] = d2[x].sectors[i] /\ pos2[x] = pos[x]
           \/ \A o \in 0 .. SectorSize - 1 : ~ (ByteAt(pos2, x, i, o) < z)
  PROVE  Holds(d2, own2, pos2, sec, e, z, cells)
<1>1. ASSUME NEW x \in Live(d2), own2[x] = e, NEW i \in Listed(d2[x]), NEW o \in 0 .. SectorSize - 1,
             ByteAt(pos2, x, i, o) < z
      PROVE  sec[d2[x].sectors[i]][o] = cells[ByteAt(pos2, x, i, o) + 1]
  <2>1. /\ x \in Live(d) /\ own[x] = e /\ i \in Listed(d[x])
        /\ d[x].sectors[i] = d2[x].sectors[i] /\ pos2[x] = pos[x]
    BY <1>1
  <2>2. ByteAt(pos2, x, i, o) = ByteAt(pos, x, i, o)
    BY <2>1 DEF ByteAt
  <2>3. QED BY <1>1, <2>1, <2>2 DEF Holds
<1>2. QED BY <1>1 DEF Holds

(* A step that puts data behind the writes of entries that made room for it. *)
Stored(entries, d, own, pos, f, h) ==
  /\ dir' = dir /\ sectors' = sectors /\ sent' = [b \in Channels |-> sent'[b]] /\ Closes(d)'
  /\ \E c \in Channels : \E w :
       /\ queue' = Append(entries, w) /\ IsData(w)
       /\ fh'[c].filemode = "write" /\ fh'[c].entry = f /\ fh'[c].cur_entry = h.cur_entry
       /\ fh'[c].cur_sindex = h.cur_sindex /\ fh'[c].cur_sector = h.cur_sector
       /\ \A p : p[h.cur_entry] = pos[h.cur_entry] => DataOf(w, d, p, fh'[c], sent'[c])
       /\ Writers(d, own, pos, After(sectors, w), fh', sent')

(* Once around the loop of eepromfs_write, with d2 the directory that this   *)
(* leads to: the channel has sent what its file has with the data.          *)
LEMMA StoredMore ==
  ASSUME NEW own, NEW rank, NEW pos, Good(dir, own, rank, pos), queue = <<>>, WriteMore,
         Writers(dir, own, pos, sectors, fh, sent), sectors \in Bytes, sent = [b \in Channels |-> sent[b]],
         NEW d2, NEW own2, NEW rank2, NEW pos2, Files(d2, own2, rank2, pos2),
         NEW f, f = fh[busy.c].entry, Untouched(dir, own, pos, d2, own2, pos2, f),
         f \in Live(d2), d2[f].kind = "name", d2[f].name = dir[f].name, d2[f].size = dir[f].size,
         NEW h \in HandleType, h.filemode = "write", h.entry = f, h.size = fh[busy.c].size,
         h.cur_entry \in Live(d2), own2[h.cur_entry] = f, h.cur_sindex \in Listed(d2[h.cur_entry]),
         h.cur_sector = d2[h.cur_entry].sectors[h.cur_sindex], h.cur_sector \in Sector,
         h.size = SectorSize * (pos2[h.cur_entry] + h.cur_sindex) + h.cur_soffset,
         \A x \in Live(dir) : own[x] # f => h.cur_sector \notin SectorsOf(dir[x]),
         Holds(d2, own2, pos2, sectors, f, h.size, sent[busy.c].cells),
         NEW entries, StoreSome(h, entries)
  PROVE  Stored(entries, d2, own2, pos2, f, h)
<1>1. PICK c \in Channels :
        /\ c = busy.c /\ busy.left \in Nat
        /\ busy = [op |-> "write", c |-> c, left |-> busy.left, closing |-> busy.closing]
        /\ fh[c].filemode = "write" /\ fh[c].entry = f
        /\ \A b \in Channels \ {c} : fh[b].filemode # "closed" => fh[b].entry # f
  BY IsWriting DEF WriteMore
<1>2. busy.left > 0
  BY DEF WriteMore
<1> DEFINE left == busy.left
<1>3. PICK n : n = Min(left, SectorSize - h.cur_soffset)
  OBVIOUS
<1>4. n \in 1 .. SectorSize - h.cur_soffset
  <2> DEFINE room == SectorSize - h.cur_soffset
  <2>1. h.cur_soffset \in 0 .. SectorSize - 1
    BY DEF HandleType
  <2>2. room \in Nat \ {0} /\ left \in Nat \ {0}
    BY <1>1, <1>2, <2>1, Constants
  <2> HIDE DEF room, left
  <2>3. n \in Nat \ {0} /\ n <= room
    BY <1>3, <2>2, Lesser DEF room
  <2>4. QED BY <2>2, <2>3 DEF room
<1>5. PICK s : s = sent[c]
  OBVIOUS
<1>6. PICK g : g = Longer(h, n)
  OBVIOUS
<1>7. PICK t : t = SentMore(s, n)
  OBVIOUS
<1>8. PICK w : w = WriteData(h.cur_sector, h.cur_soffset, Sends(s, n))
  OBVIOUS
<1>9. /\ dir' = dir /\ sectors' = sectors /\ fh' = Set(fh, c, g) /\ sent' = Set(sent, c, t)
      /\ queue' = Append(entries, w) /\ busy' = [busy EXCEPT !.left = @ - n]
  BY <1>1, <1>3, <1>5, <1>6, <1>7, <1>8 DEF StoreSome, eeprom, Longer, Set, Sends, SentMore
<1>10. /\ Files(dir, own, rank, pos) /\ Handled(fh, dir, own, pos)
  BY DEF Good
<1>11. Writer(dir, own, pos, sectors, fh[c], s)
  BY <1>1, <1>5 DEF Writers
<1>12. /\ s \in [name : Names, cells : Seq(CellType)] /\ s.name = d2[f].name /\ Len(s.cells) = h.size
       /\ d2[f].size <= h.size /\ Holds(d2, own2, pos2, sectors, f, h.size, s.cells)
  BY <1>1, <1>5, <1>11 DEF Writer
<1>13. /\ Writer(d2, own2, pos2, After(sectors, w), g, t)
       /\ \A p : p[h.cur_entry] = pos2[h.cur_entry] => DataOf(w, d2, p, g, t)
  <2>1. PICK sec : sec = sectors
    OBVIOUS
  <2>2. /\ Files(d2, own2, rank2, pos2)
        /\ f \in Live(d2) /\ d2[f].kind = "name"
        /\ sec \in Bytes /\ h \in HandleType /\ h.entry = f
        /\ h.cur_entry \in Live(d2) /\ own2[h.cur_entry] = f /\ h.cur_sindex \in Listed(d2[h.cur_entry])
        /\ h.cur_sector = d2[h.cur_entry].sectors[h.cur_sindex] /\ h.cur_sector \in Sector
        /\ h.size = SectorSize * (pos2[h.cur_entry] + h.cur_sindex) + h.cur_soffset
        /\ s \in [name : Names, cells : Seq(CellType)] /\ s.name = d2[f].name /\ Len(s.cells) = h.size
        /\ d2[f].size <= h.size /\ Holds(d2, own2, pos2, sec, f, h.size, s.cells)
        /\ n \in 1 .. SectorSize - h.cur_soffset
        /\ g = Longer(h, n) /\ t = SentMore(s, n)
        /\ w = WriteData(h.cur_sector, h.cur_soffset, Sends(s, n))
    BY <1>4, <1>6, <1>7, <1>8, <1>12, <2>1
  <2>3. /\ Writer(d2, own2, pos2, After(sec, w), g, t)
        /\ \A p : p[h.cur_entry] = pos2[h.cur_entry] => DataOf(w, d2, p, g, t)
    BY ONLY <2>2, WriterMore
  <2>4. QED BY <2>1, <2>3
<1>14. /\ g.filemode = "write" /\ g.entry = f
       /\ g.cur_sector = h.cur_sector /\ g.cur_entry = h.cur_entry /\ g.cur_sindex = h.cur_sindex
  BY <1>4, <1>6, Lengthens
<1>15. SameBytes(dir, own, f, sectors, After(sectors, w))
  <2>1. \A u \in Sector \ {h.cur_sector} : After(sectors, w)[u] = sectors[u]
    <3>1. w.at = h.cur_sector
      BY ONLY <1>8, Writes
    <3>2. sectors \in Bytes
      BY <1>8
    <3>3. QED BY ONLY <3>1, <3>2 DEF After, Bytes
  <2>2. ASSUME NEW x \in Live(dir), own[x] # f, NEW i \in Listed(dir[x])
        PROVE  After(sectors, w)[dir[x].sectors[i]] = sectors[dir[x].sectors[i]]
    <3>1. dir[x] \in EntryType /\ i \in Slot /\ dir[x].sectors[i] # None
      BY <1>10, FilesTyped, MaxSectors DEF Listed
    <3>2. dir[x].sectors[i] \in Sector
      BY ONLY <3>1, EntryParts
    <3>3. dir[x].sectors[i] # h.cur_sector
      BY <2>2 DEF SectorsOf
    <3>4. QED BY ONLY <2>1, <3>2, <3>3
  <2>3. QED BY <2>2 DEF SameBytes
<1>16. PICK h2, sn2, sec2 : h2 = fh' /\ sn2 = sent' /\ sec2 = After(sectors, w)
  OBVIOUS
<1>17. Writers(d2, own2, pos2, sec2, h2, sn2) /\ sn2 = [b \in Channels |-> sn2[b]]
  <2>1. \A b \in Channels \ {c} : fh[b].filemode = "write" => fh[b].entry # f
    BY <1>1
  <2>2. SameBytes(dir, own, f, sectors, sec2) /\ Untouched(dir, own, pos, d2, own2, pos2, f)
        /\ Writers(dir, own, pos, sectors, fh, sent) /\ sent = [b \in Channels |-> sent[b]] /\ c \in Channels
    BY <1>15, <1>16
  <2>3. /\ h2 = Set(fh, c, g) /\ sn2 = Set(sent, c, t)
        /\ g.filemode = "write" => Writer(d2, own2, pos2, sec2, g, t)
        /\ g.filemode # "write" => t = None
    BY <1>9, <1>13, <1>14, <1>16
  <2>4. QED BY ONLY <1>10, <2>1, <2>2, <2>3, WritersGo
<1>18. fh'[c] = g /\ sent'[c] = t
  BY <1>9, <1>10 DEF Set, Handled
<1>19. Closes(d2)'
  <2>1. busy'.op = "write"
    BY <1>1, <1>9
  <2>2. QED BY <2>1 DEF Closes, Finishing
<1>20. IsData(w)
  BY <1>8, Writes
<1>21. QED BY <1>9, <1>13, <1>14, <1>16, <1>17, <1>18, <1>19, <1>20 DEF Stored

(* The last sector of a file that is written.                               *)
LEMMA LastSector ==
  ASSUME NEW d, NEW own, NEW rank, NEW pos, Files(d, own, rank, pos),
         NEW x \in Live(d), NEW i, i >= 0, i \in Int, Filled(d[x], i + 1),
         NEW s, s = d[x].sectors[i]
  PROVE  /\ i \in Listed(d[x]) /\ s \in Sector
         /\ \A y \in Live(d) : own[y] # own[x] => s \notin SectorsOf(d[y])
<1>1. i \in Listed(d[x])
  BY DEF Filled
<1>2. s \in Sector
  <2>1. d[x] \in EntryType /\ i \in Slot /\ d[x].sectors[i] # None
    BY <1>1, FilesTyped, MaxSectors DEF Listed
  <2>2. QED BY <2>1, EntryParts
<1>3. ASSUME NEW y \in Live(d), own[y] # own[x], s \in SectorsOf(d[y])
      PROVE  FALSE
  <2>1. s \in SectorsOf(d[x]) /\ x # y
    BY <1>1, <1>3 DEF SectorsOf
  <2>2. Apart(d)
    BY FilesTyped DEF Neat
  <2>3. QED BY <1>3, <2>1, <2>2 DEF Apart
<1>4. QED BY <1>1, <1>2, <1>3

LEMMA ComesLast ==
  ASSUME NEW q, NEW sec, NEW w, IsData(w), NEW x, NEW y,
         q = <<w>> \/ q = <<x, w>> \/ q = <<x, y, w>>
  PROVE  Coming(sec, q) = After(sec, w)
BY DEF Coming

LEMMA WriteInSectorContents ==
  ASSUME IInv, CInv, IInv', queue = <<>>, WriteInSector
  PROVE  CInv'
<1>1. PICK own, rank, pos :
        /\ Good(dir, own, rank, pos) /\ Files(dir, own, rank, pos) /\ Handled(fh, dir, own, pos)
        /\ Writers(dir, own, pos, sectors, fh, sent) /\ Closes(dir)
  BY AtStart
<1>2. sectors \in Bytes /\ sent = [b \in Channels |-> sent[b]] /\ Known(dir) /\ Blanked(dir, sectors)
  BY Whole
<1>3. PICK h : h = fh[busy.c]
  OBVIOUS
<1>4. PICK f, x, i : f = h.entry /\ x = h.cur_entry /\ i = h.cur_sindex
  OBVIOUS
<1>5. WriteMore /\ h.cur_soffset # 0 /\ StoreSome(h, <<>>)
  BY <1>3 DEF WriteInSector
<1>6. /\ busy.c \in Channels /\ h.filemode = "write" /\ h \in HandleType /\ Opened(dir, own, pos, h)
  BY <1>1, <1>3, <1>5, IsWriting DEF WriteMore
<1>7. /\ f \in Live(dir) /\ dir[f].kind = "name" /\ x \in Live(dir) /\ own[x] = f
      /\ WritesAt(dir, own, pos, h) /\ x \in Entry
  BY <1>4, <1>6 DEF Opened, HandleType, Live
<1>8. Writer(dir, own, pos, sectors, h, sent[busy.c])
  BY <1>1, <1>3, <1>6 DEF Writers
<1>9. h.size = SectorSize * (pos[x] + i) + h.cur_soffset
  BY <1>4, <1>5, <1>8 DEF Writer, Ends
<1>10. h.size \in Nat /\ i \in -1 .. ListSectors - 1 /\ h.cur_soffset \in 1 .. SectorSize - 1
  BY <1>4, <1>5, <1>6, Constants DEF HandleType
<1>11. i >= 0 /\ i \in Int
  <2>1. i # -1
    <3>1. SUFFICES ASSUME i = -1 PROVE FALSE
      OBVIOUS
    <3>2. h.size = 0
      BY <1>4, <1>7, <3>1 DEF WritesAt
    <3>3. PICK q \in 0 .. h.size : h.size = SectorSize * q + h.cur_soffset
      BY <1>7 DEF WritesAt
    <3>4. PICK m \in Nat : m = SectorSize * q
      BY <1>10, <3>3, Constants
    <3>5. QED BY <1>10, <3>2, <3>3, <3>4
  <2>2. QED BY <1>10, <2>1
<1>12. Filled(dir[x], i + 1) /\ h.cur_sector = dir[x].sectors[i]
  BY <1>4, <1>7, <1>11 DEF WritesAt
<1>13. /\ i \in Listed(dir[x]) /\ h.cur_sector \in Sector
       /\ \A y \in Live(dir) : own[y] # f => h.cur_sector \notin SectorsOf(dir[y])
  BY <1>1, <1>7, <1>11, <1>12, LastSector
<1>14. PICK d2 : d2 = dir
  OBVIOUS
<1>15. Stored(<<>>, d2, own, pos, f, h)
  <2>1. /\ Good(dir, own, rank, pos) /\ queue = <<>> /\ WriteMore
        /\ Writers(dir, own, pos, sectors, fh, sent) /\ sectors \in Bytes /\ sent = [b \in Channels |-> sent[b]]
        /\ Files(d2, own, rank, pos) /\ f = fh[busy.c].entry /\ Untouched(dir, own, pos, d2, own, pos, f)
        /\ f \in Live(d2) /\ d2[f].kind = "name" /\ d2[f].name = dir[f].name /\ d2[f].size = dir[f].size
    BY <1>1, <1>2, <1>3, <1>4, <1>5, <1>7, <1>14, SameUntouched
  <2>2. /\ h \in HandleType /\ h.filemode = "write" /\ h.entry = f /\ h.size = fh[busy.c].size
        /\ h.cur_entry \in Live(d2) /\ own[h.cur_entry] = f /\ h.cur_sindex \in Listed(d2[h.cur_entry])
        /\ h.cur_sector = d2[h.cur_entry].sectors[h.cur_sindex] /\ h.cur_sector \in Sector
        /\ h.size = SectorSize * (pos[h.cur_entry] + h.cur_sindex) + h.cur_soffset
        /\ \A y \in Live(dir) : own[y] # f => h.cur_sector \notin SectorsOf(dir[y])
    BY <1>3, <1>4, <1>6, <1>7, <1>9, <1>12, <1>13, <1>14
  <2>3. Holds(d2, own, pos, sectors, f, h.size, sent[busy.c].cells) /\ StoreSome(h, <<>>)
    BY <1>4, <1>5, <1>8, <1>14 DEF Writer
  <2>4. QED BY ONLY <2>1, <2>2, <2>3, StoredMore
<1>16. PICK c \in Channels : \E w :
         /\ queue' = <<w>> /\ IsData(w) /\ fh'[c].filemode = "write"
         /\ \A p : p[x] = pos[x] => DataOf(w, d2, p, fh'[c], sent'[c])
         /\ Writers(d2, own, pos, After(sectors, w), fh', sent')
  BY <1>4, <1>15 DEF Stored
<1>17. PICK w :
         /\ queue' = <<w>> /\ IsData(w) /\ fh'[c].filemode = "write"
         /\ \A p : p[x] = pos[x] => DataOf(w, d2, p, fh'[c], sent'[c])
         /\ Writers(d2, own, pos, After(sectors, w), fh', sent')
  BY <1>16
<1>18. dir' = dir /\ sectors' = sectors /\ sent' = [b \in Channels |-> sent'[b]] /\ Closes(d2)'
  BY <1>15 DEF Stored
<1>19. Leads(dir', queue', d2)
  BY <1>14, <1>18, <1>17 DEF Leads
<1>20. Writers(d2, own, pos, Coming(sectors', queue'), fh', sent')
  BY <1>18, <1>17, ComesLast
<1>21. ASSUME NEW p, \A y \in Live(d2) : d2[own[y]].kind = "name" => p[y] = pos[y]
       PROVE  Pending(d2, p)'
  <2>1. p[x] = pos[x]
    BY <1>7, <1>14, <1>21
  <2>2. DataDue(fh[c], sent[c], d2, p)'
    BY <1>17, <2>1 DEF DataDue
  <2>3. QED BY <1>17, <2>2 DEF Pending, Due
<1>22. /\ sectors' \in Bytes /\ sent' = [b \in Channels |-> sent'[b]] /\ Known(dir') /\ Blanked(dir', sectors')
  BY <1>2, <1>18
<1>23. IInv' /\ Files(d2, own, rank, pos) /\ Known(d2) /\ Closes(d2)'
  BY <1>1, <1>2, <1>14, <1>18
<1>24. QED BY ONLY <1>19, <1>20, <1>21, <1>22, <1>23, Remains

LEMMA WithParts ==
  ASSUME NEW e \in EntryType, NEW k \in Slot, NEW s \in Sector, Filled(e, k),
         k < curentry_max_sectors(e), NEW e2, e2 = With(e, k, s)
  PROVE  /\ e2.kind = e.kind /\ e2.name = e.name /\ e2.size = e.size /\ e2.next = e.next
         /\ Listed(e2) = 0 .. k /\ Listed(e) = 0 .. k - 1
         /\ \A j \in 0 .. k - 1 : e2.sectors[j] = e.sectors[j]
<1>1. /\ e2.kind = e.kind /\ e2.name = e.name /\ e2.size = e.size /\ e2.next = e.next
      /\ e2.sectors = [e.sectors EXCEPT ![k] = s] /\ e.sectors \in [Slot -> Sector \cup {None}]
  BY DEF With, EntryType
<1>2. Listed(e) = 0 .. k - 1 /\ s # None /\ k \in Nat
  BY Constants DEF Filled, Sector, Slot
<1>3. curentry_max_sectors(e2) = curentry_max_sectors(e) /\ curentry_max_sectors(e) \in 1 .. ListSectors
  BY <1>1, MaxSectors DEF curentry_max_sectors
<1>4. \A j \in Slot : j # k => e2.sectors[j] = e.sectors[j]
  BY <1>1
<1>5. e2.sectors[k] = s
  BY <1>1
<1> DEFINE max == curentry_max_sectors(e)
<1> HIDE DEF max
<1>6. 0 .. max - 1 \subseteq Slot /\ k < max /\ max \in Nat
  BY <1>3, Constants DEF max, Slot
<1>7. Listed(e2) = {j \in 0 .. max - 1 : e2.sectors[j] # None} /\ Listed(e) = {j \in 0 .. max - 1 : e.sectors[j] # None}
  BY <1>3 DEF max, Listed
<1>8. Listed(e2) = Listed(e) \cup {k}
  <2>1. k \in 0 .. max - 1
    BY <1>2, <1>6
  <2>2. QED BY <1>2, <1>4, <1>5, <1>6, <1>7, <2>1
<1>9. Listed(e2) = 0 .. k
  BY <1>2, <1>8
<1>10. \A j \in 0 .. k - 1 : j \in Slot /\ j # k
  BY <1>2, <1>6
<1>11. QED BY <1>1, <1>2, <1>4, <1>9, <1>10

(* The first byte of the next sector is that behind the end of the file.    *)
LEMMA Beyond ==
  ASSUME NEW pos, NEW x, NEW k \in Nat, pos[x] \in Nat, NEW z, z = SectorSize * (pos[x] + k)
  PROVE  \A o \in 0 .. SectorSize - 1 : ~ (ByteAt(pos, x, k, o) < z)
<1>1. PICK q \in Nat : q = pos[x] + k
  OBVIOUS
<1>2. PICK v \in Nat : v = SectorSize * q
  BY Constants
<1>3. ASSUME NEW o \in 0 .. SectorSize - 1
      PROVE  ~ (ByteAt(pos, x, k, o) < z)
  <2>1. ByteAt(pos, x, k, o) = v + o /\ z = v
    BY <1>1, <1>2 DEF ByteAt
  <2>2. o \in Nat
    BY Constants
  <2>3. QED BY <2>1, <2>2
<1>4. QED BY <1>3

LEMMA WriteNewSectorContents ==
  ASSUME IInv, CInv, IInv', queue = <<>>, WriteNewSector
  PROVE  CInv'
<1>1. PICK own, rank, pos :
        /\ Good(dir, own, rank, pos) /\ Files(dir, own, rank, pos) /\ Handled(fh, dir, own, pos)
        /\ Writers(dir, own, pos, sectors, fh, sent) /\ Closes(dir)
  BY AtStart
<1>2. sectors \in Bytes /\ sent = [b \in Channels |-> sent[b]] /\ Known(dir) /\ Blanked(dir, sectors)
  BY Whole
<1>3. PICK h : h = fh[busy.c]
  OBVIOUS
<1>4. PICK f, i, k : f = h.entry /\ i = h.cur_entry /\ k = h.cur_sindex + 1
  OBVIOUS
<1>5. PICK s \in next_free_sector(h.cur_sector) \ {None} :
        /\ k < curentry_max_sectors(dir[i])
        /\ StoreSome([h EXCEPT !.cur_sector = s, !.cur_sindex = k],
                     <<WriteEntry(i, [dir[i] EXCEPT !.sectors[k] = s])>>)
  BY <1>3, <1>4 DEF WriteNewSector
<1>6. WriteMore /\ h.cur_soffset = 0
  BY <1>3 DEF WriteNewSector
<1>7. /\ h.filemode = "write" /\ h \in HandleType /\ dir[h.entry].kind = "name"
      /\ h.entry \in Live(dir) /\ h.cur_entry \in Live(dir) /\ own[h.cur_entry] = h.entry
      /\ dir[h.cur_entry].next = None /\ Filled(dir[h.cur_entry], h.cur_sindex + 1)
      /\ h.cur_sindex + 1 \in Nat /\ h.cur_sindex + 1 <= curentry_max_sectors(dir[h.cur_entry])
      /\ Fits(dir, own, pos, h.entry, h.size) /\ h.size \in Nat
      /\ h.cur_sector \in Sector \cup {None}
      /\ \E q \in 0 .. h.size : h.size = SectorSize * q + 0
  BY <1>1, <1>3, <1>6, AtEnd
<1>8. /\ i \in Live(dir) /\ own[i] = f /\ dir[i].next = None /\ Filled(dir[i], k) /\ k \in Nat
      /\ dir[f].kind = "name" /\ f \in Live(dir) /\ i \in Entry /\ f \in Entry
  BY <1>4, <1>7 DEF Live
<1>9. /\ dir[i] \in EntryType /\ pos[i] \in Nat /\ Live(dir) \subseteq Entry
      /\ dir \in [Entry -> EntryType]
  BY <1>1, <1>8, FilesTyped
<1>10. k \in Slot
  BY <1>5, <1>8, MaxSectors, Constants DEF Slot
<1>11. s \in Sector /\ s \notin UsedOf(dir)
  <2>1. s \in Sector /\ s \notin used_sectors
    BY <1>5, <1>7, FreeSector
  <2>2. Counted(used_sectors, free_sectors, used_entries, dir)
    BY <1>1 DEF Good
  <2>3. QED BY <2>1, <2>2 DEF Counted
<1>12. PICK e : e = With(dir[i], k, s)
  OBVIOUS
<1>13. PICK d2 : d2 = Set(dir, i, e)
  OBVIOUS
<1>14. PICK g : g = At(h, i, k, s)
  OBVIOUS
<1>15. /\ Files(d2, own, rank, pos)
       /\ Live(d2) = Live(dir) /\ UsedOf(d2) = UsedOf(dir) \cup {s}
       /\ Untouched(dir, own, pos, d2, own, pos, own[i])
       /\ \A z \in Nat, n \in 0 .. SectorSize :
            Fits(dir, own, pos, own[i], z) => Fits(d2, own, pos, own[i], z + n)
       /\ e \in EntryType /\ d2[i] = e /\ e.kind = dir[i].kind /\ e.next = None
       /\ Filled(e, k + 1) /\ e.sectors[k] = s
       /\ \A x \in Entry : d2[x].kind = dir[x].kind
  BY <1>1, <1>5, <1>8, <1>11, <1>12, <1>13, SectorAdded
<1>16. /\ e.kind = dir[i].kind /\ e.name = dir[i].name /\ e.size = dir[i].size /\ e.next = dir[i].next
       /\ Listed(e) = 0 .. k /\ Listed(dir[i]) = 0 .. k - 1
       /\ \A j \in 0 .. k - 1 : e.sectors[j] = dir[i].sectors[j]
  BY <1>5, <1>8, <1>9, <1>10, <1>11, <1>12, WithParts
<1>17. \A x \in Entry : d2[x].name = dir[x].name /\ d2[x].size = dir[x].size /\ (x # i => d2[x] = dir[x])
  BY <1>9, <1>13, <1>15, <1>16 DEF Set
<1>18. Known(d2)
  BY <1>2, <1>9, <1>15, <1>17, KnownToo
<1>19. /\ g \in HandleType /\ g.filemode = h.filemode /\ g.entry = h.entry /\ g.size = h.size
       /\ g.cur_offset = h.cur_offset /\ g.cur_soffset = h.cur_soffset
       /\ g.cur_sector = s /\ g.cur_entry = i /\ g.cur_sindex = k
  <2>1. s \in Sector \cup {None} /\ k \in 0 .. ListSectors - 1
    BY <1>10, <1>11 DEF Slot
  <2>2. QED BY <1>7, <1>8, <1>14, <2>1, Goes
<1>20. StoreSome(g, <<WriteEntry(i, e)>>)
  <2>1. [h EXCEPT !.cur_sector = s, !.cur_sindex = k] = g
    BY <1>4, <1>7, <1>14 DEF At, HandleType
  <2>2. [dir[i] EXCEPT !.sectors[k] = s] = e
    BY <1>12 DEF With
  <2>3. QED BY <1>5, <2>1, <2>2
<1>21. busy.c \in Channels
  BY <1>1, <1>6, IsWriting DEF WriteMore
<1>22. Writer(dir, own, pos, sectors, h, sent[busy.c])
  BY <1>1, <1>3, <1>7, <1>21 DEF Writers
<1>23. PICK z, cells : z = h.size /\ cells = sent[busy.c].cells
  OBVIOUS
<1>24. z = SectorSize * (pos[i] + k) /\ Holds(dir, own, pos, sectors, f, z, cells)
  <2>1. h.size = SectorSize * (pos[i] + h.cur_sindex + 1)
    BY <1>4, <1>6, <1>22 DEF Writer, Ends
  <2>2. pos[i] + h.cur_sindex + 1 = pos[i] + k
    <3>1. h.cur_sindex \in Int
      BY <1>7, Constants DEF HandleType
    <3>2. QED BY <1>4, <1>9, <3>1
  <2>3. QED BY <1>4, <1>22, <1>23, <2>1, <2>2 DEF Writer
<1>25. Holds(d2, own, pos, sectors, f, z, cells)
  <2>1. \A o \in 0 .. SectorSize - 1 : ~ (ByteAt(pos, i, k, o) < z)
    BY <1>8, <1>9, <1>24, Beyond
  <2>2. ASSUME NEW x \in Live(d2), own[x] = f, NEW j \in Listed(d2[x])
        PROVE  \/ /\ x \in Live(dir) /\ own[x] = f /\ j \in Listed(dir[x])
                  /\ dir[x].sectors[j] = d2[x].sectors[j] /\ pos[x] = pos[x]
               \/ \A o \in 0 .. SectorSize - 1 : ~ (ByteAt(pos, x, j, o) < z)
    <3>1. CASE x # i
      BY <1>9, <1>15, <1>17, <2>2, <3>1
    <3>2. CASE x = i /\ j = k
      BY <2>1, <3>2
    <3>3. CASE x = i /\ j # k
      <4>1. j \in 0 .. k - 1
        BY <1>8, <1>15, <1>16, <3>3
      <4>2. QED BY <1>8, <1>15, <1>16, <3>3, <4>1
    <3>4. QED BY <3>1, <3>2, <3>3
  <2>3. PICK sec : sec = sectors
    OBVIOUS
  <2>4. Holds(dir, own, pos, sec, f, z, cells)
    BY <1>24, <2>3
  <2>5. Holds(d2, own, pos, sec, f, z, cells)
    BY ONLY <2>2, <2>4, HoldsThere
  <2>6. QED BY <2>3, <2>5
<1>26. Stored(<<WriteEntry(i, e)>>, d2, own, pos, f, g)
  <2>1. /\ Good(dir, own, rank, pos) /\ queue = <<>> /\ WriteMore
        /\ Writers(dir, own, pos, sectors, fh, sent) /\ sectors \in Bytes /\ sent = [b \in Channels |-> sent[b]]
        /\ Files(d2, own, rank, pos) /\ f = fh[busy.c].entry /\ Untouched(dir, own, pos, d2, own, pos, f)
        /\ f \in Live(d2) /\ d2[f].kind = "name" /\ d2[f].name = dir[f].name /\ d2[f].size = dir[f].size
    BY <1>1, <1>2, <1>3, <1>4, <1>6, <1>8, <1>15, <1>17
  <2>2. /\ g \in HandleType /\ g.filemode = "write" /\ g.entry = f /\ g.size = fh[busy.c].size
        /\ g.cur_entry \in Live(d2) /\ own[g.cur_entry] = f /\ g.cur_sindex \in Listed(d2[g.cur_entry])
        /\ g.cur_sector = d2[g.cur_entry].sectors[g.cur_sindex] /\ g.cur_sector \in Sector
    <3>1. /\ h.filemode = "write" /\ h.entry = f /\ h.size = fh[busy.c].size
          /\ i \in Live(d2) /\ own[i] = f /\ d2[i] = e
      BY <1>3, <1>4, <1>7, <1>8, <1>15
    <3>2. k \in 0 .. k /\ Listed(e) = 0 .. k /\ e.sectors[k] = s
      <4>1. k \in Nat
        BY ONLY <1>8
      <4>2. k \in 0 .. k
        BY ONLY <4>1
      <4>3. QED BY <1>15, <1>16, <4>2
    <3>3. k \in Listed(d2[i]) /\ d2[i].sectors[k] = s
      BY ONLY <3>1, <3>2
    <3>4. QED BY ONLY <1>11, <1>19, <3>1, <3>3
  <2>3. g.size = SectorSize * (pos[g.cur_entry] + g.cur_sindex) + g.cur_soffset
    <3>1. z \in Nat /\ g.size = z /\ g.cur_soffset = 0 /\ g.cur_entry = i /\ g.cur_sindex = k
      BY <1>6, <1>7, <1>19, <1>23
    <3>2. z = z + 0
      BY <3>1
    <3>3. QED BY <1>24, <3>1, <3>2
  <2>4. \A y \in Live(dir) : own[y] # f => g.cur_sector \notin SectorsOf(dir[y])
    BY <1>11, <1>19 DEF UsedOf
  <2>5. Holds(d2, own, pos, sectors, f, g.size, sent[busy.c].cells) /\ StoreSome(g, <<WriteEntry(i, e)>>)
    BY <1>19, <1>20, <1>23, <1>25
  <2>6. QED BY ONLY <2>1, <2>2, <2>3, <2>4, <2>5, StoredMore
<1>27. PICK c \in Channels : \E w :
         /\ queue' = Append(<<WriteEntry(i, e)>>, w) /\ IsData(w) /\ fh'[c].filemode = "write"
         /\ fh'[c].cur_entry = i /\ fh'[c].cur_sindex = k /\ fh'[c].cur_sector = s
         /\ \A p : p[i] = pos[i] => DataOf(w, d2, p, fh'[c], sent'[c])
         /\ Writers(d2, own, pos, After(sectors, w), fh', sent')
  BY <1>19, <1>26 DEF Stored
<1>28. PICK w :
         /\ queue' = Append(<<WriteEntry(i, e)>>, w) /\ IsData(w) /\ fh'[c].filemode = "write"
         /\ fh'[c].cur_entry = i /\ fh'[c].cur_sindex = k /\ fh'[c].cur_sector = s
         /\ \A p : p[i] = pos[i] => DataOf(w, d2, p, fh'[c], sent'[c])
         /\ Writers(d2, own, pos, After(sectors, w), fh', sent')
  BY <1>27
<1>29. dir' = dir /\ sectors' = sectors /\ sent' = [b \in Channels |-> sent'[b]] /\ Closes(d2)'
  BY <1>26 DEF Stored
<1>30. queue' = <<WriteEntry(i, e), w>>
  BY <1>28, AppendTwo
<1>31. Leads(dir', queue', d2)
  BY <1>8, <1>13, <1>15, <1>28, <1>29, <1>30 DEF Leads
<1>32. Writers(d2, own, pos, Coming(sectors', queue'), fh', sent')
  <2>1. PICK q, sec : q = queue' /\ sec = sectors
    OBVIOUS
  <2>2. IsData(w) /\ q = <<WriteEntry(i, e), w>>
    BY <1>28, <1>30, <2>1
  <2>3. Coming(sec, q) = After(sec, w)
    BY ONLY <2>2, ComesLast
  <2>4. QED BY <1>28, <1>29, <2>1, <2>3
<1>33. ASSUME NEW p, \A y \in Live(d2) : d2[own[y]].kind = "name" => p[y] = pos[y]
       PROVE  Pending(d2, p)'
  <2>1. p[i] = pos[i]
    BY <1>8, <1>15, <1>33
  <2>2. DataOf(w, d2, p, fh'[c], sent'[c])
    BY <1>28, <2>1
  <2>3. SectorDue(fh[c], sent[c], d2, p)'
    BY <1>8, <1>11, <1>12, <1>28, <1>29, <1>30, <2>2 DEF SectorDue
  <2>4. QED BY <1>28, <2>3 DEF Pending, Due
<1>34. /\ sectors' \in Bytes /\ sent' = [b \in Channels |-> sent'[b]] /\ Known(dir') /\ Blanked(dir', sectors')
  BY <1>2, <1>29
<1>35. IInv' /\ Files(d2, own, rank, pos) /\ Known(d2) /\ Closes(d2)'
  BY <1>15, <1>18, <1>29
<1>36. QED BY ONLY <1>31, <1>32, <1>33, <1>34, <1>35, Remains

LEMMA ToParts ==
  ASSUME NEW e \in EntryType, NEW j, NEW e2, e2 = To(e, j)
  PROVE  /\ e2.kind = e.kind /\ e2.name = e.name /\ e2.size = e.size /\ e2.sectors = e.sectors
         /\ Listed(e2) = Listed(e)
<1>1. e2.kind = e.kind /\ e2.name = e.name /\ e2.size = e.size /\ e2.sectors = e.sectors
  BY DEF To, EntryType
<1>2. QED BY <1>1 DEF Listed, curentry_max_sectors

LEMMA NewListParts ==
  ASSUME NEW s \in Sector
  PROVE  /\ NewList(s).kind = "list" /\ NewList(s).next = None /\ Filled(NewList(s), 1)
         /\ NewList(s).sectors[0] = s /\ Listed(NewList(s)) = {0}
<1>1. NewList(s).sectors[0] = s
  <2>1. 0 \in Slot
    BY Constants DEF Slot
  <2>2. QED BY <2>1 DEF NewList, Erased
<1>2. NewList(s).kind = "list" /\ NewList(s).next = None /\ Filled(NewList(s), 1)
  BY <1>1, NewEntries
<1>3. QED BY <1>1, <1>2 DEF Filled

LEMMA WriteNewEntryContents ==
  ASSUME IInv, CInv, IInv', queue = <<>>, WriteNewEntry
  PROVE  CInv'
<1>1. PICK own, rank, pos :
        /\ Good(dir, own, rank, pos) /\ Files(dir, own, rank, pos) /\ Handled(fh, dir, own, pos)
        /\ Writers(dir, own, pos, sectors, fh, sent) /\ Closes(dir)
  BY AtStart
<1>2. sectors \in Bytes /\ sent = [b \in Channels |-> sent[b]] /\ Known(dir) /\ Blanked(dir, sectors)
  BY Whole
<1>3. PICK h : h = fh[busy.c]
  OBVIOUS
<1>4. PICK f, i, j, max : f = h.entry /\ i = h.cur_entry /\ j = next_free_entry(i) /\ max = curentry_max_sectors(dir[i])
  OBVIOUS
<1>5. PICK s \in next_free_sector(h.cur_sector) \ {None} :
        /\ h.cur_sindex + 1 >= max /\ j # None
        /\ StoreSome([h EXCEPT !.cur_sector = s, !.cur_sindex = 0, !.cur_entry = j],
                     <<WriteEntry(i, [dir[i] EXCEPT !.next = j]), WriteEntry(j, NewList(s))>>)
  BY <1>3, <1>4 DEF WriteNewEntry
<1>6. WriteMore /\ h.cur_soffset = 0
  BY <1>3 DEF WriteNewEntry
<1>7. /\ h.filemode = "write" /\ h \in HandleType /\ dir[h.entry].kind = "name"
      /\ h.entry \in Live(dir) /\ h.cur_entry \in Live(dir) /\ own[h.cur_entry] = h.entry
      /\ dir[h.cur_entry].next = None /\ Filled(dir[h.cur_entry], h.cur_sindex + 1)
      /\ h.cur_sindex + 1 \in Nat /\ h.cur_sindex + 1 <= curentry_max_sectors(dir[h.cur_entry])
      /\ Fits(dir, own, pos, h.entry, h.size) /\ h.size \in Nat
      /\ h.cur_sector \in Sector \cup {None}
      /\ \E q \in 0 .. h.size : h.size = SectorSize * q + 0
  BY <1>1, <1>3, <1>6, AtEnd
<1>8. /\ i \in Live(dir) /\ own[i] = f /\ dir[i].next = None
      /\ dir[f].kind = "name" /\ f \in Live(dir) /\ i \in Entry /\ f \in Entry
      /\ max \in Nat /\ h.cur_sindex + 1 = max /\ Filled(dir[i], curentry_max_sectors(dir[i]))
  <2>1. i \in Live(dir) /\ own[i] = f /\ dir[i].next = None /\ Filled(dir[i], h.cur_sindex + 1)
        /\ dir[f].kind = "name" /\ f \in Live(dir) /\ i \in Entry /\ f \in Entry /\ max \in Nat
    BY <1>4, <1>7, MaxSectors DEF Live
  <2>2. h.cur_sindex + 1 = max
    BY <1>4, <1>5, <1>7, <2>1
  <2>3. QED BY <1>4, <2>1, <2>2
<1>9. /\ dir[i] \in EntryType /\ pos[i] \in Nat /\ Live(dir) \subseteq Entry
      /\ dir \in [Entry -> EntryType]
      /\ own \in [Entry -> Entry] /\ rank \in [Entry -> Nat] /\ pos \in [Entry -> Nat]
  BY <1>1, <1>8, FilesTyped
<1>10. Counted(used_sectors, free_sectors, used_entries, dir)
  BY <1>1 DEF Good
<1>11. s \in Sector /\ s \notin UsedOf(dir)
  <2>1. s \in Sector /\ s \notin used_sectors
    BY <1>5, <1>7, FreeSector
  <2>2. QED BY <1>10, <2>1 DEF Counted
<1>12. j \in Entry /\ j \notin Live(dir) /\ i # j
  <2>1. i \in Int
    BY <1>8 DEF Entry
  <2>2. j \in Entry /\ j \notin used_entries
    BY <1>4, <1>5, <2>1, FreeEntry
  <2>3. QED BY <1>8, <1>10, <2>2 DEF Counted
<1>13. PICK e : e = To(dir[i], j)
  OBVIOUS
<1>14. PICK d2, own2, rank2, pos2 :
         /\ d2 = Set(Set(dir, i, To(dir[i], j)), j, NewList(s))
         /\ own2 = Set(own, j, own[i]) /\ rank2 = Set(rank, j, rank[i] + 1)
         /\ pos2 = Set(pos, j, pos[i] + curentry_max_sectors(dir[i]))
  OBVIOUS
<1>15. PICK g : g = At(h, j, 0, s)
  OBVIOUS
<1>16. /\ Files(d2, own2, rank2, pos2)
       /\ Live(d2) = Live(dir) \cup {j} /\ UsedOf(d2) = UsedOf(dir) \cup {s}
       /\ Untouched(dir, own, pos, d2, own2, pos2, own[i])
       /\ \A z \in Nat, n \in 0 .. SectorSize :
            Fits(dir, own, pos, own[i], z) => Fits(d2, own2, pos2, own[i], z + n)
       /\ To(dir[i], j) \in EntryType /\ d2[j] = NewList(s) /\ own2[j] = own[i]
       /\ \A x \in Live(dir) : d2[x].kind = dir[x].kind
  <2>1. Files(dir, own, rank, pos) /\ i \in Live(dir) /\ dir[i].next = None /\ Filled(dir[i], curentry_max_sectors(dir[i]))
    BY <1>1, <1>8
  <2>2. QED BY ONLY <1>11, <1>12, <1>14, <2>1, EntryAdded
<1>17. /\ e.kind = dir[i].kind /\ e.name = dir[i].name /\ e.size = dir[i].size /\ e.sectors = dir[i].sectors
       /\ Listed(e) = Listed(dir[i])
  BY <1>9, <1>13, ToParts
<1>18. /\ NewList(s).kind = "list" /\ NewList(s).next = None /\ Filled(NewList(s), 1)
       /\ NewList(s).sectors[0] = s /\ Listed(NewList(s)) = {0}
  BY <1>11, NewListParts
<1>19. /\ d2[i] = e /\ \A x \in Entry : x # i /\ x # j => d2[x] = dir[x]
       /\ pos2[j] = pos[i] + max /\ \A x \in Entry : x # j => own2[x] = own[x] /\ pos2[x] = pos[x]
  BY <1>4, <1>8, <1>9, <1>12, <1>13, <1>14 DEF Set
<1>20. \A x \in Entry : x # j => d2[x].name = dir[x].name /\ d2[x].size = dir[x].size /\ d2[x].kind = dir[x].kind
  BY <1>17, <1>19
<1>21. Known(d2)
  <2>1. \A x \in Live(d2) : d2[x].kind = "name" =>
          x \in Live(dir) /\ dir[x].kind = "name" /\ d2[x].name = dir[x].name
    BY <1>9, <1>16, <1>18, <1>20
  <2>2. QED BY <1>2, <2>1, KnownToo
<1>22. /\ g \in HandleType /\ g.filemode = h.filemode /\ g.entry = h.entry /\ g.size = h.size
       /\ g.cur_offset = h.cur_offset /\ g.cur_soffset = h.cur_soffset
       /\ g.cur_sector = s /\ g.cur_entry = j /\ g.cur_sindex = 0
  <2>1. s \in Sector \cup {None} /\ 0 \in 0 .. ListSectors - 1
    BY <1>11, Constants
  <2>2. QED BY <1>7, <1>12, <1>15, <2>1, Goes
<1>23. StoreSome(g, <<WriteEntry(i, e), WriteEntry(j, NewList(s))>>)
  <2>1. [h EXCEPT !.cur_sector = s, !.cur_sindex = 0, !.cur_entry = j] = g
    BY <1>7, <1>15 DEF At, HandleType
  <2>2. [dir[i] EXCEPT !.next = j] = e
    BY <1>13 DEF To
  <2>3. QED BY <1>5, <2>1, <2>2
<1>24. busy.c \in Channels
  BY <1>1, <1>6, IsWriting DEF WriteMore
<1>25. Writer(dir, own, pos, sectors, h, sent[busy.c])
  BY <1>1, <1>3, <1>7, <1>24 DEF Writers
<1>26. PICK z, cells : z = h.size /\ cells = sent[busy.c].cells
  OBVIOUS
<1>27. z = SectorSize * (pos2[j] + 0) /\ Holds(dir, own, pos, sectors, f, z, cells) /\ pos2[j] \in Nat
  <2>1. h.size = SectorSize * (pos[i] + h.cur_sindex + 1)
    BY <1>4, <1>6, <1>25 DEF Writer, Ends
  <2>2. pos[i] + h.cur_sindex + 1 = pos2[j] + 0 /\ pos2[j] \in Nat
    <3>1. h.cur_sindex \in Int
      BY <1>7, Constants DEF HandleType
    <3>2. QED BY <1>8, <1>9, <1>19, <3>1
  <2>3. QED BY <1>4, <1>25, <1>26, <2>1, <2>2 DEF Writer
<1>28. Holds(d2, own2, pos2, sectors, f, z, cells)
  <2>1. \A o \in 0 .. SectorSize - 1 : ~ (ByteAt(pos2, j, 0, o) < z)
    BY <1>27, Beyond
  <2>2. ASSUME NEW x \in Live(d2), own2[x] = f, NEW k \in Listed(d2[x])
        PROVE  \/ /\ x \in Live(dir) /\ own[x] = f /\ k \in Listed(dir[x])
                  /\ dir[x].sectors[k] = d2[x].sectors[k] /\ pos2[x] = pos[x]
               \/ \A o \in 0 .. SectorSize - 1 : ~ (ByteAt(pos2, x, k, o) < z)
    <3>1. CASE x # i /\ x # j
      BY <1>9, <1>16, <1>19, <2>2, <3>1
    <3>2. CASE x = i
      BY <1>8, <1>12, <1>17, <1>19, <2>2, <3>2
    <3>3. CASE x = j
      BY <1>16, <1>18, <2>1, <2>2, <3>3
    <3>4. QED BY <3>1, <3>2, <3>3
  <2>3. PICK sec : sec = sectors
    OBVIOUS
  <2>4. Holds(dir, own, pos, sec, f, z, cells)
    BY <1>27, <2>3
  <2>5. Holds(d2, own2, pos2, sec, f, z, cells)
    BY ONLY <2>2, <2>4, HoldsThere
  <2>6. QED BY <2>3, <2>5
<1>29. Stored(<<WriteEntry(i, e), WriteEntry(j, NewList(s))>>, d2, own2, pos2, f, g)
  <2>1. /\ Good(dir, own, rank, pos) /\ queue = <<>> /\ WriteMore
        /\ Writers(dir, own, pos, sectors, fh, sent) /\ sectors \in Bytes /\ sent = [b \in Channels |-> sent[b]]
        /\ Files(d2, own2, rank2, pos2) /\ f = fh[busy.c].entry /\ Untouched(dir, own, pos, d2, own2, pos2, f)
        /\ f \in Live(d2) /\ d2[f].kind = "name" /\ d2[f].name = dir[f].name /\ d2[f].size = dir[f].size
    BY <1>1, <1>2, <1>3, <1>4, <1>6, <1>8, <1>12, <1>16, <1>20
  <2>2. /\ g \in HandleType /\ g.filemode = "write" /\ g.entry = f /\ g.size = fh[busy.c].size
        /\ g.cur_entry \in Live(d2) /\ own2[g.cur_entry] = f /\ g.cur_sindex \in Listed(d2[g.cur_entry])
        /\ g.cur_sector = d2[g.cur_entry].sectors[g.cur_sindex] /\ g.cur_sector \in Sector
    <3>1. /\ h.filemode = "write" /\ h.entry = f /\ h.size = fh[busy.c].size
          /\ j \in Live(d2) /\ own2[j] = f /\ 0 \in Listed(d2[j]) /\ d2[j].sectors[0] = s
      BY <1>3, <1>4, <1>7, <1>8, <1>16, <1>18
    <3>2. QED BY ONLY <1>11, <1>22, <3>1
  <2>3. g.size = SectorSize * (pos2[g.cur_entry] + g.cur_sindex) + g.cur_soffset
    <3>1. z \in Nat /\ g.size = z /\ g.cur_soffset = 0 /\ g.cur_entry = j /\ g.cur_sindex = 0
      BY <1>6, <1>7, <1>22, <1>26
    <3>2. z = z + 0
      BY <3>1
    <3>3. QED BY <1>27, <3>1, <3>2
  <2>4. \A y \in Live(dir) : own[y] # f => g.cur_sector \notin SectorsOf(dir[y])
    BY <1>11, <1>22 DEF UsedOf
  <2>5. /\ Holds(d2, own2, pos2, sectors, f, g.size, sent[busy.c].cells)
        /\ StoreSome(g, <<WriteEntry(i, e), WriteEntry(j, NewList(s))>>)
    BY <1>22, <1>23, <1>26, <1>28
  <2>6. QED BY ONLY <2>1, <2>2, <2>3, <2>4, <2>5, StoredMore
<1>30. PICK c \in Channels : \E w :
         /\ queue' = Append(<<WriteEntry(i, e), WriteEntry(j, NewList(s))>>, w) /\ IsData(w)
         /\ fh'[c].filemode = "write" /\ fh'[c].cur_entry = j /\ fh'[c].cur_sector = s
         /\ \A p : p[j] = pos2[j] => DataOf(w, d2, p, fh'[c], sent'[c])
         /\ Writers(d2, own2, pos2, After(sectors, w), fh', sent')
  BY <1>22, <1>29 DEF Stored
<1>31. PICK w :
         /\ queue' = Append(<<WriteEntry(i, e), WriteEntry(j, NewList(s))>>, w) /\ IsData(w)
         /\ fh'[c].filemode = "write" /\ fh'[c].cur_entry = j /\ fh'[c].cur_sector = s
         /\ \A p : p[j] = pos2[j] => DataOf(w, d2, p, fh'[c], sent'[c])
         /\ Writers(d2, own2, pos2, After(sectors, w), fh', sent')
  BY <1>30
<1>32. dir' = dir /\ sectors' = sectors /\ sent' = [b \in Channels |-> sent'[b]] /\ Closes(d2)'
  BY <1>29 DEF Stored
<1>33. queue' = <<WriteEntry(i, e), WriteEntry(j, NewList(s)), w>>
  BY <1>31, AppendThree
<1>34. Leads(dir', queue', d2)
  <2>1. dir[j].kind = "free" /\ dir[i].kind # "free" /\ e \in EntryType
    BY <1>8, <1>12, <1>13, <1>16 DEF Live
  <2>2. d2 = Set(Set(dir, i, e), j, NewList(s))
    BY <1>13, <1>14
  <2>3. QED BY <1>8, <1>11, <1>12, <1>31, <1>32, <1>33, <2>1, <2>2 DEF Leads
<1>35. Writers(d2, own2, pos2, Coming(sectors', queue'), fh', sent')
  <2>1. PICK q, sec : q = queue' /\ sec = sectors
    OBVIOUS
  <2>2. IsData(w) /\ q = <<WriteEntry(i, e), WriteEntry(j, NewList(s)), w>>
    BY <1>31, <1>33, <2>1
  <2>3. Coming(sec, q) = After(sec, w)
    BY ONLY <2>2, ComesLast
  <2>4. QED BY <1>31, <1>32, <2>1, <2>3
<1>36. ASSUME NEW p, \A y \in Live(d2) : d2[own2[y]].kind = "name" => p[y] = pos2[y]
       PROVE  Pending(d2, p)'
  <2>1. p[j] = pos2[j]
    BY <1>8, <1>16, <1>36
  <2>2. DataOf(w, d2, p, fh'[c], sent'[c])
    BY <1>31, <2>1
  <2>3. LinkDue(fh[c], sent[c], d2, p)'
    BY <1>8, <1>11, <1>12, <1>13, <1>31, <1>32, <1>33, <2>2 DEF LinkDue
  <2>4. QED BY <1>31, <2>3 DEF Pending, Due
<1>37. /\ sectors' \in Bytes /\ sent' = [b \in Channels |-> sent'[b]] /\ Known(dir') /\ Blanked(dir', sectors')
  BY <1>2, <1>32
<1>38. IInv' /\ Files(d2, own2, rank2, pos2) /\ Known(d2) /\ Closes(d2)'
  BY <1>16, <1>21, <1>32
<1>39. QED BY ONLY <1>34, <1>35, <1>36, <1>37, <1>38, Remains

-----------------------------------------------------------------------------
(***************************************************************************)
(* A write reaches the EEPROM.                                             *)
(***************************************************************************)
LEMMA FlushIs ==
  ASSUME Flush
  PROVE  /\ fh' = fh /\ sent' = sent /\ busy' = busy /\ queue # <<>> /\ queue' = Tail(queue)
         /\ \A i, e : Head(queue) = WriteEntry(i, e) =>
              /\ dir' = Set(dir, i, e)
              /\ sectors' = [s \in Sector |-> IF s \in UsedOf(dir') THEN sectors[s] ELSE Blank]
         /\ \A w : Head(queue) = w /\ IsData(w) => dir' = dir /\ sectors' = After(sectors, w)
<1>1. fh' = fh /\ sent' = sent /\ busy' = busy /\ queue # <<>> /\ queue' = Tail(queue)
  BY DEF Flush, hist
<1>2. ASSUME NEW i, NEW e, Head(queue) = WriteEntry(i, e)
      PROVE  /\ dir' = Set(dir, i, e)
             /\ sectors' = [s \in Sector |-> IF s \in UsedOf(dir') THEN sectors[s] ELSE Blank]
  <2>1. Head(queue).what = "entry" /\ Head(queue).at = i /\ Head(queue).entry = e
    BY <1>2, Writes
  <2>2. /\ dir' = [dir EXCEPT ![i] = e]
        /\ sectors' = [s \in Sector |->
             IF \E x \in Live(dir') : s \in SectorsOf(dir'[x]) THEN sectors[s] ELSE Blank]
    BY <2>1 DEF Flush, PutEntry
  <2>3. \A s : (\E x \in Live(dir') : s \in SectorsOf(dir'[x])) <=> s \in UsedOf(dir')
    BY DEF UsedOf
  <2>4. QED BY <2>2, <2>3 DEF Set
<1>3. ASSUME NEW w, Head(queue) = w, IsData(w)
      PROVE  dir' = dir /\ sectors' = After(sectors, w)
  BY <1>3 DEF Flush, PutEntry, PutData, IsData, After
<1>4. QED BY <1>1, <1>2, <1>3

LEMMA ComesSame ==
  ASSUME NEW sec \in Bytes, NEW sec2 \in Bytes, NEW s \in Sector, sec2[s] = sec[s], NEW q
  PROVE  Coming(sec2, q)[s] = Coming(sec, q)[s]
<1>1. ASSUME NEW w
      PROVE  After(sec2, w)[s] = After(sec, w)[s]
  <2>1. CASE s = w.at
    BY <2>1 DEF After, Bytes
  <2>2. CASE s # w.at
    BY <2>2 DEF After, Bytes
  <2>3. QED BY <2>1, <2>2
<1>2. QED BY <1>1 DEF Coming

LEMMA FlushedEntry ==
  ASSUME CInv, IInv', Flush, NEW i, NEW e, Head(queue) = WriteEntry(i, e),
         NEW d, NEW own, NEW rank, NEW pos, Leads(dir, queue, d), Good(d, own, rank, pos),
         Leads(dir', queue', d), Known(dir'), Coming(sectors', queue') = Coming(sectors', queue),
         \A s \in UsedOf(d) : s \in UsedOf(dir') \/ s \notin UsedOf(dir),
         \A pos2 : (\A x \in Live(d) : d[own[x]].kind = "name" => pos2[x] = pos[x]) => Pending(d, pos2)'
  PROVE  CInv'
<1>1. /\ Files(d, own, rank, pos) /\ Handled(fh, d, own, pos) /\ d \in [Entry -> EntryType]
      /\ Live(d) \subseteq Entry
  BY FilesTyped DEF Good
<1>2. Known(d) /\ Writers(d, own, pos, Coming(sectors, queue), fh, sent) /\ Closes(d)
  BY <1>1 DEF CInv, Kept
<1>3. sectors \in Bytes /\ sent = [c \in Channels |-> sent[c]] /\ Blanked(dir, sectors)
  BY Whole
<1>4. /\ fh' = fh /\ sent' = sent /\ busy' = busy
      /\ sectors' = [s \in Sector |-> IF s \in UsedOf(dir') THEN sectors[s] ELSE Blank]
  BY FlushIs
<1>5. \A s \in Sector : sectors'[s] = IF s \in UsedOf(dir') THEN sectors[s] ELSE Blank
  BY <1>4
<1>6. sectors' \in Bytes
  BY <1>3, <1>4, Blanks DEF Bytes
<1>7. Blanked(dir', sectors')
  BY <1>5 DEF Blanked
<1>8. PICK sec2, now : sec2 = sectors' /\ now = Coming(sectors', queue')
  OBVIOUS
<1>9. SameBytes(d, own, None, Coming(sectors, queue), now)
  <2>1. ASSUME NEW x \in Live(d), NEW k \in Listed(d[x])
        PROVE  now[d[x].sectors[k]] = Coming(sectors, queue)[d[x].sectors[k]]
    <3>1. d[x] \in EntryType /\ k \in Slot /\ d[x].sectors[k] # None
      BY <1>1, MaxSectors DEF Listed
    <3>2. PICK s : s = d[x].sectors[k]
      OBVIOUS
    <3>3. s \in Sector /\ s \in UsedOf(d)
      BY <3>1, <3>2, EntryParts DEF UsedOf, SectorsOf
    <3>4. sec2[s] = sectors[s]
      BY <1>3, <1>5, <1>8, <3>3 DEF Blanked
    <3>5. now = Coming(sec2, queue)
      BY <1>8
    <3>6. Coming(sec2, queue)[s] = Coming(sectors, queue)[s]
      BY <1>3, <1>6, <1>8, <3>3, <3>4, ComesSame
    <3>7. QED BY <3>2, <3>5, <3>6
  <2>2. QED BY <2>1 DEF SameBytes
<1>10. Writers(d, own, pos, now, fh, sent)
  <2>1. \A b \in Channels : fh[b].filemode = "write" => fh[b].entry # None
    BY <1>1, Constants DEF Handled, HandleType, Entry
  <2>2. PICK was : was = Coming(sectors, queue)
    OBVIOUS
  <2>3. SameBytes(d, own, None, was, now) /\ Writers(d, own, pos, was, fh, sent)
        /\ Untouched(d, own, pos, d, own, pos, None)
    BY <1>2, <1>9, <2>2, SameUntouched
  <2>4. QED BY ONLY <1>1, <2>1, <2>3, WritersStay
<1>11. Writers(d, own, pos, Coming(sectors', queue'), fh', sent')
  BY <1>4, <1>8, <1>10
<1>12. Closes(d)'
  BY <1>2, <1>4 DEF Closes
<1>13. /\ sectors' \in Bytes /\ sent' = [c \in Channels |-> sent'[c]] /\ Known(dir') /\ Blanked(dir', sectors')
  BY <1>3, <1>4, <1>6, <1>7
<1>14. IInv' /\ Files(d, own, rank, pos) /\ Known(d) /\ Leads(dir', queue', d)
  BY <1>1, <1>2
<1>15. \A pos2 : (\A x \in Live(d) : d[own[x]].kind = "name" => pos2[x] = pos[x]) => Pending(d, pos2)'
  OBVIOUS
<1>16. QED BY ONLY <1>11, <1>12, <1>13, <1>14, <1>15, Remains

LEMMA DataToo ==
  ASSUME NEW w, NEW d, NEW pos, NEW h, NEW s, DataOf(w, d, pos, h, s), NEW p, p[h.cur_entry] = pos[h.cur_entry]
  PROVE  DataOf(w, d, p, h, s)
BY DEF DataOf

LEMMA FlushedLast ==
  ASSUME CInv, IInv', Flush, NEW i, NEW e, queue = <<WriteEntry(i, e)>>,
         NEW d, NEW own, NEW rank, NEW pos, Leads(dir, queue, d), Good(d, own, rank, pos)
  PROVE  CInv'
<1>1. Head(queue) = WriteEntry(i, e) /\ Tail(queue) = <<>>
  OBVIOUS
<1>2. queue' = <<>> /\ dir' = Set(dir, i, e)
  BY <1>1, FlushIs
<1>3. dir' = d
  BY <1>2, LeadsOnly
<1>4. Known(dir')
  BY <1>3 DEF CInv, Kept, Good
<1>5. Leads(dir', queue', d)
  BY <1>2, <1>3 DEF Leads
<1>6. Coming(sectors', queue') = Coming(sectors', queue)
  <2>1. Coming(sectors', queue) = sectors'
    BY NoData
  <2>2. QED BY <1>2, <2>1 DEF Coming
<1>7. \A s \in UsedOf(d) : s \in UsedOf(dir') \/ s \notin UsedOf(dir)
  BY <1>3
<1>8. \A pos2 : Pending(d, pos2)'
  BY <1>2 DEF Pending
<1>9. QED BY <1>1, <1>4, <1>5, <1>6, <1>7, <1>8, FlushedEntry

LEMMA FlushedBefore ==
  ASSUME CInv, IInv', Flush, NEW i, NEW e, NEW w, queue = <<WriteEntry(i, e), w>>,
         NEW d, NEW own, NEW rank, NEW pos, Leads(dir, queue, d), Good(d, own, rank, pos),
         NEW c \in Channels, fh[c].filemode = "write", DataOf(w, d, pos, fh[c], sent[c])
  PROVE  CInv'
<1>1. Head(queue) = WriteEntry(i, e) /\ Tail(queue) = <<w>> /\ IsData(w)
  BY DataIsData
<1>2. queue' = <<w>> /\ dir' = Set(dir, i, e) /\ fh' = fh /\ sent' = sent
  BY <1>1, FlushIs
<1>3. dir' = d
  BY <1>1, <1>2, LeadsOnly
<1>4. Known(dir')
  BY <1>3 DEF CInv, Kept, Good
<1>5. Leads(dir', queue', d)
  BY <1>1, <1>2, <1>3 DEF Leads
<1>6. Coming(sectors', queue') = Coming(sectors', queue)
  <2>1. PICK q, q2, sec : q = queue /\ q2 = queue' /\ sec = sectors'
    OBVIOUS
  <2>2. q = <<WriteEntry(i, e), w>> /\ q2 = <<w>> /\ IsData(w)
    BY <1>1, <1>2, <2>1
  <2>3. Coming(sec, q) = After(sec, w)
    BY ONLY <2>2, ComesLast
  <2>4. Coming(sec, q2) = After(sec, w)
    BY ONLY <2>2, ComesLast
  <2>5. QED BY <2>1, <2>3, <2>4
<1>7. \A s \in UsedOf(d) : s \in UsedOf(dir') \/ s \notin UsedOf(dir)
  BY <1>3
<1>8. ASSUME NEW pos2, \A x \in Live(d) : d[own[x]].kind = "name" => pos2[x] = pos[x]
      PROVE  Pending(d, pos2)'
  <2>1. pos2[fh[c].cur_entry] = pos[fh[c].cur_entry]
    BY <1>8 DEF Good, Handled, Opened
  <2>2. DataOf(w, d, pos2, fh[c], sent[c])
    BY <2>1, DataToo
  <2>3. DataDue(fh[c], sent[c], d, pos2)'
    BY <1>2, <2>2 DEF DataDue
  <2>4. fh'[c].filemode = "write"
    BY <1>2
  <2>5. QED BY <2>3, <2>4 DEF Pending, Due
<1>9. QED BY <1>1, <1>4, <1>5, <1>6, <1>7, <1>8, FlushedEntry

(* The link is written; the entry it leads to is next.                      *)
LEMMA FlushedLink ==
  ASSUME IInv, CInv, IInv', Flush,
         NEW d, NEW own, NEW rank, NEW pos, Leads(dir, queue, d), Good(d, own, rank, pos),
         NEW c \in Channels, fh[c].filemode = "write", NEW j, j = fh[c].cur_entry,
         NEW s \in Sector, s = fh[c].cur_sector, j \notin Live(dir),
         NEW i \in Live(dir), dir[i].next = None, NEW w, DataOf(w, d, pos, fh[c], sent[c]),
         queue = <<WriteEntry(i, To(dir[i], j)), WriteEntry(j, NewList(s)), w>>
  PROVE  CInv'
<1> DEFINE e == To(dir[i], j)
<1>1. Head(queue) = WriteEntry(i, e) /\ Tail(queue) = <<WriteEntry(j, NewList(s)), w>> /\ IsData(w)
  BY DataIsData
<1>2. queue' = <<WriteEntry(j, NewList(s)), w>> /\ dir' = Set(dir, i, e) /\ fh' = fh /\ sent' = sent
  BY <1>1, FlushIs
<1>3. d = Set(dir', j, NewList(s))
  <2>1. d = Set(Set(dir, i, e), j, NewList(s))
    BY LeadsOnly
  <2>2. QED BY <1>2, <2>1
<1>4. /\ dir \in [Entry -> EntryType] /\ i \in Entry /\ j \in Entry /\ i # j /\ dir[i] \in EntryType
      /\ dir[i].kind # "free" /\ j \in Live(d)
  BY DEF IInv, Live, Good, Handled, Opened
<1>5. e.kind = dir[i].kind /\ e.name = dir[i].name /\ e.sectors = dir[i].sectors /\ Listed(e) = Listed(dir[i])
  BY <1>4, ToParts
<1>6. \A x \in Entry : /\ dir'[x].kind = dir[x].kind /\ dir'[x].name = dir[x].name
                       /\ dir'[x].sectors = dir[x].sectors /\ Listed(dir'[x]) = Listed(dir[x])
                       /\ x # i => dir'[x] = dir[x]
  BY <1>2, <1>4, <1>5 DEF Set
<1>7. Live(dir') = Live(dir) /\ UsedOf(dir') = UsedOf(dir)
  <2>1. Live(dir') = Live(dir) /\ Live(dir) \subseteq Entry
    BY <1>6 DEF Live
  <2>2. \A x \in Live(dir) : SectorsOf(dir'[x]) = SectorsOf(dir[x])
    BY <1>6, <2>1 DEF SectorsOf
  <2>3. QED BY <2>1, <2>2 DEF UsedOf
<1>8. Known(dir')
  <2>1. Known(dir)
    BY Whole
  <2>2. PICK d1 : d1 = dir'
    OBVIOUS
  <2>3. \A x \in Live(d1) : d1[x].kind = "name" => x \in Live(dir) /\ dir[x].kind = "name" /\ d1[x].name = dir[x].name
    BY <1>6, <1>7, <2>2 DEF Live
  <2>4. Known(d1)
    BY <2>1, <2>3, KnownToo
  <2>5. QED BY <2>2, <2>4
<1>9. Leads(dir', queue', d)
  <2>1. NewList(s) \in EntryType
    BY NewEntries
  <2>2. QED BY <1>1, <1>2, <1>3, <1>4, <2>1 DEF Leads
<1>10. Coming(sectors', queue') = Coming(sectors', queue)
  <2>1. PICK q, q2, sec : q = queue /\ q2 = queue' /\ sec = sectors'
    OBVIOUS
  <2>2. q = <<WriteEntry(i, e), WriteEntry(j, NewList(s)), w>> /\ q2 = <<WriteEntry(j, NewList(s)), w>> /\ IsData(w)
    BY <1>1, <1>2, <2>1
  <2>3. Coming(sec, q) = After(sec, w)
    BY ONLY <2>2, ComesLast
  <2>4. Coming(sec, q2) = After(sec, w)
    BY ONLY <2>2, ComesLast
  <2>5. QED BY <2>1, <2>3, <2>4
<1>11. \A t \in UsedOf(d) : t \in UsedOf(dir') \/ t \notin UsedOf(dir)
  BY <1>7
<1>12. ~ Linking
  BY <1>1, <1>4, <1>5, Writes DEF Linking
<1>13. PICK was : was = dir /\ Sound(was)
  BY <1>12 DEF IInv
<1>14. ASSUME NEW pos2, \A x \in Live(d) : d[own[x]].kind = "name" => pos2[x] = pos[x]
       PROVE  Pending(d, pos2)'
  <2>1. pos2[fh[c].cur_entry] = pos[fh[c].cur_entry]
    BY <1>14 DEF Good, Handled, Opened
  <2>2. DataOf(w, d, pos2, fh[c], sent[c])
    BY <2>1, DataToo
  <2>3. i \in Live(was) /\ was[i].next = None /\ dir' = Set(was, i, To(was[i], fh'[c].cur_entry))
    BY <1>2, <1>13
  <2>4. fh'[c].cur_entry \notin Live(dir') /\ fh'[c].cur_sector \in Sector
    BY <1>2, <1>7
  <2>5. DataOf(w, d, pos2, fh'[c], sent'[c]) /\ queue' = <<WriteEntry(fh'[c].cur_entry, NewList(fh'[c].cur_sector)), w>>
    BY <1>2, <2>2
  <2>6. ListDue(fh[c], sent[c], d, pos2)'
    BY <1>13, <2>3, <2>4, <2>5 DEF ListDue
  <2>7. fh'[c].filemode = "write"
    BY <1>2
  <2>8. QED BY <2>6, <2>7 DEF Pending, Due
<1>15. CInv /\ IInv' /\ Flush /\ Leads(dir, queue, d) /\ Good(d, own, rank, pos)
  OBVIOUS
<1> HIDE DEF e
<1>16. QED BY <1>1, <1>8, <1>9, <1>10, <1>11, <1>14, <1>15, FlushedEntry

(* The first z bytes of a file are the same.                                *)
Alike(d, own, pos, e, z, sec1, sec2) ==
  \A x \in Live(d) : own[x] = e =>
    \A i \in Listed(d[x]), o \in 0 .. SectorSize - 1 :
      ByteAt(pos, x, i, o) < z => sec2[d[x].sectors[i]][o] = sec1[d[x].sectors[i]][o]

(* Where a channel that has data under way writes it.                       *)
LEMMA WriterPlace ==
  ASSUME NEW d, NEW own, NEW rank, NEW pos, Files(d, own, rank, pos), Handled(fh, d, own, pos),
         NEW c \in Channels, NEW h, h = fh[c], h.filemode = "write",
         NEW n \in 1 .. SectorSize, d[h.entry].size + n <= h.size
  PROVE  /\ h.cur_entry \in Live(d) /\ own[h.cur_entry] = h.entry
         /\ h.cur_sindex \in Listed(d[h.cur_entry]) /\ h.cur_sector = d[h.cur_entry].sectors[h.cur_sindex]
         /\ h.cur_sector \in Sector /\ h.size \in Nat /\ d[h.entry].size \in Nat /\ n \in Nat /\ n <= h.size
<1>1. d \in [Entry -> EntryType]
  BY FilesTyped
<1>2. PICK x, i : x = h.cur_entry /\ i = h.cur_sindex
  OBVIOUS
<1>3. /\ h \in HandleType /\ Opened(d, own, pos, h) /\ h.entry \in Entry
      /\ h.size \in Nat /\ i \in -1 .. ListSectors - 1
  BY <1>2 DEF Handled, HandleType
<1>4. WritesAt(d, own, pos, h) /\ x \in Live(d) /\ own[x] = h.entry
  BY <1>2, <1>3 DEF Opened
<1>5. d[h.entry].size \in Nat
  <2>1. d[h.entry] \in EntryType
    BY <1>1, <1>3
  <2>2. d[h.entry].size \in 0 .. Sectors * SectorSize /\ Sectors * SectorSize \in Nat
    BY <2>1, EntryParts, Constants
  <2>3. QED BY <2>2
<1>6. n \in Nat \ {0} /\ n <= h.size
  <2>1. n \in Nat \ {0}
    BY Constants
  <2>2. PICK m \in Nat : m = d[h.entry].size
    BY <1>5
  <2>3. PICK z \in Nat : z = h.size
    BY <1>3
  <2>4. m + n <= z
    BY <2>2, <2>3
  <2>5. n <= z
    BY <2>1, <2>4
  <2>6. QED BY <2>1, <2>3, <2>5
<1>7. i >= 0 /\ i \in Int
  <2>1. i # -1
    BY <1>2, <1>3, <1>4, <1>6 DEF WritesAt
  <2>2. QED BY <1>3, <2>1
<1>8. Filled(d[x], i + 1) /\ h.cur_sector = d[x].sectors[i]
  BY <1>2, <1>4, <1>7 DEF WritesAt
<1>9. i \in Listed(d[x]) /\ h.cur_sector \in Sector
  BY <1>4, <1>7, <1>8, LastSector
<1>10. QED BY <1>2, <1>3, <1>4, <1>5, <1>6, <1>8, <1>9

LEMMA PartTyped ==
  ASSUME NEW cells \in Seq(CellType), NEW z \in Nat, Len(cells) = z, NEW n \in Nat, n <= z
  PROVE  Part(cells, z - n, n) \in Seq(CellType)
<1>1. \A k \in 1 .. n : cells[z - n + k] \in CellType
  <2>1. \A k \in 1 .. z : cells[k] \in CellType
    BY ElementOfSeq
  <2>2. \A k \in 1 .. n : z - n + k \in 1 .. z
    OBVIOUS
  <2>3. QED BY <2>1, <2>2
<1>2. Part(cells, z - n, n) \in [1 .. n -> CellType]
  BY <1>1 DEF Part
<1>3. QED BY <1>2

(* The data under way, or a first part of it, goes behind the bytes that the *)
(* entry of its file counts.                                               *)
LEMMA DataGoes ==
  ASSUME NEW d, NEW own, NEW rank, NEW pos, Files(d, own, rank, pos), Handled(fh, d, own, pos),
         sectors \in Bytes, Blanked(d, sectors), NEW c \in Channels, fh[c].filemode = "write",
         sent[c].cells \in Seq(CellType), Len(sent[c].cells) = fh[c].size,
         NEW w, DataOf(w, d, pos, fh[c], sent[c]),
         NEW v, v = w \/ \E k \in 1 .. Len(w.data) - 1 : v = WriteData(w.at, w.offset, SubSeq(w.data, 1, k)),
         NEW now, now = After(sectors, v)
  PROVE  now \in Bytes /\ Blanked(d, now) /\ \A f \in Live(d) : Alike(d, own, pos, f, d[f].size, sectors, now)
<1>1. d \in [Entry -> EntryType] /\ pos \in [Entry -> Nat] /\ Neat(d)
  BY FilesTyped DEF Files
<1>2. PICK h, s : h = fh[c] /\ s = sent[c]
  OBVIOUS
<1>3. PICK x, i, u : x = h.cur_entry /\ i = h.cur_sindex /\ u = h.cur_sector
  OBVIOUS
<1>4. PICK n \in 1 .. SectorSize, o \in 0 .. SectorSize - 1 :
        /\ o + n <= SectorSize /\ d[h.entry].size + n <= h.size
        /\ h.size = SectorSize * (pos[x] + i) + o + n
        /\ w = WriteData(u, o, Part(s.cells, h.size - n, n))
  BY <1>2, <1>3 DEF DataOf
<1>5. /\ x \in Live(d) /\ own[x] = h.entry /\ i \in Listed(d[x]) /\ u = d[x].sectors[i] /\ u \in Sector
      /\ h.size \in Nat /\ d[h.entry].size \in Nat /\ n \in Nat /\ n <= h.size
  BY <1>2, <1>3, <1>4, WriterPlace
<1>6. PICK all \in Seq(CellType) : w = WriteData(u, o, all)
  <2>1. PICK cells, z : cells = s.cells /\ z = h.size
    OBVIOUS
  <2>2. cells \in Seq(CellType) /\ z \in Nat /\ Len(cells) = z /\ n \in Nat /\ n <= z
    BY <1>2, <1>5, <2>1
  <2>3. Part(cells, z - n, n) \in Seq(CellType)
    BY ONLY <2>2, PartTyped
  <2>4. QED BY <1>4, <2>1, <2>3
<1>7. PICK data \in Seq(CellType) : v = WriteData(u, o, data)
  <2>1. CASE v = w
    BY <1>6, <2>1
  <2>2. CASE v # w
    <3>1. w.at = u /\ w.offset = o /\ w.data = all
      BY <1>6, Writes
    <3>2. PICK k \in 1 .. Len(all) - 1 : v = WriteData(u, o, SubSeq(all, 1, k))
      BY <2>2, <3>1
    <3>3. SubSeq(all, 1, k) \in Seq(CellType)
      BY LenProperties, SubSeqProperties
    <3>4. QED BY <3>2, <3>3
  <2>3. QED BY <2>1, <2>2
<1>8. PICK was : was = sectors
  OBVIOUS
<1>9. /\ now \in Bytes /\ \A t \in Sector \ {u} : now[t] = was[t]
      /\ \A p \in 0 .. SectorSize - 1 : p < o => now[u][p] = was[u][p]
  <2>1. /\ now \in Bytes /\ \A t \in Sector \ {u} : now[t] = was[t]
        /\ \A p \in 0 .. SectorSize - 1 :
              now[u][p] = IF p - o \in 0 .. Len(data) - 1 THEN data[p - o + 1] ELSE was[u][p]
    <3>1. now = After(was, v) /\ v = WriteData(u, o, data)
      BY <1>7, <1>8
    <3>2. was \in Bytes /\ u \in Sector /\ o \in 0 .. SectorSize - 1 /\ data \in Seq(CellType)
      BY <1>5, <1>7, <1>8
    <3>3. /\ After(was, v) \in Bytes /\ \A t \in Sector \ {u} : After(was, v)[t] = was[t]
          /\ \A p \in 0 .. SectorSize - 1 :
                After(was, v)[u][p] = IF p - o \in 0 .. Len(data) - 1 THEN data[p - o + 1] ELSE was[u][p]
      BY <3>1, <3>2, Written, SMTT(30)
    <3>4. QED BY ONLY <3>1, <3>3
  <2>2. \A p \in 0 .. SectorSize - 1 : p < o => p - o \notin 0 .. Len(data) - 1
    BY Constants
  <2>3. QED BY <2>1, <2>2
<1>10. Blanked(d, now)
  <2>1. u \in UsedOf(d)
    BY <1>5 DEF UsedOf, SectorsOf
  <2>2. QED BY <1>8, <1>9, <2>1 DEF Blanked
<1>11. ASSUME NEW f \in Live(d)
       PROVE  Alike(d, own, pos, f, d[f].size, was, now)
  <2>1. ASSUME NEW y \in Live(d), own[y] = f, NEW j \in Listed(d[y]), NEW p \in 0 .. SectorSize - 1,
               ByteAt(pos, y, j, p) < d[f].size
        PROVE  now[d[y].sectors[j]][p] = was[d[y].sectors[j]][p]
    <3>1. d[y].sectors[j] \in Sector
      <4>1. d[y] \in EntryType /\ j \in Slot /\ d[y].sectors[j] # None
        BY <1>1, MaxSectors DEF Listed, Live
      <4>2. QED BY <4>1, EntryParts
    <3>2. CASE d[y].sectors[j] # u
      BY <1>9, <3>1, <3>2
    <3>3. CASE d[y].sectors[j] = u
      <4>1. y = x /\ j = i
        BY <1>1, <1>5, <3>3, OneSlot
      <4>2. f = h.entry
        BY <1>5, <2>1, <4>1
      <4>3. PICK a, z, size : a = SectorSize * (pos[x] + i) /\ z = d[f].size /\ size = h.size
        OBVIOUS
      <4>4. a + p < z
        BY <2>1, <4>1, <4>3 DEF ByteAt
      <4>5. a \in Int
        BY <1>1, <1>5, <4>3, Constants DEF Listed, Live
      <4>6. z + n <= size /\ size = a + o + n /\ z \in Nat /\ size \in Nat
        BY <1>4, <1>5, <4>2, <4>3
      <4>7. n \in Nat /\ o \in Nat /\ p \in Nat
        BY Constants
      <4>8. p < o
        BY ONLY <4>4, <4>5, <4>6, <4>7
      <4>9. QED BY <1>9, <3>3, <4>8
    <3>4. QED BY <3>2, <3>3
  <2>2. QED BY <2>1 DEF Alike
<1>12. QED BY <1>8, <1>9, <1>10, <1>11

LEMMA FlushedData ==
  ASSUME CInv, IInv', Flush, NEW w, queue = <<w>>,
         NEW d, NEW own, NEW rank, NEW pos, Leads(dir, queue, d), Good(d, own, rank, pos),
         NEW c \in Channels, fh[c].filemode = "write", DataOf(w, d, pos, fh[c], sent[c])
  PROVE  CInv'
<1>1. Head(queue) = w /\ Tail(queue) = <<>> /\ IsData(w)
  BY DataIsData
<1>2. /\ queue' = <<>> /\ dir' = dir /\ sectors' = After(sectors, w)
      /\ fh' = fh /\ sent' = sent /\ busy' = busy
  BY <1>1, FlushIs
<1>3. d = dir
  BY <1>1, LeadsOnly
<1>4. /\ Files(d, own, rank, pos) /\ Handled(fh, d, own, pos) /\ d \in [Entry -> EntryType]
      /\ pos \in [Entry -> Nat]
  BY FilesTyped DEF Good
<1>5. Known(d) /\ Writers(d, own, pos, Coming(sectors, queue), fh, sent) /\ Closes(d)
  BY <1>4 DEF CInv, Kept
<1>6. sectors \in Bytes /\ sent = [b \in Channels |-> sent[b]] /\ Known(dir) /\ Blanked(dir, sectors)
  BY Whole
<1>7. sent[c].cells \in Seq(CellType) /\ Len(sent[c].cells) = fh[c].size /\ Blanked(d, sectors)
  BY <1>3, <1>5, <1>6 DEF Writers, Writer
<1>8. PICK now : now = After(sectors, w)
  OBVIOUS
<1>9. now \in Bytes /\ Blanked(d, now)
  BY <1>4, <1>6, <1>7, <1>8, DataGoes
<1>10. Writers(d, own, pos, Coming(sectors', queue'), fh', sent')
  <2>1. PICK q, was : q = queue /\ was = sectors
    OBVIOUS
  <2>2. IsData(w) /\ q = <<w>>
    BY <1>1, <2>1
  <2>3. Coming(was, q) = After(was, w)
    BY ONLY <2>2, ComesLast
  <2>4. Coming(sectors', queue') = Coming(sectors, queue)
    BY <1>2, <2>1, <2>3 DEF Coming
  <2>5. QED BY <1>2, <1>5, <2>4
<1>11. Leads(dir', queue', d)
  BY <1>2, <1>3 DEF Leads
<1>12. Closes(d)'
  BY <1>2, <1>5 DEF Closes
<1>13. \A pos2 : (\A y \in Live(d) : d[own[y]].kind = "name" => pos2[y] = pos[y]) => Pending(d, pos2)'
  BY <1>2 DEF Pending
<1>14. /\ sectors' \in Bytes /\ sent' = [b \in Channels |-> sent'[b]] /\ Known(dir') /\ Blanked(dir', sectors')
  BY <1>2, <1>3, <1>6, <1>8, <1>9
<1>15. IInv' /\ Files(d, own, rank, pos) /\ Known(d)
  BY <1>4, <1>5
<1>16. QED BY ONLY <1>10, <1>11, <1>12, <1>13, <1>14, <1>15, Remains

LEMMA FlushContents ==
  ASSUME IInv, CInv, IInv', Flush
  PROVE  CInv'
<1>1. PICK d : Leads(dir, queue, d) /\ \E own, rank, pos : Good(d, own, rank, pos)
  BY DEF IInv
<1>2. PICK own, rank, pos : Good(d, own, rank, pos)
  BY <1>1
<1>3. Pending(d, pos)
  BY <1>1, <1>2 DEF CInv, Kept, Good
<1>4. queue # <<>>
  BY FlushIs
<1>5. CASE NameDue
  <2>1. PICK i, e : queue = <<WriteEntry(i, e)>>
    BY <1>5 DEF NameDue
  <2>2. QED BY <1>1, <1>2, <2>1, FlushedLast
<1>6. CASE EraseDue
  <2>1. PICK i, e : queue = <<WriteEntry(i, e)>>
    BY <1>6 DEF EraseDue
  <2>2. QED BY <1>1, <1>2, <2>1, FlushedLast
<1>7. ASSUME NEW c \in Channels, fh[c].filemode = "write", Due(fh[c], sent[c], d, pos)
      PROVE  CInv'
  <2> DEFINE h == fh[c]
             s == sent[c]
  <2>1. CASE NewDue(h, s)
    <3>1. PICK i, e : queue = <<WriteEntry(i, e)>>
      BY <2>1 DEF NewDue
    <3>2. QED BY <1>1, <1>2, <3>1, FlushedLast
  <2>2. CASE SizeDue(h)
    <3>1. PICK i, e : queue = <<WriteEntry(i, e)>>
      BY <2>2 DEF SizeDue
    <3>2. QED BY <1>1, <1>2, <3>1, FlushedLast
  <2>3. CASE DataDue(h, s, d, pos)
    <3>1. PICK w : DataOf(w, d, pos, h, s) /\ queue = <<w>>
      BY <2>3 DEF DataDue
    <3>2. QED BY <1>1, <1>2, <1>7, <3>1, FlushedData
  <2>4. CASE SectorDue(h, s, d, pos)
    <3>1. PICK w : /\ DataOf(w, d, pos, h, s)
                   /\ queue = <<WriteEntry(h.cur_entry, With(dir[h.cur_entry], h.cur_sindex, h.cur_sector)), w>>
      BY <2>4 DEF SectorDue
    <3>2. PICK i, e : queue = <<WriteEntry(i, e), w>>
      BY <3>1
    <3>3. QED BY <1>1, <1>2, <1>7, <3>1, <3>2, FlushedBefore
  <2>5. CASE LinkDue(h, s, d, pos)
    <3>1. h.cur_entry \notin Live(dir) /\ h.cur_sector \in Sector
      BY <2>5 DEF LinkDue
    <3>2. PICK i \in Live(dir) : \E w :
            /\ dir[i].next = None /\ DataOf(w, d, pos, h, s)
            /\ queue = <<WriteEntry(i, To(dir[i], h.cur_entry)), WriteEntry(h.cur_entry, NewList(h.cur_sector)), w>>
      BY <2>5 DEF LinkDue
    <3>3. PICK w :
            /\ dir[i].next = None /\ DataOf(w, d, pos, h, s)
            /\ queue = <<WriteEntry(i, To(dir[i], h.cur_entry)), WriteEntry(h.cur_entry, NewList(h.cur_sector)), w>>
      BY <3>2
    <3>4. PICK j, b : j = h.cur_entry /\ b = h.cur_sector
      OBVIOUS
    <3>5. /\ j = fh[c].cur_entry /\ b \in Sector /\ b = fh[c].cur_sector /\ j \notin Live(dir)
          /\ i \in Live(dir) /\ dir[i].next = None /\ DataOf(w, d, pos, fh[c], sent[c])
          /\ queue = <<WriteEntry(i, To(dir[i], j)), WriteEntry(j, NewList(b)), w>>
      BY <3>1, <3>3, <3>4
    <3>6. QED BY <1>1, <1>2, <1>7, <3>5, FlushedLink
  <2>6. CASE ListDue(h, s, d, pos)
    <3>1. PICK w : DataOf(w, d, pos, h, s) /\ queue = <<WriteEntry(h.cur_entry, NewList(h.cur_sector)), w>>
      BY <2>6 DEF ListDue
    <3>2. PICK i, e : queue = <<WriteEntry(i, e), w>>
      BY <3>1
    <3>3. QED BY <1>1, <1>2, <1>7, <3>1, <3>2, FlushedBefore
  <2>7. QED BY <1>7, <2>1, <2>2, <2>3, <2>4, <2>5, <2>6 DEF Due
<1>8. QED BY <1>3, <1>4, <1>5, <1>6, <1>7 DEF Pending

-----------------------------------------------------------------------------
(***************************************************************************)
(* A power failure.                                                        *)
(***************************************************************************)
(* Data that is written next is all that is under way.                      *)
LEMMA DataAlone ==
  ASSUME IInv, CInv, queue # <<>>, IsData(Head(queue))
  PROVE  \E d, own, rank, pos, w : \E c \in Channels :
           /\ Leads(dir, queue, d) /\ Good(d, own, rank, pos) /\ d = dir
           /\ fh[c].filemode = "write" /\ DataOf(w, d, pos, fh[c], sent[c]) /\ queue = <<w>>
<1>1. PICK d, own, rank, pos : Leads(dir, queue, d) /\ Good(d, own, rank, pos)
  BY DEF IInv
<1>2. Pending(d, pos)
  BY <1>1 DEF CInv, Kept, Good
<1>3. \A i, e, v, w : /\ queue # <<WriteEntry(i, e)>> /\ queue # <<WriteEntry(i, e), v>>
                      /\ queue # <<WriteEntry(i, e), v, w>>
  <2>1. \A v, w, x : Head(<<x>>) = x /\ Head(<<x, v>>) = x /\ Head(<<x, v, w>>) = x
    OBVIOUS
  <2>2. \A i, e : Head(queue) # WriteEntry(i, e)
    BY Writes
  <2>3. QED BY <2>1, <2>2
<1>4. ~ NameDue /\ ~ EraseDue
  BY <1>3 DEF NameDue, EraseDue
<1>5. PICK c \in Channels : fh[c].filemode = "write" /\ Due(fh[c], sent[c], d, pos)
  BY <1>2, <1>4 DEF Pending
<1>6. /\ ~ NewDue(fh[c], sent[c]) /\ ~ SizeDue(fh[c]) /\ ~ SectorDue(fh[c], sent[c], d, pos)
      /\ ~ LinkDue(fh[c], sent[c], d, pos) /\ ~ ListDue(fh[c], sent[c], d, pos)
  BY <1>3 DEF NewDue, SizeDue, SectorDue, LinkDue, ListDue
<1>7. PICK w : DataOf(w, d, pos, fh[c], sent[c]) /\ queue = <<w>>
  BY <1>5, <1>6 DEF Due, DataDue
<1>8. d = dir
  BY <1>1, <1>7, LeadsOnly, DataIsData
<1>9. QED BY <1>1, <1>5, <1>7, <1>8

(* A first part of the data reaches its sector.                             *)
LEMMA DataTorn ==
  ASSUME Tear, IsData(Head(queue)), NEW w, queue = <<w>>
  PROVE  /\ dir' = dir
         /\ \E k \in 1 .. Len(w.data) - 1 :
              sectors' = After(sectors, WriteData(w.at, w.offset, SubSeq(w.data, 1, k)))
<1>1. w.what = "data" /\ Head(queue) = w
  BY DEF IsData
<1>2. PICK k \in 1 .. Len(w.data) - 1 : PutData(w.at, w.offset, SubSeq(w.data, 1, k))
  BY <1>1 DEF Tear
<1>3. PICK part : part = SubSeq(w.data, 1, k)
  OBVIOUS
<1>4. PICK v : v = WriteData(w.at, w.offset, part)
  OBVIOUS
<1>5. v.at = w.at /\ v.offset = w.offset /\ v.data = part
  BY <1>4, Writes
<1>6. dir' = dir /\ sectors' = After(sectors, v)
  BY <1>2, <1>3, <1>5 DEF PutData, After
<1>7. QED BY <1>3, <1>4, <1>6

(* The length of a file reaches its entry in part.                          *)
LEMMA LengthTorn ==
  ASSUME IInv, CInv, NEW c \in Channels, Sizing(queue, c), NEW z \in 0 .. fh[c].size,
         NEW i, i = fh[c].entry, PutEntry(i, [dir[i] EXCEPT !.size = z])
  PROVE  \E d2, own, rank, pos :
           /\ dir' = d2 /\ Files(d2, own, rank, pos)
           /\ z \in Nat /\ fh[c].size \in Nat /\ z <= fh[c].size
           /\ i \in Live(d2) /\ d2[i].kind = "name" /\ d2[i].size = z
           /\ d2 = Set(dir, i, d2[i]) /\ \A x \in Entry : d2[x].kind = dir[x].kind /\ d2[x].name = dir[x].name
           /\ sectors' = [s \in Sector |-> IF s \in UsedOf(d2) THEN sectors[s] ELSE Blank]
           /\ sent[c] \in [name : Names, cells : Seq(CellType)] /\ sent[c].name = d2[i].name
           /\ Len(sent[c].cells) = fh[c].size /\ Holds(d2, own, pos, sectors, i, fh[c].size, sent[c].cells)
<1>1. PICK d, own, rank, pos : Leads(dir, queue, d) /\ Good(d, own, rank, pos)
  BY DEF IInv
<1>2. PICK d2 : d2 = Set(dir, i, [dir[i] EXCEPT !.size = z])
  OBVIOUS
<1>3. /\ Files(d2, own, rank, pos) /\ z \in Nat /\ z <= fh[c].size /\ fh[c].size \in Nat
      /\ i \in Entry /\ d2[i].size = z
      /\ \A x \in Entry : d2[x].kind = d[x].kind /\ d2[x].name = d[x].name /\ d2[x].sectors = d[x].sectors
  BY <1>1, <1>2, LengthLeft
<1>4. dir \in [Entry -> EntryType] /\ dir[i].kind = "name" /\ fh[c].filemode = "write"
  BY DEF IInv, Sizing
<1>5. /\ d2[i] = [dir[i] EXCEPT !.size = z] /\ \A x \in Entry \ {i} : d2[x] = dir[x]
      /\ d2[i].kind = dir[i].kind /\ d2[i].name = dir[i].name
  <2>1. d2[i] = [dir[i] EXCEPT !.size = z] /\ \A x \in Entry \ {i} : d2[x] = dir[x]
    BY <1>2, <1>3, <1>4 DEF Set
  <2>2. dir[i] \in EntryType
    BY <1>3, <1>4
  <2>3. QED BY <2>1, <2>2 DEF EntryType
<1>6. dir' = d2 /\ sectors' = [s \in Sector |-> IF s \in UsedOf(d2) THEN sectors[s] ELSE Blank]
  <2>1. /\ dir' = d2
        /\ sectors' = [s \in Sector |->
             IF \E x \in Live(d2) : s \in SectorsOf(d2[x]) THEN sectors[s] ELSE Blank]
    BY <1>2 DEF PutEntry, Set
  <2>2. \A s : (\E x \in Live(d2) : s \in SectorsOf(d2[x])) <=> s \in UsedOf(d2)
    BY DEF UsedOf
  <2>3. QED BY <2>1, <2>2
<1>7. i \in Live(d2) /\ d2[i].kind = "name"
  BY <1>3, <1>4, <1>5 DEF Live
<1>8. Writer(d, own, pos, sectors, fh[c], sent[c])
  <2>1. Kept(d, own, pos)
    BY <1>1 DEF CInv, Good
  <2>2. Coming(sectors, queue) = sectors
    BY NoData DEF Sizing
  <2>3. QED BY <1>4, <2>1, <2>2 DEF Kept, Writers
<1>9. PICK b, cells, sec : b = fh[c].size /\ cells = sent[c].cells /\ sec = sectors
  OBVIOUS
<1>10. Holds(d, own, pos, sec, i, b, cells)
  BY <1>8, <1>9 DEF Writer
<1>11. Holds(d2, own, pos, sec, i, b, cells)
  <2>1. ASSUME NEW x \in Live(d2) PROVE x \in Live(d) /\ Listed(d2[x]) = Listed(d[x]) /\ d2[x].sectors = d[x].sectors
    BY <1>3 DEF Live, Listed, curentry_max_sectors
  <2>2. QED BY <1>10, <2>1 DEF Holds
<1>12. /\ sent[c] \in [name : Names, cells : Seq(CellType)] /\ sent[c].name = d2[i].name
       /\ Len(sent[c].cells) = fh[c].size
  BY <1>3, <1>8 DEF Writer
<1>13. d2 = Set(dir, i, d2[i]) /\ \A x \in Entry : d2[x].kind = dir[x].kind /\ d2[x].name = dir[x].name
  BY <1>2, <1>5
<1>14. QED BY <1>3, <1>6, <1>7, <1>9, <1>11, <1>12, <1>13

LEMMA PowerFailsContents ==
  ASSUME IInv, TInv, CInv, IInv', ~ AnyCut, ~ AnyTear, PowerFails
  PROVE  CInv'
<1>1. sectors \in Bytes /\ Known(dir) /\ Blanked(dir, sectors)
  BY Whole
<1>2. sectors' \in Bytes /\ Known(dir') /\ Blanked(dir', sectors')
  <2>1. CASE UNCHANGED eeprom
    BY <1>1, <2>1 DEF eeprom
  <2>2. CASE Tear /\ IsData(Head(queue))
    <3>1. PICK d, own, rank, pos, w : \E c \in Channels :
            /\ Leads(dir, queue, d) /\ Good(d, own, rank, pos) /\ d = dir
            /\ fh[c].filemode = "write" /\ DataOf(w, d, pos, fh[c], sent[c]) /\ queue = <<w>>
      BY <2>2, DataAlone DEF Tear
    <3>2. PICK c \in Channels :
            /\ Leads(dir, queue, d) /\ Good(d, own, rank, pos) /\ d = dir
            /\ fh[c].filemode = "write" /\ DataOf(w, d, pos, fh[c], sent[c]) /\ queue = <<w>>
      BY <3>1
    <3>3. dir' = dir /\ \E k \in 1 .. Len(w.data) - 1 :
            sectors' = After(sectors, WriteData(w.at, w.offset, SubSeq(w.data, 1, k)))
      BY <2>2, <3>2, DataTorn
    <3>4. PICK v : /\ \E k \in 1 .. Len(w.data) - 1 : v = WriteData(w.at, w.offset, SubSeq(w.data, 1, k))
                   /\ sectors' = After(sectors, v)
      BY <3>3
    <3>5. /\ Files(d, own, rank, pos) /\ Handled(fh, d, own, pos)
          /\ Writers(d, own, pos, Coming(sectors, queue), fh, sent)
      BY <3>2 DEF Good, CInv, Kept
    <3>6. sent[c].cells \in Seq(CellType) /\ Len(sent[c].cells) = fh[c].size
      BY <3>2, <3>5 DEF Writers, Writer
    <3>7. PICK now : now = After(sectors, v)
      OBVIOUS
    <3>8. now \in Bytes /\ Blanked(d, now)
      BY <1>1, <3>2, <3>4, <3>5, <3>6, <3>7, DataGoes
    <3>9. QED BY <1>1, <3>2, <3>3, <3>4, <3>7, <3>8
  <2>3. ASSUME NEW c \in Channels, NEW z \in 0 .. fh[c].size, Sizing(queue, c),
               PutEntry(fh[c].entry, [dir[fh[c].entry] EXCEPT !.size = z])
        PROVE  sectors' \in Bytes /\ Known(dir') /\ Blanked(dir', sectors')
    <3>1. PICK d2 :
            /\ dir' = d2 /\ \A x \in Entry : d2[x].kind = dir[x].kind /\ d2[x].name = dir[x].name
            /\ sectors' = [s \in Sector |-> IF s \in UsedOf(d2) THEN sectors[s] ELSE Blank]
      BY <2>3, LengthTorn
    <3>2. PICK now : now = [s \in Sector |-> IF s \in UsedOf(d2) THEN sectors[s] ELSE Blank]
      OBVIOUS
    <3>3. now \in Bytes /\ Blanked(d2, now)
      BY <1>1, <3>2, Blanks DEF Bytes, Blanked
    <3>4. Known(d2)
      BY <1>1, <3>1, KnownToo DEF Live
    <3>5. QED BY <3>1, <3>2, <3>3, <3>4
  <2>4. QED BY <2>1, <2>2, <2>3, TearLeaves DEF PowerFails
<1>3. PICK d2, own, rank, pos : d2 = dir' /\ Files(d2, own, rank, pos)
  BY CutLeaves DEF Sound
<1>4. /\ queue' = <<>> /\ busy' = None
      /\ fh' = [c \in Channels |-> NoHandle] /\ sent' = [c \in Channels |-> None]
  BY DEF PowerFails
<1>5. \A c \in Channels : fh'[c].filemode = "closed" /\ sent'[c] = None
  BY <1>4, Closed
<1>6. sent' = [c \in Channels |-> sent'[c]]
  BY <1>4
<1>7. Known(d2) /\ sectors' \in Bytes /\ Blanked(d2, sectors')
  BY <1>2, <1>3
<1>8. QED BY <1>3, <1>4, <1>5, <1>6, <1>7, NothingOpen

-----------------------------------------------------------------------------
(***************************************************************************)
(* The theorems.                                                           *)
(***************************************************************************)
LEMMA EndOfWriteContents ==
  ASSUME IInv, CInv, IInv', queue = <<>>, WriteFails \/ WriteDone
  PROVE  CInv'
<1>1. CASE Running("write") /\ CloseEntry(busy.c)
  BY <1>1, CloseEntryContents
<1>2. CASE UNCHANGED <<eeprom, fh, queue, hist>> /\ busy' = None
  BY <1>2, BusyContents DEF eeprom, hist
<1>3. QED BY <1>1, <1>2 DEF WriteFails, WriteDone, WriteMore

(* An operation begins, or a block has been read.                           *)
LEMMA QuietContents ==
  ASSUME IInv, CInv, IInv', queue = <<>>,
         \/ \E c \in Channels : Read(c)
         \/ \E c \in Channels, n \in Nat, closing \in BOOLEAN : Write(c, n, closing)
         \/ \E n \in Names : Delete(n)
         \/ ReadDone
  PROVE  CInv'
<1>1. queue' = <<>> /\ UNCHANGED <<dir, sectors, fh, sent>>
  BY DEF Read, Write, Delete, ReadDone, eeprom, hist
<1>2. busy' = None \/ busy'.op \in {"read", "write", "delete"}
  BY DEF Read, Write, Delete, ReadDone, Reads
<1>3. QED BY <1>1, <1>2, BusyContents

LEMMA ContentsStay ==
  ASSUME IInv, TInv, CInv, IInv', ~ AnyAppend, ~ AnyCut, ~ AnyTear, [Next]_vars
  PROVE  CInv'
<1>1. CASE UNCHANGED vars
  <2>1. dir' = dir /\ sectors' = sectors /\ queue' = queue /\ fh' = fh /\ busy' = busy /\ sent' = sent
    BY <1>1 DEF vars, eeprom, hist
  <2>2. CInv' <=> CInv
    BY <2>1 DEF CInv, Kept, Pending, Due, NewDue, SizeDue, DataDue, SectorDue, LinkDue, ListDue, NameDue,
                EraseDue, Closes
  <2>3. QED BY <2>2
<1>2. CASE Flush
  BY <1>2, FlushContents
<1>3. CASE PowerFails
  BY <1>3, PowerFailsContents
<1>4. ASSUME queue = <<>>, Next, ~ Flush, ~ PowerFails
      PROVE  CInv'
  <2>1. ASSUME NEW c \in Channels, NEW n \in Names, OpenWrite(c, n) \/ OpenAppend(c, n) \/ OpenRead(c, n)
        PROVE  CInv'
    BY <1>4, <2>1, OpenWriteContents, OpenAppendContents, OpenReadContents
  <2>2. ASSUME NEW c \in Channels, Read(c) \/ CloseRead(c)
        PROVE  CInv'
    BY <1>4, <2>2, QuietContents, CloseReadContents
  <2>3. ASSUME NEW c \in Channels, NEW n \in Nat, NEW closing \in BOOLEAN, Write(c, n, closing)
        PROVE  CInv'
    BY <1>4, <2>3, QuietContents
  <2>4. CASE ReadSome \/ ReadDone
    BY <1>4, <2>4, ReadSomeContents, QuietContents
  <2>5. CASE WriteInSector \/ WriteNewSector \/ WriteNewEntry
    BY <1>4, <2>5, WriteInSectorContents, WriteNewSectorContents, WriteNewEntryContents
  <2>6. CASE WriteFails \/ WriteDone \/ CloseDone
    BY <1>4, <2>6, EndOfWriteContents, CloseDoneContents
  <2>7. ASSUME NEW n \in Names, Delete(n)
        PROVE  CInv'
    BY <1>4, <2>7, QuietContents
  <2>8. ASSUME NEW old \in Names, NEW new \in Names, Rename(old, new)
        PROVE  CInv'
    BY <1>4, <2>8, RenameContents
  <2>9. CASE DeleteEntry \/ Format
    BY <1>4, <2>9, DeleteEntryContents, FormatContents
  <2>10. Block \in Nat /\ Rests \subseteq Nat /\ TRUE \in BOOLEAN /\ FALSE \in BOOLEAN
    BY Constants
  <2>11. QED
    BY <1>4, <2>1, <2>2, <2>3, <2>4, <2>5, <2>6, <2>7, <2>8, <2>9, <2>10 DEF Next
<1>5. Next /\ ~ Flush /\ ~ PowerFails => queue = <<>>
  BY DEF Next, OpenWrite, OpenAppend, OpenRead, Read, CloseRead, Write, ReadSome, ReadDone, WriteInSector,
         WriteNewSector, WriteNewEntry, WriteFails, WriteDone, CloseDone, Delete, Rename, DeleteEntry, Format,
         WriteMore, Opens, Ready, Running
<1>6. QED BY <1>1, <1>2, <1>3, <1>4, <1>5

(* What has been sent to a file is in the sectors that its entries list, at *)
(* every moment, or on its way there, as long as append is used where it    *)
(* works and the power fails neither between a link and its entry nor inside  *)
(* the write that erases or renames an entry.                               *)
THEOREM ContentsKept ==
  ASSUME ~ AnyAppend, ~ AnyCut, ~ AnyTear
  PROVE  Spec => [](IInv /\ TInv /\ CInv)
<1>1. Init => IInv /\ TInv /\ CInv
  BY InitGood, InitTears, InitContents
<1>2. (IInv /\ TInv /\ CInv) /\ [Next]_vars => (IInv /\ TInv /\ CInv)'
  <2> SUFFICES ASSUME IInv, TInv, CInv, [Next]_vars PROVE IInv' /\ TInv' /\ CInv'
    OBVIOUS
  <2>1. IInv'
    BY StaysTrue
  <2>2. QED BY <2>1, TearsStay, ContentsStay
<1>3. QED BY <1>1, <1>2, PTL DEF Spec

(* A file is read byte for byte, over the ends of sectors and of entries,   *)
(* while other files are written, renamed and deleted, and after a power     *)
(* failure, under the conditions of ContentsKept.                          *)
THEOREM ReadingGoesOn ==
  ASSUME ~ AnyAppend, ~ AnyCut, ~ AnyTear
  PROVE  Spec => []ReadsOn
<1>1. Spec => [](IInv /\ TInv /\ CInv)
  BY ContentsKept
<1>2. IInv /\ TInv /\ CInv => ReadsOn
  BY ReadsInOrder
<1>3. QED BY <1>1, <1>2, PTL
-----------------------------------------------------------------------------
(***************************************************************************)
(* The files by name, as a function of the directory and the sectors.      *)
(***************************************************************************)
FileNamed(d, sec, n) ==
  IF find_entry(d, n) = None THEN None ELSE ContentsIn(d, sec, find_entry(d, n))

LEMMA StoredNow == StoredFiles = [n \in Names |-> FileNamed(dir, sectors, n)]
BY ContentsNow DEF StoredFiles, FileNamed

LEMMA StoredThen == StoredFiles' = [n \in Names |-> FileNamed(dir', sectors', n)]
<1>1. (StoredFiles = [n \in Names |-> FileNamed(dir, sectors, n)])'
  BY StoredNow, PTL
<1>2. QED BY <1>1

(* What is nothing is neither a file nor one that is being written.         *)
LEMMA NotNone ==
  /\ \A q \in Seq(CellType) : q # None
  /\ \A s \in [name : Names, cells : Seq(CellType)] : s # None
BY EepromFsAssumption DEF CellType

LEMMA StoredSame ==
  ASSUME \A n \in Names : FileNamed(dir', sectors', n) = FileNamed(dir, sectors, n)
  PROVE  StoredFiles' = StoredFiles
BY StoredNow, StoredThen

LEMMA Unseen ==
  ASSUME UNCHANGED <<dir, sectors, sent>>
  PROVE  UNCHANGED FS!vars
<1>1. StoredFiles' = StoredFiles
  BY StoredSame
<1>2. QED BY <1>1 DEF FS!vars

(* The channels that write.                                                 *)
LEMMA WhoWrites ==
  ASSUME NEW d, NEW own, NEW pos, NEW sec, Writers(d, own, pos, sec, fh, sent)
  PROVE  \A c \in Channels :
           /\ sent[c] # None <=> fh[c].filemode = "write"
           /\ fh[c].filemode = "write" =>
                /\ sent[c] \in [name : Names, cells : Seq(CellType)]
                /\ sent[c].name = d[fh[c].entry].name
BY NotNone DEF Writers, Writer

LEMMA FileWhole ==
  ASSUME NEW d, NEW own, NEW rank, NEW pos, Files(d, own, rank, pos), NEW sec \in Bytes, NEW n
  PROVE  /\ FileNamed(d, sec, n) = None <=> find_entry(d, n) = None
         /\ FileNamed(d, sec, n) # None => FileNamed(d, sec, n) \in Seq(CellType)
<1> DEFINE e == find_entry(d, n)
<1>1. CASE e = None
  BY <1>1 DEF FileNamed
<1>2. CASE e # None
  <2>1. e \in Live(d) /\ d[e].kind = "name"
    BY <1>2, FoundEntry
  <2>2. PICK f : f = ContentsIn(d, sec, e)
    OBVIOUS
  <2> HIDE DEF e
  <2>3. f \in Seq(CellType)
    BY <2>1, <2>2, ContentsTyped
  <2>4. FileNamed(d, sec, n) = f
    BY <1>2, <2>2 DEF FileNamed, e
  <2>5. QED BY <1>2, <2>3, <2>4, NotNone DEF e
<1>3. QED BY <1>1, <1>2

-----------------------------------------------------------------------------
(***************************************************************************)
(* What begins and ends on a channel.                                      *)
(***************************************************************************)
LEMMA NobodyWrites ==
  ASSUME NEW d, NEW own, NEW pos, NEW sec, Writers(d, own, pos, sec, fh, sent), NEW n,
         \A c \in Channels : fh[c].filemode = "write" => d[fh[c].entry].name # n
  PROVE  FS!Writers(n) = {}
BY WhoWrites DEF FS!Writers

LEMMA OpenWriteStores ==
  ASSUME IInv, CInv, queue = <<>>, NEW c \in Channels, NEW n \in Names, OpenWrite(c, n)
  PROVE  FS!Begin(c, n)
<1>1. PICK own, rank, pos :
        /\ Good(dir, own, rank, pos) /\ Files(dir, own, rank, pos) /\ Handled(fh, dir, own, pos)
        /\ Writers(dir, own, pos, sectors, fh, sent) /\ Closes(dir)
  BY AtStart
<1>2. /\ fh[c].filemode = "closed" /\ find_entry(dir, n) = None
      /\ sent' = [sent EXCEPT ![c] = [name |-> n, cells |-> <<>>]]
      /\ dir' = dir /\ sectors' = sectors
  BY DEF OpenWrite, Opens, eeprom
<1>3. sent[c] = None
  BY <1>1, <1>2, WhoWrites
<1>4. FS!Writers(n) = {}
  <2>1. \A b \in Channels : fh[b].filemode = "write" => dir[fh[b].entry].name # n
    <3>1. \A i \in Live(dir) : dir[i].kind = "name" => dir[i].name # n
      BY <1>2, FindsNone
    <3>2. \A b \in Channels : fh[b].filemode = "write" =>
            fh[b].entry \in Live(dir) /\ dir[fh[b].entry].kind = "name"
      BY <1>1 DEF Handled, Opened, HandleType, Live
    <3>3. QED BY <3>1, <3>2
  <2>2. QED BY <1>1, <2>1, NobodyWrites
<1>5. StoredFiles[n] = None
  BY <1>2, StoredNow DEF FileNamed
<1>6. StoredFiles' = StoredFiles
  BY <1>2, StoredSame
<1>7. QED BY <1>2, <1>3, <1>4, <1>5, <1>6 DEF FS!Begin

LEMMA OpenAppendStores ==
  ASSUME IInv, CInv, queue = <<>>, NEW c \in Channels, NEW n \in Names, OpenAppend(c, n)
  PROVE  FS!Begin(c, n)
<1> DEFINE e == find_entry(dir, n)
<1>1. PICK own, rank, pos :
        /\ Good(dir, own, rank, pos) /\ Files(dir, own, rank, pos) /\ Handled(fh, dir, own, pos)
        /\ Writers(dir, own, pos, sectors, fh, sent) /\ Closes(dir)
  BY AtStart
<1>2. /\ fh[c].filemode = "closed" /\ e # None
      /\ \A b \in Channels : fh[b].filemode = "write" => fh[b].entry # e
      /\ sent' = [sent EXCEPT ![c] = [name |-> n, cells |-> Contents(e)]]
      /\ dir' = dir /\ sectors' = sectors
  BY DEF OpenAppend, Opens, eeprom
<1>3. sent[c] = None
  BY <1>1, <1>2, WhoWrites
<1>4. FS!Writers(n) = {}
  <2>1. \A b \in Channels : fh[b].filemode = "write" => dir[fh[b].entry].name # n
    <3>1. e \in Live(dir) /\ dir[e].kind = "name" /\ dir[e].name = n
      BY <1>2, FoundEntry
    <3>2. \A i \in Live(dir) : dir[i].kind = "name" /\ dir[i].name = n => i = e
      BY <3>1 DEF CInv, Known
    <3>3. \A b \in Channels : fh[b].filemode = "write" =>
            fh[b].entry \in Live(dir) /\ dir[fh[b].entry].kind = "name"
      BY <1>1 DEF Handled, Opened, HandleType, Live
    <3>4. QED BY <1>2, <3>2, <3>3
  <2>2. QED BY <1>1, <2>1, NobodyWrites
<1>5. StoredFiles[n] = Contents(e) /\ StoredFiles[n] # None
  <2>1. StoredFiles[n] = FileNamed(dir, sectors, n)
    BY StoredNow
  <2>2. FileNamed(dir, sectors, n) = Contents(e)
    BY <1>2, ContentsNow DEF FileNamed
  <2>3. FileNamed(dir, sectors, n) # None
    BY <1>1, <1>2, Whole, FileWhole
  <2>4. QED BY <2>1, <2>2, <2>3
<1>6. StoredFiles' = StoredFiles
  BY <1>2, StoredSame
<1> HIDE DEF e
<1>7. QED BY <1>2, <1>3, <1>4, <1>5, <1>6 DEF FS!Begin

(* A file is closed when it has its length.                                 *)
LEMMA CloseDoneStores ==
  ASSUME IInv, CInv, queue = <<>>, CloseDone
  PROVE  \E c \in Channels : FS!End(c)
<1>1. PICK own, rank, pos :
        /\ Good(dir, own, rank, pos) /\ Files(dir, own, rank, pos) /\ Handled(fh, dir, own, pos)
        /\ Writers(dir, own, pos, sectors, fh, sent) /\ Closes(dir)
  BY AtStart
<1>2. /\ busy # None /\ busy.op = "close" /\ sent' = [sent EXCEPT ![busy.c] = None]
      /\ dir' = dir /\ sectors' = sectors
  BY DEF CloseDone, Running, eeprom
<1>3. PICK c \in Channels : busy = [op |-> "close", c |-> c]
  <2>1. ~ Reading(fh, busy) /\ ~ Writing(fh, busy) /\ ~ Deleting(fh, busy, dir, rank)
    BY <1>2 DEF Reading, Writing, Deleting
  <2>2. Closing(busy)
    BY <1>1, <1>2, <2>1 DEF Good, Job
  <2>3. QED BY <2>2 DEF Closing
<1>4. PICK h, f, s : h = fh[c] /\ f = h.entry /\ s = sent[c]
  OBVIOUS
<1>5. busy.c = c /\ h.filemode = "write" /\ dir[f].size = h.size
  BY <1>1, <1>2, <1>3, <1>4 DEF Closes, Finishing
<1>6. f \in Live(dir) /\ dir[f].kind = "name" /\ h.size \in Nat
  BY <1>1, <1>4, <1>5 DEF Handled, Opened, HandleType, Live
<1>7. Writer(dir, own, pos, sectors, h, s)
  BY <1>1, <1>4, <1>5 DEF Writers
<1>8. s # None /\ s.name = dir[f].name /\ s.name \in Names /\ s.cells \in Seq(CellType) /\ Len(s.cells) = h.size
      /\ Holds(dir, own, pos, sectors, f, h.size, s.cells)
  BY <1>4, <1>7, NotNone DEF Writer
<1>9. StoredFiles[s.name] = s.cells
  <2>1. find_entry(dir, s.name) = f
    BY <1>6, <1>8, Finds, Whole
  <2>2. f # None
    BY <1>6, Constants DEF Live, Entry
  <2>3. PICK z, cells, sec : z = h.size /\ cells = s.cells /\ sec = sectors
    OBVIOUS
  <2>4. cells = [k \in 1 .. z |-> cells[k]]
    BY <1>6, <1>8, <2>3
  <2>5. /\ Files(dir, own, rank, pos) /\ f \in Live(dir) /\ dir[f].kind = "name"
        /\ z \in Nat /\ z = dir[f].size /\ Fits(dir, own, pos, f, z)
        /\ Holds(dir, own, pos, sec, f, z, cells) /\ Grows(dir, own, f, dir)
    BY <1>1, <1>5, <1>6, <1>8, <2>3, Itself DEF Files, Sized
  <2>6. ContentsIn(dir, sec, f) = cells
    BY ONLY <2>4, <2>5, IsContents
  <2>7. QED BY <1>8, <2>1, <2>2, <2>3, <2>6, StoredNow DEF FileNamed
<1>10. StoredFiles' = StoredFiles
  BY <1>2, StoredSame
<1>11. QED BY <1>2, <1>4, <1>5, <1>8, <1>9, <1>10 DEF FS!End

LEMMA NoFile ==
  ASSUME NEW d, NEW n, \A i \in Entry : d[i].kind = "name" => d[i].name # n
  PROVE  find_entry(d, n) = None
BY DEF find_entry

LEMMA FormatStores ==
  ASSUME IInv, CInv, queue = <<>>, Format
  PROVE  FS!Clear
<1>1. PICK own, rank, pos :
        /\ Good(dir, own, rank, pos) /\ Files(dir, own, rank, pos) /\ Handled(fh, dir, own, pos)
        /\ Writers(dir, own, pos, sectors, fh, sent) /\ Closes(dir)
  BY AtStart
<1>2. /\ \A c \in Channels : fh[c].filemode = "closed"
      /\ dir' = [i \in Entry |-> Erased] /\ sent' = sent
  BY DEF Format, hist
<1>3. sent = [c \in Channels |-> None]
  <2>1. \A c \in Channels : sent[c] = None
    BY <1>1, <1>2, WhoWrites
  <2>2. sent = [c \in Channels |-> sent[c]]
    BY Whole
  <2>3. QED BY <2>1, <2>2
<1>4. \A n \in Names : FileNamed(dir', sectors', n) = None
  <2>1. \A i \in Entry : dir'[i].kind = "free"
    BY <1>2, NewEntries
  <2>2. PICK d2 : d2 = dir'
    OBVIOUS
  <2>3. \A n : find_entry(d2, n) = None
    BY <2>1, <2>2, NoFile
  <2>4. QED BY <2>2, <2>3 DEF FileNamed
<1>5. StoredFiles' = [n \in Names |-> None]
  BY <1>4, StoredThen
<1>6. QED BY <1>2, <1>3, <1>5 DEF FS!Clear

(* What a block brings is behind what was sent before.                      *)
LEMMA StoreSomeStores ==
  ASSUME IInv, CInv, queue = <<>>, WriteMore,
         NEW h, h.cur_soffset \in 0 .. SectorSize - 1, NEW entries, StoreSome(h, entries)
  PROVE  \E c \in Channels : FS!Extend(c)
<1>1. PICK own, rank, pos :
        /\ Good(dir, own, rank, pos) /\ Files(dir, own, rank, pos) /\ Handled(fh, dir, own, pos)
        /\ Writers(dir, own, pos, sectors, fh, sent) /\ Closes(dir)
  BY AtStart
<1>2. PICK c \in Channels : c = busy.c /\ fh[c].filemode = "write" /\ busy.left \in Nat /\ busy.left > 0
  BY <1>1, IsWriting DEF WriteMore
<1>3. PICK s, n : s = sent[c] /\ n = Min(busy.left, SectorSize - h.cur_soffset)
  OBVIOUS
<1>4. n \in Nat \ {0}
  <2>1. PICK room, left : room = SectorSize - h.cur_soffset /\ left = busy.left
    OBVIOUS
  <2>2. room \in Nat \ {0}
    BY ONLY <2>1, h.cur_soffset \in 0 .. SectorSize - 1, Constants
  <2>3. left \in Nat \ {0}
    BY <1>2, <2>1
  <2>4. n = Min(left, room)
    BY <1>3, <2>1
  <2>5. QED BY ONLY <2>2, <2>3, <2>4 DEF Min
<1>5. /\ s \in [name : Names, cells : Seq(CellType)] /\ s # None
      /\ sent = [b \in Channels |-> sent[b]]
  <2>1. s \in [name : Names, cells : Seq(CellType)]
    BY <1>1, <1>2, <1>3, WhoWrites
  <2>2. QED BY <2>1, NotNone, Whole
<1>6. PICK old : old = s.cells
  OBVIOUS
<1>7. /\ dir' = dir /\ sectors' = sectors
      /\ sent' = [sent EXCEPT ![c].cells = old \o [k \in 1 .. n |-> <<s.name, Len(old) + k>>]]
  BY <1>2, <1>3, <1>6 DEF StoreSome, eeprom
<1>8. PICK cells : cells = [k \in 1 .. n |-> <<s.name, Len(old) + k>>]
  OBVIOUS
<1>9. cells \in Seq(CellType) /\ Len(cells) = n /\ old \in Seq(CellType)
  <2>1. old \in Seq(CellType) /\ s.name \in Names
    BY <1>5, <1>6
  <2>2. Len(old) \in Nat
    BY <2>1
  <2>3. PICK m \in Nat : m = Len(old)
    BY <2>2
  <2>4. \A k \in 1 .. n : <<s.name, m + k>> \in CellType
    BY <1>4, <2>1, <2>3 DEF CellType
  <2>5. cells \in [1 .. n -> CellType]
    BY <1>8, <2>3, <2>4
  <2>6. QED BY ONLY <1>4, <2>1, <2>5
<1>10. PICK new : new = old \o cells
  OBVIOUS
<1>11. sent'[c] = [s EXCEPT !.cells = new]
  BY <1>3, <1>5, <1>7, <1>8, <1>10
<1>12. sent'[c].cells = new /\ sent'[c] \in [name : Names, cells : Seq(CellType)]
  <2>1. PICK t : t = sent'[c]
    OBVIOUS
  <2>2. new \in Seq(CellType)
    BY <1>9, <1>10
  <2>3. t = [s EXCEPT !.cells = new] /\ s \in [name : Names, cells : Seq(CellType)]
    BY <1>5, <1>11, <2>1
  <2>4. t.cells = new /\ t \in [name : Names, cells : Seq(CellType)]
    BY ONLY <2>2, <2>3
  <2>5. QED BY <2>1, <2>4
<1>13. Len(new) > Len(old) /\ SubSeq(new, 1, Len(old)) = old
  BY <1>4, <1>9, <1>10
<1>14. sent' = [sent EXCEPT ![c].cells = sent'[c].cells]
  BY <1>7, <1>8, <1>10, <1>12
<1>15. StoredFiles' = StoredFiles
  BY <1>7, StoredSame
<1>16. QED BY <1>3, <1>5, <1>6, <1>12, <1>13, <1>14, <1>15, NotNone DEF FS!Extend

-----------------------------------------------------------------------------
(***************************************************************************)
(* Files that stay what they are when one entry is written.                *)
(***************************************************************************)
LEMMA SameFound ==
  ASSUME NEW d1, NEW d2, NEW n,
         \A i \in Entry : d2[i].kind = "name" /\ d2[i].name = n <=> d1[i].kind = "name" /\ d1[i].name = n
  PROVE  find_entry(d2, n) = find_entry(d1, n)
<1> DEFINE found(d) == {i \in Entry : d[i].kind = "name" /\ d[i].name = n}
<1>1. found(d2) = found(d1)
  OBVIOUS
<1>2. \A d : find_entry(d, n) = IF found(d) = {} THEN None ELSE CHOOSE i \in found(d) : \A j \in found(d) : i <= j
  BY DEF find_entry
<1> HIDE DEF found
<1>3. QED BY <1>1, <1>2

(* The contents stay the same as long as the entries and the bytes do.      *)
LEMMA AlikeContents ==
  ASSUME NEW d, NEW own, NEW rank, NEW pos, Files(d, own, rank, pos), NEW d1, NEW d2, NEW sec1, NEW sec2,
         NEW f \in Live(d), d[f].kind = "name", Grows(d, own, f, d1), Grows(d, own, f, d2),
         d1[f].size = d[f].size, d2[f].size = d[f].size, Alike(d, own, pos, f, d[f].size, sec1, sec2)
  PROVE  ContentsIn(d2, sec2, f) = ContentsIn(d1, sec1, f)
<1>1. PICK z \in Nat : z = d[f].size
  <2>1. d[f] \in EntryType
    BY FilesTyped
  <2>2. d[f].size \in 0 .. Sectors * SectorSize /\ Sectors * SectorSize \in Nat
    BY <2>1, EntryParts, Constants
  <2>3. QED BY <2>2
<1>2. Fits(d, own, pos, f, z)
  BY <1>1 DEF Files, Sized
<1>3. Alike(d, own, pos, f, z, sec1, sec2)
  BY <1>1
<1>4. /\ z \in Nat /\ Files(d, own, rank, pos) /\ f \in Live(d) /\ d[f].kind = "name"
      /\ Grows(d, own, f, d1) /\ Grows(d, own, f, d2) /\ z = d1[f].size /\ z = d2[f].size
  BY <1>1
<1>5. ContentsIn(d2, sec2, f) = ContentsIn(d1, sec1, f)
  <2>1. PICK g : g = ContentsIn(d1, sec1, f)
    OBVIOUS
  <2>2. g = [k \in 1 .. z |-> g[k]] /\ Holds(d, own, pos, sec1, f, z, g)
    <3>1. g = [k \in 1 .. z |-> g[k]]
      BY ONLY <1>1, <1>4, <2>1 DEF ContentsIn
    <3>2. Holds(d, own, pos, sec1, f, z, g)
      BY ONLY <1>4, <2>1, ContentsAre
    <3>3. QED BY <3>1, <3>2
  <2>3. Holds(d, own, pos, sec2, f, z, g)
    <3>1. ASSUME NEW x \in Live(d), own[x] = f, NEW i \in Listed(d[x]), NEW o \in 0 .. SectorSize - 1,
                 ByteAt(pos, x, i, o) < z
          PROVE  sec2[d[x].sectors[i]][o] = g[ByteAt(pos, x, i, o) + 1]
      <4>1. sec1[d[x].sectors[i]][o] = g[ByteAt(pos, x, i, o) + 1]
        BY ONLY <2>2, <3>1 DEF Holds
      <4>2. sec2[d[x].sectors[i]][o] = sec1[d[x].sectors[i]][o]
        BY ONLY <1>3, <3>1 DEF Alike
      <4>3. QED BY <4>1, <4>2
    <3>2. QED BY <3>1 DEF Holds
  <2>4. ContentsIn(d2, sec2, f) = g
    BY ONLY <1>1, <1>2, <1>4, <2>2, <2>3, IsContents
  <2>5. QED BY <2>1, <2>4
<1>6. QED BY <1>5

LEMMA NamedAlike ==
  ASSUME NEW d, NEW own, NEW rank, NEW pos, Files(d, own, rank, pos), NEW d1, NEW d2, NEW sec1, NEW sec2,
         NEW n, NEW f, find_entry(d1, n) = f, find_entry(d2, n) = f,
         f # None => /\ f \in Live(d) /\ d[f].kind = "name" /\ Grows(d, own, f, d1) /\ Grows(d, own, f, d2)
                     /\ d1[f].size = d[f].size /\ d2[f].size = d[f].size
                     /\ Alike(d, own, pos, f, d[f].size, sec1, sec2)
  PROVE  FileNamed(d2, sec2, n) = FileNamed(d1, sec1, n)
<1>1. CASE f = None
  BY <1>1 DEF FileNamed
<1>2. CASE f # None
  <2>1. PICK c1, c2 : c1 = ContentsIn(d1, sec1, f) /\ c2 = ContentsIn(d2, sec2, f)
    OBVIOUS
  <2>2. c2 = c1
    BY <1>2, <2>1, AlikeContents
  <2>3. QED BY <1>2, <2>1, <2>2 DEF FileNamed
<1>3. QED BY <1>1, <1>2

LEMMA NamedSame ==
  ASSUME NEW d, NEW own, NEW rank, NEW pos, Files(d, own, rank, pos), NEW d1, NEW d2, NEW sec1, NEW sec2,
         NEW n, NEW f, find_entry(d1, n) = f, find_entry(d2, n) = f,
         f # None => /\ f \in Live(d) /\ d[f].kind = "name" /\ Grows(d, own, f, d1) /\ Grows(d, own, f, d2)
                     /\ d1[f].size = d[f].size /\ d2[f].size = d[f].size,
         \A s \in UsedOf(d) : sec2[s] = sec1[s]
  PROVE  FileNamed(d2, sec2, n) = FileNamed(d1, sec1, n)
<1>1. \A z : Alike(d, own, pos, f, z, sec1, sec2)
  BY DEF Alike, UsedOf, SectorsOf
<1>2. /\ Files(d, own, rank, pos) /\ find_entry(d1, n) = f /\ find_entry(d2, n) = f
      /\ f # None => /\ f \in Live(d) /\ d[f].kind = "name" /\ Grows(d, own, f, d1) /\ Grows(d, own, f, d2)
                     /\ d1[f].size = d[f].size /\ d2[f].size = d[f].size
                     /\ Alike(d, own, pos, f, d[f].size, sec1, sec2)
  BY <1>1
<1>3. QED BY ONLY <1>2, NamedAlike

(* A file other than the one whose first entry is written last.             *)
LEMMA OtherNamed ==
  ASSUME NEW d1 \in [Entry -> EntryType], NEW i \in Entry, NEW e, NEW d2, d2 = Set(d1, i, e),
         NEW own, NEW rank, NEW pos, Files(d2, own, rank, pos), e.kind \in {"name", "free"},
         NEW sec1, NEW sec2, \A s \in UsedOf(d2) : sec2[s] = sec1[s],
         NEW n, ~ (d1[i].kind = "name" /\ d1[i].name = n), ~ (e.kind = "name" /\ e.name = n)
  PROVE  FileNamed(d2, sec2, n) = FileNamed(d1, sec1, n)
<1>1. d2[i] = e /\ \A x \in Entry \ {i} : d2[x] = d1[x]
  BY DEF Set
<1>2. PICK f : f = find_entry(d1, n)
  OBVIOUS
<1>3. find_entry(d2, n) = f
  BY <1>1, <1>2, SameFound
<1>4. ASSUME f # None
      PROVE  /\ f \in Live(d2) /\ d2[f].kind = "name" /\ Grows(d2, own, f, d1) /\ Grows(d2, own, f, d2)
             /\ d1[f].size = d2[f].size
  <2>1. f \in Live(d2) /\ d2[f].kind = "name" /\ d2[f].name = n
    BY <1>3, <1>4, FoundEntry
  <2>2. f # i /\ f \in Entry
    BY <1>1, <2>1 DEF Live
  <2>3. ASSUME NEW x \in Live(d2), own[x] = f PROVE x \in Entry \ {i}
    <3>1. x \in Entry /\ e.kind = "name" => x # i
      BY <1>1, <2>2, <2>3, FilesTyped, RootOfFile DEF Live
    <3>2. e.kind = "free" => x # i
      BY <1>1 DEF Live
    <3>3. QED BY <3>1, <3>2 DEF Live
  <2>4. Grows(d2, own, f, d1)
    BY <1>1, <2>3 DEF Grows
  <2>5. QED BY <1>1, <2>1, <2>2, <2>4, Itself
<1>5. Files(d2, own, rank, pos) /\ find_entry(d1, n) = f /\ \A s \in UsedOf(d2) : sec2[s] = sec1[s]
  BY <1>2
<1>6. QED BY ONLY <1>3, <1>4, <1>5, NamedSame

(* An entry that gets a link or one more sector.                            *)
LEMMA GrownNamed ==
  ASSUME NEW d1, NEW own, NEW rank, NEW pos, Files(d1, own, rank, pos),
         NEW i \in Live(d1), d1[i].next = None,
         NEW e, e.kind = d1[i].kind, e.name = d1[i].name, e.size = d1[i].size,
         \A k \in Listed(d1[i]) : e.sectors[k] = d1[i].sectors[k],
         NEW d2, d2 = Set(d1, i, e),
         NEW sec1, NEW sec2, \A s \in UsedOf(d2) : sec2[s] = sec1[s], NEW n
  PROVE  FileNamed(d2, sec2, n) = FileNamed(d1, sec1, n)
<1>1. d1 \in [Entry -> EntryType] /\ Live(d1) \subseteq Entry
  BY FilesTyped
<1>2. d2[i] = e /\ \A x \in Entry \ {i} : d2[x] = d1[x]
  BY <1>1 DEF Set
<1>3. \A x \in Entry : d2[x].kind = d1[x].kind /\ d2[x].name = d1[x].name /\ d2[x].size = d1[x].size
  BY <1>2
<1>4. PICK f : f = find_entry(d1, n)
  OBVIOUS
<1>5. find_entry(d2, n) = f
  BY <1>3, <1>4, SameFound
<1>6. \A g : Grows(d1, own, g, d2)
  BY <1>1, <1>2 DEF Grows
<1>7. f # None => /\ f \in Live(d1) /\ d1[f].kind = "name" /\ Grows(d1, own, f, d1) /\ Grows(d1, own, f, d2)
                  /\ d1[f].size = d1[f].size /\ d2[f].size = d1[f].size
  BY <1>1, <1>3, <1>4, <1>6, FoundEntry, Itself
<1>8. \A s \in UsedOf(d1) : sec2[s] = sec1[s]
  <2>1. ASSUME NEW s \in UsedOf(d1)
        PROVE  s \in UsedOf(d2)
    <3>1. PICK x \in Live(d1) : \E k \in Listed(d1[x]) : s = d1[x].sectors[k]
      BY <2>1 DEF UsedOf, SectorsOf
    <3>2. PICK k \in Listed(d1[x]) : s = d1[x].sectors[k]
      BY <3>1
    <3>3. x \in Live(d2)
      BY <1>1, <1>3 DEF Live
    <3>4. d2[x].sectors[k] = d1[x].sectors[k] /\ curentry_max_sectors(d2[x]) = curentry_max_sectors(d1[x])
      BY <1>1, <1>2, <1>3 DEF curentry_max_sectors
    <3>5. k \in Listed(d2[x])
      BY <3>4 DEF Listed
    <3>6. QED BY <3>2, <3>3, <3>4, <3>5 DEF UsedOf, SectorsOf
  <2>2. QED BY <2>1
<1>9. Files(d1, own, rank, pos) /\ find_entry(d1, n) = f
  BY <1>4
<1>10. QED BY ONLY <1>5, <1>7, <1>8, <1>9, NamedSame

-----------------------------------------------------------------------------
(***************************************************************************)
(* A write reaches the EEPROM: what is seen of the files then.             *)
(***************************************************************************)
LEMMA UsedTyped == ASSUME NEW d \in [Entry -> EntryType] PROVE UsedOf(d) \subseteq Sector
BY EntryParts DEF UsedOf, Live

LEMMA EntryReaches ==
  ASSUME IInv', Flush, NEW i, NEW e, Head(queue) = WriteEntry(i, e)
  PROVE  /\ dir' = Set(dir, i, e) /\ fh' = fh /\ sent' = sent
         /\ \A s \in UsedOf(dir') : sectors'[s] = sectors[s]
<1>1. /\ dir' = Set(dir, i, e) /\ fh' = fh /\ sent' = sent
      /\ sectors' = [s \in Sector |-> IF s \in UsedOf(dir') THEN sectors[s] ELSE Blank]
  BY FlushIs
<1>2. dir' \in [Entry -> EntryType]
  BY DEF IInv
<1>3. UsedOf(dir') \subseteq Sector
  BY <1>2, UsedTyped
<1>4. QED BY <1>1, <1>3

(* What the writes lead to.                                                *)
LEMMA TheWay ==
  ASSUME IInv, CInv, NEW d, NEW own, NEW rank, NEW pos, Leads(dir, queue, d), Good(d, own, rank, pos)
  PROVE  /\ Files(d, own, rank, pos) /\ Handled(fh, d, own, pos) /\ Known(d) /\ Known(dir)
         /\ Writers(d, own, pos, Coming(sectors, queue), fh, sent)
         /\ d \in [Entry -> EntryType] /\ Live(d) \subseteq Entry
         /\ dir \in [Entry -> EntryType] /\ Live(dir) \subseteq Entry /\ sectors \in Bytes
<1>1. Files(d, own, rank, pos) /\ Handled(fh, d, own, pos)
  BY DEF Good
<1>2. Known(d) /\ Writers(d, own, pos, Coming(sectors, queue), fh, sent)
  BY <1>1 DEF CInv, Kept
<1>3. d \in [Entry -> EntryType] /\ Live(d) \subseteq Entry
  BY <1>1, FilesTyped
<1>4. dir \in [Entry -> EntryType] /\ Live(dir) \subseteq Entry
  BY DEF IInv, Live
<1>5. QED BY <1>1, <1>2, <1>3, <1>4, Whole

(* The entry of a new file.                                                *)
LEMMA NewFileShows ==
  ASSUME IInv, CInv, IInv', Flush,
         NEW d, NEW own, NEW rank, NEW pos, Leads(dir, queue, d), Good(d, own, rank, pos),
         NEW c \in Channels, fh[c].filemode = "write", NewDue(fh[c], sent[c])
  PROVE  \E n \in Names : FS!Appear(n)
<1>1. /\ Files(d, own, rank, pos) /\ Handled(fh, d, own, pos) /\ Known(d) /\ Known(dir)
      /\ Writers(d, own, pos, Coming(sectors, queue), fh, sent)
      /\ d \in [Entry -> EntryType] /\ Live(d) \subseteq Entry
      /\ dir \in [Entry -> EntryType] /\ Live(dir) \subseteq Entry /\ sectors \in Bytes
  BY TheWay
<1>2. PICK i, s : i = fh[c].entry /\ s = sent[c]
  OBVIOUS
<1>3. i \notin Live(dir) /\ queue = <<WriteEntry(i, NewFile(s.name))>> /\ i \in Entry
  BY <1>1, <1>2 DEF NewDue, Handled, HandleType
<1>4. s # None /\ s.name \in Names /\ s.name = d[i].name
  BY <1>1, <1>2, WhoWrites
<1>5. PICK n \in Names : n = s.name
  BY <1>4
<1>6. PICK e : e = NewFile(n)
  OBVIOUS
<1>7. /\ Head(queue) = WriteEntry(i, e) /\ d = Set(dir, i, e)
      /\ e.kind = "name" /\ e.name = n /\ e.size = 0
  <2>1. e.kind = "name" /\ e.size = 0
    BY <1>6, NewEntries
  <2>2. e.name = n
    BY <1>6 DEF NewFile, Erased
  <2>3. queue = <<WriteEntry(i, e)>>
    BY <1>3, <1>5, <1>6
  <2>4. d = Set(dir, i, e)
    BY <2>3, LeadsOnly
  <2>5. QED BY <2>1, <2>2, <2>3, <2>4
<1>8. dir' = d /\ sent' = sent /\ \A t \in UsedOf(d) : sectors'[t] = sectors[t]
  BY <1>7, EntryReaches
<1>9. d[i] = e /\ dir[i].kind = "free" /\ \A x \in Entry \ {i} : d[x] = dir[x]
  BY <1>1, <1>3, <1>7 DEF Set, Live
<1>10. i \in Live(d)
  BY <1>3, <1>7, <1>9 DEF Live
<1>11. FS!Writers(n) # {}
  BY <1>2, <1>4, <1>5 DEF FS!Writers
<1>12. StoredFiles[n] = None
  <2>1. ASSUME NEW x \in Entry, dir[x].kind = "name" PROVE dir[x].name # n
    <3>1. x # i /\ d[x] = dir[x] /\ x \in Live(d)
      BY <1>9, <2>1 DEF Live
    <3>2. QED BY <1>1, <1>7, <1>9, <1>10, <2>1, <3>1 DEF Known
  <2>2. find_entry(dir, n) = None
    BY <2>1, NoFile
  <2>3. QED BY <2>2, StoredNow DEF FileNamed
<1>13. ASSUME NEW m \in Names, m # n
       PROVE  FileNamed(dir', sectors', m) = FileNamed(dir, sectors, m)
  <2>1. PICK sec1, sec2, d1 : sec1 = sectors /\ sec2 = sectors' /\ d1 = dir
    OBVIOUS
  <2>2. /\ d1 \in [Entry -> EntryType] /\ i \in Entry /\ d = Set(d1, i, e) /\ Files(d, own, rank, pos)
        /\ e.kind \in {"name", "free"} /\ \A t \in UsedOf(d) : sec2[t] = sec1[t]
    BY <1>1, <1>3, <1>7, <1>8, <2>1
  <2>3. ~ (d1[i].kind = "name" /\ d1[i].name = m) /\ ~ (e.kind = "name" /\ e.name = m)
    BY <1>7, <1>9, <1>13, <2>1
  <2>4. FileNamed(d, sec2, m) = FileNamed(d1, sec1, m)
    BY ONLY <2>2, <2>3, OtherNamed
  <2>5. QED BY <1>8, <2>1, <2>4
<1>14. FileNamed(dir', sectors', n) = <<>>
  <2>1. find_entry(d, n) = i /\ i # None
    BY <1>1, <1>3, <1>7, <1>9, <1>10, Finds, Constants DEF Entry
  <2>2. PICK f, sec : f = ContentsIn(d, sec, i) /\ sec = sectors'
    OBVIOUS
  <2>3. f = <<>>
    <3>1. f = [k \in 1 .. d[i].size |-> f[k]]
      BY ONLY <2>2 DEF ContentsIn
    <3>2. QED BY <1>7, <1>9, <3>1
  <2>4. QED BY <1>8, <2>1, <2>2, <2>3 DEF FileNamed
<1>15. StoredFiles' = [StoredFiles EXCEPT ![n] = <<>>]
  BY <1>13, <1>14, StoredNow, StoredThen
<1>16. QED BY <1>8, <1>11, <1>12, <1>15 DEF FS!Appear

(* The last write, of an entry.                                            *)
LEMMA EntryLast ==
  ASSUME IInv, CInv, IInv', Flush, NEW i \in Entry, NEW e, queue = <<WriteEntry(i, e)>>,
         NEW d, NEW own, NEW rank, NEW pos, Leads(dir, queue, d), Good(d, own, rank, pos)
  PROVE  /\ dir' = d /\ sent' = sent /\ \A t \in UsedOf(d) : sectors'[t] = sectors[t]
         /\ d = Set(dir, i, e) /\ d[i] = e /\ \A x \in Entry \ {i} : d[x] = dir[x]
         /\ Writers(d, own, pos, sectors, fh, sent)
<1>1. Head(queue) = WriteEntry(i, e) /\ d = Set(dir, i, e)
  BY LeadsOnly
<1>2. dir' = d /\ sent' = sent /\ \A t \in UsedOf(d) : sectors'[t] = sectors[t]
  BY <1>1, EntryReaches
<1>3. d[i] = e /\ \A x \in Entry \ {i} : d[x] = dir[x]
  BY <1>1, TheWay DEF Set
<1>4. Writers(d, own, pos, sectors, fh, sent)
  BY TheWay, NoData
<1>5. QED BY <1>1, <1>2, <1>3, <1>4

LEMMA OthersStay ==
  ASSUME IInv, CInv, IInv', Flush, NEW i \in Entry, NEW e, queue = <<WriteEntry(i, e)>>,
         NEW d, NEW own, NEW rank, NEW pos, Leads(dir, queue, d), Good(d, own, rank, pos),
         e.kind \in {"name", "free"},
         NEW m, ~ (dir[i].kind = "name" /\ dir[i].name = m), ~ (e.kind = "name" /\ e.name = m)
  PROVE  FileNamed(dir', sectors', m) = FileNamed(dir, sectors, m)
<1>1. PICK sec1, sec2, d1 : sec1 = sectors /\ sec2 = sectors' /\ d1 = dir
  OBVIOUS
<1>2. /\ d1 \in [Entry -> EntryType] /\ i \in Entry /\ d = Set(d1, i, e) /\ Files(d, own, rank, pos)
      /\ e.kind \in {"name", "free"} /\ \A t \in UsedOf(d) : sec2[t] = sec1[t]
  BY <1>1, TheWay, EntryLast
<1>3. ~ (d1[i].kind = "name" /\ d1[i].name = m) /\ ~ (e.kind = "name" /\ e.name = m)
  BY <1>1
<1>4. FileNamed(d, sec2, m) = FileNamed(d1, sec1, m)
  BY ONLY <1>2, <1>3, OtherNamed
<1>5. dir' = d
  BY EntryLast
<1>6. QED BY <1>1, <1>4, <1>5

(* The length of a file that is closed.                                    *)
LEMMA LengthShows ==
  ASSUME IInv, CInv, IInv', Flush,
         NEW d, NEW own, NEW rank, NEW pos, Leads(dir, queue, d), Good(d, own, rank, pos),
         NEW c \in Channels, fh[c].filemode = "write", SizeDue(fh[c])
  PROVE  FS!Store(c)
<1>1. /\ Files(d, own, rank, pos) /\ Handled(fh, d, own, pos) /\ Known(d) /\ Known(dir)
      /\ d \in [Entry -> EntryType] /\ Live(d) \subseteq Entry
      /\ dir \in [Entry -> EntryType] /\ Live(dir) \subseteq Entry /\ sectors \in Bytes
  BY TheWay
<1>2. PICK i, h, s : h = fh[c] /\ i = h.entry /\ s = sent[c]
  OBVIOUS
<1>3. PICK e : e = [dir[i] EXCEPT !.size = h.size]
  OBVIOUS
<1>4. /\ i \in Live(dir) /\ i \in Entry /\ dir[i].kind = "name" /\ queue = <<WriteEntry(i, e)>>
      /\ h.size \in Nat /\ h.filemode = "write"
  BY <1>1, <1>2, <1>3 DEF SizeDue, Handled, HandleType
<1>5. e.kind = "name" /\ e.name = dir[i].name /\ e.size = h.size
  <2>1. dir[i] \in EntryType
    BY <1>1, <1>4
  <2>2. QED BY <1>3, <1>4, <2>1 DEF EntryType
<1>6. /\ dir' = d /\ sent' = sent /\ \A t \in UsedOf(d) : sectors'[t] = sectors[t]
      /\ d[i] = e /\ Writers(d, own, pos, sectors, fh, sent)
  BY <1>4, EntryLast
<1>7. /\ s # None /\ s.name \in Names /\ s.name = d[i].name /\ s.cells \in Seq(CellType) /\ Len(s.cells) = h.size
      /\ Holds(d, own, pos, sectors, i, h.size, s.cells)
  BY <1>2, <1>4, <1>6, NotNone DEF Writers, Writer
<1>8. PICK n \in Names : n = s.name
  BY <1>7
<1>9. i \in Live(d) /\ d[i].kind = "name" /\ d[i].name = n /\ d[i].size = h.size
  BY <1>4, <1>5, <1>6, <1>7, <1>8 DEF Live
<1>10. ASSUME NEW m \in Names, m # n
       PROVE  FileNamed(dir', sectors', m) = FileNamed(dir, sectors, m)
  <2>1. /\ IInv /\ CInv /\ IInv' /\ Flush /\ i \in Entry /\ queue = <<WriteEntry(i, e)>>
        /\ Leads(dir, queue, d) /\ Good(d, own, rank, pos) /\ e.kind \in {"name", "free"}
    BY <1>4, <1>5
  <2>2. ~ (dir[i].kind = "name" /\ dir[i].name = m) /\ ~ (e.kind = "name" /\ e.name = m)
    BY <1>5, <1>6, <1>9, <1>10
  <2>3. QED BY ONLY <2>1, <2>2, OthersStay
<1>11. FileNamed(d, sectors, n) = s.cells
  <2>1. find_entry(d, n) = i /\ i # None
    BY <1>1, <1>4, <1>9, Finds, Constants DEF Entry
  <2>2. PICK z \in Nat : z = h.size
    BY <1>4
  <2>3. PICK cells, sec : cells = s.cells /\ sec = sectors
    OBVIOUS
  <2>4. cells = [k \in 1 .. z |-> cells[k]]
    BY <1>7, <2>2, <2>3
  <2>5. /\ z \in Nat /\ Files(d, own, rank, pos) /\ i \in Live(d) /\ d[i].kind = "name"
        /\ z = d[i].size /\ Fits(d, own, pos, i, z)
        /\ Holds(d, own, pos, sec, i, z, cells) /\ Grows(d, own, i, d)
    BY <1>1, <1>7, <1>9, <2>2, <2>3, Itself DEF Files, Sized
  <2>6. ContentsIn(d, sec, i) = cells
    BY ONLY <2>4, <2>5, IsContents
  <2>7. QED BY <2>1, <2>3, <2>6 DEF FileNamed
<1>12. FileNamed(dir', sectors', n) = s.cells
  <2>1. PICK sec1, sec2, f : sec1 = sectors /\ sec2 = sectors' /\ f = find_entry(d, n)
    OBVIOUS
  <2>2. \A t \in UsedOf(d) : sec2[t] = sec1[t]
    BY <1>6, <2>1
  <2>3. /\ Files(d, own, rank, pos) /\ find_entry(d, n) = f
        /\ f # None => /\ f \in Live(d) /\ d[f].kind = "name" /\ Grows(d, own, f, d)
                       /\ d[f].size = d[f].size
    BY <1>1, <2>1, FoundEntry, Itself
  <2>4. FileNamed(d, sec2, n) = FileNamed(d, sec1, n)
    BY ONLY <2>2, <2>3, NamedSame
  <2>5. QED BY <1>6, <1>11, <2>1, <2>4
<1>13. StoredFiles' = [StoredFiles EXCEPT ![n] = s.cells]
  BY <1>10, <1>12, StoredNow, StoredThen
<1>14. QED BY <1>2, <1>6, <1>7, <1>8, <1>13 DEF FS!Store

(* Data goes behind the bytes that the entry of its file counts.            *)
LEMMA DataHidden ==
  ASSUME IInv, CInv, NEW d, NEW own, NEW rank, NEW pos, Leads(dir, queue, d), Good(d, own, rank, pos), d = dir,
         NEW c \in Channels, fh[c].filemode = "write", NEW w, queue = <<w>>, DataOf(w, d, pos, fh[c], sent[c]),
         NEW v, v = w \/ \E k \in 1 .. Len(w.data) - 1 : v = WriteData(w.at, w.offset, SubSeq(w.data, 1, k)),
         dir' = dir, sectors' = After(sectors, v)
  PROVE  StoredFiles' = StoredFiles
<1>1. /\ Files(d, own, rank, pos) /\ Handled(fh, d, own, pos) /\ sectors \in Bytes
      /\ Writers(d, own, pos, Coming(sectors, queue), fh, sent) /\ Blanked(d, sectors)
  BY TheWay, Whole
<1>2. sent[c].cells \in Seq(CellType) /\ Len(sent[c].cells) = fh[c].size
  BY <1>1 DEF Writers, Writer
<1>3. PICK was, now : was = sectors /\ now = After(sectors, v)
  OBVIOUS
<1>4. \A f \in Live(d) : Alike(d, own, pos, f, d[f].size, was, now)
  BY <1>1, <1>2, <1>3, DataGoes
<1>5. ASSUME NEW m
      PROVE  FileNamed(d, now, m) = FileNamed(d, was, m)
  <2>1. PICK f : f = find_entry(d, m)
    OBVIOUS
  <2>2. /\ Files(d, own, rank, pos) /\ find_entry(d, m) = f
        /\ f # None => /\ f \in Live(d) /\ d[f].kind = "name" /\ Grows(d, own, f, d)
                       /\ d[f].size = d[f].size /\ Alike(d, own, pos, f, d[f].size, was, now)
    BY <1>1, <1>4, <2>1, FoundEntry, Itself
  <2>3. QED BY ONLY <2>2, NamedAlike
<1>6. QED BY <1>3, <1>5, StoredSame

(* A write of an entry that only makes it longer, or leads it on.           *)
LEMMA LongerHidden ==
  ASSUME IInv, IInv', Flush, NEW i \in Live(dir), dir[i].next = None, NEW e, Head(queue) = WriteEntry(i, e),
         e.kind = dir[i].kind, e.name = dir[i].name, e.size = dir[i].size,
         \A k \in Listed(dir[i]) : e.sectors[k] = dir[i].sectors[k]
  PROVE  UNCHANGED FS!vars
<1>1. dir' = Set(dir, i, e) /\ sent' = sent /\ \A s \in UsedOf(dir') : sectors'[s] = sectors[s]
  BY EntryReaches
<1>2. dir[i].kind # "free" /\ i \in Entry
  BY DEF Live
<1>3. ~ Linking
  <2>1. Head(queue).entry = e /\ Head(queue).at = i
    BY Writes
  <2>2. QED BY <1>2, <2>1 DEF Linking
<1>4. PICK own, rank, pos : Files(dir, own, rank, pos)
  BY <1>3 DEF IInv, Sound
<1>5. PICK d1, d2, sec1, sec2 : d1 = dir /\ d2 = dir' /\ sec1 = sectors /\ sec2 = sectors'
  OBVIOUS
<1>6. /\ Files(d1, own, rank, pos) /\ i \in Live(d1) /\ d1[i].next = None
      /\ e.kind = d1[i].kind /\ e.name = d1[i].name /\ e.size = d1[i].size
      /\ \A k \in Listed(d1[i]) : e.sectors[k] = d1[i].sectors[k]
      /\ d2 = Set(d1, i, e) /\ \A s \in UsedOf(d2) : sec2[s] = sec1[s]
  BY <1>1, <1>4, <1>5
<1>7. ASSUME NEW n
      PROVE  FileNamed(d2, sec2, n) = FileNamed(d1, sec1, n)
  BY ONLY <1>6, GrownNamed
<1>8. StoredFiles' = StoredFiles
  BY <1>5, <1>7, StoredSame
<1>9. QED BY <1>1, <1>8 DEF FS!vars

LEMMA SectorHidden ==
  ASSUME IInv, CInv, IInv', Flush,
         NEW d, NEW own, NEW rank, NEW pos, Leads(dir, queue, d), Good(d, own, rank, pos),
         NEW c \in Channels, fh[c].filemode = "write", SectorDue(fh[c], sent[c], d, pos)
  PROVE  UNCHANGED FS!vars
<1>1. PICK x, k, s : x = fh[c].cur_entry /\ k = fh[c].cur_sindex /\ s = fh[c].cur_sector
  OBVIOUS
<1>2. PICK e : e = With(dir[x], k, s)
  OBVIOUS
<1>3. PICK w : queue = <<WriteEntry(x, e), w>>
  BY <1>1, <1>2 DEF SectorDue
<1>4. x \in Live(dir) /\ dir[x].next = None /\ Filled(dir[x], k) /\ k \in Nat
  BY <1>1 DEF SectorDue
<1>5. dir[x] \in EntryType
  BY <1>4 DEF IInv, Live
<1>6. e.kind = dir[x].kind /\ e.name = dir[x].name /\ e.size = dir[x].size
  BY <1>2, <1>5 DEF With, EntryType
<1>7. \A j \in Listed(dir[x]) : e.sectors[j] = dir[x].sectors[j]
  <2>1. \A j \in Listed(dir[x]) : j # k /\ j \in Slot
    BY <1>4, <1>5, MaxSectors DEF Filled
  <2>2. dir[x].sectors \in [Slot -> Sector \cup {None}]
    BY <1>5, EntryParts
  <2>3. e.sectors = [dir[x].sectors EXCEPT ![k] = s]
    BY <1>2, <1>5 DEF With, EntryType
  <2>4. QED BY <2>1, <2>2, <2>3
<1>8. Head(queue) = WriteEntry(x, e)
  BY <1>3
<1>9. QED BY <1>4, <1>6, <1>7, <1>8, LongerHidden

LEMMA LinkHidden ==
  ASSUME IInv, CInv, IInv', Flush,
         NEW d, NEW own, NEW rank, NEW pos, Leads(dir, queue, d), Good(d, own, rank, pos),
         NEW c \in Channels, fh[c].filemode = "write", LinkDue(fh[c], sent[c], d, pos)
  PROVE  UNCHANGED FS!vars
<1>1. PICK j, s : j = fh[c].cur_entry /\ s = fh[c].cur_sector
  OBVIOUS
<1>2. PICK i \in Live(dir) : \E w :
        dir[i].next = None /\ queue = <<WriteEntry(i, To(dir[i], j)), WriteEntry(j, NewList(s)), w>>
  BY <1>1 DEF LinkDue
<1>3. PICK e : e = To(dir[i], j)
  OBVIOUS
<1>4. dir[i].next = None /\ Head(queue) = WriteEntry(i, e)
  BY <1>2, <1>3
<1>5. dir[i] \in EntryType
  BY DEF IInv, Live
<1>6. e.kind = dir[i].kind /\ e.name = dir[i].name /\ e.size = dir[i].size /\ e.sectors = dir[i].sectors
  BY <1>3, <1>5, ToParts
<1>7. QED BY <1>4, <1>6, LongerHidden

(* The sectors that the entries list are the same.                         *)
Agree(d, sec1, sec2) == \A s \in UsedOf(d) : sec2[s] = sec1[s]

(* The entry that a link already leads to: no name, and not counted yet.    *)
LEMMA LedTo ==
  ASSUME NEW before, NEW own, NEW rank, NEW pos, Files(before, own, rank, pos),
         NEW i \in Live(before), before[i].next = None, NEW j, j \in Entry,
         NEW t, t = To(before[i], j), NEW d1, d1 = Set(before, i, t),
         j \notin Live(d1), NEW e, e.kind = "list", NEW d2, d2 = Set(d1, j, e),
         NEW sec1, NEW sec2, Agree(d2, sec1, sec2), NEW n
  PROVE  FileNamed(d2, sec2, n) = FileNamed(d1, sec1, n)
<1>1. before \in [Entry -> EntryType] /\ Live(before) \subseteq Entry /\ before[i] \in EntryType
  BY FilesTyped
<1>2. /\ t.kind = before[i].kind /\ t.name = before[i].name /\ t.size = before[i].size
      /\ t.sectors = before[i].sectors /\ Listed(t) = Listed(before[i])
  BY <1>1, ToParts
<1>3. d1[i] = t /\ \A x \in Entry \ {i} : d1[x] = before[x]
  BY <1>1 DEF Set
<1>4. d2[j] = e /\ \A x \in Entry \ {j} : d2[x] = d1[x]
  <2>1. d1 = [before EXCEPT ![i] = t] /\ d2 = [d1 EXCEPT ![j] = e]
    BY DEF Set
  <2>2. QED BY <1>1, <2>1
<1>5. i # j /\ j \notin Live(before)
  BY <1>2, <1>3 DEF Live
<1>6. \A x \in Live(before) :
        /\ x \in Entry /\ d2[x] = d1[x] /\ x # j /\ d1[x].sectors = before[x].sectors /\ d1[x].size = before[x].size
        /\ d1[x].kind = before[x].kind
        /\ before[x].next # None => d1[x].next = before[x].next
  BY <1>1, <1>2, <1>3, <1>4, <1>5
<1>7. PICK f : f = find_entry(d1, n)
  OBVIOUS
<1>8. find_entry(d2, n) = f
  <2>1. d1[j].kind = "free"
    BY DEF Live
  <2>2. QED BY <1>4, <1>7, <2>1, SameFound
<1>9. \A g : Grows(before, own, g, d1) /\ Grows(before, own, g, d2)
  BY <1>6 DEF Grows
<1>10. f # None => /\ f \in Live(before) /\ before[f].kind = "name" /\ Grows(before, own, f, d1)
                   /\ Grows(before, own, f, d2) /\ d1[f].size = before[f].size /\ d2[f].size = before[f].size
  <2>1. ASSUME f # None PROVE f \in Live(before) /\ before[f].kind = "name"
    <3>1. f \in Entry /\ d1[f].kind = "name"
      BY <1>7, <2>1, FoundEntry DEF Live
    <3>2. before[f].kind = "name"
      BY <1>2, <1>3, <3>1
    <3>3. QED BY <3>1, <3>2 DEF Live
  <2>2. QED BY <1>6, <1>9, <2>1
<1>11. \A s \in UsedOf(before) : sec2[s] = sec1[s]
  <2>1. ASSUME NEW x \in Live(before), NEW k \in Listed(before[x])
        PROVE  before[x].sectors[k] \in UsedOf(d2)
    <3>1. x \in Live(d2) /\ d2[x].sectors = before[x].sectors /\ d2[x].kind = before[x].kind
      BY <1>6 DEF Live
    <3>2. k \in Listed(d2[x])
      BY <3>1 DEF Listed, curentry_max_sectors
    <3>3. QED BY <3>1, <3>2 DEF UsedOf, SectorsOf
  <2>2. QED BY <2>1 DEF Agree, UsedOf, SectorsOf
<1>12. Files(before, own, rank, pos) /\ find_entry(d1, n) = f
  BY <1>7
<1>13. QED BY ONLY <1>8, <1>10, <1>11, <1>12, NamedSame

LEMMA ListHidden ==
  ASSUME IInv, CInv, IInv', Flush,
         NEW d, NEW own, NEW rank, NEW pos, Leads(dir, queue, d), Good(d, own, rank, pos),
         NEW c \in Channels, fh[c].filemode = "write", ListDue(fh[c], sent[c], d, pos)
  PROVE  UNCHANGED FS!vars
<1>1. PICK j, s : j = fh[c].cur_entry /\ s = fh[c].cur_sector
  OBVIOUS
<1>2. PICK e : e = NewList(s)
  OBVIOUS
<1>3. PICK w : queue = <<WriteEntry(j, e), w>>
  BY <1>1, <1>2 DEF ListDue
<1>4. PICK before : \E i \in Live(before) :
        Sound(before) /\ before[i].next = None /\ dir = Set(before, i, To(before[i], j))
  BY <1>1 DEF ListDue
<1>5. PICK i \in Live(before) : Sound(before) /\ before[i].next = None /\ dir = Set(before, i, To(before[i], j))
  BY <1>4
<1>6. PICK o, r, p : Files(before, o, r, p)
  BY <1>5 DEF Sound
<1>7. j \notin Live(dir) /\ s \in Sector /\ j \in Entry
  <2>1. j \in Entry
    BY <1>1, TheWay DEF Handled, HandleType
  <2>2. QED BY <1>1, <2>1 DEF ListDue
<1>8. e.kind = "list"
  BY <1>2, <1>7, NewEntries
<1>9. Head(queue) = WriteEntry(j, e)
  BY <1>3
<1>10. dir' = Set(dir, j, e) /\ sent' = sent /\ \A t \in UsedOf(dir') : sectors'[t] = sectors[t]
  BY <1>9, EntryReaches
<1>11. PICK d1, d2, sec1, sec2, link :
         d1 = dir /\ d2 = dir' /\ sec1 = sectors /\ sec2 = sectors' /\ link = To(before[i], j)
  OBVIOUS
<1>12. /\ Files(before, o, r, p) /\ i \in Live(before) /\ before[i].next = None
       /\ j \in Entry /\ link = To(before[i], j) /\ d1 = Set(before, i, link) /\ j \notin Live(d1) /\ e.kind = "list"
       /\ d2 = Set(d1, j, e) /\ Agree(d2, sec1, sec2)
  BY <1>5, <1>6, <1>7, <1>8, <1>10, <1>11 DEF Agree
<1>13. ASSUME NEW n
       PROVE  FileNamed(d2, sec2, n) = FileNamed(d1, sec1, n)
  BY ONLY <1>12, LedTo
<1>14. StoredFiles' = StoredFiles
  BY <1>11, <1>13, StoredSame
<1>15. QED BY <1>10, <1>14 DEF FS!vars

(* A file that is there, and that nobody writes.                            *)
LEMMA NotWritten ==
  ASSUME IInv, CInv, IInv', Flush, NEW i \in Live(dir), dir[i].kind = "name", NEW e, queue = <<WriteEntry(i, e)>>,
         \A c \in Channels : fh[c].filemode # "closed" => fh[c].entry # i,
         NEW d, NEW own, NEW rank, NEW pos, Leads(dir, queue, d), Good(d, own, rank, pos)
  PROVE  /\ dir[i].name \in Names /\ StoredFiles[dir[i].name] # None /\ FS!Writers(dir[i].name) = {}
         /\ StoredFiles[dir[i].name] = ContentsIn(dir, sectors, i)
         /\ Sound(dir)
<1>1. /\ Files(d, own, rank, pos) /\ Handled(fh, d, own, pos) /\ Known(d) /\ Known(dir)
      /\ d \in [Entry -> EntryType] /\ Live(d) \subseteq Entry
      /\ dir \in [Entry -> EntryType] /\ Live(dir) \subseteq Entry /\ sectors \in Bytes
  BY TheWay
<1>2. /\ Writers(d, own, pos, sectors, fh, sent) /\ \A x \in Entry \ {i} : d[x] = dir[x]
  BY <1>1, EntryLast
<1>3. Sound(dir)
  <2>1. Head(queue).at = i /\ dir[i].kind # "free"
    BY Writes
  <2>2. ~ Linking
    BY <2>1 DEF Linking
  <2>3. QED BY <2>2 DEF IInv
<1>4. PICK n : n = dir[i].name
  OBVIOUS
<1>5. n \in Names /\ find_entry(dir, n) = i /\ i # None
  BY <1>1, <1>4, Finds, Constants DEF Known, Entry
<1>6. StoredFiles[n] = ContentsIn(dir, sectors, i)
  BY <1>5, StoredNow DEF FileNamed
<1>7. StoredFiles[n] # None
  <2>1. PICK o, r, p : Files(dir, o, r, p)
    BY <1>3 DEF Sound
  <2>2. FileNamed(dir, sectors, n) # None
    BY <1>1, <1>5, <2>1, FileWhole
  <2>3. QED BY <1>5, <2>2, StoredNow
<1>8. FS!Writers(n) = {}
  <2>1. ASSUME NEW c \in Channels, fh[c].filemode = "write" PROVE d[fh[c].entry].name # n
    <3>1. PICK k : k = fh[c].entry
      OBVIOUS
    <3>2. k # i /\ k \in Entry /\ d[k].kind = "name"
      BY <1>1, <2>1, <3>1 DEF Handled, HandleType, Opened
    <3>3. dir[k] = d[k] /\ k \in Live(dir)
      BY <1>2, <3>2 DEF Live
    <3>4. QED BY <1>1, <1>4, <3>1, <3>2, <3>3 DEF Known
  <2>2. QED BY <1>2, <2>1, NobodyWrites
<1>9. QED BY <1>3, <1>4, <1>5, <1>6, <1>7, <1>8

(* An entry is erased: the first of a file that is deleted, or a later one. *)
LEMMA EraseShows ==
  ASSUME IInv, CInv, IInv', Flush, EraseDue,
         NEW d, NEW own, NEW rank, NEW pos, Leads(dir, queue, d), Good(d, own, rank, pos)
  PROVE  UNCHANGED FS!vars \/ \E n \in Names : FS!Remove(n)
<1>1. PICK i \in Live(dir) :
        /\ \A c \in Channels : fh[c].filemode # "closed" => fh[c].entry # i
        /\ queue = <<WriteEntry(i, Erased)>>
  BY DEF EraseDue
<1>2. i \in Entry /\ Erased.kind = "free"
  BY NewEntries DEF Live
<1>3. dir' = d /\ sent' = sent /\ d[i] = Erased /\ \A x \in Entry \ {i} : d[x] = dir[x]
  BY <1>1, <1>2, EntryLast
<1>4. ASSUME NEW m, ~ (dir[i].kind = "name" /\ dir[i].name = m)
      PROVE  FileNamed(dir', sectors', m) = FileNamed(dir, sectors, m)
  BY <1>1, <1>2, <1>4, OthersStay
<1>5. CASE dir[i].kind = "name"
  <2>1. PICK n : n = dir[i].name
    OBVIOUS
  <2>2. n \in Names /\ StoredFiles[n] # None /\ FS!Writers(n) = {}
    BY <1>1, <1>5, <2>1, NotWritten
  <2>3. find_entry(d, n) = None
    <3>1. Known(dir) /\ dir \in [Entry -> EntryType]
      BY TheWay
    <3>2. \A x \in Entry : d[x].kind = "name" => d[x].name # n
      BY <1>2, <1>3, <1>5, <2>1, <3>1 DEF Known, Live
    <3>3. QED BY <3>2, NoFile
  <2>4. FileNamed(dir', sectors', n) = None
    BY <1>3, <2>3 DEF FileNamed
  <2>5. StoredFiles' = [StoredFiles EXCEPT ![n] = None]
    BY <1>4, <2>1, <2>4, StoredNow, StoredThen
  <2>6. QED BY <1>3, <2>2, <2>5 DEF FS!Remove
<1>6. CASE dir[i].kind # "name"
  <2>1. StoredFiles' = StoredFiles
    BY <1>4, <1>6, StoredSame
  <2>2. QED BY <1>3, <2>1 DEF FS!vars
<1>7. QED BY <1>5, <1>6

(* The first entry of a file gets a new name.                              *)
LEMMA NameShows ==
  ASSUME IInv, CInv, IInv', Flush, NameDue,
         NEW d, NEW own, NEW rank, NEW pos, Leads(dir, queue, d), Good(d, own, rank, pos)
  PROVE  \E old, n \in Names : FS!Rename(old, n)
<1>1. PICK i \in Live(dir) : \E n \in Names :
        /\ dir[i].kind = "name" /\ dir[i].name # n
        /\ \A c \in Channels : fh[c].filemode # "closed" => fh[c].entry # i
        /\ queue = <<WriteEntry(i, [dir[i] EXCEPT !.name = n])>>
  BY DEF NameDue
<1>2. PICK n \in Names :
        /\ dir[i].kind = "name" /\ dir[i].name # n
        /\ \A c \in Channels : fh[c].filemode # "closed" => fh[c].entry # i
        /\ queue = <<WriteEntry(i, [dir[i] EXCEPT !.name = n])>>
  BY <1>1
<1>3. PICK e, old : e = [dir[i] EXCEPT !.name = n] /\ old = dir[i].name
  OBVIOUS
<1>4. queue = <<WriteEntry(i, e)>>
  BY <1>2, <1>3
<1>5. /\ Files(d, own, rank, pos) /\ Handled(fh, d, own, pos) /\ Known(d) /\ Known(dir)
      /\ d \in [Entry -> EntryType] /\ Live(d) \subseteq Entry
      /\ dir \in [Entry -> EntryType] /\ Live(dir) \subseteq Entry /\ sectors \in Bytes
  BY TheWay
<1>6. /\ e.kind = "name" /\ e.name = n /\ e.size = dir[i].size /\ e.sectors = dir[i].sectors
      /\ e.next = dir[i].next /\ i \in Entry
  <2>1. dir[i] \in EntryType /\ i \in Entry
    BY <1>5
  <2>2. QED BY <1>2, <1>3, <2>1 DEF EntryType
<1>7. /\ dir' = d /\ sent' = sent /\ d[i] = e /\ \A x \in Entry \ {i} : d[x] = dir[x]
      /\ \A t \in UsedOf(d) : sectors'[t] = sectors[t]
      /\ Writers(d, own, pos, sectors, fh, sent)
  BY <1>4, <1>6, EntryLast
<1>8. /\ old \in Names /\ StoredFiles[old] # None /\ FS!Writers(old) = {}
      /\ StoredFiles[old] = ContentsIn(dir, sectors, i) /\ Sound(dir) /\ old # n
  BY <1>2, <1>3, <1>4, NotWritten
<1>9. i \in Live(d) /\ d[i].kind = "name" /\ d[i].name = n
  BY <1>6, <1>7 DEF Live
<1>10. FS!Writers(n) = {}
  <2>1. ASSUME NEW c \in Channels, fh[c].filemode = "write" PROVE d[fh[c].entry].name # n
    <3>1. PICK k : k = fh[c].entry
      OBVIOUS
    <3>2. k # i /\ k \in Live(d) /\ d[k].kind = "name"
      BY <1>2, <1>5, <2>1, <3>1 DEF Handled, HandleType, Opened, Live
    <3>3. QED BY <1>5, <1>9, <3>1, <3>2 DEF Known
  <2>2. QED BY <1>7, <2>1, NobodyWrites
<1>11. StoredFiles[n] = None
  <2>1. \A x \in Entry : dir[x].kind = "name" => dir[x].name # n
    BY <1>2, <1>5, <1>7, <1>9 DEF Known, Live
  <2>2. find_entry(dir, n) = None
    BY <2>1, NoFile
  <2>3. QED BY <2>2, StoredNow DEF FileNamed
<1>12. ASSUME NEW m \in Names, m # n, m # old
       PROVE  FileNamed(dir', sectors', m) = FileNamed(dir, sectors, m)
  <2>1. /\ IInv /\ CInv /\ IInv' /\ Flush /\ i \in Entry /\ queue = <<WriteEntry(i, e)>>
        /\ Leads(dir, queue, d) /\ Good(d, own, rank, pos) /\ e.kind \in {"name", "free"}
    BY <1>4, <1>6
  <2>2. ~ (dir[i].kind = "name" /\ dir[i].name = m) /\ ~ (e.kind = "name" /\ e.name = m)
    BY <1>3, <1>6, <1>12
  <2>3. QED BY ONLY <2>1, <2>2, OthersStay
<1>13. FileNamed(dir', sectors', old) = None
  <2>1. \A x \in Entry : d[x].kind = "name" => d[x].name # old
    <3>1. d[i].name # old
      BY <1>8, <1>9
    <3>2. ASSUME NEW x \in Entry \ {i}, d[x].kind = "name" PROVE d[x].name # old
      <4>1. x \in Live(dir) /\ d[x] = dir[x]
        BY <1>7, <3>2 DEF Live
      <4>2. QED BY <1>2, <1>3, <1>5, <3>2, <4>1 DEF Known
    <3>3. QED BY <3>1, <3>2
  <2>2. find_entry(d, old) = None
    BY <2>1, NoFile
  <2>3. QED BY <1>7, <2>2 DEF FileNamed
<1>14. FileNamed(dir', sectors', n) = ContentsIn(dir, sectors, i)
  <2>1. find_entry(d, n) = i /\ i # None
    BY <1>5, <1>6, <1>9, Finds, Constants DEF Entry
  <2>2. PICK d1, sec1, sec2 : d1 = dir /\ sec1 = sectors /\ sec2 = sectors'
    OBVIOUS
  <2>3. Alike(d, own, pos, i, d[i].size, sec1, sec2)
    BY <1>7, <2>2 DEF Alike, UsedOf, SectorsOf
  <2>4. Grows(d, own, i, d1)
    <3>1. \A x \in Entry : d1[x].next = d[x].next /\ d1[x].sectors = d[x].sectors
      BY <1>6, <1>7, <2>2
    <3>2. QED BY <1>5, <3>1 DEF Grows
  <2>5. /\ Files(d, own, rank, pos) /\ i \in Live(d) /\ d[i].kind = "name" /\ Grows(d, own, i, d)
        /\ d1[i].size = d[i].size /\ d[i].size = d[i].size
    BY <1>5, <1>6, <1>7, <1>9, <2>2, Itself
  <2>6. ContentsIn(d, sec2, i) = ContentsIn(d1, sec1, i)
    BY ONLY <2>3, <2>4, <2>5, AlikeContents
  <2>7. QED BY <1>7, <2>1, <2>2, <2>6 DEF FileNamed
<1>15. StoredFiles' = [StoredFiles EXCEPT ![old] = None, ![n] = StoredFiles[old]]
  BY <1>8, <1>12, <1>13, <1>14, StoredNow, StoredThen
<1>16. QED BY <1>7, <1>8, <1>10, <1>11, <1>15 DEF FS!Rename

LEMMA FlushStores ==
  ASSUME IInv, CInv, IInv', Flush
  PROVE  FS!Next \/ UNCHANGED FS!vars
<1>1. PICK d : Leads(dir, queue, d) /\ \E own, rank, pos : Good(d, own, rank, pos)
  BY DEF IInv
<1>2. PICK own, rank, pos : Good(d, own, rank, pos)
  BY <1>1
<1>3. Pending(d, pos) /\ queue # <<>>
  BY <1>1, <1>2, FlushIs DEF CInv, Kept, Good
<1>4. CASE NameDue
  <2>1. \E old, n \in Names : FS!Rename(old, n)
    BY <1>1, <1>2, <1>4, NameShows
  <2>2. QED BY <2>1 DEF FS!Next
<1>5. CASE EraseDue
  <2>1. UNCHANGED FS!vars \/ \E n \in Names : FS!Remove(n)
    BY <1>1, <1>2, <1>5, EraseShows
  <2>2. QED BY <2>1 DEF FS!Next
<1>6. ASSUME NEW c \in Channels, fh[c].filemode = "write", Due(fh[c], sent[c], d, pos)
      PROVE  FS!Next \/ UNCHANGED FS!vars
  <2>1. CASE NewDue(fh[c], sent[c])
    <3>1. \E n \in Names : FS!Appear(n)
      BY <1>1, <1>2, <1>6, <2>1, NewFileShows
    <3>2. QED BY <3>1 DEF FS!Next
  <2>2. CASE SizeDue(fh[c])
    <3>1. FS!Store(c)
      BY <1>1, <1>2, <1>6, <2>2, LengthShows
    <3>2. QED BY <3>1 DEF FS!Next
  <2>3. CASE DataDue(fh[c], sent[c], d, pos)
    <3>1. PICK w : DataOf(w, d, pos, fh[c], sent[c]) /\ queue = <<w>>
      BY <2>3 DEF DataDue
    <3>2. Head(queue) = w /\ IsData(w)
      BY <3>1, DataIsData
    <3>3. dir' = dir /\ sectors' = After(sectors, w) /\ sent' = sent /\ d = dir
      BY <1>1, <3>1, <3>2, FlushIs, LeadsOnly
    <3>4. StoredFiles' = StoredFiles
      BY <1>1, <1>2, <1>6, <3>1, <3>3, DataHidden
    <3>5. QED BY <3>3, <3>4 DEF FS!vars
  <2>4. CASE SectorDue(fh[c], sent[c], d, pos)
    BY <1>1, <1>2, <1>6, <2>4, SectorHidden
  <2>5. CASE LinkDue(fh[c], sent[c], d, pos)
    BY <1>1, <1>2, <1>6, <2>5, LinkHidden
  <2>6. CASE ListDue(fh[c], sent[c], d, pos)
    BY <1>1, <1>2, <1>6, <2>6, ListHidden
  <2>7. QED BY <1>6, <2>1, <2>2, <2>3, <2>4, <2>5, <2>6 DEF Due
<1>7. QED BY <1>3, <1>4, <1>5, <1>6 DEF Pending

-----------------------------------------------------------------------------
(***************************************************************************)
(* A power failure.                                                        *)
(***************************************************************************)
(* A first part of what is written last of a file.                          *)
LEMMA ShorterNamed ==
  ASSUME NEW d, NEW own, NEW rank, NEW pos, Files(d, own, rank, pos), Known(d),
         NEW i \in Live(d), d[i].kind = "name", NEW z \in Nat, d[i].size = z, NEW b \in Nat, z <= b,
         NEW cells \in Seq(CellType), Len(cells) = b, NEW sec, Holds(d, own, pos, sec, i, b, cells)
  PROVE  FileNamed(d, sec, d[i].name) = SubSeq(cells, 1, z)
<1>1. find_entry(d, d[i].name) = i /\ i # None
  BY Finds, Constants DEF Live, Entry
<1>2. PICK part : part = SubSeq(cells, 1, z)
  OBVIOUS
<1>3. part = [k \in 1 .. z |-> part[k]] /\ \A k \in 1 .. z : part[k] = cells[k]
  BY <1>2
<1>4. Holds(d, own, pos, sec, i, z, part)
  <2>1. ASSUME NEW x \in Live(d), own[x] = i, NEW k \in Listed(d[x]), NEW o \in 0 .. SectorSize - 1,
               ByteAt(pos, x, k, o) < z
        PROVE  sec[d[x].sectors[k]][o] = part[ByteAt(pos, x, k, o) + 1]
    <3>1. PICK at : at = ByteAt(pos, x, k, o)
      OBVIOUS
    <3>2. at \in Nat
      <4>1. pos[x] \in Nat /\ k \in Nat /\ o \in Nat /\ SectorSize \in Nat
        BY FilesTyped, Constants DEF Listed
      <4>2. SectorSize * (pos[x] + k) \in Nat
        BY <4>1
      <4>3. QED BY <3>1, <4>1, <4>2 DEF ByteAt
    <3>3. at + 1 \in 1 .. z /\ at < b
      BY <2>1, <3>1, <3>2
    <3>4. sec[d[x].sectors[k]][o] = cells[at + 1]
      BY <2>1, <3>1, <3>3 DEF Holds
    <3>5. QED BY <1>3, <3>1, <3>3, <3>4
  <2>2. QED BY <2>1 DEF Holds
<1>5. Fits(d, own, pos, i, z) /\ Grows(d, own, i, d)
  BY Itself DEF Files, Sized
<1>6. Files(d, own, rank, pos) /\ i \in Live(d) /\ d[i].kind = "name" /\ z \in Nat /\ z = d[i].size
  OBVIOUS
<1>7. ContentsIn(d, sec, i) = part
  BY ONLY <1>3, <1>4, <1>5, <1>6, IsContents
<1>8. QED BY <1>1, <1>2, <1>7 DEF FileNamed

(* The file that is being closed has a first part of its contents, and the   *)
(* others are what they were.                                              *)
LEMMA LengthCut ==
  ASSUME IInv, CInv, NEW c \in Channels, Sizing(queue, c), NEW z \in 0 .. fh[c].size,
         PutEntry(fh[c].entry, [dir[fh[c].entry] EXCEPT !.size = z])
  PROVE  \E n \in Names : FS!Cut(n)
<1>1. PICK i, b, s : i = fh[c].entry /\ b = fh[c].size /\ s = sent[c]
  OBVIOUS
<1>2. PICK d2, own, rank, pos :
        /\ dir' = d2 /\ Files(d2, own, rank, pos)
        /\ z \in Nat /\ b \in Nat /\ z <= b
        /\ i \in Live(d2) /\ d2[i].kind = "name" /\ d2[i].size = z
        /\ d2 = Set(dir, i, d2[i]) /\ \A x \in Entry : d2[x].kind = dir[x].kind /\ d2[x].name = dir[x].name
        /\ sectors' = [t \in Sector |-> IF t \in UsedOf(d2) THEN sectors[t] ELSE Blank]
        /\ s \in [name : Names, cells : Seq(CellType)] /\ s.name = d2[i].name
        /\ Len(s.cells) = b /\ Holds(d2, own, pos, sectors, i, b, s.cells)
  BY <1>1, LengthTorn
<1>3. PICK d1, sec1, sec2, e, n : d1 = dir /\ sec1 = sectors /\ sec2 = sectors' /\ e = d2[i] /\ n = d2[i].name
  OBVIOUS
<1>4. d1 \in [Entry -> EntryType] /\ Known(d1) /\ d2 \in [Entry -> EntryType] /\ i \in Entry
  BY <1>2, <1>3, Whole, FilesTyped DEF IInv, Live
<1>5. Known(d2)
  BY <1>2, <1>3, <1>4, KnownToo DEF Live
<1>6. \A t \in UsedOf(d2) : sec2[t] = sec1[t]
  BY <1>2, <1>3, <1>4, UsedTyped
<1>7. ASSUME NEW m, m # n
      PROVE  FileNamed(d2, sec2, m) = FileNamed(d1, sec1, m)
  <2>1. e.kind = "name" /\ e.name = n /\ d1[i].kind = "name" /\ d1[i].name = n
    BY <1>2, <1>3, <1>4
  <2>2. /\ d1 \in [Entry -> EntryType] /\ i \in Entry /\ d2 = Set(d1, i, e) /\ Files(d2, own, rank, pos)
        /\ e.kind \in {"name", "free"} /\ \A t \in UsedOf(d2) : sec2[t] = sec1[t]
        /\ ~ (d1[i].kind = "name" /\ d1[i].name = m) /\ ~ (e.kind = "name" /\ e.name = m)
    BY <1>2, <1>3, <1>4, <1>6, <1>7, <2>1
  <2>3. QED BY ONLY <2>2, OtherNamed
<1>8. FileNamed(d2, sec2, n) = SubSeq(s.cells, 1, z)
  <2>1. PICK cells : cells = s.cells
    OBVIOUS
  <2>2. /\ Files(d2, own, rank, pos) /\ Known(d2) /\ i \in Live(d2) /\ d2[i].kind = "name" /\ z \in Nat
        /\ d2[i].size = z /\ b \in Nat /\ z <= b /\ cells \in Seq(CellType) /\ Len(cells) = b
        /\ Holds(d2, own, pos, sec1, i, b, cells) /\ n = d2[i].name
    BY <1>2, <1>3, <1>5, <2>1
  <2>3. FileNamed(d2, sec1, n) = SubSeq(cells, 1, z)
    BY ONLY <2>2, ShorterNamed
  <2>4. PICK f : f = find_entry(d2, n)
    OBVIOUS
  <2>5. /\ Files(d2, own, rank, pos) /\ find_entry(d2, n) = f
        /\ f # None => f \in Live(d2) /\ d2[f].kind = "name" /\ Grows(d2, own, f, d2) /\ d2[f].size = d2[f].size
    BY <1>2, <2>4, FoundEntry, Itself
  <2>6. FileNamed(d2, sec2, n) = FileNamed(d2, sec1, n)
    BY ONLY <1>6, <2>5, NamedSame
  <2>7. QED BY <2>1, <2>3, <2>6
<1>9. n \in Names /\ s # None /\ s.name = n /\ z \in 0 .. Len(s.cells)
  BY <1>2, <1>3, NotNone
<1>10. c \in FS!Writers(n)
  BY <1>1, <1>9 DEF FS!Writers
<1>11. StoredFiles' = [StoredFiles EXCEPT ![n] = SubSeq(s.cells, 1, z)]
  BY <1>2, <1>3, <1>7, <1>8, <1>9, StoredNow, StoredThen
<1>12. QED BY <1>1, <1>9, <1>10, <1>11 DEF FS!Cut

LEMMA PowerFailsStores ==
  ASSUME IInv, TInv, CInv, ~ AnyTear, PowerFails
  PROVE  FS!PowerFails
<1>1. sent' = [c \in Channels |-> None] /\ (Tear \/ UNCHANGED eeprom)
  BY DEF PowerFails
<1>2. CASE UNCHANGED eeprom
  <2>1. StoredFiles' = StoredFiles
    BY <1>2, StoredSame DEF eeprom
  <2>2. QED BY <1>1, <2>1 DEF FS!PowerFails
<1>3. CASE Tear /\ IsData(Head(queue))
  <2>1. PICK d, own, rank, pos, w : \E c \in Channels :
          /\ Leads(dir, queue, d) /\ Good(d, own, rank, pos) /\ d = dir
          /\ fh[c].filemode = "write" /\ DataOf(w, d, pos, fh[c], sent[c]) /\ queue = <<w>>
    BY <1>3, DataAlone DEF Tear
  <2>2. PICK v : /\ \E k \in 1 .. Len(w.data) - 1 : v = WriteData(w.at, w.offset, SubSeq(w.data, 1, k))
                 /\ dir' = dir /\ sectors' = After(sectors, v)
    BY <1>3, <2>1, DataTorn
  <2>3. StoredFiles' = StoredFiles
    BY <2>1, <2>2, DataHidden
  <2>4. QED BY <1>1, <2>3 DEF FS!PowerFails
<1>4. ASSUME NEW c \in Channels, NEW z \in 0 .. fh[c].size, Sizing(queue, c),
             PutEntry(fh[c].entry, [dir[fh[c].entry] EXCEPT !.size = z])
      PROVE  FS!PowerFails
  <2>1. \E n \in Names : FS!Cut(n)
    BY <1>4, LengthCut
  <2>2. QED BY <1>1, <2>1 DEF FS!PowerFails
<1>5. QED BY <1>1, <1>2, <1>3, <1>4, TearLeaves

(* A block is taken over, whatever sector it goes to.                       *)
LEMMA WriteStores ==
  ASSUME IInv, CInv, queue = <<>>, WriteInSector \/ WriteNewSector \/ WriteNewEntry
  PROVE  \E c \in Channels : FS!Extend(c)
<1>1. WriteMore
  BY DEF WriteInSector, WriteNewSector, WriteNewEntry
<1>2. PICK own, rank, pos : Good(dir, own, rank, pos) /\ Handled(fh, dir, own, pos)
  BY AtStart
<1>3. PICK c \in Channels : c = busy.c
  BY <1>1, <1>2, IsWriting DEF WriteMore
<1>4. PICK h : h = fh[c]
  OBVIOUS
<1>5. h \in HandleType /\ h.cur_soffset \in 0 .. SectorSize - 1
  BY <1>2, <1>4 DEF Handled, HandleType
<1>6. ASSUME NEW g, g.cur_soffset = h.cur_soffset, NEW entries, StoreSome(g, entries)
      PROVE  \E b \in Channels : FS!Extend(b)
  BY <1>1, <1>5, <1>6, StoreSomeStores
<1>7. CASE WriteInSector
  <2>1. StoreSome(h, <<>>)
    BY <1>3, <1>4, <1>7 DEF WriteInSector
  <2>2. QED BY <1>6, <2>1
<1>8. CASE WriteNewSector
  <2>1. PICK s, i, entries : StoreSome([h EXCEPT !.cur_sector = s, !.cur_sindex = i], entries)
    BY <1>3, <1>4, <1>8 DEF WriteNewSector
  <2>2. PICK g : g = [h EXCEPT !.cur_sector = s, !.cur_sindex = i]
    OBVIOUS
  <2>3. g.cur_soffset = h.cur_soffset
    BY <1>5, <2>2 DEF HandleType
  <2>4. QED BY <1>6, <2>1, <2>2, <2>3
<1>9. CASE WriteNewEntry
  <2>1. PICK s, next, entries :
          StoreSome([h EXCEPT !.cur_sector = s, !.cur_sindex = 0, !.cur_entry = next], entries)
    BY <1>3, <1>4, <1>9 DEF WriteNewEntry
  <2>2. PICK g : g = [h EXCEPT !.cur_sector = s, !.cur_sindex = 0, !.cur_entry = next]
    OBVIOUS
  <2>3. g.cur_soffset = h.cur_soffset
    BY <1>5, <2>2 DEF HandleType
  <2>4. QED BY <1>6, <2>1, <2>2, <2>3
<1>10. QED BY <1>7, <1>8, <1>9

LEMMA StepStores ==
  ASSUME IInv, TInv, CInv, IInv', ~ AnyTear, [Next]_vars
  PROVE  FS!Next \/ UNCHANGED FS!vars
<1>1. CASE UNCHANGED vars
  <2>1. UNCHANGED <<dir, sectors, sent>>
    BY <1>1 DEF vars, eeprom, hist
  <2>2. QED BY <2>1, Unseen
<1>2. CASE Flush
  BY <1>2, FlushStores
<1>3. CASE PowerFails
  <2>1. FS!PowerFails
    BY <1>3, PowerFailsStores
  <2>2. QED BY <2>1 DEF FS!Next
<1>4. ASSUME queue = <<>>, Next, ~ Flush, ~ PowerFails
      PROVE  FS!Next \/ UNCHANGED FS!vars
  <2>1. ASSUME NEW c \in Channels, NEW n \in Names, OpenWrite(c, n) \/ OpenAppend(c, n)
        PROVE  FS!Next
    <3>1. FS!Begin(c, n)
      BY <1>4, <2>1, OpenWriteStores, OpenAppendStores
    <3>2. QED BY <3>1 DEF FS!Next
  <2>2. CASE WriteInSector \/ WriteNewSector \/ WriteNewEntry
    <3>1. \E c \in Channels : FS!Extend(c)
      BY <1>4, <2>2, WriteStores
    <3>2. QED BY <3>1 DEF FS!Next
  <2>3. CASE CloseDone
    <3>1. \E c \in Channels : FS!End(c)
      BY <1>4, <2>3, CloseDoneStores
    <3>2. QED BY <3>1 DEF FS!Next
  <2>4. CASE Format
    <3>1. FS!Clear
      BY <1>4, <2>4, FormatStores
    <3>2. QED BY <3>1 DEF FS!Next
  <2>5. ASSUME UNCHANGED <<dir, sectors, sent>>
        PROVE  FS!Next \/ UNCHANGED FS!vars
    BY <2>5, Unseen
  <2>6. ASSUME NEW c \in Channels, NEW n \in Names, OpenRead(c, n)
        PROVE  UNCHANGED <<dir, sectors, sent>>
    BY <2>6 DEF OpenRead, Opens, eeprom, hist
  <2>7. ASSUME NEW c \in Channels, Read(c) \/ CloseRead(c)
        PROVE  UNCHANGED <<dir, sectors, sent>>
    BY <2>7 DEF Read, CloseRead, eeprom, hist
  <2>8. ASSUME NEW c \in Channels, NEW n, NEW closing, Write(c, n, closing)
        PROVE  UNCHANGED <<dir, sectors, sent>>
    BY <2>8 DEF Write, eeprom, hist
  <2>9. CASE ReadSome \/ ReadDone
    BY <2>5, <2>9 DEF ReadSome, ReadDone, eeprom, hist
  <2>10. CASE WriteFails \/ WriteDone
    BY <2>5, <2>10 DEF WriteFails, WriteDone, CloseEntry, eeprom, hist
  <2>11. ASSUME NEW n \in Names, Delete(n)
         PROVE  UNCHANGED <<dir, sectors, sent>>
    BY <2>11 DEF Delete, eeprom, hist
  <2>12. ASSUME NEW old \in Names, NEW new \in Names, Rename(old, new)
         PROVE  UNCHANGED <<dir, sectors, sent>>
    BY <2>12 DEF Rename, eeprom, hist
  <2>13. CASE DeleteEntry
    BY <2>5, <2>13 DEF DeleteEntry, eeprom, hist
  <2>14. QED
    BY <1>4, <2>1, <2>2, <2>3, <2>4, <2>5, <2>6, <2>7, <2>8, <2>9, <2>10, <2>11, <2>12, <2>13 DEF Next
<1>5. Next /\ ~ Flush /\ ~ PowerFails => queue = <<>>
  BY DEF Next, OpenWrite, OpenAppend, OpenRead, Read, CloseRead, Write, ReadSome, ReadDone, WriteInSector,
         WriteNewSector, WriteNewEntry, WriteFails, WriteDone, CloseDone, Delete, Rename, DeleteEntry, Format,
         WriteMore, Opens, Ready, Running
<1>6. QED BY <1>1, <1>2, <1>3, <1>4, <1>5

LEMMA InitStores == Init => FS!Init
<1> SUFFICES ASSUME Init PROVE FS!Init
  OBVIOUS
<1>1. dir = [i \in Entry |-> Erased] /\ sent = [c \in Channels |-> None]
  BY DEF Init
<1>2. \A x \in Entry : dir[x].kind # "name"
  BY <1>1, NewEntries
<1>3. \A n : find_entry(dir, n) = None
  BY <1>2, NoFile
<1>4. StoredFiles = [n \in Names |-> None]
  BY <1>3, StoredNow DEF FileNamed
<1>5. QED BY <1>1, <1>4 DEF FS!Init

(* The file system is a file store: what can be seen of its files changes   *)
(* in the steps of the abstract one only, whatever writes are under way.     *)
(* The power may fail before any write and inside those of data, of a new    *)
(* entry, of a sector or link added to one, and of a length, which may be left *)
(* half new.  It does not fail between a link and the entry it leads to, nor  *)
(* inside the write that erases or renames an entry; append is used where it  *)
(* works.                                                                  *)
THEOREM FilesStored ==
  ASSUME ~ AnyAppend, ~ AnyCut, ~ AnyTear
  PROVE  Spec => Stores
<1>1. Init => FS!Init
  BY InitStores
<1>2. (IInv /\ TInv /\ CInv) /\ (IInv /\ TInv /\ CInv)' /\ [Next]_vars => [FS!Next]_FS!vars
  BY StepStores
<1>3. Spec => [](IInv /\ TInv /\ CInv)
  BY ContentsKept
<1>4. QED BY <1>1, <1>2, <1>3, PTL DEF Spec, Stores, FS!Spec
=============================================================================
