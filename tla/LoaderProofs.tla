---------------------------- MODULE LoaderProofs ----------------------------
(***************************************************************************)
(* Proofs about Loaders: the inductive invariant LoadersInv, and from it    *)
(* WholeOrTold, SavedAsSent, SectorsAsTold and BuffersKept.                  *)
(*                                                                         *)
(* The order: the invariant; sequences and what is computed from them byte  *)
(* by byte (escapes, a file received); buffers; what each protocol sends,    *)
(* as Delivers; the actions that load, that store, that serve sectors.       *)
(***************************************************************************)
EXTENDS Loaders, NaturalsInduction, WellFoundedInduction, SequenceTheorems, TLAPS

(* No key in the middle of a save, no leaving between the command and the    *)
(* data of a write, no second job before the first is cleared.              *)
AsUsed == ~KeysInSave /\ ~LeavesInWrite /\ ~FastComputer

Whats  == {"nothing", "file", "sector", "command", "capture", "list"}
Buffer ==
  [allocated : BOOLEAN, secondary : Nat, what : Whats, data : [Indices -> Nat], position : Indices,
   lastused : Indices, sendeoi : BOOLEAN, mustflush : BOOLEAN, rest : Seq(Nat),
   sector : [next : Sectors \cup {0}, bytes : Seq(Int)]]
Computer ==
  [text : Seq(Nat), got : Seq(Int), verdict : {"none", "complete", "error", "gave up"}, left : Seq(Nat),
   saved : BOOLEAN, want : Seq(Int), heard : Seq(Int),
   said : {"nothing", "ok", "protected", "error"}, changed : BOOLEAN]

Disks == [DOMAIN Images -> [Sectors -> Sector]]

Typed ==
  /\ loader \in Loaders /\ driver \in {"fat", "d64"}
  /\ pc \in {"start", "command", "block", "save", "chain", "data", "sending", "clear", "done", "over"}
  /\ pool \in [Slot -> Buffer] /\ mine \subseteq Slot /\ error \in Nat
  /\ image \in DOMAIN Images /\ store \in Disks
  /\ file \in Seq(Nat) /\ first \in BOOLEAN /\ at \in Sectors \cup {0} /\ job \in Sectors \cup {0}
  /\ dir_changed \in BOOLEAN /\ c64 \in Computer /\ turns \in Nat /\ faults \in Nat

(* Which loader may be where.                                               *)
Served == {"command", "data", "sending", "clear", "chain"}
Placed ==
  /\ pc = "block" => loader \in FileLoaders
  /\ pc = "save"  => loader \in Savers
  /\ pc = "command" => loader \in ByName \cup {"eload"} \cup (SectorLoaders \ {"geos_s1"})
  /\ pc = "data"    => loader \in {"geos", "mmzak"}
  /\ pc = "sending" => loader = "mmzak"
  /\ pc = "clear"   => loader = "dreamload"
  /\ pc = "chain"   => loader \in {"uload3", "geos_s1"}
  /\ pc \in {"data", "chain"} => at \in Addresses

(* The buffers of a loader are its own; those of a loader that looks at the  *)
(* keys are the system's, and one of them is for the sector.                 *)
Keeper == SectorLoaders \ {"uload3"}
One(what) == \E b \in Slot : mine = {b} /\ pool[b].allocated /\ pool[b].what = what
Kept ==
  /\ \A s \in mine : /\ pool[s].allocated /\ pool[s].what \in {"sector", "command"}
                     /\ loader # "geos_s1" => pool[s].secondary = System
  /\ \E s \in mine : \A t \in mine : pool[t].what # "command" <=> t = s
Owned ==
  /\ pc = "start" => mine = {} /\ \A s \in Slot : pool[s].what \notin {"sector", "command"}
  /\ pc \in {"block", "save"} => One("file")
  /\ pc \in Served /\ loader \notin SectorLoaders => mine = {}
  /\ pc \in Served /\ loader = "uload3" => IF pc = "chain" THEN One("sector") ELSE mine = {}
  /\ pc \in Served /\ loader \in Keeper => Kept

(* A file is in three parts: what the computer has, a block, and the rest.   *)
Begins(c) == \A i \in 1 .. Len(c.got) : i <= Len(c.text) => c.got[i] = c.text[i]
Reading(b, c) ==
  LET g == Len(c.got)  n == b.lastused - 1
  IN /\ b.position = 2 /\ n \in 1 .. Block
     /\ b.sendeoi <=> b.rest = <<>>
     /\ ~b.sendeoi => n = Block
     /\ Len(c.text) = g + n + Len(b.rest)
     /\ \A i \in 1 .. n : c.text[g + i] = b.data[i + 1]
     /\ \A i \in 1 .. Len(b.rest) : c.text[g + n + i] = b.rest[i]
Unheard ==
  /\ c64.got = <<>> /\ c64.verdict = "none"
  /\ \A s \in Slot : pool[s].allocated /\ pool[s].secondary = 0 => pool[s].what = "file" /\ Reading(pool[s], c64)
Sending ==
  /\ Begins(c64) /\ (c64.verdict = "complete" => c64.got = c64.text)
  /\ loader \notin FileLoaders => c64.got = <<>> /\ c64.verdict # "complete"
  /\ loader \in FileLoaders \ ByName /\ pc = "start" => Unheard
  /\ loader = "eload" /\ pc = "command" /\ c64.verdict = "none" => Unheard
  /\ pc = "block" =>
       /\ c64.verdict # "complete"
       /\ \A b \in mine : Reading(pool[b], c64) \/ (loader = "n0sdos" /\ Len(c64.got) >= Len(c64.text))
       /\ loader = "turbodisk" /\ first => \A b \in mine : pool[b].lastused > 2

(* A file that is stored is in three parts too.                              *)
End(b) == IF b.mustflush THEN Width ELSE b.position
Writing(b) ==
  /\ b.mustflush <=> b.position = 0
  /\ End(b) >= 2 /\ (b.lastused = End(b) - 1 \/ (End(b) = 2 /\ b.lastused = 2))
Content(w) == w.file \o Bytes(w.b, 2, End(w.b) - 1)
Fresh(b) == b.what = "file" /\ b.position = 2 /\ b.lastused = 2 /\ ~b.mustflush
Saving ==
  /\ c64.saved /\ loader # "ar6save" => file = c64.text
  /\ loader \in Savers \ ByName /\ pc = "start" =>
       /\ file = <<>> /\ c64.left = c64.text /\ c64.text # <<>> /\ ~c64.saved
       /\ \A s \in Slot : pool[s].allocated /\ pool[s].secondary = 1 => Fresh(pool[s])
  /\ pc = "save" /\ loader # "ar6save" =>
       /\ ~c64.saved
       /\ \A s \in mine :
            /\ Writing(pool[s]) /\ c64.text = Content(Writer(pool[s])) \o c64.left
            /\ driver = "d64" /\ End(pool[s]) = 2 /\ pool[s].lastused = 2 => c64.left # <<>>

(* What the computer asked for is in the buffer as long as nothing failed.   *)
Answered ==
  /\ ToldTrue /\ JobsDone /\ OnDisks
  /\ pc = "start" => c64.want = <<>> /\ c64.heard = <<>> /\ job = 0
  /\ loader \in {"geos", "wheels"} /\ (error = 0 \/ loader \notin Tells) =>
       /\ c64.heard \in {<<>>, c64.want}
       /\ pc = "command" => c64.want = pool[Data].sector.bytes
  /\ loader \in {"geos", "wheels"} /\ loader \notin Tells => error = 0
  /\ pc = "sending" => c64.want = pool[Data].sector.bytes
  /\ pc = "clear" /\ loader \notin Tells => c64.heard = c64.want

LoadersInv == Typed /\ Placed /\ Owned /\ Sending /\ Saving /\ Answered
-----------------------------------------------------------------------------
(***************************************************************************)
(* What is computed byte by byte.  A set of numbers that has 0 and with      *)
(* every number the next one has all: this is the induction of every proof. *)
(***************************************************************************)
LEMMA LeastNumber ==
  ASSUME NEW T, T \subseteq Nat, T # {}
  PROVE  \E n \in T : \A m \in T : n <= m
<1> DEFINE Less == OpToRel(<, Nat)
<1>1. IsWellFoundedOn(Less, Nat)
  BY NatLessThanWellFounded
<1>2. \A x, y \in Nat : <<y, x>> \in Less <=> y < x
  BY SMT DEF OpToRel
<1> HIDE DEF Less
<1>3. PICK x \in T : \A y \in T : ~ (<<y, x>> \in Less)
  BY <1>1, WFMin
<1>4. \A y \in T : x <= y
  <2> TAKE y \in T
  <2>1. ~ (<<y, x>> \in Less)
    BY <1>3
  <2>2. x \in Nat /\ y \in Nat
    OBVIOUS
  <2>3. QED BY <1>2, <2>1, <2>2
<1>5. QED BY <1>4

LEMMA Upto ==
  ASSUME NEW n \in Nat, NEW S, 0 \in S, \A i \in 1 .. n : i - 1 \in S => i \in S
  PROVE  \A i \in 0 .. n : i \in S
<1> DEFINE T == {i \in 0 .. n : i \notin S}
<1>1. SUFFICES ASSUME T # {} PROVE FALSE
  OBVIOUS
<1>2. T \subseteq Nat
  OBVIOUS
<1>3. PICK i \in T : \A j \in T : i <= j
  <2> HIDE DEF T
  <2>1. QED BY <1>1, <1>2, LeastNumber
<1>4. i \in 1 .. n /\ i - 1 \in 0 .. n /\ i - 1 \notin T
  BY <1>3
<1>5. i - 1 \in S
  BY <1>4
<1>6. QED BY <1>3, <1>4, <1>5

(* A table whose entries are each made from the one before exists, when the  *)
(* step is a function.                                                     *)

IsTable(t, n, V, base, F) ==
  t \in [0 .. n -> V] /\ t[0] = base /\ \A i \in 1 .. n : t[i] = F[i][t[i - 1]]

LEMMA TableExists ==
  ASSUME NEW n \in Nat, NEW V, NEW base \in V, NEW F \in [0 .. n -> [V -> V]]
  PROVE  \E t : IsTable(t, n, V, base, F)
<1> DEFINE Good(m, tab) == tab[0] = base /\ \A i \in 1 .. m : tab[i] = F[i][tab[i - 1]]
           S == {m \in 0 .. n : \E tab \in [0 .. n -> V] : Good(m, tab)}
<1>1. 0 \in S
  <2> DEFINE tab == [i \in 0 .. n |-> base]
  <2>1. tab \in [0 .. n -> V] /\ tab[0] = base /\ \A i \in 1 .. 0 : tab[i] = F[i][tab[i - 1]]
    OBVIOUS
  <2> HIDE DEF tab
  <2>2. QED BY <2>1
<1>2. ASSUME NEW m \in 1 .. n, m - 1 \in S PROVE m \in S
  <2>1. PICK b \in [0 .. n -> V] : Good(m - 1, b)
    BY <1>2
  <2> DEFINE tab == [i \in 0 .. n |-> IF i = m THEN F[m][b[m - 1]] ELSE b[i]]
  <2>2. b[m - 1] \in V /\ F[m] \in [V -> V]
    OBVIOUS
  <2>3. F[m][b[m - 1]] \in V
    BY <2>2
  <2>4. tab \in [0 .. n -> V] /\ tab[m] = F[m][b[m - 1]] /\ \A i \in 0 .. n : i # m => tab[i] = b[i]
    BY <2>3
  <2> HIDE DEF tab
  <2>5. Good(m, tab)
    <3>1. tab[0] = base
      BY <2>1, <2>4
    <3>2. ASSUME NEW i \in 1 .. m PROVE tab[i] = F[i][tab[i - 1]]
      <4>1. i - 1 \in 0 .. n /\ i - 1 # m /\ tab[i - 1] = b[i - 1]
        BY <2>4
      <4>2. CASE i = m
        BY <4>1, <4>2, <2>4
      <4>3. CASE i # m
        <5>1. i \in 1 .. m - 1 /\ i \in 0 .. n
          BY <4>3
        <5>2. b[i] = F[i][b[i - 1]]
          BY <5>1, <2>1
        <5>3. QED BY <5>1, <5>2, <4>1, <4>3, <2>4
      <4>4. QED BY <4>2, <4>3
    <3>3. QED BY <3>1, <3>2
  <2>6. QED BY <2>4, <2>5
<1> HIDE DEF S
<1>3. \A i \in 0 .. n : i \in S
  BY <1>1, <1>2, Upto
<1>4. n \in S
  BY <1>3
<1>5. QED BY <1>4 DEF S, IsTable

(* The bytes that a loader escapes, and what the computer makes of them.     *)
LEMMA EscapedTable ==
  ASSUME NEW esc \in Int, NEW bytes \in Seq(Int)
  PROVE  \E sent \in [0 .. Len(bytes) -> Seq(Int)] :
           /\ sent[0] = <<>>
           /\ \A i \in 1 .. Len(bytes) :
                sent[i] = sent[i - 1] \o Once(esc, bytes[i])
           /\ Escaped(esc, bytes) = sent[Len(bytes)]
<1> DEFINE n == Len(bytes)
           Is(t) == t = [i \in 0 .. n |-> IF i = 0 THEN <<>>
                            ELSE t[i - 1] \o Once(esc, bytes[i])]
           c == CHOOSE t : Is(t)
           one(i) == IF i = 0 THEN <<>> ELSE Once(esc, bytes[i])
           F == [i \in 0 .. n |-> [v \in Seq(Int) |-> v \o one(i)]]
<1>1. Escaped(esc, bytes) = c[n]
  BY Zenon DEF Escaped
<1>2. n \in Nat /\ \A i \in 0 .. n : one(i) \in Seq(Int)
  <2>1. n \in Nat /\ \A i \in 1 .. n : bytes[i] \in Int
    OBVIOUS
  <2>2. \A x \in Int : Once(esc, x) \in Seq(Int)
    BY DEF Once
  <2>3. <<>> \in Seq(Int)
    OBVIOUS
  <2> HIDE DEF n
  <2>4. ASSUME NEW i \in 0 .. n PROVE one(i) \in Seq(Int)
    <3>1. CASE i = 0
      BY <3>1, <2>3, Zenon
    <3>2. CASE i # 0
      <4>1. bytes[i] \in Int
        BY <3>2, <2>1
      <4>2. QED BY <3>2, <4>1, <2>2, Zenon
    <3>3. QED BY <3>1, <3>2
  <2> HIDE DEF one
  <2>5. QED BY <2>1, <2>4
<1> HIDE DEF n
<1>3. F \in [0 .. n -> [Seq(Int) -> Seq(Int)]]
  <2>1. \A i \in 0 .. n : one(i) \in Seq(Int)
    BY <1>2
  <2> HIDE DEF one
  <2>2. \A i \in 0 .. n, v \in Seq(Int) : v \o one(i) \in Seq(Int)
    BY <2>1
  <2>3. QED BY <2>2
<1>4. PICK t : IsTable(t, n, Seq(Int), <<>>, F)
  <2> HIDE DEF F
  <2>1. <<>> \in Seq(Int)
    OBVIOUS
  <2>2. n \in Nat
    BY <1>2
  <2>3. QED BY <1>3, <2>1, <2>2, TableExists
<1>5. \A i \in 1 .. n : t[i] = t[i - 1] \o Once(esc, bytes[i])
  <2> TAKE i \in 1 .. n
  <2>1. t[i - 1] \in Seq(Int) /\ i \in 0 .. n /\ i # 0
    BY <1>2, <1>4 DEF IsTable
  <2>2. F[i][t[i - 1]] = t[i - 1] \o one(i)
    BY <2>1
  <2>3. one(i) = Once(esc, bytes[i])
    BY <2>1
  <2>4. QED BY <1>4, <2>2, <2>3 DEF IsTable
<1> HIDE DEF one, F
<1>6. Is(t)
  <2>1. ASSUME NEW i \in 0 .. n PROVE t[i] = IF i = 0 THEN <<>> ELSE t[i - 1] \o Once(esc, bytes[i])
    <3>1. CASE i = 0
      BY <3>1, <1>4, Zenon DEF IsTable
    <3>2. CASE i # 0
      <4>1. i \in 1 .. n
        BY <3>2, <1>2
      <4>2. QED BY <3>2, <4>1, <1>5, Zenon
    <3>3. QED BY <3>1, <3>2
  <2>2. t = [i \in 0 .. n |-> t[i]]
    BY <1>4 DEF IsTable
  <2>3. QED BY <2>1, <2>2
<1>7. Is(c)
  <2> HIDE DEF Is
  <2>1. QED BY <1>6
<1>8. \A i \in 0 .. n : c[i] = IF i = 0 THEN <<>>
            ELSE c[i - 1] \o Once(esc, bytes[i])
  <2> HIDE DEF c
  <2>1. c = [i \in 0 .. n |-> IF i = 0 THEN <<>>
                            ELSE c[i - 1] \o Once(esc, bytes[i])]
    BY <1>7
  <2>2. QED BY <2>1
<1>9. c = [i \in 0 .. n |-> c[i]]
  <2> HIDE DEF c
  <2>1. c = [i \in 0 .. n |-> IF i = 0 THEN <<>>
                            ELSE c[i - 1] \o Once(esc, bytes[i])]
    BY <1>7
  <2>2. QED BY <2>1
<1> HIDE DEF c, Is
<1>10. \A i \in 0 .. n : i \in {k \in 0 .. n : c[k] = t[k]}
  <2> DEFINE S == {k \in 0 .. n : c[k] = t[k]}
  <2>1. 0 \in S
    BY <1>2, <1>4, <1>8 DEF IsTable
  <2>2. ASSUME NEW i \in 1 .. n, i - 1 \in S PROVE i \in S
    <3>1. i \in 0 .. n /\ i # 0 /\ c[i - 1] = t[i - 1]
      BY <2>2, <1>2
    <3>2. c[i] = c[i - 1] \o Once(esc, bytes[i])
      BY <3>1, <1>8, Zenon
    <3>3. c[i] = t[i]
      BY <3>1, <3>2, <1>5, Zenon
    <3>4. QED BY <3>1, <3>3
  <2> HIDE DEF S
  <2>3. QED BY <1>2, <2>1, <2>2, Upto DEF S
<1>11. c[n] = t[n]
  BY <1>2, <1>10
<1>12. QED BY <1>1, <1>11, <1>4, <1>5 DEF n, IsTable

Ear == [bytes : Seq(Int), mark : BOOLEAN, over : BOOLEAN]

LEMMA ListenTyped ==
  ASSUME NEW esc \in Int, NEW h \in Ear, NEW x \in Int
  PROVE  Listen(esc, h, x) \in Ear
<1>1. h.bytes \in Seq(Int) /\ Append(h.bytes, x) \in Seq(Int)
  BY DEF Ear
<1>2. QED BY <1>1 DEF Listen, Ear

LEMMA ListeningTable ==
  ASSUME NEW esc \in Int, NEW m \in Seq(Int)
  PROVE  \E heard \in [0 .. Len(m) -> Ear] :
           /\ heard[0] = Silent
           /\ \A i \in 1 .. Len(m) : heard[i] = Listen(esc, heard[i - 1], m[i])
           /\ Listening(esc, m) = heard[Len(m)]
<1> DEFINE n == Len(m)
           Is(t) == t = [i \in 0 .. n |-> IF i = 0 THEN Silent ELSE Listen(esc, t[i - 1], m[i])]
           c == CHOOSE t : Is(t)
           F == [i \in 0 .. n |-> [v \in Ear |-> IF i = 0 THEN v ELSE Listen(esc, v, m[i])]]
<1>1. Listening(esc, m) = c[n]
  BY Zenon DEF Listening
<1>2. n \in Nat /\ \A i \in 1 .. n : m[i] \in Int
  OBVIOUS
<1> HIDE DEF n
<1>3. F \in [0 .. n -> [Ear -> Ear]]
  <2>1. ASSUME NEW i \in 0 .. n, NEW v \in Ear, i # 0 PROVE Listen(esc, v, m[i]) \in Ear
    <3>1. m[i] \in Int
      BY <1>2, <2>1
    <3>2. QED BY <3>1, ListenTyped
  <2>2. QED BY <2>1
<1>4. PICK t : IsTable(t, n, Ear, Silent, F)
  <2> HIDE DEF F
  <2>1. Silent \in Ear
    BY DEF Silent, Ear
  <2>2. n \in Nat
    BY <1>2
  <2>3. QED BY <1>3, <2>1, <2>2, TableExists
<1>5. \A i \in 1 .. n : t[i] = Listen(esc, t[i - 1], m[i])
  <2> TAKE i \in 1 .. n
  <2>1. t[i - 1] \in Ear /\ i \in 0 .. n /\ i # 0
    BY <1>2, <1>4 DEF IsTable
  <2>2. F[i][t[i - 1]] = Listen(esc, t[i - 1], m[i])
    BY <2>1
  <2>3. QED BY <1>4, <2>2 DEF IsTable
<1> HIDE DEF F
<1>6. Is(t)
  <2>1. \A i \in 0 .. n : t[i] = IF i = 0 THEN Silent ELSE Listen(esc, t[i - 1], m[i])
    BY <1>2, <1>4, <1>5 DEF IsTable
  <2>2. t = [i \in 0 .. n |-> t[i]]
    BY <1>4 DEF IsTable
  <2>3. QED BY <2>1, <2>2
<1>7. Is(c)
  <2> HIDE DEF Is
  <2>1. QED BY <1>6
<1>8. \A i \in 0 .. n : c[i] = IF i = 0 THEN Silent ELSE Listen(esc, c[i - 1], m[i])
  <2> HIDE DEF c
  <2>1. c = [i \in 0 .. n |-> IF i = 0 THEN Silent ELSE Listen(esc, c[i - 1], m[i])]
    BY <1>7
  <2>2. QED BY <2>1
<1> HIDE DEF c, Is
<1>9. \A i \in 0 .. n : i \in {k \in 0 .. n : c[k] = t[k]}
  <2> DEFINE S == {k \in 0 .. n : c[k] = t[k]}
  <2>1. 0 \in S
    BY <1>2, <1>4, <1>8 DEF IsTable
  <2>2. ASSUME NEW i \in 1 .. n, i - 1 \in S PROVE i \in S
    BY <2>2, <1>2, <1>8, <1>5
  <2> HIDE DEF S
  <2>3. QED BY <1>2, <2>1, <2>2, Upto DEF S
<1>10. c[n] = t[n]
  BY <1>2, <1>9
<1>11. QED BY <1>1, <1>10, <1>4, <1>5 DEF n, IsTable

LEMMA ListenOn ==
  ASSUME NEW esc \in Int, NEW m \in Seq(Int), NEW x \in Int
  PROVE  /\ Listening(esc, m) \in Ear
         /\ Listening(esc, Append(m, x)) = Listen(esc, Listening(esc, m), x)
<1> DEFINE n == Len(m)  k == Append(m, x)
<1>1. n \in Nat /\ k \in Seq(Int) /\ Len(k) = n + 1 /\ k[n + 1] = x /\ \A i \in 1 .. n : k[i] = m[i]
  BY AppendProperties
<1>2. PICK s \in [0 .. n -> Ear] : /\ s[0] = Silent
                                   /\ \A i \in 1 .. n : s[i] = Listen(esc, s[i - 1], m[i])
                                   /\ Listening(esc, m) = s[n]
  BY ListeningTable
<1> HIDE DEF n, k
<1>3. PICK t \in [0 .. Len(k) -> Ear] : /\ t[0] = Silent
                                       /\ \A i \in 1 .. Len(k) : t[i] = Listen(esc, t[i - 1], k[i])
                                       /\ Listening(esc, k) = t[Len(k)]
  BY <1>1, ListeningTable
<1> DEFINE S == {i \in 0 .. n : s[i] = t[i]}
<1>4. 0 \in S
  BY <1>1, <1>2, <1>3
<1>5. ASSUME NEW i \in 1 .. n, i - 1 \in S PROVE i \in S
  <2>1. i \in 1 .. Len(k) /\ i \in 0 .. n /\ s[i - 1] = t[i - 1] /\ k[i] = m[i]
    BY <1>1, <1>5
  <2>2. t[i] = Listen(esc, t[i - 1], k[i]) /\ s[i] = Listen(esc, s[i - 1], m[i])
    BY <2>1, <1>2, <1>3
  <2>3. QED BY <2>1, <2>2
<1> HIDE DEF S
<1>6. n \in S
  <2>1. \A i \in 0 .. n : i \in S
    BY <1>1, <1>4, <1>5, Upto
  <2>2. QED BY <2>1, <1>1
<1>7. s[n] = t[n]
  BY <1>6 DEF S
<1>8. t[n + 1] = Listen(esc, t[n], x)
  <2>1. n + 1 \in 1 .. Len(k) /\ (n + 1) - 1 = n
    BY <1>1
  <2>2. QED BY <2>1, <1>1, <1>3
<1>9. Listening(esc, k) = Listen(esc, Listening(esc, m), x)
  <2>1. Listening(esc, k) = t[n + 1]
    <3>1. Len(k) = n + 1
      BY <1>1
    <3>2. Listening(esc, k) = t[Len(k)]
      BY <1>3
    <3>3. QED BY <3>1, <3>2, Zenon
  <2>2. Listening(esc, m) = t[n]
    BY <1>2, <1>7
  <2>3. QED BY <2>1, <2>2, <1>8, Zenon
<1>10. Listening(esc, m) \in Ear
  BY <1>1, <1>2
<1>11. QED BY <1>9, <1>10 DEF k

LEMMA ListenNothing ==
  ASSUME NEW esc \in Int
  PROVE  Listening(esc, <<>>) = Silent
<1>1. <<>> \in Seq(Int) /\ Len(<<>>) = 0
  OBVIOUS
<1>2. QED BY <1>1, ListeningTable, ZenonT(30)

Hearing(s) == [bytes |-> s, mark |-> FALSE, over |-> FALSE]

LEMMA ListenOnce ==
  ASSUME NEW esc \in Int, NEW m \in Seq(Int), NEW s \in Seq(Int), NEW x \in Int,
         Listening(esc, m) = Hearing(s)
  PROVE  Listening(esc, m \o Once(esc, x)) = Hearing(Append(s, x))
<1>1. CASE x # esc
  <2>1. m \o Once(esc, x) = Append(m, x)
    BY <1>1, AppendIsConcat DEF Once
  <2>2. Listening(esc, Append(m, x)) = Listen(esc, Hearing(s), x)
    BY ListenOn
  <2>3. Listen(esc, Hearing(s), x) = Hearing(Append(s, x))
    BY <1>1 DEF Listen, Hearing
  <2>4. QED BY <2>1, <2>2, <2>3
<1>2. CASE x = esc
  <2> DEFINE k == Append(m, esc)
  <2>1. k \in Seq(Int)
    BY AppendProperties
  <2>2. m \o <<esc, esc>> = Append(k, esc)
    OBVIOUS
  <2>3. m \o Once(esc, x) = Append(k, esc)
    BY <1>2, <2>2, Zenon DEF Once
  <2>4. Listening(esc, k) = Listen(esc, Hearing(s), esc)
    BY ListenOn
  <2> HIDE DEF k
  <2>5. Listening(esc, Append(k, esc)) = Listen(esc, Listen(esc, Hearing(s), esc), esc)
    BY <2>1, <2>4, ListenOn
  <2>6. Listen(esc, Listen(esc, Hearing(s), esc), esc) = Hearing(Append(s, esc))
    BY DEF Listen, Hearing
  <2>7. QED BY <2>3, <2>5, <2>6, <1>2
<1>3. QED BY <1>1, <1>2

(* What was escaped and has a mark behind it is heard as it was.             *)
LEMMA HeardEscaped ==
  ASSUME NEW esc \in Int, NEW bytes \in Seq(Int), NEW k \in Int, k # esc
  PROVE  /\ Escaped(esc, bytes) \in Seq(Int)
         /\ Unescaped(esc, Escaped(esc, bytes) \o <<esc, k>>) = bytes
<1> DEFINE n == Len(bytes)
<1>1. n \in Nat /\ \A i \in 1 .. n : bytes[i] \in Int
  OBVIOUS
<1>2. PICK sent \in [0 .. n -> Seq(Int)] : /\ sent[0] = <<>>
                                           /\ \A i \in 1 .. n : sent[i] = sent[i - 1] \o Once(esc, bytes[i])
                                           /\ Escaped(esc, bytes) = sent[n]
  BY EscapedTable
<1> DEFINE S == {i \in 0 .. n : Listening(esc, sent[i]) = Hearing(SubSeq(bytes, 1, i))}
<1>3. 0 \in S
  <2>1. SubSeq(bytes, 1, 0) = <<>>
    BY SubSeqEmpty
  <2>2. Listening(esc, sent[0]) = Silent
    BY <1>2, ListenNothing
  <2>3. Silent = Hearing(SubSeq(bytes, 1, 0))
    BY <2>1, Zenon DEF Silent, Hearing
  <2>4. QED BY <2>2, <2>3, <1>1
<1>4. ASSUME NEW i \in 1 .. n, i - 1 \in S PROVE i \in S
  <2> DEFINE s == SubSeq(bytes, 1, i - 1)
  <2>1. s \in Seq(Int) /\ Append(s, bytes[i]) = SubSeq(bytes, 1, i)
    OBVIOUS
  <2>2. sent[i - 1] \in Seq(Int) /\ Listening(esc, sent[i - 1]) = Hearing(s) /\ bytes[i] \in Int
    BY <1>1, <1>2, <1>4
  <2> HIDE DEF s
  <2>3. Listening(esc, sent[i - 1] \o Once(esc, bytes[i])) = Hearing(Append(s, bytes[i]))
    BY <2>1, <2>2, ListenOnce, ZenonT(30)
  <2>4. Listening(esc, sent[i]) = Hearing(SubSeq(bytes, 1, i))
    BY <2>1, <2>3, <1>2, Zenon
  <2>5. QED BY <2>4, <1>1
<1>5. n \in S
  <2> HIDE DEF S, n
  <2>1. \A i \in 0 .. n : i \in S
    BY <1>1, <1>3, <1>4, Upto
  <2>2. QED BY <2>1, <1>1
<1>6. SubSeq(bytes, 1, n) = bytes
  BY SubSeqFull
<1> DEFINE e == Escaped(esc, bytes)
<1>7. e \in Seq(Int)
  BY <1>1, <1>2, SMTT(30)
<1>8. Listening(esc, e) = Hearing(bytes)
  BY <1>2, <1>5, <1>6
<1> HIDE DEF e
<1>9. e \o <<esc, k>> = Append(Append(e, esc), k) /\ Append(e, esc) \in Seq(Int)
  BY <1>7
<1>10. Listening(esc, Append(e, esc)) = Listen(esc, Hearing(bytes), esc)
  BY <1>7, <1>8, ListenOn
<1>11. Listening(esc, Append(Append(e, esc), k)) = Listen(esc, Listen(esc, Hearing(bytes), esc), k)
  BY <1>9, <1>10, ListenOn
<1>12. Listen(esc, Listen(esc, Hearing(bytes), esc), k).bytes = bytes
  BY DEF Listen, Hearing
<1>13. QED BY <1>7, <1>9, <1>11, <1>12 DEF Unescaped, e
-----------------------------------------------------------------------------
(***************************************************************************)
(* The constants and the buffers.                                          *)
(***************************************************************************)
LEMMA Sizes ==
  /\ Block \in Nat /\ Block > 1 /\ Width = Block + 2 /\ Top = Block + 1
  /\ Indices = 0 .. Block + 1 /\ Slots \in Nat /\ Slot = 1 .. Slots
BY LoadersAssumption DEF Width, Top, Indices, Slot

LEMMA Cards ==
  /\ Len(Images) \in Nat /\ DOMAIN Images = 1 .. Len(Images) /\ 1 \in DOMAIN Images
  /\ Len(Images[1]) \in Nat \ {0} /\ Sectors = 1 .. Len(Images[1]) /\ 0 \notin Sectors /\ 1 \in Sectors
  /\ \A d \in DOMAIN Images : Images[d] \in [Sectors -> Sector]
  /\ Images \in Disks
<1>1. Len(Images) \in Nat /\ DOMAIN Images = 1 .. Len(Images) /\ 1 \in DOMAIN Images
  BY ImagesAssumption
<1>2. \A d \in DOMAIN Images : Images[d] \in Seq(Sector)
  BY ImagesAssumption
<1>3. Sectors = 1 .. Len(Images[1]) /\ Len(Images[1]) \in Nat \ {0}
  BY <1>1, <1>2, ImagesAssumption DEF Sectors
<1>4. \A d \in DOMAIN Images : Images[d] \in [Sectors -> Sector]
  <2> TAKE d \in DOMAIN Images
  <2>1. Images[d] \in [1 .. Len(Images[d]) -> Sector]
    BY <1>2
  <2>2. Len(Images[d]) = Len(Images[1])
    BY ImagesAssumption
  <2>3. QED BY <2>1, <2>2, <1>3
<1>5. Images = [d \in DOMAIN Images |-> Images[d]]
  BY ImagesAssumption
<1>6. Images \in Disks
  BY <1>4, <1>5 DEF Disks
<1>7. QED BY <1>1, <1>3, <1>4, <1>6

LEMMA FreeIs ==
  /\ Free \in Buffer /\ Free.position = 2 /\ Free.lastused = 2 /\ ~Free.mustflush /\ ~Free.allocated
  /\ Free.what = "nothing" /\ Free.rest = <<>> /\ Free.sector = Nobody
<1>1. 2 \in Indices
  BY Sizes
<1>2. [i \in Indices |-> 0] \in [Indices -> Nat]
  OBVIOUS
<1>3. Nobody \in [next : Sectors \cup {0}, bytes : Seq(Int)]
  BY DEF Nobody
<1>4. <<>> \in Seq(Nat)
  OBVIOUS
<1>5. QED BY <1>1, <1>2, <1>3, <1>4 DEF Free, Buffer, Whats

New(sec, what) == [Free EXCEPT !.allocated = TRUE, !.secondary = sec, !.what = what]

LEMMA NewIs ==
  ASSUME NEW sec \in Nat, NEW what \in Whats
  PROVE  /\ New(sec, what) \in Buffer /\ New(sec, what).allocated
         /\ New(sec, what).secondary = sec /\ New(sec, what).what = what
         /\ New(sec, what).position = 2 /\ New(sec, what).lastused = 2 /\ ~New(sec, what).mustflush
         /\ New(sec, what).sector = Nobody
<1> DEFINE f == Free
<1>1. f \in Buffer /\ f.position = 2 /\ f.lastused = 2 /\ ~f.mustflush /\ f.sector = Nobody
  BY FreeIs
<1> HIDE DEF f
<1> DEFINE n == [f EXCEPT !.allocated = TRUE, !.secondary = sec, !.what = what]
<1>2. /\ n \in Buffer /\ n.allocated /\ n.secondary = sec /\ n.what = what
      /\ n.position = f.position /\ n.lastused = f.lastused /\ n.mustflush = f.mustflush /\ n.sector = f.sector
  BY <1>1 DEF Buffer
<1> HIDE DEF n
<1>3. New(sec, what) = n
  BY Zenon DEF New, n, f
<1>4. QED BY <1>1, <1>2, <1>3

Pools == [Slot -> Buffer]

LEMMA LowestIs ==
  ASSUME NEW S, S \subseteq Slot
  PROVE  IF S = {} THEN Lowest(S) = 0 ELSE Lowest(S) \in S
<1>1. CASE S = {}
  BY <1>1 DEF Lowest
<1>2. CASE S # {}
  <2>1. S \subseteq Nat
    BY Sizes
  <2>2. \E s \in S : \A t \in S : s <= t
    BY <1>2, <2>1, LeastNumber
  <2>3. Lowest(S) = CHOOSE s \in S : \A t \in S : s <= t
    BY <1>2 DEF Lowest
  <2>4. Lowest(S) \in S
    BY <2>2, <2>3
  <2>5. QED BY <1>2, <2>4
<1>3. QED BY <1>1, <1>2

LEMMA FreeSlotIs ==
  ASSUME NEW p, FreeSlot(p) # 0
  PROVE  FreeSlot(p) \in Slot /\ ~p[FreeSlot(p)].allocated
<1> DEFINE S == {s \in Slot : ~p[s].allocated}
<1>1. S \subseteq Slot /\ FreeSlot(p) = Lowest(S)
  BY DEF FreeSlot
<1> HIDE DEF S
<1>2. FreeSlot(p) \in S
  BY <1>1, LowestIs
<1>3. QED BY <1>2 DEF S

LEMMA FoundIs ==
  ASSUME NEW p, NEW sec, find_buffer(p, sec) # 0
  PROVE  /\ find_buffer(p, sec) \in Slot
         /\ p[find_buffer(p, sec)].allocated /\ p[find_buffer(p, sec)].secondary = sec
<1> DEFINE S == {s \in Slot : p[s].allocated /\ p[s].secondary = sec}
<1>1. S \subseteq Slot /\ find_buffer(p, sec) = Lowest(S)
  BY DEF find_buffer
<1> HIDE DEF S
<1>2. find_buffer(p, sec) \in S
  BY <1>1, LowestIs
<1>3. QED BY <1>2 DEF S

LEMMA AllocatedIs ==
  ASSUME NEW p \in Pools, NEW sec \in Nat, NEW what \in Whats
  PROVE  /\ Allocated(p, sec, what) \in Pools
         /\ FreeSlot(p) = 0 => Allocated(p, sec, what) = p
         /\ FreeSlot(p) # 0 =>
              /\ FreeSlot(p) \in Slot /\ ~p[FreeSlot(p)].allocated
              /\ Allocated(p, sec, what)[FreeSlot(p)] = New(sec, what)
              /\ \A s \in Slot : s # FreeSlot(p) => Allocated(p, sec, what)[s] = p[s]
<1>1. CASE FreeSlot(p) = 0
  BY <1>1 DEF Allocated
<1>2. CASE FreeSlot(p) # 0
  <2> DEFINE f == FreeSlot(p)  n == New(sec, what)
  <2>1. f \in Slot /\ ~p[f].allocated
    BY <1>2, FreeSlotIs
  <2>2. n \in Buffer
    BY NewIs
  <2>3. Allocated(p, sec, what) = [p EXCEPT ![f] = n]
    BY <1>2, Zenon DEF Allocated, New
  <2> HIDE DEF f, n
  <2>4. /\ [p EXCEPT ![f] = n] \in Pools /\ [p EXCEPT ![f] = n][f] = n
        /\ \A s \in Slot : s # f => [p EXCEPT ![f] = n][s] = p[s]
    BY <2>1, <2>2 DEF Pools
  <2>5. QED BY <1>2, <2>1, <2>3, <2>4 DEF f, n
<1>3. QED BY <1>1, <1>2

LEMMA FreedIs ==
  ASSUME NEW p \in Pools, NEW S
  PROVE  /\ FreedSlots(p, S) \in Pools
         /\ \A s \in Slot : /\ s \notin S => FreedSlots(p, S)[s] = p[s]
                            /\ s \in S => ~FreedSlots(p, S)[s].allocated
                            /\ FreedSlots(p, S)[s].what = p[s].what
                            /\ FreedSlots(p, S)[s].secondary = p[s].secondary
<1>1. \A s \in Slot : p[s] \in Buffer
  BY DEF Pools
<1>2. \A b \in Buffer : /\ [b EXCEPT !.allocated = FALSE] \in Buffer
                        /\ ~[b EXCEPT !.allocated = FALSE].allocated
                        /\ [b EXCEPT !.allocated = FALSE].what = b.what
                        /\ [b EXCEPT !.allocated = FALSE].secondary = b.secondary
  BY DEF Buffer
<1> DEFINE q == FreedSlots(p, S)
<1>3. q = [s \in Slot |-> IF s \in S THEN [p[s] EXCEPT !.allocated = FALSE] ELSE p[s]]
  BY DEF FreedSlots
<1> HIDE DEF q
<1>4. \A s \in Slot : q[s] = IF s \in S THEN [p[s] EXCEPT !.allocated = FALSE] ELSE p[s]
  BY <1>3
<1>5. q \in Pools
  <2>1. \A s \in Slot : q[s] \in Buffer
    BY <1>1, <1>2, <1>4
  <2>2. q = [s \in Slot |-> q[s]]
    BY <1>3, <1>4
  <2>3. QED BY <2>1, <2>2 DEF Pools
<1>6. QED BY <1>1, <1>2, <1>4, <1>5 DEF q

LEMMA BytesAre ==
  ASSUME NEW b \in Buffer, NEW from \in Int, NEW to \in Int
  PROVE  /\ Bytes(b, from, to) \in Seq(Nat) /\ Bytes(b, from, to) \in Seq(Int)
         /\ Len(Bytes(b, from, to)) = IF to - from + 1 < 0 THEN 0 ELSE to - from + 1
         /\ \A i \in 1 .. to - from + 1 : Bytes(b, from, to)[i] = Byte(b, from + i - 1)
<1> DEFINE s == Bytes(b, from, to)
           n == IF to - from + 1 < 0 THEN 0 ELSE to - from + 1
<1>1. n \in Nat /\ 1 .. n = 1 .. to - from + 1
  OBVIOUS
<1>2. \A i \in Int : Byte(b, i) \in Nat
  BY DEF Byte, Buffer, Behind
<1>3. s = [i \in 1 .. n |-> Byte(b, from + i - 1)]
  BY <1>1 DEF Bytes
<1> HIDE DEF n, s
<1>4. s \in [1 .. n -> Nat] /\ \A i \in 1 .. n : s[i] = Byte(b, from + i - 1)
  <2>1. \A i \in 1 .. n : from + i - 1 \in Int
    BY <1>1
  <2>2. \A i \in 1 .. n : Byte(b, from + i - 1) \in Nat
    BY <1>2, <2>1
  <2>3. QED BY <1>3, <2>2
<1>5. s \in Seq(Nat) /\ s \in Seq(Int) /\ Len(s) = n
  BY <1>1, <1>4
<1>6. QED BY <1>1, <1>4, <1>5 DEF n, s

(* The same where there are some.                                           *)
Some(b, from, to, n) ==
  /\ Bytes(b, from, to) \in Seq(Nat) /\ Bytes(b, from, to) \in Seq(Int)
  /\ Len(Bytes(b, from, to)) = n
  /\ \A i \in 1 .. n : Bytes(b, from, to)[i] = Byte(b, from + i - 1)

LEMMA SomeBytes ==
  ASSUME NEW b \in Buffer, NEW from \in Int, NEW to \in Int, NEW n \in Nat, n = to - from + 1
  PROVE  Some(b, from, to, n)
<1> DEFINE s == Bytes(b, from, to)  k == IF to - from + 1 < 0 THEN 0 ELSE to - from + 1
<1>1. /\ s \in Seq(Nat) /\ s \in Seq(Int) /\ Len(s) = k
      /\ \A i \in 1 .. to - from + 1 : s[i] = Byte(b, from + i - 1)
  BY BytesAre, Zenon
<1>2. k = n
  OBVIOUS
<1> HIDE DEF s, k
<1>3. QED BY <1>1, <1>2, Zenon DEF s, Some
-----------------------------------------------------------------------------
(***************************************************************************)
(* What a byte that is stored does, and a block of them.                    *)
(***************************************************************************)
LEMMA AppendBehind ==
  ASSUME NEW t \in Seq(Nat), NEW s \in Seq(Nat), NEW x \in Nat
  PROVE  Append(t \o s, x) = t \o Append(s, x)
<1> DEFINE u == t \o s  e == <<x>>
<1>1. u \in Seq(Nat) /\ e \in Seq(Nat)
  BY ConcatProperties
<1>2. u \o e = t \o (s \o e)
  BY <1>1, ConcatAssociative, SMTT(30)
<1> HIDE DEF u
<1>3. Append(u, x) = u \o e
  BY <1>1, AppendIsConcat
<1>4. Append(s, x) = s \o e
  BY AppendIsConcat
<1> HIDE DEF e
<1>5. QED BY <1>2, <1>3, <1>4, Zenon DEF u

Pair == [b : Buffer, file : Seq(Nat)]

LEMMA StoredIs ==
  ASSUME NEW w \in Pair, NEW last \in BOOLEAN
  PROVE  /\ Stored(w, last) \in Pair
         /\ Stored(w, last).b.position = 2 /\ ~Stored(w, last).b.mustflush
         /\ Stored(w, last).b.lastused = IF driver = "d64" THEN 1 ELSE 2
         /\ Stored(w, last).b.what = w.b.what /\ Stored(w, last).b.allocated = w.b.allocated
         /\ Stored(w, last).b.secondary = w.b.secondary
         /\ \E used \in Int :
              /\ used = IF driver = "d64" THEN (IF last THEN w.b.lastused ELSE Top)
                        ELSE IF w.b.mustflush THEN w.b.lastused ELSE (w.b.position - 1) % Width
              /\ Stored(w, last).file = w.file \o Bytes(w.b, 2, used)
<1> DEFINE used == IF driver = "d64" THEN (IF last THEN w.b.lastused ELSE Top)
                   ELSE IF w.b.mustflush THEN w.b.lastused ELSE (w.b.position - 1) % Width
           b == w.b  f == w.file \o Bytes(w.b, 2, used)
           l == IF driver = "d64" THEN 1 ELSE 2
           c == [b EXCEPT !.position = 2, !.lastused = l, !.mustflush = FALSE]
<1>1. b \in Buffer /\ w.file \in Seq(Nat) /\ b.lastused \in Int /\ b.position \in Int
  BY Sizes DEF Pair, Buffer
<1>2. used \in Int
  BY <1>1, Sizes
<1>3. Stored(w, last) = [b |-> c, file |-> f]
  BY Zenon DEF Stored
<1> HIDE DEF used
<1>4. Bytes(w.b, 2, used) \in Seq(Nat)
  BY <1>1, <1>2, BytesAre
<1>5. f \in Seq(Nat)
  BY <1>1, <1>4
<1>6. l \in Indices /\ 2 \in Indices
  BY Sizes
<1> HIDE DEF b, f, l
<1>7. /\ c \in Buffer /\ c.position = 2 /\ ~c.mustflush /\ c.lastused = l /\ c.what = b.what
      /\ c.allocated = b.allocated /\ c.secondary = b.secondary
  BY <1>1, <1>6 DEF Buffer
<1> HIDE DEF c
<1>8. [b |-> c, file |-> f] \in Pair
  BY <1>5, <1>7 DEF Pair
<1>9. Stored(w, last).b = c /\ Stored(w, last).file = f
  BY <1>3
<1>10. QED BY <1>2, <1>3, <1>7, <1>8, <1>9 DEF b, f, l, used

(* The position of a buffer that is written to is behind its last byte.      *)
Writes(w) == w \in Pair /\ Writing(w.b)

LEMMA ContentIs ==
  ASSUME NEW w, Writes(w)
  PROVE  /\ Content(w) \in Seq(Nat) /\ Len(Content(w)) = Len(w.file) + End(w.b) - 2
         /\ End(w.b) \in 2 .. Width
<1>1. w.b \in Buffer /\ w.file \in Seq(Nat) /\ w.b.position \in 0 .. Block + 1 /\ Writing(w.b)
  BY Sizes DEF Writes, Pair, Buffer
<1>2. End(w.b) \in 2 .. Width
  BY <1>1, Sizes DEF Writing, End
<1>3. Bytes(w.b, 2, End(w.b) - 1) \in Seq(Nat) /\ Len(Bytes(w.b, 2, End(w.b) - 1)) = End(w.b) - 2
  <2>1. End(w.b) - 1 \in Int /\ 2 \in Int /\ ~(End(w.b) - 1 - 2 + 1 < 0)
    BY <1>2, Sizes
  <2> DEFINE b == w.b  e == End(w.b)  to == e - 1
  <2>2. b \in Buffer /\ to \in Int /\ 2 \in Int
    BY <1>1, <2>1
  <2> HIDE DEF b, to
  <2>3. /\ Bytes(b, 2, to) \in Seq(Nat)
        /\ Len(Bytes(b, 2, to)) = IF to - 2 + 1 < 0 THEN 0 ELSE to - 2 + 1
    BY <2>2, BytesAre
  <2>4. e \in Int /\ to = e - 1 /\ ~(to - 2 + 1 < 0)
    BY <1>2, <2>1, Sizes DEF to
  <2> HIDE DEF e
  <2>5. (IF to - 2 + 1 < 0 THEN 0 ELSE to - 2 + 1) = e - 2
    BY <2>4
  <2>6. QED BY <2>3, <2>5 DEF b, e, to
<1> DEFINE s == Bytes(w.b, 2, End(w.b) - 1)
<1>4. s \in Seq(Nat) /\ Len(s) = End(w.b) - 2 /\ Content(w) = w.file \o s
  BY <1>3 DEF Content
<1> HIDE DEF s
<1>5. w.file \o s \in Seq(Nat) /\ Len(w.file \o s) = Len(w.file) + Len(s)
  <2>1. w.file \in Seq(Nat) /\ s \in Seq(Nat)
    BY <1>1, <1>4
  <2>2. QED BY <2>1, ConcatProperties, Zenon
<1>6. Len(w.file) \in Nat
  <2>1. w.file \in Seq(Nat)
    BY <1>1
  <2>2. QED BY <2>1
<1>7. QED BY <1>2, <1>4, <1>5, <1>6, Sizes

(* What is stored last is all.                                              *)
LEMMA StoredAll ==
  ASSUME NEW w, Writes(w), driver \in {"fat", "d64"},
         NEW last \in BOOLEAN, w.b.mustflush \/ last,
         driver = "d64" => ~(End(w.b) = 2 /\ w.b.lastused = 2)
  PROVE  Stored(w, last).file = Content(w)
<1>1. w \in Pair /\ w.b \in Buffer /\ w.b.position \in 0 .. Block + 1 /\ Writing(w.b)
      /\ w.b.mustflush \in BOOLEAN
  BY Sizes DEF Writes, Pair, Buffer
<1>2. PICK used \in Int :
        /\ used = IF driver = "d64" THEN (IF last THEN w.b.lastused ELSE Top)
                  ELSE IF w.b.mustflush THEN w.b.lastused ELSE (w.b.position - 1) % Width
        /\ Stored(w, last).file = w.file \o Bytes(w.b, 2, used)
  BY <1>1, StoredIs
<1>3. used = End(w.b) - 1
  <2>1. w.b.mustflush => w.b.lastused = Top /\ End(w.b) = Top + 1 /\ used = Top
    BY <1>1, <1>2, Sizes DEF Writing, End
  <2>2. CASE w.b.mustflush
    BY <2>1, <2>2, <1>2, Sizes
  <2>3. CASE ~w.b.mustflush
    <3>1. End(w.b) = w.b.position /\ w.b.position \in 2 .. Block + 1
      BY <1>1, <2>3 DEF Writing, End
    <3>2. CASE driver = "d64"
      <4>1. used = w.b.lastused
        BY <1>2, <2>3, <3>2
      <4>2. w.b.lastused = End(w.b) - 1
        BY <1>1, <3>2 DEF Writing
      <4>3. QED BY <4>1, <4>2
    <3>3. CASE driver # "d64"
      <4>1. (w.b.position - 1) % Width = w.b.position - 1
        BY <3>1, Sizes
      <4>2. QED BY <1>2, <2>3, <3>1, <3>3, <4>1
    <3>4. QED BY <3>2, <3>3
  <2>4. QED BY <2>2, <2>3
<1>4. QED BY <1>2, <1>3 DEF Content

LEMMA FlushIs ==
  ASSUME NEW w, Writes(w), driver \in {"fat", "d64"}
  PROVE  /\ Writes(Flush(w)) /\ ~Flush(w).b.mustflush /\ Content(Flush(w)) = Content(w)
         /\ Flush(w).b.what = w.b.what /\ Flush(w).b.allocated = w.b.allocated
         /\ Flush(w).b.secondary = w.b.secondary
<1>1. CASE ~w.b.mustflush
  BY <1>1 DEF Flush
<1>2. CASE w.b.mustflush
  <2> DEFINE f == Stored(w, FALSE)
  <2>1. Flush(w) = f
    BY <1>2 DEF Flush
  <2>2. w \in Pair /\ End(w.b) # 2
    BY <1>2, Sizes DEF Writes, End
  <2>3. /\ f \in Pair /\ f.b.position = 2 /\ ~f.b.mustflush
        /\ f.b.lastused = IF driver = "d64" THEN 1 ELSE 2
        /\ f.b.what = w.b.what /\ f.b.allocated = w.b.allocated /\ f.b.secondary = w.b.secondary
    BY <2>2, StoredIs
  <2>4. f.file = Content(w)
    BY <1>2, <2>2, StoredAll
  <2> HIDE DEF f
  <2>5. End(f.b) = 2 /\ Writing(f.b)
    BY <2>3 DEF End, Writing
  <2>6. f.b \in Buffer /\ f.file \in Seq(Nat)
    BY <2>3 DEF Pair
  <2>7. Bytes(f.b, 2, 1) = <<>>
    BY DEF Bytes
  <2>8. Content(f) = f.file \o Bytes(f.b, 2, 1)
    BY <2>5 DEF Content
  <2>9. Content(f) = f.file
    BY <2>6, <2>7, <2>8, ConcatEmptySeq
  <2>10. QED BY <2>1, <2>3, <2>4, <2>5, <2>9 DEF Writes
<1>3. QED BY <1>1, <1>2 DEF Writes, Pair, Buffer

PutAt(f, p, x, n, l, m) == [f EXCEPT !.b.data[p] = x, !.b.lastused = l, !.b.position = n, !.b.mustflush = m]

PutSet(g, f, p, x, n, l, m) ==
  /\ g \in Pair /\ g.file = f.file
  /\ g.b.data = [f.b.data EXCEPT ![p] = x] /\ g.b.lastused = l /\ g.b.position = n /\ g.b.mustflush = m
  /\ g.b.what = f.b.what /\ g.b.allocated = f.b.allocated /\ g.b.secondary = f.b.secondary

LEMMA PutFields ==
  ASSUME NEW f \in Pair, NEW x \in Nat, NEW p \in Indices, NEW n \in Indices, NEW l \in Indices, NEW m \in BOOLEAN
  PROVE  PutSet(PutAt(f, p, x, n, l, m), f, p, x, n, l, m)
BY DEF PutAt, PutSet, Pair, Buffer

LEMMA PutIs ==
  ASSUME NEW w, Writes(w), driver \in {"fat", "d64"}, NEW x \in Nat
  PROVE  /\ Writes(Put(w, x)) /\ End(Put(w, x).b) > 2 /\ Content(Put(w, x)) = Append(Content(w), x)
         /\ Put(w, x).b.what = w.b.what /\ Put(w, x).b.allocated = w.b.allocated
         /\ Put(w, x).b.secondary = w.b.secondary
<1> DEFINE f == Flush(w)  p == f.b.position
           l == IF f.b.lastused < p THEN p ELSE f.b.lastused
           n == (p + 1) % Width
           m == f.b.mustflush \/ n = 0
           g == PutAt(f, p, x, n, l, m)
<1>1. /\ Writes(f) /\ ~f.b.mustflush /\ Content(f) = Content(w)
      /\ f.b.what = w.b.what /\ f.b.allocated = w.b.allocated /\ f.b.secondary = w.b.secondary
  BY FlushIs
<1>2. Put(w, x) = g
  BY Zenon DEF Put, PutAt
<1> HIDE DEF f
<1>3. f \in Pair /\ f.b \in Buffer /\ f.file \in Seq(Nat) /\ f.b.data \in [Indices -> Nat] /\ f.b.lastused \in Indices
  BY <1>1 DEF Writes, Pair, Buffer
<1>4. p \in 2 .. Block + 1 /\ End(f.b) = p /\ (f.b.lastused = p - 1 \/ (p = 2 /\ f.b.lastused = 2))
  <2>1. f.b.position \in 0 .. Block + 1
    BY <1>3, Sizes DEF Buffer
  <2>2. QED BY <2>1, <1>1 DEF Writes, Writing, End
<1> HIDE DEF p
<1>5. p \in Indices /\ l = p /\ n \in Indices /\ (n = IF p = Top THEN 0 ELSE p + 1) /\ (m <=> p = Top) /\ m \in BOOLEAN
  <2>1. p = Top => (p + 1) % Width = 0
    BY <1>4, Sizes
  <2>2. p # Top => (p + 1) % Width = p + 1
    BY <1>4, Sizes
  <2>3. l = p
    BY <1>4
  <2> HIDE DEF l
  <2>4. QED BY <1>1, <1>4, <2>1, <2>2, <2>3, Sizes
<1> HIDE DEF l, n, m
<1>6. /\ g \in Pair /\ g.file = f.file
      /\ g.b.data = [f.b.data EXCEPT ![p] = x] /\ g.b.lastused = l /\ g.b.position = n /\ g.b.mustflush = m
      /\ g.b.what = f.b.what /\ g.b.allocated = f.b.allocated /\ g.b.secondary = f.b.secondary
  <2>1. f \in Pair /\ p \in Indices /\ n \in Indices /\ l \in Indices /\ m \in BOOLEAN
    BY <1>3, <1>5
  <2>2. PutSet(g, f, p, x, n, l, m)
    BY <2>1, PutFields, Zenon
  <2>3. QED BY <2>2, Zenon DEF PutSet
<1> HIDE DEF g
<1>7. End(g.b) = p + 1
  BY <1>4, <1>5, <1>6, Sizes DEF End
<1>8. Writes(g)
  <2>1. g.b.mustflush <=> g.b.position = 0
    BY <1>4, <1>5, <1>6, Sizes
  <2>2. g.b.lastused = End(g.b) - 1
    BY <1>4, <1>5, <1>6, <1>7
  <2>3. QED BY <2>1, <2>2, <1>4, <1>6, <1>7 DEF Writes, Writing
<1> DEFINE old == Bytes(f.b, 2, p - 1)  new == Bytes(g.b, 2, p)
<1>9. old \in Seq(Nat) /\ Len(old) = p - 2 /\ \A i \in 1 .. p - 2 : old[i] = Byte(f.b, 2 + i - 1)
  <2>1. p - 1 \in Int /\ 2 \in Int /\ p - 2 \in Nat /\ p - 2 = (p - 1) - 2 + 1
    BY <1>4
  <2> DEFINE c == f.b  to == p - 1  k == p - 2
  <2>2. c \in Buffer /\ to \in Int /\ 2 \in Int /\ k \in Nat /\ k = to - 2 + 1
    BY <1>3, <2>1
  <2> HIDE DEF c, to, k
  <2>3. Some(c, 2, to, k)
    BY <2>2, SomeBytes
  <2>4. QED BY <2>3, Zenon DEF c, to, k, Some
<1>10. new \in Seq(Nat) /\ Len(new) = p - 1 /\ \A i \in 1 .. p - 1 : new[i] = Byte(g.b, 2 + i - 1)
  <2>1. p \in Int /\ 2 \in Int /\ p - 1 \in Nat /\ p - 1 = p - 2 + 1
    BY <1>4
  <2>2. g.b \in Buffer
    BY <1>6 DEF Pair
  <2> DEFINE c == g.b  k == p - 1
  <2>3. c \in Buffer /\ p \in Int /\ 2 \in Int /\ k \in Nat /\ k = p - 2 + 1
    BY <2>1, <2>2
  <2> HIDE DEF c, k
  <2>4. Some(c, 2, p, k)
    BY <2>3, SomeBytes
  <2>5. QED BY <2>4, Zenon DEF c, k, Some
<1>11. Byte(g.b, p) = x /\ \A i \in 2 .. p - 1 : Byte(g.b, i) = Byte(f.b, i)
  <2>1. p \in Indices /\ g.b.data = [f.b.data EXCEPT ![p] = x] /\ f.b.data \in [Indices -> Nat]
    BY <1>3, <1>5, <1>6
  <2>2. \A i \in 2 .. p - 1 : i \in Indices /\ i # p
    BY <1>4, Sizes
  <2>3. \A i \in Indices : g.b.data[i] = IF i = p THEN x ELSE f.b.data[i]
    BY <2>1
  <2>4. QED BY <2>1, <2>2, <2>3 DEF Byte
<1> HIDE DEF old, new
<1>12. new = Append(old, x)
  <2>1a. old \in Seq(Nat)
    BY <1>9
  <2> DEFINE a == Append(old, x)
  <2>1b. /\ a \in Seq(Nat) /\ Len(a) = Len(old) + 1 /\ a[Len(old) + 1] = x
        /\ \A i \in 1 .. Len(old) : a[i] = old[i]
    BY <2>1a, AppendProperties
  <2> HIDE DEF a
  <2>1. a \in Seq(Nat) /\ Len(a) = p - 1
    BY <2>1b, <1>9, <1>4
  <2>2. ASSUME NEW i \in 1 .. p - 1 PROVE new[i] = a[i]
    <3>1. CASE i = p - 1
      <4>1. a[i] = x
        BY <2>1b, <1>9, <3>1, <1>4
      <4>2. 2 + i - 1 = p
        BY <3>1, <1>4
      <4>3. QED BY <4>1, <4>2, <1>10, <1>11
    <3>2. CASE i # p - 1
      <4>1. i \in 1 .. p - 2 /\ 2 + i - 1 \in 2 .. p - 1
        BY <3>2, <1>4
      <4>2. a[i] = old[i]
        BY <4>1, <1>9, <2>1b
      <4>3. QED BY <4>1, <4>2, <1>9, <1>10, <1>11
    <3>3. QED BY <3>1, <3>2
  <2>3. new = a
    BY <2>1, <2>2, <1>10, SeqEqual
  <2>4. QED BY <2>3 DEF a
<1>13. Content(f) = f.file \o old /\ Content(g) = f.file \o new
  <2>1. (p + 1) - 1 = p
    BY <1>4
  <2>2. QED BY <2>1, <1>4, <1>6, <1>7 DEF Content, old, new
<1>14. f.file \o new = Append(f.file \o old, x)
  <2> DEFINE t == f.file
  <2>1. t \in Seq(Nat)
    BY <1>3
  <2> HIDE DEF t
  <2>2. t \o Append(old, x) = Append(t \o old, x)
    BY <2>1, <1>9
  <2>3. QED BY <2>2, <1>12 DEF t
<1>15. End(g.b) > 2
  BY <1>4, <1>7
<1>16. Content(g) = Append(Content(w), x)
  BY <1>1, <1>13, <1>14
<1>17. QED BY <1>1, <1>2, <1>6, <1>8, <1>15, <1>16

Writers == {v \in Pair : Writes(v)}

LEMMA PuttingTable ==
  ASSUME NEW w \in Writers, driver \in {"fat", "d64"}, NEW bytes \in Seq(Nat)
  PROVE  \E into \in [0 .. Len(bytes) -> Writers] :
           /\ into[0] = w
           /\ \A i \in 1 .. Len(bytes) : into[i] = Put(into[i - 1], bytes[i])
           /\ Putting(w, bytes) = into[Len(bytes)]
<1> DEFINE n == Len(bytes)
           Is(t) == t = [i \in 0 .. n |-> IF i = 0 THEN w ELSE Put(t[i - 1], bytes[i])]
           c == CHOOSE t : Is(t)
           F == [i \in 0 .. n |-> [v \in Writers |-> IF i = 0 THEN v ELSE Put(v, bytes[i])]]
<1>1. Putting(w, bytes) = c[n]
  BY Zenon DEF Putting
<1>2. n \in Nat /\ \A i \in 1 .. n : bytes[i] \in Nat
  OBVIOUS
<1> HIDE DEF n
<1>3. F \in [0 .. n -> [Writers -> Writers]]
  <2>1. ASSUME NEW i \in 0 .. n, NEW v \in Writers, i # 0 PROVE Put(v, bytes[i]) \in Writers
    <3>1. bytes[i] \in Nat
      BY <1>2, <2>1
    <3>2. Writes(v)
      BY DEF Writers
    <3>3. Writes(Put(v, bytes[i]))
      BY <3>1, <3>2, PutIs
    <3>4. QED BY <3>3 DEF Writers, Writes
  <2>2. QED BY <2>1
<1>4. PICK t : IsTable(t, n, Writers, w, F)
  <2> HIDE DEF F
  <2>1. n \in Nat
    BY <1>2
  <2>2. QED BY <1>3, <2>1, TableExists
<1>5. \A i \in 1 .. n : t[i] = Put(t[i - 1], bytes[i])
  <2> TAKE i \in 1 .. n
  <2>1. t[i - 1] \in Writers /\ i \in 0 .. n /\ i # 0
    BY <1>2, <1>4 DEF IsTable
  <2>2. F[i][t[i - 1]] = Put(t[i - 1], bytes[i])
    BY <2>1
  <2>3. QED BY <1>4, <2>2 DEF IsTable
<1> HIDE DEF F
<1>6. Is(t)
  <2>1. \A i \in 0 .. n : t[i] = IF i = 0 THEN w ELSE Put(t[i - 1], bytes[i])
    BY <1>2, <1>4, <1>5 DEF IsTable
  <2>2. t = [i \in 0 .. n |-> t[i]]
    BY <1>4 DEF IsTable
  <2>3. QED BY <2>1, <2>2
<1>7. Is(c)
  <2> HIDE DEF Is
  <2>1. QED BY <1>6
<1>8. \A i \in 0 .. n : c[i] = IF i = 0 THEN w ELSE Put(c[i - 1], bytes[i])
  <2> HIDE DEF c
  <2>1. c = [i \in 0 .. n |-> IF i = 0 THEN w ELSE Put(c[i - 1], bytes[i])]
    BY <1>7
  <2>2. QED BY <2>1
<1> HIDE DEF c, Is
<1>9. \A i \in 0 .. n : i \in {k \in 0 .. n : c[k] = t[k]}
  <2> DEFINE S == {k \in 0 .. n : c[k] = t[k]}
  <2>1. 0 \in S
    BY <1>2, <1>4, <1>8 DEF IsTable
  <2>2. ASSUME NEW i \in 1 .. n, i - 1 \in S PROVE i \in S
    BY <2>2, <1>2, <1>8, <1>5
  <2> HIDE DEF S
  <2>3. QED BY <1>2, <2>1, <2>2, Upto DEF S
<1>10. c[n] = t[n]
  BY <1>2, <1>9
<1>11. QED BY <1>1, <1>10, <1>4, <1>5 DEF n, IsTable

(* A block of bytes is behind what was there, and nothing else changes.      *)
LEMMA PuttingIs ==
  ASSUME NEW w, Writes(w), driver \in {"fat", "d64"}, NEW bytes \in Seq(Nat)
  PROVE  LET q == Putting(w, bytes)
         IN /\ Writes(q) /\ Content(q) = Content(w) \o bytes
            /\ q.b.what = w.b.what /\ q.b.allocated = w.b.allocated /\ q.b.secondary = w.b.secondary
            /\ bytes # <<>> => End(q.b) > 2
<1> DEFINE n == Len(bytes)
           Same(v) == v.b.what = w.b.what /\ v.b.allocated = w.b.allocated /\ v.b.secondary = w.b.secondary
<1>1. w \in Writers /\ n \in Nat /\ \A i \in 1 .. n : bytes[i] \in Nat
  BY DEF Writers, Writes
<1>2. PICK into \in [0 .. n -> Writers] :
        /\ into[0] = w
        /\ \A i \in 1 .. n : into[i] = Put(into[i - 1], bytes[i])
        /\ Putting(w, bytes) = into[n]
  BY <1>1, PuttingTable
<1>3. \A i \in 0 .. n : Writes(into[i])
  BY <1>2 DEF Writers
<1> DEFINE S == {i \in 0 .. n : /\ Content(into[i]) = Content(w) \o SubSeq(bytes, 1, i)
                                /\ Same(into[i]) /\ (i # 0 => End(into[i].b) > 2)}
<1>4. Content(w) \in Seq(Nat)
  BY ContentIs
<1>5. 0 \in S
  <2>1. SubSeq(bytes, 1, 0) = <<>>
    BY SubSeqEmpty
  <2>2. Content(w) \o <<>> = Content(w)
    BY <1>4, ConcatEmptySeq
  <2>3. Content(into[0]) = Content(w) \o SubSeq(bytes, 1, 0)
    BY <1>2, <2>1, <2>2, Zenon
  <2>4. Same(into[0])
    BY <1>2
  <2> HIDE DEF Same
  <2>5. QED BY <2>3, <2>4, <1>1
<1>6. ASSUME NEW i \in 1 .. n, i - 1 \in S PROVE i \in S
  <2> DEFINE v == into[i - 1]  s == SubSeq(bytes, 1, i - 1)  x == bytes[i]
  <2>1. Writes(v) /\ x \in Nat /\ into[i] = Put(v, x)
    BY <1>1, <1>2, <1>3
  <2>2. s \in Seq(Nat) /\ Append(s, x) = SubSeq(bytes, 1, i)
    OBVIOUS
  <2>3. Content(v) = Content(w) \o s /\ Same(v)
    BY <1>6
  <2> HIDE DEF v, s, x
  <2>4. /\ End(Put(v, x).b) > 2 /\ Content(Put(v, x)) = Append(Content(v), x)
        /\ Put(v, x).b.what = v.b.what /\ Put(v, x).b.allocated = v.b.allocated
        /\ Put(v, x).b.secondary = v.b.secondary
    BY <2>1, PutIs
  <2>5. Append(Content(w) \o s, x) = Content(w) \o Append(s, x)
    BY <1>4, <2>1, <2>2, AppendBehind
  <2>6. Content(into[i]) = Content(w) \o SubSeq(bytes, 1, i)
    BY <2>1, <2>2, <2>3, <2>4, <2>5, Zenon
  <2>7. Same(into[i]) /\ End(into[i].b) > 2
    BY <2>1, <2>3, <2>4, Zenon
  <2> HIDE DEF Same
  <2>8. QED BY <2>6, <2>7, <1>1
<1>7. n \in S
  <2> HIDE DEF S, n
  <2>1. \A i \in 0 .. n : i \in S
    BY <1>1, <1>5, <1>6, Upto
  <2>2. QED BY <2>1, <1>1
<1>8. SubSeq(bytes, 1, n) = bytes
  BY SubSeqFull
<1>9. bytes # <<>> => n # 0
  OBVIOUS
<1>10. Writes(into[n])
  BY <1>1, <1>3
<1> HIDE DEF n
<1>11. Content(into[n]) = Content(w) \o bytes /\ Same(into[n]) /\ (n # 0 => End(into[n].b) > 2)
  <2> HIDE DEF Same
  <2>1. QED BY <1>7, <1>8
<1>12. QED BY <1>2, <1>9, <1>10, <1>11
-----------------------------------------------------------------------------
(***************************************************************************)
(* What a block says, and what the computer hears.                         *)
(***************************************************************************)
LEMMA Spliced ==
  ASSUME NEW S, NEW a \in Seq(S), NEW s \in Seq(S)
  PROVE  /\ From(a \o s, Len(a) + 1) = s
         /\ a \o s \in Seq(S) /\ Len(a \o s) = Len(a) + Len(s)
         /\ \A i \in 1 .. Len(a) : (a \o s)[i] = a[i]
         /\ \A i \in 1 .. Len(s) : (a \o s)[Len(a) + i] = s[i]
<1> DEFINE m == a \o s  n == Len(a)  k == Len(s)
<1>1. n \in Nat /\ k \in Nat
  OBVIOUS
<1>2. m \in Seq(S) /\ Len(m) = n + k /\ \A i \in 1 .. n + k : m[i] = IF i <= n THEN a[i] ELSE s[i - n]
  BY ConcatProperties
<1>3. \A i \in 1 .. k : s[i] \in S
  OBVIOUS
<1> HIDE DEF m, n, k
<1>4. (\A i \in 1 .. n : m[i] = a[i]) /\ (\A i \in 1 .. k : m[n + i] = s[i])
  BY <1>1, <1>2
<1> DEFINE t == SubSeq(m, n + 1, n + k)
<1>5. t \in Seq(S) /\ Len(t) = k /\ \A i \in 1 .. k : t[i] = m[n + 1 + i - 1]
  <2>1. \A i \in n + 1 .. n + k : m[i] \in S
    BY <1>1, <1>2, <1>3
  <2>2. n + 1 \in Int /\ n + k \in Int /\ (n + k) - (n + 1) + 1 = k
    BY <1>1
  <2>3. QED BY <1>1, <2>1, <2>2, SubSeqProperties
<1> HIDE DEF t
<1>6. \A i \in 1 .. k : t[i] = s[i]
  <2> TAKE i \in 1 .. k
  <2>1. n + 1 + i - 1 = n + i
    BY <1>1
  <2>2. QED BY <2>1, <1>4, <1>5
<1>7. t = s
  BY <1>5, <1>6, SeqEqual DEF k
<1>8. From(m, n + 1) = t
  BY <1>2, Zenon DEF From, t
<1>9. QED BY <1>2, <1>4, <1>7, <1>8 DEF m, n, k

LEMMA CutIs ==
  ASSUME NEW S, NEW s \in Seq(S), NEW k \in 0 .. Len(s)
  PROVE  /\ Cut(s, k) \in Seq(S) /\ Len(Cut(s, k)) = k
         /\ \A i \in 1 .. k : Cut(s, k)[i] = s[i]
<1>1. Len(s) \in Nat /\ \A i \in 1 .. Len(s) : s[i] \in S
  OBVIOUS
<1>2. Least(k, Len(s)) = k
  BY <1>1 DEF Least
<1> DEFINE t == SubSeq(s, 1, k)
<1>3. t \in Seq(S) /\ Len(t) = k /\ \A i \in 1 .. k : t[i] = s[i]
  <2>1. \A i \in 1 .. k : s[i] \in S
    BY <1>1
  <2>2. k \in Int /\ 1 \in Int /\ k - 1 + 1 = k /\ (~(1 <= k) => k = 0)
    BY <1>1
  <2>3. t \in Seq(S) /\ Len(t) = (IF 1 <= k THEN k - 1 + 1 ELSE 0) /\ \A i \in 1 .. k - 1 + 1 : t[i] = s[1 + i - 1]
    BY <2>1, <2>2, SubSeqProperties
  <2> HIDE DEF t
  <2>4. QED BY <2>2, <2>3
<1>4. Cut(s, k) = t
  BY <1>2, Zenon DEF Cut
<1>5. QED BY <1>3, <1>4

(* The bytes of a block: those of a file in front, others perhaps behind.    *)
Carries(b, s) ==
  LET n == b.lastused - 1
  IN /\ s \in Seq(Int) /\ Len(s) >= n
     /\ \A i \in 1 .. n : s[i] = b.data[i + 1]

Fills(b) == b \in Buffer /\ b.position = 2 /\ b.lastused - 1 \in 1 .. Block /\ (~b.sendeoi => b.lastused - 1 = Block)

LEMMA BlockIs ==
  ASSUME NEW b, Fills(b)
  PROVE  /\ Bytes(b, 2, b.lastused) \in Seq(Nat) /\ Len(Bytes(b, 2, b.lastused)) = b.lastused - 1
         /\ Carries(b, Bytes(b, 2, b.lastused)) /\ Bytes(b, 2, b.lastused)[1] \in Nat
         /\ \A i \in 1 .. b.lastused - 1 : Bytes(b, 2, b.lastused)[i] = b.data[i + 1]
<1> DEFINE l == b.lastused  s == Bytes(b, 2, l)
<1>1. b \in Buffer /\ l \in 2 .. Block + 1 /\ b.data \in [Indices -> Nat]
  <2>1. b \in Buffer /\ b.lastused - 1 \in 1 .. Block
    BY DEF Fills
  <2>2. b.lastused \in Indices /\ b.data \in [Indices -> Nat]
    BY <2>1 DEF Buffer
  <2> DEFINE k == b.lastused
  <2>3. k \in 0 .. Block + 1 /\ k - 1 \in 1 .. Block /\ Block \in Nat
    <3>1. Indices = 0 .. Block + 1 /\ Block \in Nat
      BY Sizes
    <3>2. QED BY <2>1, <2>2, <3>1, Zenon
  <2> HIDE DEF k
  <2>4. k \in 2 .. Block + 1
    BY <2>3
  <2>5. QED BY <2>1, <2>2, <2>4 DEF k
<1>2. s \in Seq(Nat) /\ s \in Seq(Int) /\ Len(s) = l - 1 /\ \A i \in 1 .. l - 1 : s[i] = Byte(b, 2 + i - 1)
  <2>1. 2 \in Int /\ l \in Int /\ l - 1 \in Nat /\ l - 1 = l - 2 + 1
    BY <1>1, Sizes
  <2> DEFINE k == l - 1
  <2>2. k \in Nat /\ k = l - 2 + 1
    BY <2>1
  <2> HIDE DEF k, l
  <2>3. Some(b, 2, l, k)
    BY <1>1, <2>1, <2>2, SomeBytes
  <2>4. QED BY <2>3, Zenon DEF k, Some
<1> HIDE DEF s, l
<1>3. ASSUME NEW i \in 1 .. l - 1 PROVE s[i] = b.data[i + 1]
  <2>1. 2 + i - 1 = i + 1 /\ i + 1 \in Indices
    BY <1>1, Sizes
  <2>2. QED BY <1>2, <2>1 DEF Byte
<1>4. s[1] \in Nat
  BY <1>1, <1>2, Sizes
<1>5. QED BY <1>1, <1>2, <1>3, <1>4, Sizes DEF Carries, l, s

(* From a position on, as many as there are.                                *)
LEMMA RangeIs ==
  ASSUME NEW b, Fills(b), NEW p \in {0, 2, 4}, NEW to \in Int, to >= p - 1
  PROVE  /\ Bytes(b, p, to) \in Seq(Nat) /\ Bytes(b, p, to) \in Seq(Int) /\ Len(Bytes(b, p, to)) = to - p + 1
         /\ \A i \in 1 .. to - p + 1 : p + i - 1 <= b.lastused => Bytes(b, p, to)[i] = b.data[p + i - 1]
<1> DEFINE s == Bytes(b, p, to)
<1>1. b \in Buffer /\ b.lastused \in 2 .. Block + 1 /\ b.data \in [Indices -> Nat]
  <2>1. b \in Buffer /\ b.lastused - 1 \in 1 .. Block
    BY DEF Fills
  <2>2. b.lastused \in Indices /\ b.data \in [Indices -> Nat]
    BY <2>1 DEF Buffer
  <2> DEFINE k == b.lastused
  <2>3. k \in 0 .. Block + 1 /\ k - 1 \in 1 .. Block /\ Block \in Nat
    <3>1. Indices = 0 .. Block + 1 /\ Block \in Nat
      BY Sizes
    <3>2. QED BY <2>1, <2>2, <3>1, Zenon
  <2> HIDE DEF k
  <2>4. k \in 2 .. Block + 1
    BY <2>3
  <2>5. QED BY <2>1, <2>2, <2>4 DEF k
<1>2. s \in Seq(Nat) /\ s \in Seq(Int) /\ Len(s) = to - p + 1 /\ \A i \in 1 .. to - p + 1 : s[i] = Byte(b, p + i - 1)
  <2> DEFINE k == to - p + 1
  <2>1. p \in Int /\ k \in Nat /\ k = to - p + 1
    OBVIOUS
  <2> HIDE DEF k
  <2>2. Some(b, p, to, k)
    BY <1>1, <2>1, SomeBytes
  <2>3. QED BY <2>2, Zenon DEF k, Some
<1> HIDE DEF s
<1>3. ASSUME NEW i \in 1 .. to - p + 1, p + i - 1 <= b.lastused PROVE s[i] = b.data[p + i - 1]
  <2>1. p + i - 1 \in Indices
    BY <1>1, <1>3, Sizes
  <2>2. QED BY <1>2, <2>1 DEF Byte
<1>4. QED BY <1>2, <1>3 DEF s

Longer == {"wheels_s1", "n0sdos"}
Delivers(b, m) ==
  /\ m \in Seq(Int) /\ m # <<>> /\ Carries(b, Hears(m))
  /\ loader \notin Longer \/ ~b.sendeoi => Len(Hears(m)) = b.lastused - 1
  /\ Verdict(m) \in {"none", "complete", "error"}
  /\ Verdict(m) = "complete" => b.sendeoi /\ loader \notin Longer

LEMMA CountedDelivers ==
  ASSUME NEW b, Fills(b), loader \in {"ar6", "eload", "epyx"}
  PROVE  Delivers(b, Counted(b))
<1> DEFINE s == Bytes(b, 2, b.lastused)  n == b.lastused - 1  c == <<n>>  m == c \o s
<1>1. s \in Seq(Int) /\ Len(s) = n /\ Carries(b, s) /\ n \in 1 .. Block
  <2>1. s \in Seq(Nat) => s \in Seq(Int)
    OBVIOUS
  <2>2. QED BY <2>1, BlockIs DEF Fills, Carries
<1> HIDE DEF s
<1>2. n \in Int /\ n > 0
  BY <1>1, Sizes
<1> HIDE DEF n
<1>3. c \in Seq(Int) /\ Len(c) = 1 /\ c[1] = n
  BY <1>2
<1>4. Counted(b) = m
  BY Zenon DEF Counted, m, c, n, s
<1> HIDE DEF c
<1>5. m \in Seq(Int) /\ Len(m) = 1 + Len(s) /\ m[1] = n /\ From(m, 2) = s
  <2>1. From(m, Len(c) + 1) = s
    BY <1>1, <1>3, Spliced, ZenonT(30)
  <2>2. m \in Seq(Int)
    BY <1>1, <1>3, Spliced
  <2>3. Len(m) = Len(c) + Len(s)
    BY <1>1, <1>3, Spliced
  <2>4. m[1] = c[1]
    <3>1. 1 \in 1 .. Len(c)
      BY <1>3
    <3>2. \A i \in 1 .. Len(c) : m[i] = c[i]
      BY <1>1, <1>3, Spliced
    <3>3. QED BY <3>1, <3>2
  <2>5. QED BY <2>1, <2>2, <2>3, <2>4, <1>3
<1> HIDE DEF m
<1>6. m # <<>>
  BY <1>1, <1>2, <1>5
<1>7. Tail(m) = s
  <2>1. Tail(m) = SubSeq(m, 2, Len(m))
    BY <1>5, <1>6, TailIsSubSeq
  <2>2. QED BY <2>1, <1>5 DEF From
<1>8. Hears(m) = s
  BY <1>7 DEF Hears
<1>9. Verdict(m) \in {"none", "error"}
  BY <1>2, <1>5, <1>6 DEF Verdict
<1>10. QED BY <1>1, <1>4, <1>5, <1>6, <1>8, <1>9 DEF Delivers, n

LEMMA PlainDelivers ==
  ASSUME NEW b, Fills(b), loader \in {"oldfreeze", "dolphin"},
         NEW m, m = oldfreeze(b) \/ (loader = "dolphin" /\ m = dolphin(b))
  PROVE  Delivers(b, m)
<1> DEFINE s == Bytes(b, 2, b.lastused)  n == b.lastused - 1
<1>1. /\ s \in Seq(Int) /\ Len(s) = n /\ Carries(b, s) /\ n \in 1 .. Block /\ s[1] \in Nat
      /\ ~b.sendeoi => n = Block
  <2>1. s \in Seq(Nat) => s \in Seq(Int)
    OBVIOUS
  <2>2. QED BY <2>1, BlockIs DEF Fills, Carries
<1>2. m = s
  <2>1. ~b.sendeoi => Top = b.lastused
    <3>1. b.lastused \in Nat
      BY Sizes DEF Fills, Buffer
    <3>2. QED BY <1>1, <3>1, Sizes
  <2>2. QED BY <2>1 DEF oldfreeze, dolphin
<1> HIDE DEF s
<1>3. s # <<>> /\ s # <<Hold>>
  <2>1. s[1] # Hold
    BY <1>1 DEF Hold
  <2>2. <<Hold>>[1] = Hold
    OBVIOUS
  <2>3. QED BY <2>1, <2>2, <1>1, Sizes
<1>4. Hears(s) = s
  BY <1>3 DEF Hears
<1>5. Verdict(s) = "none"
  BY <1>1, <1>3 DEF Verdict, DataLow, BothLow, Hold
<1>6. QED BY <1>1, <1>2, <1>3, <1>4, <1>5 DEF Delivers

LEMMA WholeDelivers ==
  ASSUME NEW b, Fills(b), loader \in {"wheels_s1", "n0sdos"},
         NEW m, IF loader = "wheels_s1" THEN m = wheels_s1(b) ELSE m = n0sdos(b)
  PROVE  Delivers(b, m)
<1> DEFINE n == b.lastused - 1
           s == Bytes(b, 2, Top)  a == Bytes(b, 0, 1)
<1>1. n \in 1 .. Block /\ (~b.sendeoi => n = Block) /\ b.lastused = n + 1 /\ b.position = 2 /\ b.lastused \in Int
  BY Sizes DEF Fills, Buffer
<1>2. s \in Seq(Int) /\ Len(s) = Block /\ Carries(b, s)
  <2>1. Top \in Int /\ Top >= 2 - 1 /\ Top - 2 + 1 = Block
    BY Sizes
  <2>2. s \in Seq(Int) /\ Len(s) = Block /\ \A i \in 1 .. Block : 2 + i - 1 <= b.lastused => s[i] = b.data[2 + i - 1]
    BY <2>1, RangeIs
  <2> HIDE DEF s
  <2>3. \A i \in 1 .. n : s[i] = b.data[i + 1]
    <3> TAKE i \in 1 .. n
    <3>1. i \in 1 .. Block /\ 2 + i - 1 <= b.lastused /\ 2 + i - 1 = i + 1
      BY <1>1, Sizes
    <3>2. QED BY <3>1, <2>2
  <2>4. QED BY <1>1, <2>2, <2>3, Sizes DEF Carries
<1>3. CASE loader = "n0sdos"
  <2>1. m = s
    <3>1. b.position + Block - 1 = Top
      BY <1>1, Sizes
    <3>2. QED BY <1>1, <3>1, <1>3 DEF n0sdos
  <2> HIDE DEF s
  <2>2. m # <<>> /\ Hears(m) = s /\ Verdict(m) = "none"
    BY <1>2, <1>3, <2>1, Sizes DEF Hears, Verdict
  <2>3. ~b.sendeoi => Len(Hears(s)) = b.lastused - 1
    BY <1>1, <1>2, <2>1, <2>2
  <2>4. QED BY <1>2, <1>3, <2>1, <2>2, <2>3 DEF Delivers, Longer, Carries
<1>4. CASE loader = "wheels_s1"
  <2> DEFINE w == Bytes(b, 0, Top)
  <2>1. m = w
    BY <1>4 DEF wheels_s1
  <2>2. w \in Seq(Int) /\ Len(w) = Block + 2 /\ \A i \in 1 .. Block + 2 : i - 1 <= b.lastused => w[i] = b.data[i - 1]
    <3>1. Top \in Int /\ Top >= 0 - 1 /\ Top - 0 + 1 = Block + 2
      BY Sizes
    <3>2. w \in Seq(Int) /\ Len(w) = Block + 2 /\ \A i \in 1 .. Block + 2 : 0 + i - 1 <= b.lastused => w[i] = b.data[0 + i - 1]
      BY <3>1, RangeIs, ZenonT(30)
    <3>3. QED BY <3>2
  <2> HIDE DEF w, s
  <2> DEFINE h == SubSeq(w, 3, Block + 2)
  <2>3. h \in Seq(Int) /\ Len(h) = Block /\ \A i \in 1 .. Block : h[i] = w[i + 2]
    <3>1. \A i \in 3 .. Block + 2 : w[i] \in Int
      BY <2>2, Sizes
    <3>2. 3 \in Int /\ Block + 2 \in Int /\ 3 <= Block + 2 /\ (Block + 2) - 3 + 1 = Block
      BY Sizes
    <3>3. h \in Seq(Int) /\ Len(h) = Block /\ \A i \in 1 .. Block : h[i] = w[3 + i - 1]
      BY <3>1, <3>2, SubSeqProperties
    <3> HIDE DEF h
    <3>4. \A i \in 1 .. Block : 3 + i - 1 = i + 2
      BY Sizes
    <3>5. QED BY <3>3, <3>4
  <2>4. Hears(w) = h
    <3>1. Hears(w) = From(w, 3)
      BY <1>4 DEF Hears
    <3>2. QED BY <3>1, <2>2 DEF From
  <2> HIDE DEF h
  <2>5. \A i \in 1 .. n : h[i] = b.data[i + 1]
    <3> TAKE i \in 1 .. n
    <3>1. i \in 1 .. Block /\ i + 2 \in 1 .. Block + 2 /\ (i + 2) - 1 = i + 1 /\ i + 1 <= b.lastused
      BY <1>1, Sizes
    <3>2. QED BY <3>1, <2>2, <2>3
  <2>6. w # <<>> /\ Verdict(w) = "none"
    BY <1>4, <2>2, Sizes DEF Verdict
  <2>7. Carries(b, h)
    BY <1>1, <2>3, <2>5 DEF Carries
  <2>8. ~b.sendeoi => Len(Hears(w)) = b.lastused - 1
    BY <1>1, <2>3, <2>4
  <2>9. QED BY <1>4, <2>1, <2>2, <2>4, <2>6, <2>7, <2>8 DEF Delivers, Longer
<1>5. QED BY <1>3, <1>4

LEMMA Two ==
  ASSUME NEW x \in Int, NEW y \in Int, NEW s \in Seq(Int)
  PROVE  /\ <<x, y>> \o s \in Seq(Int) /\ Len(<<x, y>> \o s) = 2 + Len(s) /\ <<x, y>> \o s # <<>>
         /\ (<<x, y>> \o s)[1] = x /\ (<<x, y>> \o s)[2] = y /\ From(<<x, y>> \o s, 3) = s
<1> DEFINE c == <<x, y>>  m == c \o s
<1>1. c \in Seq(Int) /\ Len(c) = 2 /\ c[1] = x /\ c[2] = y
  OBVIOUS
<1> HIDE DEF c
<1>2. 1 \in 1 .. Len(c) /\ 2 \in 1 .. Len(c) /\ Len(c) + 1 = 3
  BY <1>1
<1>3. From(m, 3) = s
  <2>1. From(m, Len(c) + 1) = s
    BY <1>1, Spliced
  <2>2. QED BY <2>1, <1>2
<1>4. m \in Seq(Int)
  BY <1>1, Spliced
<1>5. Len(m) = 2 + Len(s)
  <2>1. Len(m) = Len(c) + Len(s)
    BY <1>1, Spliced
  <2>2. QED BY <2>1, <1>1
<1>6. \A i \in 1 .. Len(c) : m[i] = c[i]
  BY <1>1, Spliced, ZenonT(30)
<1>7. m[1] = x /\ m[2] = y
  BY <1>6, <1>2, <1>1
<1>8. Len(s) \in Nat
  OBVIOUS
<1>9. m # <<>>
  <2> HIDE DEF m
  <2>1. QED BY <1>5, <1>8
<1>10. QED BY <1>3, <1>4, <1>5, <1>7, <1>9 DEF c

LEMMA Fc3Delivers ==
  ASSUME NEW b, Fills(b), loader \in {"fc3", "fc3freezed"}
  PROVE  Delivers(b, fc3(b))
<1> DEFINE n == b.lastused - 1
           k == IF b.sendeoi THEN b.lastused ELSE 0
           s == Bytes(b, 2, 2 + Width)
           m == <<0, k>> \o s
<1>1. n \in 1 .. Block /\ (~b.sendeoi => n = Block) /\ b.lastused = n + 1 /\ b.position = 2 /\ b.lastused \in Int
  BY Sizes DEF Fills, Buffer
<1>2. s \in Seq(Int) /\ Len(s) = Width + 1 /\ \A i \in 1 .. n : s[i] = b.data[i + 1]
  <2>1. 2 + Width \in Int /\ 2 + Width >= 2 - 1 /\ (2 + Width) - 2 + 1 = Width + 1
    BY Sizes
  <2>2. s \in Seq(Int) /\ Len(s) = Width + 1 /\ \A i \in 1 .. Width + 1 : 2 + i - 1 <= b.lastused => s[i] = b.data[2 + i - 1]
    BY <2>1, RangeIs, ZenonT(30)
  <2> HIDE DEF s
  <2>3. \A i \in 1 .. n : s[i] = b.data[i + 1]
    <3> TAKE i \in 1 .. n
    <3>1. i \in 1 .. Width + 1 /\ 2 + i - 1 <= b.lastused /\ 2 + i - 1 = i + 1
      BY <1>1, Sizes
    <3>2. QED BY <3>1, <2>2
  <2>4. QED BY <2>2, <2>3
<1>3. fc3(b) = m
  BY Zenon DEF fc3, m, k, s
<1>4. k \in Int /\ (IF k = 0 THEN Block ELSE k - 1) = n
  BY <1>1, Sizes
<1> HIDE DEF s, k
<1>5. m \in Seq(Int) /\ Len(m) = 2 + Len(s) /\ m # <<>> /\ m[1] = 0 /\ m[2] = k /\ From(m, 3) = s
  <2>1. 0 \in Int
    OBVIOUS
  <2>2. QED BY <2>1, <1>2, <1>4, Two
<1> HIDE DEF m
<1>6. Hears(m) = Cut(s, n)
  <2>1. ~(Len(m) < 2)
    BY <1>2, <1>5, Sizes
  <2>2. Hears(m) = Cut(From(m, 3), IF m[2] = 0 THEN Block ELSE m[2] - 1)
    BY <2>1 DEF Hears
  <2>3. QED BY <2>2, <1>4, <1>5
<1>7. Cut(s, n) \in Seq(Int) /\ Len(Cut(s, n)) = n /\ \A i \in 1 .. n : Cut(s, n)[i] = s[i]
  <2>1. n \in 0 .. Len(s)
    BY <1>1, <1>2, Sizes
  <2> HIDE DEF n
  <2>2. QED BY <1>2, <2>1, CutIs
<1>8. Verdict(m) = "none"
  BY <1>5 DEF Verdict, DataLow, BothLow, Hold
<1>9. Carries(b, Cut(s, n))
  BY <1>1, <1>2, <1>7 DEF Carries
<1>10. Len(Hears(m)) = b.lastused - 1
  BY <1>6, <1>7
<1>11. QED BY <1>3, <1>5, <1>6, <1>8, <1>9, <1>10 DEF Delivers

LEMMA SamsDelivers ==
  ASSUME NEW b, Fills(b), loader = "sams"
  PROVE  Delivers(b, sams(b))
<1> DEFINE s == Bytes(b, 2, b.lastused)
           x == (Len(s) + 2) % Width
           y == IF b.sendeoi THEN 1 ELSE 0
           m == <<x, y>> \o s
<1>1. s \in Seq(Int) /\ Len(s) = b.lastused - 1 /\ Carries(b, s) /\ Len(s) \in Nat
  <2>1. s \in Seq(Nat) => s \in Seq(Int) /\ Len(s) \in Nat
    OBVIOUS
  <2>2. QED BY <2>1, BlockIs DEF Carries
<1>2. sams(b) = m
  BY Zenon DEF sams, transmit_block, m, x, y, s
<1> HIDE DEF s
<1>3. x \in Int /\ y \in Int
  BY <1>1, Sizes
<1>4. b.sendeoi <=> y = 1
  OBVIOUS
<1>5. y \in {0, 1}
  OBVIOUS
<1> HIDE DEF x, y
<1>6. m \in Seq(Int) /\ m # <<>> /\ m[2] = y /\ From(m, 3) = s
  BY <1>1, <1>3, Two
<1> HIDE DEF m
<1>7. Hears(m) = s
  BY <1>6 DEF Hears
<1>8. Verdict(m) = IF y = 1 THEN "complete" ELSE "none"
  BY <1>5, <1>6 DEF Verdict
<1>9. QED BY <1>1, <1>2, <1>4, <1>6, <1>7, <1>8 DEF Delivers, Longer

LEMMA GijoeDelivers ==
  ASSUME NEW b, Fills(b), loader = "gijoe"
  PROVE  Delivers(b, gijoe(b))
<1> DEFINE s == Bytes(b, 2, b.lastused)
           k == IF b.sendeoi THEN 255 ELSE 195
           e == Escaped(172, s)
           m == e \o <<172, k>>
<1>1. s \in Seq(Int) /\ Len(s) = b.lastused - 1 /\ Carries(b, s)
  <2>1. s \in Seq(Nat) => s \in Seq(Int)
    OBVIOUS
  <2>2. QED BY <2>1, BlockIs DEF Carries
<1>2. gijoe(b) = m
  <2>1. b.position = 2
    BY DEF Fills
  <2>2. CASE b.sendeoi
    <3>1. k = 255
      BY <2>2
    <3>2. gijoe(b) = e \o <<172, 255>>
      BY <2>1, <2>2, Zenon DEF gijoe, e, s
    <3>3. QED BY <3>1, <3>2
  <2>3. CASE ~b.sendeoi
    <3>1. k = 195
      BY <2>3
    <3>2. gijoe(b) = e \o <<172, 195>>
      BY <2>1, <2>3, Zenon DEF gijoe, e, s
    <3>3. QED BY <3>1, <3>2
  <2>4. QED BY <2>2, <2>3
<1> HIDE DEF s
<1>3. k \in Int /\ k # 172 /\ k # 247 /\ k \in {255, 195}
  OBVIOUS
<1>4. b.sendeoi <=> k = 255
  OBVIOUS
<1> HIDE DEF k
<1>5. e \in Seq(Int) /\ Unescaped(172, m) = s
  <2>1. 172 \in Int
    OBVIOUS
  <2>2. QED BY <1>1, <1>3, <2>1, HeardEscaped
<1> HIDE DEF e
<1>6. m \in Seq(Int) /\ Len(m) \in Nat /\ Len(m) > 0 /\ m[Len(m)] = k
  <2> DEFINE a == <<172, k>>
  <2>1. a \in Seq(Int) /\ Len(a) = 2 /\ a[2] = k
    BY <1>3
  <2> HIDE DEF a
  <2>2. e \o a \in Seq(Int)
    BY <1>5, <2>1, Spliced
  <2>3. Len(e \o a) = Len(e) + 2
    <3>1. Len(e \o a) = Len(e) + Len(a)
      BY <1>5, <2>1, Spliced
    <3>2. QED BY <3>1, <2>1
  <2>4. (e \o a)[Len(e) + 2] = k
    <3>1. e \in Seq(Int) /\ a \in Seq(Int)
      BY <1>5, <2>1
    <3>2. \A i \in 1 .. Len(a) : (e \o a)[Len(e) + i] = a[i]
      BY <3>1, Spliced, Zenon
    <3>3. QED BY <3>2, <2>1, SMTT(30)
  <2>5. Len(e) \in Nat
    BY <1>5
  <2>6. QED BY <2>2, <2>3, <2>4, <2>5 DEF a
<1> HIDE DEF m
<1>7. m # <<>> /\ m # gijoe_error
  <2>1. gijoe_error[Len(gijoe_error)] = 247
    BY DEF gijoe_error
  <2>2. QED BY <2>1, <1>3, <1>6
<1>8. Hears(m) = s
  BY <1>5, <1>7 DEF Hears
<1>9. Verdict(m) = IF k = 255 THEN "complete" ELSE "none"
  BY <1>6, <1>7 DEF Verdict
<1>10. QED BY <1>1, <1>2, <1>4, <1>6, <1>7, <1>8, <1>9 DEF Delivers, Longer

(* The address of a program is in its first block only.                     *)
LEMMA TurboDelivers ==
  ASSUME NEW b, Fills(b), loader = "turbodisk", first \in BOOLEAN, first => b.lastused > 2
  PROVE  Delivers(b, turbodisk(b))
<1> DEFINE n  == b.lastused - 1
           a  == IF first THEN Bytes(b, 2, 3) ELSE <<>>
           p  == IF first THEN 4 ELSE 2
           st == IF b.sendeoi THEN 0 ELSE 1
           to == IF b.sendeoi THEN (IF b.lastused < p THEN p ELSE b.lastused) ELSE p + Block - 1
           s  == Bytes(b, p, to)
           k  == (b.lastused - p + 2) % Width
           r  == IF b.sendeoi THEN <<k>> \o s ELSE s
           la == Len(a)
           c  == <<st>> \o a
           m  == c \o r
           h  == Cut(s, n - la)
<1>1. /\ n \in 1 .. Block /\ (~b.sendeoi => n = Block) /\ b.lastused = n + 1 /\ b.position = 2
      /\ b.lastused \in Int /\ (first => n > 1)
  <2>1. n \in 1 .. Block /\ (~b.sendeoi => n = Block) /\ b.position = 2 /\ b.lastused \in Int
    BY Sizes DEF Fills, Buffer
  <2>2. first => n > 1
    BY <2>1
  <2>3. b.lastused = n + 1
    BY <2>1
  <2>4. QED BY <2>1, <2>2, <2>3
<1>2. /\ a \in Seq(Int) /\ la = (IF first THEN 2 ELSE 0) /\ p = 2 + la
      /\ \A i \in 1 .. la : i \in 1 .. n /\ a[i] = b.data[i + 1]
  <2>1. CASE first
    <3>1. a = Bytes(b, 2, 3)
      BY <2>1
    <3>2. /\ Bytes(b, 2, 3) \in Seq(Int) /\ Len(Bytes(b, 2, 3)) = 2
          /\ \A i \in 1 .. 2 : 2 + i - 1 <= b.lastused => Bytes(b, 2, 3)[i] = b.data[2 + i - 1]
      <4>1. 3 \in Int /\ 3 >= 2 - 1 /\ 3 - 2 + 1 = 2
        OBVIOUS
      <4>2. QED BY <4>1, RangeIs, ZenonT(30)
    <3> HIDE DEF a
    <3>3. \A i \in 1 .. 2 : 2 + i - 1 <= b.lastused /\ 2 + i - 1 = i + 1 /\ i \in 1 .. n
      BY <1>1, <2>1
    <3>4. la = 2 /\ p = 4
      BY <2>1, <3>1, <3>2
    <3>5. \A i \in 1 .. la : i \in 1 .. n /\ a[i] = b.data[i + 1]
      BY <3>1, <3>2, <3>3, <3>4
    <3>6. a \in Seq(Int)
      BY <3>1, <3>2
    <3> HIDE DEF la, p, n
    <3>7. QED BY <2>1, <3>4, <3>5, <3>6
  <2>2. CASE ~first
    <3>1. a = <<>>
      BY <2>2
    <3>2. <<>> \in Seq(Int) /\ Len(<<>>) = 0
      OBVIOUS
    <3>3. QED BY <2>2, <3>1, <3>2
  <2>3. QED BY <2>1, <2>2
<1> HIDE DEF a
<1>3. /\ s \in Seq(Int) /\ Len(s) = to - p + 1 /\ Len(s) >= n - la
      /\ n - la \in Nat /\ to - p + 1 \in Nat
      /\ \A i \in 1 .. n - la : s[i] = b.data[la + i + 1]
  <2>1. p \in {2, 4} /\ to \in Int /\ to >= p - 1 /\ to - p + 1 >= n - la /\ n - la \in Nat
    <3>1. CASE b.sendeoi
      BY <1>1, <1>2, <3>1, SMTT(30)
    <3>2. CASE ~b.sendeoi
      BY <1>1, <1>2, <3>2, Sizes, SMTT(30)
    <3>3. QED BY <3>1, <3>2
  <2> HIDE DEF to
  <2>2. p \in {0, 2, 4}
    BY <2>1
  <2> HIDE DEF p
  <2>3. s \in Seq(Int) /\ Len(s) = to - p + 1 /\ \A i \in 1 .. to - p + 1 : p + i - 1 <= b.lastused => s[i] = b.data[p + i - 1]
    BY <2>1, <2>2, RangeIs
  <2> HIDE DEF s
  <2>4. ASSUME NEW i \in 1 .. n - la PROVE s[i] = b.data[la + i + 1]
    <3>1. la \in Int /\ p \in Int
      BY <1>2
    <3>2. i \in 1 .. to - p + 1 /\ p + i - 1 <= b.lastused /\ p + i - 1 = la + i + 1
      BY <1>1, <1>2, <2>1, <3>1
    <3>3. QED BY <3>2, <2>3
  <2>5. to - p + 1 \in Nat
    BY <2>1
  <2>6. QED BY <2>1, <2>3, <2>4, <2>5
<1>4. k = n + 1 - la
  <2>1. b.lastused - p + 2 = n + 1 - la /\ n + 1 - la \in 0 .. Width - 1
    <3>1. la \in {0, 2} /\ p = 2 + la
      BY <1>2
    <3> HIDE DEF p, la
    <3>2. b.lastused - p + 2 = n + 1 - la
      BY <3>1, <1>1
    <3>3. n + 1 - la \in 0 .. Width - 1
      <4>1. n - la \in Nat /\ n \in 1 .. Block
        BY <1>1, <1>3
      <4> HIDE DEF n
      <4>2. QED BY <3>1, <4>1, Sizes
    <3>4. QED BY <3>2, <3>3
  <2>2. QED BY <2>1, Sizes
<1>5. turbodisk(b) = m
  <2>1. b.position = 2 /\ b.position + 1 = 3 /\ (IF first THEN b.position + 2 ELSE b.position) = p
    BY <1>1
  <2>2. CASE b.sendeoi
    <3>1. r = <<k>> \o s /\ st = 0 /\ to = IF b.lastused < p THEN p ELSE b.lastused
      BY <2>2, Zenon DEF r, st, to
    <3> HIDE DEF r, st, k, p, to
    <3>2. turbodisk(b) = (<<0>> \o a) \o (<<k>> \o s)
      BY <2>1, <2>2, <3>1, Zenon DEF turbodisk, a, s, k
    <3>3. QED BY <3>1, <3>2, Zenon
  <2>3. CASE ~b.sendeoi
    <3>1. r = s /\ st = 1 /\ to = p + Block - 1
      BY <2>3, Zenon DEF r, st, to
    <3> HIDE DEF r, st, p, to
    <3>2. turbodisk(b) = (<<1>> \o a) \o s
      BY <2>1, <2>3, <3>1, Zenon DEF turbodisk, a, s
    <3>3. QED BY <3>1, <3>2, Zenon
  <2>4. QED BY <2>2, <2>3
<1>6. st \in Int /\ st \in {0, 1} /\ (b.sendeoi <=> st = 0)
  OBVIOUS
<1>7. k \in Int /\ la \in Nat
  BY <1>1, <1>2, <1>4
<1> HIDE DEF s, k, p, to, st
<1>8. r \in Seq(Int) /\ IF b.sendeoi THEN Tail(r) = s /\ r[1] - 1 = n - la ELSE r = s
  <2>1. CASE b.sendeoi
    <3> DEFINE d == <<k>>
    <3>1. r = d \o s
      BY <2>1
    <3>2. d \in Seq(Int) /\ Len(d) = 1 /\ d[1] = k /\ 1 \in 1 .. Len(d)
      BY <1>7
    <3> HIDE DEF d, r
    <3>3. r \in Seq(Int)
      BY <1>3, <3>1, <3>2, Spliced
    <3>4. Len(r) = 1 + Len(s)
      <4>1. Len(r) = Len(d) + Len(s)
        BY <1>3, <3>1, <3>2, Spliced
      <4>2. QED BY <4>1, <3>2
    <3>5. r[1] = k
      <4>1. \A i \in 1 .. Len(d) : r[i] = d[i]
        BY <1>3, <3>1, <3>2, Spliced
      <4>2. QED BY <4>1, <3>2
    <3>6. From(r, 2) = s
      <4>1. From(r, Len(d) + 1) = s
        BY <1>3, <3>1, <3>2, Spliced, ZenonT(30)
      <4>2. QED BY <4>1, <3>2
    <3>7. Tail(r) = s
      <4>1. r # <<>>
        BY <1>3, <3>4
      <4>2. Tail(r) = SubSeq(r, 2, Len(r))
        BY <3>3, <4>1, TailIsSubSeq
      <4>3. QED BY <4>2, <3>6 DEF From
    <3>8. r[1] - 1 = n - la
      BY <1>1, <1>4, <1>7, <3>5, SMTT(30)
    <3>9. QED BY <2>1, <3>3, <3>7, <3>8
  <2>2. CASE ~b.sendeoi
    <3>1. r = s
      BY <2>2
    <3>2. QED BY <2>2, <3>1, <1>3
  <2>3. QED BY <2>1, <2>2
<1> HIDE DEF r
<1>9. c \in Seq(Int) /\ Len(c) = la + 1 /\ c[1] = st /\ \A i \in 1 .. la : c[i + 1] = a[i]
  <2> DEFINE d == <<st>>
  <2>1. d \in Seq(Int) /\ Len(d) = 1 /\ d[1] = st /\ 1 \in 1 .. Len(d)
    BY <1>6
  <2> HIDE DEF d
  <2>2. c = d \o a
    BY DEF d
  <2> HIDE DEF c
  <2>3. a \in Seq(Int)
    BY <1>2
  <2>4. c \in Seq(Int)
    BY <2>1, <2>2, <2>3, Spliced
  <2>5. Len(c) = Len(d) + Len(a)
    BY <2>1, <2>2, <2>3, Spliced
  <2>6. \A i \in 1 .. Len(d) : c[i] = d[i]
    BY <2>1, <2>2, <2>3, Spliced
  <2>7. \A i \in 1 .. Len(a) : c[Len(d) + i] = a[i]
    BY <2>1, <2>2, <2>3, Spliced, ZenonT(30)
  <2>8. \A i \in 1 .. la : 1 + i = i + 1
    BY <1>7
  <2>9. \A i \in 1 .. la : c[i + 1] = a[i]
    BY <2>1, <2>7, <2>8
  <2>10. QED BY <2>1, <2>4, <2>5, <2>6, <2>9, <1>7
<1> HIDE DEF c
<1>10. /\ m \in Seq(Int) /\ m # <<>> /\ m[1] = st /\ From(m, la + 2) = r
       /\ Len(m) \in Nat /\ Len(m) >= la + 1 /\ \A i \in 1 .. la : m[i + 1] = a[i]
  <2>1. c \in Seq(Int) /\ r \in Seq(Int)
    BY <1>8, <1>9
  <2>2. m \in Seq(Int)
    BY <2>1, Spliced
  <2>3. Len(m) = Len(c) + Len(r)
    BY <2>1, Spliced
  <2>4. \A i \in 1 .. Len(c) : m[i] = c[i]
    BY <2>1, Spliced
  <2>5. From(m, Len(c) + 1) = r
    BY <2>1, Spliced
  <2>6. (la + 1) + 1 = la + 2 /\ 1 \in 1 .. la + 1 /\ \A i \in 1 .. la : i + 1 \in 1 .. la + 1
    BY <1>7
  <2>7. Len(r) \in Nat /\ Len(m) >= la + 1 /\ Len(m) \in Nat
    BY <2>1, <2>3, <1>9, <1>7
  <2> HIDE DEF m
  <2>8. m # <<>>
    BY <2>7, <1>7
  <2>9. m[1] = st
    BY <2>4, <2>6, <1>9
  <2>10. \A i \in 1 .. la : m[i + 1] = a[i]
    BY <2>4, <2>6, <1>9
  <2>11. From(m, la + 2) = r
    BY <2>5, <2>6, <1>9
  <2>12. QED BY <2>2, <2>7, <2>8, <2>9, <2>10, <2>11
<1> HIDE DEF m
<1>11. (IF first THEN SubSeq(m, 2, 3) ELSE <<>>) = a
  <2>1. CASE first
    <3> DEFINE t == SubSeq(m, 2, 3)
    <3>1. la = 2
      BY <1>2, <2>1
    <3>2. 2 \in Int /\ 3 \in Int /\ 2 <= 3 /\ 3 - 2 + 1 = 2 /\ \A i \in 2 .. 3 : m[i] \in Int
      BY <1>10, <3>1
    <3>3. t \in Seq(Int) /\ Len(t) = 2 /\ \A i \in 1 .. 2 : t[i] = m[2 + i - 1]
      BY <3>2, SubSeqProperties
    <3> HIDE DEF t
    <3>4. \A i \in 1 .. 2 : t[i] = a[i]
      <4>1. \A i \in 1 .. 2 : 2 + i - 1 = i + 1
        OBVIOUS
      <4>2. QED BY <4>1, <3>1, <3>3, <1>10
    <3>5. a \in Seq(Int) /\ Len(a) = 2
      BY <1>2, <3>1
    <3>6. t = a
      BY <3>3, <3>4, <3>5, SeqEqual
    <3>7. QED BY <2>1, <3>6, Zenon DEF t
  <2>2. CASE ~first
    BY <2>2, Zenon DEF a
  <2>3. QED BY <2>1, <2>2
<1>12. h \in Seq(Int) /\ Len(h) = n - la /\ \A i \in 1 .. n - la : h[i] = s[i]
  <2>1. n - la \in 0 .. Len(s)
    BY <1>3
  <2>2. s \in Seq(Int)
    BY <1>3
  <2> HIDE DEF n, la
  <2>3. QED BY <2>1, <2>2, CutIs
<1>13. Hears(m) = a \o h
  <2>1. Hears(m) = HeardTurbodisk(m)
    BY DEF Hears
  <2>2. From(m, Len(a) + 2) = r
    BY <1>10
  <2>3. CASE b.sendeoi
    <3>1. m[1] = 0 /\ m[1] # 1 /\ Tail(r) = s /\ r[1] - 1 = n - la
      BY <2>3, <1>6, <1>8, <1>10
    <3>2. HeardTurbodisk(m) = a \o Cut(Tail(r), r[1] - 1)
      BY <1>11, <2>2, <3>1, Zenon DEF HeardTurbodisk
    <3>3. QED BY <2>1, <3>1, <3>2, Zenon DEF h
  <2>4. CASE ~b.sendeoi
    <3>1. m[1] = 1 /\ m[1] # 0 /\ r = s /\ n = Block
      BY <2>4, <1>1, <1>6, <1>8, <1>10
    <3>2. HeardTurbodisk(m) = a \o Cut(r, Block - Len(a))
      BY <1>11, <2>2, <3>1, Zenon DEF HeardTurbodisk
    <3>3. QED BY <2>1, <3>1, <3>2, Zenon DEF h, la
  <2>5. QED BY <2>3, <2>4
<1> HIDE DEF h
<1>14. Carries(b, a \o h) /\ Len(a \o h) = b.lastused - 1
  <2> DEFINE g == a \o h
  <2>1. a \in Seq(Int) /\ h \in Seq(Int)
    BY <1>2, <1>12
  <2>2. g \in Seq(Int)
    BY <2>1, Spliced
  <2>3. Len(g) = Len(a) + Len(h)
    BY <2>1, Spliced
  <2>4. \A i \in 1 .. Len(a) : g[i] = a[i]
    BY <2>1, Spliced
  <2>5. \A i \in 1 .. Len(h) : g[Len(a) + i] = h[i]
    BY <2>1, Spliced
  <2> HIDE DEF g
  <2>6. Len(g) = n
    BY <2>3, <1>12, <1>1, <1>7
  <2>7. ASSUME NEW i \in 1 .. n PROVE g[i] = b.data[i + 1]
    <3>1. CASE i <= la
      <4>1. i \in 1 .. la
        BY <3>1, <1>7
      <4>2. QED BY <4>1, <2>4, <1>2
    <3>2. CASE ~(i <= la)
      <4>1. i - la \in 1 .. n - la /\ la + (i - la) = i
        BY <3>2, <1>1, <1>7
      <4>2. g[i] = h[i - la]
        BY <4>1, <2>5, <1>12
      <4>3. h[i - la] = b.data[la + (i - la) + 1]
        BY <4>1, <1>3, <1>12
      <4>4. QED BY <4>1, <4>2, <4>3
    <3>3. QED BY <3>1, <3>2
  <2>8. QED BY <2>2, <2>6, <2>7, <1>1 DEF Carries, g
<1>15. Verdict(m) = IF b.sendeoi THEN "complete" ELSE "none"
  BY <1>6, <1>10 DEF Verdict
<1>16. QED BY <1>5, <1>6, <1>10, <1>13, <1>14, <1>15 DEF Delivers, Longer

LEMMA SaysDelivers ==
  ASSUME NEW b, Fills(b), loader \in FileLoaders, first \in BOOLEAN,
         loader = "turbodisk" /\ first => b.lastused > 2
  PROVE  Delivers(b, Says(b))
<1>1. CASE loader = "turbodisk"
  <2>1. Says(b) = turbodisk(b)
    BY <1>1 DEF Says
  <2>2. QED BY <1>1, <2>1, TurboDelivers
<1>2. CASE loader \in {"ar6", "eload", "epyx"}
  <2>1. Says(b) = Counted(b)
    <3>1. ar6(b) = Counted(b) /\ eload(b) = Counted(b) /\ epyx(b) = Counted(b)
      BY DEF ar6, eload, epyx
    <3>2. QED BY <1>2, <3>1 DEF Says
  <2>2. QED BY <1>2, <2>1, CountedDelivers
<1>3. CASE loader \in {"fc3", "fc3freezed"}
  <2>1. Says(b) = fc3(b)
    BY <1>3 DEF Says
  <2>2. QED BY <1>3, <2>1, Fc3Delivers
<1>4. CASE loader = "gijoe"
  <2>1. Says(b) = gijoe(b)
    BY <1>4 DEF Says
  <2>2. QED BY <1>4, <2>1, GijoeDelivers
<1>5. CASE loader = "sams"
  <2>1. Says(b) = sams(b)
    BY <1>5 DEF Says
  <2>2. QED BY <1>5, <2>1, SamsDelivers
<1>6. CASE loader = "oldfreeze"
  <2>1. Says(b) = oldfreeze(b)
    BY <1>6 DEF Says
  <2>2. QED BY <1>6, <2>1, PlainDelivers
<1>7. CASE loader = "dolphin"
  <2>1. Says(b) = dolphin(b)
    BY <1>7 DEF Says
  <2>2. QED BY <1>7, <2>1, PlainDelivers
<1>8. CASE loader = "n0sdos"
  <2>1. Says(b) = n0sdos(b)
    BY <1>8 DEF Says
  <2>2. QED BY <1>8, <2>1, WholeDelivers
<1>9. CASE loader = "wheels_s1"
  <2>1. Says(b) = wheels_s1(b)
    BY <1>9 DEF Says
  <2>2. QED BY <1>9, <2>1, WholeDelivers
<1>10. QED BY <1>1, <1>2, <1>3, <1>4, <1>5, <1>6, <1>7, <1>8, <1>9, LoadersAssumption

(* What is said beside the blocks has no bytes of a file.                   *)
Verdicts == {"none", "complete", "error"}
Marks(m, v) == m = <<>> \/ (m \in Seq(Int) /\ m # <<>> /\ Hears(m) = <<>> /\ Verdict(m) = v)

LEMMA Single ==
  ASSUME NEW x \in Int
  PROVE  <<x>> \in Seq(Int) /\ <<x>> # <<>> /\ <<x>>[1] = x /\ Len(<<x>>) = 1 /\ Tail(<<x>>) = <<>>
OBVIOUS

LEMMA AtEndIs ==
  /\ Marks(AtEnd, "complete")
  /\ loader = "eload" => AtEnd # <<>>
  /\ loader \notin {"ar6", "eload", "fc3", "fc3freezed", "dolphin"} => AtEnd = <<>>
<1>1. CASE loader \in {"ar6", "eload"}
  <2> DEFINE m == <<0>>
  <2>1. m \in Seq(Int) /\ m # <<>> /\ m[1] = 0 /\ Tail(m) = <<>>
    BY Single
  <2>2. AtEnd = m
    BY <1>1 DEF AtEnd
  <2> HIDE DEF m
  <2>3. Hears(m) = <<>> /\ Verdict(m) = "complete"
    BY <1>1, <2>1 DEF Hears, Verdict
  <2>4. AtEnd # <<>>
    BY <2>1, <2>2, Zenon
  <2>5. QED BY <1>1, <2>1, <2>2, <2>3, <2>4 DEF Marks
<1>2. CASE loader \in {"fc3", "fc3freezed"}
  <2> DEFINE m == <<DataLow>>
  <2>1. m \in Seq(Int) /\ m # <<>> /\ m[1] = DataLow /\ Len(m) = 1
    BY Single DEF DataLow
  <2>2. AtEnd = m
    BY <1>2 DEF AtEnd
  <2> HIDE DEF m
  <2>3. Hears(m) = <<>> /\ Verdict(m) = "complete"
    BY <1>2, <2>1 DEF Hears, Verdict
  <2>4. QED BY <1>2, <2>1, <2>2, <2>3 DEF Marks
<1>3. CASE loader = "dolphin"
  <2>1. <<Hold>> \in Seq(Int) /\ <<Hold>> # <<>> /\ <<Hold>>[1] = Hold
    BY Single DEF Hold
  <2>2. AtEnd = <<Hold>>
    BY <1>3 DEF AtEnd
  <2>3. Hears(<<Hold>>) = <<>>
    BY <1>3 DEF Hears
  <2>4. Verdict(<<Hold>>) = "complete"
    BY <1>3, <2>1 DEF Verdict
  <2>5. QED BY <1>3, <2>1, <2>2, <2>3, <2>4 DEF Marks
<1>4. CASE loader \notin {"ar6", "eload", "fc3", "fc3freezed", "dolphin"}
  <2>1. AtEnd = <<>>
    BY <1>4 DEF AtEnd
  <2>2. QED BY <1>4, <2>1 DEF Marks
<1>5. QED BY <1>1, <1>2, <1>3, <1>4

LEMMA ErrorIs ==
  /\ loader = "eload" => Marks(eload_error, "error")
  /\ loader \in FileLoaders \cap Tells => Marks(WhenItFails, "error")
  /\ loader = "eload" => eload_error # <<>> /\ WhenItFails # <<>>
  /\ loader \in FileLoaders \ ByName => Marks(WhenThereIsNone, "error")
<1>1. loader = "eload" => Marks(eload_error, "error")
  <2> SUFFICES ASSUME loader = "eload" PROVE Marks(eload_error, "error")
    OBVIOUS
  <2> DEFINE m == <<255>>
  <2>1. m \in Seq(Int) /\ m # <<>> /\ m[1] = 255 /\ Tail(m) = <<>>
    BY Single
  <2>2. eload_error = m
    BY DEF eload_error
  <2> HIDE DEF m
  <2>3. Hears(m) = <<>> /\ Verdict(m) = "error"
    BY <2>1 DEF Hears, Verdict
  <2>4. QED BY <2>1, <2>2, <2>3 DEF Marks
<1>2. ASSUME loader # "ar6", loader # "samssave" PROVE Marks(WhenItFails, "error")
  <2>1. CASE loader = "turbodisk"
    <3> DEFINE m == <<255>>
    <3>1. m \in Seq(Int) /\ m # <<>> /\ m[1] = 255
      BY Single
    <3>2. WhenItFails = m
      BY <2>1 DEF WhenItFails
    <3> HIDE DEF m
    <3>3. Verdict(m) = "error"
      BY <2>1, <3>1 DEF Verdict
    <3>4. Hears(m) = HeardTurbodisk(m)
      BY <2>1 DEF Hears
    <3>5. m[1] # 0 /\ m[1] # 1
      BY <3>1
    <3>6. HeardTurbodisk(m) = <<>>
      BY <3>5, Zenon DEF HeardTurbodisk
    <3>7. QED BY <3>1, <3>2, <3>3, <3>4, <3>6 DEF Marks
  <2>2. CASE loader = "eload"
    <3>1. WhenItFails = eload_error
      BY <2>2 DEF WhenItFails
    <3>2. QED BY <2>2, <3>1, <1>1
  <2>3. CASE loader \in {"fc3", "fc3freezed"}
    <3> DEFINE m == <<BothLow>>
    <3>1. m \in Seq(Int) /\ m # <<>> /\ m[1] = BothLow /\ Len(m) = 1
      BY Single DEF BothLow
    <3>2. WhenItFails = m
      BY <2>3 DEF WhenItFails
    <3> HIDE DEF m
    <3>3. Hears(m) = <<>> /\ Verdict(m) = "error"
      BY <2>3, <3>1 DEF Hears, Verdict, DataLow, BothLow, Hold
    <3>4. QED BY <3>1, <3>2, <3>3 DEF Marks
  <2>4. CASE loader = "gijoe"
    <3>1. WhenItFails = gijoe_error
      BY <2>4 DEF WhenItFails
    <3>2. gijoe_error \in Seq(Int) /\ gijoe_error # <<>>
      BY DEF gijoe_error
    <3>3. Hears(gijoe_error) = <<>>
      BY <2>4 DEF Hears
    <3>4. Verdict(gijoe_error) = "error"
      BY <2>4, <3>2 DEF Verdict
    <3>5. QED BY <3>1, <3>2, <3>3, <3>4 DEF Marks
  <2>5. CASE loader = "sams"
    <3> DEFINE x == (Len(<<>>) + 2) % Width  m == <<x, 255>> \o <<>>
    <3>1. WhenItFails = m
      BY <2>5, Zenon DEF WhenItFails, transmit_block
    <3>2. x \in Int
      <4>1. Len(<<>>) = 0
        OBVIOUS
      <4>2. QED BY <4>1, Sizes
    <3> HIDE DEF x
    <3>3. m \in Seq(Int) /\ m # <<>> /\ m[2] = 255 /\ From(m, 3) = <<>>
      <4> DEFINE y == 255  e == <<>>
      <4>1. e \in Seq(Int) /\ y \in Int
        OBVIOUS
      <4> HIDE DEF y, e
      <4>2. <<x, y>> \o e \in Seq(Int) /\ <<x, y>> \o e # <<>> /\ (<<x, y>> \o e)[2] = y /\ From(<<x, y>> \o e, 3) = e
        BY <3>2, <4>1, Two
      <4>3. QED BY <4>2 DEF y, e
    <3> HIDE DEF m
    <3>4. Hears(m) = <<>> /\ Verdict(m) = "error"
      BY <2>5, <3>3 DEF Hears, Verdict
    <3>5. QED BY <3>1, <3>3, <3>4 DEF Marks
  <2>6. CASE loader \notin {"turbodisk", "eload", "fc3", "fc3freezed", "gijoe", "sams"}
    <3>1. WhenItFails = <<>>
      BY <1>2, <2>6 DEF WhenItFails
    <3>2. QED BY <3>1 DEF Marks
  <2>7. QED BY <2>1, <2>2, <2>3, <2>4, <2>5, <2>6
<1>3. loader \in FileLoaders => loader # "samssave"
  BY LoadersAssumption
<1>4. loader \in FileLoaders \cap Tells => Marks(WhenItFails, "error")
  BY <1>2, <1>3, TellsAssumption
<1>5. ASSUME loader \in FileLoaders \ ByName PROVE Marks(WhenThereIsNone, "error")
  <2>1. CASE loader = "ar6"
    <3>1. WhenThereIsNone = <<>>
      BY <2>1 DEF WhenThereIsNone
    <3>2. QED BY <3>1 DEF Marks
  <2>2. CASE loader # "ar6"
    <3>1. WhenThereIsNone = WhenItFails
      BY <1>5, <2>2 DEF WhenThereIsNone, ByName
    <3>2. QED BY <1>2, <1>3, <1>5, <2>2, <3>1
  <2>3. QED BY <2>1, <2>2
<1>6. loader = "eload" => eload_error # <<>> /\ WhenItFails # <<>>
  <2>1. <<255>> # <<>>
    OBVIOUS
  <2>2. QED BY <2>1 DEF eload_error, WhenItFails
<1>7. QED BY <1>1, <1>4, <1>5, <1>6
-----------------------------------------------------------------------------
(***************************************************************************)
(* What the computer has of a file, and what is still to come.              *)
(***************************************************************************)
Judgements == {"none", "complete", "error", "gave up"}
Hearsay(c, g, v) == [c EXCEPT !.got = g, !.verdict = v]

SameElse(d, c) ==
  /\ d \in Computer
  /\ d.text = c.text /\ d.left = c.left /\ d.saved = c.saved
  /\ d.want = c.want /\ d.heard = c.heard /\ d.said = c.said /\ d.changed = c.changed

LEMMA HearsayIs ==
  ASSUME NEW c \in Computer, NEW g \in Seq(Int), NEW v \in Judgements
  PROVE  Hearsay(c, g, v).got = g /\ Hearsay(c, g, v).verdict = v /\ SameElse(Hearsay(c, g, v), c)
BY DEF Hearsay, Computer, SameElse, Judgements

LEMMA ToldIs ==
  ASSUME NEW c \in Computer, NEW m \in Seq(Int), m # <<>>, Hears(m) \in Seq(Int), Verdict(m) \in Verdicts
  PROVE  /\ SameElse(Told(c, m), c)
         /\ Told(c, m).got = c.got \o Hears(m)
         /\ Told(c, m).verdict = IF Verdict(m) = "none" THEN c.verdict ELSE Verdict(m)
<1> DEFINE g == c.got \o Hears(m)
           v == IF Verdict(m) = "none" THEN c.verdict ELSE Verdict(m)
<1>1. Told(c, m) = Hearsay(c, g, v)
  BY Zenon DEF Told, Hearsay, g, v
<1>2. c.got \in Seq(Int) /\ c.verdict \in {"none", "complete", "error", "gave up"}
  BY DEF Computer
<1>3. g \in Seq(Int)
  BY <1>2, ConcatProperties
<1>4. v \in Judgements
  BY <1>2 DEF Verdicts, Judgements
<1> HIDE DEF g, v
<1>5. Told(c, m).got = g /\ Told(c, m).verdict = v /\ SameElse(Told(c, m), c)
  BY <1>1, <1>3, <1>4, HearsayIs
<1>6. QED BY <1>5 DEF g, v

LEMMA MarkedIs ==
  ASSUME NEW c \in Computer, NEW v \in Verdicts, NEW m, Marks(m, v)
  PROVE  /\ SameElse(Told(c, m), c) /\ Told(c, m).got = c.got
         /\ Told(c, m).verdict \in {c.verdict, v}
         /\ m # <<>> /\ v # "none" => Told(c, m).verdict = v
<1>1. CASE m = <<>>
  BY <1>1 DEF Told, SameElse
<1>2. CASE m # <<>>
  <2>1. m \in Seq(Int) /\ Hears(m) = <<>> /\ Verdict(m) = v /\ Hears(m) \in Seq(Int)
    <3>1. m \in Seq(Int) /\ Hears(m) = <<>> /\ Verdict(m) = v
      BY <1>2, Zenon DEF Marks
    <3>2. <<>> \in Seq(Int)
      OBVIOUS
    <3>3. QED BY <3>1, <3>2, Zenon
  <2>2. /\ SameElse(Told(c, m), c)
        /\ Told(c, m).got = c.got \o Hears(m)
        /\ Told(c, m).verdict = IF Verdict(m) = "none" THEN c.verdict ELSE Verdict(m)
    BY <1>2, <2>1, ToldIs
  <2>3. c.got \o <<>> = c.got
    <3>1. c.got \in Seq(Int)
      BY DEF Computer
    <3>2. QED BY <3>1, ConcatEmptySeq
  <2>4. QED BY <2>1, <2>2, <2>3
<1>3. QED BY <1>1, <1>2

(* A block that was refilled from what is left of the file.                 *)
FilledWith(b, n, d, r, e) ==
  [b EXCEPT !.data = d, !.position = 2, !.lastused = n + 1, !.rest = r, !.sendeoi = e]

LEMMA FilledFields ==
  ASSUME NEW b \in Buffer, NEW n \in 0 .. Block, NEW d \in [Indices -> Nat], NEW r \in Seq(Nat), NEW e \in BOOLEAN
  PROVE  LET f == FilledWith(b, n, d, r, e)
         IN /\ f \in Buffer /\ f.data = d /\ f.position = 2 /\ f.lastused = n + 1 /\ f.rest = r /\ f.sendeoi = e
            /\ f.what = b.what /\ f.allocated = b.allocated /\ f.secondary = b.secondary
<1>1. 2 \in Indices /\ n + 1 \in Indices
  BY Sizes
<1>2. QED BY <1>1, Sizes DEF FilledWith, Buffer

LEMMA FilledIs ==
  ASSUME NEW b \in Buffer
  PROVE  LET f == Filled(b)  n == f.lastused - 1
         IN /\ f \in Buffer /\ f.position = 2 /\ n = Least(Block, Len(b.rest)) /\ n \in 0 .. Block
            /\ f.sendeoi <=> Len(b.rest) = n
            /\ \A i \in 1 .. n : f.data[i + 1] = b.rest[i]
            /\ Len(f.rest) = Len(b.rest) - n
            /\ \A i \in 1 .. Len(f.rest) : f.rest[i] = b.rest[n + i]
            /\ f.what = b.what /\ f.allocated = b.allocated /\ f.secondary = b.secondary
<1> DEFINE t == b.rest
           n == Least(Block, Len(t))
           d == [i \in Indices |-> IF i \in 2 .. n + 1 THEN t[i - 1] ELSE b.data[i]]
           r == SubSeq(t, n + 1, Len(t))
           e == (Len(t) = n)
           f == FilledWith(b, n, d, r, e)
<1>1. t \in Seq(Nat) /\ b.data \in [Indices -> Nat] /\ Len(t) \in Nat /\ \A i \in 1 .. Len(t) : t[i] \in Nat
  BY DEF Buffer
<1>2. Filled(b) = f
  BY Zenon DEF Filled, FilledWith, t, n, d, r, e, f
<1> HIDE DEF t
<1>3. n \in 0 .. Block /\ n <= Len(t)
  BY <1>1, Sizes DEF Least
<1> HIDE DEF n
<1>4. d \in [Indices -> Nat] /\ \A i \in 1 .. n : d[i + 1] = t[i]
  <2>1. ASSUME NEW i \in Indices PROVE (IF i \in 2 .. n + 1 THEN t[i - 1] ELSE b.data[i]) \in Nat
    <3>1. CASE i \in 2 .. n + 1
      <4>1. i - 1 \in 1 .. Len(t)
        BY <3>1, <1>1, <1>3
      <4>2. QED BY <3>1, <4>1, <1>1
    <3>2. CASE i \notin 2 .. n + 1
      BY <3>2, <1>1
    <3>3. QED BY <3>1, <3>2
  <2>2. ASSUME NEW i \in 1 .. n PROVE d[i + 1] = t[i]
    <3>1. i + 1 \in Indices /\ i + 1 \in 2 .. n + 1 /\ (i + 1) - 1 = i
      BY <1>3, Sizes
    <3>2. QED BY <3>1
  <2>3. QED BY <2>1, <2>2
<1>5. r \in Seq(Nat) /\ Len(r) = Len(t) - n /\ \A i \in 1 .. Len(r) : r[i] = t[n + i]
  <2>1. n + 1 \in Int /\ Len(t) \in Int /\ Len(t) - (n + 1) + 1 = Len(t) - n /\ \A i \in n + 1 .. Len(t) : t[i] \in Nat
    BY <1>1, <1>3
  <2>2. /\ r \in Seq(Nat)
        /\ Len(r) = IF n + 1 <= Len(t) THEN Len(t) - (n + 1) + 1 ELSE 0
        /\ \A i \in 1 .. Len(t) - (n + 1) + 1 : r[i] = t[n + 1 + i - 1]
    BY <2>1, SubSeqProperties
  <2> HIDE DEF r
  <2>3. Len(r) = Len(t) - n
    <3>1. Len(t) \in Nat /\ n \in Nat /\ n <= Len(t)
      BY <1>1, <1>3
    <3>2. Len(r) = IF n + 1 <= Len(t) THEN Len(t) - (n + 1) + 1 ELSE 0
      BY <2>2
    <3> HIDE DEF t
    <3>3. QED BY <3>1, <3>2
  <2>4. ASSUME NEW i \in 1 .. Len(r) PROVE r[i] = t[n + i]
    <3>1. i \in 1 .. Len(t) - (n + 1) + 1 /\ n + 1 + i - 1 = n + i
      BY <2>3, <1>1, <1>3
    <3>2. QED BY <3>1, <2>2
  <2>5. QED BY <2>2, <2>3, <2>4
<1>6. e \in BOOLEAN /\ (e <=> Len(t) = n)
  OBVIOUS
<1> HIDE DEF d, r, e
<1>7. /\ f \in Buffer /\ f.data = d /\ f.position = 2 /\ f.lastused = n + 1 /\ f.rest = r /\ f.sendeoi = e
      /\ f.what = b.what /\ f.allocated = b.allocated /\ f.secondary = b.secondary
  BY <1>3, <1>4, <1>5, <1>6, FilledFields
<1> HIDE DEF f
<1>8. f.lastused - 1 = n
  BY <1>3, <1>7
<1>9. QED BY <1>2, <1>3, <1>4, <1>5, <1>6, <1>7, <1>8 DEF t, n

LEMMA OpenedIs ==
  ASSUME NEW p \in Pools, NEW text \in Seq(Nat), text # <<>>, FreeSlot(p) # 0,
         NEW c, c.text = text, c.got = <<>>
  PROVE  LET q == OpenFile(p, 0, text)  s == FreeSlot(p)
         IN /\ q \in Pools /\ s \in Slot /\ ~p[s].allocated
            /\ q[s].allocated /\ q[s].what = "file" /\ q[s].secondary = 0
            /\ Reading(q[s], c) /\ q[s].lastused = Least(Block, Len(text)) + 1
            /\ \A t \in Slot : t # s => q[t] = p[t]
<1> DEFINE s == FreeSlot(p)  a == Allocated(p, 0, "file")  x == New(0, "file")
           y == [x EXCEPT !.rest = text]  f == Filled(y)  q == [a EXCEPT ![s] = f]
<1>1. a \in Pools /\ s \in Slot /\ ~p[s].allocated /\ a[s] = x /\ \A t \in Slot : t # s => a[t] = p[t]
  <2>1. 0 \in Nat /\ "file" \in Whats
    BY DEF Whats
  <2>2. QED BY <2>1, AllocatedIs
<1>2. x \in Buffer /\ x.allocated /\ x.what = "file" /\ x.secondary = 0
  <2>1. 0 \in Nat /\ "file" \in Whats
    BY DEF Whats
  <2>2. QED BY <2>1, NewIs
<1>3. OpenFile(p, 0, text) = q
  <2>1. OpenFile(p, 0, text) = [a EXCEPT ![s] = Filled([@ EXCEPT !.rest = text])]
    BY Zenon DEF OpenFile, a, s
  <2> HIDE DEF a, s, x
  <2>2. QED BY <2>1, <1>1
<1> HIDE DEF a, x, s
<1>4. y \in Buffer /\ y.allocated /\ y.what = "file" /\ y.secondary = 0 /\ y.rest = text
  BY <1>2 DEF Buffer
<1> HIDE DEF y
<1>5. LET n == f.lastused - 1
      IN /\ f \in Buffer /\ f.position = 2 /\ n = Least(Block, Len(text)) /\ n \in 0 .. Block
         /\ f.sendeoi <=> Len(text) = n
         /\ \A i \in 1 .. n : f.data[i + 1] = text[i]
         /\ Len(f.rest) = Len(text) - n
         /\ \A i \in 1 .. Len(f.rest) : f.rest[i] = text[n + i]
         /\ f.what = "file" /\ f.allocated /\ f.secondary = 0
  BY <1>4, FilledIs, SMTT(30)
<1> HIDE DEF f
<1>6. f.lastused \in Nat /\ Len(f.rest) \in Nat /\ f.rest \in Seq(Nat) /\ Len(text) \in Nat /\ Len(text) > 0
      /\ f.sendeoi \in BOOLEAN
  <2>1. f \in Buffer
    BY <1>5
  <2>2. f.lastused \in Indices /\ f.rest \in Seq(Nat) /\ f.sendeoi \in BOOLEAN
    BY <2>1 DEF Buffer
  <2>3. \A i \in Indices : i \in Nat
    BY Sizes
  <2>4. QED BY <2>2, <2>3
<1>7. Reading(f, c)
  <2> DEFINE n == f.lastused - 1
  <2>1. n = Least(Block, Len(text)) /\ n \in 0 .. Block /\ Len(f.rest) = Len(text) - n /\ (f.sendeoi <=> Len(text) = n)
        /\ f.position = 2
    BY <1>5
  <2>2. n \in 1 .. Block /\ (Len(text) # n => n = Block) /\ Len(text) = n + Len(f.rest)
    <3>1. Len(text) \in Nat /\ Len(text) > 0 /\ Len(f.rest) \in Nat
      BY <1>6
    <3>2. n = IF Block < Len(text) THEN Block ELSE Len(text)
      BY <2>1 DEF Least
    <3>3. n \in 0 .. Block /\ Len(f.rest) = Len(text) - n
      BY <2>1
    <3> HIDE DEF n
    <3>4. QED BY <3>1, <3>2, <3>3, Sizes
  <2>3. f.rest = <<>> <=> Len(text) = n
    BY <2>1, <1>6, SMTT(30)
  <2>4. Len(c.got) = 0 /\ 0 + n = n
    BY <2>2
  <2>5. (\A i \in 1 .. n : text[0 + i] = f.data[i + 1]) /\ \A i \in 1 .. Len(f.rest) : text[0 + n + i] = f.rest[i]
    <3>1. \A i \in 1 .. n : text[i] = f.data[i + 1] /\ 0 + i = i
      BY <1>5
    <3>2. \A i \in 1 .. Len(f.rest) : text[n + i] = f.rest[i] /\ 0 + n = n
      BY <1>5, <1>6
    <3> HIDE DEF n
    <3>3. QED BY <3>1, <3>2
  <2>6. QED BY <2>1, <2>2, <2>3, <2>4, <2>5 DEF Reading
<1>8. q \in Pools /\ q[s] = f /\ \A t \in Slot : t # s => q[t] = p[t]
  BY <1>1, <1>5 DEF Pools
<1>9. f.lastused = Least(Block, Len(text)) + 1
  BY <1>5, <1>6
<1> HIDE DEF q
<1>10. q[s].allocated /\ q[s].what = "file" /\ q[s].secondary = 0
  BY <1>5, <1>8
<1>11. q \in Pools /\ Reading(q[s], c) /\ q[s].lastused = Least(Block, Len(text)) + 1
  BY <1>7, <1>8, <1>9
<1>12. QED BY <1>1, <1>3, <1>8, <1>10, <1>11 DEF s

LEMMA ReadingFills ==
  ASSUME NEW b \in Buffer, NEW c, Reading(b, c)
  PROVE  Fills(b)
BY DEF Reading, Fills

(* After a block the computer has more of the file; all of it after the last.*)
LEMMA HeardOn ==
  ASSUME NEW b \in Buffer, NEW c \in Computer, Reading(b, c), Begins(c), NEW m, Delivers(b, m),
         NEW d \in Computer, d.text = c.text, d.got = c.got \o Hears(m)
  PROVE  /\ Begins(d)
         /\ ~b.sendeoi => Reading(Filled(b), d)
         /\ b.sendeoi => Len(d.got) >= Len(d.text) /\ (loader \notin Longer => d.got = d.text)
<1> DEFINE n == b.lastused - 1
           h == Hears(m)
           g == Len(c.got)
           k == Len(h)
           r == b.rest
           t == c.text
           z == Len(t)
<1>1. /\ c.got \in Seq(Int) /\ g \in Nat /\ t \in Seq(Nat) /\ z \in Nat
      /\ r \in Seq(Nat) /\ Len(r) \in Nat /\ b.lastused \in Nat
  <2>1. c.got \in Seq(Int) /\ t \in Seq(Nat)
    BY DEF Computer
  <2>2. r \in Seq(Nat)
    BY DEF Buffer
  <2>3. b.lastused \in Nat
    BY Sizes DEF Buffer
  <2>4. g \in Nat /\ z \in Nat /\ Len(r) \in Nat
    BY <2>1, <2>2
  <2>5. QED BY <2>1, <2>2, <2>3, <2>4
<1>2. h \in Seq(Int) /\ k \in Nat /\ k >= n /\ \A i \in 1 .. n : h[i] = b.data[i + 1]
  BY DEF Delivers, Carries
<1>3. loader \notin Longer \/ ~b.sendeoi => k = n
  BY DEF Delivers
<1>4. /\ n \in 1 .. Block /\ (b.sendeoi <=> r = <<>>) /\ (~b.sendeoi => n = Block)
      /\ z = g + n + Len(r)
  BY DEF Reading
<1>5. \A i \in 1 .. n : t[g + i] = b.data[i + 1]
  BY DEF Reading
<1>6. \A i \in 1 .. Len(r) : t[g + n + i] = r[i]
  BY DEF Reading
<1>7. d.got \in Seq(Int) /\ Len(d.got) = g + k /\ (\A i \in 1 .. g : d.got[i] = c.got[i]) /\ \A i \in 1 .. k : d.got[g + i] = h[i]
  <2>1. c.got \o h \in Seq(Int)
    BY <1>1, <1>2, Spliced
  <2>2. Len(c.got \o h) = g + k
    BY <1>1, <1>2, Spliced
  <2>3. \A i \in 1 .. g : (c.got \o h)[i] = c.got[i]
    BY <1>1, <1>2, Spliced
  <2>4. \A i \in 1 .. k : (c.got \o h)[g + i] = h[i]
    BY <1>1, <1>2, Spliced
  <2>5. QED BY <2>1, <2>2, <2>3, <2>4
<1>8. \A i \in 1 .. g : i <= z => c.got[i] = t[i]
  BY DEF Begins
<1>9. d.text = t
  OBVIOUS
<1>10. b.sendeoi => Len(r) = 0
  BY <1>1, <1>4
<1>11. ~b.sendeoi => Len(r) > 0
  BY <1>1, <1>4
<1> HIDE DEF n, h, g, k, t, z
<1>12. ASSUME NEW i \in 1 .. g + k, i <= z PROVE d.got[i] = t[i]
  <2>1. CASE i <= g
    <3>1. i \in 1 .. g
      BY <2>1, <1>1, <1>2
    <3>2. QED BY <3>1, <1>7, <1>8, <1>12
  <2>2. CASE ~(i <= g)
    <3>1. i - g \in 1 .. k /\ g + (i - g) = i
      BY <2>2, <1>1, <1>2
    <3>2. i - g <= n
      <4>1. CASE b.sendeoi
        <5>1. z = g + n + Len(r) /\ Len(r) = 0 /\ n \in Nat
          BY <4>1, <1>4, <1>10
        <5>2. g \in Nat /\ i \in Int /\ i <= z
          BY <1>1, <1>2, <1>12
        <5>3. QED BY <5>1, <5>2
      <4>2. CASE ~b.sendeoi
        BY <4>2, <3>1, <1>3
      <4>3. QED BY <4>1, <4>2
    <3>3. i - g \in 1 .. n
      BY <3>1, <3>2, <1>4
    <3>4. d.got[i] = h[i - g]
      BY <3>1, <1>7
    <3>5. t[i] = b.data[(i - g) + 1]
      BY <3>1, <3>3, <1>5
    <3>6. QED BY <3>3, <3>4, <3>5, <1>2
  <2>3. QED BY <2>1, <2>2
<1>13. Begins(d)
  <2>1. \A i \in 1 .. Len(d.got) : i <= Len(d.text) => d.got[i] = d.text[i]
    <3>1. Len(d.text) = z
      BY <1>9 DEF z
    <3>2. QED BY <3>1, <1>7, <1>9, <1>12
  <2>2. QED BY <2>1 DEF Begins
<1>14. ASSUME b.sendeoi PROVE Len(d.got) >= Len(d.text) /\ (loader \notin Longer => d.got = d.text)
  <2>1. Len(d.text) = z /\ z = g + n
    BY <1>9, <1>1, <1>4, <1>10, <1>14 DEF z
  <2>2. Len(d.got) >= Len(d.text)
    BY <2>1, <1>7, <1>2, <1>1, <1>4
  <2>3. ASSUME loader \notin Longer PROVE d.got = d.text
    <3>1. k = n
      BY <2>3, <1>3
    <3>2. \A i \in 1 .. g + k : d.got[i] = t[i]
      <4>1. z = g + k /\ g + k \in Int
        BY <3>1, <2>1, <1>1, <1>2
      <4> TAKE i \in 1 .. g + k
      <4>2. i <= z
        BY <4>1
      <4>3. QED BY <4>2, <1>12
    <3>3. t \in Seq(Int) /\ Len(t) = g + k
      <4>1. t \in Seq(Nat) => t \in Seq(Int)
        OBVIOUS
      <4>2. QED BY <4>1, <3>1, <2>1, <1>1 DEF z
    <3>4. d.got = t
      BY <1>7, <3>2, <3>3, SeqEqual
    <3>5. QED BY <3>4, <1>9
  <2>4. QED BY <2>2, <2>3
<1>15. ASSUME ~b.sendeoi PROVE Reading(Filled(b), d)
  <2> DEFINE f == Filled(b)  q == f.lastused - 1
  <2>1. /\ f \in Buffer /\ f.position = 2 /\ q = Least(Block, Len(r)) /\ q \in 0 .. Block
        /\ (f.sendeoi <=> Len(r) = q)
        /\ \A i \in 1 .. q : f.data[i + 1] = r[i]
        /\ Len(f.rest) = Len(r) - q
        /\ \A i \in 1 .. Len(f.rest) : f.rest[i] = r[q + i]
    BY FilledIs
  <2> HIDE DEF f
  <2>2. f.rest \in Seq(Nat) /\ f.sendeoi \in BOOLEAN /\ Len(f.rest) \in Nat
    BY <2>1 DEF Buffer
  <2> DEFINE e == Len(f.rest)  u == Len(r)
  <2>3. u \in Nat /\ u > 0 /\ q = (IF Block < u THEN Block ELSE u) /\ q \in 0 .. Block /\ e = u - q
    BY <2>1, <1>1, <1>11, <1>15 DEF Least
  <2>4. f.rest = <<>> <=> e = 0
    BY <2>2
  <2>5. k = n
    BY <1>3, <1>15
  <2>6. Len(d.got) = g + n /\ Len(d.text) = g + n + u
    BY <2>5, <1>4, <1>7, <1>9 DEF z
  <2>7. (f.sendeoi <=> u = q) /\ (\A i \in 1 .. q : f.data[i + 1] = r[i]) /\ (\A i \in 1 .. e : f.rest[i] = r[q + i]) /\ f.position = 2
    BY <2>1
  <2>8. \A i \in 1 .. u : t[g + n + i] = r[i]
    BY <1>6
  <2> HIDE DEF q, e, u
  <2>9. q \in 1 .. Block /\ e = u - q /\ (u # q => q = Block) /\ (e = 0 <=> u = q) /\ q <= u
    BY <2>3, Sizes
  <2>10. \A i \in 1 .. q : t[g + n + i] = f.data[i + 1]
    <3> TAKE i \in 1 .. q
    <3>1. i \in 1 .. u
      BY <2>3, <2>9
    <3>2. QED BY <3>1, <2>7, <2>8
  <2>11. \A i \in 1 .. e : t[g + n + q + i] = f.rest[i]
    <3> TAKE i \in 1 .. e
    <3>1. q + i \in 1 .. u /\ g + n + (q + i) = g + n + q + i
      BY <2>3, <2>9, <1>1, <1>4
    <3>2. QED BY <3>1, <2>7, <2>8
  <2>12. Len(d.text) = Len(d.got) + q + e
    BY <2>3, <2>6, <2>9, <1>1, <1>4
  <2>13. (f.sendeoi <=> f.rest = <<>>) /\ (~f.sendeoi => q = Block)
    BY <2>4, <2>7, <2>9
  <2>14. QED BY <2>6, <2>7, <2>9, <2>10, <2>11, <2>12, <2>13, <1>9 DEF Reading, q, e, f
<1>16. QED BY <1>13, <1>14, <1>15
-----------------------------------------------------------------------------
(***************************************************************************)
(* What a step leaves alone.                                               *)
(***************************************************************************)
LEMMA Kinds ==
  /\ loader \in SectorLoaders => loader \notin FileLoaders /\ loader \notin Savers /\ loader \notin ByName /\ loader # "eload"
  /\ loader \in Savers => loader \notin FileLoaders /\ loader # "eload"
  /\ loader \in FileLoaders => loader \notin Savers /\ loader \notin SectorLoaders
  /\ loader \in ByName \cup {"eload"} => loader \notin SectorLoaders
  /\ loader \in Loaders => loader \in FileLoaders \/ loader \in Savers \/ loader \in SectorLoaders
BY LoadersAssumption DEF ByName, Loaders

SameFile == c64'.text = c64.text /\ c64'.got = c64.got /\ c64'.verdict = c64.verdict

LEMMA SendingFrame ==
  ASSUME Sending, loader \in Loaders, loader' = loader, SameFile,
         loader \notin FileLoaders \/ pc' \in {"done", "over"} \/ (loader # "eload" /\ pc' \notin {"start", "block"}),
         loader \in FileLoaders \/ pc' # "block"
  PROVE  Sending'
<1>1. Begins(c64)' /\ (c64.verdict = "complete" => c64.got = c64.text)'
  BY DEF Sending, SameFile, Begins
<1>2. (loader \notin FileLoaders => c64.got = <<>> /\ c64.verdict # "complete")'
  BY DEF Sending, SameFile
<1>3. loader \in FileLoaders => pc' \notin {"start", "block"}
  OBVIOUS
<1>4. loader = "eload" => pc' # "command"
  BY Kinds
<1>5. QED BY <1>1, <1>2, <1>3, <1>4, Kinds DEF Sending

SameSave == c64'.text = c64.text /\ c64'.saved = c64.saved /\ file' = file

LEMMA SavingFrame ==
  ASSUME Saving, loader' = loader, SameSave,
         loader \notin Savers \/ pc' \notin {"start", "save"}, loader \in Savers \/ pc' # "save"
  PROVE  Saving'
<1>1. (c64.saved /\ loader # "ar6save" => file = c64.text)'
  BY DEF Saving, SameSave
<1>2. loader \in Savers => pc' \notin {"start", "save"}
  OBVIOUS
<1>3. pc' # "save"
  OBVIOUS
<1>4. QED BY <1>1, <1>2, <1>3 DEF Saving

LEMMA AnsweredFrame ==
  ASSUME Answered, loader' = loader, loader \notin SectorLoaders, loader \in Loaders, store' = store,
         pc' \notin {"start", "sending", "clear"},
         c64'.heard = <<>> \/ (c64'.heard = c64.heard /\ c64'.want = c64.want /\ c64'.said = c64.said)
  PROVE  Answered'
<1>1. loader \notin {"dreamload", "geos", "wheels"}
  BY LoadersAssumption DEF Loaders
<1>2. ToldTrue'
  BY DEF Answered, ToldTrue
<1>3. JobsDone'
  BY <1>1 DEF JobsDone
<1>4. OnDisks'
  BY DEF Answered, OnDisks
<1>5. QED BY <1>1, <1>2, <1>3, <1>4 DEF Answered

SameHeads(p, q) ==
  \A s \in Slot : q[s].allocated = p[s].allocated /\ q[s].secondary = p[s].secondary /\ q[s].what = p[s].what

(* The buffers of a sector loader that waits stay its own.                  *)
LEMMA KeptFrame ==
  ASSUME Kept, loader' = loader, mine' = mine, mine \subseteq Slot, SameHeads(pool, pool')
  PROVE  Kept'
BY DEF Kept, SameHeads

LEMMA KeeperFrame ==
  ASSUME Owned, loader \in Keeper, loader' = loader, mine' = mine, mine \subseteq Slot, SameHeads(pool, pool'),
         pc \in Served, pc' \in Served \cup {"done", "over"}
  PROVE  Owned'
<1>1. Kept
  BY DEF Owned
<1>2. Kept'
  BY <1>1, KeptFrame
<1>3. loader \in SectorLoaders /\ loader # "uload3" /\ pc' \notin {"start", "block", "save"}
  BY DEF Keeper, Served
<1>4. QED BY <1>2, <1>3 DEF Owned

LEMMA LeftFrame ==
  ASSUME pc' \in {"done", "over"}
  PROVE  Owned' /\ Placed'
BY DEF Owned, Placed, Served

SameComputer == SameFile /\ c64'.left = c64.left /\ c64'.saved = c64.saved

(* What a command for sectors does to the computer.                         *)
Sayings == {"nothing", "ok", "protected", "error"}
AsksFor(d, c, want, heard, said) ==
  /\ d \in Computer /\ d.want = want /\ d.heard = heard /\ d.said = said
  /\ d.text = c.text /\ d.got = c.got /\ d.verdict = c.verdict /\ d.left = c.left /\ d.saved = c.saved

LEMMA AsksIs ==
  ASSUME c64 \in Computer, NEW want \in Seq(Int), NEW heard \in Seq(Int), NEW said \in Sayings
  PROVE  AsksFor(Asks(want, heard, said), c64, want, heard, said)
BY DEF Asks, AsksFor, Computer, Sayings

LEMMA AskedSame ==
  ASSUME NEW want, NEW heard, NEW said, AsksFor(c64', c64, want, heard, said)
  PROVE  c64' \in Computer /\ SameComputer /\ c64'.want = want /\ c64'.heard = heard /\ c64'.said = said
BY DEF AsksFor, SameComputer, SameFile
-----------------------------------------------------------------------------
(***************************************************************************)
(* Sectors that are read and written.                                      *)
(***************************************************************************)
Link == [next : Sectors \cup {0}, bytes : Seq(Int)]

LEMMA StoreIs ==
  ASSUME Typed, NEW s \in Sectors
  PROVE  store[image][s] \in Sector /\ store[image][s] \in Link
<1>1. store[image][s] \in Sector
  BY DEF Typed, Disks
<1>2. \A x : x \in Seq(Nat) => x \in Seq(Int)
  OBVIOUS
<1>3. QED BY <1>1, <1>2 DEF Sector, Link

(* What came of a call: the sector, or an error and nothing.                *)
Got(r, s) ==
  /\ s \in Sectors /\ r.sector = store[image][s] /\ r.want = store[image][s].bytes
  /\ r.error = error /\ r.faults = faults
Missed(r) ==
  /\ loader \in Tells /\ r.sector = pool[Data].sector /\ r.want = <<>>
  /\ r.error \in {20, 66} /\ r.faults \in {1, faults}

LEMMA ReadIs ==
  ASSUME NEW s \in Addresses, NEW r \in read_sector(s)
  PROVE  Got(r, s) \/ Missed(r)
<1>1. s \in Sectors \/ (s = 0 /\ loader \in Tells)
  BY DEF Addresses, NoSector
<1>2. \/ s = 0 /\ r = [sector |-> pool[Data].sector, error |-> 66, faults |-> faults, want |-> <<>>]
      \/ s # 0 /\ r = [sector |-> store[image][s], error |-> error, faults |-> faults, want |-> store[image][s].bytes]
      \/ loader \in Tells /\ r = [sector |-> pool[Data].sector, error |-> 20, faults |-> 1, want |-> <<>>]
  BY DEF read_sector, NoSector, Fails
<1>3. QED BY <1>1, <1>2, Cards DEF Got, Missed

Wrote(w, s, x) ==
  /\ s \in Sectors /\ w.store = [store EXCEPT ![image][s].bytes = x]
  /\ w.error = error /\ w.faults = faults
Refused(w) ==
  /\ loader \in Tells /\ w.store = store /\ w.error \in {26, 66} /\ w.faults \in {1, faults}

LEMMA WriteIs ==
  ASSUME NEW s \in Addresses, NEW x, NEW w \in write_sector(s, x)
  PROVE  Wrote(w, s, x) \/ Refused(w)
<1>1. s \in Sectors \/ (s = 0 /\ loader \in Tells)
  BY DEF Addresses, NoSector
<1>2. \/ s = 0 /\ w = [store |-> store, error |-> 66, faults |-> faults]
      \/ s # 0 /\ w = [store |-> [store EXCEPT ![image][s].bytes = x], error |-> error, faults |-> faults]
      \/ loader \in Tells /\ w = [store |-> store, error |-> 26, faults |-> 1]
  BY DEF write_sector, NoSector, Fails
<1>3. QED BY <1>1, <1>2, Cards DEF Wrote, Refused

LEMMA WrittenIs ==
  ASSUME Typed, OnDisks, NEW s \in Sectors, NEW x \in Sent, store' = [store EXCEPT ![image][s].bytes = x]
  PROVE  store' \in Disks /\ OnDisks' /\ store'[image][s].bytes = x
<1>1. x \in Seq(Nat)
  BY LoadersAssumption
<1>2. image \in DOMAIN Images /\ store \in [DOMAIN Images -> [Sectors -> Sector]]
  BY DEF Typed, Disks
<1>3. store[image][s] \in Sector
  BY <1>2
<1> DEFINE z == [store[image][s] EXCEPT !.bytes = x]
           v == [store[image] EXCEPT ![s] = z]
<1>4. z \in Sector /\ z.bytes = x /\ z.next = store[image][s].next
  BY <1>1, <1>3 DEF Sector
<1> HIDE DEF z
<1>5. v \in [Sectors -> Sector] /\ v[s] = z /\ \A q \in Sectors : q # s => v[q] = store[image][q]
  BY <1>2, <1>4
<1>6. store' = [store EXCEPT ![image] = v]
  BY Zenon DEF v, z
<1> HIDE DEF v
<1>7. store' \in Disks /\ store'[image] = v /\ \A d \in DOMAIN Images : d # image => store'[d] = store[d]
  BY <1>2, <1>5, <1>6 DEF Disks
<1>8. ASSUME NEW d \in DOMAIN Images, NEW q \in Sectors
      PROVE  store'[d][q].next = Images[d][q].next /\ store'[d][q].bytes \in Sent \cup {Images[d][q].bytes}
  <2>1. store[d][q].next = Images[d][q].next /\ store[d][q].bytes \in Sent \cup {Images[d][q].bytes}
    BY DEF OnDisks
  <2>2. CASE d = image /\ q = s
    BY <2>1, <2>2, <1>4, <1>5, <1>7
  <2>3. CASE ~(d = image /\ q = s)
    <3>1. store'[d][q] = store[d][q]
      BY <2>3, <1>5, <1>7
    <3>2. QED BY <2>1, <3>1
  <2>4. QED BY <2>2, <2>3
<1>9. QED BY <1>4, <1>5, <1>7, <1>8 DEF OnDisks

(* The buffer for sectors: one that a loader has.                            *)
LEMMA DataIs ==
  ASSUME Typed, Kept \/ One("sector")
  PROVE  Data \in mine /\ Data \in Slot /\ pool[Data] \in Buffer /\ pool[Data].what # "command"
<1>1. \E s \in mine : pool[s].what # "command"
  BY DEF Kept, One
<1>2. Data \in mine /\ pool[Data].what # "command"
  BY <1>1 DEF Data
<1>3. QED BY <1>2 DEF Typed

(* The one other buffer of a sector loader is for its commands.              *)
LEMMA DataStays ==
  ASSUME Typed, Kept \/ One("sector"), mine' = mine, SameHeads(pool, pool')
  PROVE  Data' = Data
<1>1. \A s \in mine : pool'[s].what = pool[s].what
  BY DEF Typed, SameHeads
<1>2. \E s \in mine : \A t \in mine : pool[t].what # "command" <=> t = s
  <2>1. CASE Kept
    BY <2>1 DEF Kept
  <2>2. CASE One("sector")
    BY <2>2 DEF One
  <2>3. QED BY <2>1, <2>2
<1>3. PICK s \in mine : \A t \in mine : pool[t].what # "command" <=> t = s
  BY <1>2
<1>4. Data = s
  BY <1>3 DEF Data
<1>5. \A t \in mine : pool'[t].what # "command" <=> t = s
  BY <1>1, <1>3
<1>6. Data' = s
  BY <1>5 DEF Data
<1>7. QED BY <1>4, <1>6

LEMMA InBufferIs ==
  ASSUME Typed, Kept \/ One("sector"), mine' = mine, NEW v \in Link, pool' = [pool EXCEPT ![Data].sector = v]
  PROVE  /\ pool' \in Pools /\ SameHeads(pool, pool') /\ Data' = Data /\ pool'[Data].sector = v
<1>1. Data \in Slot /\ pool[Data] \in Buffer /\ pool \in [Slot -> Buffer]
  BY DataIs DEF Typed
<1> DEFINE b == [pool[Data] EXCEPT !.sector = v]
<1>2. b \in Buffer /\ b.sector = v /\ b.allocated = pool[Data].allocated /\ b.secondary = pool[Data].secondary /\ b.what = pool[Data].what
  BY <1>1 DEF Buffer, Link
<1>3. pool' = [pool EXCEPT ![Data] = b]
  BY Zenon DEF b
<1> HIDE DEF b
<1>4. pool' \in Pools /\ pool'[Data] = b /\ \A s \in Slot : s # Data => pool'[s] = pool[s]
  BY <1>1, <1>2, <1>3 DEF Pools
<1>5. SameHeads(pool, pool')
  BY <1>2, <1>4 DEF SameHeads
<1>6. QED BY <1>2, <1>4, <1>5, DataStays
-----------------------------------------------------------------------------
(***************************************************************************)
(* Steps of the loaders that read and write sectors.                       *)
(***************************************************************************)
LEMMA SectorTyped ==
  ASSUME Typed, UNCHANGED Fixed, pc' \in Served \cup {"done", "over"}, pool' \in Pools, mine' \subseteq Slot, error' \in Nat,
         image' \in DOMAIN Images, store' \in Disks, file' = file, first' \in BOOLEAN,
         at' \in Sectors \cup {0}, job' \in Sectors \cup {0}, dir_changed' \in BOOLEAN,
         c64' \in Computer, turns' \in Nat, faults' \in Nat
  PROVE  Typed'
<1>1. loader' = loader /\ driver' = driver
  BY DEF Fixed
<1>2. pc' \in {"start", "command", "block", "save", "chain", "data", "sending", "clear", "done", "over"}
  BY DEF Served
<1>3. QED BY <1>1, <1>2 DEF Typed, Pools

LEMMA SectorStep ==
  ASSUME LoadersInv, Typed', loader \in SectorLoaders, UNCHANGED Fixed,
         pc' \in Served \cup {"done", "over"}, file' = file, SameComputer,
         Owned', Placed', Answered'
  PROVE  LoadersInv'
<1>1. loader' = loader /\ loader \in Loaders /\ Sending /\ Saving
  BY DEF Fixed, LoadersInv, Typed
<1>2. pc' \notin {"start", "block", "save"}
  BY DEF Served
<1>3. Sending'
  BY <1>1, <1>2, Kinds, SendingFrame DEF SameComputer
<1>4. Saving'
  BY <1>1, <1>2, Kinds, SavingFrame DEF SameComputer, SameFile, SameSave
<1>5. QED BY <1>3, <1>4 DEF LoadersInv

LEMMA KeeperStep ==
  ASSUME LoadersInv, loader \in Keeper, pc \in Served, mine' = mine, SameHeads(pool, pool'), pool' \in Pools,
         UNCHANGED Fixed, pc' \in Served \cup {"done"}, error' \in Nat,
         image' \in DOMAIN Images, store' \in Disks, file' = file, first' \in BOOLEAN,
         at' \in Sectors \cup {0}, job' \in Sectors \cup {0}, dir_changed' \in BOOLEAN,
         c64' \in Computer, SameComputer, turns' \in Nat, faults' \in Nat,
         Placed', Answered'
  PROVE  LoadersInv'
<1>1. mine \subseteq Slot /\ Typed /\ Owned /\ loader' = loader /\ loader \in SectorLoaders
  BY DEF LoadersInv, Typed, Fixed, Keeper
<1>2. Owned'
  BY <1>1, KeeperFrame
<1>3. Typed'
  BY <1>1, SectorTyped
<1>4. QED BY <1>1, <1>2, <1>3, SectorStep

LEMMA KeeperFacts ==
  ASSUME LoadersInv, loader \in Keeper, pc \in Served
  PROVE  Kept /\ Data \in Slot /\ pool[Data] \in Buffer /\ pool[Data].sector \in Link /\ pool \in Pools
<1>1. Kept /\ Typed
  BY DEF LoadersInv, Owned
<1>2. Data \in Slot /\ pool[Data] \in Buffer
  BY <1>1, DataIs
<1>3. QED BY <1>1, <1>2 DEF Buffer, Link, Pools, Typed

LEMMA StatusIs ==
  ASSUME NEW e \in Nat
  PROVE  transmit_status(e) \in Sayings /\ (transmit_status(e) = "ok" <=> e = 0)
<1>1. CASE e = 0
  BY <1>1 DEF transmit_status, Sayings
<1>2. CASE e = 26
  BY <1>2 DEF transmit_status, Sayings
<1>3. CASE e # 0 /\ e # 26
  BY <1>3 DEF transmit_status, Sayings
<1>4. QED BY <1>1, <1>2, <1>3

LEMMA ReadSectorKeeps ==
  ASSUME LoadersInv, NEW loaders, loaders \subseteq {"geos", "wheels", "nippon"}, NEW parts, ReadSector(loaders, parts)
  PROVE  LoadersInv'
<1>1. /\ pc = "command" /\ pc' = "command" /\ turns' = turns + 1 /\ loader \in loaders
      /\ UNCHANGED Fixed /\ mine' = mine /\ image' = image /\ store' = store /\ dir_changed' = dir_changed
      /\ file' = file /\ first' = first /\ at' = at /\ job' = job
  BY DEF ReadSector, Turn, Disk
<1>2. PICK s \in Addresses : \E q \in read_sector(s) :
        /\ pool' = [pool EXCEPT ![Data].sector = q.sector]
        /\ error' = q.error /\ faults' = q.faults
        /\ c64' = Asks(q.want, Heard(parts, q), Said(parts, q))
  BY DEF ReadSector
<1>3. PICK q \in read_sector(s) :
        /\ pool' = [pool EXCEPT ![Data].sector = q.sector]
        /\ error' = q.error /\ faults' = q.faults
        /\ c64' = Asks(q.want, Heard(parts, q), Said(parts, q))
  BY <1>2
<1>4. loader' = loader /\ loader \in {"geos", "wheels", "nippon"} /\ loader \in Loaders /\ Typed /\ Answered /\ Placed
  BY <1>1 DEF Fixed, LoadersInv, Typed
<1>5. loader \in Keeper /\ pc \in Served
  BY <1>1, <1>4, LoadersAssumption DEF Keeper, Loaders, Served
<1>6. Kept /\ Data \in Slot /\ pool[Data].sector \in Link /\ pool \in Pools
  BY <1>5, KeeperFacts
<1>7. Got(q, s) \/ Missed(q)
  BY <1>3, ReadIs
<1>8. /\ q.sector \in Link /\ q.want \in Seq(Int) /\ q.error \in Nat /\ q.faults \in Nat
      /\ q.error = 0 \/ loader \notin Tells => q.want = q.sector.bytes
      /\ loader \notin Tells => q.error = error
  <2>1. CASE Got(q, s)
    <3>1. s \in Sectors /\ q.sector = store[image][s] /\ q.want = store[image][s].bytes /\ q.error = error /\ q.faults = faults
      BY <2>1 DEF Got
    <3>2. store[image][s] \in Link
      BY <3>1, <1>4, StoreIs
    <3>3. QED BY <3>1, <3>2, <1>4 DEF Link, Typed
  <2>2. CASE Missed(q)
    <3>1. <<>> \in Seq(Int)
      OBVIOUS
    <3>2. faults \in Nat
      BY <1>4 DEF Typed
    <3>3. QED BY <2>2, <3>1, <3>2, <1>6 DEF Missed
  <2>3. QED BY <1>7, <2>1, <2>2
<1>9. Heard(parts, q) \in Seq(Int) /\ Heard(parts, q) \in {<<>>, q.sector.bytes}
  <2>1. <<>> \in Seq(Int) /\ q.sector.bytes \in Seq(Int)
    BY <1>8 DEF Link
  <2>2. QED BY <2>1 DEF Heard
<1>10. Said(parts, q) \in Sayings /\ (Said(parts, q) = "ok" => q.error = 0)
  BY <1>8, StatusIs DEF Said, Sayings
<1>11. c64' \in Computer /\ SameComputer /\ c64'.want = q.want /\ c64'.heard = Heard(parts, q) /\ c64'.said = Said(parts, q)
  <2>1. c64 \in Computer
    BY <1>4 DEF Typed
  <2>2. AsksFor(c64', c64, q.want, Heard(parts, q), Said(parts, q))
    BY <2>1, <1>3, <1>8, <1>9, <1>10, AsksIs
  <2>3. QED BY <2>2, AskedSame
<1>12. pool' \in Pools /\ SameHeads(pool, pool') /\ Data' = Data /\ pool'[Data].sector = q.sector
  BY <1>1, <1>3, <1>4, <1>6, <1>8, InBufferIs
<1>13. Placed'
  BY <1>1, <1>4 DEF Placed
<1>14. Answered'
  <2>1. ToldTrue'
    BY <1>4, <1>8, <1>9, <1>10, <1>11 DEF ToldTrue
  <2>2. JobsDone'
    BY <1>4 DEF JobsDone
  <2>3. OnDisks'
    BY <1>1, <1>4 DEF Answered, OnDisks
  <2>4. error' = 0 \/ loader \notin Tells => c64'.heard \in {<<>>, c64'.want} /\ c64'.want = pool'[Data'].sector.bytes
    BY <1>3, <1>8, <1>9, <1>11, <1>12
  <2>5. loader \in {"geos", "wheels"} /\ loader \notin Tells => error' = 0
    BY <1>3, <1>4, <1>8 DEF Answered
  <2>6. QED BY <2>1, <2>2, <2>3, <2>4, <2>5, <1>1, <1>4 DEF Answered
<1>15. QED
  <2>1. first' \in BOOLEAN /\ at' \in Sectors \cup {0} /\ job' \in Sectors \cup {0} /\ dir_changed' \in BOOLEAN
        /\ turns' \in Nat /\ image' \in DOMAIN Images /\ store' \in Disks
    BY <1>1, <1>4 DEF Typed
  <2>2. error' \in Nat /\ faults' \in Nat
    BY <1>3, <1>8
  <2>3. pc' \in Served \cup {"done"}
    BY <1>1 DEF Served
  <2>4. QED BY <2>1, <2>2, <2>3, <1>1, <1>5, <1>11, <1>12, <1>13, <1>14, KeeperStep

LEMMA ReadGives ==
  ASSUME Typed, pool[Data].sector \in Link, NEW s \in Addresses, NEW q \in read_sector(s)
  PROVE  /\ q.sector \in Link /\ q.want \in Seq(Int) /\ q.error \in Nat /\ q.faults \in Nat
         /\ q.error = 0 \/ loader \notin Tells => q.want = q.sector.bytes
         /\ loader \notin Tells => q.error = error
<1>1. CASE Got(q, s)
  <2>1. s \in Sectors /\ q.sector = store[image][s] /\ q.want = store[image][s].bytes /\ q.error = error /\ q.faults = faults
    BY <1>1 DEF Got
  <2>2. store[image][s] \in Link
    BY <2>1, StoreIs
  <2>3. QED BY <2>1, <2>2 DEF Link, Typed
<1>2. CASE Missed(q)
  <2>1. <<>> \in Seq(Int)
    OBVIOUS
  <2>2. faults \in Nat
    BY DEF Typed
  <2>3. QED BY <1>2, <2>1, <2>2 DEF Missed
<1>3. QED BY <1>1, <1>2, ReadIs

LEMMA WriteGives ==
  ASSUME Typed, OnDisks, NEW s \in Addresses, NEW x \in Sent, NEW w \in write_sector(s, x), store' = w.store
  PROVE  /\ store' \in Disks /\ OnDisks' /\ w.error \in Nat /\ w.faults \in Nat
         /\ x \in Seq(Nat) /\ x \in Seq(Int) /\ On(w.store, s) \in Seq(Int)
         /\ w.error = 0 \/ loader \notin Tells => On(w.store, s) = x
         /\ loader \notin Tells => w.error = error
<1>1. x \in Seq(Nat) /\ x \in Seq(Int)
  <2>1. x \in Seq(Nat)
    BY LoadersAssumption
  <2>2. QED BY <2>1
<1>2. error \in Nat /\ faults \in Nat /\ store \in Disks
  BY DEF Typed
<1>3. s = 0 \/ (s \in Sectors /\ s # 0)
  BY Cards DEF Addresses, NoSector
<1>4. On(w.store, s) = IF s = 0 THEN <<>> ELSE store'[image][s].bytes
  BY DEF On, NoSector
<1>5. CASE Wrote(w, s, x)
  <2>1. s \in Sectors /\ s # 0 /\ w.error = error /\ w.faults = faults
    BY <1>3, <1>5, Cards DEF Wrote
  <2>2. store' = [store EXCEPT ![image][s].bytes = x]
    BY <1>5 DEF Wrote
  <2>3. store' \in Disks /\ OnDisks' /\ store'[image][s].bytes = x
    BY <2>1, <2>2, WrittenIs
  <2>4. QED BY <1>1, <1>2, <1>4, <2>1, <2>3
<1>6. CASE Refused(w)
  <2>1. store' = store /\ loader \in Tells /\ w.error \in {26, 66} /\ w.faults \in {1, faults}
    BY <1>6 DEF Refused
  <2>2. OnDisks'
    BY <2>1 DEF OnDisks
  <2>3. On(w.store, s) \in Seq(Int)
    <3>1. CASE s = 0
      <4>1. On(w.store, s) = <<>> /\ <<>> \in Seq(Int)
        BY <1>4, <3>1
      <4>2. QED BY <4>1
    <3>2. CASE s \in Sectors /\ s # 0
      <4>1. On(w.store, s) = store[image][s].bytes /\ store[image][s] \in Link
        BY <1>4, <2>1, <3>2, StoreIs
      <4>2. QED BY <4>1 DEF Link
    <3>3. QED BY <1>3, <3>1, <3>2
  <2>4. QED BY <1>1, <1>2, <2>1, <2>2, <2>3
<1>7. QED BY <1>5, <1>6, WriteIs

LEMMA TypedFacts ==
  ASSUME LoadersInv
  PROVE  /\ Typed /\ Placed /\ Owned /\ Sending /\ Saving /\ Answered /\ OnDisks /\ ToldTrue /\ JobsDone
         /\ loader \in Loaders /\ mine \subseteq Slot /\ pool \in Pools /\ error \in Nat /\ image \in DOMAIN Images /\ store \in Disks
         /\ file \in Seq(Nat) /\ first \in BOOLEAN /\ at \in Sectors \cup {0} /\ job \in Sectors \cup {0}
         /\ dir_changed \in BOOLEAN /\ c64 \in Computer /\ turns \in Nat /\ faults \in Nat
BY DEF LoadersInv, Typed, Answered, Pools

(* Data for the sector a loader has in its buffer.                          *)
LEMMA InBufferKeeps ==
  ASSUME Typed, Kept \/ One("sector"), mine' = mine, NEW x \in Seq(Int), pool' = InBuffer(x)
  PROVE  pool' \in Pools /\ SameHeads(pool, pool') /\ Data' = Data /\ pool'[Data].sector.bytes = x
<1>1. pool[Data].sector \in Link
  BY DataIs DEF Buffer, Link
<1> DEFINE v == [pool[Data].sector EXCEPT !.bytes = x]
<1>2. v \in Link /\ v.bytes = x
  BY <1>1 DEF Link
<1>3. pool' = [pool EXCEPT ![Data].sector = v]
  BY Zenon DEF InBuffer, v
<1> HIDE DEF v
<1>4. QED BY <1>2, <1>3, InBufferIs

LEMMA WriteSectorKeeps ==
  ASSUME LoadersInv, NEW loaders, loaders \subseteq {"geos", "wheels", "nippon"}, NEW parts, WriteSector(loaders, parts)
  PROVE  LoadersInv'
<1>1. /\ pc = "command" /\ pc' = "command" /\ turns' = turns + 1 /\ loader \in loaders
      /\ UNCHANGED Fixed /\ mine' = mine /\ image' = image /\ dir_changed' = dir_changed
      /\ file' = file /\ first' = first /\ at' = at /\ job' = job
  BY DEF WriteSector, Turn
<1>2. PICK s \in Addresses, x \in Sent : \E w \in write_sector(s, x) :
        /\ pool' = InBuffer(x) /\ store' = w.store
        /\ error' = w.error /\ faults' = w.faults
        /\ c64' = Asks(x, On(w.store, s), Said(parts, w))
  BY DEF WriteSector
<1>3. PICK w \in write_sector(s, x) :
        /\ pool' = InBuffer(x) /\ store' = w.store
        /\ error' = w.error /\ faults' = w.faults
        /\ c64' = Asks(x, On(w.store, s), Said(parts, w))
  BY <1>2
<1>4. loader' = loader /\ loader \in {"geos", "wheels", "nippon"} /\ loader \in Loaders /\ Typed /\ Answered /\ Placed /\ OnDisks
  BY <1>1, TypedFacts DEF Fixed
<1>5. loader \in Keeper /\ pc \in Served
  BY <1>1, <1>4, LoadersAssumption DEF Keeper, Loaders, Served
<1>6. Kept
  BY <1>5, KeeperFacts
<1>7. /\ store' \in Disks /\ OnDisks' /\ w.error \in Nat /\ w.faults \in Nat
      /\ x \in Seq(Nat) /\ x \in Seq(Int) /\ On(w.store, s) \in Seq(Int)
      /\ w.error = 0 \/ loader \notin Tells => On(w.store, s) = x
      /\ loader \notin Tells => w.error = error
  BY <1>3, <1>4, WriteGives
<1>8. Said(parts, w) \in Sayings /\ (Said(parts, w) = "ok" => w.error = 0)
  BY <1>7, StatusIs DEF Said, Sayings
<1>9. c64' \in Computer /\ SameComputer /\ c64'.want = x /\ c64'.heard = On(w.store, s) /\ c64'.said = Said(parts, w)
  <2>1. c64 \in Computer
    BY TypedFacts
  <2>2. AsksFor(c64', c64, x, On(w.store, s), Said(parts, w))
    BY <2>1, <1>3, <1>7, <1>8, AsksIs
  <2>3. QED BY <2>2, AskedSame
<1>10. pool' \in Pools /\ SameHeads(pool, pool') /\ Data' = Data /\ pool'[Data].sector.bytes = x
  BY <1>1, <1>3, <1>4, <1>6, <1>7, InBufferKeeps
<1>11. Placed'
  BY <1>1, <1>4 DEF Placed
<1>12. Answered'
  <2>1. ToldTrue'
    BY <1>4, <1>7, <1>8, <1>9 DEF ToldTrue
  <2>2. JobsDone'
    BY <1>4 DEF JobsDone
  <2>3. error' = 0 \/ loader \notin Tells => c64'.heard \in {<<>>, c64'.want} /\ c64'.want = pool'[Data'].sector.bytes
    BY <1>3, <1>7, <1>9, <1>10
  <2>4. loader \in {"geos", "wheels"} /\ loader \notin Tells => error' = 0
    BY <1>3, <1>4, <1>7 DEF Answered
  <2>5. QED BY <2>1, <2>2, <2>3, <2>4, <1>1, <1>4, <1>7 DEF Answered
<1>13. first' \in BOOLEAN /\ at' \in Sectors \cup {0} /\ job' \in Sectors \cup {0} /\ dir_changed' \in BOOLEAN
       /\ turns' \in Nat /\ image' \in DOMAIN Images
  BY <1>1, TypedFacts
<1>14. error' \in Nat /\ faults' \in Nat
  BY <1>3, <1>7
<1>15. pc' \in Served \cup {"done"}
  BY <1>1 DEF Served
<1>16. QED BY <1>13, <1>14, <1>15, <1>1, <1>5, <1>7, <1>9, <1>10, <1>11, <1>12, KeeperStep

(* A step that leaves the buffers, the disks and the rest.                   *)
LEMMA QuietStep ==
  ASSUME LoadersInv, loader \in Keeper, pc \in Served, UNCHANGED <<Fixed, pool, mine, Disk, file, first>>,
         pc' \in Served \cup {"done"}, error' = error, at' \in Sectors \cup {0}, job' \in Sectors \cup {0},
         c64' \in Computer, SameComputer, turns' \in Nat, faults' = faults, Placed', Answered'
  PROVE  LoadersInv'
<1>1. pool' = pool /\ mine' = mine /\ image' = image /\ store' = store /\ dir_changed' = dir_changed
      /\ file' = file /\ first' = first /\ UNCHANGED Fixed
  BY DEF Disk
<1>2. SameHeads(pool, pool')
  BY <1>1 DEF SameHeads
<1>3. QED BY <1>1, <1>2, TypedFacts, KeeperStep

SaidOnly(d, c, heard, said) ==
  /\ d \in Computer /\ d.want = c.want /\ d.heard = heard /\ d.said = said
  /\ d.text = c.text /\ d.got = c.got /\ d.verdict = c.verdict /\ d.left = c.left /\ d.saved = c.saved

LEMMA SaidIs ==
  ASSUME NEW c \in Computer, NEW heard \in Seq(Int), NEW said \in Sayings
  PROVE  SaidOnly([c EXCEPT !.heard = heard, !.said = said], c, heard, said)
BY DEF SaidOnly, Computer, Sayings

LEMMA SaidStatus ==
  ASSUME NEW c \in Computer, NEW said \in Sayings
  PROVE  SaidOnly([c EXCEPT !.said = said], c, c.heard, said)
BY DEF SaidOnly, Computer, Sayings

LEMMA TransmitKeeps ==
  ASSUME LoadersInv, Transmit \/ Asked
  PROVE  LoadersInv'
<1>1. /\ pc = "command" /\ pc' = "command" /\ turns' = turns + 1 /\ loader \in {"geos", "wheels"}
      /\ UNCHANGED <<Fixed, pool, mine, Disk, file, first>> /\ error' = error /\ at' = at /\ job' = job /\ faults' = faults
  BY DEF Transmit, Asked, Turn
<1>2. pool' = pool /\ mine' = mine /\ loader' = loader /\ store' = store
  BY <1>1 DEF Fixed, Disk
<1>3. loader \in Keeper /\ pc \in Served
  BY <1>1, TypedFacts, LoadersAssumption DEF Keeper, Loaders, Served
<1>4. pool[Data].sector.bytes \in Seq(Int) /\ c64 \in Computer /\ c64.heard \in Seq(Int) /\ error \in Nat
  <2>1. c64 \in Computer /\ error \in Nat
    BY TypedFacts
  <2>2. pool[Data].sector.bytes \in Seq(Int)
    BY <1>3, KeeperFacts DEF Link
  <2>3. QED BY <2>1, <2>2 DEF Computer
<1>5. Data' = Data
  BY <1>2 DEF Data
<1>6. \E h \in Seq(Int) : /\ SaidOnly(c64', c64, h, transmit_status(error))
                          /\ h = c64.heard \/ h = pool[Data].sector.bytes
  <2> DEFINE said == transmit_status(error)  x == pool[Data].sector.bytes
  <2>1. said \in Sayings
    BY <1>4, StatusIs
  <2>2. CASE Asked
    <3>1. c64' = [c64 EXCEPT !.said = said]
      BY <2>2 DEF Asked
    <3> HIDE DEF said
    <3>2. SaidOnly(c64', c64, c64.heard, said)
      BY <1>4, <2>1, <3>1, SaidStatus
    <3>3. QED BY <1>4, <3>2 DEF said
  <2>3. CASE Transmit
    <3>1. c64' = [c64 EXCEPT !.heard = x, !.said = said] \/ c64' = [c64 EXCEPT !.heard = IF error = 0 THEN x ELSE @, !.said = said]
      BY <2>3 DEF Transmit
    <3>2. \E h \in Seq(Int) : c64' = [c64 EXCEPT !.heard = h, !.said = said] /\ (h = c64.heard \/ h = x)
      <4>1. CASE error = 0
        <5>1. c64' = [c64 EXCEPT !.heard = x, !.said = said]
          BY <3>1, <4>1
        <5>2. QED BY <5>1, <1>4
      <4>2. CASE error # 0
        <5>1. c64' = [c64 EXCEPT !.heard = x, !.said = said] \/ c64' = [c64 EXCEPT !.heard = c64.heard, !.said = said]
          BY <3>1, <4>2
        <5>2. QED BY <5>1, <1>4
      <4>3. QED BY <4>1, <4>2
    <3>3. PICK h \in Seq(Int) : c64' = [c64 EXCEPT !.heard = h, !.said = said] /\ (h = c64.heard \/ h = x)
      BY <3>2
    <3> HIDE DEF said, x
    <3>4. SaidOnly(c64', c64, h, said)
      BY <1>4, <2>1, <3>3, SaidIs
    <3>5. QED BY <3>3, <3>4 DEF said, x
  <2>4. QED BY <2>2, <2>3
<1>7. PICK h \in Seq(Int) : /\ SaidOnly(c64', c64, h, transmit_status(error))
                            /\ h = c64.heard \/ h = pool[Data].sector.bytes
  BY <1>6
<1>8. c64' \in Computer /\ SameComputer /\ c64'.want = c64.want /\ c64'.heard = h /\ (c64'.said = "ok" <=> error = 0)
  <2>1. transmit_status(error) = "ok" <=> error = 0
    BY <1>4, StatusIs
  <2>2. QED BY <2>1, <1>7 DEF SaidOnly, SameComputer, SameFile
<1>9. error = 0 \/ loader \notin Tells => h \in {<<>>, c64.want} /\ c64.want = pool[Data].sector.bytes
  BY <1>1, <1>7, TypedFacts DEF Answered
<1>10. loader \notin Tells => error = 0
  BY <1>1, TypedFacts DEF Answered
<1>11. Answered'
  <2>1. ToldTrue'
    BY <1>2, <1>8, <1>9, <1>10 DEF ToldTrue
  <2>2. JobsDone'
    BY <1>1, <1>2 DEF JobsDone
  <2>3. OnDisks'
    BY <1>2, TypedFacts DEF OnDisks
  <2>4. QED BY <2>1, <2>2, <2>3, <1>1, <1>2, <1>5, <1>8, <1>9, <1>10 DEF Answered
<1>12. Placed'
  BY <1>1, <1>2, TypedFacts DEF Placed
<1>13. at' \in Sectors \cup {0} /\ job' \in Sectors \cup {0} /\ turns' \in Nat
  BY <1>1, TypedFacts
<1>14. pc' \in Served \cup {"done"}
  BY <1>1 DEF Served
<1>15. QED BY <1>1, <1>3, <1>8, <1>11, <1>12, <1>13, <1>14, QuietStep

LEMMA WriteCommandKeeps ==
  ASSUME LoadersInv, WriteCommand
  PROVE  LoadersInv'
<1>1. /\ pc = "command" /\ pc' = "data" /\ turns' = turns + 1 /\ loader \in {"geos", "mmzak"} /\ at' \in Addresses
      /\ c64' = Asks(<<>>, <<>>, "nothing")
      /\ UNCHANGED <<Fixed, pool, mine, Disk, file, first>> /\ error' = error /\ job' = job /\ faults' = faults
  BY DEF WriteCommand, Turn
<1>2. loader' = loader /\ store' = store
  BY <1>1 DEF Fixed, Disk
<1>3. loader \in Keeper /\ pc \in Served
  BY <1>1, TypedFacts, LoadersAssumption DEF Keeper, Loaders, Served
<1>4. c64' \in Computer /\ SameComputer /\ c64'.want = <<>> /\ c64'.heard = <<>>
  <2> DEFINE e == <<>>
  <2>1. e \in Seq(Int) /\ "nothing" \in Sayings /\ c64 \in Computer
    BY TypedFacts DEF Sayings
  <2>2. c64' = Asks(e, e, "nothing")
    BY <1>1
  <2> HIDE DEF e
  <2>3. AsksFor(c64', c64, e, e, "nothing")
    BY <2>1, <2>2, AsksIs
  <2>4. c64' \in Computer /\ SameComputer /\ c64'.want = e /\ c64'.heard = e
    BY <2>3, AskedSame
  <2>5. QED BY <2>4 DEF e
<1>5. Answered'
  <2>1. ToldTrue'
    BY <1>4 DEF ToldTrue
  <2>2. JobsDone'
    BY <1>1, <1>2 DEF JobsDone
  <2>3. OnDisks'
    BY <1>2, TypedFacts DEF OnDisks
  <2>4. loader \in {"geos", "wheels"} /\ loader \notin Tells => error = 0
    BY TypedFacts DEF Answered
  <2>5. QED BY <2>1, <2>2, <2>3, <2>4, <1>1, <1>2, <1>4 DEF Answered
<1>6. Addresses' = Addresses
  BY <1>2 DEF Addresses
<1>7. Placed'
  BY <1>1, <1>2, <1>6 DEF Placed
<1>8. at' \in Sectors \cup {0} /\ job' \in Sectors \cup {0} /\ turns' \in Nat
  BY <1>1, TypedFacts DEF Addresses, NoSector
<1>9. pc' \in Served \cup {"done"}
  BY <1>1 DEF Served
<1>10. QED BY <1>1, <1>3, <1>4, <1>5, <1>7, <1>8, <1>9, QuietStep

LEMMA DataArrivesKeeps ==
  ASSUME LoadersInv, DataArrives
  PROVE  LoadersInv'
<1>1. /\ pc = "data" /\ pc' = "command" /\ at' = 0
      /\ UNCHANGED Fixed /\ mine' = mine /\ image' = image /\ dir_changed' = dir_changed
      /\ file' = file /\ first' = first /\ job' = job /\ turns' = turns
  BY DEF DataArrives
<1>2. PICK x \in Sent : \E w \in write_sector(at, x) :
        /\ pool' = InBuffer(x) /\ store' = w.store
        /\ error' = w.error /\ faults' = w.faults
        /\ c64' = Asks(x, On(w.store, at), IF loader = "geos" THEN "nothing"
                                           ELSE IF w.error = 0 THEN "ok" ELSE "error")
  BY DEF DataArrives
<1>3. PICK w \in write_sector(at, x) :
        /\ pool' = InBuffer(x) /\ store' = w.store
        /\ error' = w.error /\ faults' = w.faults
        /\ c64' = Asks(x, On(w.store, at), IF loader = "geos" THEN "nothing"
                                           ELSE IF w.error = 0 THEN "ok" ELSE "error")
  BY <1>2
<1> DEFINE said == IF loader = "geos" THEN "nothing" ELSE IF w.error = 0 THEN "ok" ELSE "error"
<1>4. loader' = loader /\ loader \in {"geos", "mmzak"} /\ loader \in Loaders /\ Typed /\ Answered /\ OnDisks /\ at \in Addresses
  BY <1>1, TypedFacts DEF Fixed, Placed
<1>5. loader \in Keeper /\ pc \in Served
  BY <1>1, <1>4, LoadersAssumption DEF Keeper, Loaders, Served
<1>6. Kept
  BY <1>5, KeeperFacts
<1>7. /\ store' \in Disks /\ OnDisks' /\ w.error \in Nat /\ w.faults \in Nat
      /\ x \in Seq(Nat) /\ x \in Seq(Int) /\ On(w.store, at) \in Seq(Int)
      /\ w.error = 0 \/ loader \notin Tells => On(w.store, at) = x
      /\ loader \notin Tells => w.error = error
  BY <1>3, <1>4, WriteGives
<1>8. said \in Sayings /\ (said = "ok" => w.error = 0)
  BY DEF Sayings
<1>9. c64' = Asks(x, On(w.store, at), said)
  BY <1>3
<1> HIDE DEF said
<1>10. c64' \in Computer /\ SameComputer /\ c64'.want = x /\ c64'.heard = On(w.store, at) /\ c64'.said = said
  <2>1. c64 \in Computer
    BY TypedFacts
  <2>2. AsksFor(c64', c64, x, On(w.store, at), said)
    BY <2>1, <1>7, <1>8, <1>9, AsksIs
  <2>3. QED BY <2>2, AskedSame
<1>11. pool' \in Pools /\ SameHeads(pool, pool') /\ Data' = Data /\ pool'[Data].sector.bytes = x
  BY <1>1, <1>3, <1>4, <1>6, <1>7, InBufferKeeps
<1>12. Placed'
  BY <1>1, <1>4, <1>5 DEF Placed, Keeper
<1>13. Answered'
  <2>1. ToldTrue'
    BY <1>4, <1>7, <1>8, <1>10 DEF ToldTrue
  <2>2. JobsDone'
    BY <1>4 DEF JobsDone
  <2>3. error' = 0 \/ loader \notin Tells => c64'.heard \in {<<>>, c64'.want} /\ c64'.want = pool'[Data'].sector.bytes
    BY <1>3, <1>7, <1>10, <1>11
  <2>4. loader \in {"geos", "wheels"} /\ loader \notin Tells => error' = 0
    BY <1>3, <1>4, <1>7 DEF Answered
  <2>5. QED BY <2>1, <2>2, <2>3, <2>4, <1>1, <1>4, <1>7 DEF Answered
<1>14. first' \in BOOLEAN /\ at' \in Sectors \cup {0} /\ job' \in Sectors \cup {0} /\ dir_changed' \in BOOLEAN
       /\ turns' \in Nat /\ image' \in DOMAIN Images
  BY <1>1, TypedFacts
<1>15. error' \in Nat /\ faults' \in Nat
  BY <1>3, <1>7
<1>16. pc' \in Served \cup {"done"}
  BY <1>1 DEF Served
<1>17. QED BY <1>14, <1>15, <1>16, <1>1, <1>5, <1>7, <1>10, <1>11, <1>12, <1>13, KeeperStep

LEMMA NoDataArrivesKeeps ==
  ASSUME LoadersInv, AsUsed, NoDataArrives
  PROVE  LoadersInv'
<1>1. /\ pc = "data" /\ pc' = "done" /\ loader \in {"geos", "mmzak"} /\ at' = 0
      /\ UNCHANGED <<Fixed, pool, mine, file, first>> /\ image' = image /\ dir_changed' = dir_changed /\ error' = error
      /\ job' = job /\ c64' = c64 /\ turns' = turns /\ faults' = faults
  BY TypedFacts DEF NoDataArrives, Leave, Placed
<1>2. loader = "mmzak" /\ store' = store
  BY <1>1 DEF NoDataArrives, AsUsed
<1>3. UNCHANGED <<Fixed, pool, mine, Disk, file, first>> /\ loader' = loader
  BY <1>1, <1>2 DEF Disk, Fixed
<1>4. loader \in Keeper /\ pc \in Served
  BY <1>1, <1>2, TypedFacts, LoadersAssumption DEF Keeper, Loaders, Served
<1>5. c64' \in Computer /\ SameComputer
  BY <1>1, TypedFacts DEF SameComputer, SameFile
<1>6. Placed'
  BY <1>1, LeftFrame
<1>7. Answered'
  <2>1. ToldTrue'
    BY <1>1, <1>3, TypedFacts DEF ToldTrue
  <2>2. JobsDone'
    BY <1>1 DEF JobsDone
  <2>3. OnDisks'
    BY <1>2, TypedFacts DEF OnDisks
  <2>4. QED BY <2>1, <2>2, <2>3, <1>1, <1>2, <1>3 DEF Answered
<1>8. at' \in Sectors \cup {0} /\ job' \in Sectors \cup {0} /\ turns' \in Nat
  BY <1>1, TypedFacts
<1>9. pc' \in Served \cup {"done"}
  BY <1>1
<1>10. QED BY <1>1, <1>3, <1>4, <1>5, <1>6, <1>7, <1>8, <1>9, QuietStep

LEMMA ReadCommandKeeps ==
  ASSUME LoadersInv, ReadCommand
  PROVE  LoadersInv'
<1>1. /\ pc = "command" /\ turns' = turns + 1 /\ loader = "mmzak"
      /\ UNCHANGED Fixed /\ mine' = mine /\ image' = image /\ store' = store /\ dir_changed' = dir_changed
      /\ file' = file /\ first' = first /\ at' = at /\ job' = job
  BY DEF ReadCommand, Turn, Disk
<1>2. PICK s \in Addresses : \E q \in read_sector(s) :
        /\ pool' = [pool EXCEPT ![Data].sector = q.sector]
        /\ error' = q.error /\ faults' = q.faults
        /\ c64' = Asks(q.want, <<>>, IF q.error = 0 THEN "nothing" ELSE "error")
        /\ pc' = (IF q.error = 0 THEN "sending" ELSE "command")
  BY DEF ReadCommand
<1>3. PICK q \in read_sector(s) :
        /\ pool' = [pool EXCEPT ![Data].sector = q.sector]
        /\ error' = q.error /\ faults' = q.faults
        /\ c64' = Asks(q.want, <<>>, IF q.error = 0 THEN "nothing" ELSE "error")
        /\ pc' = (IF q.error = 0 THEN "sending" ELSE "command")
  BY <1>2
<1>4. loader' = loader /\ loader \in Loaders /\ Typed /\ Answered /\ Placed
  BY <1>1, TypedFacts DEF Fixed
<1>5. loader \in Keeper /\ pc \in Served
  BY <1>1, <1>4, LoadersAssumption DEF Keeper, Loaders, Served
<1>6. Kept /\ pool[Data].sector \in Link
  BY <1>5, KeeperFacts
<1>7. /\ q.sector \in Link /\ q.want \in Seq(Int) /\ q.error \in Nat /\ q.faults \in Nat
      /\ q.error = 0 \/ loader \notin Tells => q.want = q.sector.bytes
      /\ loader \notin Tells => q.error = error
  BY <1>4, <1>6, ReadGives
<1> DEFINE said == IF q.error = 0 THEN "nothing" ELSE "error"  none == <<>>
<1>8. said \in Sayings /\ none \in Seq(Int) /\ c64' = Asks(q.want, none, said)
  <2>1. said \in Sayings
    BY DEF Sayings
  <2>2. none \in Seq(Int)
    OBVIOUS
  <2>3. c64' = Asks(q.want, none, said)
    BY <1>3
  <2>4. QED BY <2>1, <2>2, <2>3
<1> HIDE DEF said, none
<1>9. c64' \in Computer /\ SameComputer /\ c64'.want = q.want /\ c64'.heard = none
  <2>1. c64 \in Computer
    BY TypedFacts
  <2>2. AsksFor(c64', c64, q.want, none, said)
    BY <2>1, <1>7, <1>8, AsksIs
  <2>3. QED BY <2>2, AskedSame
<1>10. pool' \in Pools /\ SameHeads(pool, pool') /\ Data' = Data /\ pool'[Data].sector = q.sector
  BY <1>1, <1>3, <1>4, <1>6, <1>7, InBufferIs
<1>11. pc' \in {"sending", "command"} /\ (pc' = "sending" => q.error = 0)
  BY <1>3
<1>12. Placed'
  BY <1>1, <1>4, <1>5, <1>11 DEF Placed, Keeper
<1>13. Answered'
  <2>1. ToldTrue'
    BY <1>9 DEF ToldTrue, none
  <2>2. JobsDone'
    BY <1>1, <1>4 DEF JobsDone
  <2>3. OnDisks'
    BY <1>1, TypedFacts DEF OnDisks
  <2>4. pc' = "sending" => c64'.want = pool'[Data'].sector.bytes
    BY <1>7, <1>9, <1>10, <1>11
  <2>5. QED BY <2>1, <2>2, <2>3, <2>4, <1>1, <1>4, <1>11 DEF Answered
<1>14. first' \in BOOLEAN /\ at' \in Sectors \cup {0} /\ job' \in Sectors \cup {0} /\ dir_changed' \in BOOLEAN
       /\ turns' \in Nat /\ image' \in DOMAIN Images /\ store' \in Disks
  BY <1>1, TypedFacts
<1>15. error' \in Nat /\ faults' \in Nat
  BY <1>3, <1>7
<1>16. pc' \in Served \cup {"done"}
  BY <1>11 DEF Served
<1>17. QED BY <1>14, <1>15, <1>16, <1>1, <1>5, <1>9, <1>10, <1>12, <1>13, KeeperStep

(* What mmzak sends in its own code is heard as it was.                      *)
LEMMA TakenKeeps ==
  ASSUME LoadersInv, Taken
  PROVE  LoadersInv'
<1>1. /\ pc = "sending" /\ pc' = "command" /\ loader = "mmzak"
      /\ UNCHANGED <<Fixed, pool, mine, Disk, file, first>> /\ error' = error /\ at' = at /\ job' = job
      /\ turns' = turns /\ faults' = faults
  BY TypedFacts DEF Taken, Placed
<1>2. pool' = pool /\ mine' = mine /\ loader' = loader /\ store' = store
  BY <1>1 DEF Fixed, Disk
<1>3. loader \in Keeper /\ pc \in Served
  BY <1>1, TypedFacts, LoadersAssumption DEF Keeper, Loaders, Served
<1> DEFINE x == pool[Data].sector.bytes
           m == Escaped(1, x) \o <<1, 129>>
           h == Unescaped(1, m)
<1>4. x \in Seq(Int) /\ x = c64.want
  <2>1. x \in Seq(Int)
    BY <1>3, KeeperFacts DEF Link
  <2>2. QED BY <2>1, <1>1, TypedFacts DEF Answered
<1>5. h = x
  <2>1. 1 \in Int /\ 129 \in Int /\ 129 # 1
    OBVIOUS
  <2> HIDE DEF x
  <2>2. QED BY <2>1, <1>4, HeardEscaped
<1>6. c64' = [c64 EXCEPT !.heard = h, !.said = "ok"]
  BY Zenon DEF Taken, h, m, x
<1> HIDE DEF x, m, h
<1>7. SaidOnly(c64', c64, h, "ok")
  <2>1. "ok" \in Sayings /\ c64 \in Computer /\ h \in Seq(Int)
    BY <1>4, <1>5, TypedFacts DEF Sayings
  <2>2. QED BY <2>1, <1>6, SaidIs
<1>8. c64' \in Computer /\ SameComputer /\ c64'.want = c64.want /\ c64'.heard = c64.want
  BY <1>4, <1>5, <1>7 DEF SaidOnly, SameComputer, SameFile
<1>9. Answered'
  <2>1. ToldTrue'
    BY <1>8 DEF ToldTrue
  <2>2. JobsDone'
    BY <1>1, <1>2 DEF JobsDone
  <2>3. OnDisks'
    BY <1>2, TypedFacts DEF OnDisks
  <2>4. QED BY <2>1, <2>2, <2>3, <1>1, <1>2 DEF Answered
<1>10. Placed'
  BY <1>1, <1>2, <1>3 DEF Placed, Keeper
<1>11. at' \in Sectors \cup {0} /\ job' \in Sectors \cup {0} /\ turns' \in Nat
  BY <1>1, TypedFacts
<1>12. pc' \in Served \cup {"done"}
  BY <1>1 DEF Served
<1>13. QED BY <1>1, <1>3, <1>8, <1>9, <1>10, <1>11, <1>12, QuietStep

LEMMA CheckChangeKeeps ==
  ASSUME LoadersInv, CheckChange
  PROVE  LoadersInv'
<1>1. /\ pc = "command" /\ pc' = "command" /\ turns' = turns + 1 /\ loader = "wheels" /\ dir_changed' = FALSE
      /\ c64' = [c64 EXCEPT !.changed = dir_changed]
      /\ UNCHANGED Fixed /\ pool' = pool /\ mine' = mine /\ image' = image /\ store' = store /\ error' = error
      /\ file' = file /\ first' = first /\ at' = at /\ job' = job /\ faults' = faults
  BY DEF CheckChange, Turn
<1>2. loader' = loader
  BY <1>1 DEF Fixed
<1>3. loader \in Keeper /\ pc \in Served
  BY <1>1, TypedFacts, LoadersAssumption DEF Keeper, Loaders, Served
<1>4. /\ c64' \in Computer /\ SameComputer
      /\ c64'.want = c64.want /\ c64'.heard = c64.heard /\ c64'.said = c64.said
  <2>1. c64 \in Computer /\ dir_changed \in BOOLEAN
    BY TypedFacts
  <2>2. QED BY <2>1, <1>1 DEF Computer, SameComputer, SameFile
<1>5. Data' = Data
  BY <1>1 DEF Data
<1>6. Answered'
  <2>1. ToldTrue'
    BY <1>2, <1>4, TypedFacts DEF ToldTrue
  <2>2. JobsDone'
    BY <1>1, <1>2 DEF JobsDone
  <2>3. OnDisks'
    BY <1>1, TypedFacts DEF OnDisks
  <2>4. QED BY <2>1, <2>2, <2>3, <1>1, <1>2, <1>4, <1>5, TypedFacts DEF Answered
<1>7. Placed'
  BY <1>1, <1>2, <1>3 DEF Placed, Keeper
<1>8. SameHeads(pool, pool')
  BY <1>1 DEF SameHeads
<1>9. /\ pool' \in Pools /\ error' \in Nat /\ faults' \in Nat /\ image' \in DOMAIN Images /\ store' \in Disks
      /\ first' \in BOOLEAN /\ at' \in Sectors \cup {0} /\ job' \in Sectors \cup {0} /\ dir_changed' \in BOOLEAN /\ turns' \in Nat
  <2>1. dir_changed' \in BOOLEAN
    BY <1>1
  <2>2. first' \in BOOLEAN
    BY <1>1, TypedFacts
  <2>3. QED BY <1>1, <2>1, <2>2, TypedFacts
<1>10. pc' \in Served \cup {"done"}
  BY <1>1 DEF Served
<1>11. QED BY <1>1, <1>3, <1>4, <1>6, <1>7, <1>8, <1>9, <1>10, KeeperStep

(* dreamload: a job, its answer, and that it is done.                        *)
LEMMA JobArrivesKeeps ==
  ASSUME LoadersInv, AsUsed, JobArrives
  PROVE  LoadersInv'
<1>1. /\ pc = "command" /\ pc' = pc /\ turns' = turns + 1 /\ loader = "dreamload" /\ job' \in Sectors
      /\ c64' = Asks(store[image][job'].bytes, <<>>, "nothing")
      /\ UNCHANGED <<Fixed, pool, mine, Disk, file, first>> /\ error' = error /\ at' = at /\ faults' = faults
  BY DEF JobArrives, AsUsed
<1>2. loader' = loader /\ store' = store
  BY <1>1 DEF Fixed, Disk
<1>3. loader \in Keeper /\ pc \in Served
  BY <1>1, TypedFacts, LoadersAssumption DEF Keeper, Loaders, Served
<1>4. c64' \in Computer /\ SameComputer /\ c64'.heard = <<>>
  <2> DEFINE e == <<>>  x == store[image][job'].bytes
  <2>1. e \in Seq(Int) /\ "nothing" \in Sayings /\ c64 \in Computer
    BY TypedFacts DEF Sayings
  <2>2. x \in Seq(Int)
    <3>1. \A q \in Sectors : store[image][q] \in Link
      BY TypedFacts, StoreIs
    <3>2. QED BY <3>1, <1>1 DEF Link
  <2>3. c64' = Asks(x, e, "nothing")
    BY <1>1
  <2> HIDE DEF e, x
  <2>4. AsksFor(c64', c64, x, e, "nothing")
    BY <2>1, <2>2, <2>3, AsksIs
  <2>5. c64' \in Computer /\ SameComputer /\ c64'.heard = e
    BY <2>4, AskedSame
  <2>6. QED BY <2>5 DEF e
<1>5. Answered'
  <2>1. ToldTrue'
    BY <1>4 DEF ToldTrue
  <2>2. JobsDone'
    BY <1>1, Cards DEF JobsDone
  <2>3. OnDisks'
    BY <1>2, TypedFacts DEF OnDisks
  <2>4. QED BY <2>1, <2>2, <2>3, <1>1, <1>2 DEF Answered
<1>6. Placed'
  BY <1>1, <1>2, <1>3 DEF Placed, Keeper
<1>7. at' \in Sectors \cup {0} /\ job' \in Sectors \cup {0} /\ turns' \in Nat
  BY <1>1, TypedFacts
<1>8. pc' \in Served \cup {"done"}
  BY <1>1 DEF Served
<1>9. QED BY <1>1, <1>3, <1>4, <1>5, <1>6, <1>7, <1>8, QuietStep

LEMMA DoJobKeeps ==
  ASSUME LoadersInv, DoJob
  PROVE  LoadersInv'
<1>1. /\ pc = "command" /\ pc' = "clear" /\ loader = "dreamload" /\ job # 0
      /\ UNCHANGED Fixed /\ mine' = mine /\ image' = image /\ store' = store /\ dir_changed' = dir_changed
      /\ file' = file /\ first' = first /\ at' = at /\ job' = job /\ turns' = turns
  BY DEF DoJob, Disk
<1>2. PICK q \in read_sector(job) :
        /\ pool' = [pool EXCEPT ![Data].sector = q.sector]
        /\ error' = q.error /\ faults' = q.faults
        /\ c64' = Asks(q.want, q.sector.bytes, "nothing")
  BY DEF DoJob
<1>3. loader' = loader /\ loader \in Loaders /\ Typed /\ Answered /\ Placed /\ job \in Addresses
  BY <1>1, TypedFacts DEF Fixed, Addresses
<1>4. loader \in Keeper /\ pc \in Served
  BY <1>1, <1>3, LoadersAssumption DEF Keeper, Loaders, Served
<1>5. Kept /\ pool[Data].sector \in Link
  BY <1>4, KeeperFacts
<1>6. /\ q.sector \in Link /\ q.want \in Seq(Int) /\ q.error \in Nat /\ q.faults \in Nat
      /\ q.error = 0 \/ loader \notin Tells => q.want = q.sector.bytes
      /\ loader \notin Tells => q.error = error
  BY <1>3, <1>5, ReadGives
<1>7. c64' \in Computer /\ SameComputer /\ c64'.want = q.want /\ c64'.heard = q.sector.bytes /\ c64'.said = "nothing"
  <2>1. c64 \in Computer /\ "nothing" \in Sayings /\ q.sector.bytes \in Seq(Int)
    BY <1>6, TypedFacts DEF Sayings, Link
  <2>2. AsksFor(c64', c64, q.want, q.sector.bytes, "nothing")
    BY <2>1, <1>2, <1>6, AsksIs
  <2>3. QED BY <2>2, AskedSame
<1>8. pool' \in Pools /\ SameHeads(pool, pool')
  BY <1>1, <1>2, <1>3, <1>5, <1>6, InBufferIs
<1>9. Placed'
  BY <1>1, <1>3 DEF Placed
<1>10. Answered'
  <2>1. ToldTrue'
    BY <1>3, <1>6, <1>7 DEF ToldTrue
  <2>2. JobsDone'
    BY <1>1 DEF JobsDone
  <2>3. OnDisks'
    BY <1>1, TypedFacts DEF OnDisks
  <2>4. QED BY <2>1, <2>2, <2>3, <1>1, <1>3, <1>6, <1>7 DEF Answered
<1>11. first' \in BOOLEAN /\ at' \in Sectors \cup {0} /\ job' \in Sectors \cup {0} /\ dir_changed' \in BOOLEAN
       /\ turns' \in Nat /\ image' \in DOMAIN Images /\ store' \in Disks
  BY <1>1, TypedFacts
<1>12. error' \in Nat /\ faults' \in Nat
  BY <1>2, <1>6
<1>13. pc' \in Served \cup {"done"}
  BY <1>1 DEF Served
<1>14. QED BY <1>11, <1>12, <1>13, <1>1, <1>4, <1>7, <1>8, <1>9, <1>10, KeeperStep

LEMMA ClearJobKeeps ==
  ASSUME LoadersInv, ClearJob
  PROVE  LoadersInv'
<1>1. /\ pc = "clear" /\ pc' = "command" /\ loader = "dreamload" /\ job' = 0
      /\ UNCHANGED <<Fixed, pool, mine, Disk, file, first>> /\ error' = error /\ at' = at /\ c64' = c64
      /\ turns' = turns /\ faults' = faults
  BY TypedFacts DEF ClearJob, Placed
<1>2. loader' = loader /\ store' = store
  BY <1>1 DEF Fixed, Disk
<1>3. loader \in Keeper /\ pc \in Served
  BY <1>1, TypedFacts, LoadersAssumption DEF Keeper, Loaders, Served
<1>4. c64' \in Computer /\ SameComputer
  BY <1>1, TypedFacts DEF SameComputer, SameFile
<1>5. Answered'
  <2>1. ToldTrue'
    BY <1>1, <1>2, TypedFacts DEF ToldTrue
  <2>2. JobsDone'
    BY <1>1, <1>2, TypedFacts DEF JobsDone, Answered
  <2>3. OnDisks'
    BY <1>2, TypedFacts DEF OnDisks
  <2>4. QED BY <2>1, <2>2, <2>3, <1>1, <1>2 DEF Answered
<1>6. Placed'
  BY <1>1, <1>2, <1>3 DEF Placed, Keeper
<1>7. at' \in Sectors \cup {0} /\ job' \in Sectors \cup {0} /\ turns' \in Nat
  BY <1>1, TypedFacts
<1>8. pc' \in Served \cup {"done"}
  BY <1>1 DEF Served
<1>9. QED BY <1>1, <1>3, <1>4, <1>5, <1>6, <1>7, <1>8, QuietStep
-----------------------------------------------------------------------------
(***************************************************************************)
(* Coming and going.                                                       *)
(***************************************************************************)
(* A handler that returns, when the file is as it was for the computer.      *)
LEMMA ReturnStep ==
  ASSUME LoadersInv, UNCHANGED Fixed, pc' \in {"done", "over"}, pool' \in Pools, mine' \subseteq Slot,
         error' = error, UNCHANGED Disk, first' \in BOOLEAN, at' \in Sectors \cup {0}, job' = job,
         c64' = c64, turns' \in Nat, faults' = faults,
         file' \in Seq(Nat), file' = file \/ ~c64.saved
  PROVE  LoadersInv'
<1>1. loader' = loader /\ driver' = driver /\ image' = image /\ store' = store /\ dir_changed' = dir_changed
  BY DEF Fixed, Disk
<1>2. Typed'
  BY <1>1, TypedFacts DEF Typed, Pools
<1>3. Owned' /\ Placed'
  BY LeftFrame
<1>4. Sending'
  BY <1>1, TypedFacts, SendingFrame DEF SameFile
<1>5. Saving'
  BY <1>1, TypedFacts DEF Saving
<1>6. Answered'
  <2>1. ToldTrue'
    BY <1>1, TypedFacts DEF ToldTrue
  <2>2. JobsDone'
    BY DEF JobsDone
  <2>3. OnDisks'
    BY <1>1, TypedFacts DEF OnDisks
  <2>4. QED BY <2>1, <2>2, <2>3, <1>1, TypedFacts DEF Answered
<1>7. QED BY <1>2, <1>3, <1>4, <1>5, <1>6 DEF LoadersInv

LEMMA ReturnsKeep ==
  ASSUME LoadersInv, Sweep \/ GoAway \/ NipponOutOfStep \/ ChainAborted
  PROVE  LoadersInv'
<1>1. /\ UNCHANGED Fixed /\ pc' \in {"done", "over"} /\ error' = error /\ UNCHANGED Disk /\ first' = first
      /\ at' = at /\ job' = job /\ c64' = c64 /\ faults' = faults /\ file' = file
  BY DEF Sweep, GoAway, NipponOutOfStep, ChainAborted, Leave
<1>2. pool' \in Pools
  <2>1. pool' = pool \/ \E S : pool' = FreedSlots(pool, S)
    BY DEF Sweep, GoAway, NipponOutOfStep, ChainAborted
  <2>2. QED BY <2>1, TypedFacts, FreedIs
<1>3. mine' = mine \/ mine' = {}
  BY DEF Sweep, GoAway, NipponOutOfStep, ChainAborted
<1>4. turns' \in Nat
  BY TypedFacts DEF Sweep, GoAway, NipponOutOfStep, ChainAborted, Turn
<1>5. QED BY <1>1, <1>2, <1>3, <1>4, TypedFacts, ReturnStep

LEMMA StartCommandsKeeps ==
  ASSUME LoadersInv, StartCommands
  PROVE  LoadersInv'
<1>1. /\ pc = "start" /\ pc' = "command" /\ loader \in ByName \cup {"eload", "uload3"}
      /\ loader' = loader /\ driver' = driver /\ pool' = pool /\ mine' = mine /\ error' = error
      /\ image' = image /\ store' = store /\ dir_changed' = dir_changed /\ file' = file /\ first' = first
      /\ at' = at /\ job' = job /\ c64' = c64 /\ turns' = turns /\ faults' = faults
  BY DEF StartCommands, Fixed, Disk
<1>2. Typed'
  BY <1>1, TypedFacts DEF Typed
<1>3. loader = "uload3" => loader \in SectorLoaders
  BY TypedFacts, LoadersAssumption DEF Loaders
<1>4. Placed'
  BY <1>1, <1>3 DEF Placed
<1>5. Owned'
  <2>1. mine' = {}
    BY <1>1, TypedFacts DEF Owned
  <2>2. loader \notin Keeper
    BY <1>1, Kinds DEF Keeper
  <2>3. QED BY <1>1, <2>1, <2>2 DEF Owned, Served
<1>6. Sending'
  <2>1. CASE loader = "eload"
    <3>1. loader \in FileLoaders \ ByName
      BY <2>1, TypedFacts, LoadersAssumption DEF Loaders, ByName
    <3>2. Unheard
      BY <1>1, <3>1, TypedFacts DEF Sending
    <3>3. Unheard'
      BY <1>1, <3>2 DEF Unheard
    <3>4. Begins(c64)' /\ (c64.verdict = "complete" => c64.got = c64.text)'
      BY <1>1, TypedFacts DEF Sending
    <3>5. QED BY <1>1, <3>1, <3>3, <3>4 DEF Sending
  <2>2. CASE loader # "eload"
    BY <1>1, <2>2, TypedFacts, SendingFrame DEF SameFile
  <2>3. QED BY <2>1, <2>2
<1>7. Saving'
  BY <1>1, TypedFacts, SavingFrame DEF SameSave
<1>8. Answered'
  <2>1. c64.want = <<>> /\ c64.heard = <<>> /\ job = 0
    BY <1>1, TypedFacts DEF Answered
  <2>2. loader \notin {"geos", "wheels"}
    BY <1>1 DEF ByName
  <2>3. ToldTrue' /\ JobsDone'
    BY <1>1, <2>1 DEF ToldTrue, JobsDone
  <2>4. OnDisks'
    BY <1>1, TypedFacts DEF OnDisks
  <2>5. QED BY <1>1, <2>2, <2>3, <2>4 DEF Answered
<1>9. QED BY <1>2, <1>4, <1>5, <1>6, <1>7, <1>8 DEF LoadersInv

(* A key: mount_line takes no buffer of the system.                         *)
LEMMA KeyPressedKeeps ==
  ASSUME LoadersInv, AsUsed, KeyPressed
  PROVE  LoadersInv'
<1> DEFINE p == FreedSlots(pool, User(pool))
<1>1. /\ loader' = loader /\ driver' = driver /\ pc' = pc /\ mine' = mine /\ file' = file /\ first' = first
      /\ at' = at /\ job' = job /\ c64' = c64 /\ faults' = faults /\ store' = store
      /\ turns' = turns + 1 /\ error' = 0 /\ dir_changed' = TRUE
      /\ image' = (image % Len(Images)) + 1 /\ pool' = Allocated(p, 0, "list")
      /\ Waits
  BY DEF KeyPressed, Fixed
<1>2. /\ pc \in {"command", "data", "sending"}
      /\ \/ pc = "command" /\ loader \in ByName
         \/ loader \in {"geos", "wheels", "nippon", "dreamload", "mmzak"} /\ error = 0
      /\ loader = "dreamload" => job = 0
  BY <1>1 DEF Waits, AsUsed, ByName
<1>3. p \in Pools /\ \A s \in Slot : s \notin User(pool) => p[s] = pool[s]
  BY TypedFacts, FreedIs
<1> HIDE DEF p
<1>4. pool' \in Pools /\ \A s \in Slot : p[s].allocated => pool'[s] = p[s]
  <2>1. 0 \in Nat /\ "list" \in Whats
    BY DEF Whats
  <2>2. QED BY <2>1, <1>1, <1>3, AllocatedIs
<1>5. \A s \in Slot : pool[s].allocated /\ pool[s].secondary = System => pool'[s] = pool[s]
  <2>1. \A s \in Slot : pool[s].secondary = System => s \notin User(pool)
    BY DEF User, System
  <2>2. QED BY <2>1, <1>3, <1>4
<1>6. image' \in DOMAIN Images
  BY <1>1, TypedFacts, Cards, SMTT(30)
<1>7. Typed'
  <2>1. dir_changed' \in BOOLEAN
    BY <1>1
  <2>2. c64' \in Computer /\ first' \in BOOLEAN /\ pool' \in [Slot -> Buffer]
    BY <1>1, <1>4, TypedFacts DEF Pools
  <2>3. QED BY <1>1, <1>6, <2>1, <2>2, TypedFacts DEF Typed
<1>8. Addresses' = Addresses
  BY <1>1 DEF Addresses
<1>9. Placed'
  BY <1>1, <1>8, TypedFacts DEF Placed
<1>10. Sending'
  <2>1. loader # "eload"
    BY <1>2 DEF ByName
  <2>2. QED BY <1>1, <1>2, <2>1, TypedFacts, SendingFrame DEF SameFile
<1>11. Saving'
  BY <1>1, <1>2, TypedFacts, SavingFrame DEF SameSave
<1>12. CASE pc = "command" /\ loader \in ByName
  <2>1. Owned'
    BY <1>1, <1>12, Kinds, TypedFacts DEF Owned, Served, Keeper
  <2>2. Answered'
    <3>1. loader \notin SectorLoaders
      BY <1>12, Kinds
    <3>2. QED BY <1>1, <1>12, <3>1, TypedFacts, AnsweredFrame
  <2>3. QED BY <2>1, <2>2, <1>7, <1>9, <1>10, <1>11 DEF LoadersInv
<1>13. CASE loader \in {"geos", "wheels", "nippon", "dreamload", "mmzak"} /\ error = 0
  <2>1. loader \in Keeper /\ pc \in Served /\ loader # "geos_s1"
    BY <1>2, <1>13, TypedFacts, LoadersAssumption DEF Keeper, Loaders, Served
  <2>2. Kept /\ Typed
    BY <2>1, KeeperFacts, TypedFacts
  <2>3. \A s \in mine : pool'[s] = pool[s]
    BY <1>5, <2>1, <2>2, TypedFacts DEF Kept
  <2>4. Kept'
    BY <1>1, <2>2, <2>3 DEF Kept
  <2>5. Owned'
    <3>1. pc' \notin {"start", "block", "save"} /\ loader \in SectorLoaders /\ loader # "uload3"
      BY <1>1, <1>2, <2>1 DEF Keeper
    <3>2. QED BY <1>1, <2>4, <3>1 DEF Owned
  <2>6. Data \in mine
    BY <2>2, DataIs
  <2>7. Data' = Data /\ pool'[Data] = pool[Data]
    <3>1. \A s \in mine : pool'[s].what # "command" <=> pool[s].what # "command"
      BY <2>3
    <3>2. PICK s \in mine : \A t \in mine : pool[t].what # "command" <=> t = s
      BY <2>2 DEF Kept
    <3>3. Data = s
      BY <3>2 DEF Data
    <3>4. Data' = s
      BY <1>1, <3>1, <3>2 DEF Data
    <3>5. QED BY <3>3, <3>4, <2>3
  <2>8. Answered'
    <3>1. ToldTrue'
      BY <1>1, TypedFacts DEF ToldTrue
    <3>2. JobsDone'
      BY <1>1, TypedFacts DEF JobsDone
    <3>3. OnDisks'
      BY <1>1, TypedFacts DEF OnDisks
    <3>4. QED BY <1>1, <1>2, <1>13, <2>7, <3>1, <3>2, <3>3, TypedFacts DEF Answered
  <2>9. QED BY <2>5, <2>8, <1>7, <1>9, <1>10, <1>11 DEF LoadersInv
<1>14. QED BY <1>2, <1>12, <1>13

LEMMA NewSector ==
  ASSUME NEW p \in Pools, \A s \in Slot : p[s].what # "sector", NEW sec \in Nat,
         NEW q, q = Allocated(p, sec, "sector")
  PROVE  /\ q \in Pools
         /\ (\E s \in Slot : q[s].what = "sector") =>
              /\ FreeSlot(p) \in Slot /\ ~p[FreeSlot(p)].allocated /\ q[FreeSlot(p)] = New(sec, "sector")
              /\ \A t \in Slot : t # FreeSlot(p) => q[t] = p[t]
<1>1. "sector" \in Whats
  BY DEF Whats
<1>2. /\ q \in Pools
      /\ FreeSlot(p) = 0 => q = p
      /\ FreeSlot(p) # 0 =>
           /\ FreeSlot(p) \in Slot /\ ~p[FreeSlot(p)].allocated
           /\ q[FreeSlot(p)] = New(sec, "sector")
           /\ \A s \in Slot : s # FreeSlot(p) => q[s] = p[s]
  BY <1>1, AllocatedIs
<1>3. QED BY <1>2

LEMMA NewCommand ==
  ASSUME NEW p \in Pools, \A s \in Slot : p[s].what \notin {"sector", "command"},
         NEW q, q = Allocated(p, System, "command")
  PROVE  /\ q \in Pools /\ \A s \in Slot : q[s].what # "sector"
         /\ \A s \in Slot : q[s].what = "command" => q[s].allocated /\ q[s].secondary = System
<1>1. "command" \in Whats /\ System \in Nat
  BY DEF Whats, System
<1>2. /\ q \in Pools
      /\ FreeSlot(p) = 0 => q = p
      /\ FreeSlot(p) # 0 =>
           /\ FreeSlot(p) \in Slot /\ ~p[FreeSlot(p)].allocated
           /\ q[FreeSlot(p)] = New(System, "command")
           /\ \A s \in Slot : s # FreeSlot(p) => q[s] = p[s]
  BY <1>1, AllocatedIs
<1>3. New(System, "command").allocated /\ New(System, "command").secondary = System /\ New(System, "command").what = "command"
  BY <1>1, NewIs
<1>4. QED BY <1>2, <1>3

LEMMA StartSectorsKeeps ==
  ASSUME LoadersInv, StartSectors
  PROVE  LoadersInv'
<1>1. /\ pc = "start" /\ loader \in SectorLoaders /\ loader # "uload3" /\ UNCHANGED Fixed
      /\ pool' = start_buffers /\ mine' = {s \in Slot : pool'[s].what \in {"command", "sector"}}
      /\ error' = error /\ image' = image /\ store' = store /\ dir_changed' = dir_changed
      /\ file' = file /\ first' = first /\ job' = job /\ c64' = c64 /\ turns' = turns /\ faults' = faults
      /\ UNCHANGED Disk
  BY DEF StartSectors, Disk
<1>2. loader' = loader /\ loader \in Keeper
  BY <1>1 DEF Fixed, Keeper
<1>3. \A s \in Slot : pool[s].what \notin {"sector", "command"}
  BY <1>1, TypedFacts DEF Owned
<1> DEFINE p == IF loader = "geos" THEN Allocated(pool, System, "command") ELSE pool
           sec == IF loader = "geos_s1" THEN 0 ELSE System
<1>4. sec \in Nat /\ (loader # "geos_s1" => sec = System)
  BY DEF System
<1>5. /\ p \in Pools /\ \A s \in Slot : p[s].what # "sector"
      /\ \A s \in Slot : p[s].what = "command" => p[s].allocated /\ p[s].secondary = System
  <2>1. CASE loader = "geos"
    <3>1. p = Allocated(pool, System, "command")
      BY <2>1
    <3> HIDE DEF p
    <3>2. QED BY <3>1, <1>3, TypedFacts, NewCommand
  <2>2. CASE loader # "geos"
    <3>1. p = pool
      BY <2>2
    <3> HIDE DEF p
    <3>2. QED BY <3>1, <1>3, TypedFacts
  <2>3. QED BY <2>1, <2>2
<1>6. pool' = Allocated(p, sec, "sector")
  <2>1. CASE loader = "geos"
    <3>1. p = Allocated(pool, System, "command") /\ sec = System
      BY <2>1
    <3> HIDE DEF p, sec
    <3>2. QED BY <2>1, <3>1, <1>1, Zenon DEF start_buffers, alloc_system_buffer
  <2>2. CASE loader = "geos_s1"
    <3>1. p = pool /\ sec = 0 /\ loader # "geos"
      BY <2>2
    <3> HIDE DEF p, sec
    <3>2. QED BY <2>2, <3>1, <1>1, Zenon DEF start_buffers, alloc_buffer
  <2>3. CASE loader # "geos" /\ loader # "geos_s1"
    <3>1. p = pool /\ sec = System
      BY <2>3
    <3> HIDE DEF p, sec
    <3>2. QED BY <2>3, <3>1, <1>1, Zenon DEF start_buffers, alloc_system_buffer
  <2>4. QED BY <2>1, <2>2, <2>3
<1> HIDE DEF p, sec
<1> DEFINE a == FreeSlot(p)
<1>7. /\ pool' \in Pools
      /\ (\E s \in Slot : pool'[s].what = "sector") =>
           /\ a \in Slot /\ ~p[a].allocated /\ pool'[a] = New(sec, "sector")
           /\ \A t \in Slot : t # a => pool'[t] = p[t]
  BY <1>4, <1>5, <1>6, NewSector
<1> HIDE DEF a
<1>8. mine' \subseteq Slot
  BY <1>1
<1>9. CASE pc' = "done" /\ at' = at
  BY <1>1, <1>7, <1>8, <1>9, TypedFacts, ReturnStep
<1>10. CASE \E s \in mine' : pool'[s].what = "sector"
  <2>1. a \in Slot /\ pool'[a] = New(sec, "sector") /\ \A t \in Slot : t # a => pool'[t] = p[t]
    BY <1>7, <1>8, <1>10
  <2>2. /\ pool'[a].allocated /\ pool'[a].secondary = sec /\ pool'[a].what = "sector" /\ pool'[a].sector = Nobody
    <3>1. "sector" \in Whats
      BY DEF Whats
    <3>2. QED BY <2>1, <3>1, <1>4, NewIs
  <2>3. \A t \in mine' : t = a \/ (t # a /\ pool'[t].what = "command" /\ pool'[t].allocated /\ pool'[t].secondary = System)
    BY <1>1, <1>5, <2>1
  <2>4. a \in mine'
    BY <1>1, <2>1, <2>2
  <2>5. Kept'
    <3>1. \A t \in mine' : pool'[t].allocated /\ pool'[t].what \in {"sector", "command"} /\ (loader # "geos_s1" => pool'[t].secondary = System)
      BY <1>4, <2>2, <2>3
    <3>2. \A t \in mine' : pool'[t].what # "command" <=> t = a
      BY <2>2, <2>3
    <3>3. QED BY <1>2, <2>4, <3>1, <3>2 DEF Kept
  <2>6. Data' = a
    <3>1. \A t \in mine' : pool'[t].what # "command" <=> t = a
      BY <2>2, <2>3
    <3>2. QED BY <2>4, <3>1 DEF Data
  <2>7. pool'[Data'].sector.bytes = <<>>
    BY <2>2, <2>6 DEF Nobody
  <2>8. (IF loader = "geos_s1" THEN pc' = "chain" /\ at' = 1 ELSE pc' = "command" /\ at' = at)
    <3>1. \A s \in mine' : pool'[s].what # "sector" => FALSE \/ s # a
      BY <2>2
    <3>2. ~\A s \in mine' : pool'[s].what # "sector"
      BY <1>10
    <3>3. QED BY <3>2 DEF StartSectors
  <2>9. pc' \in Served \cup {"done", "over"} /\ pc' \in {"chain", "command"}
    BY <2>8 DEF Served
  <2>10. Placed'
    <3>1. 1 \in Addresses'
      BY Cards DEF Addresses
    <3>2. QED BY <3>1, <1>1, <1>2, <2>8 DEF Placed
  <2>11. Owned'
    BY <1>2, <2>5, <2>9 DEF Owned, Keeper
  <2>12. Answered'
    <3>1. c64.want = <<>> /\ c64.heard = <<>> /\ job = 0
      BY <1>1, TypedFacts DEF Answered
    <3>2. ToldTrue' /\ JobsDone'
      BY <1>1, <3>1 DEF ToldTrue, JobsDone
    <3>3. OnDisks'
      BY <1>1, TypedFacts DEF OnDisks
    <3>4. loader \in {"geos", "wheels"} /\ loader \notin Tells => error' = 0
      BY <1>1, TypedFacts DEF Answered
    <3>5. QED BY <1>1, <1>2, <2>7, <2>9, <3>1, <3>2, <3>3, <3>4 DEF Answered
  <2>13. at' \in Sectors \cup {0}
    BY <2>8, TypedFacts, Cards
  <2>14. Typed'
    <3>1. /\ error' \in Nat /\ image' \in DOMAIN Images /\ store' \in Disks /\ first' \in BOOLEAN
          /\ job' \in Sectors \cup {0} /\ dir_changed' \in BOOLEAN /\ c64' \in Computer /\ turns' \in Nat /\ faults' \in Nat
      BY <1>1, TypedFacts
    <3>2. QED BY <3>1, <1>1, <1>7, <1>8, <2>9, <2>13, TypedFacts, SectorTyped
  <2>15. SameComputer
    BY <1>1 DEF SameComputer, SameFile
  <2>16. QED BY <1>1, <2>9, <2>10, <2>11, <2>12, <2>14, <2>15, SectorStep
<1>11. QED BY <1>9, <1>10 DEF StartSectors, Leave
-----------------------------------------------------------------------------
(***************************************************************************)
(* Chains of sectors.                                                      *)
(***************************************************************************)
LEMMA PooledIs ==
  ASSUME Typed, Kept \/ One("sector"), NEW v \in Link, NEW p, p = [pool EXCEPT ![Data].sector = v]
  PROVE  p \in Pools /\ SameHeads(pool, p)
<1>1. Data \in Slot /\ pool[Data] \in Buffer /\ pool \in [Slot -> Buffer]
  BY DataIs DEF Typed
<1> DEFINE b == [pool[Data] EXCEPT !.sector = v]
<1>2. b \in Buffer /\ b.allocated = pool[Data].allocated /\ b.secondary = pool[Data].secondary /\ b.what = pool[Data].what
  BY <1>1 DEF Buffer, Link
<1>3. p = [pool EXCEPT ![Data] = b]
  BY Zenon DEF b
<1> HIDE DEF b
<1>4. p \in Pools /\ p[Data] = b /\ \A s \in Slot : s # Data => p[s] = pool[s]
  BY <1>1, <1>2, <1>3 DEF Pools
<1>5. QED BY <1>2, <1>4 DEF SameHeads

LEMMA UloadStep ==
  ASSUME LoadersInv, loader = "uload3", UNCHANGED Fixed, image' = image, dir_changed' = dir_changed, file' = file,
         job' = job, pc' \in {"chain", "command"}, pool' \in Pools, mine' \subseteq Slot,
         IF pc' = "chain" THEN One("sector")' /\ at' \in Addresses ELSE mine' = {},
         error' \in Nat, store' \in Disks, OnDisks', first' \in BOOLEAN, at' \in Sectors \cup {0},
         turns' \in Nat, faults' \in Nat,
         NEW want, NEW heard, NEW said, AsksFor(c64', c64, want, heard, said),
         (said = "ok" \/ loader \notin Tells) /\ heard # <<>> => heard = want
  PROVE  LoadersInv'
<1>1. loader' = loader /\ loader \in SectorLoaders /\ loader \notin Keeper
  BY TypedFacts, LoadersAssumption DEF Fixed, Loaders, Keeper
<1>2. c64' \in Computer /\ SameComputer /\ c64'.want = want /\ c64'.heard = heard /\ c64'.said = said
  BY AskedSame
<1>3. pc' \in Served \cup {"done", "over"}
  BY DEF Served
<1>4. Typed'
  BY <1>2, <1>3, TypedFacts, SectorTyped
<1>5. Addresses' = Addresses
  BY <1>1 DEF Addresses
<1>6. Placed'
  BY <1>1, <1>5 DEF Placed
<1>7. Owned'
  BY <1>1, <1>3 DEF Owned
<1>8. Answered'
  <2>1. ToldTrue' /\ JobsDone'
    BY <1>1, <1>2 DEF ToldTrue, JobsDone
  <2>2. QED BY <1>1, <2>1 DEF Answered
<1>9. QED BY <1>1, <1>2, <1>3, <1>4, <1>6, <1>7, <1>8, SectorStep

LEMMA StartChainKeeps ==
  ASSUME LoadersInv, StartChain
  PROVE  LoadersInv'
<1>1. /\ pc = "command" /\ turns' = turns + 1 /\ loader = "uload3" /\ UNCHANGED Fixed /\ image' = image
      /\ store' = store /\ dir_changed' = dir_changed /\ file' = file /\ job' = job /\ faults' = faults
  BY DEF StartChain, Turn, Disk
<1>2. mine = {}
  BY <1>1, TypedFacts, LoadersAssumption DEF Owned, Served, Loaders
<1> DEFINE none == <<>>
<1>3. none \in Seq(Int) /\ "error" \in Sayings /\ "nothing" \in Sayings
  BY DEF Sayings
<1>4. OnDisks'
  BY <1>1, TypedFacts DEF OnDisks
<1>5. CASE FreeSlot(pool) = 0
  <2>1. error' = 70 /\ c64' = Asks(none, none, "error") /\ pc' = pc /\ pool' = pool /\ mine' = mine /\ at' = at /\ first' = first
    BY <1>5 DEF StartChain
  <2> HIDE DEF none
  <2>2. AsksFor(c64', c64, none, none, "error")
    BY <2>1, <1>3, TypedFacts, AsksIs
  <2>3. error' \in Nat /\ turns' \in Nat /\ first' \in BOOLEAN /\ pool' \in Pools /\ at' \in Sectors \cup {0} /\ faults' \in Nat /\ store' \in Disks
    BY <1>1, <2>1, TypedFacts
  <2>4. mine' \subseteq Slot
    BY <2>1, TypedFacts
  <2>5. QED BY <1>1, <1>2, <1>4, <2>1, <2>2, <2>3, <2>4, UloadStep
<1>6. CASE FreeSlot(pool) # 0
  <2> DEFINE a == FreeSlot(pool)
  <2>1. /\ pool' = Allocated(pool, 0, "sector") /\ mine' = {a} /\ at' \in Addresses /\ first' \in BOOLEAN
        /\ pc' = "chain" /\ c64' = Asks(none, none, "nothing") /\ error' = error
    BY <1>6 DEF StartChain, alloc_buffer
  <2> HIDE DEF none
  <2>2. AsksFor(c64', c64, none, none, "nothing")
    BY <2>1, <1>3, TypedFacts, AsksIs
  <2>3. pool' \in Pools /\ a \in Slot /\ pool'[a] = New(0, "sector")
    <3>1. 0 \in Nat /\ "sector" \in Whats
      BY DEF Whats
    <3>2. QED BY <1>6, <2>1, <3>1, TypedFacts, AllocatedIs
  <2>4. pool'[a].allocated /\ pool'[a].what = "sector"
    <3>1. 0 \in Nat /\ "sector" \in Whats
      BY DEF Whats
    <3>2. QED BY <2>3, <3>1, NewIs
  <2> HIDE DEF a
  <2>5. One("sector")'
    BY <2>1, <2>3, <2>4 DEF One
  <2>6. at' \in Sectors \cup {0}
    BY <2>1 DEF Addresses, NoSector
  <2>7. mine' \subseteq Slot
    BY <2>1, <2>3
  <2>8. error' \in Nat /\ turns' \in Nat /\ faults' \in Nat /\ store' \in Disks
    BY <1>1, <2>1, TypedFacts
  <2>9. none = <<>>
    BY DEF none
  <2>10. QED BY <1>1, <1>4, <2>1, <2>2, <2>3, <2>5, <2>6, <2>7, <2>8, <2>9, UloadStep
<1>7. QED BY <1>5, <1>6

(* The next sector of a chain, or its end.                                  *)
LEMMA FollowIs ==
  ASSUME Typed, One("sector"), loader = "uload3", pc = "chain", NEW v \in Link,
         Follow([pool EXCEPT ![Data].sector = v], v.next)
  PROVE  /\ pool' \in Pools /\ mine' \subseteq Slot /\ at' \in Sectors \cup {0} /\ pc' \in {"chain", "command"}
         /\ IF pc' = "chain" THEN One("sector")' /\ at' \in Addresses ELSE mine' = {}
<1> DEFINE p == [pool EXCEPT ![Data].sector = v]
<1>1. p \in Pools /\ SameHeads(pool, p)
  BY PooledIs
<1>2. at' = v.next /\ v.next \in Sectors \cup {0}
  BY DEF Follow, Link
<1>3. IF v.next = 0 THEN pc' = "command" /\ pool' = FreedSlots(p, mine) /\ mine' = {}
      ELSE pool' = p /\ pc' = pc /\ mine' = mine
  BY DEF Follow
<1> HIDE DEF p
<1>4. CASE v.next = 0
  <2>1. pc' = "command" /\ pool' = FreedSlots(p, mine) /\ mine' = {}
    BY <1>3, <1>4
  <2>2. pool' \in Pools
    BY <2>1, <1>1, FreedIs
  <2>3. QED BY <2>1, <2>2, <1>2
<1>5. CASE v.next # 0
  <2>1. pool' = p /\ pc' = "chain" /\ mine' = mine
    BY <1>3, <1>5
  <2>2. at' \in Addresses
    BY <1>2, <1>5 DEF Addresses
  <2>3. One("sector")'
    BY <1>1, <2>1 DEF One, SameHeads
  <2>4. mine' \subseteq Slot
    BY <2>1 DEF Typed
  <2>5. QED BY <2>1, <2>2, <2>3, <2>4, <1>1, <1>2
<1>6. QED BY <1>4, <1>5

LEMMA ChainLoadKeeps ==
  ASSUME LoadersInv, ChainLoad
  PROVE  LoadersInv'
<1>1. /\ pc = "chain" /\ loader = "uload3" /\ UNCHANGED Fixed /\ image' = image /\ store' = store /\ dir_changed' = dir_changed
      /\ file' = file /\ first' = first /\ job' = job /\ turns' = turns
  BY DEF ChainLoad, Disk
<1>2. One("sector") /\ at \in Addresses
  BY <1>1, TypedFacts, LoadersAssumption DEF Owned, Served, Loaders, Placed
<1>3. PICK q \in read_sector(at) :
       /\ error' = q.error /\ faults' = q.faults
       /\ IF uload3_checks(q)
          THEN pc' = "command" /\ mine' = {} /\ c64' = Asks(q.want, <<>>, "error") /\ UNCHANGED <<pool, at>>
          ELSE /\ Follow([pool EXCEPT ![Data].sector = q.sector], q.sector.next)
               /\ c64' = Asks(q.want, q.sector.bytes, "ok")
  BY DEF ChainLoad
<1>4. pool[Data].sector \in Link
  BY <1>2, TypedFacts, DataIs DEF Buffer, Link
<1>5. /\ q.sector \in Link /\ q.want \in Seq(Int) /\ q.error \in Nat /\ q.faults \in Nat
      /\ q.error = 0 \/ loader \notin Tells => q.want = q.sector.bytes
  BY <1>2, <1>4, TypedFacts, ReadGives
<1>6. OnDisks' /\ store' \in Disks
  BY <1>1, TypedFacts DEF OnDisks
<1>7. error' \in Nat /\ faults' \in Nat /\ turns' \in Nat /\ first' \in BOOLEAN
  BY <1>1, <1>3, <1>5, TypedFacts
<1>8. CASE uload3_checks(q)
  <2> DEFINE none == <<>>
  <2>1. none \in Seq(Int) /\ "error" \in Sayings
    BY DEF Sayings
  <2>2. pc' = "command" /\ mine' = {} /\ c64' = Asks(q.want, none, "error") /\ pool' = pool /\ at' = at
    BY <1>3, <1>8
  <2> HIDE DEF none
  <2>3. AsksFor(c64', c64, q.want, none, "error")
    BY <1>5, <2>1, <2>2, TypedFacts, AsksIs
  <2>4. none = <<>>
    BY DEF none
  <2>5. pool' \in Pools /\ mine' \subseteq Slot /\ at' \in Sectors \cup {0}
    BY <2>2, TypedFacts
  <2>6. QED BY <1>1, <1>6, <1>7, <2>2, <2>3, <2>4, <2>5, UloadStep
<1>9. CASE ~uload3_checks(q)
  <2>1. q.error = 0 /\ q.want = q.sector.bytes
    BY <1>5, <1>9 DEF uload3_checks
  <2>2. Follow([pool EXCEPT ![Data].sector = q.sector], q.sector.next) /\ c64' = Asks(q.want, q.sector.bytes, "ok")
    BY <1>3, <1>9
  <2>3. AsksFor(c64', c64, q.want, q.sector.bytes, "ok")
    <3>1. "ok" \in Sayings /\ q.sector.bytes \in Seq(Int)
      BY <1>5 DEF Sayings, Link
    <3>2. QED BY <1>5, <2>2, <3>1, TypedFacts, AsksIs
  <2>4. /\ pool' \in Pools /\ mine' \subseteq Slot /\ at' \in Sectors \cup {0} /\ pc' \in {"chain", "command"}
        /\ IF pc' = "chain" THEN One("sector")' /\ at' \in Addresses ELSE mine' = {}
    BY <1>1, <1>2, <1>5, <2>2, TypedFacts, FollowIs
  <2>5. QED BY <1>1, <1>6, <1>7, <2>1, <2>3, <2>4, UloadStep
<1>10. QED BY <1>8, <1>9

LEMMA ChainSaveKeeps ==
  ASSUME LoadersInv, ChainSave
  PROVE  LoadersInv'
<1>1. /\ pc = "chain" /\ loader = "uload3" /\ UNCHANGED Fixed /\ image' = image /\ dir_changed' = dir_changed
      /\ file' = file /\ first' = first /\ job' = job /\ turns' = turns
  BY DEF ChainSave
<1>2. One("sector") /\ at \in Addresses
  BY <1>1, TypedFacts, LoadersAssumption DEF Owned, Served, Loaders, Placed
<1>3. PICK q \in read_sector(at), x \in Sent :
       IF uload3_checks(q)
       THEN /\ error' = q.error /\ faults' = q.faults
            /\ pc' = "command" /\ mine' = {} /\ c64' = Asks(<<>>, <<>>, "error")
            /\ UNCHANGED <<pool, at, store>>
       ELSE \E w \in write_sector(at, x) :
            /\ error' = w.error /\ faults' = w.faults /\ store' = w.store
            /\ IF uload3_checks(w)
               THEN pc' = "command" /\ mine' = {} /\ c64' = Asks(x, <<>>, "error") /\ UNCHANGED <<pool, at>>
               ELSE /\ Follow([pool EXCEPT ![Data].sector = [q.sector EXCEPT !.bytes = x]], q.sector.next)
                    /\ c64' = Asks(x, On(w.store, at), "ok")
  BY DEF ChainSave
<1>4. pool[Data].sector \in Link
  BY <1>2, TypedFacts, DataIs DEF Buffer, Link
<1>5. q.sector \in Link /\ q.error \in Nat /\ q.faults \in Nat
  BY <1>2, <1>4, TypedFacts, ReadGives
<1>6. turns' \in Nat /\ first' \in BOOLEAN
  BY <1>1, TypedFacts
<1> DEFINE none == <<>>
<1>7. none \in Seq(Int) /\ none = <<>> /\ "error" \in Sayings /\ "ok" \in Sayings
  BY DEF Sayings
<1>8. CASE uload3_checks(q)
  <2>1. /\ error' = q.error /\ faults' = q.faults /\ pc' = "command" /\ mine' = {} /\ c64' = Asks(none, none, "error")
        /\ pool' = pool /\ at' = at /\ store' = store
    BY <1>3, <1>8
  <2> HIDE DEF none
  <2>2. AsksFor(c64', c64, none, none, "error")
    BY <1>7, <2>1, TypedFacts, AsksIs
  <2>3. OnDisks' /\ store' \in Disks
    BY <2>1, TypedFacts DEF OnDisks
  <2>4. pool' \in Pools /\ mine' \subseteq Slot /\ at' \in Sectors \cup {0} /\ error' \in Nat /\ faults' \in Nat
    BY <1>5, <2>1, TypedFacts
  <2>5. QED BY <1>1, <1>6, <1>7, <2>1, <2>2, <2>3, <2>4, UloadStep
<1>9. CASE ~uload3_checks(q)
  <2>1. PICK w \in write_sector(at, x) :
          /\ error' = w.error /\ faults' = w.faults /\ store' = w.store
          /\ IF uload3_checks(w)
             THEN pc' = "command" /\ mine' = {} /\ c64' = Asks(x, none, "error") /\ UNCHANGED <<pool, at>>
             ELSE /\ Follow([pool EXCEPT ![Data].sector = [q.sector EXCEPT !.bytes = x]], q.sector.next)
                  /\ c64' = Asks(x, On(w.store, at), "ok")
    BY <1>3, <1>9
  <2> HIDE DEF none
  <2>2. /\ store' \in Disks /\ OnDisks' /\ w.error \in Nat /\ w.faults \in Nat
        /\ x \in Seq(Nat) /\ x \in Seq(Int) /\ On(w.store, at) \in Seq(Int)
        /\ w.error = 0 \/ loader \notin Tells => On(w.store, at) = x
    BY <1>2, <2>1, TypedFacts, WriteGives
  <2>3. error' \in Nat /\ faults' \in Nat
    BY <2>1, <2>2
  <2>4. CASE uload3_checks(w)
    <3>1. pc' = "command" /\ mine' = {} /\ c64' = Asks(x, none, "error") /\ pool' = pool /\ at' = at
      BY <2>1, <2>4
    <3>2. AsksFor(c64', c64, x, none, "error")
      BY <1>7, <2>2, <3>1, TypedFacts, AsksIs
    <3>3. pool' \in Pools /\ mine' \subseteq Slot /\ at' \in Sectors \cup {0}
      BY <3>1, TypedFacts
    <3>4. QED BY <1>1, <1>6, <1>7, <2>2, <2>3, <3>1, <3>2, <3>3, UloadStep
  <2>5. CASE ~uload3_checks(w)
    <3> DEFINE v == [q.sector EXCEPT !.bytes = x]
    <3>1. v \in Link /\ v.next = q.sector.next
      BY <1>5, <2>2 DEF Link
    <3>2. Follow([pool EXCEPT ![Data].sector = v], q.sector.next) /\ c64' = Asks(x, On(w.store, at), "ok")
      BY <2>1, <2>5
    <3> HIDE DEF v
    <3>3. Follow([pool EXCEPT ![Data].sector = v], v.next)
      BY <3>1, <3>2
    <3>4. /\ pool' \in Pools /\ mine' \subseteq Slot /\ at' \in Sectors \cup {0} /\ pc' \in {"chain", "command"}
          /\ IF pc' = "chain" THEN One("sector")' /\ at' \in Addresses ELSE mine' = {}
      BY <1>1, <1>2, <3>1, <3>3, TypedFacts, FollowIs
    <3>5. AsksFor(c64', c64, x, On(w.store, at), "ok")
      BY <1>7, <2>2, <3>2, TypedFacts, AsksIs
    <3>6. On(w.store, at) = x
      BY <2>2, <2>5 DEF uload3_checks
    <3>7. QED BY <1>1, <1>6, <2>2, <2>3, <3>4, <3>5, <3>6, UloadStep
  <2>6. QED BY <2>4, <2>5
<1>10. QED BY <1>8, <1>9

(* A chain of GEOS, with the key or without.                                *)
LEMMA DecryptedIs ==
  ASSUME NEW s \in Seq(Int)
  PROVE  Decrypted(s) \in Seq(Int)
<1>1. DOMAIN s = 1 .. Len(s) /\ Len(s) \in Nat /\ \A i \in 1 .. Len(s) : s[i] \in Int
  OBVIOUS
<1>2. \A i \in 1 .. Len(s) : 255 - s[i] \in Int
  BY <1>1
<1>3. Decrypted(s) = [i \in 1 .. Len(s) |-> 255 - s[i]]
  BY <1>1 DEF Decrypted
<1>4. [i \in 1 .. Len(s) |-> 255 - s[i]] \in Seq(Int)
  BY <1>1, <1>2, IsASeq
<1>5. QED BY <1>3, <1>4

Clear(s) == IF first THEN s ELSE Decrypted(s)

LEMMA SendChainKeeps ==
  ASSUME LoadersInv, SendChain
  PROVE  LoadersInv'
<1>1. /\ pc = "chain" /\ loader = "geos_s1" /\ UNCHANGED Fixed /\ mine' = mine /\ UNCHANGED Disk
      /\ image' = image /\ store' = store /\ dir_changed' = dir_changed /\ file' = file /\ job' = job
  BY DEF SendChain, Disk
<1>2. loader' = loader /\ loader \in Keeper /\ pc \in Served /\ loader \in SectorLoaders
  BY <1>1, TypedFacts, LoadersAssumption DEF Fixed, Keeper, Loaders, Served
<1>3. at \in Addresses
  BY <1>1, TypedFacts DEF Placed
<1>4. Kept /\ Data \in Slot /\ pool[Data].sector \in Link /\ pool \in Pools
  BY <1>2, KeeperFacts
<1>5. PICK q \in read_sector(at) :
        /\ error' = q.error /\ faults' = q.faults
        /\ pool' = [pool EXCEPT ![Data].sector = [q.sector EXCEPT !.bytes = Clear(@)]]
        /\ c64' = Asks(Clear(q.want), Clear(q.sector.bytes), "nothing")
        /\ IF q.sector.next # 0 THEN at' = q.sector.next /\ UNCHANGED <<pc, first, turns>>
           ELSE IF turns + 1 < Len(Chains)
           THEN at' = Chains[turns + 2] /\ turns' = turns + 1 /\ first' = FALSE /\ UNCHANGED pc
           ELSE Leave /\ UNCHANGED <<at, first, turns>>
  BY DEF SendChain, Clear
<1>6. /\ q.sector \in Link /\ q.want \in Seq(Int) /\ q.error \in Nat /\ q.faults \in Nat
      /\ q.error = 0 \/ loader \notin Tells => q.want = q.sector.bytes
  BY <1>3, <1>4, TypedFacts, ReadGives
<1> DEFINE want == Clear(q.want)  heard == Clear(q.sector.bytes)  v == [q.sector EXCEPT !.bytes = heard]
<1>7. want \in Seq(Int) /\ heard \in Seq(Int) /\ "nothing" \in Sayings /\ (loader \notin Tells => heard = want)
  <2>1. q.sector.bytes \in Seq(Int)
    BY <1>6 DEF Link
  <2>2. QED BY <2>1, <1>6, DecryptedIs DEF Clear, Sayings
<1> HIDE DEF want, heard
<1>8. v \in Link
  BY <1>6, <1>7 DEF Link
<1>9. pool' = [pool EXCEPT ![Data].sector = v]
  BY <1>5 DEF heard
<1> HIDE DEF v
<1>10. pool' \in Pools /\ SameHeads(pool, pool')
  BY <1>1, <1>4, <1>8, <1>9, TypedFacts, InBufferIs
<1>11. c64' \in Computer /\ SameComputer /\ c64'.want = want /\ c64'.heard = heard /\ c64'.said = "nothing"
  <2>1. AsksFor(c64', c64, want, heard, "nothing")
    <3>1. c64' = Asks(want, heard, "nothing")
      BY <1>5 DEF want, heard
    <3>2. QED BY <1>7, <3>1, TypedFacts, AsksIs
  <2>2. QED BY <2>1, AskedSame
<1>12. /\ pc' \in {"chain", "done"} /\ first' \in BOOLEAN /\ turns' \in Nat
       /\ at' \in Sectors \cup {0} /\ (pc' = "chain" => at' \in Addresses)
  <2>1. CASE q.sector.next # 0
    <3>1. at' = q.sector.next /\ pc' = pc /\ first' = first /\ turns' = turns
      BY <1>5, <2>1
    <3>2. q.sector.next \in Sectors
      BY <1>6, <2>1 DEF Link
    <3>3. QED BY <3>1, <3>2, <1>1, TypedFacts DEF Addresses
  <2>2. CASE q.sector.next = 0 /\ turns + 1 < Len(Chains)
    <3>1. at' = Chains[turns + 2] /\ turns' = turns + 1 /\ first' = FALSE /\ pc' = pc
      BY <1>5, <2>2
    <3>2. first' \in BOOLEAN
      BY <3>1
    <3>3. turns \in Nat
      BY TypedFacts
    <3>4. at' \in Sectors
      <4>1. CASE Len(Images[1]) > 1
        <5>1. Chains = <<1, 2>> /\ 1 \in Sectors /\ 2 \in Sectors
          BY <4>1, Cards DEF Chains
        <5>2. turns + 2 = 2
          BY <5>1, <2>2, <3>3
        <5>3. QED BY <5>1, <5>2, <3>1
      <4>2. CASE ~(Len(Images[1]) > 1)
        <5>1. Chains = <<1, 1>> /\ 1 \in Sectors
          BY <4>2, Cards DEF Chains
        <5>2. turns + 2 = 2
          BY <5>1, <2>2, <3>3
        <5>3. QED BY <5>1, <5>2, <3>1
      <4>3. QED BY <4>1, <4>2
    <3>5. QED BY <3>1, <3>2, <3>3, <3>4, <1>1 DEF Addresses
  <2>3. CASE q.sector.next = 0 /\ ~(turns + 1 < Len(Chains))
    <3>1. pc' = "done" /\ at' = at /\ first' = first /\ turns' = turns
      BY <1>5, <2>3 DEF Leave
    <3>2. QED BY <3>1, TypedFacts
  <2>4. QED BY <2>1, <2>2, <2>3
<1>13. Placed'
  <2>1. Addresses' = Addresses
    BY <1>2 DEF Addresses
  <2>2. QED BY <2>1, <1>1, <1>2, <1>12 DEF Placed
<1>14. Answered'
  <2>1. ToldTrue' /\ JobsDone'
    BY <1>1, <1>2, <1>7, <1>11 DEF ToldTrue, JobsDone
  <2>2. OnDisks'
    BY <1>1, TypedFacts DEF OnDisks
  <2>3. QED BY <1>1, <1>2, <1>12, <2>1, <2>2 DEF Answered
<1>15. QED
  <2>1. job' \in Sectors \cup {0} /\ dir_changed' \in BOOLEAN /\ image' \in DOMAIN Images /\ store' \in Disks
    BY <1>1, TypedFacts
  <2>2. error' \in Nat /\ faults' \in Nat
    BY <1>5, <1>6
  <2>3. pc' \in Served \cup {"done"}
    BY <1>12 DEF Served
  <2>4. QED BY <2>1, <2>2, <2>3, <1>1, <1>2, <1>10, <1>11, <1>12, <1>13, <1>14, KeeperStep
-----------------------------------------------------------------------------
(***************************************************************************)
(* Loaders that send a file.                                               *)
(***************************************************************************)
SameAnswer == c64'.heard = <<>> \/ (c64'.heard = c64.heard /\ c64'.want = c64.want /\ c64'.said = c64.said)

LEMMA HandlerStep ==
  ASSUME LoadersInv, loader \notin SectorLoaders, UNCHANGED Fixed, UNCHANGED Disk, at' = at, job' = job,
         pc' \in {"command", "block", "save", "done"},
         pc' = "command" => loader \in ByName \cup {"eload"},
         pc' = "block" => loader \in FileLoaders, pc' = "save" => loader \in Savers,
         pool' \in Pools, mine' \subseteq Slot, IF pc' \in {"block", "save"} THEN One("file")' ELSE mine' = {},
         error' \in Nat, file' \in Seq(Nat), first' \in BOOLEAN, turns' \in Nat, faults' \in Nat,
         c64' \in Computer, SameAnswer, Sending', Saving'
  PROVE  LoadersInv'
<1>1. loader' = loader /\ driver' = driver /\ image' = image /\ store' = store /\ dir_changed' = dir_changed
  BY DEF Fixed, Disk
<1>2. Typed'
  BY <1>1, TypedFacts DEF Typed, Pools
<1>3. Placed'
  BY <1>1 DEF Placed
<1>4. Owned'
  <2>1. loader \notin Keeper
    BY DEF Keeper
  <2>2. QED BY <1>1, <2>1 DEF Owned, Served
<1>5. Answered'
  BY <1>1, TypedFacts, AnsweredFrame DEF SameAnswer
<1>6. QED BY <1>2, <1>3, <1>4, <1>5 DEF LoadersInv

(* The file for the computer, after a step of a loader that sends it.        *)
LEMMA SendingIs ==
  ASSUME loader' = loader, loader \in FileLoaders, pc' # "start", Begins(c64'),
         c64'.verdict = "complete" => c64'.got = c64'.text,
         loader = "eload" /\ pc' = "command" => c64'.verdict # "none",
         pc' = "block" =>
           \E b \in Slot : /\ mine' = {b} /\ c64'.verdict # "complete"
                           /\ Reading(pool'[b], c64') \/ (loader = "n0sdos" /\ Len(c64'.got) >= Len(c64'.text))
                           /\ loader = "turbodisk" /\ first' => pool'[b].lastused > 2
  PROVE  Sending'
<1>1. Begins(c64)' /\ (c64.verdict = "complete" => c64.got = c64.text)'
  OBVIOUS
<1>2. ASSUME pc' = "block"
      PROVE  /\ c64'.verdict # "complete"
             /\ \A b \in mine' : Reading(pool'[b], c64') \/ (loader = "n0sdos" /\ Len(c64'.got) >= Len(c64'.text))
             /\ loader = "turbodisk" /\ first' => \A b \in mine' : pool'[b].lastused > 2
  BY <1>2
<1>3. QED BY <1>1, <1>2 DEF Sending

LEMMA SavingRest ==
  ASSUME Saving, loader' = loader, file' = file, pc' \notin {"start", "save"},
         ~c64'.saved \/ (c64'.saved = c64.saved /\ c64'.text = c64.text)
  PROVE  Saving'
BY DEF Saving

(* A file that is open and of which nothing was sent.                        *)
LEMMA BeginBlocks ==
  ASSUME LoadersInv, loader \in FileLoaders \ ByName, Unheard, UNCHANGED Fixed, UNCHANGED Disk,
         pool' = pool, error' = error, file' = file, first' = first, at' = at, job' = job, faults' = faults,
         turns' \in Nat, NEW e, Marks(e, "error"),
         IF find_buffer(pool, 0) = 0
         THEN pc' = "done" /\ mine' = {} /\ c64' = Told(c64, e)
         ELSE pc' = "block" /\ mine' = {find_buffer(pool, 0)} /\ c64' = c64
  PROVE  LoadersInv'
<1> DEFINE b == find_buffer(pool, 0)
<1>1. loader' = loader /\ loader \in FileLoaders /\ loader \notin SectorLoaders /\ loader # "turbodisk"
  BY Kinds DEF Fixed, ByName
<1>2. c64.got = <<>> /\ c64.verdict = "none" /\ Begins(c64) /\ c64 \in Computer
  BY TypedFacts DEF Unheard, Sending
<1>3. pool' \in Pools /\ error' \in Nat /\ file' \in Seq(Nat) /\ first' \in BOOLEAN /\ faults' \in Nat
  BY TypedFacts
<1>4. CASE b = 0
  <2>1. pc' = "done" /\ mine' = {} /\ c64' = Told(c64, e)
    BY <1>4
  <2>2. SameElse(c64', c64) /\ c64'.got = c64.got /\ c64'.verdict \in {c64.verdict, "error"}
    <3>1. "error" \in Verdicts
      BY DEF Verdicts
    <3>2. QED BY <1>2, <2>1, <3>1, MarkedIs
  <2>3. Begins(c64') /\ c64'.verdict # "complete"
    BY <1>2, <2>2 DEF Begins, SameElse
  <2>4. Sending'
    BY <1>1, <2>1, <2>3, SendingIs
  <2>5. Saving'
    BY <1>1, <2>1, <2>2, TypedFacts, SavingRest DEF SameElse
  <2>6. c64' \in Computer /\ SameAnswer
    BY <2>2 DEF SameElse, SameAnswer
  <2>7. QED BY <1>1, <1>3, <2>1, <2>4, <2>5, <2>6, HandlerStep
<1>5. CASE b # 0
  <2>1. pc' = "block" /\ mine' = {b} /\ c64' = c64
    BY <1>5
  <2>2. b \in Slot /\ pool[b].allocated /\ pool[b].secondary = 0
    BY <1>5, FoundIs
  <2> HIDE DEF b
  <2>3. pool[b].what = "file" /\ Reading(pool[b], c64)
    BY <2>2 DEF Unheard
  <2>4. One("file")'
    BY <2>1, <2>2, <2>3 DEF One
  <2>5. Sending'
    BY <1>1, <1>2, <2>1, <2>2, <2>3, SendingIs
  <2>6. Saving'
    BY <1>1, <2>1, TypedFacts, SavingRest
  <2>7. c64' \in Computer /\ SameAnswer /\ mine' \subseteq Slot
    BY <1>2, <2>1, <2>2 DEF SameAnswer
  <2>8. QED BY <1>1, <1>3, <2>1, <2>4, <2>5, <2>6, <2>7, HandlerStep
<1>6. QED BY <1>4, <1>5

LEMMA LoadChannelKeeps ==
  ASSUME LoadersInv, LoadChannel
  PROVE  LoadersInv'
<1>1. /\ pc = "command" /\ turns' = turns + 1 /\ loader = "eload" /\ c64.verdict = "none" /\ UNCHANGED Fixed /\ UNCHANGED Disk
      /\ pool' = pool /\ error' = error /\ file' = file /\ first' = first /\ at' = at /\ job' = job /\ faults' = faults
  BY DEF LoadChannel, Turn
<1>2. loader \in FileLoaders \ ByName /\ Unheard
  <2>1. loader \in FileLoaders \ ByName
    BY <1>1, TypedFacts, LoadersAssumption DEF Loaders, ByName
  <2>2. QED BY <1>1, <2>1, TypedFacts DEF Sending
<1>3. Marks(eload_error, "error")
  BY <1>1, ErrorIs
<1>4. IF find_buffer(pool, 0) = 0
      THEN pc' = "done" /\ mine' = {} /\ c64' = Told(c64, eload_error)
      ELSE pc' = "block" /\ mine' = {find_buffer(pool, 0)} /\ c64' = c64
  BY DEF LoadChannel, Leave
<1>5. turns' \in Nat
  BY <1>1, TypedFacts
<1>6. QED BY <1>1, <1>2, <1>3, <1>4, <1>5, BeginBlocks

(* A new file is empty, and all of the computer's is still to come.          *)
LEMMA FreshIs ==
  ASSUME Typed, NEW b \in Slot, pool'[b] \in Buffer, Fresh(pool'[b]), file' = <<>>,
         c64'.left = c64'.text, c64'.text # <<>>, c64' \in Computer, ~c64'.saved
  PROVE  /\ Writing(pool'[b]) /\ c64'.text = Content([b |-> pool'[b], file |-> file']) \o c64'.left
         /\ driver' = "d64" /\ End(pool'[b]) = 2 /\ pool'[b].lastused = 2 => c64'.left # <<>>
<1>1. End(pool'[b]) = 2 /\ pool'[b].position = 2 /\ pool'[b].lastused = 2 /\ ~pool'[b].mustflush
  BY DEF Fresh, End
<1>2. Writing(pool'[b])
  BY <1>1 DEF Writing
<1> DEFINE s == Bytes(pool'[b], 2, 2 - 1)
<1>3. s \in Seq(Nat) /\ Len(s) = IF (2 - 1) - 2 + 1 < 0 THEN 0 ELSE (2 - 1) - 2 + 1
  BY BytesAre
<1> HIDE DEF s
<1>4. s = <<>>
  BY <1>3
<1>5. Content([b |-> pool'[b], file |-> file']) = file' \o s
  <2>1. Content([b |-> pool'[b], file |-> file']) = file' \o Bytes(pool'[b], 2, End(pool'[b]) - 1)
    BY DEF Content
  <2>2. QED BY <2>1, <1>1 DEF s
<1>6. <<>> \o s = <<>> /\ c64'.text \in Seq(Nat)
  <2>1. s \in Seq(Nat) /\ c64'.text \in Seq(Nat)
    BY <1>3 DEF Computer
  <2>2. <<>> \o s = s
    BY <2>1, ConcatEmptySeq
  <2>3. QED BY <2>1, <2>2, <1>4
<1>7. <<>> \o c64'.text = c64'.text
  BY <1>6, ConcatEmptySeq
<1>8. QED BY <1>2, <1>5, <1>6, <1>7

LEMMA StartOnChannelKeeps ==
  ASSUME LoadersInv, StartOnChannel
  PROVE  LoadersInv'
<1>1. /\ pc = "start" /\ loader \in (FileLoaders \cup Savers) \ (ByName \cup {"eload"}) /\ UNCHANGED Fixed /\ UNCHANGED Disk
      /\ pool' = pool /\ error' = error /\ file' = file /\ first' = first /\ at' = at /\ job' = job /\ turns' = turns
      /\ faults' = faults
  BY DEF StartOnChannel
<1>2. turns' \in Nat /\ loader' = loader
  BY <1>1, TypedFacts DEF Fixed
<1>3. CASE loader \in FileLoaders
  <2>1. loader \in FileLoaders \ ByName /\ loader \notin Savers
    BY <1>1, <1>3, Kinds
  <2>2. Unheard
    BY <1>1, <2>1, TypedFacts DEF Sending
  <2>3. Marks(WhenThereIsNone, "error")
    BY <2>1, ErrorIs
  <2>4. IF find_buffer(pool, 0) = 0
        THEN pc' = "done" /\ mine' = {} /\ c64' = Told(c64, WhenThereIsNone)
        ELSE pc' = "block" /\ mine' = {find_buffer(pool, 0)} /\ c64' = c64
    BY <2>1 DEF StartOnChannel, Leave
  <2>5. QED BY <1>1, <1>2, <2>1, <2>2, <2>3, <2>4, BeginBlocks
<1>4. CASE loader \in Savers
  <2> DEFINE b == find_buffer(pool, 1)
  <2>1. loader \in Savers \ ByName /\ loader \notin FileLoaders /\ loader \notin SectorLoaders
    BY <1>1, <1>4, Kinds
  <2>2. /\ file = <<>> /\ c64.left = c64.text /\ c64.text # <<>> /\ ~c64.saved
        /\ \A s \in Slot : pool[s].allocated /\ pool[s].secondary = 1 => Fresh(pool[s])
    BY <1>1, <2>1, TypedFacts DEF Saving
  <2>3. /\ c64' = c64
        /\ IF b = 0 THEN pc' = "done" /\ mine' = {} ELSE pc' = "save" /\ mine' = {b}
    BY <2>1 DEF StartOnChannel, Leave, Told
  <2>4. pc' # "block" /\ pc' \in {"save", "done"}
    BY <2>3
  <2>5. Sending'
    BY <1>1, <1>2, <2>1, <2>3, <2>4, TypedFacts, SendingFrame DEF SameFile
  <2>6. pool' \in Pools /\ error' \in Nat /\ file' \in Seq(Nat) /\ first' \in BOOLEAN /\ faults' \in Nat /\ c64' \in Computer /\ SameAnswer
    BY <1>1, <2>3, TypedFacts DEF SameAnswer
  <2>7. CASE b = 0
    <3>1. pc' = "done" /\ mine' = {}
      BY <2>3, <2>7
    <3>2. Saving'
      BY <1>1, <1>2, <2>3, <3>1, TypedFacts, SavingRest
    <3>3. QED BY <1>1, <1>2, <2>1, <2>5, <2>6, <3>1, <3>2, HandlerStep
  <2>8. CASE b # 0
    <3>1. pc' = "save" /\ mine' = {b}
      BY <2>3, <2>8
    <3> HIDE DEF b
    <3>2. PICK a \in Slot : a = b /\ pool[a].allocated /\ pool[a].secondary = 1
      BY <2>8, FoundIs DEF b
    <3>3. Fresh(pool'[a]) /\ pool'[a] \in Buffer
      BY <1>1, <2>2, <2>6, <3>2 DEF Pools
    <3>4. /\ Writing(pool'[a]) /\ c64'.text = Content([b |-> pool'[a], file |-> file']) \o c64'.left
          /\ driver' = "d64" /\ End(pool'[a]) = 2 /\ pool'[a].lastused = 2 => c64'.left # <<>>
      BY <1>1, <2>2, <2>3, <2>6, <3>2, <3>3, TypedFacts, FreshIs
    <3>5. Saving'
      BY <2>2, <2>3, <3>1, <3>2, <3>4 DEF Saving, Writer
    <3>6. One("file")'
      BY <1>1, <3>1, <3>2, <3>3 DEF One, Fresh
    <3>7. mine' \subseteq Slot
      BY <3>1, <3>2
    <3>8. QED BY <1>1, <1>2, <1>4, <2>1, <2>5, <2>6, <3>1, <3>5, <3>6, <3>7, HandlerStep
  <2>9. QED BY <2>7, <2>8
<1>5. QED BY <1>1, <1>3, <1>4

(* file_open by name: what was on the channel is closed first.               *)
LEMMA NameIs ==
  ASSUME LoadersInv, NEW sec
  PROVE  Name(sec) \in Pools
BY TypedFacts, FreedIs DEF Name

LEMMA NoFileYetIs ==
  /\ NoFileYet \in Computer /\ NoFileYet.text = <<>> /\ NoFileYet.got = <<>> /\ NoFileYet.verdict = "none"
  /\ NoFileYet.left = <<>> /\ ~NoFileYet.saved /\ NoFileYet.heard = <<>>
<1>1. <<>> \in Seq(Nat) /\ <<>> \in Seq(Int) /\ Nobody.bytes = <<>>
  BY DEF Nobody
<1> DEFINE w == Nobody.bytes
<1>2. NoFileYet = [text |-> <<>>, got |-> <<>>, verdict |-> "none", left |-> <<>>, saved |-> FALSE,
                   want |-> w, heard |-> w, said |-> "nothing", changed |-> FALSE]
  BY Zenon DEF NoFileYet
<1> HIDE DEF w
<1>3. w \in Seq(Int) /\ w = <<>>
  BY <1>1 DEF w
<1>4. QED BY <1>1, <1>2, <1>3 DEF Computer

Named(t, l)  == [NoFileYet EXCEPT !.text = t, !.left = l]
Judged(v) == [NoFileYet EXCEPT !.verdict = v]

LEMMA NamedIs ==
  ASSUME NEW t \in Seq(Nat), NEW l \in Seq(Nat), NEW v \in Judgements
  PROVE  /\ Named(t, l) \in Computer /\ Named(t, l).text = t /\ Named(t, l).got = <<>> /\ Named(t, l).verdict = "none"
         /\ Named(t, l).left = l /\ ~Named(t, l).saved /\ Named(t, l).heard = <<>>
         /\ Judged(v) \in Computer /\ Judged(v).text = <<>> /\ Judged(v).got = <<>> /\ Judged(v).verdict = v
         /\ ~Judged(v).saved /\ Judged(v).heard = <<>>
<1> DEFINE c == NoFileYet
<1>1. /\ c \in Computer /\ c.text = <<>> /\ c.got = <<>> /\ c.verdict = "none"
      /\ c.left = <<>> /\ ~c.saved /\ c.heard = <<>>
  BY NoFileYetIs
<1>2. Named(t, l) = [c EXCEPT !.text = t, !.left = l] /\ Judged(v) = [c EXCEPT !.verdict = v]
  BY DEF Named, Judged
<1> HIDE DEF c
<1>3. QED BY <1>1, <1>2 DEF Computer, Judgements

LEMMA TextsAre ==
  ASSUME NEW t \in Texts
  PROVE  t \in Seq(Nat) /\ t # <<>> /\ Len(t) \in Nat /\ Len(t) > 0
<1>1. t \in Seq(Nat) /\ t # <<>>
  BY LoadersAssumption
<1>2. QED BY <1>1

LEMMA LoadByNameKeeps ==
  ASSUME LoadersInv, LoadByName
  PROVE  LoadersInv'
<1>1. /\ pc = "command" /\ turns' = turns + 1 /\ loader \in FileLoaders /\ loader \in ByName /\ UNCHANGED Fixed /\ UNCHANGED Disk
      /\ pc' = "block" /\ error' = 0 /\ first' = TRUE /\ file' = file /\ at' = at /\ job' = job /\ faults' = faults
      /\ FreeSlot(Name(0)) # 0
  BY DEF LoadByName, Turn
<1>2. PICK t \in Texts :
       /\ loader = "turbodisk" => Len(t) > 1
       /\ pool' = OpenFile(Name(0), 0, t) /\ mine' = {FreeSlot(Name(0))}
       /\ c64' = [NoFileYet EXCEPT !.text = t]
  BY DEF LoadByName
<1>3. t \in Seq(Nat) /\ t # <<>> /\ Len(t) \in Nat /\ Len(t) > 0
  BY TextsAre
<1>4. c64' = Named(t, <<>>)
  BY <1>2, NoFileYetIs DEF Named, NoFileYet
<1>5. c64' \in Computer /\ c64'.text = t /\ c64'.got = <<>> /\ c64'.verdict = "none" /\ ~c64'.saved /\ c64'.heard = <<>>
  <2>1. <<>> \in Seq(Nat) /\ "none" \in Judgements
    BY DEF Judgements
  <2>2. QED BY <2>1, <1>3, <1>4, NamedIs
<1>6. PICK s \in Slot : s = FreeSlot(Name(0))
  BY <1>1, FreeSlotIs
<1>7. /\ pool' \in Pools /\ pool'[s].allocated /\ pool'[s].what = "file"
      /\ Reading(pool'[s], c64') /\ pool'[s].lastused = Least(Block, Len(t)) + 1
  <2> DEFINE p == Name(0)  q == OpenFile(p, 0, t)  d == c64'
  <2>1. p \in Pools /\ FreeSlot(p) # 0 /\ d.text = t /\ d.got = <<>> /\ s = FreeSlot(p) /\ pool' = q
    BY <1>1, <1>2, <1>5, <1>6, NameIs
  <2> HIDE DEF p, d
  <2>2. /\ q \in Pools /\ q[FreeSlot(p)].allocated /\ q[FreeSlot(p)].what = "file"
        /\ Reading(q[FreeSlot(p)], d) /\ q[FreeSlot(p)].lastused = Least(Block, Len(t)) + 1
    BY <1>3, <2>1, OpenedIs
  <2> HIDE DEF q
  <2>3. QED BY <2>1, <2>2 DEF d
<1>8. mine' = {s} /\ mine' \subseteq Slot
  BY <1>2, <1>6
<1>9. loader = "turbodisk" => pool'[s].lastused > 2
  <2>1. ASSUME Len(t) > 1 PROVE Least(Block, Len(t)) + 1 > 2
    BY <2>1, <1>3, Sizes DEF Least
  <2>2. QED BY <2>1, <1>2, <1>7
<1>10. loader' = loader /\ loader \notin SectorLoaders
  BY <1>1, Kinds DEF Fixed
<1>11. Begins(c64')
  BY <1>5 DEF Begins
<1>12. Sending'
  BY <1>1, <1>5, <1>7, <1>8, <1>9, <1>10, <1>11, SendingIs
<1>13. Saving'
  BY <1>1, <1>5, <1>10, TypedFacts, SavingRest
<1>14. One("file")'
  BY <1>7, <1>8 DEF One
<1>15. SameAnswer
  BY <1>5 DEF SameAnswer
<1>16. error' \in Nat /\ file' \in Seq(Nat) /\ first' \in BOOLEAN /\ turns' \in Nat /\ faults' \in Nat
  <2>1. first' \in BOOLEAN
    BY <1>1
  <2>2. QED BY <2>1, <1>1, TypedFacts
<1>17. QED BY <1>1, <1>5, <1>7, <1>8, <1>10, <1>12, <1>13, <1>14, <1>15, <1>16, HandlerStep

LEMMA NotFoundKeeps ==
  ASSUME LoadersInv, NotFound
  PROVE  LoadersInv'
<1>1. /\ pc = "command" /\ turns' = turns + 1 /\ loader \in ByName /\ UNCHANGED Fixed /\ UNCHANGED Disk
      /\ pc' \in {"command", "done"} /\ error' = 62 /\ first' = first /\ file' = file /\ at' = at /\ job' = job /\ faults' = faults
      /\ mine' = mine
  BY DEF NotFound, Turn, Leave
<1>2. pool' \in Pools
  <2>1. \E sec : pool' = Name(sec)
    BY DEF NotFound
  <2>2. QED BY <2>1, NameIs
<1>3. loader' = loader /\ loader \notin SectorLoaders /\ loader # "eload"
  BY <1>1, Kinds DEF Fixed, ByName
<1>4. mine' = {}
  BY <1>1, <1>3, TypedFacts DEF Owned, Served
<1> DEFINE v == IF WhenThereIsNone = <<>> THEN "none" ELSE "error"
<1>5. v \in Judgements /\ v # "complete"
  BY DEF Judgements
<1>6. c64' = Judged(v)
  BY DEF NotFound, Judged
<1> HIDE DEF v
<1>7. c64' \in Computer /\ c64'.text = <<>> /\ c64'.got = <<>> /\ c64'.verdict = v /\ ~c64'.saved /\ c64'.heard = <<>>
  <2>1. <<>> \in Seq(Nat)
    OBVIOUS
  <2>2. QED BY <2>1, <1>5, <1>6, NamedIs
<1>8. Begins(c64')
  BY <1>7 DEF Begins
<1>9. Sending'
  <2>1. CASE loader \in FileLoaders
    BY <1>1, <1>3, <1>5, <1>7, <1>8, <2>1, SendingIs
  <2>2. CASE loader \notin FileLoaders
    <3>1. pc' # "block" /\ pc' # "start"
      BY <1>1
    <3>2. Begins(c64)' /\ c64'.verdict # "complete"
      BY <1>5, <1>7, <1>8
    <3>3. QED BY <1>3, <1>7, <2>2, <3>1, <3>2 DEF Sending
  <2>3. QED BY <2>1, <2>2
<1>10. Saving'
  BY <1>1, <1>3, <1>7, TypedFacts, SavingRest
<1>11. SameAnswer
  BY <1>7 DEF SameAnswer
<1>12. error' \in Nat /\ file' \in Seq(Nat) /\ first' \in BOOLEAN /\ turns' \in Nat /\ faults' \in Nat
  BY <1>1, TypedFacts
<1>13. QED BY <1>1, <1>2, <1>3, <1>4, <1>7, <1>9, <1>10, <1>11, <1>12, HandlerStep
-----------------------------------------------------------------------------
(* The buffer that is sent from.                                            *)
LEMMA TheIs ==
  ASSUME LoadersInv, pc \in {"block", "save"}
  PROVE  \E b \in Slot : mine = {b} /\ The = b /\ pool[b] \in Buffer /\ pool[b].allocated /\ pool[b].what = "file"
<1>1. PICK b \in Slot : mine = {b} /\ pool[b].allocated /\ pool[b].what = "file"
  BY TypedFacts DEF Owned, One
<1>2. The = b
  BY <1>1 DEF The
<1>3. pool[b] \in Buffer
  BY TypedFacts DEF Pools
<1>4. QED BY <1>1, <1>2, <1>3

(* A block that is said: what the computer has then.                        *)
Spoken == Told(c64, Says(pool[The]))

LEMMA SpokenIs ==
  ASSUME LoadersInv, pc = "block", Reading(pool[The], c64)
  PROVE  /\ SameElse(Spoken, c64) /\ Begins(Spoken)
         /\ Spoken.verdict = "complete" => pool[The].sendeoi /\ loader \notin Longer
         /\ ~pool[The].sendeoi => Reading(Filled(pool[The]), Spoken)
         /\ pool[The].sendeoi => Len(Spoken.got) >= Len(Spoken.text) /\ (loader \notin Longer => Spoken.got = Spoken.text)
<1>1. PICK b \in Slot : mine = {b} /\ The = b /\ pool[b] \in Buffer /\ pool[b].allocated /\ pool[b].what = "file"
  BY TheIs
<1>2. loader \in FileLoaders /\ first \in BOOLEAN /\ c64 \in Computer /\ Begins(c64) /\ c64.verdict # "complete"
      /\ (loader = "turbodisk" /\ first => pool[b].lastused > 2)
  BY <1>1, TypedFacts DEF Placed, Sending
<1> DEFINE x == pool[b]  m == Says(x)  d == Told(c64, m)
<1>3. x \in Buffer /\ Reading(x, c64) /\ Fills(x)
  BY <1>1, ReadingFills
<1>4. Delivers(x, m)
  BY <1>2, <1>3, SaysDelivers
<1>5. Spoken = d
  BY <1>1 DEF Spoken
<1> HIDE DEF x, m
<1>6. m \in Seq(Int) /\ m # <<>> /\ Hears(m) \in Seq(Int) /\ Verdict(m) \in Verdicts
      /\ (Verdict(m) = "complete" => x.sendeoi /\ loader \notin Longer)
  BY <1>4 DEF Delivers, Carries, Verdicts
<1>7. /\ SameElse(d, c64) /\ d.got = c64.got \o Hears(m)
      /\ d.verdict = IF Verdict(m) = "none" THEN c64.verdict ELSE Verdict(m)
  BY <1>2, <1>6, ToldIs
<1> HIDE DEF d
<1>8. d \in Computer /\ d.text = c64.text
  BY <1>7 DEF SameElse
<1>9. /\ Begins(d)
      /\ ~x.sendeoi => Reading(Filled(x), d)
      /\ x.sendeoi => Len(d.got) >= Len(d.text) /\ (loader \notin Longer => d.got = d.text)
  BY <1>2, <1>3, <1>4, <1>7, <1>8, HeardOn
<1>10. d.verdict = "complete" => x.sendeoi /\ loader \notin Longer
  BY <1>2, <1>6, <1>7
<1>11. pool[The] = x
  BY <1>1 DEF x
<1>12. QED BY <1>5, <1>7, <1>9, <1>10, <1>11

LEMMA BlockFacts ==
  ASSUME LoadersInv, pc = "block"
  PROVE  /\ loader \in FileLoaders /\ loader \notin SectorLoaders /\ loader \notin Savers /\ c64.verdict # "complete"
         /\ loader # "n0sdos" => Reading(pool[The], c64)
         /\ Reading(pool[The], c64) \/ Len(c64.got) >= Len(c64.text)
         /\ loader \in Repeats => loader \in ByName \cup {"eload"}
<1>1. loader \in FileLoaders
  BY TypedFacts DEF Placed
<1>2. PICK b \in Slot : mine = {b} /\ The = b
  BY TheIs
<1>3. QED BY <1>1, <1>2, Kinds, TypedFacts DEF Sending, Repeats, ByName

(* After a file: back to the commands, or to the bus.                       *)
LEMMA DoneIs ==
  ASSUME LoadersInv, NEW keeps \in BOOLEAN, Done(keeps)
  PROVE  pool' \in Pools /\ pc' \in {"command", "done"} /\ (pc' = "command" => loader \in Repeats)
BY TypedFacts, FreedIs DEF Done, Leave

LEMMA LastBlockKeeps ==
  ASSUME LoadersInv, LastBlock
  PROVE  LoadersInv'
<1>1. /\ pc = "block" /\ loader # "n0sdos" /\ pool[The].sendeoi /\ mine' = {} /\ first' = FALSE
      /\ UNCHANGED Fixed /\ UNCHANGED Disk /\ error' = error /\ file' = file /\ at' = at /\ job' = job
      /\ turns' = turns /\ faults' = faults /\ c64' = Told(Spoken, AtEnd)
  BY DEF LastBlock, Spoken
<1>2. /\ loader \in FileLoaders /\ loader \notin SectorLoaders /\ c64.verdict # "complete" /\ Reading(pool[The], c64)
      /\ loader \in Repeats => loader \in ByName \cup {"eload"}
  BY <1>1, BlockFacts
<1>3. pool' \in Pools /\ pc' \in {"command", "done"} /\ (pc' = "command" => loader \in Repeats)
  <2>1. (loader \in Keeps) \in BOOLEAN
    OBVIOUS
  <2>2. QED BY <2>1, DoneIs DEF LastBlock
<1> DEFINE d == Spoken
<1>4. /\ SameElse(d, c64) /\ Begins(d)
      /\ d.verdict = "complete" => loader \notin Longer
      /\ loader \notin Longer => d.got = d.text
  BY <1>1, <1>2, SpokenIs
<1>5. d \in Computer /\ c64' = Told(d, AtEnd)
  BY <1>1, <1>4 DEF SameElse
<1> HIDE DEF d
<1>6. /\ SameElse(c64', d) /\ c64'.got = d.got /\ c64'.verdict \in {d.verdict, "complete"}
      /\ AtEnd # <<>> => c64'.verdict = "complete"
  <2>1. "complete" \in Verdicts /\ "complete" # "none"
    BY DEF Verdicts
  <2>2. QED BY <2>1, <1>5, AtEndIs, MarkedIs
<1>7. loader \in Longer => c64' = d
  <2>1. loader \in Longer => AtEnd = <<>>
    BY AtEndIs DEF Longer
  <2>2. QED BY <2>1, <1>5 DEF Told
<1>8. Begins(c64') /\ (c64'.verdict = "complete" => c64'.got = c64'.text)
  BY <1>4, <1>6, <1>7 DEF Begins, SameElse
<1>9. loader = "eload" => c64'.verdict # "none"
  BY <1>6, AtEndIs
<1>10. loader' = loader
  BY <1>1 DEF Fixed
<1>11. Sending'
  BY <1>2, <1>3, <1>8, <1>9, <1>10, SendingIs
<1>12. Saving'
  BY <1>1, <1>3, <1>4, <1>6, <1>10, TypedFacts, SavingRest DEF SameElse
<1>13. c64' \in Computer /\ SameAnswer
  BY <1>4, <1>6 DEF SameElse, SameAnswer
<1>14. error' \in Nat /\ file' \in Seq(Nat) /\ first' \in BOOLEAN /\ turns' \in Nat /\ faults' \in Nat
  <2>1. first' \in BOOLEAN
    BY <1>1
  <2>2. QED BY <2>1, <1>1, TypedFacts
<1>15. QED BY <1>1, <1>2, <1>3, <1>11, <1>12, <1>13, <1>14, HandlerStep

LEMMA BlockFailsKeeps ==
  ASSUME LoadersInv, BlockFails
  PROVE  LoadersInv'
<1>1. /\ pc = "block" /\ loader # "n0sdos" /\ loader \in Tells /\ ~pool[The].sendeoi /\ mine' = {} /\ first' = FALSE
      /\ UNCHANGED Fixed /\ UNCHANGED Disk /\ error' = 20 /\ file' = file /\ at' = at /\ job' = job
      /\ turns' = turns /\ faults' = 1 /\ c64' = Told(Spoken, WhenItFails)
  BY DEF BlockFails, Spoken
<1>2. /\ loader \in FileLoaders /\ loader \notin SectorLoaders /\ Reading(pool[The], c64)
      /\ loader \in Repeats => loader \in ByName \cup {"eload"}
  BY <1>1, BlockFacts
<1>3. pool' \in Pools /\ pc' \in {"command", "done"} /\ (pc' = "command" => loader \in Repeats)
  <2>1. FALSE \in BOOLEAN
    OBVIOUS
  <2>2. QED BY <2>1, DoneIs DEF BlockFails
<1> DEFINE d == Spoken
<1>4. SameElse(d, c64) /\ Begins(d) /\ d.verdict # "complete"
  BY <1>1, <1>2, SpokenIs
<1>5. d \in Computer /\ c64' = Told(d, WhenItFails)
  BY <1>1, <1>4 DEF SameElse
<1> HIDE DEF d
<1>6. /\ SameElse(c64', d) /\ c64'.got = d.got /\ c64'.verdict \in {d.verdict, "error"}
      /\ WhenItFails # <<>> => c64'.verdict = "error"
  <2>1. "error" \in Verdicts /\ "error" # "none" /\ Marks(WhenItFails, "error")
    BY <1>1, <1>2, ErrorIs DEF Verdicts
  <2>2. QED BY <2>1, <1>5, MarkedIs
<1>7. Begins(c64') /\ c64'.verdict # "complete"
  BY <1>4, <1>6 DEF Begins, SameElse
<1>8. loader = "eload" => c64'.verdict # "none"
  BY <1>6, ErrorIs
<1>9. loader' = loader
  BY <1>1 DEF Fixed
<1>10. Sending'
  BY <1>2, <1>3, <1>7, <1>8, <1>9, SendingIs
<1>11. Saving'
  BY <1>1, <1>3, <1>4, <1>6, <1>9, TypedFacts, SavingRest DEF SameElse
<1>12. c64' \in Computer /\ SameAnswer
  BY <1>4, <1>6 DEF SameElse, SameAnswer
<1>13. error' \in Nat /\ file' \in Seq(Nat) /\ first' \in BOOLEAN /\ turns' \in Nat /\ faults' \in Nat
  <2>1. first' \in BOOLEAN
    BY <1>1
  <2>2. QED BY <2>1, <1>1, TypedFacts
<1>14. QED BY <1>1, <1>2, <1>3, <1>10, <1>11, <1>12, <1>13, HandlerStep

(* The next block of the file takes the place of the last.                  *)
LEMMA RefillIs ==
  ASSUME LoadersInv, NEW b \in Slot, mine = {b}, pool[b].allocated, pool[b].what = "file",
         mine' = mine, pool' = [pool EXCEPT ![b] = Filled(@)]
  PROVE  pool' \in Pools /\ pool'[b] = Filled(pool[b]) /\ One("file")'
<1>1. pool \in Pools /\ pool[b] \in Buffer
  BY TypedFacts DEF Pools
<1> DEFINE f == Filled(pool[b])
<1>2. f \in Buffer /\ f.allocated /\ f.what = "file"
  BY <1>1, FilledIs
<1> HIDE DEF f
<1>3. pool' \in Pools /\ pool'[b] = f
  BY <1>1, <1>2 DEF Pools, f
<1>4. One("file")'
  BY <1>2, <1>3 DEF One
<1>5. QED BY <1>3, <1>4 DEF f

LEMMA NextBlockKeeps ==
  ASSUME LoadersInv, NextBlock
  PROVE  LoadersInv'
<1>1. /\ pc = "block" /\ loader # "n0sdos" /\ ~pool[The].sendeoi /\ mine' = mine /\ first' = FALSE /\ pc' = pc
      /\ UNCHANGED Fixed /\ UNCHANGED Disk /\ error' = error /\ file' = file /\ at' = at /\ job' = job
      /\ turns' = turns /\ faults' = faults /\ c64' = Spoken /\ pool' = [pool EXCEPT ![The] = Filled(@)]
  BY DEF NextBlock, Spoken
<1>2. loader \in FileLoaders /\ loader \notin SectorLoaders /\ Reading(pool[The], c64)
  BY <1>1, BlockFacts
<1>3. PICK b \in Slot : mine = {b} /\ The = b /\ pool[b].allocated /\ pool[b].what = "file"
  BY <1>1, TheIs
<1>4. SameElse(c64', c64) /\ Begins(c64') /\ c64'.verdict # "complete" /\ Reading(Filled(pool[b]), c64')
  BY <1>1, <1>2, <1>3, SpokenIs
<1>5. pool' \in Pools /\ pool'[b] = Filled(pool[b]) /\ One("file")'
  <2>1. pool' = [pool EXCEPT ![b] = Filled(@)]
    BY <1>1, <1>3
  <2>2. QED BY <2>1, <1>1, <1>3, RefillIs
<1>6. loader' = loader
  BY <1>1 DEF Fixed
<1>7. mine' = {b} /\ Reading(pool'[b], c64') /\ ~first'
  BY <1>1, <1>3, <1>4, <1>5
<1>8. Sending'
  BY <1>1, <1>2, <1>4, <1>6, <1>7, SendingIs
<1>9. Saving'
  BY <1>1, <1>4, <1>6, TypedFacts, SavingRest DEF SameElse
<1>10. c64' \in Computer /\ SameAnswer
  BY <1>4 DEF SameElse, SameAnswer
<1>11. error' \in Nat /\ file' \in Seq(Nat) /\ first' \in BOOLEAN /\ turns' \in Nat /\ faults' \in Nat /\ mine' \subseteq Slot
  <2>1. first' \in BOOLEAN
    BY <1>1
  <2>2. QED BY <2>1, <1>1, TypedFacts
<1>12. QED BY <1>1, <1>2, <1>5, <1>8, <1>9, <1>10, <1>11, HandlerStep

LEMMA RepeatingKeeps ==
  ASSUME LoadersInv, Repeating
  PROVE  LoadersInv'
<1>1. /\ pc = "block" /\ loader = "n0sdos"
      /\ UNCHANGED Fixed /\ UNCHANGED Disk /\ error' = error /\ file' = file /\ first' = first /\ at' = at /\ job' = job
      /\ turns' = turns /\ faults' = faults
  BY DEF Repeating
<1>2. loader \in FileLoaders /\ loader \notin SectorLoaders /\ loader \in ByName /\ loader' = loader
  BY <1>1, BlockFacts DEF ByName, Fixed
<1>3. error' \in Nat /\ file' \in Seq(Nat) /\ first' \in BOOLEAN /\ turns' \in Nat /\ faults' \in Nat
  BY <1>1, TypedFacts
<1>4. CASE Len(c64.got) >= Len(c64.text)
  <2> DEFINE g == Cut(c64.got, Len(c64.text))
  <2>1. c64' = Hearsay(c64, g, "complete") /\ Done(FALSE) /\ mine' = {}
    BY <1>4 DEF Repeating, Hearsay
  <2>2. c64 \in Computer /\ Begins(c64)
    BY TypedFacts DEF Sending
  <2>3. c64.got \in Seq(Int) /\ c64.text \in Seq(Int) /\ Len(c64.text) \in 0 .. Len(c64.got)
    <3>1. c64.got \in Seq(Int) /\ c64.text \in Seq(Nat)
      BY <2>2 DEF Computer
    <3>2. c64.text \in Seq(Int) /\ Len(c64.text) \in Nat /\ Len(c64.got) \in Nat
      BY <3>1
    <3>3. QED BY <3>1, <3>2, <1>4
  <2>4. g \in Seq(Int) /\ Len(g) = Len(c64.text) /\ \A i \in 1 .. Len(c64.text) : g[i] = c64.got[i]
    BY <2>3, CutIs
  <2> HIDE DEF g
  <2>5. g = c64.text
    <3>1. \A i \in 1 .. Len(c64.text) : g[i] = c64.text[i]
      BY <2>2, <2>3, <2>4 DEF Begins
    <3>2. QED BY <2>3, <2>4, <3>1, SeqEqual
  <2>6. c64'.got = g /\ c64'.verdict = "complete" /\ SameElse(c64', c64)
    <3>1. "complete" \in Judgements
      BY DEF Judgements
    <3>2. QED BY <2>1, <2>2, <2>4, <3>1, HearsayIs
  <2>7. c64'.got = c64'.text /\ Begins(c64')
    BY <2>5, <2>6 DEF SameElse, Begins
  <2>8. pool' \in Pools /\ pc' \in {"command", "done"}
    <3>1. FALSE \in BOOLEAN
      OBVIOUS
    <3>2. QED BY <2>1, <3>1, DoneIs
  <2>9. Sending'
    BY <1>1, <1>2, <2>6, <2>7, <2>8, SendingIs
  <2>10. Saving'
    BY <1>1, <1>2, <2>6, <2>8, TypedFacts, SavingRest DEF SameElse
  <2>11. c64' \in Computer /\ SameAnswer
    BY <2>6 DEF SameElse, SameAnswer
  <2>12. QED BY <1>1, <1>2, <1>3, <2>1, <2>8, <2>9, <2>10, <2>11, HandlerStep
<1>5. CASE ~(Len(c64.got) >= Len(c64.text))
  <2>1. /\ c64' = Spoken /\ pc' = pc /\ mine' = mine
        /\ pool' = IF pool[The].sendeoi THEN pool ELSE [pool EXCEPT ![The] = Filled(@)]
    BY <1>5 DEF Repeating, Spoken
  <2>2. Reading(pool[The], c64)
    BY <1>1, <1>5, BlockFacts
  <2>3. PICK b \in Slot : mine = {b} /\ The = b /\ pool[b].allocated /\ pool[b].what = "file"
    BY <1>1, TheIs
  <2>4. /\ SameElse(c64', c64) /\ Begins(c64') /\ c64'.verdict # "complete"
        /\ ~pool[b].sendeoi => Reading(Filled(pool[b]), c64')
        /\ pool[b].sendeoi => Len(c64'.got) >= Len(c64'.text)
    BY <1>1, <2>1, <2>2, <2>3, SpokenIs DEF Longer
  <2>5. /\ pool' \in Pools /\ One("file")'
        /\ Reading(pool'[b], c64') \/ Len(c64'.got) >= Len(c64'.text)
    <3>1. CASE pool[b].sendeoi
      <4>1. pool' = pool
        BY <2>1, <2>3, <3>1
      <4>2. QED BY <2>1, <2>3, <2>4, <3>1, <4>1, TypedFacts DEF One
    <3>2. CASE ~pool[b].sendeoi
      <4>1. pool' = [pool EXCEPT ![b] = Filled(@)]
        BY <2>1, <2>3, <3>2
      <4>2. pool' \in Pools /\ pool'[b] = Filled(pool[b]) /\ One("file")'
        BY <2>1, <2>3, <4>1, RefillIs
      <4>3. QED BY <2>4, <3>2, <4>2
    <3>3. QED BY <3>1, <3>2
  <2>6. Sending'
    <3>1. mine' = {b} /\ loader # "turbodisk" /\ pc' # "start"
      BY <1>1, <2>1, <2>3
    <3>2. QED BY <1>1, <1>2, <2>1, <2>4, <2>5, <3>1, SendingIs
  <2>7. Saving'
    BY <1>1, <1>2, <2>1, <2>4, TypedFacts, SavingRest DEF SameElse
  <2>8. c64' \in Computer /\ SameAnswer
    BY <2>4 DEF SameElse, SameAnswer
  <2>9. mine' \subseteq Slot
    BY <2>1, <2>3
  <2>10. QED BY <1>1, <1>2, <1>3, <2>1, <2>5, <2>6, <2>7, <2>8, <2>9, HandlerStep
<1>6. QED BY <1>4, <1>5

LEMMA AbortKeeps ==
  ASSUME LoadersInv, Abort
  PROVE  LoadersInv'
<1>1. /\ pc = "block" /\ pc' = "done" /\ mine' = {} /\ first' = first
      /\ UNCHANGED Fixed /\ UNCHANGED Disk /\ error' = error /\ file' = file /\ at' = at /\ job' = job
      /\ turns' = turns /\ faults' = faults /\ c64' = [c64 EXCEPT !.verdict = "gave up"]
      /\ pool' = (IF loader = "eload" THEN pool ELSE FreedSlots(pool, mine))
  BY DEF Abort, Leave
<1>2. loader \in FileLoaders /\ loader \notin SectorLoaders
  BY <1>1, BlockFacts
<1>3. /\ c64' \in Computer /\ c64'.got = c64.got /\ c64'.text = c64.text /\ c64'.saved = c64.saved /\ c64'.verdict # "complete"
      /\ c64'.heard = c64.heard /\ c64'.want = c64.want /\ c64'.said = c64.said
  <2>1. c64 \in Computer
    BY TypedFacts
  <2>2. QED BY <2>1, <1>1 DEF Computer
<1>4. Begins(c64')
  BY <1>3, TypedFacts DEF Sending, Begins
<1>5. pool' \in Pools
  BY <1>1, TypedFacts, FreedIs
<1>6. loader' = loader
  BY <1>1 DEF Fixed
<1>7. Sending'
  BY <1>1, <1>2, <1>3, <1>4, <1>6, SendingIs
<1>8. Saving'
  BY <1>1, <1>3, <1>6, TypedFacts, SavingRest
<1>9. SameAnswer
  BY <1>3 DEF SameAnswer
<1>10. error' \in Nat /\ file' \in Seq(Nat) /\ first' \in BOOLEAN /\ turns' \in Nat /\ faults' \in Nat
  BY <1>1, TypedFacts
<1>11. QED BY <1>1, <1>2, <1>3, <1>5, <1>7, <1>8, <1>9, <1>10, HandlerStep
-----------------------------------------------------------------------------
(***************************************************************************)
(* Loaders that store a file.                                              *)
(***************************************************************************)
LEMMA SplitAt ==
  ASSUME NEW s \in Seq(Nat), NEW k \in 0 .. Len(s)
  PROVE  /\ Cut(s, k) \in Seq(Nat) /\ From(s, k + 1) \in Seq(Nat) /\ Len(Cut(s, k)) = k
         /\ s = Cut(s, k) \o From(s, k + 1)
<1> DEFINE n == Len(s)  a == Cut(s, k)  z == From(s, k + 1)
<1>1. n \in Nat /\ k \in Nat /\ k <= n /\ \A i \in 1 .. n : s[i] \in Nat
  OBVIOUS
<1>2. a \in Seq(Nat) /\ Len(a) = k /\ \A i \in 1 .. k : a[i] = s[i]
  BY CutIs
<1>3. z \in Seq(Nat) /\ Len(z) = n - k /\ \A i \in 1 .. n - k : z[i] = s[k + i]
  <2> DEFINE r == SubSeq(s, k + 1, n)
  <2>1. k + 1 \in Int /\ n \in Int /\ n - (k + 1) + 1 = n - k /\ \A i \in k + 1 .. n : s[i] \in Nat
    BY <1>1
  <2>2. /\ r \in Seq(Nat)
        /\ Len(r) = IF k + 1 <= n THEN n - (k + 1) + 1 ELSE 0
        /\ \A i \in 1 .. n - (k + 1) + 1 : r[i] = s[k + 1 + i - 1]
    BY <2>1, SubSeqProperties
  <2>3. z = r
    BY DEF From
  <2> HIDE DEF r, n, z
  <2>4. Len(r) = n - k
    BY <1>1, <2>2
  <2>5. ASSUME NEW i \in 1 .. n - k PROVE r[i] = s[k + i]
    <3>1. i \in 1 .. n - (k + 1) + 1 /\ k + 1 + i - 1 = k + i
      BY <1>1
    <3>2. QED BY <3>1, <2>2
  <2>6. QED BY <2>2, <2>3, <2>4, <2>5
<1> HIDE DEF a, z
<1>4. /\ a \o z \in Seq(Nat) /\ Len(a \o z) = k + (n - k)
      /\ \A i \in 1 .. k : (a \o z)[i] = a[i]
      /\ \A i \in 1 .. n - k : (a \o z)[k + i] = z[i]
  <2>1. /\ a \o z \in Seq(Nat) /\ Len(a \o z) = Len(a) + Len(z)
        /\ \A i \in 1 .. Len(a) : (a \o z)[i] = a[i]
        /\ \A i \in 1 .. Len(z) : (a \o z)[Len(a) + i] = z[i]
    <3>1. a \in Seq(Nat) /\ z \in Seq(Nat)
      BY <1>2, <1>3
    <3>2. a \o z \in Seq(Nat)
      BY <3>1, Spliced
    <3>3. Len(a \o z) = Len(a) + Len(z)
      BY <3>1, Spliced
    <3>4. \A i \in 1 .. Len(a) : (a \o z)[i] = a[i]
      BY <3>1, Spliced
    <3>5. \A i \in 1 .. Len(z) : (a \o z)[Len(a) + i] = z[i]
      BY <3>1, Spliced
    <3>6. QED BY <3>2, <3>3, <3>4, <3>5
  <2>2. Len(a) = k /\ Len(z) = n - k
    BY <1>2, <1>3
  <2> HIDE DEF n
  <2>3. QED BY <2>1, <2>2
<1> HIDE DEF n
<1>5. ASSUME NEW i \in 1 .. n PROVE (a \o z)[i] = s[i]
  <2>1. CASE i <= k
    <3>1. i \in 1 .. k
      BY <1>1, <2>1
    <3>2. QED BY <3>1, <1>2, <1>4
  <2>2. CASE ~(i <= k)
    <3>1. i - k \in 1 .. n - k /\ k + (i - k) = i
      BY <1>1, <2>2
    <3>2. z[i - k] = s[k + (i - k)] /\ (a \o z)[k + (i - k)] = z[i - k]
      BY <3>1, <1>3, <1>4
    <3>3. QED BY <3>1, <3>2
  <2>3. QED BY <2>1, <2>2
<1>6. Len(a \o z) = Len(s)
  BY <1>1, <1>4 DEF n
<1>7. a \o z = s
  <2>1. \A i \in 1 .. Len(a \o z) : (a \o z)[i] = s[i]
    BY <1>5, <1>6 DEF n
  <2>2. QED BY <2>1, <1>4, <1>6, SeqEqual
<1>8. QED BY <1>2, <1>3, <1>7 DEF a, z

(* The buffer that is written to.                                           *)
LEMMA SavingFacts ==
  ASSUME LoadersInv, pc = "save"
  PROVE  /\ loader \in Savers /\ loader \notin FileLoaders /\ loader \notin SectorLoaders /\ driver \in {"fat", "d64"}
         /\ loader \in Repeats => loader \in ByName
         /\ loader # "ar6save" =>
              /\ ~c64.saved /\ Writes(Writer(pool[The]))
              /\ c64.text = Content(Writer(pool[The])) \o c64.left
              /\ driver = "d64" /\ End(pool[The]) = 2 /\ pool[The].lastused = 2 => c64.left # <<>>
<1>1. loader \in Savers /\ driver \in {"fat", "d64"} /\ file \in Seq(Nat)
  BY TypedFacts DEF Placed, Typed
<1>2. PICK b \in Slot : mine = {b} /\ The = b /\ pool[b] \in Buffer
  BY TheIs
<1>3. loader \in Repeats => loader \in ByName
  BY <1>1, LoadersAssumption DEF Repeats, ByName
<1>4. ASSUME loader # "ar6save"
      PROVE  /\ ~c64.saved /\ Writes(Writer(pool[b]))
             /\ c64.text = Content(Writer(pool[b])) \o c64.left
             /\ driver = "d64" /\ End(pool[b]) = 2 /\ pool[b].lastused = 2 => c64.left # <<>>
  <2>1. /\ ~c64.saved /\ Writing(pool[b]) /\ c64.text = Content(Writer(pool[b])) \o c64.left
        /\ driver = "d64" /\ End(pool[b]) = 2 /\ pool[b].lastused = 2 => c64.left # <<>>
    BY <1>2, <1>4, TypedFacts DEF Saving
  <2>2. Writer(pool[b]) \in Pair /\ Writer(pool[b]).b = pool[b]
    BY <1>1, <1>2 DEF Writer, Pair
  <2>3. QED BY <2>1, <2>2 DEF Writes
<1>5. QED BY <1>1, <1>2, <1>3, <1>4, Kinds

(* For the computer, nothing is told of a file it stores.                   *)
LEMMA SendingStays ==
  ASSUME LoadersInv, loader \in Savers, loader' = loader, SameFile, pc' # "block"
  PROVE  Sending'
BY Kinds, TypedFacts, SendingFrame

LEMMA SaveByNameKeeps ==
  ASSUME LoadersInv, SaveByName
  PROVE  LoadersInv'
<1>1. /\ pc = "command" /\ turns' = turns + 1 /\ loader = "samssave" /\ UNCHANGED Fixed /\ UNCHANGED Disk
      /\ pc' = "save" /\ error' = 0 /\ first' = first /\ file' = <<>> /\ at' = at /\ job' = job /\ faults' = faults
      /\ FreeSlot(Name(1)) # 0
  BY DEF SaveByName, Turn
<1>2. PICK t \in Texts :
       /\ c64' = [NoFileYet EXCEPT !.text = t, !.left = t]
       /\ pool' = NewFile(Name(1), 1) /\ mine' = {FreeSlot(Name(1))}
  BY DEF SaveByName
<1>3. t \in Seq(Nat) /\ t # <<>>
  BY TextsAre
<1>4. c64' = Named(t, t)
  BY <1>2 DEF Named
<1>5. c64' \in Computer /\ c64'.text = t /\ c64'.left = t /\ c64'.got = <<>> /\ c64'.verdict = "none" /\ ~c64'.saved /\ c64'.heard = <<>>
  <2>1. "none" \in Judgements
    BY DEF Judgements
  <2>2. QED BY <2>1, <1>3, <1>4, NamedIs
<1>6. PICK s \in Slot : s = FreeSlot(Name(1))
  BY <1>1, FreeSlotIs
<1>7. pool' \in Pools /\ pool'[s] = New(1, "file") /\ mine' = {s}
  <2> DEFINE p == Name(1)
  <2>1. p \in Pools /\ FreeSlot(p) # 0 /\ s = FreeSlot(p) /\ pool' = Allocated(p, 1, "file") /\ mine' = {s}
    BY <1>1, <1>2, <1>6, NameIs DEF NewFile
  <2> HIDE DEF p
  <2>2. 1 \in Nat /\ "file" \in Whats
    BY DEF Whats
  <2>3. QED BY <2>1, <2>2, AllocatedIs
<1>8. Fresh(pool'[s]) /\ pool'[s] \in Buffer /\ pool'[s].allocated /\ pool'[s].what = "file"
  <2>1. 1 \in Nat /\ "file" \in Whats
    BY DEF Whats
  <2>2. QED BY <1>7, <2>1, NewIs DEF Fresh
<1>9. loader' = loader /\ loader \in Savers /\ loader \notin SectorLoaders /\ loader \notin FileLoaders /\ loader \in ByName
  BY <1>1, TypedFacts, LoadersAssumption DEF Fixed, Loaders, ByName
<1>10. /\ Writing(pool'[s]) /\ c64'.text = Content([b |-> pool'[s], file |-> file']) \o c64'.left
       /\ driver' = "d64" /\ End(pool'[s]) = 2 /\ pool'[s].lastused = 2 => c64'.left # <<>>
  BY <1>1, <1>3, <1>5, <1>8, TypedFacts, FreshIs
<1>11. Saving'
  BY <1>1, <1>5, <1>7, <1>10 DEF Saving, Writer
<1>12. Sending'
  <2>1. Begins(c64')
    BY <1>5 DEF Begins
  <2>2. QED BY <2>1, <1>1, <1>5, <1>9 DEF Sending
<1>13. One("file")'
  BY <1>7, <1>8 DEF One
<1>14. SameAnswer
  BY <1>5 DEF SameAnswer
<1>15. error' \in Nat /\ file' \in Seq(Nat) /\ first' \in BOOLEAN /\ turns' \in Nat /\ faults' \in Nat /\ mine' \subseteq Slot
  <2>1. file' \in Seq(Nat)
    BY <1>1
  <2>2. mine' \subseteq Slot
    BY <1>7
  <2>3. QED BY <1>1, <2>1, <2>2, TypedFacts
<1>16. QED BY <1>1, <1>5, <1>7, <1>9, <1>11, <1>12, <1>13, <1>14, <1>15, HandlerStep

(* The buffer that was filled.                                              *)
LEMMA ChangedIs ==
  ASSUME LoadersInv, NEW s \in Slot, mine = {s}, NEW b \in Buffer, b.allocated, b.what = "file",
         mine' = mine, pool' = [pool EXCEPT ![s] = b]
  PROVE  pool' \in Pools /\ pool'[s] = b /\ One("file")'
<1>1. pool' \in Pools /\ pool'[s] = b
  BY TypedFacts DEF Pools
<1>2. QED BY <1>1 DEF One

LEMMA ReceiveBlockKeeps ==
  ASSUME LoadersInv, ReceiveBlock
  PROVE  LoadersInv'
<1> DEFINE n == Least(Block, Len(c64.left))
           w == Putting(Writer(pool[The]), Cut(c64.left, n))
<1>1. /\ pc = "save" /\ pc' = pc /\ loader # "ar6save" /\ UNCHANGED Fixed /\ UNCHANGED Disk /\ mine' = mine
      /\ error' = error /\ first' = first /\ at' = at /\ job' = job /\ turns' = turns /\ faults' = faults
      /\ n > 0 /\ pool' = [pool EXCEPT ![The] = w.b] /\ file' = w.file
      /\ c64' = [c64 EXCEPT !.left = From(@, n + 1)]
  BY DEF ReceiveBlock
<1>2. /\ loader \in Savers /\ loader \notin FileLoaders /\ loader \notin SectorLoaders /\ driver \in {"fat", "d64"}
      /\ ~c64.saved /\ Writes(Writer(pool[The])) /\ c64.text = Content(Writer(pool[The])) \o c64.left
  BY <1>1, SavingFacts
<1>3. PICK s \in Slot : mine = {s} /\ The = s /\ pool[s] \in Buffer /\ pool[s].allocated /\ pool[s].what = "file"
  BY <1>1, TheIs
<1> DEFINE left == c64.left  v == Writer(pool[s])  now == Cut(left, n)  rest == From(left, n + 1)
<1>4. left \in Seq(Nat) /\ n \in 0 .. Len(left) /\ n \in Nat /\ c64 \in Computer
  <2>1. c64.left \in Seq(Nat) /\ c64 \in Computer
    BY TypedFacts DEF Computer
  <2>2. Len(c64.left) \in Nat
    BY <2>1
  <2>3. QED BY <2>1, <2>2, Sizes DEF Least
<1>5. Writes(v) /\ c64.text = Content(v) \o left /\ w = Putting(v, now)
      /\ v.b = pool[s]
  BY <1>2, <1>3 DEF Writer
<1>6. n > 0 /\ c64' = [c64 EXCEPT !.left = rest] /\ pool' = [pool EXCEPT ![s] = w.b] /\ file' = w.file
  BY <1>1, <1>3
<1> HIDE DEF n, left
<1>7. now \in Seq(Nat) /\ rest \in Seq(Nat) /\ Len(now) = n /\ left = now \o rest
  BY <1>4, SplitAt
<1> HIDE DEF now, rest, v, w
<1>8. /\ Writes(w) /\ Content(w) = Content(v) \o now /\ w.b.what = v.b.what /\ w.b.allocated = v.b.allocated
      /\ End(w.b) > 2
  <2>1. now # <<>>
    BY <1>4, <1>6, <1>7
  <2>2. LET q == Putting(v, now)
        IN /\ Writes(q) /\ Content(q) = Content(v) \o now
           /\ q.b.what = v.b.what /\ q.b.allocated = v.b.allocated /\ q.b.secondary = v.b.secondary
           /\ now # <<>> => End(q.b) > 2
    BY <1>2, <1>5, <1>7, PuttingIs
  <2>3. QED BY <2>1, <2>2, <1>5
<1>9. w \in Pair /\ w.b \in Buffer /\ w.file \in Seq(Nat) /\ Writing(w.b)
  BY <1>8 DEF Writes, Pair
<1>10. c64.text = Content(w) \o rest
  <2>1. Content(v) \in Seq(Nat)
    BY <1>5, ContentIs
  <2>2. (Content(v) \o now) \o rest = Content(v) \o (now \o rest)
    BY <2>1, <1>7, ConcatAssociative, SMTT(30)
  <2>3. QED BY <2>2, <1>5, <1>7, <1>8
<1>11. pool' \in Pools /\ pool'[s] = w.b /\ One("file")'
  <2>1. w.b.allocated = pool[s].allocated /\ w.b.what = pool[s].what
    BY <1>5, <1>8
  <2>2. w.b.allocated /\ w.b.what = "file"
    BY <2>1, <1>3
  <2>3. QED BY <2>2, <1>1, <1>3, <1>6, <1>9, ChangedIs
<1>12. c64' \in Computer /\ c64'.left = rest /\ c64'.text = c64.text /\ SameFile /\ SameAnswer /\ c64'.saved = c64.saved
  BY <1>4, <1>6, <1>7 DEF Computer, SameFile, SameAnswer
<1>13. Content([b |-> pool'[s], file |-> file']) = Content(w)
  <2>1. w = [b |-> w.b, file |-> w.file]
    BY <1>9 DEF Pair
  <2>2. QED BY <2>1, <1>6, <1>11
<1>14. Saving'
  <2>1. Writing(pool'[s]) /\ c64'.text = Content([b |-> pool'[s], file |-> file']) \o c64'.left /\ End(pool'[s]) > 2
    BY <1>8, <1>9, <1>10, <1>11, <1>12, <1>13
  <2>2. mine' = {s} /\ ~c64'.saved /\ pc' = "save"
    BY <1>1, <1>2, <1>3, <1>12
  <2>3. End(pool'[s]) # 2
    BY <2>1
  <2>4. QED BY <2>1, <2>2, <2>3 DEF Saving, Writer
<1>15. loader' = loader /\ pc' = "save"
  BY <1>1 DEF Fixed
<1>16. Sending'
  BY <1>2, <1>12, <1>15, SendingStays
<1>17. error' \in Nat /\ file' \in Seq(Nat) /\ first' \in BOOLEAN /\ turns' \in Nat /\ faults' \in Nat /\ mine' \subseteq Slot
  BY <1>1, <1>6, <1>9, TypedFacts
<1>18. QED BY <1>1, <1>2, <1>11, <1>12, <1>14, <1>15, <1>16, <1>17, HandlerStep

LEMMA FinishedKeeps ==
  ASSUME LoadersInv, Finished
  PROVE  LoadersInv'
<1>1. /\ pc = "save" /\ loader # "ar6save" /\ c64.left = <<>> /\ UNCHANGED Fixed /\ UNCHANGED Disk /\ mine' = {}
      /\ error' = error /\ first' = first /\ at' = at /\ job' = job /\ turns' = turns /\ faults' = faults
      /\ file' = Stored(Writer(pool[The]), TRUE).file /\ c64' = [c64 EXCEPT !.saved = TRUE] /\ Done(FALSE)
  BY DEF Finished
<1> DEFINE v == Writer(pool[The])
<1>2. /\ loader \in Savers /\ loader \notin FileLoaders /\ loader \notin SectorLoaders /\ driver \in {"fat", "d64"}
      /\ Writes(v) /\ c64.text = Content(v) \o c64.left
      /\ driver = "d64" => ~(End(v.b) = 2 /\ v.b.lastused = 2)
      /\ loader \in Repeats => loader \in ByName
  BY <1>1, SavingFacts DEF Writer
<1> HIDE DEF v
<1>3. Stored(v, TRUE).file = Content(v)
  <2>1. TRUE \in BOOLEAN
    OBVIOUS
  <2>2. QED BY <1>2, <2>1, StoredAll
<1>4. Content(v) \in Seq(Nat) /\ c64.text = Content(v)
  <2>1. Content(v) \in Seq(Nat)
    BY <1>2, ContentIs
  <2>2. QED BY <2>1, <1>1, <1>2, ConcatEmptySeq
<1>5. file' = c64.text /\ file' \in Seq(Nat)
  BY <1>1, <1>3, <1>4 DEF v
<1>6. c64' \in Computer /\ c64'.text = c64.text /\ SameFile /\ SameAnswer
  <2>1. c64 \in Computer
    BY TypedFacts
  <2>2. QED BY <2>1, <1>1 DEF Computer, SameFile, SameAnswer
<1>7. pool' \in Pools /\ pc' \in {"command", "done"} /\ (pc' = "command" => loader \in ByName)
  <2>1. FALSE \in BOOLEAN
    OBVIOUS
  <2>2. QED BY <2>1, <1>1, <1>2, DoneIs
<1>8. Saving'
  BY <1>5, <1>6, <1>7 DEF Saving
<1>9. Sending'
  <2>1. loader' = loader /\ pc' # "block"
    BY <1>1, <1>7 DEF Fixed
  <2>2. QED BY <2>1, <1>2, <1>6, SendingStays
<1>10. error' \in Nat /\ first' \in BOOLEAN /\ turns' \in Nat /\ faults' \in Nat
  BY <1>1, TypedFacts
<1>11. QED BY <1>1, <1>2, <1>5, <1>6, <1>7, <1>8, <1>9, <1>10, HandlerStep

LEMMA SaveAbortedKeeps ==
  ASSUME LoadersInv, SaveAborted
  PROVE  LoadersInv'
<1>1. /\ pc = "save" /\ loader # "ar6save" /\ UNCHANGED Fixed /\ UNCHANGED Disk /\ mine' = {} /\ pc' = "done"
      /\ error' = error /\ first' = first /\ at' = at /\ job' = job /\ turns' = turns /\ faults' = faults /\ c64' = c64
      /\ file' = Stored(Writer(pool[The]), TRUE).file /\ pool' = FreedSlots(pool, mine)
  BY DEF SaveAborted, Leave
<1> DEFINE v == Writer(pool[The])
<1>2. Writes(v) /\ ~c64.saved
  BY <1>1, SavingFacts
<1> HIDE DEF v
<1>3. Stored(v, TRUE) \in Pair
  <2>1. TRUE \in BOOLEAN /\ v \in Pair
    BY <1>2 DEF Writes
  <2>2. QED BY <2>1, StoredIs
<1>4. file' \in Seq(Nat)
  BY <1>1, <1>3 DEF v, Pair
<1>5. pool' \in Pools
  BY <1>1, TypedFacts, FreedIs
<1>6. QED BY <1>1, <1>2, <1>4, <1>5, TypedFacts, ReturnStep

(* A sector of AR6, as it is put into the buffer.                           *)
LEMMA SectorPut ==
  ASSUME NEW b \in Buffer, NEW d \in [Indices -> Nat], NEW p \in Indices
  PROVE  LET q == [b EXCEPT !.data = d, !.position = p]
         IN q \in Buffer /\ q.allocated = b.allocated /\ q.what = b.what
BY DEF Buffer

LEMMA ReceiveSectorKeeps ==
  ASSUME LoadersInv, ReceiveSector
  PROVE  LoadersInv'
<1> DEFINE n == Least(Block, Len(c64.left))
           last == n = Len(c64.left)
           d == [i \in Indices |-> IF i \in 2 .. n + 1 THEN c64.left[i - 1]
                                   ELSE IF i = 0 THEN IF last THEN 0 ELSE 1
                                   ELSE IF i = 1 /\ last THEN n + 1 ELSE 0]
           p == IF last THEN n + 1 ELSE 0
           b == [pool[The] EXCEPT !.data = d, !.position = p]
           w == Stored(Writer(b), FALSE)
           goes_on == driver = "d64" \/ ~last
<1>1. /\ pc = "save" /\ loader = "ar6save" /\ UNCHANGED Fixed /\ UNCHANGED Disk
      /\ error' = error /\ first' = first /\ at' = at /\ job' = job /\ turns' = turns /\ faults' = faults
      /\ n > 0 /\ file' = w.file /\ c64' = [c64 EXCEPT !.left = From(@, n + 1), !.saved = ~goes_on]
      /\ IF goes_on THEN pool' = [pool EXCEPT ![The] = w.b] /\ pc' = pc /\ mine' = mine
         ELSE Done(FALSE) /\ mine' = {}
  BY DEF ReceiveSector
<1>2. PICK s \in Slot : mine = {s} /\ The = s /\ pool[s] \in Buffer /\ pool[s].allocated /\ pool[s].what = "file"
  BY <1>1, TheIs
<1>3. /\ loader \in Savers /\ loader \notin FileLoaders /\ loader \notin SectorLoaders /\ driver \in {"fat", "d64"}
      /\ loader \in Repeats => loader \in ByName
  BY <1>1, SavingFacts
<1>4. c64.left \in Seq(Nat) /\ n \in 0 .. Len(c64.left) /\ n \in Nat /\ n <= Block /\ c64 \in Computer
      /\ Len(c64.left) \in Nat /\ \A i \in 1 .. Len(c64.left) : c64.left[i] \in Nat
  <2>1. c64.left \in Seq(Nat) /\ c64 \in Computer
    BY TypedFacts DEF Computer
  <2>2. Len(c64.left) \in Nat /\ \A i \in 1 .. Len(c64.left) : c64.left[i] \in Nat
    BY <2>1
  <2>3. QED BY <2>1, <2>2, Sizes DEF Least
<1>5. From(c64.left, n + 1) \in Seq(Nat)
  BY <1>4, SplitAt
<1> HIDE DEF n
<1>6. p \in Indices
  BY <1>4, Sizes
<1>7. d \in [Indices -> Nat]
  <2>1. ASSUME NEW i \in Indices
        PROVE  (IF i \in 2 .. n + 1 THEN c64.left[i - 1]
                ELSE IF i = 0 THEN IF last THEN 0 ELSE 1
                ELSE IF i = 1 /\ last THEN n + 1 ELSE 0) \in Nat
    <3>1. CASE i \in 2 .. n + 1
      <4>1. i - 1 \in 1 .. Len(c64.left)
        BY <1>4, <3>1
      <4>2. QED BY <3>1, <4>1, <1>4
    <3>2. CASE i \notin 2 .. n + 1
      BY <3>2, <1>4
    <3>3. QED BY <3>1, <3>2
  <2>2. QED BY <2>1
<1> HIDE DEF d, p, last
<1>8. b \in Buffer /\ b.allocated /\ b.what = "file"
  <2> DEFINE x == pool[s]  q == [x EXCEPT !.data = d, !.position = p]
  <2>1. b = q
    BY <1>2
  <2>2. x \in Buffer /\ x.allocated /\ x.what = "file"
    BY <1>2
  <2> HIDE DEF b, x
  <2>3. q \in Buffer /\ q.allocated = x.allocated /\ q.what = x.what
    BY <1>6, <1>7, <2>2, SectorPut
  <2>4. QED BY <2>1, <2>2, <2>3
<1> HIDE DEF b
<1>9. w \in Pair /\ w.b \in Buffer /\ w.b.allocated /\ w.b.what = "file" /\ w.file \in Seq(Nat)
  <2> DEFINE v == Writer(b)
  <2>1. v \in Pair /\ v.b = b /\ FALSE \in BOOLEAN
    BY <1>8, TypedFacts DEF Writer, Pair
  <2> HIDE DEF v
  <2>2. Stored(v, FALSE) \in Pair /\ Stored(v, FALSE).b.what = v.b.what /\ Stored(v, FALSE).b.allocated = v.b.allocated
    BY <2>1, StoredIs
  <2>3. w = Stored(v, FALSE)
    BY DEF v
  <2> HIDE DEF w
  <2>4. QED BY <1>8, <2>1, <2>2, <2>3 DEF Pair
<1> HIDE DEF w
<1>10. c64' \in Computer /\ c64'.text = c64.text /\ SameFile /\ SameAnswer
  <2>1. goes_on \in BOOLEAN
    BY DEF last
  <2> HIDE DEF goes_on
  <2>2. QED BY <2>1, <1>1, <1>4, <1>5 DEF Computer, SameFile, SameAnswer
<1>11. error' \in Nat /\ first' \in BOOLEAN /\ turns' \in Nat /\ faults' \in Nat /\ file' \in Seq(Nat)
  BY <1>1, <1>9, TypedFacts
<1>12. loader' = loader
  BY <1>1 DEF Fixed
<1>13. CASE goes_on
  <2>1. pool' = [pool EXCEPT ![s] = w.b] /\ pc' = "save" /\ mine' = mine
    BY <1>1, <1>2, <1>13
  <2>2. pool' \in Pools /\ One("file")'
    BY <1>2, <1>9, <2>1, ChangedIs
  <2>3. Saving'
    BY <1>1, <1>12, <2>1 DEF Saving
  <2>4. Sending'
    BY <1>3, <1>10, <1>12, <2>1, SendingStays
  <2>5. mine' \subseteq Slot
    BY <2>1, TypedFacts
  <2>6. QED BY <1>1, <1>3, <1>10, <1>11, <2>1, <2>2, <2>3, <2>4, <2>5, HandlerStep
<1>14. CASE ~goes_on
  <2>1. Done(FALSE) /\ mine' = {}
    BY <1>1, <1>14
  <2>2. pool' \in Pools /\ pc' \in {"command", "done"} /\ (pc' = "command" => loader \in ByName)
    <3>1. FALSE \in BOOLEAN
      OBVIOUS
    <3>2. QED BY <2>1, <3>1, <1>3, DoneIs
  <2>3. Saving'
    BY <1>1, <1>12, <2>2 DEF Saving
  <2>4. pc' # "block"
    BY <2>2
  <2>5. Sending'
    BY <1>3, <1>10, <1>12, <2>4, SendingStays
  <2>6. QED BY <1>1, <1>3, <1>10, <1>11, <2>1, <2>2, <2>3, <2>5, HandlerStep
<1>15. QED BY <1>13, <1>14
-----------------------------------------------------------------------------
(***************************************************************************)
(* How it begins.                                                          *)
(***************************************************************************)
LEMMA UnusedIs ==
  /\ Unused \in Pools /\ FreeSlot(Unused) \in Slot /\ FreeSlot(Unused) # 0
  /\ \A s \in Slot : ~Unused[s].allocated /\ Unused[s].what = "nothing"
<1>1. /\ Unused \in Pools
      /\ \A s \in Slot : ~Unused[s].allocated /\ Unused[s].what = "nothing"
  BY FreeIs DEF Unused, Pools
<1> DEFINE S == {s \in Slot : ~Unused[s].allocated}
<1>2. 1 \in S
  BY <1>1, Sizes, LoadersAssumption
<1>3. Lowest(S) \in S
  BY <1>2, LowestIs
<1>4. FreeSlot(Unused) \in Slot
  BY <1>3 DEF FreeSlot
<1>5. QED BY <1>1, <1>4, Sizes

(* The disks are as they were made.                                         *)
LEMMA FirstDisks ==
  ASSUME store = Images
  PROVE  store \in Disks /\ OnDisks
BY Cards DEF OnDisks

(* What is so in every first state.                                         *)
Begun ==
  /\ loader \in Loaders /\ driver \in {"fat", "d64"} /\ pc = "start" /\ mine = {} /\ error = 0 /\ image = 1
  /\ store = Images /\ file = <<>> /\ first = TRUE /\ at = 0 /\ job = 0
  /\ dir_changed = FALSE /\ turns = 0 /\ faults = 0
  /\ c64 \in Computer /\ c64.got = <<>> /\ c64.verdict = "none" /\ ~c64.saved
  /\ c64.want = <<>> /\ c64.heard = <<>>
  /\ pool \in Pools /\ \A s \in Slot : pool[s].what \notin {"sector", "command"}

LEMMA BegunHolds ==
  ASSUME Begun,
         loader \in FileLoaders \ ByName => Unheard,
         loader \in Savers \ ByName =>
           /\ c64.left = c64.text /\ c64.text # <<>>
           /\ \A s \in Slot : pool[s].allocated /\ pool[s].secondary = 1 => Fresh(pool[s])
  PROVE  LoadersInv
<1>1. Typed
  <2>1. first \in BOOLEAN /\ dir_changed \in BOOLEAN /\ at \in Sectors \cup {0} /\ job \in Sectors \cup {0}
        /\ error \in Nat /\ turns \in Nat /\ faults \in Nat /\ file \in Seq(Nat) /\ mine \subseteq Slot
    <3>1. first \in BOOLEAN
      BY DEF Begun
    <3>2. dir_changed \in BOOLEAN
      BY DEF Begun
    <3>3. at \in Sectors \cup {0} /\ job \in Sectors \cup {0} /\ error \in Nat /\ turns \in Nat /\ faults \in Nat
      BY DEF Begun
    <3>4. file \in Seq(Nat) /\ mine \subseteq Slot
      BY DEF Begun
    <3>5. QED BY <3>1, <3>2, <3>3, <3>4
  <2>2. image \in DOMAIN Images /\ store \in Disks
    BY Cards DEF Begun
  <2>3. QED BY <2>1, <2>2 DEF Begun, Typed, Pools
<1>2. Placed
  BY DEF Begun, Placed
<1>3. Owned
  BY DEF Begun, Owned, Served
<1>4. Sending
  <2>1. Begins(c64)
    BY DEF Begun, Begins
  <2>2. QED BY <2>1 DEF Begun, Sending
<1>5. Saving
  BY DEF Begun, Saving
<1>6. Answered
  <2>1. ToldTrue /\ JobsDone
    BY DEF Begun, ToldTrue, JobsDone
  <2>2. OnDisks
    BY FirstDisks DEF Begun
  <2>3. QED BY <2>1, <2>2 DEF Begun, Answered
<1>7. QED BY <1>1, <1>2, <1>3, <1>4, <1>5, <1>6 DEF LoadersInv

(* Nothing is read or written yet for the computer.                         *)
LEMMA NothingAsked ==
  ASSUME NEW t \in Seq(Nat), NEW l \in Seq(Nat)
  PROVE  /\ Named(t, l).want = <<>> /\ NoFileYet.want = <<>>
<1>1. NoFileYet.want = <<>>
  BY DEF NoFileYet, Nobody
<1> DEFINE c == NoFileYet
<1>2. c \in Computer /\ c.want = <<>> /\ Named(t, l) = [c EXCEPT !.text = t, !.left = l]
  BY <1>1, NoFileYetIs DEF Named
<1> HIDE DEF c
<1>3. Named(t, l).want = <<>>
  BY <1>2 DEF Computer
<1>4. QED BY <1>1, <1>3

LEMMA LoadersStart ==
  ASSUME Init
  PROVE  LoadersInv
<1>1. /\ loader \in Loaders /\ driver \in {"fat", "d64"} /\ pc = "start" /\ mine = {} /\ error = 0 /\ image = 1
      /\ store = Images /\ file = <<>> /\ first = TRUE /\ at = 0 /\ job = 0
      /\ dir_changed = FALSE /\ turns = 0 /\ faults = 0
  <2>1. driver \in Drivers \/ driver = "fat"
    BY DEF Init
  <2>2. QED BY <2>1, LoadersAssumption DEF Init
<1>2. ASSUME c64 = NoFileYet
      PROVE  /\ c64 \in Computer /\ c64.got = <<>> /\ c64.verdict = "none" /\ ~c64.saved
             /\ c64.want = <<>> /\ c64.heard = <<>>
  <2>1. <<>> \in Seq(Nat)
    OBVIOUS
  <2>2. QED BY <1>2, <2>1, NoFileYetIs, NothingAsked
<1>3. CASE /\ loader \in (FileLoaders \cup Savers) \ ByName
           /\ \E t \in Texts :
                /\ c64 = [NoFileYet EXCEPT !.text = t, !.left = t]
                /\ pool \in {Unused, IF loader \in Savers THEN NewFile(Unused, 1) ELSE OpenFile(Unused, 0, t)}
  <2>1. PICK t \in Texts :
          /\ c64 = [NoFileYet EXCEPT !.text = t, !.left = t]
          /\ pool \in {Unused, IF loader \in Savers THEN NewFile(Unused, 1) ELSE OpenFile(Unused, 0, t)}
    BY <1>3
  <2>2. t \in Seq(Nat) /\ t # <<>>
    BY TextsAre
  <2>3. c64 = Named(t, t)
    BY <2>1 DEF Named
  <2>4. /\ c64 \in Computer /\ c64.got = <<>> /\ c64.verdict = "none" /\ ~c64.saved /\ c64.text = t /\ c64.left = t
        /\ c64.want = <<>> /\ c64.heard = <<>>
    <3>1. "none" \in Judgements
      BY DEF Judgements
    <3>2. QED BY <2>2, <2>3, <3>1, NamedIs, NothingAsked
  <2>5. CASE pool = Unused
    <3>1. pool \in Pools /\ \A s \in Slot : ~pool[s].allocated /\ pool[s].what = "nothing"
      BY <2>5, UnusedIs
    <3>2. Begun
      BY <1>1, <2>4, <3>1 DEF Begun
    <3>3. Unheard
      BY <2>4, <3>1 DEF Unheard
    <3>4. QED BY <2>2, <2>4, <3>1, <3>2, <3>3, BegunHolds
  <2>6. CASE loader \in Savers /\ pool = NewFile(Unused, 1)
    <3> DEFINE p == Unused  n == FreeSlot(p)
    <3>1. p \in Pools /\ n # 0 /\ \A s \in Slot : ~p[s].allocated /\ p[s].what = "nothing"
      BY UnusedIs
    <3>2. pool = Allocated(p, 1, "file")
      BY <2>6 DEF NewFile
    <3> HIDE DEF p
    <3>3. 1 \in Nat /\ "file" \in Whats
      BY DEF Whats
    <3>4. pool \in Pools /\ n \in Slot /\ pool[n] = New(1, "file") /\ \A s \in Slot : s # n => pool[s] = p[s]
      BY <3>1, <3>2, <3>3, AllocatedIs
    <3> HIDE DEF n
    <3>5. Fresh(pool[n]) /\ pool[n].what = "file"
      BY <3>3, <3>4, NewIs DEF Fresh
    <3>6. \A s \in Slot : s = n \/ (~pool[s].allocated /\ pool[s].what = "nothing")
      BY <3>1, <3>4
    <3>7. Begun
      BY <1>1, <2>4, <3>4, <3>5, <3>6 DEF Begun
    <3>8. loader \notin FileLoaders
      BY <2>6, Kinds
    <3>9. QED BY <2>2, <2>4, <3>5, <3>6, <3>7, <3>8, BegunHolds
  <2>7. CASE loader \notin Savers /\ pool = OpenFile(Unused, 0, t)
    <3> DEFINE p == Unused  n == FreeSlot(p)  c == c64
    <3>1. p \in Pools /\ n # 0 /\ \A s \in Slot : ~p[s].allocated /\ p[s].what = "nothing"
      BY UnusedIs
    <3>2. pool = OpenFile(p, 0, t) /\ c.text = t /\ c.got = <<>>
      BY <2>4, <2>7
    <3> HIDE DEF p, c
    <3>3. /\ pool \in Pools /\ n \in Slot /\ pool[n].what = "file" /\ Reading(pool[n], c)
          /\ \A s \in Slot : s # n => pool[s] = p[s]
      <4> DEFINE q == OpenFile(p, 0, t)
      <4>1. /\ q \in Pools /\ n \in Slot /\ q[n].what = "file" /\ Reading(q[n], c)
            /\ \A s \in Slot : s # n => q[s] = p[s]
        BY <2>2, <3>1, <3>2, OpenedIs
      <4> HIDE DEF q, n
      <4>2. pool = q
        BY <3>2 DEF q
      <4>3. QED BY <4>1, <4>2
    <3> HIDE DEF n
    <3>4. \A s \in Slot : s = n \/ (~pool[s].allocated /\ pool[s].what = "nothing")
      BY <3>1, <3>3
    <3>5. Begun
      BY <1>1, <2>4, <3>3, <3>4 DEF Begun
    <3>6. Unheard
      BY <2>4, <3>3, <3>4 DEF Unheard, c
    <3>7. QED BY <2>7, <3>5, <3>6, BegunHolds
  <2>8. QED BY <2>1, <2>5, <2>6, <2>7
<1>4. CASE loader \in ByName /\ pool = Unused /\ c64 = NoFileYet
  <2>1. Begun
    BY <1>1, <1>2, <1>4, UnusedIs DEF Begun
  <2>2. QED BY <1>4, <2>1, BegunHolds
<1>5. CASE loader \in SectorLoaders \ {"geos_s1"} /\ pool \in {Opened(n) : n \in 0 .. Slots} /\ c64 = NoFileYet
  <2>1. PICK n \in 0 .. Slots : pool = Opened(n)
    BY <1>5
  <2>2. ASSUME NEW s \in Slot
        PROVE  /\ pool[s] \in Buffer /\ pool[s].what \in {"file", "nothing"}
    <3> DEFINE k == 1 + s  x == [Free EXCEPT !.allocated = TRUE, !.secondary = k, !.what = "file"]
    <3>1. k \in Nat /\ "file" \in Whats
      BY Sizes DEF Whats
    <3>2. pool[s] = IF s <= n THEN x ELSE Free
      BY <2>1 DEF Opened
    <3>3. x = New(k, "file")
      BY DEF New
    <3> HIDE DEF k, x
    <3>4. x \in Buffer /\ x.what = "file"
      BY <3>1, <3>3, NewIs
    <3>5. QED BY <3>2, <3>4, FreeIs
  <2>3. pool \in Pools
    <3>1. pool = [s \in Slot |-> pool[s]]
      BY <2>1 DEF Opened
    <3>2. QED BY <2>2, <3>1 DEF Pools
  <2>4. Begun
    BY <1>1, <1>2, <1>5, <2>2, <2>3 DEF Begun
  <2>5. QED BY <1>5, <2>4, Kinds, BegunHolds
<1>6. CASE loader = "geos_s1" /\ pool = alloc_system_buffer(Unused, "capture") /\ c64 = NoFileYet
  <2> DEFINE p == Unused  n == FreeSlot(p)
  <2>1. p \in Pools /\ n # 0 /\ \A s \in Slot : p[s].what = "nothing"
    BY UnusedIs
  <2>2. pool = Allocated(p, System, "capture")
    BY <1>6 DEF alloc_system_buffer
  <2> HIDE DEF p
  <2>3. System \in Nat /\ "capture" \in Whats
    BY DEF Whats, System
  <2>4. pool \in Pools /\ n \in Slot /\ pool[n] = New(System, "capture") /\ \A s \in Slot : s # n => pool[s] = p[s]
    BY <2>1, <2>2, <2>3, AllocatedIs
  <2> HIDE DEF n
  <2>5. pool[n].what = "capture"
    BY <2>3, <2>4, NewIs
  <2>6. Begun
    BY <1>1, <1>2, <1>6, <2>1, <2>4, <2>5 DEF Begun
  <2>7. loader \notin FileLoaders /\ loader \notin Savers
    BY <1>6, LoadersAssumption
  <2>8. QED BY <2>6, <2>7, BegunHolds
<1>7. QED BY <1>3, <1>4, <1>5, <1>6 DEF Init

(***************************************************************************)
(* Every step.                                                             *)
(***************************************************************************)
LEMMA ReadingSteps ==
  ASSUME LoadersInv, ReadOnly \/ ReadAndTransmit \/ ReadLink \/ ReadNippon
  PROVE  LoadersInv'
<1>1. \E loaders, parts : loaders \subseteq {"geos", "wheels", "nippon"} /\ ReadSector(loaders, parts)
  <2>1. CASE ReadOnly
    BY <2>1 DEF ReadOnly
  <2>2. CASE ReadAndTransmit
    BY <2>2 DEF ReadAndTransmit
  <2>3. CASE ReadLink
    BY <2>3 DEF ReadLink
  <2>4. CASE ReadNippon
    BY <2>4 DEF ReadNippon
  <2>5. QED BY <2>1, <2>2, <2>3, <2>4
<1>2. QED BY <1>1, ReadSectorKeeps

LEMMA LoadersGoOn ==
  ASSUME AsUsed, LoadersInv, [Next]_vars
  PROVE  LoadersInv'
<1>1. CASE UNCHANGED vars
  BY <1>1 DEF vars, LoadersInv, Typed, Placed, Owned, Sending, Saving, Answered, One, Kept, Unheard, Served, Keeper,
              ToldTrue, JobsDone, OnDisks, Writer, Data, Addresses
<1>2. CASE StartOnChannel \/ StartCommands \/ StartSectors \/ Sweep \/ GoAway \/ KeyPressed
  BY <1>2, StartOnChannelKeeps, StartCommandsKeeps, StartSectorsKeeps, ReturnsKeep, KeyPressedKeeps
<1>3. CASE LoadChannel \/ LoadByName \/ NotFound \/ LastBlock \/ NextBlock \/ BlockFails \/ Repeating \/ Abort
  BY <1>3, LoadChannelKeeps, LoadByNameKeeps, NotFoundKeeps, LastBlockKeeps, NextBlockKeeps, BlockFailsKeeps,
     RepeatingKeeps, AbortKeeps
<1>4. CASE SaveByName \/ ReceiveBlock \/ Finished \/ SaveAborted \/ ReceiveSector
  BY <1>4, SaveByNameKeeps, ReceiveBlockKeeps, FinishedKeeps, SaveAbortedKeeps, ReceiveSectorKeeps
<1>5. CASE ReadOnly \/ ReadAndTransmit \/ ReadLink \/ ReadNippon \/ Transmit \/ Asked
  BY <1>5, ReadingSteps, TransmitKeeps
<1>6. CASE WriteAndTell \/ WriteNippon \/ NipponOutOfStep
  BY <1>6, WriteSectorKeeps, ReturnsKeep DEF WriteAndTell, WriteNippon
<1>7. CASE WriteCommand \/ DataArrives \/ NoDataArrives \/ ReadCommand \/ Taken \/ CheckChange
  BY <1>7, WriteCommandKeeps, DataArrivesKeeps, NoDataArrivesKeeps, ReadCommandKeeps, TakenKeeps, CheckChangeKeeps
<1>8. CASE JobArrives \/ DoJob \/ ClearJob
  BY <1>8, JobArrivesKeeps, DoJobKeeps, ClearJobKeeps
<1>9. CASE StartChain \/ ChainLoad \/ ChainSave \/ ChainAborted \/ SendChain
  BY <1>9, StartChainKeeps, ChainLoadKeeps, ChainSaveKeeps, ReturnsKeep, SendChainKeeps
<1>10. QED BY <1>1, <1>2, <1>3, <1>4, <1>5, <1>6, <1>7, <1>8, <1>9 DEF Next

(* The loaders keep to their buffers, their files and their sectors, however  *)
(* many buffers there are, however long the files, whatever is on the disks.  *)
THEOREM LoadersInvariant ==
  ASSUME AsUsed
  PROVE  Spec => []LoadersInv
<1>1. Init => LoadersInv
  BY LoadersStart
<1>2. LoadersInv /\ [Next]_vars => LoadersInv'
  BY LoadersGoOn
<1>3. QED BY <1>1, <1>2, PTL DEF Spec

(* What the computer has of a file that is loaded is the beginning of it, and *)
(* all of it when the loader said so: in every protocol, for blocks and files *)
(* of every length, also when a block cannot be read, the loader is called    *)
(* off or the file is not there.                                            *)
THEOREM LoadedAsIs ==
  ASSUME AsUsed
  PROVE  Spec => []WholeOrTold
<1>1. LoadersInv => WholeOrTold
  <2> SUFFICES ASSUME LoadersInv PROVE WholeOrTold
    OBVIOUS
  <2>1. Begins(c64) /\ (c64.verdict = "complete" => c64.got = c64.text)
    BY DEF LoadersInv, Sending
  <2>2. c64.got \in Seq(Int) /\ c64.text \in Seq(Nat)
    BY TypedFacts DEF Computer
  <2>3. Len(c64.got) \in Nat /\ Len(c64.text) \in Nat
    BY <2>2
  <2>4. \A i \in 1 .. Least(Len(c64.got), Len(c64.text)) : c64.got[i] = c64.text[i]
    BY <2>1, <2>3 DEF Begins, Least
  <2>5. QED BY <2>1, <2>4 DEF WholeOrTold
<1>2. QED BY <1>1, LoadersInvariant, PTL

(* A file that a loader stores is what the computer sent, in blocks of its    *)
(* own size, through a buffer that is flushed when it is full, on a card or   *)
(* in a disk image.                                                        *)
THEOREM StoredAsLoaded ==
  ASSUME AsUsed
  PROVE  Spec => []SavedAsSent
<1>1. LoadersInv => SavedAsSent
  BY DEF LoadersInv, Saving, SavedAsSent
<1>2. QED BY <1>1, LoadersInvariant, PTL

(* A loader that serves sectors never says that all is well when it is not;   *)
(* nothing gets on a disk that was not sent, and Dreamload does every job.    *)
THEOREM SectorsServed ==
  ASSUME AsUsed
  PROVE  Spec => []SectorsAsTold
<1>1. LoadersInv => SectorsAsTold
  BY DEF LoadersInv, Answered, SectorsAsTold
<1>2. QED BY <1>1, LoadersInvariant, PTL

(* As long as a loader runs, its buffers are its own: no key, no other file   *)
(* and no second buffer takes them away.                                    *)
THEOREM HandlersKeepBuffers ==
  ASSUME AsUsed
  PROVE  Spec => []BuffersKept
<1>1. LoadersInv => BuffersKept
  <2> SUFFICES ASSUME LoadersInv, pc \notin {"done", "over"}, NEW s \in mine
               PROVE  pool[s].allocated /\ pool[s].what \in {"file", "sector", "command"}
    BY DEF BuffersKept
  <2>1. Typed /\ Owned /\ Placed /\ loader \in Loaders
    BY TypedFacts
  <2>2. CASE pc \in {"block", "save"}
    BY <2>1, <2>2 DEF Owned, One
  <2>3. CASE pc \in Served
    <3>1. loader \in SectorLoaders
      BY <2>1, <2>3 DEF Owned
    <3>2. CASE loader = "uload3"
      BY <2>1, <2>3, <3>1, <3>2 DEF Owned, One
    <3>3. CASE loader # "uload3"
      BY <2>1, <2>3, <3>1, <3>3 DEF Owned, Keeper, Kept
    <3>4. QED BY <3>2, <3>3
  <2>4. CASE pc = "start"
    BY <2>1, <2>4 DEF Owned
  <2>5. QED BY <2>1, <2>2, <2>3, <2>4 DEF Typed, Served
<1>2. QED BY <1>1, LoadersInvariant, PTL
=============================================================================
