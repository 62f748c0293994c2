--------------------------- MODULE ChannelProofs ---------------------------
(***************************************************************************)
(* The invariants of module Channels, for every pool size, every set of    *)
(* channels and partitions.                                                *)
(*                                                                         *)
(* A handler of Channels builds its outcome from a work record (the pool,  *)
(* the uses and the two BAM pointers) by a few operators.  WF is what each  *)
(* of them preserves of that record; the inductive invariant IInv says that *)
(* the state is such a record, with nothing left to collect.                *)
(***************************************************************************)
EXTENDS Channels, FiniteSetTheorems, TLAPS

(***************************************************************************)
(* The operators of module Buffers, for every pool size: each keeps the     *)
(* counter byte active_buffers and the LEDs in step with the buffers, and   *)
(* does to the buffers what its users rely on.                             *)
(***************************************************************************)

(* What every operator of the pool preserves. *)
PoolOK(p) ==
  /\ p \in Pools
  /\ p.dirty \subseteq p.allocated
  /\ ActiveExact(p)
  /\ LedsExact(p)

-----------------------------------------------------------------------------
(* Sets of buffers are finite, and no larger than the pool. *)
LEMMA IdxFinite ==
  ASSUME NEW S \in SUBSET Idx
  PROVE  IsFiniteSet(S) /\ Cardinality(S) \in 0 .. 15
<1>1. IsFiniteSet(Idx) /\ Cardinality(Idx) = Count
  BY FS_Interval, CountAssumption DEF Idx
<1>2. IsFiniteSet(S) /\ Cardinality(S) <= Cardinality(Idx)
  BY <1>1, FS_Subset
<1>3. Cardinality(S) \in Nat
  BY <1>2, FS_CardinalityType
<1> QED
  BY <1>1, <1>2, <1>3, CountAssumption

(* Both counts fit in the counter byte, so its arithmetic never wraps. *)
LEMMA ByteFits ==
  ASSUME NEW U \in SUBSET Idx, NEW D \in SUBSET Idx
  PROVE  /\ Cardinality(U) + 16 * Cardinality(D) \in 0 .. 255
         /\ Byte(Cardinality(U) + 16 * Cardinality(D))
              = Cardinality(U) + 16 * Cardinality(D)
<1>1. Cardinality(U) \in 0 .. 15 /\ Cardinality(D) \in 0 .. 15
  BY IdxFinite
<1> QED
  BY <1>1 DEF Byte

LEMMA DisjointUnion ==
  ASSUME NEW S, NEW T, IsFiniteSet(S), IsFiniteSet(T), S \cap T = {}
  PROVE  Cardinality(S \cup T) = Cardinality(S) + Cardinality(T)
<1>1. Cardinality(S \cup T) = Cardinality(S) + Cardinality(T) - Cardinality(S \cap T)
  BY FS_Union
<1>2. Cardinality(S) \in Nat /\ Cardinality(T) \in Nat /\ Cardinality(S \cap T) = 0
  BY FS_CardinalityType, FS_EmptySet
<1> QED
  BY <1>1, <1>2

(* A set of buffers that is not empty has a lowest member. *)
LEMMA LowestBuffer ==
  ASSUME NEW S \in SUBSET Idx, S # {}
  PROVE  \E i \in S : \A j \in S : i <= j
<1> DEFINE R == {ss \in Nat \X Nat : ss[1] < ss[2]}
<1>1. IsWellFoundedOn(R, Nat)
  BY NatLessThanWellFounded DEF OpToRel
<1>2. S \subseteq Nat
  BY CountAssumption DEF Idx
<1>3. \A i, j \in Nat : j < i => <<j, i>> \in R
  OBVIOUS
<1>4. PICK i \in S : \A j \in S : ~(<<j, i>> \in R)
  <2> HIDE DEF R
  <2> QED BY <1>1, <1>2, WFMin
<1>5. ASSUME NEW j \in S
      PROVE  i <= j
  <2>1. i \in Nat /\ j \in Nat /\ ~(<<j, i>> \in R)
    BY <1>2, <1>4
  <2>2. ~(j < i)
    BY <1>3, <2>1
  <2> QED BY <2>1, <2>2
<1> QED
  BY <1>5

(***************************************************************************)
(* Choosing a buffer.                                                      *)
(***************************************************************************)
LEMMA FirstFreeIsFree ==
  ASSUME NEW p \in Pools, Unallocated(p) # {}
  PROVE  FirstFree(p) \in Unallocated(p)
<1>1. Unallocated(p) \in SUBSET Idx
  BY DEF Unallocated
<1>2. \E i \in Unallocated(p) : \A j \in Unallocated(p) : i <= j
  BY <1>1, LowestBuffer
<1> QED
  BY <1>2 DEF FirstFree

LEMMA FindBufferFinds ==
  ASSUME NEW p \in Pools, NEW s, Holds(p, s)
  PROVE  find_buffer(p, s) \in p.allocated /\ p.secondary[find_buffer(p, s)] = s
<1> DEFINE S == {i \in p.allocated : p.secondary[i] = s}
<1>1. S \in SUBSET Idx /\ S # {}
  BY DEF Pools, Holds
<1>2. PICK i \in S : \A j \in S : i <= j
  <2> HIDE DEF S
  <2> QED BY <1>1, LowestBuffer
<1>3. \E k \in p.allocated :
        /\ p.secondary[k] = s
        /\ \A j \in p.allocated : p.secondary[j] = s => k <= j
  BY <1>2
<1> QED
  BY <1>3 DEF find_buffer

LEMMA LinkedStartFits ==
  ASSUME NEW p \in Pools, NEW n \in Nat \ {0}, Runs(p, n) # {}
  PROVE  /\ LinkedStart(p, n) \in Idx
         /\ LinkedStart(p, n) + n <= Count
         /\ LinkedStart(p, n) .. (LinkedStart(p, n) + n - 1) \subseteq Unallocated(p)
<1>1. Runs(p, n) \in SUBSET Idx
  BY DEF Runs
<1>2. PICK s \in Runs(p, n) : \A t \in Runs(p, n) : s <= t
  BY <1>1, LowestBuffer
<1>3. LinkedStart(p, n) \in Runs(p, n)
  BY <1>2 DEF LinkedStart
<1> QED
  BY <1>3 DEF Runs

(***************************************************************************)
(* Accounting through every operator.                                      *)
(***************************************************************************)
LEMMA InitialPool == PoolOK(buffers_init)
<1>1. UserBuffers(buffers_init) = {} /\ DirtyBuffers(buffers_init) = {}
  BY DEF UserBuffers, DirtyBuffers, buffers_init
<1>2. buffers_init \in Pools
  BY CountAssumption DEF buffers_init, Pools, Idx, Secondary
<1> QED
  BY <1>1, <1>2, FS_EmptySet DEF PoolOK, ActiveExact, LedsExact, buffers_init

LEMMA AllocSpecific ==
  ASSUME NEW p \in Pools, NEW i \in Idx, NEW r, r = alloc_specific_buffer(p, i)
  PROVE  /\ r \in Pools
         /\ r.allocated = p.allocated \cup {i}
         /\ r.sticky = p.sticky \ {i}
         /\ r.dirty = p.dirty \ {i}
         /\ r.secondary = [p.secondary EXCEPT ![i] = SecSystem]
         /\ r.first = [p.first EXCEPT ![i] = i]
         /\ r.size = [p.size EXCEPT ![i] = 0]
         /\ r.active = p.active
         /\ r.busyLed = p.busyLed
         /\ r.dirtyLed = p.dirtyLed
<1>1. SecSystem \in Secondary /\ 0 \in 0 .. Count
  BY CountAssumption DEF SecSystem, Secondary
<1>2. /\ r.allocated = p.allocated \cup {i}
      /\ r.sticky = p.sticky \ {i}
      /\ r.dirty = p.dirty \ {i}
      /\ r.secondary = [p.secondary EXCEPT ![i] = SecSystem]
      /\ r.first = [p.first EXCEPT ![i] = i]
      /\ r.size = [p.size EXCEPT ![i] = 0]
  BY DEF alloc_specific_buffer, Pools
<1>3. /\ r.active = p.active
      /\ r.busyLed = p.busyLed
      /\ r.dirtyLed = p.dirtyLed
  BY DEF alloc_specific_buffer, Pools
<1>4. r = [allocated |-> r.allocated, sticky |-> r.sticky, dirty |-> r.dirty,
           secondary |-> r.secondary, first |-> r.first, size |-> r.size,
           active |-> r.active, busyLed |-> r.busyLed, dirtyLed |-> r.dirtyLed]
  BY DEF alloc_specific_buffer, Pools
<1>5. /\ [p.secondary EXCEPT ![i] = SecSystem] \in [Idx -> Secondary]
      /\ [p.first EXCEPT ![i] = i] \in [Idx -> Idx]
      /\ [p.size EXCEPT ![i] = 0] \in [Idx -> 0 .. Count]
  BY <1>1 DEF Pools
<1>6. r \in Pools
  BY <1>2, <1>3, <1>4, <1>5 DEF Pools
<1> QED
  BY <1>2, <1>3, <1>6

LEMMA AllocSystem ==
  ASSUME NEW p, PoolOK(p), Unallocated(p) # {},
         NEW sec \in Secondary, sec >= SecSystem,
         NEW q, q = alloc_system_buffer(p, sec),
         NEW i, i = FirstFree(p)
  PROVE  /\ PoolOK(q)
         /\ i \in Idx /\ i \notin p.allocated
         /\ q.allocated = p.allocated \cup {i}
         /\ q.sticky = p.sticky \ {i}
         /\ q.dirty = p.dirty \ {i}
         /\ q.secondary = [p.secondary EXCEPT ![i] = sec]
         /\ q.first = [p.first EXCEPT ![i] = i]
         /\ q.size = [p.size EXCEPT ![i] = 0]
<1>1. i \in Idx /\ i \notin p.allocated /\ p \in Pools
  BY FirstFreeIsFree DEF PoolOK, Unallocated
<1> DEFINE r == alloc_specific_buffer(p, i)
<1>2. q = [r EXCEPT !.secondary[i] = sec]
  BY DEF alloc_system_buffer
<1> HIDE DEF r
<1>3. /\ r \in Pools
      /\ r.allocated = p.allocated \cup {i}
      /\ r.sticky = p.sticky \ {i}
      /\ r.dirty = p.dirty \ {i}
      /\ r.secondary = [p.secondary EXCEPT ![i] = SecSystem]
      /\ r.first = [p.first EXCEPT ![i] = i]
      /\ r.size = [p.size EXCEPT ![i] = 0]
      /\ r.active = p.active
      /\ r.busyLed = p.busyLed
      /\ r.dirtyLed = p.dirtyLed
  BY <1>1, AllocSpecific DEF r
<1>4. q \in Pools
  BY <1>1, <1>2, <1>3 DEF Pools
<1>5. /\ q.allocated = p.allocated \cup {i}
      /\ q.sticky = p.sticky \ {i}
      /\ q.dirty = p.dirty \ {i}
      /\ q.secondary = [p.secondary EXCEPT ![i] = sec]
      /\ q.first = [p.first EXCEPT ![i] = i]
      /\ q.size = [p.size EXCEPT ![i] = 0]
      /\ q.active = p.active
      /\ q.busyLed = p.busyLed
      /\ q.dirtyLed = p.dirtyLed
  BY <1>1, <1>2, <1>3 DEF Pools
<1>6. UserBuffers(q) = UserBuffers(p)
  BY <1>1, <1>5 DEF Pools, UserBuffers, SecSystem, Secondary
<1>7. DirtyBuffers(q) = DirtyBuffers(p) /\ q.dirty \subseteq q.allocated
  BY <1>1, <1>5 DEF PoolOK, DirtyBuffers
<1>8. PoolOK(q)
  BY <1>4, <1>5, <1>6, <1>7 DEF PoolOK, ActiveExact, LedsExact
<1> QED
  BY <1>1, <1>5, <1>8

LEMMA AllocBuffer ==
  ASSUME NEW p, PoolOK(p), Unallocated(p) # {},
         NEW sec \in Secondary, sec < SecSystem,
         NEW q, q = alloc_buffer(p, sec),
         NEW i, i = FirstFree(p)
  PROVE  /\ PoolOK(q)
         /\ i \in Idx /\ i \notin p.allocated
         /\ q.allocated = p.allocated \cup {i}
         /\ q.sticky = p.sticky \ {i}
         /\ q.dirty = p.dirty \ {i}
         /\ q.secondary = [p.secondary EXCEPT ![i] = sec]
         /\ q.first = [p.first EXCEPT ![i] = i]
         /\ q.size = [p.size EXCEPT ![i] = 0]
<1>1. i \in Idx /\ i \notin p.allocated /\ p \in Pools
  BY FirstFreeIsFree DEF PoolOK, Unallocated
<1> DEFINE r == alloc_specific_buffer(p, i)
<1>2. q = [r EXCEPT !.secondary[i] = sec, !.active = Byte(@ + 1), !.busyLed = TRUE]
  BY DEF alloc_buffer
<1> HIDE DEF r
<1>3. /\ r \in Pools
      /\ r.allocated = p.allocated \cup {i}
      /\ r.sticky = p.sticky \ {i}
      /\ r.dirty = p.dirty \ {i}
      /\ r.secondary = [p.secondary EXCEPT ![i] = SecSystem]
      /\ r.first = [p.first EXCEPT ![i] = i]
      /\ r.size = [p.size EXCEPT ![i] = 0]
      /\ r.active = p.active
      /\ r.busyLed = p.busyLed
      /\ r.dirtyLed = p.dirtyLed
  BY <1>1, AllocSpecific DEF r
<1>4. /\ q.allocated = p.allocated \cup {i}
      /\ q.sticky = p.sticky \ {i}
      /\ q.dirty = p.dirty \ {i}
      /\ q.secondary = [p.secondary EXCEPT ![i] = sec]
      /\ q.first = [p.first EXCEPT ![i] = i]
      /\ q.size = [p.size EXCEPT ![i] = 0]
      /\ q.active = Byte(p.active + 1)
      /\ q.busyLed = TRUE
      /\ q.dirtyLed = p.dirtyLed
  BY <1>1, <1>2, <1>3 DEF Pools
<1>5. UserBuffers(q) = UserBuffers(p) \cup {i} /\ i \notin UserBuffers(p)
  BY <1>1, <1>4 DEF Pools, UserBuffers
<1>6. DirtyBuffers(q) = DirtyBuffers(p) /\ q.dirty \subseteq q.allocated
  BY <1>1, <1>4 DEF PoolOK, DirtyBuffers
<1>7. /\ UserBuffers(p) \in SUBSET Idx /\ UserBuffers(q) \in SUBSET Idx
      /\ DirtyBuffers(p) \in SUBSET Idx
  BY <1>1, <1>5 DEF Pools, UserBuffers, DirtyBuffers
<1>8. Cardinality(UserBuffers(q)) = Cardinality(UserBuffers(p)) + 1
  BY <1>5, <1>7, IdxFinite, FS_AddElement
<1>9. /\ Cardinality(UserBuffers(p)) \in Nat /\ Cardinality(DirtyBuffers(p)) \in Nat
      /\ p.active = Cardinality(UserBuffers(p)) + 16 * Cardinality(DirtyBuffers(p))
  BY <1>7, IdxFinite DEF PoolOK, ActiveExact
<1>10. p.active + 1 = Cardinality(UserBuffers(q)) + 16 * Cardinality(DirtyBuffers(p))
  BY <1>8, <1>9
<1>11. /\ Byte(p.active + 1) = Cardinality(UserBuffers(q)) + 16 * Cardinality(DirtyBuffers(p))
       /\ Byte(p.active + 1) \in 0 .. 255
  BY <1>7, <1>10, ByteFits
<1>12. ActiveExact(q)
  BY <1>4, <1>6, <1>11 DEF ActiveExact
<1>13. LedsExact(q)
  BY <1>4, <1>6 DEF PoolOK, LedsExact
<1>14. q \in Pools
  <2>1. q = [allocated |-> q.allocated, sticky |-> q.sticky, dirty |-> q.dirty,
             secondary |-> q.secondary, first |-> q.first, size |-> q.size,
             active |-> q.active, busyLed |-> q.busyLed, dirtyLed |-> q.dirtyLed]
    BY <1>2, <1>3 DEF Pools
  <2>2. /\ [p.secondary EXCEPT ![i] = sec] \in [Idx -> Secondary]
        /\ [p.first EXCEPT ![i] = i] \in [Idx -> Idx]
        /\ [p.size EXCEPT ![i] = 0] \in [Idx -> 0 .. Count]
    <3>1. 0 \in 0 .. Count
      BY CountAssumption
    <3>2. p.secondary \in [Idx -> Secondary] /\ p.first \in [Idx -> Idx]
          /\ p.size \in [Idx -> 0 .. Count] /\ i \in Idx
      BY <1>1 DEF Pools
    <3> QED
      BY <3>1, <3>2
  <2>3. /\ q.allocated \in SUBSET Idx /\ q.sticky \in SUBSET Idx /\ q.dirty \in SUBSET Idx
        /\ q.active \in 0 .. 255 /\ q.busyLed \in BOOLEAN /\ q.dirtyLed \in BOOLEAN
    BY <1>1, <1>4, <1>11 DEF Pools
  <2>4. /\ q.secondary \in [Idx -> Secondary]
        /\ q.first \in [Idx -> Idx]
        /\ q.size \in [Idx -> 0 .. Count]
    BY <1>4, <2>2
  <2> QED
    BY <2>1, <2>3, <2>4 DEF Pools
<1> QED
  BY <1>1, <1>4, <1>6, <1>12, <1>13, <1>14 DEF PoolOK

(* The n buffers from start on. *)
Span(start, n) == start .. (start + n - 1)

(* Pool q is p with the buffers M allocated as a chain.                     *)
LinkedMade(p, n, sec, q, start, M) ==
  /\ PoolOK(q)
  /\ start \in Idx /\ start + n <= Count
  /\ M \subseteq Idx /\ M \cap p.allocated = {}
  /\ q.allocated = p.allocated \cup M
  /\ q.sticky = p.sticky \ M
  /\ q.dirty = p.dirty \ M
  /\ q.secondary = [k \in Idx |-> IF k \in M THEN sec ELSE p.secondary[k]]
  /\ q.first = [k \in Idx |-> IF k \in M THEN start ELSE p.first[k]]
  /\ q.size = [k \in Idx |-> IF k \in M THEN n ELSE p.size[k]]

LEMMA AllocLinked ==
  ASSUME NEW p, PoolOK(p), NEW n \in Nat \ {0}, Runs(p, n) # {},
         NEW sec \in Secondary, sec < SecSystem
  PROVE  LinkedMade(p, n, sec, alloc_linked_buffers(p, n, sec), LinkedStart(p, n),
                    Span(LinkedStart(p, n), n))
<1> DEFINE q == alloc_linked_buffers(p, n, sec)
           start == LinkedStart(p, n)
           members == Span(start, n)
<1>0. /\ q = alloc_linked_buffers(p, n, sec)
      /\ start = LinkedStart(p, n) /\ members = start .. (start + n - 1)
  BY DEF Span
<1> HIDE DEF q, start, members
<1>1. /\ p \in Pools
      /\ start \in Idx /\ start + n <= Count
      /\ members \subseteq Idx /\ members \cap p.allocated = {}
  BY <1>0, LinkedStartFits DEF PoolOK, Unallocated
<1>2. /\ q.allocated = p.allocated \cup members
      /\ q.sticky = p.sticky \ members
      /\ q.dirty = p.dirty \ members
      /\ q.secondary = [k \in Idx |-> IF k \in members THEN sec ELSE p.secondary[k]]
      /\ q.first = [k \in Idx |-> IF k \in members THEN start ELSE p.first[k]]
      /\ q.size = [k \in Idx |-> IF k \in members THEN n ELSE p.size[k]]
      /\ q.active = Byte(p.active + n)
      /\ q.busyLed = TRUE
      /\ q.dirtyLed = p.dirtyLed
      /\ q = [allocated |-> q.allocated, sticky |-> q.sticky, dirty |-> q.dirty,
              secondary |-> q.secondary, first |-> q.first, size |-> q.size,
              active |-> q.active, busyLed |-> q.busyLed, dirtyLed |-> q.dirtyLed]
  BY <1>0, <1>1 DEF Pools, alloc_linked_buffers
<1>3. UserBuffers(q) = UserBuffers(p) \cup members /\ UserBuffers(p) \cap members = {}
  BY <1>1, <1>2 DEF Pools, UserBuffers
<1>4. DirtyBuffers(q) = DirtyBuffers(p) /\ q.dirty \subseteq q.allocated
  BY <1>1, <1>2 DEF PoolOK, DirtyBuffers
<1>5. /\ UserBuffers(p) \in SUBSET Idx /\ UserBuffers(q) \in SUBSET Idx
      /\ DirtyBuffers(p) \in SUBSET Idx
  BY <1>1, <1>3 DEF Pools, UserBuffers, DirtyBuffers
<1>6. IsFiniteSet(members) /\ Cardinality(members) = n
  <2>1. start \in Int /\ start + n - 1 \in Int /\ ~(start > start + n - 1)
    BY <1>0, <1>1, CountAssumption DEF Idx
  <2>2. /\ IsFiniteSet(start .. (start + n - 1))
        /\ Cardinality(start .. (start + n - 1)) = (start + n - 1) - start + 1
    BY <2>1, FS_Interval
  <2> QED
    BY <1>0, <1>1, <2>1, <2>2
<1>7. Cardinality(UserBuffers(q)) = Cardinality(UserBuffers(p)) + n
  <2>1. IsFiniteSet(UserBuffers(p))
    BY <1>5, IdxFinite
  <2> QED
    BY <2>1, <1>3, <1>6, DisjointUnion
<1>8. /\ Cardinality(UserBuffers(p)) \in Nat /\ Cardinality(DirtyBuffers(p)) \in Nat
      /\ p.active = Cardinality(UserBuffers(p)) + 16 * Cardinality(DirtyBuffers(p))
  BY <1>5, IdxFinite DEF PoolOK, ActiveExact
<1>9. p.active + n = Cardinality(UserBuffers(q)) + 16 * Cardinality(DirtyBuffers(p))
  BY <1>7, <1>8
<1>10. /\ Byte(p.active + n) = Cardinality(UserBuffers(q)) + 16 * Cardinality(DirtyBuffers(p))
       /\ Byte(p.active + n) \in 0 .. 255
  BY <1>5, <1>9, ByteFits
<1>11. ActiveExact(q)
  BY <1>2, <1>4, <1>10 DEF ActiveExact
<1>12. LedsExact(q)
  <2>1. start \in members
    BY <1>0, <1>1, CountAssumption DEF Idx
  <2> QED
    BY <1>2, <1>4, <2>1 DEF PoolOK, LedsExact
<1>13. q \in Pools
  <2>1. n \in 0 .. Count
    BY <1>1, CountAssumption DEF Idx
  <2>2. /\ q.secondary \in [Idx -> Secondary]
        /\ q.first \in [Idx -> Idx]
        /\ q.size \in [Idx -> 0 .. Count]
    BY <1>1, <1>2, <2>1 DEF Pools
  <2>3. /\ q.allocated \in SUBSET Idx /\ q.sticky \in SUBSET Idx /\ q.dirty \in SUBSET Idx
        /\ q.active \in 0 .. 255 /\ q.busyLed \in BOOLEAN /\ q.dirtyLed \in BOOLEAN
    BY <1>1, <1>2, <1>10 DEF Pools
  <2>4. q = [allocated |-> q.allocated, sticky |-> q.sticky, dirty |-> q.dirty,
             secondary |-> q.secondary, first |-> q.first, size |-> q.size,
             active |-> q.active, busyLed |-> q.busyLed, dirtyLed |-> q.dirtyLed]
    BY <1>2
  <2> QED
    BY <2>2, <2>3, <2>4 DEF Pools
<1>14. LinkedMade(p, n, sec, q, start, members)
  BY <1>1, <1>2, <1>4, <1>11, <1>12, <1>13 DEF PoolOK, LinkedMade
<1> QED
  BY <1>14 DEF q, start, members

LEMMA StickBuffers ==
  ASSUME NEW p, PoolOK(p), NEW S \in SUBSET Idx, NEW q, q = stick_buffers(p, S)
  PROVE  PoolOK(q) /\ q = [p EXCEPT !.sticky = p.sticky \cup S]
<1>1. p \in Pools /\ q = [p EXCEPT !.sticky = p.sticky \cup S]
  BY DEF PoolOK, stick_buffers
<1>2. q \in Pools
  BY <1>1 DEF Pools
<1>3. /\ q.allocated = p.allocated /\ q.dirty = p.dirty /\ q.secondary = p.secondary
      /\ q.active = p.active /\ q.busyLed = p.busyLed /\ q.dirtyLed = p.dirtyLed
  BY <1>1 DEF Pools
<1>4. UserBuffers(q) = UserBuffers(p) /\ DirtyBuffers(q) = DirtyBuffers(p)
  BY <1>3 DEF UserBuffers, DirtyBuffers
<1> QED
  BY <1>1, <1>2, <1>3, <1>4 DEF PoolOK, ActiveExact, LedsExact

(* A change of the secondary addresses among the user buffers, of the chain *)
(* fields and of the sticky flags leaves the accounting alone.               *)
LEMMA SameUsers ==
  ASSUME NEW p, PoolOK(p), NEW q \in Pools,
         q.allocated = p.allocated, q.dirty = p.dirty, q.active = p.active,
         q.busyLed = p.busyLed, q.dirtyLed = p.dirtyLed,
         \A k \in p.allocated : q.secondary[k] < SecSystem <=> p.secondary[k] < SecSystem
  PROVE  PoolOK(q)
<1>1. UserBuffers(q) = UserBuffers(p) /\ DirtyBuffers(q) = DirtyBuffers(p)
  BY DEF UserBuffers, DirtyBuffers
<1> QED
  BY <1>1 DEF PoolOK, ActiveExact, LedsExact

LEMMA MarkDirty ==
  ASSUME NEW p, PoolOK(p), NEW i \in p.allocated, NEW q, q = mark_buffer_dirty(p, i)
  PROVE  /\ PoolOK(q)
         /\ q.allocated = p.allocated /\ q.sticky = p.sticky
         /\ q.secondary = p.secondary /\ q.first = p.first /\ q.size = p.size
         /\ q.dirty = p.dirty \cup {i}
<1>1. CASE i \in p.dirty
  <2>1. q = p
    BY <1>1 DEF mark_buffer_dirty
  <2> QED
    BY <1>1, <2>1
<1>2. CASE i \notin p.dirty
  <2>1. p \in Pools /\ i \in Idx
    BY DEF PoolOK, Pools
  <2>2. q = [p EXCEPT !.dirty = @ \cup {i}, !.active = Byte(@ + 16), !.dirtyLed = TRUE]
    BY <1>2 DEF mark_buffer_dirty
  <2>3. /\ q.allocated = p.allocated /\ q.sticky = p.sticky
        /\ q.secondary = p.secondary /\ q.first = p.first /\ q.size = p.size
        /\ q.dirty = p.dirty \cup {i}
        /\ q.active = Byte(p.active + 16)
        /\ q.busyLed = p.busyLed /\ q.dirtyLed = TRUE
    BY <2>1, <2>2 DEF Pools
  <2>4. UserBuffers(q) = UserBuffers(p)
    BY <2>3 DEF UserBuffers
  <2>5. /\ DirtyBuffers(q) = DirtyBuffers(p) \cup {i} /\ i \notin DirtyBuffers(p)
        /\ q.dirty \subseteq q.allocated
    BY <1>2, <2>3 DEF PoolOK, DirtyBuffers
  <2>6. /\ UserBuffers(p) \in SUBSET Idx
        /\ DirtyBuffers(p) \in SUBSET Idx /\ DirtyBuffers(q) \in SUBSET Idx
    BY <2>1, <2>5 DEF Pools, UserBuffers, DirtyBuffers
  <2>7. Cardinality(DirtyBuffers(q)) = Cardinality(DirtyBuffers(p)) + 1
    BY <2>5, <2>6, IdxFinite, FS_AddElement
  <2>8. /\ Cardinality(UserBuffers(p)) \in Nat /\ Cardinality(DirtyBuffers(p)) \in Nat
        /\ p.active = Cardinality(UserBuffers(p)) + 16 * Cardinality(DirtyBuffers(p))
    BY <2>6, IdxFinite DEF PoolOK, ActiveExact
  <2>9. p.active + 16 = Cardinality(UserBuffers(p)) + 16 * Cardinality(DirtyBuffers(q))
    BY <2>7, <2>8
  <2>10. q.active = Cardinality(UserBuffers(q)) + 16 * Cardinality(DirtyBuffers(q))
    BY <2>3, <2>4, <2>6, <2>9, ByteFits
  <2>11. q.active \in 0 .. 255
    BY <2>4, <2>6, <2>10, ByteFits
  <2>12. q \in Pools
    BY <2>1, <2>2, <2>3, <2>11 DEF Pools
  <2>13. LedsExact(q)
    BY <2>3, <2>4, <2>5 DEF PoolOK, LedsExact
  <2> QED
    BY <2>3, <2>5, <2>10, <2>12, <2>13 DEF PoolOK, ActiveExact
<1> QED
  BY <1>1, <1>2

LEMMA MarkClean ==
  ASSUME NEW p, PoolOK(p), NEW i \in p.allocated, NEW q, q = mark_buffer_clean(p, i)
  PROVE  /\ PoolOK(q)
         /\ q.allocated = p.allocated /\ q.sticky = p.sticky
         /\ q.secondary = p.secondary /\ q.first = p.first /\ q.size = p.size
         /\ q.dirty = p.dirty \ {i}
<1>1. CASE i \notin p.dirty
  <2>1. q = p
    BY <1>1 DEF mark_buffer_clean
  <2> QED
    BY <1>1, <2>1
<1>2. CASE i \in p.dirty
  <2> DEFINE left == Byte(p.active - 16)
  <2>1. p \in Pools /\ i \in Idx
    BY DEF PoolOK, Pools
  <2>2. q = [p EXCEPT !.dirty    = @ \ {i},
                      !.active   = left,
                      !.dirtyLed = IF left \div 16 = 0 THEN FALSE ELSE @]
    BY <1>2 DEF mark_buffer_clean
  <2> HIDE DEF left
  <2>3. /\ q.allocated = p.allocated /\ q.sticky = p.sticky
        /\ q.secondary = p.secondary /\ q.first = p.first /\ q.size = p.size
        /\ q.dirty = p.dirty \ {i}
        /\ q.active = left
        /\ q.busyLed = p.busyLed
        /\ q.dirtyLed = IF left \div 16 = 0 THEN FALSE ELSE p.dirtyLed
    BY <2>1, <2>2 DEF Pools
  <2>4. UserBuffers(q) = UserBuffers(p)
    BY <2>3 DEF UserBuffers
  <2>5. /\ DirtyBuffers(q) = DirtyBuffers(p) \ {i} /\ i \in DirtyBuffers(p)
        /\ q.dirty \subseteq q.allocated
    BY <1>2, <2>3 DEF PoolOK, DirtyBuffers
  <2>6. /\ UserBuffers(p) \in SUBSET Idx
        /\ DirtyBuffers(p) \in SUBSET Idx /\ DirtyBuffers(q) \in SUBSET Idx
    BY <2>1, <2>5 DEF Pools, UserBuffers, DirtyBuffers
  <2>7. Cardinality(DirtyBuffers(q)) = Cardinality(DirtyBuffers(p)) - 1
    BY <2>5, <2>6, IdxFinite, FS_RemoveElement
  <2>8. /\ Cardinality(UserBuffers(p)) \in 0 .. 15 /\ Cardinality(DirtyBuffers(p)) \in 0 .. 15
        /\ Cardinality(DirtyBuffers(q)) \in 0 .. 15
        /\ p.active = Cardinality(UserBuffers(p)) + 16 * Cardinality(DirtyBuffers(p))
    BY <2>6, IdxFinite DEF PoolOK, ActiveExact
  <2>9. p.active - 16 = Cardinality(UserBuffers(p)) + 16 * Cardinality(DirtyBuffers(q))
    BY <2>7, <2>8
  <2>10. left = Cardinality(UserBuffers(p)) + 16 * Cardinality(DirtyBuffers(q))
    BY <2>6, <2>9, ByteFits DEF left
  <2>11. left \in 0 .. 255
    BY <2>6, <2>10, ByteFits
  <2>12. left \div 16 = Cardinality(DirtyBuffers(q))
    BY <2>8, <2>10
  <2>13. q \in Pools
    BY <2>1, <2>2, <2>3, <2>11 DEF Pools
  <2>14. DirtyBuffers(q) = {} <=> Cardinality(DirtyBuffers(q)) = 0
    BY <2>6, IdxFinite, FS_EmptySet
  <2>15. LedsExact(q)
    BY <2>3, <2>4, <2>5, <2>12, <2>14 DEF PoolOK, LedsExact
  <2> QED
    BY <2>3, <2>4, <2>5, <2>10, <2>13, <2>15 DEF PoolOK, ActiveExact
<1> QED
  BY <1>1, <1>2

LEMMA FreeBuffers ==
  ASSUME NEW p, PoolOK(p), NEW S, NEW q, q = free_buffers(p, S)
  PROVE  /\ PoolOK(q)
         /\ q.allocated = p.allocated \ S
         /\ q.dirty \subseteq p.dirty /\ p.dirty \ S \subseteq q.dirty
         /\ q.sticky \subseteq p.sticky /\ p.sticky \ S \subseteq q.sticky
         /\ \A k \in q.allocated :
              /\ q.secondary[k] = p.secondary[k]
              /\ q.first[k] = p.first[k]
              /\ q.size[k] = p.size[k]
<1> DEFINE freed == S \cap p.allocated
           dirty == freed \cap p.dirty
           user  == {i \in freed : p.secondary[i] < SecSystem}
           sec   == [i \in Idx |-> IF i \in freed THEN 0 ELSE p.secondary[i]]
           fst   == [i \in Idx |-> IF i \in freed THEN i ELSE p.first[i]]
           siz   == [i \in Idx |-> IF i \in freed THEN 0 ELSE p.size[i]]
           act   == Byte(p.active - 16 * Cardinality(dirty) - Cardinality(user))
<1>1. p \in Pools
  BY DEF PoolOK
<1>2. CASE freed = {}
  <2>1. q = p
    BY <1>2 DEF free_buffers
  <2> QED
    BY <1>1, <1>2, <2>1 DEF Pools
<1>3. CASE freed # {}
  <2> DEFINE r == [p EXCEPT
               !.allocated = @ \ freed,
               !.sticky    = @ \ freed,
               !.dirty     = @ \ freed,
               !.secondary = sec,
               !.first     = fst,
               !.size      = siz,
               !.active    = act]
  <2>1. q = update_leds(r)
    BY <1>3 DEF free_buffers
  <2>2. sec \in [Idx -> Secondary] /\ fst \in [Idx -> Idx] /\ siz \in [Idx -> 0 .. Count]
    BY <1>1, CountAssumption DEF Pools, Secondary
  <2>3. \A k \in p.allocated \ freed :
          sec[k] = p.secondary[k] /\ fst[k] = p.first[k] /\ siz[k] = p.size[k]
    BY <1>1 DEF Pools
  <2> HIDE DEF freed, sec, fst, siz, act
  <2>4. /\ q.allocated = p.allocated \ freed /\ q.sticky = p.sticky \ freed
        /\ q.dirty = p.dirty \ freed
        /\ q.secondary = sec /\ q.first = fst /\ q.size = siz
        /\ q.active = act
        /\ q.busyLed = (act # 0) /\ q.dirtyLed = (act \div 16 # 0)
    BY <1>1, <2>1 DEF Pools, update_leds, get_dirty_buffer_count
  <2>5. q = [allocated |-> q.allocated, sticky |-> q.sticky, dirty |-> q.dirty,
             secondary |-> q.secondary, first |-> q.first, size |-> q.size,
             active |-> q.active, busyLed |-> q.busyLed, dirtyLed |-> q.dirtyLed]
    BY <1>1, <2>1 DEF Pools, update_leds
  <2>6. freed \subseteq p.allocated /\ q.allocated = p.allocated \ S
    BY <2>4 DEF freed
  <2>7. /\ DirtyBuffers(q) = DirtyBuffers(p) \ dirty /\ dirty \subseteq DirtyBuffers(p)
        /\ q.dirty \subseteq q.allocated
    BY <2>4, <2>6 DEF PoolOK, DirtyBuffers
  <2>8. UserBuffers(q) = UserBuffers(p) \ user /\ user \subseteq UserBuffers(p)
    BY <2>3, <2>4, <2>6 DEF UserBuffers
  <2>9. /\ UserBuffers(p) \in SUBSET Idx /\ UserBuffers(q) \in SUBSET Idx
        /\ DirtyBuffers(p) \in SUBSET Idx /\ DirtyBuffers(q) \in SUBSET Idx
        /\ user \in SUBSET Idx /\ dirty \in SUBSET Idx
    <3> HIDE DEF user, dirty
    <3> QED BY <1>1, <2>7, <2>8 DEF Pools, UserBuffers, DirtyBuffers
  <2> HIDE DEF user, dirty
  <2>10. Cardinality(UserBuffers(q)) = Cardinality(UserBuffers(p)) - Cardinality(user)
    <3>1. IsFiniteSet(UserBuffers(p)) /\ UserBuffers(p) \cap user = user
      BY <2>8, <2>9, IdxFinite
    <3> QED
      BY <2>8, <3>1, FS_Difference
  <2>11. Cardinality(DirtyBuffers(q)) = Cardinality(DirtyBuffers(p)) - Cardinality(dirty)
    <3>1. IsFiniteSet(DirtyBuffers(p)) /\ DirtyBuffers(p) \cap dirty = dirty
      BY <2>7, <2>9, IdxFinite
    <3> QED
      BY <2>7, <3>1, FS_Difference
  <2>12. /\ Cardinality(UserBuffers(p)) \in 0 .. 15 /\ Cardinality(DirtyBuffers(p)) \in 0 .. 15
         /\ Cardinality(UserBuffers(q)) \in 0 .. 15 /\ Cardinality(DirtyBuffers(q)) \in 0 .. 15
         /\ Cardinality(user) \in 0 .. 15 /\ Cardinality(dirty) \in 0 .. 15
         /\ p.active = Cardinality(UserBuffers(p)) + 16 * Cardinality(DirtyBuffers(p))
    BY <2>9, IdxFinite DEF PoolOK, ActiveExact
  <2>13. p.active - 16 * Cardinality(dirty) - Cardinality(user)
           = Cardinality(UserBuffers(q)) + 16 * Cardinality(DirtyBuffers(q))
    <3>1. \A u, d, v, e \in Int : (u + 16 * d) - 16 * e - v = (u - v) + 16 * (d - e)
      OBVIOUS
    <3>2. /\ Cardinality(UserBuffers(p)) \in Int /\ Cardinality(DirtyBuffers(p)) \in Int
          /\ Cardinality(user) \in Int /\ Cardinality(dirty) \in Int
      BY <2>12
    <3> QED
      BY <2>10, <2>11, <2>12, <3>1, <3>2
  <2>14. act = Cardinality(UserBuffers(q)) + 16 * Cardinality(DirtyBuffers(q))
    BY <2>9, <2>13, ByteFits DEF act
  <2>15. act \in 0 .. 255
    BY <2>9, <2>14, ByteFits
  <2>16. /\ act \div 16 = Cardinality(DirtyBuffers(q))
         /\ act # 0 <=> \/ Cardinality(UserBuffers(q)) # 0
                       \/ Cardinality(DirtyBuffers(q)) # 0
    BY <2>12, <2>14
  <2>17. /\ UserBuffers(q) = {} <=> Cardinality(UserBuffers(q)) = 0
         /\ DirtyBuffers(q) = {} <=> Cardinality(DirtyBuffers(q)) = 0
    BY <2>9, IdxFinite, FS_EmptySet
  <2>18. q \in Pools
    <3>1. /\ q.allocated \in SUBSET Idx /\ q.sticky \in SUBSET Idx /\ q.dirty \in SUBSET Idx
          /\ q.active \in 0 .. 255 /\ q.busyLed \in BOOLEAN /\ q.dirtyLed \in BOOLEAN
      BY <1>1, <2>4, <2>15 DEF Pools
    <3> QED
      BY <2>2, <2>4, <2>5, <3>1 DEF Pools
  <2>19. LedsExact(q)
    <3>1. q.dirtyLed <=> DirtyBuffers(q) # {}
      BY <2>4, <2>16, <2>17
    <3>2. UserBuffers(q) # {} => q.busyLed
      BY <2>4, <2>16, <2>17
    <3>3. q.busyLed => q.allocated # {}
      <4>1. q.busyLed => UserBuffers(q) # {} \/ DirtyBuffers(q) # {}
        BY <2>4, <2>16, <2>17
      <4> QED
        BY <4>1 DEF UserBuffers, DirtyBuffers
    <3> QED
      BY <3>1, <3>2, <3>3 DEF LedsExact
  <2>20. PoolOK(q)
    BY <2>4, <2>7, <2>14, <2>18, <2>19 DEF PoolOK, ActiveExact
  <2>21. /\ q.sticky \subseteq p.sticky /\ p.sticky \ S \subseteq q.sticky
         /\ q.dirty \subseteq p.dirty /\ p.dirty \ S \subseteq q.dirty
    BY <2>4 DEF freed
  <2> QED
    BY <2>3, <2>4, <2>6, <2>20, <2>21
<1> QED
  BY <1>2, <1>3

(***************************************************************************)
(* The work record of a handler, and what its operators preserve.          *)
(***************************************************************************)

Work == [pool : Pools, use : [Idx -> Uses], one : Idx \cup {NULL}, two : Idx \cup {NULL}]

(* What a buffer is used for, its chain fields and its secondary agree.    *)
KindOK(d, i) ==
  /\ d.use[i].kind = "direct" <=> d.pool.size[i] # 0
  /\ d.use[i].kind = "bam" <=> d.pool.secondary[i] = SecBam
  /\ d.use[i].kind = "bam" => i \notin d.pool.dirty

(* Member j is the active one of the buffers C of a chain.                 *)
ActiveIn(d, C, j) ==
  /\ d.pool.secondary[j] \in Host
  /\ \A k \in C \ {j} : d.pool.secondary[k] = SecChain - d.pool.secondary[j]

(* The chain of a '#' buffer is whole.                                     *)
LinkOK(d, i) ==
  /\ i \in Chain(d.pool, i)
  /\ Chain(d.pool, i) \subseteq d.pool.allocated \cap d.pool.sticky
  /\ \A j \in Chain(d.pool, i) :
       /\ d.use[j].kind = "direct"
       /\ d.pool.first[j] = d.pool.first[i]
       /\ d.pool.size[j] = d.pool.size[i]
  /\ d.pool.size[i] = 1 => d.pool.first[i] = i
  /\ \E j \in Chain(d.pool, i) : ActiveIn(d, Chain(d.pool, i), j)

Linked(d) ==
  \A i \in d.pool.allocated : KindOK(d, i) /\ (d.pool.size[i] # 0 => LinkOK(d, i))

BamOK(d) ==
  /\ \A i \in d.pool.allocated : d.pool.secondary[i] = SecBam <=> i \in {d.one, d.two}
  /\ {d.one, d.two} \ {NULL} \subseteq d.pool.allocated \cap d.pool.sticky
  /\ d.two # NULL => d.one \notin {NULL, d.two}

(* No buffer but at most one answers to an open channel. *)
Unique(d) ==
  \A i, j \in d.pool.allocated :
    /\ d.pool.secondary[i] \in Host \ {0}
    /\ d.pool.secondary[i] = d.pool.secondary[j]
    => i = j

WF(d) ==
  /\ d \in Work
  /\ PoolOK(d.pool)
  /\ Linked(d)
  /\ BamOK(d)
  /\ Unique(d)

(* Nothing is waiting to be collected. *)
Tidy(d) == d.pool.allocated \subseteq d.pool.sticky

-----------------------------------------------------------------------------
LEMMA SecondaryFacts ==
  /\ \A s \in Host \cup {0} :
       /\ s \in Secondary /\ s < SecSystem /\ s # SecBam
       /\ SecChain - s \in Secondary /\ SecChain - s < SecSystem
       /\ SecChain - s # SecBam /\ SecChain - s \notin Host
       /\ SecChain - s # s /\ s \in Int
  /\ SecBam \in Secondary /\ SecBam >= SecSystem /\ SecBam \notin Host
  /\ NULL \notin Idx
BY ChannelsAssumption DEF HostSec, Secondary, SecSystem, SecBam, SecChain

LEMMA UseType ==
  /\ \A k \in Kinds, part \in Parts \cup {NoPart} : Use(k, part) \in Uses
  /\ \A k, part : Use(k, part).kind = k /\ Use(k, part).part = part
  /\ \A u \in Uses : u.kind \in Kinds /\ u.part \in Parts \cup {NoPart}
BY DEF Uses, Use

LEMMA WithFields ==
  ASSUME NEW d \in Work, NEW p, NEW e, e = With(d, p)
  PROVE  /\ e.pool = p /\ e.use = d.use /\ e.one = d.one /\ e.two = d.two
         /\ p \in Pools => e \in Work
BY DEF Work, With

LEMMA UsedAsFields ==
  ASSUME NEW d \in Work, NEW f, NEW e, e = UsedAs(d, f)
  PROVE  /\ e.pool = d.pool /\ e.use = f /\ e.one = d.one /\ e.two = d.two
         /\ f \in [Idx -> Uses] => e \in Work
BY DEF Work, UsedAs

(* The chain of buffer i is still whole when nothing about it has changed. *)
LEMMA LinkSame ==
  ASSUME NEW d, NEW e, NEW i, LinkOK(d, i),
         \A j \in Chain(d.pool, i) :
            /\ e.pool.first[j] = d.pool.first[j]
            /\ e.pool.size[j] = d.pool.size[j]
            /\ e.pool.secondary[j] = d.pool.secondary[j]
            /\ e.use[j].kind = d.use[j].kind,
         Chain(d.pool, i) \subseteq e.pool.allocated \cap e.pool.sticky
  PROVE  LinkOK(e, i)
<1>1. i \in Chain(d.pool, i)
  BY DEF LinkOK
<1>2. Chain(e.pool, i) = Chain(d.pool, i)
  BY <1>1 DEF Chain
<1> DEFINE C == Chain(d.pool, i)
<1>3. PICK j \in C : ActiveIn(d, C, j)
  BY DEF LinkOK
<1>4. ActiveIn(e, C, j)
  BY <1>3 DEF ActiveIn
<1>5. \A k \in C : /\ e.use[k].kind = "direct"
                   /\ e.pool.first[k] = e.pool.first[i]
                   /\ e.pool.size[k] = e.pool.size[i]
  BY <1>1 DEF LinkOK
<1>6. e.pool.size[i] = 1 => e.pool.first[i] = i
  BY <1>1 DEF LinkOK
<1> QED
  BY <1>1, <1>2, <1>4, <1>5, <1>6 DEF LinkOK

(***************************************************************************)
(* The operators on work records.                                          *)
(***************************************************************************)

(* The buffers S can be freed: whole chains, and no BAM buffer. *)
Removable(d, S) ==
  /\ \A i \in d.pool.allocated : d.pool.size[i] # 0 /\ i \notin S
        => Chain(d.pool, i) \cap S = {}
  /\ d.one \notin S
  /\ d.two \notin S

(* What a work record keeps of d when buffers S, whole chains, are gone.   *)
LEMMA RestLinked ==
  ASSUME NEW d, WF(d), NEW S,
         \A i \in d.pool.allocated : d.pool.size[i] # 0 /\ i \notin S
            => Chain(d.pool, i) \cap S = {},
         NEW e,
         e.pool.allocated = d.pool.allocated \ S,
         e.pool.dirty \subseteq d.pool.dirty,
         d.pool.sticky \ S \subseteq e.pool.sticky,
         \A k \in e.pool.allocated :
            /\ e.pool.secondary[k] = d.pool.secondary[k]
            /\ e.pool.first[k] = d.pool.first[k]
            /\ e.pool.size[k] = d.pool.size[k]
            /\ e.use[k].kind = d.use[k].kind
  PROVE  Linked(e)
<1> SUFFICES ASSUME NEW i \in e.pool.allocated
             PROVE  KindOK(e, i) /\ (e.pool.size[i] # 0 => LinkOK(e, i))
  BY DEF Linked
<1>1. i \in d.pool.allocated /\ i \notin S
  OBVIOUS
<1>2. KindOK(d, i) /\ (d.pool.size[i] # 0 => LinkOK(d, i))
  BY <1>1 DEF WF, Linked
<1>3. KindOK(e, i)
  BY <1>1, <1>2 DEF KindOK
<1>4. ASSUME e.pool.size[i] # 0
      PROVE  LinkOK(e, i)
  <2>1. LinkOK(d, i) /\ Chain(d.pool, i) \cap S = {}
    BY <1>1, <1>2, <1>4
  <2>2. Chain(d.pool, i) \subseteq e.pool.allocated \cap e.pool.sticky
    BY <2>1 DEF LinkOK
  <2>3. \A j \in Chain(d.pool, i) :
          /\ e.pool.first[j] = d.pool.first[j]
          /\ e.pool.size[j] = d.pool.size[j]
          /\ e.pool.secondary[j] = d.pool.secondary[j]
          /\ e.use[j].kind = d.use[j].kind
    BY <2>2
  <2> QED
    BY <2>1, <2>2, <2>3, LinkSame
<1> QED
  BY <1>3, <1>4

(* Freeing whole chains and no BAM buffer. *)
LEMMA FreeWF ==
  ASSUME NEW d, WF(d), NEW S, Removable(d, S),
         NEW e, e = Free(d, S)
  PROVE  /\ WF(e)
         /\ e.pool.allocated = d.pool.allocated \ S
         /\ d.pool.sticky \ S \subseteq e.pool.sticky
         /\ \A k \in e.pool.allocated : e.pool.secondary[k] = d.pool.secondary[k]
         /\ Tidy(d) => Tidy(e)
<1> DEFINE q == free_buffers(d.pool, S)
<1>1. /\ PoolOK(q)
      /\ q.allocated = d.pool.allocated \ S
      /\ q.dirty \subseteq d.pool.dirty
      /\ q.sticky \subseteq d.pool.sticky /\ d.pool.sticky \ S \subseteq q.sticky
      /\ \A k \in q.allocated :
           /\ q.secondary[k] = d.pool.secondary[k]
           /\ q.first[k] = d.pool.first[k]
           /\ q.size[k] = d.pool.size[k]
  BY FreeBuffers DEF WF
<1>2. e = With(d, q)
  BY DEF Free
<1> HIDE DEF q
<1>3. /\ e.pool = q /\ e.use = d.use /\ e.one = d.one /\ e.two = d.two
      /\ e \in Work
  BY <1>1, <1>2, WithFields DEF WF, PoolOK
<1>5. Linked(e)
  <2>1. \A i \in d.pool.allocated : d.pool.size[i] # 0 /\ i \notin S
          => Chain(d.pool, i) \cap S = {}
    BY DEF Removable
  <2> QED
    BY <1>1, <1>3, <2>1, RestLinked
<1>6. BamOK(e)
  BY <1>1, <1>3 DEF WF, BamOK, Removable
<1>7. Unique(e)
  BY <1>1, <1>3 DEF WF, Unique
<1>8. Tidy(d) => Tidy(e)
  BY <1>1, <1>3 DEF Tidy
<1> QED
  BY <1>1, <1>3, <1>5, <1>6, <1>7, <1>8 DEF WF

(* Work record e has all that d has, as it was, and maybe more. *)
Keep(d, e) ==
  /\ d.pool.allocated \subseteq e.pool.allocated
  /\ d.pool.allocated \cap d.pool.sticky \subseteq e.pool.sticky
  /\ \A i \in d.pool.allocated :
       /\ e.pool.secondary[i] = d.pool.secondary[i]
       /\ e.pool.first[i] = d.pool.first[i]
       /\ e.pool.size[i] = d.pool.size[i]
       /\ e.use[i].kind = d.use[i].kind
       /\ d.use[i].kind = "bam" /\ i \in e.pool.dirty => i \in d.pool.dirty

LEMMA KeepReflexive ==
  ASSUME NEW d
  PROVE  Keep(d, d)
BY DEF Keep

LEMMA KeepTransitive ==
  ASSUME NEW d, NEW e, NEW f, Keep(d, e), Keep(e, f)
  PROVE  Keep(d, f)
BY DEF Keep

LEMMA Frame ==
  ASSUME NEW d, WF(d), NEW e, Keep(d, e), NEW i \in d.pool.allocated
  PROVE  KindOK(e, i) /\ (e.pool.size[i] # 0 => LinkOK(e, i))
<1>1. KindOK(d, i) /\ (d.pool.size[i] # 0 => LinkOK(d, i))
  BY DEF WF, Linked
<1>2. KindOK(e, i)
  BY <1>1 DEF KindOK, Keep
<1>3. ASSUME e.pool.size[i] # 0
      PROVE  LinkOK(e, i)
  <2>1. LinkOK(d, i)
    BY <1>1, <1>3 DEF Keep
  <2>2. Chain(d.pool, i) \subseteq d.pool.allocated \cap d.pool.sticky
    BY <2>1 DEF LinkOK
  <2>3. Chain(d.pool, i) \subseteq e.pool.allocated \cap e.pool.sticky
    BY <2>2 DEF Keep
  <2>4. \A j \in Chain(d.pool, i) :
          /\ e.pool.first[j] = d.pool.first[j]
          /\ e.pool.size[j] = d.pool.size[j]
          /\ e.pool.secondary[j] = d.pool.secondary[j]
          /\ e.use[j].kind = d.use[j].kind
    BY <2>2 DEF Keep
  <2> QED
    BY <2>1, <2>3, <2>4, LinkSame
<1> QED
  BY <1>2, <1>3

(* No channel s is open. *)
Silent(d, s) == \A i \in d.pool.allocated : d.pool.secondary[i] # s

(* A new buffer i that is in use for neither a '#' channel nor the BAM.    *)
LEMMA GrabWF ==
  ASSUME NEW d, WF(d), Unallocated(d.pool) # {},
         NEW s \in Host \cup {0}, s = 0 \/ Silent(d, s),
         NEW u \in Uses, u.kind \notin {"direct", "bam"},
         NEW e, e = Grab(d, s, u),
         NEW i, i = FirstFree(d.pool)
  PROVE  /\ WF(e) /\ Keep(d, e)
         /\ i \in Idx /\ i \notin d.pool.allocated
         /\ e.pool.allocated = d.pool.allocated \cup {i}
         /\ e.pool.size[i] = 0 /\ e.pool.secondary[i] = s /\ e.use[i] = u
         /\ e.one = d.one /\ e.two = d.two
<1> DEFINE q == alloc_buffer(d.pool, s)
<1>1. s \in Secondary /\ s < SecSystem /\ s # SecBam
  BY SecondaryFacts
<1>2. /\ PoolOK(q)
      /\ i \in Idx /\ i \notin d.pool.allocated
      /\ q.allocated = d.pool.allocated \cup {i}
      /\ q.sticky = d.pool.sticky \ {i}
      /\ q.dirty = d.pool.dirty \ {i}
      /\ q.secondary = [d.pool.secondary EXCEPT ![i] = s]
      /\ q.first = [d.pool.first EXCEPT ![i] = i]
      /\ q.size = [d.pool.size EXCEPT ![i] = 0]
  BY <1>1, AllocBuffer DEF WF
<1>3. e = UsedAs(With(d, q), [d.use EXCEPT ![i] = u])
  BY DEF Grab
<1> HIDE DEF q
<1>4. /\ e.pool = q /\ e.use = [d.use EXCEPT ![i] = u]
      /\ e.one = d.one /\ e.two = d.two /\ e \in Work
  <2> DEFINE w == With(d, q)
             f == [d.use EXCEPT ![i] = u]
  <2>1. q \in Pools /\ f \in [Idx -> Uses]
    BY <1>2 DEF PoolOK, WF, Work
  <2>2. w.pool = q /\ w.one = d.one /\ w.two = d.two /\ w \in Work
    BY <2>1, WithFields DEF WF
  <2> HIDE DEF w, f
  <2>3. e.pool = w.pool /\ e.use = f /\ e.one = w.one /\ e.two = w.two /\ e \in Work
    BY <1>3, <2>1, <2>2, UsedAsFields DEF w, f
  <2> QED
    BY <2>2, <2>3 DEF f
<1>6. /\ d.pool \in Pools /\ d.use \in [Idx -> Uses]
      /\ d.one \in d.pool.allocated \cup {NULL} /\ d.two \in d.pool.allocated \cup {NULL}
      /\ d.pool.allocated \subseteq Idx
  BY DEF WF, Work, BamOK, Pools
<1> HIDE DEF Grab
<1>7. /\ e.pool.size[i] = 0 /\ e.pool.secondary[i] = s /\ e.use[i] = u
      /\ \A k \in d.pool.allocated :
           /\ e.pool.secondary[k] = d.pool.secondary[k]
           /\ e.pool.first[k] = d.pool.first[k]
           /\ e.pool.size[k] = d.pool.size[k]
           /\ e.use[k] = d.use[k]
  BY <1>2, <1>4, <1>6 DEF Pools
<1>8. Keep(d, e)
  BY <1>2, <1>4, <1>7 DEF Keep
<1>9. Linked(e)
  <2>1. ASSUME NEW k \in d.pool.allocated
        PROVE  KindOK(e, k) /\ (e.pool.size[k] # 0 => LinkOK(e, k))
    BY <1>8, Frame
  <2>2. KindOK(e, i) /\ ~(e.pool.size[i] # 0)
    BY <1>1, <1>7 DEF KindOK
  <2> QED
    BY <1>2, <1>4, <2>1, <2>2 DEF Linked
<1>10. BamOK(e)
  <2>1. i \notin {d.one, d.two}
    BY <1>2, <1>6, SecondaryFacts
  <2> QED
    BY <1>1, <1>2, <1>4, <1>7, <2>1 DEF WF, BamOK
<1>11. Unique(e)
  BY <1>2, <1>4, <1>7 DEF WF, Unique, Silent
<1> QED
  BY <1>2, <1>4, <1>7, <1>8, <1>9, <1>10, <1>11 DEF WF

(* Only flags of the buffers change. *)
LEMMA MarkWF ==
  ASSUME NEW d, WF(d), NEW q, PoolOK(q),
         q.allocated = d.pool.allocated, d.pool.sticky \subseteq q.sticky,
         q.secondary = d.pool.secondary, q.first = d.pool.first, q.size = d.pool.size,
         \A i \in d.pool.allocated : d.use[i].kind = "bam" /\ i \in q.dirty
                                      => i \in d.pool.dirty,
         NEW e, e = With(d, q)
  PROVE  WF(e) /\ Keep(d, e) /\ e.one = d.one /\ e.two = d.two /\ (Tidy(d) => Tidy(e))
<1>1. e.pool = q /\ e.use = d.use /\ e.one = d.one /\ e.two = d.two /\ e \in Work
  BY WithFields DEF WF, PoolOK
<1>3. Keep(d, e)
  BY <1>1 DEF Keep
<1>4. Linked(e)
  <2>1. ASSUME NEW k \in d.pool.allocated
        PROVE  KindOK(e, k) /\ (e.pool.size[k] # 0 => LinkOK(e, k))
    BY <1>3, Frame
  <2> QED
    BY <1>1, <2>1 DEF Linked
<1>5. BamOK(e)
  BY <1>1 DEF WF, BamOK
<1>6. Unique(e)
  BY <1>1 DEF WF, Unique
<1> QED
  BY <1>1, <1>3, <1>4, <1>5, <1>6 DEF WF, Tidy

LEMMA StickWF ==
  ASSUME NEW d, WF(d), NEW S \in SUBSET Idx, NEW e, e = Stick(d, S)
  PROVE  /\ WF(e) /\ Keep(d, e) /\ (Tidy(d) => Tidy(e))
         /\ e.pool.sticky = d.pool.sticky \cup S
         /\ e.pool.allocated = d.pool.allocated
         /\ e.one = d.one /\ e.two = d.two
<1> DEFINE q == stick_buffers(d.pool, S)
<1>1. PoolOK(q) /\ q = [d.pool EXCEPT !.sticky = d.pool.sticky \cup S]
  BY StickBuffers DEF WF
<1>2. e = With(d, q)
  BY DEF Stick
<1> HIDE DEF q
<1>3. /\ q.allocated = d.pool.allocated /\ q.sticky = d.pool.sticky \cup S
      /\ q.secondary = d.pool.secondary /\ q.first = d.pool.first /\ q.size = d.pool.size
      /\ q.dirty = d.pool.dirty
  BY <1>1 DEF WF, PoolOK, Pools
<1>4. e.pool = q
  BY <1>2, WithFields DEF WF
<1>5. WF(e) /\ Keep(d, e) /\ e.one = d.one /\ e.two = d.two /\ (Tidy(d) => Tidy(e))
  BY <1>1, <1>2, <1>3, MarkWF
<1> QED
  BY <1>3, <1>4, <1>5

LEMMA MarkDirtyWF ==
  ASSUME NEW d, WF(d), NEW i \in d.pool.allocated, d.use[i].kind # "bam",
         NEW e, e = Dirty(d, i)
  PROVE  /\ WF(e) /\ Keep(d, e) /\ (Tidy(d) => Tidy(e))
         /\ e.one = d.one /\ e.two = d.two
<1> DEFINE q == mark_buffer_dirty(d.pool, i)
<1>1. /\ PoolOK(q)
      /\ q.allocated = d.pool.allocated /\ q.sticky = d.pool.sticky
      /\ q.secondary = d.pool.secondary /\ q.first = d.pool.first /\ q.size = d.pool.size
      /\ q.dirty = d.pool.dirty \cup {i}
  BY MarkDirty DEF WF
<1>2. e = With(d, q)
  BY DEF Dirty
<1> HIDE DEF q
<1> QED
  BY <1>1, <1>2, MarkWF

LEMMA MarkCleanWF ==
  ASSUME NEW d, WF(d), NEW i \in d.pool.allocated, d.use[i].kind # "bam",
         NEW e, e = Clean(d, i)
  PROVE  /\ WF(e) /\ Keep(d, e) /\ (Tidy(d) => Tidy(e))
         /\ e.one = d.one /\ e.two = d.two
<1> DEFINE q == mark_buffer_clean(d.pool, i)
<1>1. /\ PoolOK(q)
      /\ q.allocated = d.pool.allocated /\ q.sticky = d.pool.sticky
      /\ q.secondary = d.pool.secondary /\ q.first = d.pool.first /\ q.size = d.pool.size
      /\ q.dirty = d.pool.dirty \ {i}
  BY MarkClean DEF WF
<1>2. e = With(d, q)
  BY DEF Clean
<1> HIDE DEF q
<1> QED
  BY <1>1, <1>2, MarkWF

(* A change of what the BAM buffers hold. *)
LEMMA ContentsWF ==
  ASSUME NEW d, WF(d), NEW e, NEW f \in [Idx -> Uses],
         \A i \in Idx : f[i].kind = d.use[i].kind,
         e = UsedAs(d, f)
  PROVE  WF(e) /\ Keep(d, e) /\ e.one = d.one /\ e.two = d.two /\ (Tidy(d) => Tidy(e))
<1>1. e.pool = d.pool /\ e.use = f /\ e.one = d.one /\ e.two = d.two /\ e \in Work
  BY UsedAsFields DEF WF
<1>3. Keep(d, e)
  BY <1>1 DEF Keep, WF, Work, Pools
<1>4. Linked(e)
  <2>1. ASSUME NEW k \in d.pool.allocated
        PROVE  KindOK(e, k) /\ (e.pool.size[k] # 0 => LinkOK(e, k))
    BY <1>3, Frame
  <2> QED
    BY <1>1, <2>1 DEF Linked
<1>5. BamOK(e)
  BY <1>1 DEF WF, BamOK
<1>6. Unique(e)
  BY <1>1 DEF WF, Unique
<1> QED
  BY <1>1, <1>3, <1>4, <1>5, <1>6 DEF WF, Tidy

(* A new buffer for the BAM, the first or the second. *)
LEMMA BamAllocWF ==
  ASSUME NEW d, WF(d), Unallocated(d.pool) # {}, d.two = NULL,
         NEW e, e = BamBufferAlloc(d)
  PROVE  /\ WF(e) /\ Keep(d, e) /\ (Tidy(d) => Tidy(e))
         /\ \A s \in Host : Silent(d, s) => Silent(e, s)
<1> DEFINE i == FirstFree(d.pool)
           r == alloc_system_buffer(d.pool, SecBam)
           q == stick_buffers(r, {i})
<1>1. /\ PoolOK(r)
      /\ i \in Idx /\ i \notin d.pool.allocated
      /\ r.allocated = d.pool.allocated \cup {i}
      /\ r.sticky = d.pool.sticky \ {i}
      /\ r.dirty = d.pool.dirty \ {i}
      /\ r.secondary = [d.pool.secondary EXCEPT ![i] = SecBam]
      /\ r.first = [d.pool.first EXCEPT ![i] = i]
      /\ r.size = [d.pool.size EXCEPT ![i] = 0]
  BY AllocSystem, SecondaryFacts DEF WF
<1>2. /\ e.pool = q /\ e.use = [d.use EXCEPT ![i] = Use("bam", NoPart)]
      /\ e.one = i /\ e.two = d.one
      /\ e = [pool |-> e.pool, use |-> e.use, one |-> e.one, two |-> e.two]
  BY DEF BamBufferAlloc
<1> HIDE DEF i, r
<1>3. PoolOK(q) /\ q = [r EXCEPT !.sticky = r.sticky \cup {i}]
  <2>1. PoolOK(r) /\ {i} \in SUBSET Idx /\ q = stick_buffers(r, {i})
    BY <1>1
  <2> HIDE DEF q
  <2> QED
    BY ONLY <2>1, StickBuffers
<1> HIDE DEF q
<1>4. /\ q.allocated = d.pool.allocated \cup {i}
      /\ q.sticky = (d.pool.sticky \ {i}) \cup {i}
      /\ q.dirty = d.pool.dirty \ {i}
      /\ q.secondary = [d.pool.secondary EXCEPT ![i] = SecBam]
      /\ q.first = [d.pool.first EXCEPT ![i] = i]
      /\ q.size = [d.pool.size EXCEPT ![i] = 0]
  BY <1>1, <1>3 DEF PoolOK, Pools
<1>5. /\ d.pool \in Pools /\ d.use \in [Idx -> Uses]
      /\ d.one \in d.pool.allocated \cup {NULL} /\ d.pool.allocated \subseteq Idx
  BY DEF WF, Work, BamOK, Pools
<1>6. Use("bam", NoPart) \in Uses /\ Use("bam", NoPart).kind = "bam"
  BY UseType DEF Kinds
<1>7. e \in Work
  <2>1. q \in Pools /\ [d.use EXCEPT ![i] = Use("bam", NoPart)] \in [Idx -> Uses]
    BY <1>3, <1>5, <1>6 DEF PoolOK
  <2> QED
    BY <1>1, <1>2, <1>5, <2>1 DEF Work
<1>8. /\ e.pool.size[i] = 0 /\ e.pool.secondary[i] = SecBam
      /\ e.use[i] = Use("bam", NoPart) /\ i \notin e.pool.dirty
      /\ \A k \in d.pool.allocated :
           /\ e.pool.secondary[k] = d.pool.secondary[k]
           /\ e.pool.first[k] = d.pool.first[k]
           /\ e.pool.size[k] = d.pool.size[k]
           /\ e.use[k] = d.use[k]
  BY <1>1, <1>2, <1>4, <1>5 DEF Pools
<1>9. Keep(d, e)
  BY <1>1, <1>2, <1>4, <1>8 DEF Keep
<1>10. Linked(e)
  <2>1. ASSUME NEW k \in d.pool.allocated
        PROVE  KindOK(e, k) /\ (e.pool.size[k] # 0 => LinkOK(e, k))
    BY <1>9, Frame
  <2>2. KindOK(e, i) /\ ~(e.pool.size[i] # 0)
    BY <1>6, <1>8 DEF KindOK
  <2> QED
    BY <1>2, <1>4, <2>1, <2>2 DEF Linked
<1>11. BamOK(e)
  <2>1. i # d.one /\ i # NULL
    BY <1>1, <1>5, SecondaryFacts
  <2>2. \A k \in d.pool.allocated :
          e.pool.secondary[k] = SecBam <=> k \in {e.one, e.two}
    <3>1. \A k \in d.pool.allocated : k # i /\ k # NULL
      BY <1>1, <1>5, SecondaryFacts
    <3> QED
      BY <1>2, <1>8, <3>1 DEF WF, BamOK
  <2>3. \A k \in e.pool.allocated :
          e.pool.secondary[k] = SecBam <=> k \in {e.one, e.two}
    BY <1>2, <1>4, <1>8, <2>2
  <2>4. {e.one, e.two} \ {NULL} \subseteq e.pool.allocated \cap e.pool.sticky
    BY <1>2, <1>4 DEF WF, BamOK
  <2>5. e.two # NULL => e.one \notin {NULL, e.two}
    BY <1>2, <2>1
  <2> HIDE DEF WF
  <2> QED
    BY <2>3, <2>4, <2>5 DEF BamOK
<1>12. Unique(e)
  BY <1>2, <1>4, <1>8, SecondaryFacts DEF WF, Unique
<1>13. Tidy(d) => Tidy(e)
  BY <1>2, <1>4 DEF Tidy
<1>14. \A s \in Host : Silent(d, s) => Silent(e, s)
  BY <1>2, <1>4, <1>8, SecondaryFacts DEF Silent
<1> QED
  BY <1>2, <1>3, <1>7, <1>9, <1>10, <1>11, <1>12, <1>13, <1>14 DEF WF

(* From d to e a handler has used the BAM, at most. *)
BamStep(d, e) ==
  /\ WF(e) /\ Keep(d, e) /\ (Tidy(d) => Tidy(e))
  /\ \A s \in Host : Silent(d, s) => Silent(e, s)

LEMMA BamStepTransitive ==
  ASSUME NEW d, NEW e, NEW f, BamStep(d, e), BamStep(e, f)
  PROVE  BamStep(d, f)
BY KeepTransitive DEF BamStep

LEMMA OtherWindowWF ==
  ASSUME NEW d, WF(d)
  PROVE  BamStep(d, OtherWindow(d))
<1>1. BamStep(d, d)
  BY KeepReflexive DEF BamStep
<1>2. CASE d.two # NULL
  <2> DEFINE e == [pool |-> d.pool, use |-> d.use, one |-> d.two, two |-> d.one]
  <2>1. OtherWindow(d) = e
    BY <1>2 DEF OtherWindow
  <2>2. e.pool = d.pool /\ e.use = d.use /\ e.one = d.two /\ e.two = d.one /\ e \in Work
    BY DEF WF, Work
  <2> HIDE DEF e
  <2>3. Keep(d, e)
    BY <2>2 DEF Keep
  <2>4. Linked(e)
    <3>1. ASSUME NEW k \in d.pool.allocated
          PROVE  KindOK(e, k) /\ (e.pool.size[k] # 0 => LinkOK(e, k))
      BY <2>3, Frame
    <3> QED
      BY <2>2, <3>1 DEF Linked
  <2>5. BamOK(e) /\ Unique(e)
    BY <1>2, <2>2 DEF WF, BamOK, Unique
  <2>6. WF(e) /\ (Tidy(d) => Tidy(e)) /\ \A s \in Host : Silent(d, s) => Silent(e, s)
    BY <2>2, <2>4, <2>5 DEF WF, Tidy, Silent
  <2> QED
    BY <2>1, <2>3, <2>6 DEF BamStep
<1>3. CASE d.two = NULL /\ ~(d.use[d.one].part = NoPart \/ Unallocated(d.pool) = {})
  <2> DEFINE e == BamBufferAlloc(d)
  <2>1. OtherWindow(d) = e
    BY <1>3 DEF OtherWindow
  <2>2. Unallocated(d.pool) # {} /\ d.two = NULL
    BY <1>3
  <2>3. BamStep(d, e)
    BY <2>2, BamAllocWF DEF BamStep
  <2> QED
    BY <2>1, <2>3
<1>4. CASE d.two = NULL /\ (d.use[d.one].part = NoPart \/ Unallocated(d.pool) = {})
  <2>1. OtherWindow(d) = d
    BY <1>4 DEF OtherWindow
  <2> QED
    BY <1>1, <2>1
<1> QED
  BY <1>2, <1>3, <1>4

LEMMA MoveBamWindowWF ==
  ASSUME NEW d, WF(d), NEW part \in Parts \cup {NoPart}, NEW e \in MoveBamWindow(d, part)
  PROVE  BamStep(d, e)
<1> DEFINE w == OtherWindow(d)
<1>1. BamStep(d, w)
  BY OtherWindowWF
<1>2. BamStep(d, d)
  BY KeepReflexive DEF BamStep
<1> DEFINE v == UsedAs(w, [w.use EXCEPT ![w.one].part = part])
<1>3. e \in {w, v, d}
  BY DEF MoveBamWindow
<1> HIDE DEF w
<1>4. BamStep(w, v)
  <2> DEFINE f == [w.use EXCEPT ![w.one].part = part]
  <2>1. WF(w) /\ w \in Work
    BY <1>1 DEF BamStep, WF
  <2>2. f \in [Idx -> Uses] /\ \A i \in Idx : f[i].kind = w.use[i].kind
    BY <2>1 DEF Work, Uses
  <2>3. v = UsedAs(w, f)
    OBVIOUS
  <2>4. v.pool = w.pool
    BY <2>1, <2>3, UsedAsFields
  <2> HIDE DEF f, v
  <2>5. WF(v) /\ Keep(w, v) /\ (Tidy(w) => Tidy(v))
    BY <2>1, <2>2, <2>3, ContentsWF
  <2> QED
    BY <2>4, <2>5 DEF BamStep, Silent
<1>5. BamStep(d, v)
  BY <1>1, <1>4, BamStepTransitive
<1> QED
  BY <1>1, <1>2, <1>3, <1>5

LEMMA BamUseWF ==
  ASSUME NEW d, WF(d), NEW part \in Parts \cup {NoPart}, NEW e \in BamUse(d, part)
  PROVE  BamStep(d, e)
<1>1. CASE e \in MoveBamWindow(d, part)
  BY <1>1, MoveBamWindowWF
<1>2. CASE \E f \in MoveBamWindow(d, part) : e \in MoveBamWindow(f, part)
  <2>1. PICK f \in MoveBamWindow(d, part) : e \in MoveBamWindow(f, part)
    BY <1>2
  <2>2. BamStep(d, f)
    BY MoveBamWindowWF
  <2>3. BamStep(f, e)
    BY <2>1, <2>2, MoveBamWindowWF DEF BamStep
  <2> QED
    BY <2>2, <2>3, BamStepTransitive
<1> QED
  BY <1>1, <1>2 DEF BamUse

(***************************************************************************)
(* Chains.                                                                 *)
(***************************************************************************)
LEMMA ChainsDisjoint ==
  ASSUME NEW d, WF(d), NEW i \in d.pool.allocated, NEW j \in d.pool.allocated,
         d.pool.size[i] # 0, i \notin Chain(d.pool, j)
  PROVE  Chain(d.pool, i) \cap Chain(d.pool, j) = {}
<1> SUFFICES ASSUME NEW k \in Chain(d.pool, i), k \in Chain(d.pool, j)
             PROVE  FALSE
  OBVIOUS
<1>1. LinkOK(d, i)
  BY DEF WF, Linked
<1>2. /\ i \in Chain(d.pool, i)
      /\ d.pool.first[k] = d.pool.first[i] /\ d.pool.size[k] = d.pool.size[i]
  BY <1>1 DEF LinkOK
<1>3. CASE d.pool.size[j] # 0
  <2>1. LinkOK(d, j)
    BY <1>3 DEF WF, Linked
  <2>2. d.pool.first[k] = d.pool.first[j] /\ d.pool.size[k] = d.pool.size[j]
    BY <2>1 DEF LinkOK
  <2> QED
    BY <1>2, <2>2 DEF Chain
<1>4. CASE d.pool.size[j] = 0
  <2>1. Chain(d.pool, j) = {j}
    BY <1>4 DEF Chain
  <2> QED
    BY <1>2, <1>4, <2>1
<1> QED
  BY <1>3, <1>4

(* Every buffer of a chain is a user buffer, and none is one for the BAM.  *)
LEMMA ChainIsUser ==
  ASSUME NEW d, WF(d), NEW i \in d.pool.allocated, d.pool.size[i] # 0
  PROVE  /\ Chain(d.pool, i) \subseteq d.pool.allocated \cap d.pool.sticky
         /\ \A k \in Chain(d.pool, i) : d.pool.secondary[k] < SecSystem
         /\ d.one \notin Chain(d.pool, i) /\ d.two \notin Chain(d.pool, i)
<1>1. LinkOK(d, i)
  BY DEF WF, Linked
<1> DEFINE C == Chain(d.pool, i)
<1>2. C \subseteq d.pool.allocated \cap d.pool.sticky
  BY <1>1 DEF LinkOK
<1>3. PICK j \in C : ActiveIn(d, C, j)
  BY <1>1 DEF LinkOK
<1>4. ASSUME NEW k \in C
      PROVE  d.pool.secondary[k] < SecSystem
  <2>1. CASE k = j
    BY <1>3, <2>1, SecondaryFacts DEF ActiveIn
  <2>2. CASE k # j
    BY <1>3, <2>2, SecondaryFacts DEF ActiveIn
  <2> QED
    BY <2>1, <2>2
<1>5. \A k \in C : d.pool.secondary[k] # SecBam
  BY <1>4 DEF SecSystem, SecBam
<1>6. d.one \notin C /\ d.two \notin C
  BY <1>2, <1>5 DEF WF, BamOK
<1> QED
  BY <1>2, <1>4, <1>6

(* cleanup_and_free_buffer frees a whole chain. *)
LEMMA CleanupWF ==
  ASSUME NEW d, WF(d), NEW j \in d.pool.allocated, d.pool.secondary[j] # SecBam,
         NEW e, e = CleanupAndFree(d, j)
  PROVE  /\ WF(e) /\ (Tidy(d) => Tidy(e))
         /\ j \notin e.pool.allocated /\ e.pool.allocated \subseteq d.pool.allocated
         /\ \A k \in e.pool.allocated : e.pool.secondary[k] = d.pool.secondary[k]
<1> DEFINE S == Chain(d.pool, j)
<1>1. \A i \in d.pool.allocated : d.pool.size[i] # 0 /\ i \notin S
         => Chain(d.pool, i) \cap S = {}
  BY ChainsDisjoint
<1>2. d.one \notin S /\ d.two \notin S /\ j \in S
  <2>1. CASE d.pool.size[j] # 0
    <3>1. LinkOK(d, j)
      BY <2>1 DEF WF, Linked
    <3> QED
      BY <2>1, <3>1, ChainIsUser DEF LinkOK
  <2>2. CASE d.pool.size[j] = 0
    <3>1. S = {j}
      BY <2>2 DEF Chain
    <3> QED
      BY <3>1 DEF WF, BamOK
  <2> QED
    BY <2>1, <2>2
<1>3. Removable(d, S)
  BY <1>1, <1>2 DEF Removable
<1>4. e = Free(d, S)
  BY DEF CleanupAndFree
<1> HIDE DEF S
<1>5. /\ WF(e)
      /\ e.pool.allocated = d.pool.allocated \ S
      /\ \A k \in e.pool.allocated : e.pool.secondary[k] = d.pool.secondary[k]
      /\ Tidy(d) => Tidy(e)
  BY <1>3, <1>4, FreeWF
<1> QED
  BY <1>2, <1>5
(* Buffers that are in no chain and are not for the BAM can be freed.       *)
LEMMA FreePlainWF ==
  ASSUME NEW d, WF(d), NEW S \in SUBSET d.pool.allocated,
         \A i \in S : d.use[i].kind \notin {"direct", "bam"},
         NEW e, e = Free(d, S)
  PROVE  WF(e) /\ (Tidy(d) => Tidy(e))
<1>1. ASSUME NEW i \in d.pool.allocated, d.pool.size[i] # 0
      PROVE  Chain(d.pool, i) \cap S = {}
  <2>1. LinkOK(d, i)
    BY <1>1 DEF WF, Linked
  <2> QED
    BY <2>1 DEF LinkOK
<1>2. d.one \notin S /\ d.two \notin S
  BY DEF WF, BamOK, Linked, KindOK
<1>3. Removable(d, S)
  BY <1>1, <1>2 DEF Removable
<1> QED
  BY <1>3, FreeWF

(* The sweeps of the user buffers leave no channel. *)
LEMMA SweepUsersWF ==
  ASSUME NEW d, WF(d), NEW flags \in {FMB_USER, FMB_USER_CLEAN},
         NEW e, e = Sweep(d, flags)
  PROVE  WF(e) /\ (Tidy(d) => Tidy(e)) /\ e.one = d.one /\ e.two = d.two
<1> DEFINE S == Matching(d.pool, flags)
<1>1. S = UserBuffers(d.pool)
  BY DEF Matching, UserBuffers, FMB_USER, FMB_USER_CLEAN
<1>2. e = Free(d, S)
  BY DEF Sweep, Free, free_multiple_buffers
<1>3. \A i \in d.pool.allocated : d.pool.size[i] # 0 => i \in S
  <2>1. ASSUME NEW i \in d.pool.allocated, d.pool.size[i] # 0
        PROVE  i \in S
    <3>1. LinkOK(d, i)
      BY <2>1 DEF WF, Linked
    <3>2. i \in Chain(d.pool, i)
      BY <3>1 DEF LinkOK
    <3>3. d.pool.secondary[i] < SecSystem
      BY <2>1, <3>2, ChainIsUser
    <3> QED
      BY <1>1, <3>3 DEF UserBuffers
  <2> QED
    BY <2>1
<1>4. d.one \notin S /\ d.two \notin S
  <2>1. \A i \in S : d.pool.secondary[i] # SecBam /\ i \in d.pool.allocated
    BY <1>1 DEF UserBuffers, SecBam, SecSystem
  <2> QED
    BY <2>1 DEF WF, BamOK
<1>5. Removable(d, S)
  BY <1>3, <1>4 DEF Removable
<1> HIDE DEF S
<1>6. WF(e) /\ (Tidy(d) => Tidy(e))
  BY <1>2, <1>5, FreeWF
<1>7. e.one = d.one /\ e.two = d.two
  BY <1>2, WithFields DEF Free, WF
<1> QED
  BY <1>6, <1>7

(* The collection leaves nothing to collect. *)
LEMMA CollectWF ==
  ASSUME NEW d, WF(d), NEW e, e = Sweep(d, FMB_UNSTICKY)
  PROVE  WF(e) /\ Tidy(e)
<1> DEFINE S == Matching(d.pool, FMB_UNSTICKY)
<1>1. S = d.pool.allocated \ d.pool.sticky
  BY DEF Matching, FMB_UNSTICKY
<1>2. e = Free(d, S)
  BY DEF Sweep, Free, free_multiple_buffers
<1>3. \A i \in d.pool.allocated : d.pool.size[i] # 0 => Chain(d.pool, i) \cap S = {}
  BY <1>1, ChainIsUser
<1>4. d.one \notin S /\ d.two \notin S
  <2>1. NULL \notin S
    BY <1>1, SecondaryFacts DEF WF, PoolOK, Pools
  <2> QED
    BY <1>1, <2>1 DEF WF, BamOK
<1>5. Removable(d, S)
  BY <1>3, <1>4 DEF Removable
<1> HIDE DEF S
<1>6. /\ WF(e) /\ e.pool.allocated = d.pool.allocated \ S
      /\ d.pool.sticky \ S \subseteq e.pool.sticky
  BY <1>2, <1>5, FreeWF
<1> QED
  BY <1>1, <1>6 DEF Tidy

(* The outcome of a handler, as the work record of the next state.          *)
Settled(d) ==
  [pool |-> d.pool,
   use  |-> [i \in Idx |-> IF i \in d.pool.allocated THEN d.use[i] ELSE Use("free", NoPart)],
   one  |-> d.one, two |-> d.two]

LEMMA SettledWF ==
  ASSUME NEW d, WF(d), NEW e, e = Settled(d)
  PROVE  WF(e) /\ (Tidy(d) => Tidy(e))
<1> DEFINE f == [i \in Idx |-> IF i \in d.pool.allocated THEN d.use[i]
                               ELSE Use("free", NoPart)]
<1>1. /\ e.pool = d.pool /\ e.use = f /\ e.one = d.one /\ e.two = d.two
      /\ e = [pool |-> e.pool, use |-> e.use, one |-> e.one, two |-> e.two]
  BY DEF Settled
<1>2. f \in [Idx -> Uses]
  BY UseType DEF WF, Work, Kinds
<1>3. \A i \in d.pool.allocated : f[i] = d.use[i]
  BY DEF WF, Work, Pools
<1> HIDE DEF f
<1>4. e \in Work
  <2>1. d.pool \in Pools /\ d.one \in Idx \cup {NULL} /\ d.two \in Idx \cup {NULL}
    BY DEF WF, Work
  <2> QED
    BY <1>1, <1>2, <2>1 DEF Work
<1>5. Keep(d, e)
  BY <1>1, <1>3 DEF Keep
<1>6. Linked(e)
  <2>1. ASSUME NEW k \in d.pool.allocated
        PROVE  KindOK(e, k) /\ (e.pool.size[k] # 0 => LinkOK(e, k))
    BY <1>5, Frame
  <2> QED
    BY <1>1, <2>1 DEF Linked
<1>7. BamOK(e) /\ Unique(e)
  BY <1>1 DEF WF, BamOK, Unique
<1> QED
  BY <1>1, <1>4, <1>6, <1>7 DEF WF, Tidy
(* The reset of the contents and the release of the BAM buffers.            *)
LEMMA ForgetWF ==
  ASSUME NEW d, WF(d), NEW part \in Parts, NEW e, e = Forget(d, part)
  PROVE  WF(e) /\ (Tidy(d) => Tidy(e)) /\ e.one = d.one /\ e.two = d.two
<1> DEFINE f == [i \in Idx |-> IF d.use[i] = Use("bam", part) THEN Use("bam", NoPart)
                               ELSE d.use[i]]
<1>1. f \in [Idx -> Uses] /\ \A i \in Idx : f[i].kind = d.use[i].kind
  BY UseType DEF WF, Work, Kinds
<1>2. e = UsedAs(d, f)
  BY DEF Forget
<1> HIDE DEF f
<1> QED
  BY <1>1, <1>2, ContentsWF

LEMMA DropBamWF ==
  ASSUME NEW d, WF(d), NEW left, NEW e, e = DropBam(d, left)
  PROVE  WF(e) /\ (Tidy(d) => Tidy(e))
<1>1. CASE left = 0
  <2>1. e = d
    BY <1>1 DEF DropBam
  <2> QED
    BY <2>1
<1>2. CASE left # 0
  <2> DEFINE S == {d.one, d.two} \ {NULL}
             q == free_buffers(d.pool, S)
  <2>1. /\ PoolOK(q)
        /\ q.allocated = d.pool.allocated \ S
        /\ q.dirty \subseteq d.pool.dirty
        /\ d.pool.sticky \ S \subseteq q.sticky
        /\ \A k \in q.allocated :
             /\ q.secondary[k] = d.pool.secondary[k]
             /\ q.first[k] = d.pool.first[k]
             /\ q.size[k] = d.pool.size[k]
    BY FreeBuffers DEF WF
  <2>2. /\ e.pool = q /\ e.use = d.use /\ e.one = NULL /\ e.two = NULL
        /\ e = [pool |-> e.pool, use |-> e.use, one |-> e.one, two |-> e.two]
    BY <1>2 DEF DropBam
  <2>3. \A i \in d.pool.allocated : d.pool.size[i] # 0 /\ i \notin S
          => Chain(d.pool, i) \cap S = {}
    BY ChainIsUser
  <2> HIDE DEF q
  <2>4. e \in Work
    <3>1. d.use \in [Idx -> Uses] /\ q \in Pools
      BY <2>1 DEF WF, Work, PoolOK
    <3> QED
      BY <2>2, <3>1 DEF Work
  <2>5. Linked(e)
    <3> HIDE DEF S
    <3>1. e.pool.allocated = d.pool.allocated \ S
      BY <2>1, <2>2
    <3>2. e.pool.dirty \subseteq d.pool.dirty /\ d.pool.sticky \ S \subseteq e.pool.sticky
      BY <2>1, <2>2
    <3>3. \A k \in e.pool.allocated :
            /\ e.pool.secondary[k] = d.pool.secondary[k]
            /\ e.pool.first[k] = d.pool.first[k]
            /\ e.pool.size[k] = d.pool.size[k]
            /\ e.use[k].kind = d.use[k].kind
      BY <2>1, <2>2
    <3> QED
      BY <2>3, <3>1, <3>2, <3>3, RestLinked
  <2>6. BamOK(e)
    <3>1. \A i \in e.pool.allocated : e.pool.secondary[i] # SecBam
      BY <2>1, <2>2, SecondaryFacts DEF WF, BamOK, PoolOK, Pools
    <3>2. \A i \in e.pool.allocated : i # NULL
      BY <2>1, <2>2, SecondaryFacts DEF PoolOK, Pools
    <3> QED
      BY <2>2, <3>1, <3>2 DEF BamOK
  <2>7. Unique(e)
    BY <2>1, <2>2 DEF WF, Unique
  <2> QED
    BY <2>1, <2>2, <2>4, <2>5, <2>6, <2>7 DEF WF, Tidy
<1> QED
  BY <1>1, <1>2

(* The chain of a new '#' channel s: n buffers from start on, start active. *)
NewChain(d, e, s, n, start, M) ==
  /\ e \in Work /\ PoolOK(e.pool) /\ Keep(d, e) /\ e.one = d.one /\ e.two = d.two
  /\ s \in Host /\ (s = 0 \/ Silent(d, s))
  /\ n \in Nat \ {0} /\ start \in Idx /\ M = Span(start, n)
  /\ M \cap d.pool.allocated = {}
  /\ e.pool.allocated = d.pool.allocated \cup M
  /\ M \subseteq e.pool.sticky
  /\ \A k \in M : /\ e.pool.size[k] = n /\ e.pool.first[k] = start
                  /\ e.use[k].kind = "direct"
                  /\ e.pool.secondary[k] = IF k = start THEN s ELSE SecChain - s

LEMMA ChainAddedWF ==
  ASSUME NEW d, WF(d), NEW e, NEW s, NEW n, NEW start, NEW M,
         NewChain(d, e, s, n, start, M)
  PROVE  WF(e)
<1> USE DEF NewChain
<1>1. start \in M /\ (n = 1 => M = {start})
  BY DEF Idx, Span
<1>2. ASSUME NEW i \in M
      PROVE  KindOK(e, i) /\ LinkOK(e, i)
  <2>1. Chain(e.pool, i) = M
    <3>1. e.pool.size[i] = n /\ e.pool.first[i] = start
      BY <1>2
    <3>2. CASE n = 1
      BY <1>1, <1>2, <3>1, <3>2 DEF Chain
    <3>3. CASE n # 1
      <4>1. n > 1
        BY <3>3
      <4> QED
        BY <3>1, <4>1 DEF Chain, Span
    <3> QED
      BY <3>2, <3>3
  <2>2. e.pool.secondary[i] # SecBam
    BY SecondaryFacts
  <2>3. KindOK(e, i)
    BY <2>2 DEF KindOK
  <2>4. ActiveIn(e, M, start)
    BY <1>1 DEF ActiveIn
  <2>5. M \subseteq e.pool.allocated \cap e.pool.sticky
    OBVIOUS
  <2>6. e.pool.size[i] = 1 => e.pool.first[i] = i
    BY <1>1
  <2>7. LinkOK(e, i)
    BY <1>1, <2>1, <2>4, <2>5, <2>6 DEF LinkOK
  <2> QED
    BY <2>3, <2>7
<1>3. Linked(e)
  <2>1. ASSUME NEW k \in d.pool.allocated
        PROVE  KindOK(e, k) /\ (e.pool.size[k] # 0 => LinkOK(e, k))
    BY Frame
  <2> QED
    BY <1>2, <2>1 DEF Linked
<1>4. BamOK(e)
  <2>1. \A i \in M : e.pool.secondary[i] # SecBam
    BY SecondaryFacts
  <2>2. \A i \in M : i \notin {d.one, d.two}
    <3>1. \A i \in M : i # NULL
      <4>1. M \subseteq Idx
        BY DEF PoolOK, Pools
      <4> QED
        BY <4>1, SecondaryFacts
    <3> QED
      BY <3>1 DEF WF, BamOK
  <2>3. \A i \in d.pool.allocated : e.pool.secondary[i] = d.pool.secondary[i]
    BY DEF Keep
  <2>4. {d.one, d.two} \ {NULL} \subseteq e.pool.allocated \cap e.pool.sticky
    BY DEF WF, BamOK, Keep
  <2> QED
    BY <2>1, <2>2, <2>3, <2>4 DEF WF, BamOK
<1>5. Unique(e)
  <2>1. \A i \in M : e.pool.secondary[i] \in Host => i = start
    BY SecondaryFacts
  <2>2. \A i \in d.pool.allocated : e.pool.secondary[i] = d.pool.secondary[i]
    BY DEF Keep
  <2> QED
    BY <2>1, <2>2 DEF WF, Unique, Silent
<1> QED
  BY <1>3, <1>4, <1>5 DEF WF
(* The active buffer of a '#' channel hands its number to another of its    *)
(* chain.                                                                   *)
LEMMA ActivateWF ==
  ASSUME NEW d, WF(d), NEW i \in d.pool.allocated, d.use[i].kind = "direct",
         NEW s \in Host, d.pool.secondary[i] = s,
         NEW j \in Chain(d.pool, i),
         NEW e, e = With(d, Activate(d.pool, i, j, s))
  PROVE  /\ WF(e) /\ (Tidy(d) => Tidy(e))
         /\ e.pool.allocated = d.pool.allocated
         /\ e.pool.secondary[j] = s
<1> DEFINE C == Chain(d.pool, i)
           q == Activate(d.pool, i, j, s)
           sec == [d.pool.secondary EXCEPT ![i] = SecChain - s, ![j] = s]
<1>1. d.pool \in Pools /\ d.pool.allocated \subseteq Idx
  BY DEF WF, PoolOK, Pools
<1>2. LinkOK(d, i)
  BY DEF WF, Linked, KindOK
<1>3. i \in C /\ j \in C /\ C \subseteq d.pool.allocated
  BY <1>2 DEF LinkOK
<1>4. ActiveIn(d, C, i)
  <2>1. PICK a \in C : ActiveIn(d, C, a)
    BY <1>2 DEF LinkOK
  <2>2. a = i
    BY <1>3, <2>1, SecondaryFacts DEF ActiveIn
  <2> QED
    BY <2>1, <2>2
<1>5. /\ q.allocated = d.pool.allocated /\ q.sticky = d.pool.sticky
      /\ q.dirty = d.pool.dirty /\ q.first = d.pool.first /\ q.size = d.pool.size
      /\ q.active = d.pool.active /\ q.busyLed = d.pool.busyLed
      /\ q.dirtyLed = d.pool.dirtyLed /\ q.secondary = sec
      /\ q \in Pools
  <2>1. sec \in [Idx -> Secondary]
    BY <1>1, SecondaryFacts DEF Pools
  <2>2. q = [d.pool EXCEPT !.secondary = sec]
    BY DEF Activate
  <2> HIDE DEF q, sec
  <2> QED
    BY <1>1, <2>1, <2>2 DEF Pools
<1>6. /\ sec[j] = s
      /\ \A k \in C \ {j} : sec[k] = SecChain - s
      /\ \A k \in Idx \ C : sec[k] = d.pool.secondary[k]
  BY <1>1, <1>3, <1>4 DEF ActiveIn, Pools
<1>7. \A k \in C : sec[k] < SecSystem /\ sec[k] # SecBam /\ d.pool.secondary[k] < SecSystem
                   /\ d.pool.secondary[k] # SecBam
  BY <1>4, <1>6, SecondaryFacts DEF ActiveIn
<1>8. e = With(d, q)
  OBVIOUS
<1> HIDE DEF q, sec
<1>9. PoolOK(q)
  <2>1. \A k \in d.pool.allocated :
          q.secondary[k] < SecSystem <=> d.pool.secondary[k] < SecSystem
    BY <1>1, <1>5, <1>6, <1>7
  <2>2. PoolOK(d.pool)
    BY DEF WF
  <2> QED
    BY <1>5, <2>1, <2>2, SameUsers
<1>10. /\ e.pool = q /\ e.use = d.use /\ e.one = d.one /\ e.two = d.two
       /\ e \in Work
  BY <1>5, <1>8, WithFields DEF WF
<1>11. \A k \in d.pool.allocated : Chain(q, k) = Chain(d.pool, k)
  BY <1>5 DEF Chain
<1>12. ASSUME NEW k \in d.pool.allocated, d.pool.size[k] # 0
       PROVE  LinkOK(e, k)
  <2>1. LinkOK(d, k)
    BY <1>12 DEF WF, Linked
  <2>2. CASE k \in C
    <3>1. d.pool.first[k] = d.pool.first[i] /\ d.pool.size[k] = d.pool.size[i]
      BY <1>2, <2>2 DEF LinkOK
    <3>2. Chain(d.pool, k) = C
      BY <2>2, <3>1 DEF Chain
    <3>3. ActiveIn(e, C, j)
      BY <1>5, <1>6, <1>10 DEF ActiveIn
    <3> QED
      BY <1>3, <1>5, <1>10, <1>11, <2>1, <3>2, <3>3 DEF LinkOK
  <2>3. CASE k \notin C
    <3>1. Chain(d.pool, k) \cap C = {}
      BY <1>12, <2>3, ChainsDisjoint
    <3>2. Chain(d.pool, k) \subseteq d.pool.allocated \cap d.pool.sticky
      BY <2>1 DEF LinkOK
    <3>3. \A m \in Chain(d.pool, k) :
            /\ e.pool.first[m] = d.pool.first[m]
            /\ e.pool.size[m] = d.pool.size[m]
            /\ e.pool.secondary[m] = d.pool.secondary[m]
            /\ e.use[m].kind = d.use[m].kind
      BY <1>1, <1>5, <1>6, <1>10, <3>1, <3>2
    <3>4. Chain(d.pool, k) \subseteq e.pool.allocated \cap e.pool.sticky
      BY <1>5, <1>10, <3>2
    <3> QED
      BY <2>1, <3>3, <3>4, LinkSame
  <2> QED
    BY <2>2, <2>3
<1>13. Linked(e)
  <2>1. ASSUME NEW k \in d.pool.allocated
        PROVE  KindOK(e, k)
    <3>1. KindOK(d, k)
      BY DEF WF, Linked
    <3>2. e.pool.secondary[k] = SecBam <=> d.pool.secondary[k] = SecBam
      BY <1>1, <1>5, <1>6, <1>7, <1>10
    <3> QED
      BY <1>5, <1>10, <3>1, <3>2 DEF KindOK
  <2> QED
    BY <1>5, <1>10, <1>12, <2>1 DEF Linked
<1>14. BamOK(e)
  <2>1. \A k \in d.pool.allocated :
          e.pool.secondary[k] = SecBam <=> d.pool.secondary[k] = SecBam
    BY <1>1, <1>5, <1>6, <1>7, <1>10
  <2> QED
    BY <1>5, <1>10, <2>1 DEF WF, BamOK
<1>15. Unique(e)
  <2>1. \A k \in d.pool.allocated :
          e.pool.secondary[k] \in Host
            => k = j \/ (k \notin C /\ e.pool.secondary[k] = d.pool.secondary[k])
    BY <1>1, <1>5, <1>6, <1>10, SecondaryFacts
  <2>2. \A k \in d.pool.allocated :
          k \notin C /\ s # 0 => d.pool.secondary[k] # s
    BY <1>3 DEF WF, Unique
  <2>3. e.pool.secondary[j] = s
    BY <1>5, <1>6, <1>10
  <2> QED
    BY <1>5, <1>10, <2>1, <2>2, <2>3 DEF WF, Unique
<1> QED
  BY <1>5, <1>6, <1>9, <1>10, <1>13, <1>14, <1>15 DEF WF, Tidy
=============================================================================
