-------------------------- MODULE ChannelTheorems --------------------------
(***************************************************************************)
(* The properties of module Channels as theorems: the inductive invariant   *)
(* IInv holds initially, every action preserves it, and it implies each     *)
(* safety property and, with the guards of the actions, the action property. *)
(***************************************************************************)
EXTENDS ChannelProofs

(* Between two handlers the pool, the uses and the BAM pointers are a well *)
(* formed work record with nothing to collect, and the reference count of   *)
(* the BAM buffers is the number of mounted images.                         *)
Counted ==
  /\ mounted \subseteq Parts
  /\ bam_refcount = Cardinality(mounted)

IInv == WF(Now) /\ Tidy(Now) /\ Counted

-----------------------------------------------------------------------------
LEMMA NowFields ==
  Now.pool = pool /\ Now.use = use /\ Now.one = bam_buffer /\ Now.two = bam_buffer2
BY DEF Now

LEMMA SettleStep ==
  ASSUME NEW ACTION d, WF(d), Tidy(d), Settle(d)
  PROVE  (WF(Now) /\ Tidy(Now))'
<1>1. Now' = Settled(d)
  BY DEF Settle, Settled, Now
<1>2. WF(Now') /\ Tidy(Now')
  BY <1>1, SettledWF
<1> QED
  BY <1>2

LEMMA CollectStep ==
  ASSUME NEW ACTION d, WF(d), Collect(d)
  PROVE  (WF(Now) /\ Tidy(Now))'
<1>1. WF(Sweep(d, FMB_UNSTICKY)) /\ Tidy(Sweep(d, FMB_UNSTICKY))
  BY CollectWF
<1>2. Settle(Sweep(d, FMB_UNSTICKY))
  BY DEF Collect
<1> QED
  BY <1>1, <1>2, SettleStep

(* Handlers that leave the images alone. *)
LEMMA BamUnchangedCounted ==
  ASSUME Counted, BamUnchanged
  PROVE  Counted'
BY DEF Counted, BamUnchanged
-----------------------------------------------------------------------------
(* The closing of a channel that is about to be opened. *)
LEMMA ClosedWF ==
  ASSUME IInv, NEW s \in Host
  PROVE  WF(Closed(s)) /\ Tidy(Closed(s)) /\ (s = 0 \/ Silent(Closed(s), s))
<1>1. WF(Now) /\ Tidy(Now)
  BY DEF IInv
<1>2. CASE ~Holds(pool, s)
  <2>1. Closed(s) = Now
    BY <1>2 DEF Closed
  <2>2. Silent(Now, s)
    BY <1>2, NowFields DEF Holds, Silent
  <2> QED
    BY <1>1, <2>1, <2>2
<1>3. CASE Holds(pool, s)
  <2> DEFINE j == find_buffer(pool, s)
             e == CleanupAndFree(Now, j)
  <2>1. Closed(s) = e
    BY <1>3 DEF Closed
  <2>2. pool \in Pools
    BY <1>1, NowFields DEF WF, PoolOK
  <2>3. j \in pool.allocated /\ pool.secondary[j] = s
    BY <1>3, <2>2, FindBufferFinds
  <2> HIDE DEF j
  <2>4. j \in Now.pool.allocated /\ Now.pool.secondary[j] = s /\ s # SecBam
    BY <2>3, NowFields, SecondaryFacts
  <2> DEFINE n == Now
  <2>5. n \in Work /\ WF(n) /\ Tidy(n)
    BY <1>1 DEF WF
  <2>6. /\ WF(e) /\ (Tidy(Now) => Tidy(e))
        /\ j \notin e.pool.allocated /\ e.pool.allocated \subseteq Now.pool.allocated
        /\ \A k \in e.pool.allocated : e.pool.secondary[k] = Now.pool.secondary[k]
    BY <1>1, <2>4, CleanupWF
  <2> HIDE DEF e, n
  <2>7. s # 0 => Silent(e, s)
    <3>1. Unique(Now)
      BY <1>1 DEF WF
    <3> QED
      BY <2>4, <2>6, <3>1 DEF Unique, Silent
  <2> QED
    BY <1>1, <2>1, <2>6, <2>7
<1> QED
  BY <1>2, <1>3

(* The buffer of a channel that is open. *)
LEMMA FoundBuffer ==
  ASSUME NEW d, WF(d), NEW s \in Host, Holds(d.pool, s),
         NEW i, i = find_buffer(d.pool, s)
  PROVE  /\ i \in d.pool.allocated /\ i \in Idx
         /\ d.pool.secondary[i] = s /\ s # SecBam
         /\ d.use[i].kind # "bam"
<1>1. d.pool \in Pools
  BY DEF WF, PoolOK
<1>2. i \in d.pool.allocated /\ d.pool.secondary[i] = s
  BY <1>1, FindBufferFinds
<1>3. s # SecBam
  BY SecondaryFacts
<1>4. KindOK(d, i)
  BY <1>2 DEF WF, Linked
<1> QED
  BY <1>1, <1>2, <1>3, <1>4 DEF KindOK, Pools

-----------------------------------------------------------------------------
LEMMA OpenFailsInv ==
  ASSUME IInv, NEW s \in Host, OpenFails(s)
  PROVE  IInv'
<1>1. WF(Closed(s)) /\ Collect(Closed(s)) /\ BamUnchanged /\ Counted
  BY ClosedWF DEF OpenFails, IInv
<1>2. (WF(Now) /\ Tidy(Now))'
  BY <1>1, CollectStep
<1> QED
  BY <1>1, <1>2, BamUnchangedCounted DEF IInv

(* One direct access buffer is a chain of one. *)
LEMMA DirectWF ==
  ASSUME NEW d, WF(d), Unallocated(d.pool) # {},
         NEW s \in Host, s = 0 \/ Silent(d, s),
         NEW i, i = FirstFree(d.pool),
         NEW e, e = Stick(Grab(d, s, Use("direct", NoPart)), {i}),
         NEW f, f = With(e, ChainOfOne(e.pool, i))
  PROVE  WF(f)
<1> DEFINE r == alloc_buffer(d.pool, s)
           q == stick_buffers(r, {i})
           p == ChainOfOne(q, i)
           u == [d.use EXCEPT ![i] = Use("direct", NoPart)]
<1>1. s \in Secondary /\ s < SecSystem
  BY SecondaryFacts
<1>2. /\ PoolOK(r)
      /\ i \in Idx /\ i \notin d.pool.allocated
      /\ r.allocated = d.pool.allocated \cup {i}
      /\ r.sticky = d.pool.sticky \ {i}
      /\ r.dirty = d.pool.dirty \ {i}
      /\ r.secondary = [d.pool.secondary EXCEPT ![i] = s]
      /\ r.first = [d.pool.first EXCEPT ![i] = i]
      /\ r.size = [d.pool.size EXCEPT ![i] = 0]
  BY <1>1, AllocBuffer DEF WF
<1>3. /\ e.pool = q /\ e.use = u /\ e.one = d.one /\ e.two = d.two /\ e \in Work
  <2> DEFINE v == With(d, r)
             w == UsedAs(v, u)
  <2>1. v.pool = r /\ v.use = d.use /\ v.one = d.one /\ v.two = d.two /\ v \in Work
    BY <1>2, WithFields DEF WF, PoolOK
  <2>2. u \in [Idx -> Uses]
    <3>1. Use("direct", NoPart) \in Uses
      BY UseType DEF Kinds
    <3> QED
      BY <1>2, <3>1 DEF WF, Work
  <2> HIDE DEF v, u
  <2>3. w.pool = r /\ w.use = u /\ w.one = d.one /\ w.two = d.two /\ w \in Work
    BY <2>1, <2>2, UsedAsFields
  <2>4. e = Stick(w, {i})
    BY DEF Grab, u, v
  <2> HIDE DEF r, w
  <2>5. e = With(w, q)
    BY <2>3, <2>4 DEF Stick
  <2>6. q \in Pools
    BY <1>2, StickBuffers DEF PoolOK
  <2> HIDE DEF q
  <2> QED
    BY <2>3, <2>5, <2>6, WithFields
<1> HIDE DEF r, u
<1>4. PoolOK(q) /\ q = [r EXCEPT !.sticky = r.sticky \cup {i}]
  BY <1>2, StickBuffers
<1> HIDE DEF q
<1>5. /\ q.allocated = d.pool.allocated \cup {i}
      /\ q.sticky = (d.pool.sticky \ {i}) \cup {i}
      /\ q.dirty = d.pool.dirty \ {i}
      /\ q.secondary = [d.pool.secondary EXCEPT ![i] = s]
      /\ q.first = [d.pool.first EXCEPT ![i] = i]
      /\ q.size = [d.pool.size EXCEPT ![i] = 0]
  BY <1>2, <1>4 DEF PoolOK, Pools
<1>6. d.pool \in Pools /\ q \in Pools /\ d.use \in [Idx -> Uses] /\ d.pool.allocated \subseteq Idx
  BY <1>4 DEF WF, Work, PoolOK, Pools
<1>7. /\ p.allocated = q.allocated /\ p.sticky = q.sticky /\ p.dirty = q.dirty
      /\ p.secondary = q.secondary /\ p.first = q.first
      /\ p.active = q.active /\ p.busyLed = q.busyLed /\ p.dirtyLed = q.dirtyLed
      /\ p.size = [q.size EXCEPT ![i] = 1]
      /\ p \in Pools
  <2> DEFINE z == [q.size EXCEPT ![i] = 1]
  <2>1. 1 \in 0 .. Count /\ q.size \in [Idx -> 0 .. Count]
    BY <1>6, CountAssumption DEF Pools
  <2>2. z \in [Idx -> 0 .. Count]
    BY <2>1
  <2>3. p = [q EXCEPT !.size = z]
    BY DEF ChainOfOne
  <2> HIDE DEF z, p
  <2>4. /\ p.allocated = q.allocated /\ p.sticky = q.sticky /\ p.dirty = q.dirty
        /\ p.secondary = q.secondary /\ p.first = q.first
        /\ p.active = q.active /\ p.busyLed = q.busyLed /\ p.dirtyLed = q.dirtyLed
        /\ p.size = z
        /\ p \in Pools
    BY <1>6, <2>2, <2>3 DEF Pools
  <2> QED
    BY <2>4 DEF z
<1>8. f = With(e, p)
  BY <1>3
<1> HIDE DEF p
<1>9. PoolOK(p)
  BY <1>4, <1>7, SameUsers
<1>10. f.pool = p /\ f.use = u /\ f.one = d.one /\ f.two = d.two /\ f \in Work
  BY <1>3, <1>7, <1>8, WithFields
<1>11. /\ f.pool.size[i] = 1 /\ f.pool.first[i] = i /\ f.pool.secondary[i] = s
       /\ f.use[i].kind = "direct"
       /\ \A k \in d.pool.allocated :
            /\ f.pool.secondary[k] = d.pool.secondary[k]
            /\ f.pool.first[k] = d.pool.first[k]
            /\ f.pool.size[k] = d.pool.size[k]
            /\ f.use[k] = d.use[k]
  <2>1. Use("direct", NoPart).kind = "direct"
    BY UseType
  <2>2. u = [d.use EXCEPT ![i] = Use("direct", NoPart)] /\ i \in Idx
    BY <1>2 DEF u
  <2>3. u[i].kind = "direct" /\ \A k \in d.pool.allocated : u[k] = d.use[k]
    BY <1>2, <1>6, <2>1, <2>2
  <2>4. d.pool.secondary \in [Idx -> Secondary] /\ d.pool.first \in [Idx -> Idx]
        /\ d.pool.size \in [Idx -> 0 .. Count] /\ q.size \in [Idx -> 0 .. Count]
    BY <1>6 DEF Pools
  <2>5. p.size[i] = 1 /\ \A k \in d.pool.allocated : p.size[k] = d.pool.size[k]
    BY <1>2, <1>5, <1>6, <1>7, <2>4
  <2>6. /\ p.first[i] = i /\ p.secondary[i] = s
        /\ \A k \in d.pool.allocated : /\ p.secondary[k] = d.pool.secondary[k]
                                       /\ p.first[k] = d.pool.first[k]
    BY <1>2, <1>5, <1>6, <1>7, <2>4
  <2> QED
    BY <1>10, <2>3, <2>5, <2>6
<1>12. Keep(d, f)
  <2>1. /\ f.pool.allocated = d.pool.allocated \cup {i}
        /\ f.pool.sticky = (d.pool.sticky \ {i}) \cup {i}
        /\ f.pool.dirty = d.pool.dirty \ {i}
    BY <1>5, <1>7, <1>10
  <2> QED
    BY <1>11, <2>1 DEF Keep
<1> DEFINE n == 1
           M == Span(i, n)
<1>13. M = {i}
  BY <1>2 DEF Idx, Span
<1> HIDE DEF M, n
<1>14. /\ M \cap d.pool.allocated = {}
       /\ f.pool.allocated = d.pool.allocated \cup M
       /\ M \subseteq f.pool.sticky
  BY <1>2, <1>5, <1>7, <1>10, <1>13
<1>15. \A k \in M : /\ f.pool.size[k] = n /\ f.pool.first[k] = i
                    /\ f.use[k].kind = "direct"
                    /\ f.pool.secondary[k] = IF k = i THEN s ELSE SecChain - s
  BY <1>11, <1>13 DEF n
<1>16. M = Span(i, n)
  BY DEF M
<1>17. i \in Idx /\ n \in Nat \ {0} /\ f \in Work /\ PoolOK(f.pool)
       /\ f.one = d.one /\ f.two = d.two
  BY <1>2, <1>9, <1>10 DEF n
<1>18. NewChain(d, f, s, n, i, M)
  BY <1>12, <1>14, <1>15, <1>16, <1>17 DEF NewChain
<1> QED
  BY <1>18, ChainAddedWF

LEMMA OpenDirectInv ==
  ASSUME IInv, NEW s \in Host, OpenDirect(s)
  PROVE  IInv'
<1> DEFINE d == Closed(s)
           i == FirstFree(d.pool)
           e == Stick(Grab(d, s, Use("direct", NoPart)), {i})
           f == With(e, ChainOfOne(e.pool, i))
<1>1. WF(d) /\ (s = 0 \/ Silent(d, s)) /\ Counted
  BY ClosedWF DEF IInv
<1>2. Unallocated(d.pool) # {} /\ Collect(f) /\ BamUnchanged
  BY DEF OpenDirect
<1> HIDE DEF d
<1>3. WF(f)
  BY <1>1, <1>2, DirectWF
<1> HIDE DEF f
<1>4. (WF(Now) /\ Tidy(Now))'
  BY <1>2, <1>3, CollectStep
<1> QED
  BY <1>1, <1>2, <1>4, BamUnchangedCounted DEF IInv
(* A chain of n buffers, all on the complement of s but the first. *)
LargeChain(d, s, n) ==
  LET start   == LinkedStart(d.pool, n)
      members == start .. (start + n - 1)
      p       == alloc_linked_buffers(d.pool, n, SecChain - s)
      linked  == UsedAs(With(d, [p EXCEPT !.secondary[start] = s]),
                        [i \in Idx |-> IF i \in members THEN Use("direct", NoPart)
                                       ELSE d.use[i]])
  IN Stick(linked, members)

LEMMA LargeWF ==
  ASSUME NEW d, WF(d), NEW n \in Lengths, Runs(d.pool, n) # {},
         NEW s \in Host, s = 0 \/ Silent(d, s)
  PROVE  WF(LargeChain(d, s, n))
<1> DEFINE start == LinkedStart(d.pool, n)
           M     == Span(start, n)
           r     == alloc_linked_buffers(d.pool, n, SecChain - s)
           sec   == [r.secondary EXCEPT ![start] = s]
           q     == [r EXCEPT !.secondary = sec]
           u     == [i \in Idx |-> IF i \in M THEN Use("direct", NoPart) ELSE d.use[i]]
           v     == With(d, q)
           w     == UsedAs(v, u)
           f     == Stick(w, M)
<1>1. LargeChain(d, s, n) = f
  BY DEF LargeChain, Span
<1>2. /\ n \in Nat \ {0} /\ SecChain - s \in Secondary /\ SecChain - s < SecSystem
      /\ s \in Secondary /\ s < SecSystem /\ PoolOK(d.pool)
  BY SecondaryFacts, ChannelsAssumption DEF WF
<1>3. /\ PoolOK(r)
      /\ start \in Idx
      /\ M \subseteq Idx /\ M \cap d.pool.allocated = {}
      /\ r.allocated = d.pool.allocated \cup M
      /\ r.sticky = d.pool.sticky \ M
      /\ r.dirty = d.pool.dirty \ M
      /\ r.secondary = [k \in Idx |-> IF k \in M THEN SecChain - s ELSE d.pool.secondary[k]]
      /\ r.first = [k \in Idx |-> IF k \in M THEN start ELSE d.pool.first[k]]
      /\ r.size = [k \in Idx |-> IF k \in M THEN n ELSE d.pool.size[k]]
  <2> DEFINE c == SecChain - s
  <2> HIDE DEF c
  <2>1. LinkedMade(d.pool, n, c, alloc_linked_buffers(d.pool, n, c), start, M)
    BY <1>2, AllocLinked DEF c
  <2> QED
    BY <2>1 DEF LinkedMade, c
<1>4. start \in M
  BY <1>2, <1>3 DEF Span, Idx
<1>5. /\ d.pool \in Pools /\ d.use \in [Idx -> Uses] /\ d.pool.allocated \subseteq Idx
      /\ d \in Work /\ r \in Pools
  BY <1>3 DEF WF, Work, PoolOK, Pools
<1> HIDE DEF start, M, r
<1>6. /\ sec \in [Idx -> Secondary]
      /\ \A k \in M : sec[k] = IF k = start THEN s ELSE SecChain - s
      /\ \A k \in d.pool.allocated : sec[k] = d.pool.secondary[k]
  <2>1. r.secondary \in [Idx -> Secondary]
    BY <1>5 DEF Pools
  <2> QED
    BY <1>2, <1>3, <1>4, <1>5, <2>1
<1> HIDE DEF sec
<1>7. /\ q.allocated = r.allocated /\ q.sticky = r.sticky /\ q.dirty = r.dirty
      /\ q.first = r.first /\ q.size = r.size /\ q.secondary = sec
      /\ q.active = r.active /\ q.busyLed = r.busyLed /\ q.dirtyLed = r.dirtyLed
      /\ q \in Pools
  BY <1>5, <1>6 DEF Pools
<1> HIDE DEF q
<1>8. PoolOK(q)
  <2>1. \A k \in r.allocated : q.secondary[k] < SecSystem <=> r.secondary[k] < SecSystem
    <3>1. \A k \in M : sec[k] < SecSystem /\ r.secondary[k] < SecSystem
      BY <1>2, <1>3, <1>6
    <3>2. \A k \in d.pool.allocated : sec[k] = r.secondary[k]
      BY <1>3, <1>5, <1>6
    <3> QED
      BY <1>3, <1>7, <3>1, <3>2
  <2> QED
    BY <1>3, <1>7, <2>1, SameUsers
<1>9. /\ u \in [Idx -> Uses]
      /\ \A k \in M : u[k].kind = "direct"
      /\ \A k \in d.pool.allocated : u[k] = d.use[k]
  <2>1. Use("direct", NoPart) \in Uses /\ Use("direct", NoPart).kind = "direct"
    BY UseType DEF Kinds
  <2> QED
    BY <1>3, <1>5, <2>1
<1> HIDE DEF u
<1>10. v.pool = q /\ v.one = d.one /\ v.two = d.two /\ v \in Work
  BY <1>5, <1>7, WithFields
<1> HIDE DEF v
<1>11. w.pool = q /\ w.use = u /\ w.one = d.one /\ w.two = d.two /\ w \in Work
  BY <1>9, <1>10, UsedAsFields
<1> HIDE DEF w
<1> DEFINE p == stick_buffers(q, M)
<1>12. PoolOK(p) /\ p = [q EXCEPT !.sticky = q.sticky \cup M]
  BY <1>3, <1>8, StickBuffers
<1>13. f = With(w, p)
  BY <1>11 DEF Stick
<1> HIDE DEF p, f
<1>14. /\ p.allocated = q.allocated /\ p.sticky = q.sticky \cup M /\ p.dirty = q.dirty
       /\ p.first = q.first /\ p.size = q.size /\ p.secondary = q.secondary
  BY <1>7, <1>12 DEF Pools
<1>15. /\ f.pool = p /\ f.use = u /\ f.one = d.one /\ f.two = d.two /\ f \in Work
  BY <1>11, <1>12, <1>13, WithFields DEF PoolOK
<1>16. Keep(d, f)
  <2>1. \A k \in d.pool.allocated :
          /\ f.pool.secondary[k] = d.pool.secondary[k]
          /\ f.pool.first[k] = d.pool.first[k]
          /\ f.pool.size[k] = d.pool.size[k]
          /\ f.use[k] = d.use[k]
    BY <1>3, <1>5, <1>6, <1>7, <1>9, <1>14, <1>15
  <2> QED
    BY <1>3, <1>7, <1>14, <1>15, <2>1 DEF Keep
<1>17. \A k \in M : /\ f.pool.size[k] = n /\ f.pool.first[k] = start
                    /\ f.use[k].kind = "direct"
                    /\ f.pool.secondary[k] = IF k = start THEN s ELSE SecChain - s
  BY <1>3, <1>6, <1>7, <1>9, <1>14, <1>15
<1>18. M = Span(start, n)
  BY DEF M
<1>19. f.pool.allocated = d.pool.allocated \cup M /\ M \subseteq f.pool.sticky
  BY <1>3, <1>7, <1>14, <1>15
<1>20. NewChain(d, f, s, n, start, M)
  BY <1>2, <1>3, <1>12, <1>15, <1>16, <1>17, <1>18, <1>19 DEF NewChain
<1> QED
  BY <1>1, <1>20, ChainAddedWF

LEMMA OpenLargeInv ==
  ASSUME IInv, NEW s \in Host, NEW n \in Lengths, OpenLarge(s, n)
  PROVE  IInv'
<1> DEFINE d == Closed(s)
<1>1. WF(d) /\ (s = 0 \/ Silent(d, s)) /\ Counted
  BY ClosedWF DEF IInv
<1>2. /\ BamUnchanged
      /\ \/ Collect(d)
         \/ Runs(d.pool, n) # {} /\ Collect(LargeChain(d, s, n))
  BY DEF OpenLarge, LargeChain
<1> HIDE DEF d
<1>3. (WF(Now) /\ Tidy(Now))'
  <2>1. CASE Collect(d)
    BY <1>1, <2>1, CollectStep
  <2>2. CASE Runs(d.pool, n) # {} /\ Collect(LargeChain(d, s, n))
    <3>1. WF(LargeChain(d, s, n))
      BY <1>1, <2>2, LargeWF
    <3> QED
      BY <2>2, <3>1, CollectStep
  <2> QED
    BY <1>2, <2>1, <2>2
<1> QED
  BY <1>1, <1>2, <1>3, BamUnchangedCounted DEF IInv

LEMMA OpenReadInv ==
  ASSUME IInv, NEW s \in Host, NEW kind \in {"read", "dir"}, NEW part \in Parts,
         OpenRead(s, kind, part)
  PROVE  IInv'
<1> DEFINE d == Closed(s)
           u == Use(kind, IF kind = "dir" /\ OnImage(part) THEN part ELSE NoPart)
           e == Grab(d, s, u)
           i == FirstFree(d.pool)
           f == Stick(e, {i})
<1>1. WF(d) /\ (s = 0 \/ Silent(d, s)) /\ Counted
  BY ClosedWF DEF IInv
<1>2. /\ Unallocated(d.pool) # {} /\ BamUnchanged
      /\ Collect(e) \/ Collect(f)
  BY DEF OpenRead
<1>3. u \in Uses /\ u.kind \notin {"direct", "bam"}
  BY UseType DEF Kinds
<1> HIDE DEF d, u
<1>4. WF(e) /\ i \in Idx
  BY <1>1, <1>2, <1>3, GrabWF
<1> HIDE DEF e
<1>5. WF(f)
  BY <1>4, StickWF
<1> HIDE DEF f
<1>6. (WF(Now) /\ Tidy(Now))'
  BY <1>2, <1>4, <1>5, CollectStep
<1> QED
  BY <1>1, <1>2, <1>6, BamUnchangedCounted DEF IInv

(* Looking at the BAM, or not. *)
LEMMA MaybeBam ==
  ASSUME NEW d, WF(d), NEW part \in Parts,
         NEW e, e \in {d} \/ e \in BamUse(d, part) \/ e \in {d} \cup BamUse(d, part)
  PROVE  BamStep(d, e)
<1>1. BamStep(d, d)
  BY KeepReflexive DEF BamStep
<1> QED
  BY <1>1, BamUseWF

LEMMA OpenWriteInv ==
  ASSUME IInv, NEW s \in Host, NEW part \in Parts, OpenWrite(s, part)
  PROVE  IInv'
<1> DEFINE d == Closed(s)
           before == IF OnImage(part) THEN {d} \cup BamUse(d, part) ELSE {d}
           u == Use("write", IF OnImage(part) THEN part ELSE NoPart)
           Granted(e) == Grab(e, s, u)
           After(e) == IF OnImage(part) THEN BamUse(Granted(e), part) ELSE {Granted(e)}
<1>1. WF(d) /\ (s = 0 \/ Silent(d, s)) /\ Counted
  BY ClosedWF DEF IInv
<1>2. u \in Uses /\ u.kind \notin {"direct", "bam"}
  BY UseType DEF Kinds
<1>3. PICK e \in before :
        \/ Collect(e)
        \/ /\ Unallocated(e.pool) # {}
           /\ \E f \in After(e) : Collect(f) \/ Collect(Stick(f, {FirstFree(e.pool)}))
  BY DEF OpenWrite
<1>4. BamUnchanged
  BY DEF OpenWrite
<1> HIDE DEF u
<1>5. BamStep(d, e)
  <2>1. e \in {d} \/ e \in {d} \cup BamUse(d, part)
    BY <1>3
  <2> HIDE DEF d
  <2> QED
    BY <1>1, <2>1, MaybeBam
<1> HIDE DEF d, before
<1>6. WF(e) /\ (s = 0 \/ Silent(e, s))
  BY <1>1, <1>5 DEF BamStep
<1>7. (WF(Now) /\ Tidy(Now))'
  <2>1. CASE Collect(e)
    BY <1>6, <2>1, CollectStep
  <2>2. CASE /\ Unallocated(e.pool) # {}
             /\ \E f \in After(e) : Collect(f) \/ Collect(Stick(f, {FirstFree(e.pool)}))
    <3> DEFINE g == Granted(e)
               i == FirstFree(e.pool)
    <3>1. WF(g) /\ i \in Idx
      BY <1>2, <1>6, <2>2, GrabWF
    <3>2. PICK f \in After(e) : Collect(f) \/ Collect(Stick(f, {i}))
      BY <2>2
    <3>3. f \in {g} \/ f \in BamUse(g, part)
      BY <3>2
    <3> HIDE DEF g, Granted, After, i
    <3>4. WF(f)
      BY <3>1, <3>3, MaybeBam DEF BamStep
    <3>5. WF(Stick(f, {i}))
      BY <3>1, <3>4, StickWF
    <3> QED
      BY <3>2, <3>4, <3>5, CollectStep
  <2> QED
    BY <1>3, <2>1, <2>2
<1> QED
  BY <1>1, <1>4, <1>7, BamUnchangedCounted DEF IInv
-----------------------------------------------------------------------------
(* The next buffer, and the one n steps from the first, are of the chain.   *)
LEMMA MovesInChain ==
  ASSUME NEW d, WF(d), NEW i \in d.pool.allocated, d.use[i].kind = "direct"
  PROVE  /\ Next1(d.pool, i) \in Chain(d.pool, i)
         /\ \A n \in Nat : d.pool.size[i] # 1
              => d.pool.first[i] + (n % d.pool.size[i]) \in Chain(d.pool, i)
<1>1. LinkOK(d, i) /\ KindOK(d, i) /\ d.pool \in Pools
  BY DEF WF, Linked, KindOK, PoolOK
<1>2. /\ i \in Idx /\ d.pool.first[i] \in Idx /\ d.pool.size[i] \in 0 .. Count
      /\ d.pool.size[i] # 0
  BY <1>1 DEF Pools, KindOK
<1>3. i \in Chain(d.pool, i) /\ (d.pool.size[i] = 1 => d.pool.first[i] = i)
  BY <1>1 DEF LinkOK
<1>4. CASE d.pool.size[i] = 1
  BY <1>2, <1>3, <1>4, CountAssumption DEF Next1, Chain, Idx
<1>5. CASE d.pool.size[i] # 1
  <2>1. d.pool.size[i] > 1 /\ d.pool.size[i] \in Int /\ d.pool.first[i] \in Int /\ i \in Int
    BY <1>2, <1>5, CountAssumption DEF Idx
  <2>2. i \in d.pool.first[i] .. (d.pool.first[i] + d.pool.size[i] - 1)
    BY <1>3, <2>1 DEF Chain
  <2>3. Next1(d.pool, i) \in Chain(d.pool, i)
    BY <2>1, <2>2 DEF Next1, Chain
  <2>4. ASSUME NEW n \in Nat
        PROVE  d.pool.first[i] + (n % d.pool.size[i]) \in Chain(d.pool, i)
    <3>1. n % d.pool.size[i] \in 0 .. (d.pool.size[i] - 1)
      BY <2>1
    <3> QED
      BY <2>1, <3>1 DEF Chain
  <2> QED
    BY <2>3, <2>4
<1> QED
  BY <1>4, <1>5

(* The channel moves on to a buffer of its chain. *)
LEMMA RotateWF ==
  ASSUME NEW d, WF(d), NEW i \in d.pool.allocated, d.use[i].kind = "direct",
         NEW s \in Host, d.pool.secondary[i] = s
  PROVE  /\ WF(With(d, Rotate(d.pool, i))) /\ (Tidy(d) => Tidy(With(d, Rotate(d.pool, i))))
         /\ Holds(With(d, Rotate(d.pool, i)).pool, s)
<1> DEFINE j == Next1(d.pool, i)
           e == With(d, Activate(d.pool, i, j, s))
<1>1. LinkOK(d, i)
  BY DEF WF, Linked, KindOK
<1>2. j \in Chain(d.pool, i)
  BY MovesInChain
<1>3. Rotate(d.pool, i) = Activate(d.pool, i, j, s)
  BY DEF Rotate
<1> HIDE DEF j
<1>4. /\ WF(e) /\ (Tidy(d) => Tidy(e))
      /\ e.pool.allocated = d.pool.allocated /\ e.pool.secondary[j] = s
  BY <1>2, ActivateWF
<1>5. j \in d.pool.allocated
  BY <1>1, <1>2 DEF LinkOK
<1> HIDE DEF e
<1>6. Holds(e.pool, s)
  BY <1>4, <1>5 DEF Holds
<1> QED
  BY <1>3, <1>4, <1>6 DEF e

(* A file's buffer is freed. *)
LEMMA FreeOneWF ==
  ASSUME NEW d, WF(d), NEW i \in d.pool.allocated, d.use[i].kind \notin {"direct", "bam"}
  PROVE  WF(Free(d, {i})) /\ (Tidy(d) => Tidy(Free(d, {i})))
<1>1. {i} \in SUBSET d.pool.allocated
      /\ \A k \in {i} : d.use[k].kind \notin {"direct", "bam"}
  OBVIOUS
<1> QED
  BY <1>1, FreePlainWF

LEMMA ListenInv ==
  ASSUME IInv, NEW s \in Host, Listen(s)
  PROVE  IInv'
<1> DEFINE i == find_buffer(pool, s)
           part == use[i].part
           d == Now
           flushed == Clean(d, i)
           failed == Free(d, {i})
           moved == With(d, Rotate(d.pool, i))
<1>1. /\ d.pool = pool /\ d.use = use /\ WF(d) /\ Tidy(d) /\ Counted
  BY NowFields DEF IInv
<1>2. /\ Holds(pool, s) /\ use[i].kind \in {"write", "direct"} /\ BamUnchanged
      /\ \/ Settle(Dirty(d, i))
         \/ use[i].kind = "direct" /\ Settle(Dirty(moved, find_buffer(moved.pool, s)))
         \/ use[i].kind = "write" /\ Settle(Dirty(flushed, i))
         \/ use[i].kind = "write" /\ Settle(failed)
         \/ /\ use[i].kind = "write" /\ part # NoPart
            /\ \E e \in BamUse(flushed, part) : Settle(Dirty(e, i))
         \/ /\ use[i].kind = "write" /\ part # NoPart
            /\ \E e \in BamUse(failed, part) : Settle(e)
  <2>1. d \in [pool : {pool}, use : {use}, one : {bam_buffer}, two : {bam_buffer2}]
    BY DEF Now
  <2>2. With(d, Rotate(pool, i)).pool = Rotate(pool, i)
    BY <2>1 DEF With
  <2> QED
    BY <1>1, <2>2 DEF Listen
<1>3. /\ i \in d.pool.allocated /\ i \in Idx /\ d.use[i].kind # "bam"
      /\ d.pool.secondary[i] = s
  BY <1>1, <1>2, FoundBuffer
<1>4. part \in Parts \cup {NoPart}
  BY <1>1, <1>3 DEF WF, Work, Uses
<1> HIDE DEF i, part, d
<1>5. WF(flushed) /\ Tidy(flushed) /\ Keep(d, flushed)
  BY <1>1, <1>3, MarkCleanWF
<1> HIDE DEF flushed
<1>6. (WF(Now) /\ Tidy(Now))'
  <2>1. CASE Settle(Dirty(d, i))
    <3>1. WF(Dirty(d, i)) /\ Tidy(Dirty(d, i))
      BY <1>1, <1>3, MarkDirtyWF
    <3> QED
      BY <2>1, <3>1, SettleStep
  <2>2. CASE use[i].kind = "direct" /\ Settle(Dirty(moved, find_buffer(moved.pool, s)))
    <3> DEFINE j == find_buffer(moved.pool, s)
    <3>1. WF(moved) /\ Tidy(moved) /\ Holds(moved.pool, s)
      BY <1>1, <1>3, <2>2, RotateWF
    <3> HIDE DEF moved
    <3>2. j \in moved.pool.allocated /\ moved.use[j].kind # "bam"
      BY <3>1, FoundBuffer
    <3> HIDE DEF j
    <3>3. WF(Dirty(moved, j)) /\ Tidy(Dirty(moved, j))
      BY <3>1, <3>2, MarkDirtyWF
    <3>4. Settle(Dirty(moved, j))
      BY <2>2 DEF j
    <3> QED
      BY <3>3, <3>4, SettleStep
  <2>3. CASE Settle(Dirty(flushed, i))
    <3>1. i \in flushed.pool.allocated /\ flushed.use[i].kind # "bam"
      BY <1>3, <1>5 DEF Keep
    <3>2. WF(Dirty(flushed, i)) /\ Tidy(Dirty(flushed, i))
      BY <1>5, <3>1, MarkDirtyWF
    <3> QED
      BY <2>3, <3>2, SettleStep
  <2>4. ASSUME use[i].kind = "write"
        PROVE  WF(failed) /\ Tidy(failed)
    <3>1. d.use[i].kind \notin {"direct", "bam"}
      BY <1>1, <2>4
    <3> QED
      BY <1>1, <1>3, <3>1, FreeOneWF
  <2> HIDE DEF failed
  <2>5. CASE use[i].kind = "write" /\ Settle(failed)
    BY <2>4, <2>5, SettleStep
  <2>6. CASE \E e \in BamUse(flushed, part) : Settle(Dirty(e, i))
    <3>1. PICK e \in BamUse(flushed, part) : Settle(Dirty(e, i))
      BY <2>6
    <3>2. WF(e) /\ Tidy(e) /\ Keep(flushed, e)
      BY <1>4, <1>5, BamUseWF DEF BamStep
    <3>3. i \in e.pool.allocated /\ e.use[i].kind # "bam"
      BY <1>3, <1>5, <3>2 DEF Keep
    <3>4. WF(Dirty(e, i)) /\ Tidy(Dirty(e, i))
      BY <3>2, <3>3, MarkDirtyWF
    <3> QED
      BY <3>1, <3>4, SettleStep
  <2>7. CASE use[i].kind = "write" /\ \E e \in BamUse(failed, part) : Settle(e)
    <3>1. PICK e \in BamUse(failed, part) : Settle(e)
      BY <2>7
    <3>2. WF(e) /\ Tidy(e)
      BY <1>4, <2>4, <2>7, BamUseWF DEF BamStep
    <3> QED
      BY <3>1, <3>2, SettleStep
  <2> QED
    BY <1>2, <2>1, <2>2, <2>3, <2>5, <2>6, <2>7
<1> QED
  BY <1>1, <1>2, <1>6, BamUnchangedCounted DEF IInv

LEMMA TalkInv ==
  ASSUME IInv, NEW s \in Host, Talk(s)
  PROVE  IInv'
<1> DEFINE i == find_buffer(pool, s)
           part == use[i].part
           d == Now
<1>1. /\ d.pool = pool /\ d.use = use /\ WF(d) /\ Tidy(d) /\ Counted
  BY NowFields DEF IInv
<1>2. /\ Holds(pool, s) /\ BamUnchanged
      /\ \/ use[i].kind \in {"read", "dir"} /\ Settle(Free(d, {i}))
         \/ use[i].kind = "direct" /\ Settle(With(d, Rotate(d.pool, i)))
         \/ \E e \in BamUse(d, part) : Settle(e)
  BY <1>1 DEF Talk
<1>3. /\ i \in d.pool.allocated /\ i \in Idx /\ d.use[i].kind # "bam"
      /\ d.pool.secondary[i] = s
  BY <1>1, <1>2, FoundBuffer
<1>4. part \in Parts \cup {NoPart}
  BY <1>1, <1>3 DEF WF, Work, Uses
<1> HIDE DEF i, part, d
<1>5. (WF(Now) /\ Tidy(Now))'
  <2>1. CASE use[i].kind \in {"read", "dir"} /\ Settle(Free(d, {i}))
    <3>1. d.use[i].kind \notin {"direct", "bam"}
      BY <1>1, <2>1
    <3>2. WF(Free(d, {i})) /\ Tidy(Free(d, {i}))
      BY <1>1, <1>3, <3>1, FreeOneWF
    <3> QED
      BY <2>1, <3>2, SettleStep
  <2>2. CASE use[i].kind = "direct" /\ Settle(With(d, Rotate(d.pool, i)))
    <3>1. WF(With(d, Rotate(d.pool, i))) /\ Tidy(With(d, Rotate(d.pool, i)))
      BY <1>1, <1>3, <2>2, RotateWF
    <3> QED
      BY <2>2, <3>1, SettleStep
  <2>3. CASE \E e \in BamUse(d, part) : Settle(e)
    <3>1. PICK e \in BamUse(d, part) : Settle(e)
      BY <2>3
    <3>2. WF(e) /\ Tidy(e)
      BY <1>1, <1>4, BamUseWF DEF BamStep
    <3> QED
      BY <3>1, <3>2, SettleStep
  <2> QED
    BY <1>2, <2>1, <2>2, <2>3
<1> QED
  BY <1>1, <1>2, <1>5, BamUnchangedCounted DEF IInv

LEMMA BufferPositionInv ==
  ASSUME IInv, NEW s \in Host, NEW n \in Nat, BufferPosition(s, n)
  PROVE  IInv'
<1> DEFINE i == find_buffer(pool, s)
           d == Now
           j == d.pool.first[i] + (n % d.pool.size[i])
           e == With(d, Activate(d.pool, i, j, s))
<1>1. /\ d.pool = pool /\ d.use = use /\ WF(d) /\ Tidy(d) /\ Counted
  BY NowFields DEF IInv
<1>2. /\ Holds(pool, s) /\ BamUnchanged /\ d.use[i].kind = "direct"
      /\ Settle(d) \/ (d.pool.size[i] # 1 /\ Settle(e))
  BY <1>1 DEF BufferPosition
<1>3. i \in d.pool.allocated /\ i \in Idx /\ d.pool.secondary[i] = s
  BY <1>1, <1>2, FoundBuffer
<1> HIDE DEF i, d
<1>4. d.pool.size[i] # 1 => j \in Chain(d.pool, i)
  BY <1>1, <1>2, <1>3, MovesInChain
<1>5. (WF(Now) /\ Tidy(Now))'
  <2>1. CASE Settle(d)
    BY <1>1, <2>1, SettleStep
  <2>2. CASE d.pool.size[i] # 1 /\ Settle(e)
    <3>1. j \in Chain(d.pool, i)
      BY <1>4, <2>2
    <3> HIDE DEF j
    <3>2. WF(e) /\ Tidy(e)
      BY <1>1, <1>2, <1>3, <3>1, ActivateWF
    <3> QED
      BY <2>2, <3>2, SettleStep
  <2> QED
    BY <1>2, <2>1, <2>2
<1> QED
  BY <1>1, <1>2, <1>5, BamUnchangedCounted DEF IInv
-----------------------------------------------------------------------------
LEMMA CloseChannelInv ==
  ASSUME IInv, NEW s \in Host, CloseChannel(s)
  PROVE  IInv'
<1> DEFINE i == find_buffer(pool, s)
           d == Now
           e == CleanupAndFree(d, i)
<1>1. /\ d.pool = pool /\ WF(d) /\ Tidy(d) /\ Counted
  BY NowFields DEF IInv
<1>2. Holds(pool, s) /\ Settle(e) /\ BamUnchanged
  BY DEF CloseChannel
<1>3. i \in d.pool.allocated /\ d.pool.secondary[i] # SecBam
  BY <1>1, <1>2, FoundBuffer
<1> HIDE DEF i, d
<1>4. WF(e) /\ Tidy(e)
  BY <1>1, <1>3, CleanupWF
<1> HIDE DEF e
<1>5. (WF(Now) /\ Tidy(Now))'
  BY <1>2, <1>4, SettleStep
<1> QED
  BY <1>1, <1>2, <1>5, BamUnchangedCounted DEF IInv

LEMMA SweptWF ==
  ASSUME IInv
  PROVE  WF(Swept) /\ Tidy(Swept) /\ Swept.one = bam_buffer /\ Swept.two = bam_buffer2
<1>1. WF(Now) /\ Tidy(Now)
  BY DEF IInv
<1> QED
  BY <1>1, SweepUsersWF, NowFields DEF Swept

LEMMA CloseAllInv ==
  ASSUME IInv, CloseAll
  PROVE  IInv'
<1>1. WF(Swept) /\ Tidy(Swept)
  BY SweptWF
<1>2. (WF(Now) /\ Tidy(Now))'
  BY <1>1, SettleStep DEF CloseAll
<1>3. Counted'
  BY DEF CloseAll, IInv, Counted
<1> QED
  BY <1>2, <1>3 DEF IInv

LEMMA ResetCommandInv ==
  ASSUME IInv, ResetCommand
  PROVE  IInv'
<1>1. WF(Now) /\ Counted
  BY DEF IInv
<1>2. WF(Sweep(Now, FMB_USER))
  BY <1>1, SweepUsersWF
<1>3. (WF(Now) /\ Tidy(Now))'
  BY <1>2, CollectStep DEF ResetCommand
<1> QED
  BY <1>1, <1>3, BamUnchangedCounted DEF IInv, ResetCommand

(* Mounting or unmounting one image changes the count by one. *)
LEMMA CountFits ==
  ASSUME NEW S \in SUBSET Parts
  PROVE  /\ IsFiniteSet(S) /\ Cardinality(S) \in 0 .. 255
         /\ \A part \in Parts : part \notin S
              => Cardinality(S \cup {part}) = Cardinality(S) + 1
         /\ \A part \in S : Cardinality(S \ {part}) = Cardinality(S) - 1
<1>1. IsFiniteSet(S) /\ Cardinality(S) <= Cardinality(Parts)
  BY FS_Subset, ChannelsAssumption
<1>2. Cardinality(S) \in Nat /\ Cardinality(Parts) \in Nat /\ Cardinality(Parts) <= 255
  BY <1>1, FS_CardinalityType, ChannelsAssumption
<1>3. Cardinality(S) \in 0 .. 255
  BY <1>1, <1>2
<1>4. \A part \in Parts : part \notin S => Cardinality(S \cup {part}) = Cardinality(S) + 1
  BY <1>1, FS_AddElement
<1>5. \A part \in S : Cardinality(S \ {part}) = Cardinality(S) - 1
  BY <1>1, FS_RemoveElement
<1> QED
  BY <1>1, <1>3, <1>4, <1>5

LEMMA MountInv ==
  ASSUME IInv, NEW part \in Parts, Mount(part)
  PROVE  IInv'
<1> DEFINE e == BamBufferAlloc(Swept)
<1>1. /\ WF(Swept) /\ Counted /\ Swept.one = bam_buffer /\ Swept.two = bam_buffer2
  BY SweptWF DEF IInv
<1>2. /\ part \notin mounted
      /\ \/ Collect(Swept) /\ UNCHANGED <<bam_refcount, mounted>>
         \/ /\ bam_buffer # NULL \/ Unallocated(Swept.pool) # {}
            /\ bam_refcount' = Byte(bam_refcount + 1)
            /\ mounted' = mounted \cup {part}
            /\ \/ Collect(Swept)
               \/ bam_buffer = NULL /\ Collect(e)
  BY DEF Mount, OnImage
<1>3. Counted'
  <2>1. CASE UNCHANGED <<bam_refcount, mounted>>
    BY <1>1, <1>2, <2>1 DEF Counted
  <2>2. CASE bam_refcount' = Byte(bam_refcount + 1) /\ mounted' = mounted \cup {part}
    <3>1. mounted \in SUBSET Parts /\ mounted' \in SUBSET Parts
      BY <1>1, <2>2 DEF Counted
    <3>2. Cardinality(mounted') = Cardinality(mounted) + 1
          /\ Cardinality(mounted') \in 0 .. 255
      BY <1>2, <2>2, <3>1, CountFits
    <3>3. bam_refcount' = Cardinality(mounted')
      BY <1>1, <2>2, <3>2 DEF Counted, Byte
    <3> QED
      BY <1>2, <3>1, <3>3 DEF Counted
  <2> QED
    BY <1>2, <2>1, <2>2
<1>4. (WF(Now) /\ Tidy(Now))'
  <2>1. CASE Collect(Swept)
    BY <1>1, <2>1, CollectStep
  <2>2. CASE /\ bam_buffer = NULL /\ Unallocated(Swept.pool) # {} /\ Collect(e)
    <3>1. Swept.two = NULL
      BY <1>1, <2>2 DEF WF, BamOK
    <3>2. WF(e)
      BY <1>1, <2>2, <3>1, BamAllocWF
    <3> QED
      BY <2>2, <3>2, CollectStep
  <2> QED
    BY <1>2, <2>1, <2>2
<1> QED
  BY <1>3, <1>4 DEF IInv

LEMMA UnmountInv ==
  ASSUME IInv, NEW part \in Parts, Unmount(part)
  PROVE  IInv'
<1> DEFINE d == Forget(Swept, part)
<1>1. /\ WF(Swept) /\ Counted
  BY SweptWF DEF IInv
<1>2. /\ part \in mounted
      /\ bam_refcount' = Byte(bam_refcount - 1)
      /\ mounted' = mounted \ {part}
      /\ Collect(DropBam(d, bam_refcount'))
  BY DEF Unmount, OnImage
<1>3. Counted'
  <2>1. mounted \in SUBSET Parts /\ mounted' \in SUBSET Parts
    BY <1>1, <1>2 DEF Counted
  <2>2. Cardinality(mounted') = Cardinality(mounted) - 1
        /\ Cardinality(mounted') \in 0 .. 255 /\ Cardinality(mounted) \in 0 .. 255
    BY <1>2, <2>1, CountFits
  <2>3. bam_refcount' = Cardinality(mounted')
    BY <1>1, <1>2, <2>2 DEF Counted, Byte
  <2> QED
    BY <1>2, <2>1, <2>3 DEF Counted
<1>4. WF(d)
  BY <1>1, ForgetWF
<1> HIDE DEF d
<1>5. WF(DropBam(d, bam_refcount'))
  BY <1>4, DropBamWF
<1>6. (WF(Now) /\ Tidy(Now))'
  BY <1>2, <1>5, CollectStep
<1> QED
  BY <1>3, <1>6 DEF IInv

-----------------------------------------------------------------------------
LEMMA ImageCommandInv ==
  ASSUME IInv, NEW part \in Parts, ImageCommand(part)
  PROVE  IInv'
<1>1. PICK e \in BamUse(Now, part) : Collect(e)
  BY DEF ImageCommand
<1>2. WF(Now) /\ Counted /\ BamUnchanged
  BY DEF IInv, ImageCommand
<1>3. WF(e)
  BY <1>2, BamUseWF DEF BamStep
<1>4. (WF(Now) /\ Tidy(Now))'
  BY <1>1, <1>3, CollectStep
<1> QED
  BY <1>2, <1>4, BamUnchangedCounted DEF IInv

LEMMA FormatInv ==
  ASSUME IInv, NEW part \in Parts, Format(part)
  PROVE  IInv'
<1> DEFINE i == FirstFree(pool)
           u == Use("write", NoPart)
           g == Grab(Now, 0, u)
           h == Dirty(g, i)
           f == [j \in Idx |-> IF j \in {g.one, g.two} THEN Use("bam", NoPart) ELSE g.use[j]]
           d == UsedAs(h, f)
<1>1. /\ Unallocated(pool) # {} /\ BamUnchanged
      /\ \E e \in {d} \cup BamUse(d, part) : Collect(e)
  BY DEF Format
<1>2. WF(Now) /\ Counted /\ Now.pool = pool
  BY NowFields DEF IInv
<1>3. u \in Uses /\ u.kind = "write"
  BY UseType DEF Kinds
<1> HIDE DEF u
<1>4. WF(g) /\ i \in g.pool.allocated /\ g.use[i].kind = "write"
  BY <1>1, <1>2, <1>3, GrabWF
<1> HIDE DEF g, i
<1>5. WF(h) /\ h.pool = mark_buffer_dirty(g.pool, i) /\ h.use = g.use
  <2>1. WF(h)
    BY <1>4, MarkDirtyWF
  <2>2. g \in Work
    BY <1>4 DEF WF
  <2> QED
    BY <2>1, <2>2, WithFields DEF Dirty
<1>6. f \in [Idx -> Uses] /\ \A j \in Idx : f[j].kind = h.use[j].kind
  <2>1. g.use \in [Idx -> Uses] /\ g.pool.allocated \subseteq Idx
    BY <1>4 DEF WF, Work, PoolOK, Pools
  <2>2. \A j \in Idx : j \in {g.one, g.two} => g.use[j].kind = "bam"
    BY <1>4, SecondaryFacts DEF WF, BamOK, Linked, KindOK
  <2>3. Use("bam", NoPart) \in Uses /\ Use("bam", NoPart).kind = "bam"
    BY UseType DEF Kinds
  <2> QED
    BY <1>5, <2>1, <2>2, <2>3
<1> HIDE DEF h, f
<1>7. WF(d)
  BY <1>5, <1>6, ContentsWF
<1> HIDE DEF d
<1>8. PICK e \in {d} \cup BamUse(d, part) : Collect(e)
  BY <1>1
<1>9. WF(e)
  BY <1>7, MaybeBam DEF BamStep
<1>10. (WF(Now) /\ Tidy(Now))'
  BY <1>8, <1>9, CollectStep
<1> QED
  BY <1>1, <1>2, <1>10, BamUnchangedCounted DEF IInv

LEMMA CopyInv ==
  ASSUME IInv, NEW part \in Parts, Copy(part)
  PROVE  IInv'
<1> DEFINE i == FirstFree(pool)
           u == Use("read", NoPart)
           g == Grab(Now, 0, u)
           j == FirstFree(g.pool)
           v == Use("write", NoPart)
           k == Grab(g, 0, v)
           h == Stick(k, {i, j})
<1>1. /\ Unallocated(pool) # {} /\ BamUnchanged
      /\ \/ Collect(g)
         \/ /\ Unallocated(g.pool) # {}
            /\ \E e \in {h} \cup BamUse(h, part) :
                 Collect(Free(e, {i, j})) \/ Collect(Free(e, {j}))
  BY DEF Copy
<1>2. WF(Now) /\ Counted /\ Now.pool = pool
  BY NowFields DEF IInv
<1>3. u \in Uses /\ u.kind = "read" /\ v \in Uses /\ v.kind = "write"
  BY UseType DEF Kinds
<1> HIDE DEF u, v
<1>4. WF(g) /\ i \in Idx /\ i \in g.pool.allocated /\ g.use[i].kind = "read"
  BY <1>1, <1>2, <1>3, GrabWF
<1> HIDE DEF g, i
<1>5. (WF(Now) /\ Tidy(Now))'
  <2>1. CASE Collect(g)
    BY <1>4, <2>1, CollectStep
  <2>2. CASE /\ Unallocated(g.pool) # {}
             /\ \E e \in {h} \cup BamUse(h, part) :
                  Collect(Free(e, {i, j})) \/ Collect(Free(e, {j}))
    <3>1. /\ WF(k) /\ Keep(g, k)
          /\ j \in Idx /\ j \in k.pool.allocated /\ k.use[j].kind = "write"
      BY <1>3, <1>4, <2>2, GrabWF
    <3> HIDE DEF j, k
    <3>2. {i, j} \in SUBSET Idx
      BY <1>4, <3>1
    <3>3. WF(h) /\ Keep(k, h)
      BY <3>1, <3>2, StickWF
    <3> HIDE DEF h
    <3>4. PICK e \in {h} \cup BamUse(h, part) :
            Collect(Free(e, {i, j})) \/ Collect(Free(e, {j}))
      BY <2>2
    <3>5. WF(e) /\ Keep(h, e)
      BY <3>3, MaybeBam DEF BamStep
    <3>6. /\ {i, j} \in SUBSET e.pool.allocated /\ {j} \in SUBSET e.pool.allocated
          /\ \A m \in {i, j} : e.use[m].kind \notin {"direct", "bam"}
      BY <1>4, <3>1, <3>3, <3>5 DEF Keep
    <3>7. WF(Free(e, {i, j})) /\ WF(Free(e, {j}))
      BY <3>5, <3>6, FreePlainWF
    <3> QED
      BY <3>4, <3>7, CollectStep
  <2> QED
    BY <1>1, <2>1, <2>2
<1> QED
  BY <1>1, <1>2, <1>5, BamUnchangedCounted DEF IInv

-----------------------------------------------------------------------------
(* The state after a restart. *)
Fresh == [pool |-> buffers_init, use |-> [i \in Idx |-> Use("free", NoPart)],
          one |-> NULL, two |-> NULL]

LEMMA FreshWF == WF(Fresh) /\ Tidy(Fresh)
<1>1. PoolOK(buffers_init) /\ buffers_init.allocated = {}
  BY InitialPool DEF buffers_init
<1>2. /\ Fresh.pool = buffers_init /\ Fresh.one = NULL /\ Fresh.two = NULL
      /\ Fresh \in Work
  <2>1. Use("free", NoPart) \in Uses /\ buffers_init \in Pools
    BY <1>1, UseType DEF Kinds, PoolOK
  <2> QED
    BY <2>1 DEF Fresh, Work
<1>3. Linked(Fresh) /\ Unique(Fresh) /\ Tidy(Fresh)
  BY <1>1, <1>2 DEF Linked, Unique, Tidy
<1>4. BamOK(Fresh)
  BY <1>1, <1>2 DEF BamOK
<1> QED
  BY <1>1, <1>2, <1>3, <1>4 DEF WF

LEMMA NothingMounted ==
  Cardinality({}) = 0
BY FS_EmptySet

LEMMA InitInv ==
  ASSUME Init
  PROVE  IInv
<1>1. Now = Fresh
  BY DEF Init, Now, Fresh
<1>2. Counted
  BY NothingMounted DEF Init, Counted
<1> QED
  BY <1>1, <1>2, FreshWF DEF IInv

LEMMA PanicRebootInv ==
  ASSUME IInv, NEW part \in Parts, PanicReboot(part)
  PROVE  IInv'
<1>1. Now' = Fresh
  BY DEF PanicReboot, Now, Fresh
<1>2. Counted'
  BY NothingMounted DEF PanicReboot, Counted
<1>3. WF(Now') /\ Tidy(Now')
  BY <1>1, FreshWF
<1> QED
  BY <1>2, <1>3 DEF IInv
-----------------------------------------------------------------------------
LEMMA NextInv ==
  ASSUME IInv, [Next]_vars
  PROVE  IInv'
<1>1. CASE UNCHANGED vars
  <2>1. Now' = Now
    BY <1>1 DEF vars, Now
  <2> QED
    BY <1>1, <2>1 DEF vars, IInv, Counted
<1>2. ASSUME NEW s \in Host, OpenFails(s) \/ OpenDirect(s)
      PROVE  IInv'
  BY <1>2, OpenFailsInv, OpenDirectInv
<1>3. ASSUME NEW s \in Host, NEW n \in Lengths, OpenLarge(s, n)
      PROVE  IInv'
  BY <1>3, OpenLargeInv
<1>4. ASSUME NEW s \in Host, NEW k \in {"read", "dir"}, NEW part \in Parts,
             OpenRead(s, k, part)
      PROVE  IInv'
  BY <1>4, OpenReadInv
<1>5. ASSUME NEW s \in Host, NEW part \in Parts, OpenWrite(s, part)
      PROVE  IInv'
  BY <1>5, OpenWriteInv
<1>6. ASSUME NEW s \in Host, Listen(s) \/ Talk(s) \/ CloseChannel(s)
      PROVE  IInv'
  BY <1>6, ListenInv, TalkInv, CloseChannelInv
<1>7. ASSUME NEW s \in Host, NEW n \in 0 .. Count, BufferPosition(s, n)
      PROVE  IInv'
  <2>1. n \in Nat
    BY CountAssumption
  <2> QED
    BY <1>7, <2>1, BufferPositionInv
<1>8. ASSUME CloseAll \/ ResetCommand
      PROVE  IInv'
  BY <1>8, CloseAllInv, ResetCommandInv
<1>9. ASSUME NEW part \in Parts, Mount(part) \/ Unmount(part) \/ PanicReboot(part)
      PROVE  IInv'
  BY <1>9, MountInv, UnmountInv, PanicRebootInv
<1>10. ASSUME NEW part \in Parts, ImageCommand(part) \/ Format(part) \/ Copy(part)
       PROVE  IInv'
  BY <1>10, ImageCommandInv, FormatInv, CopyInv
<1> QED
  BY <1>1, <1>2, <1>3, <1>4, <1>5, <1>6, <1>7, <1>8, <1>9, <1>10 DEF Next

(* The inductive invariant is one, whatever the pool, the channels and the  *)
(* partitions (Channels!Init and every handler of Channels!Next).           *)
THEOREM Inductive == Spec => []IInv
<1>1. Init => IInv
  BY InitInv
<1>2. IInv /\ [Next]_vars => IInv'
  BY NextInv
<1> QED
  BY <1>1, <1>2, PTL DEF Spec

(* No handler leaves a variable outside the type of its C object: no index  *)
(* beyond the array, no secondary or counter beyond its byte.               *)
THEOREM TypeCorrect == Spec => []TypeOK
<1>1. IInv => TypeOK
  <2> SUFFICES ASSUME IInv PROVE TypeOK
    OBVIOUS
  <2>1. Now \in Work /\ Counted
    BY DEF IInv, WF
  <2>2. /\ pool \in Pools /\ use \in [Idx -> Uses]
        /\ bam_buffer \in Idx \cup {NULL} /\ bam_buffer2 \in Idx \cup {NULL}
    BY <2>1, NowFields DEF Work
  <2>3. bam_refcount \in 0 .. 255
    BY <2>1, CountFits DEF Counted
  <2> QED
    BY <2>1, <2>2, <2>3 DEF TypeOK, Counted
<1> QED
  BY <1>1, Inductive, PTL

(* The counter byte and the LEDs are exact after every handler, on every    *)
(* pool of at most 15 buffers (buffers.c, active_buffers and the LED calls). *)
THEOREM CountersExact == Spec => []Accounting
<1>1. IInv => Accounting
  <2>1. IInv => PoolOK(Now.pool)
    BY DEF IInv, WF
  <2> QED
    BY <2>1, NowFields DEF Accounting, PoolOK
<1> QED
  BY <1>1, Inductive, PTL

(* An open channel has one active buffer (file_open, find_buffer).          *)
THEOREM OneBufferPerChannel == Spec => []ChannelUnique
<1>1. IInv => ChannelUnique
  <2>1. IInv => Unique(Now)
    BY DEF IInv, WF
  <2> QED
    BY <2>1, NowFields DEF ChannelUnique, Unique
<1> QED
  BY <1>1, Inductive, PTL

(* The chain of a '#' channel is whole and has its active buffer, whatever  *)
(* its length (open_buffer, directbuffer_refill, largebuffer_cleanup).      *)
THEOREM ChainsWhole == Spec => []ChainIntact
<1>1. IInv => ChainIntact
  <2> SUFFICES ASSUME IInv, NEW i \in pool.allocated, use[i].kind = "direct"
               PROVE  LET chain == Chain(pool, i)
                      IN /\ chain \subseteq pool.allocated \cap pool.sticky
                         /\ \A j \in chain : /\ pool.first[j] = pool.first[i]
                                             /\ pool.size[j] = pool.size[i]
                         /\ \E j \in chain :
                              /\ pool.secondary[j] \in Host
                              /\ \A k \in chain \ {j} :
                                   pool.secondary[k] = SecChain - pool.secondary[j]
    BY DEF ChainIntact
  <2>1. i \in Now.pool.allocated /\ Now.use[i].kind = "direct"
    BY NowFields
  <2>2. LinkOK(Now, i)
    BY <2>1 DEF IInv, WF, Linked, KindOK
  <2> QED
    BY <2>2, NowFields DEF LinkOK, ActiveIn
<1> QED
  BY <1>1, Inductive, PTL

(* The BAM pointers own the BAM buffers and the reference count is the      *)
(* number of images, for up to 255 of them (d64_mount, d64_unmount).        *)
THEOREM BamOwned == Spec => []BamBuffersOwned
<1>1. IInv => BamBuffersOwned
  <2> SUFFICES ASSUME IInv PROVE BamBuffersOwned
    OBVIOUS
  <2>1. BamOK(Now) /\ Linked(Now) /\ Counted
    BY DEF IInv, WF
  <2>2. /\ \A i \in pool.allocated : pool.secondary[i] = SecBam
                                       <=> i \in {bam_buffer, bam_buffer2}
        /\ {bam_buffer, bam_buffer2} \ {NULL} \subseteq pool.allocated
        /\ bam_buffer2 # NULL => bam_buffer \notin {NULL, bam_buffer2}
    BY <2>1, NowFields DEF BamOK
  <2>3. \A i \in pool.allocated :
          /\ use[i].kind = "bam" <=> pool.secondary[i] = SecBam
          /\ use[i].kind = "bam" => i \notin pool.dirty
    BY <2>1, NowFields DEF Linked, KindOK
  <2>4. NULL \notin pool.allocated
    BY SecondaryFacts, NowFields DEF IInv, WF, PoolOK, Pools
  <2> QED
    BY <2>1, <2>2, <2>3, <2>4 DEF BamBuffersOwned, Counted
<1> QED
  BY <1>1, Inductive, PTL

(* No handler leaves an open channel for the collection (BUS_CLEANUP).      *)
THEOREM NothingCollectable == Spec => []NothingUnsticky
<1>1. IInv => NothingUnsticky
  BY NowFields DEF IInv, Tidy, NothingUnsticky
<1> QED
  BY <1>1, Inductive, PTL

-----------------------------------------------------------------------------
(***************************************************************************)
(* The action property: a step reaches the buffers of one channel, or leaves *)
(* no channel at all.  Each operator on work records spares the buffers of  *)
(* all channels but one; what a handler composes of them does too, and so   *)
(* does the collection that ends it.                                        *)
(***************************************************************************)
(* Buffer i is in e what it is in d. *)
Same(d, e, i) ==
  /\ i \in e.pool.allocated
  /\ e.pool.secondary[i] = d.pool.secondary[i]
  /\ i \in d.pool.sticky => i \in e.pool.sticky
  /\ i \in e.pool.dirty <=> i \in d.pool.dirty
  /\ e.use[i] = d.use[i]

(* The buffers of channel s: the active one and the others of its chain.    *)
Own(d, s) == {i \in d.pool.allocated : d.pool.secondary[i] \in {s, SecChain - s}}

(* From d to e nothing happens to the channels other than s.                *)
Spares(d, e, s) == \A i \in UserBuffers(d.pool) \ Own(d, s) : Same(d, e, i)

(* From d to e nothing happens to any channel.                              *)
SparesAll(d, e) == \A i \in UserBuffers(d.pool) : Same(d, e, i)

-----------------------------------------------------------------------------
LEMMA SparesTransitive ==
  ASSUME NEW d, NEW e, NEW f, NEW s
  PROVE  /\ Spares(d, d, s)
         /\ SparesAll(d, e) => Spares(d, e, s)
         /\ Spares(d, e, s) /\ Spares(e, f, s) => Spares(d, f, s)
         /\ SparesAll(d, e) /\ SparesAll(e, f) => SparesAll(d, f)
<1>1. ASSUME NEW i \in UserBuffers(d.pool), Same(d, e, i)
      PROVE  /\ i \in UserBuffers(e.pool)
             /\ i \notin Own(d, s) => i \notin Own(e, s)
             /\ Same(e, f, i) => Same(d, f, i)
  BY <1>1 DEF Same, UserBuffers, Own
<1> QED
  BY <1>1 DEF Spares, SparesAll, Same, UserBuffers

(* A new buffer is no channel's yet. *)
LEMMA GrabSpares ==
  ASSUME NEW d, WF(d), Unallocated(d.pool) # {},
         NEW s \in Host \cup {0}, NEW u \in Uses,
         NEW e, e = Grab(d, s, u), NEW i, i = FirstFree(d.pool)
  PROVE  /\ SparesAll(d, e) /\ e.pool.secondary[i] = s
         /\ e \in Work /\ PoolOK(e.pool) /\ i \in Idx /\ i \notin d.pool.allocated
<1> DEFINE q == alloc_buffer(d.pool, s)
<1>1. s \in Secondary /\ s < SecSystem /\ s # SecBam
  BY SecondaryFacts
<1>2. /\ PoolOK(q)
      /\ i \in Idx /\ i \notin d.pool.allocated
      /\ q.allocated = d.pool.allocated \cup {i}
      /\ q.sticky = d.pool.sticky \ {i}
      /\ q.dirty = d.pool.dirty \ {i}
      /\ q.secondary = [d.pool.secondary EXCEPT ![i] = s]
      /\ q.first = [d.pool.first EXCEPT ![i] = i]
      /\ q.size = [d.pool.size EXCEPT ![i] = 0]
  BY <1>1, AllocBuffer DEF WF
<1> DEFINE w == With(d, q)
           f == [d.use EXCEPT ![i] = u]
<1>3. /\ d.use \in [Idx -> Uses] /\ d.pool.secondary \in [Idx -> Secondary]
      /\ d.pool.allocated \subseteq Idx /\ d \in Work
  BY DEF WF, Work, Pools
<1>4. f \in [Idx -> Uses] /\ e = UsedAs(w, f) /\ q \in Pools
  BY <1>2, <1>3 DEF Grab, PoolOK
<1>5. \A k \in d.pool.allocated : f[k] = d.use[k]
  BY <1>2, <1>3
<1> HIDE DEF q, f
<1>6. w.pool = q /\ w \in Work
  BY <1>3, <1>4, WithFields
<1> HIDE DEF w
<1>7. e.pool = q /\ e.use = f /\ e \in Work
  BY <1>4, <1>6, UsedAsFields
<1>8. \A k \in d.pool.allocated : Same(d, e, k)
  BY <1>2, <1>3, <1>5, <1>7 DEF Same
<1> QED
  BY <1>2, <1>3, <1>7, <1>8 DEF SparesAll, UserBuffers

LEMMA StickSpares ==
  ASSUME NEW d \in Work, PoolOK(d.pool), NEW S \in SUBSET Idx, NEW e, e = Stick(d, S)
  PROVE  /\ SparesAll(d, e) /\ e.pool.secondary = d.pool.secondary
         /\ e \in Work /\ PoolOK(e.pool)
<1> DEFINE q == stick_buffers(d.pool, S)
<1>1. PoolOK(q) /\ q = [d.pool EXCEPT !.sticky = d.pool.sticky \cup S] /\ d.pool \in Pools
  BY StickBuffers DEF PoolOK
<1>2. e = With(d, q)
  BY DEF Stick
<1> HIDE DEF q
<1>3. e.pool = q /\ e.use = d.use /\ e \in Work
  BY <1>1, <1>2, WithFields DEF PoolOK
<1>4. /\ q.allocated = d.pool.allocated /\ q.secondary = d.pool.secondary
      /\ q.dirty = d.pool.dirty /\ q.sticky = d.pool.sticky \cup S
  BY <1>1 DEF Pools
<1> QED
  BY <1>1, <1>3, <1>4 DEF SparesAll, Same, UserBuffers

(* Marks and moves touch the channel whose buffer they are about. *)
LEMMA MarkSpares ==
  ASSUME NEW d, WF(d), NEW i \in d.pool.allocated, NEW s, d.pool.secondary[i] = s,
         NEW e, e = Dirty(d, i) \/ e = Clean(d, i)
  PROVE  Spares(d, e, s) /\ e.pool.secondary = d.pool.secondary
         /\ e.pool.allocated = d.pool.allocated /\ e.use = d.use
<1> DEFINE q == mark_buffer_dirty(d.pool, i)
           r == mark_buffer_clean(d.pool, i)
<1>1. /\ q.allocated = d.pool.allocated /\ q.sticky = d.pool.sticky
      /\ q.secondary = d.pool.secondary /\ q.dirty = d.pool.dirty \cup {i}
  BY MarkDirty DEF WF
<1>2. /\ r.allocated = d.pool.allocated /\ r.sticky = d.pool.sticky
      /\ r.secondary = d.pool.secondary /\ r.dirty = d.pool.dirty \ {i}
  BY MarkClean DEF WF
<1>3. e = With(d, q) \/ e = With(d, r)
  BY DEF Dirty, Clean
<1> HIDE DEF q, r
<1>4. d \in Work
  BY DEF WF
<1>5. (e.pool = q \/ e.pool = r) /\ e.use = d.use
  BY <1>3, <1>4, WithFields
<1>6. \A k \in d.pool.allocated : k # i => Same(d, e, k)
  BY <1>1, <1>2, <1>5 DEF Same
<1>7. i \in Own(d, s)
  BY DEF Own
<1> QED
  BY <1>1, <1>2, <1>5, <1>6, <1>7 DEF Spares, UserBuffers

LEMMA FreeSpares ==
  ASSUME NEW d, WF(d), NEW S, NEW s,
         \A i \in S : i \in UserBuffers(d.pool) => i \in Own(d, s),
         NEW e, e = Free(d, S)
  PROVE  Spares(d, e, s) /\ e.use = d.use
<1> DEFINE q == free_buffers(d.pool, S)
<1>1. /\ PoolOK(q) /\ q.allocated = d.pool.allocated \ S
      /\ q.dirty \subseteq d.pool.dirty /\ d.pool.dirty \ S \subseteq q.dirty
      /\ d.pool.sticky \ S \subseteq q.sticky
      /\ \A k \in q.allocated : q.secondary[k] = d.pool.secondary[k]
  BY FreeBuffers DEF WF
<1>2. e = With(d, q) /\ d \in Work
  BY DEF Free, WF
<1> HIDE DEF q
<1>3. e.pool = q /\ e.use = d.use
  BY <1>2, WithFields
<1>4. \A k \in d.pool.allocated \ S : Same(d, e, k)
  BY <1>1, <1>3 DEF Same
<1> QED
  BY <1>3, <1>4 DEF Spares, UserBuffers

(* The members of a chain belong to the channel of the active one. *)
LEMMA ChainIsOwn ==
  ASSUME NEW d, WF(d), NEW i \in d.pool.allocated, NEW s \in Host, d.pool.secondary[i] = s
  PROVE  \A k \in Chain(d.pool, i) : k \in Own(d, s)
<1>1. CASE d.pool.size[i] # 0
  <2>1. LinkOK(d, i)
    BY <1>1 DEF WF, Linked
  <2> DEFINE C == Chain(d.pool, i)
  <2>2. i \in C /\ C \subseteq d.pool.allocated
    BY <2>1 DEF LinkOK
  <2>3. PICK j \in C : ActiveIn(d, C, j)
    BY <2>1 DEF LinkOK
  <2>4. j = i
    BY <2>2, <2>3, SecondaryFacts DEF ActiveIn
  <2> HIDE DEF C
  <2>5. \A k \in C \ {i} : d.pool.secondary[k] = SecChain - s
    BY <2>3, <2>4 DEF ActiveIn
  <2>6. \A k \in C : k \in Own(d, s)
    BY <2>2, <2>5 DEF Own
  <2> QED
    BY <2>6 DEF C
<1>2. CASE d.pool.size[i] = 0
  BY <1>2 DEF Chain, Own
<1> QED
  BY <1>1, <1>2

LEMMA CleanupSpares ==
  ASSUME NEW d, WF(d), NEW i \in d.pool.allocated, NEW s \in Host, d.pool.secondary[i] = s,
         NEW e, e = CleanupAndFree(d, i)
  PROVE  Spares(d, e, s)
<1> DEFINE S == Chain(d.pool, i)
<1>1. \A k \in S : k \in Own(d, s)
  BY ChainIsOwn
<1>2. e = Free(d, S)
  BY DEF CleanupAndFree
<1> HIDE DEF S
<1> QED
  BY <1>1, <1>2, FreeSpares

LEMMA ActivateSpares ==
  ASSUME NEW d, WF(d), NEW i \in d.pool.allocated, NEW s \in Host, d.pool.secondary[i] = s,
         NEW j \in Chain(d.pool, i),
         NEW e, e = With(d, Activate(d.pool, i, j, s))
  PROVE  Spares(d, e, s)
<1> DEFINE q == Activate(d.pool, i, j, s)
<1>1. i \in Own(d, s) /\ j \in Own(d, s)
  BY ChainIsOwn DEF Own
<1>2. d \in Work /\ d.pool \in Pools
  BY DEF WF, PoolOK
<1>3. /\ q.allocated = d.pool.allocated /\ q.sticky = d.pool.sticky /\ q.dirty = d.pool.dirty
      /\ q.secondary = [d.pool.secondary EXCEPT ![i] = SecChain - s, ![j] = s]
  BY <1>2 DEF Activate, Pools
<1> HIDE DEF q
<1>4. e.pool = q /\ e.use = d.use
  BY <1>2, WithFields DEF q
<1>5. d.pool.secondary \in [Idx -> Secondary] /\ d.pool.allocated \subseteq Idx
  BY <1>2 DEF Pools
<1>6. \A k \in d.pool.allocated : k # i /\ k # j => Same(d, e, k)
  BY <1>3, <1>4, <1>5 DEF Same
<1> QED
  BY <1>1, <1>6 DEF Spares, UserBuffers

-----------------------------------------------------------------------------
(***************************************************************************)
(* The BAM buffers belong to no channel.                                   *)
(***************************************************************************)
LEMMA BamAllocSpares ==
  ASSUME NEW d, WF(d), Unallocated(d.pool) # {}, NEW e, e = BamBufferAlloc(d)
  PROVE  SparesAll(d, e)
<1> DEFINE i == FirstFree(d.pool)
           q == alloc_system_buffer(d.pool, SecBam)
           r == stick_buffers(q, {i})
<1>1. SecBam \in Secondary /\ SecBam >= SecSystem
  BY SecondaryFacts
<1>2. /\ PoolOK(q)
      /\ i \in Idx /\ i \notin d.pool.allocated
      /\ q.allocated = d.pool.allocated \cup {i}
      /\ q.sticky = d.pool.sticky \ {i}
      /\ q.dirty = d.pool.dirty \ {i}
      /\ q.secondary = [d.pool.secondary EXCEPT ![i] = SecBam]
      /\ q.first = [d.pool.first EXCEPT ![i] = i]
      /\ q.size = [d.pool.size EXCEPT ![i] = 0]
  BY <1>1, AllocSystem DEF WF
<1>3. e.pool = r /\ e.use = [d.use EXCEPT ![i] = Use("bam", NoPart)]
  BY DEF BamBufferAlloc
<1> HIDE DEF q
<1>4. r = [q EXCEPT !.sticky = q.sticky \cup {i}] /\ q \in Pools
  <2>1. PoolOK(q) /\ {i} \in SUBSET Idx /\ r = stick_buffers(q, {i})
    BY <1>2
  <2> HIDE DEF r
  <2>2. PoolOK(r) /\ r = [q EXCEPT !.sticky = q.sticky \cup {i}]
    BY ONLY <2>1, StickBuffers
  <2> QED
    BY <2>1, <2>2 DEF PoolOK
<1>5. /\ r.allocated = q.allocated /\ r.secondary = q.secondary
      /\ r.dirty = q.dirty /\ r.sticky = q.sticky \cup {i}
  BY <1>4 DEF Pools
<1> HIDE DEF r, i
<1>6. /\ d.use \in [Idx -> Uses] /\ d.pool.secondary \in [Idx -> Secondary]
      /\ d.pool.allocated \subseteq Idx
  BY DEF WF, Work, Pools
<1>7. \A k \in d.pool.allocated : Same(d, e, k)
  BY <1>2, <1>3, <1>5, <1>6 DEF Same
<1> QED
  BY <1>7 DEF SparesAll, UserBuffers

LEMMA MoveBamWindowSpares ==
  ASSUME NEW d, WF(d), NEW part \in Parts \cup {NoPart}, NEW e \in MoveBamWindow(d, part)
  PROVE  SparesAll(d, e)
<1> DEFINE w == OtherWindow(d)
           v == UsedAs(w, [w.use EXCEPT ![w.one].part = part])
<1>1. WF(w)
  BY OtherWindowWF DEF BamStep
<1>2. SparesAll(d, d)
  BY DEF SparesAll, Same, UserBuffers
<1>3. SparesAll(d, w)
  <2>1. CASE d.two # NULL
    BY <2>1 DEF OtherWindow, SparesAll, Same, UserBuffers
  <2>2. CASE d.two = NULL /\ (d.use[d.one].part = NoPart \/ Unallocated(d.pool) = {})
    BY <1>2, <2>2 DEF OtherWindow
  <2>3. CASE d.two = NULL /\ ~(d.use[d.one].part = NoPart \/ Unallocated(d.pool) = {})
    <3>1. w = BamBufferAlloc(d) /\ Unallocated(d.pool) # {}
      BY <2>3 DEF OtherWindow
    <3> HIDE DEF w
    <3> QED
      BY <3>1, BamAllocSpares
  <2> QED
    BY <2>1, <2>2, <2>3
<1>4. e \in {w, v, d}
  BY DEF MoveBamWindow
<1> HIDE DEF w
<1>5. SparesAll(w, v)
  <2> DEFINE f == [w.use EXCEPT ![w.one].part = part]
  <2>1. w \in Work /\ w.use \in [Idx -> Uses] /\ w.pool.allocated \subseteq Idx
    BY <1>1 DEF WF, Work, Pools
  <2>2. \A k \in Idx : k # w.one => f[k] = w.use[k]
    BY <2>1
  <2> HIDE DEF f
  <2>3. v.pool = w.pool /\ v.use = f
    BY <2>1, UsedAsFields DEF f
  <2>4. \A k \in UserBuffers(w.pool) : k # w.one
    <3>1. \A k \in w.pool.allocated : k = w.one => w.pool.secondary[k] = SecBam
      BY <1>1 DEF WF, BamOK
    <3> QED
      BY <3>1 DEF UserBuffers, SecBam, SecSystem
  <2> QED
    BY <2>1, <2>2, <2>3, <2>4 DEF SparesAll, Same, UserBuffers
<1>6. SparesAll(d, v)
  BY <1>3, <1>5, SparesTransitive
<1> QED
  BY <1>2, <1>3, <1>4, <1>6

LEMMA BamUseSpares ==
  ASSUME NEW d, WF(d), NEW part \in Parts \cup {NoPart},
         NEW e, e \in {d} \/ e \in BamUse(d, part) \/ e \in {d} \cup BamUse(d, part)
  PROVE  WF(e) /\ Keep(d, e) /\ SparesAll(d, e)
<1>1. e = d \/ e \in BamUse(d, part)
  OBVIOUS
<1>2. CASE e = d
  BY <1>2, KeepReflexive DEF SparesAll, Same, UserBuffers
<1>3. CASE e \in MoveBamWindow(d, part)
  BY <1>3, MoveBamWindowSpares, MoveBamWindowWF DEF BamStep
<1>4. CASE \E f \in MoveBamWindow(d, part) : e \in MoveBamWindow(f, part)
  <2>1. PICK f \in MoveBamWindow(d, part) : e \in MoveBamWindow(f, part)
    BY <1>4
  <2>2. BamStep(d, f) /\ SparesAll(d, f)
    BY MoveBamWindowWF, MoveBamWindowSpares
  <2>3. BamStep(f, e) /\ SparesAll(f, e)
    BY <2>1, <2>2, MoveBamWindowWF, MoveBamWindowSpares DEF BamStep
  <2>4. BamStep(d, e)
    BY <2>2, <2>3, BamStepTransitive
  <2> QED
    BY <2>2, <2>3, <2>4, SparesTransitive DEF BamStep
<1> QED
  BY <1>1, <1>2, <1>3, <1>4 DEF BamUse

-----------------------------------------------------------------------------
(***************************************************************************)
(* The steps.                                                              *)
(***************************************************************************)

(* The end of a handler adds nothing to what it has touched, when nothing  *)
(* was waiting to be collected before it.                                   *)
LEMMA SettleSpares ==
  ASSUME NEW ACTION d, WF(d), Settle(d), NEW s, Spares(Now, d, s)
  PROVE  Spares(Now, Now', s)
<1> DEFINE e == Settled(d)
<1>1. Now' = e
  BY DEF Settle, Settled, Now
<1>2. \A i \in d.pool.allocated : Same(d, e, i)
  <2>1. d.pool.allocated \subseteq Idx
    BY DEF WF, Work, Pools
  <2> QED
    BY <2>1 DEF Same, Settled
<1> HIDE DEF e
<1>3. SparesAll(d, e)
  BY <1>2 DEF SparesAll, UserBuffers
<1>4. Spares(Now, e, s)
  <2>1. \A n : Spares(n, d, s) => Spares(n, e, s)
    BY <1>3, SparesTransitive
  <2> QED
    BY <2>1
<1> QED
  BY <1>1, <1>4

LEMMA CollectSpares ==
  ASSUME NEW ACTION d, WF(d), Collect(d), IInv, NEW s, Spares(Now, d, s)
  PROVE  Spares(Now, Now', s)
<1> DEFINE e == Sweep(d, FMB_UNSTICKY)
           S == Matching(d.pool, FMB_UNSTICKY)
           q == free_buffers(d.pool, S)
           n == Now
<1>1. WF(e) /\ Settle(e)
  BY CollectWF DEF Collect
<1>2. S = d.pool.allocated \ d.pool.sticky
  BY DEF Matching, FMB_UNSTICKY
<1>3. e = With(d, q) /\ d \in Work
  BY DEF Sweep, free_multiple_buffers, WF
<1> HIDE DEF e, S
<1>4. /\ q.allocated = d.pool.allocated \ S
      /\ q.dirty \subseteq d.pool.dirty /\ d.pool.dirty \ S \subseteq q.dirty
      /\ d.pool.sticky \ S \subseteq q.sticky
      /\ \A k \in q.allocated : q.secondary[k] = d.pool.secondary[k]
  BY FreeBuffers DEF WF
<1> HIDE DEF q
<1>5. e.pool = q /\ e.use = d.use
  BY <1>3, WithFields
<1>6. \A k \in d.pool.allocated \cap d.pool.sticky : Same(d, e, k)
  BY <1>2, <1>4, <1>5 DEF Same
<1>7. Tidy(n) /\ Spares(n, d, s)
  BY DEF IInv
<1> HIDE DEF n
<1>8. ASSUME NEW i \in UserBuffers(n.pool) \ Own(n, s)
      PROVE  Same(n, e, i)
  <2>1. Same(n, d, i) /\ i \in n.pool.sticky
    BY <1>7 DEF Spares, Tidy, UserBuffers
  <2>2. Same(d, e, i)
    BY <1>6, <2>1 DEF Same
  <2> QED
    BY <2>1, <2>2 DEF Same
<1>9. Spares(n, e, s)
  BY <1>8 DEF Spares
<1>10. Spares(Now, e, s)
  BY <1>9 DEF n
<1> QED
  BY <1>1, <1>10, SettleSpares

LEMMA ClosedSpares ==
  ASSUME IInv, NEW s \in Host
  PROVE  Spares(Now, Closed(s), s)
<1> DEFINE n == Now
           i == find_buffer(n.pool, s)
           e == CleanupAndFree(n, i)
<1>1. WF(n) /\ n.pool = pool
  BY NowFields DEF IInv
<1>2. CASE ~Holds(pool, s)
  BY <1>2, SparesTransitive DEF Closed
<1>3. CASE Holds(pool, s)
  <2>1. Closed(s) = e
    BY <1>1, <1>3 DEF Closed
  <2> HIDE DEF n
  <2>2. i \in n.pool.allocated /\ n.pool.secondary[i] = s
    BY <1>1, <1>3, FoundBuffer
  <2> HIDE DEF i
  <2>3. Spares(n, e, s)
    BY <1>1, <2>2, CleanupSpares
  <2> HIDE DEF e
  <2> QED
    BY <2>1, <2>3 DEF n
<1> QED
  BY <1>2, <1>3

(* A handler that opens s after closing it. *)
LEMMA OpenedSpares ==
  ASSUME IInv, NEW s \in Host, NEW e, SparesAll(Closed(s), e)
  PROVE  Spares(Now, e, s)
<1> DEFINE n == Now
           d == Closed(s)
<1>1. Spares(n, d, s) /\ SparesAll(d, e)
  BY ClosedSpares
<1> HIDE DEF n, d
<1>2. Spares(n, e, s)
  BY <1>1, SparesTransitive
<1> QED
  BY <1>2 DEF n

LEMMA OpenFailsSpares ==
  ASSUME IInv, NEW s \in Host, OpenFails(s)
  PROVE  Spares(Now, Now', s)
<1>1. WF(Closed(s)) /\ Collect(Closed(s))
  BY ClosedWF DEF OpenFails
<1> QED
  BY <1>1, ClosedSpares, CollectSpares

LEMMA DirectSpares ==
  ASSUME NEW d, WF(d), Unallocated(d.pool) # {}, NEW s \in Host,
         NEW i, i = FirstFree(d.pool),
         NEW e, e = Stick(Grab(d, s, Use("direct", NoPart)), {i}),
         NEW f, f = With(e, ChainOfOne(e.pool, i))
  PROVE  SparesAll(d, f)
<1> DEFINE u == Use("direct", NoPart)
           g == Grab(d, s, u)
<1>1. u \in Uses
  BY UseType DEF Kinds
<1> HIDE DEF u
<1>2. SparesAll(d, g) /\ g \in Work /\ PoolOK(g.pool) /\ i \in Idx
  BY <1>1, GrabSpares
<1>3. e = Stick(g, {i}) /\ {i} \in SUBSET Idx
  BY <1>2 DEF u
<1> HIDE DEF g
<1>4. SparesAll(g, e) /\ e \in Work /\ PoolOK(e.pool)
  BY <1>2, <1>3, StickSpares
<1> DEFINE p == ChainOfOne(e.pool, i)
<1>5. /\ p.allocated = e.pool.allocated /\ p.sticky = e.pool.sticky
      /\ p.dirty = e.pool.dirty /\ p.secondary = e.pool.secondary
  BY <1>4 DEF ChainOfOne, PoolOK, Pools
<1> HIDE DEF p
<1>6. f.pool = p /\ f.use = e.use
  BY <1>4, WithFields DEF p
<1>7. SparesAll(e, f)
  BY <1>5, <1>6 DEF SparesAll, Same, UserBuffers
<1> QED
  BY <1>2, <1>4, <1>7, SparesTransitive

LEMMA OpenDirectSpares ==
  ASSUME IInv, NEW s \in Host, OpenDirect(s)
  PROVE  Spares(Now, Now', s)
<1> DEFINE d == Closed(s)
           i == FirstFree(d.pool)
           e == Stick(Grab(d, s, Use("direct", NoPart)), {i})
           f == With(e, ChainOfOne(e.pool, i))
<1>1. WF(d) /\ (s = 0 \/ Silent(d, s))
  BY ClosedWF
<1>2. Unallocated(d.pool) # {} /\ Collect(f)
  BY DEF OpenDirect
<1> HIDE DEF d
<1>3. WF(f) /\ SparesAll(d, f)
  BY <1>1, <1>2, DirectWF, DirectSpares
<1> HIDE DEF f
<1>4. Spares(Now, f, s)
  BY <1>3, OpenedSpares DEF d
<1> QED
  BY <1>2, <1>3, <1>4, CollectSpares

LEMMA LargeSpares ==
  ASSUME NEW d, WF(d), NEW n \in Lengths, Runs(d.pool, n) # {}, NEW s \in Host
  PROVE  SparesAll(d, LargeChain(d, s, n))
<1> DEFINE start == LinkedStart(d.pool, n)
           M     == Span(start, n)
           r     == alloc_linked_buffers(d.pool, n, SecChain - s)
           sec   == [r.secondary EXCEPT ![start] = s]
           q     == [r EXCEPT !.secondary = sec]
           u     == [i \in Idx |-> IF i \in M THEN Use("direct", NoPart) ELSE d.use[i]]
           v     == With(d, q)
           w     == UsedAs(v, u)
           p     == stick_buffers(q, M)
           f     == With(w, p)
<1>1. /\ n \in Nat \ {0} /\ SecChain - s \in Secondary /\ SecChain - s < SecSystem
      /\ s \in Secondary /\ PoolOK(d.pool)
  BY SecondaryFacts, ChannelsAssumption DEF WF
<1>2. /\ PoolOK(r)
      /\ start \in Idx
      /\ M \subseteq Idx /\ M \cap d.pool.allocated = {}
      /\ r.allocated = d.pool.allocated \cup M
      /\ r.sticky = d.pool.sticky \ M
      /\ r.dirty = d.pool.dirty \ M
      /\ r.secondary = [k \in Idx |-> IF k \in M THEN SecChain - s ELSE d.pool.secondary[k]]
  <2> DEFINE c == SecChain - s
  <2> HIDE DEF c
  <2>1. LinkedMade(d.pool, n, c, alloc_linked_buffers(d.pool, n, c), start, M)
    BY <1>1, AllocLinked DEF c
  <2> QED
    BY <2>1 DEF LinkedMade, c
<1>3. start \in M
  BY <1>1, <1>2 DEF Span, Idx
<1>4. /\ d.pool \in Pools /\ d.use \in [Idx -> Uses] /\ d.pool.allocated \subseteq Idx
      /\ d \in Work /\ r \in Pools
  BY <1>2 DEF WF, Work, PoolOK, Pools
<1>5. v.pool = q /\ w.pool = q /\ w.use = u /\ LargeChain(d, s, n) = f
  BY <1>4 DEF LargeChain, Span, With, UsedAs, Stick, Work
<1> HIDE DEF start, M, r, v
<1>6. sec \in [Idx -> Secondary] /\ \A k \in d.pool.allocated : sec[k] = d.pool.secondary[k]
  <2>1. r.secondary \in [Idx -> Secondary]
    BY <1>4 DEF Pools
  <2> QED
    BY <1>1, <1>2, <1>3, <1>4, <2>1
<1>7. \A k \in d.pool.allocated : u[k] = d.use[k]
  BY <1>2, <1>4
<1> HIDE DEF sec, u
<1>8. /\ q.allocated = r.allocated /\ q.sticky = r.sticky /\ q.dirty = r.dirty
      /\ q.secondary = sec
  BY <1>4 DEF Pools
<1>9. /\ p.allocated = q.allocated /\ p.dirty = q.dirty /\ p.secondary = q.secondary
      /\ p.sticky = q.sticky \cup M
  BY <1>4 DEF stick_buffers, Pools
<1> HIDE DEF q, w, p
<1>10. f.pool = p /\ f.use = u
  BY <1>4, <1>5 DEF With, w, v, UsedAs, Work
<1> HIDE DEF f
<1>11. \A k \in d.pool.allocated : Same(d, f, k)
  BY <1>2, <1>6, <1>7, <1>8, <1>9, <1>10 DEF Same
<1> QED
  BY <1>5, <1>11 DEF SparesAll, UserBuffers

LEMMA OpenLargeSpares ==
  ASSUME IInv, NEW s \in Host, NEW n \in Lengths, OpenLarge(s, n)
  PROVE  Spares(Now, Now', s)
<1> DEFINE d == Closed(s)
           f == LargeChain(d, s, n)
<1>1. WF(d) /\ (s = 0 \/ Silent(d, s))
  BY ClosedWF
<1>2. Collect(d) \/ (Runs(d.pool, n) # {} /\ Collect(f))
  BY DEF OpenLarge, LargeChain
<1>3. CASE Collect(d)
  BY <1>1, <1>3, ClosedSpares, CollectSpares
<1>4. CASE Runs(d.pool, n) # {} /\ Collect(f)
  <2> HIDE DEF d
  <2>1. WF(f) /\ SparesAll(d, f)
    BY <1>1, <1>4, LargeWF, LargeSpares
  <2> HIDE DEF f
  <2>2. Spares(Now, f, s)
    BY <2>1, OpenedSpares DEF d
  <2> QED
    BY <1>4, <2>1, <2>2, CollectSpares
<1> QED
  BY <1>2, <1>3, <1>4

LEMMA OpenReadSpares ==
  ASSUME IInv, NEW s \in Host, NEW kind \in {"read", "dir"}, NEW part \in Parts,
         OpenRead(s, kind, part)
  PROVE  Spares(Now, Now', s)
<1> DEFINE d == Closed(s)
           u == Use(kind, IF kind = "dir" /\ OnImage(part) THEN part ELSE NoPart)
           e == Grab(d, s, u)
           i == FirstFree(d.pool)
           f == Stick(e, {i})
<1>1. WF(d) /\ (s = 0 \/ Silent(d, s))
  BY ClosedWF
<1>2. Unallocated(d.pool) # {} /\ (Collect(e) \/ Collect(f))
  BY DEF OpenRead
<1>3. u \in Uses /\ u.kind \notin {"direct", "bam"}
  BY UseType DEF Kinds
<1> HIDE DEF d, u
<1>4. WF(e) /\ SparesAll(d, e) /\ e \in Work /\ PoolOK(e.pool) /\ i \in Idx
  BY <1>1, <1>2, <1>3, GrabWF, GrabSpares
<1> HIDE DEF e
<1>5. WF(f) /\ SparesAll(e, f)
  BY <1>4, StickWF, StickSpares
<1> HIDE DEF f
<1>6. SparesAll(d, f)
  BY <1>4, <1>5, SparesTransitive
<1>7. Spares(Now, e, s) /\ Spares(Now, f, s)
  BY <1>4, <1>6, OpenedSpares DEF d
<1> QED
  BY <1>2, <1>4, <1>5, <1>7, CollectSpares

LEMMA OpenWriteSpares ==
  ASSUME IInv, NEW s \in Host, NEW part \in Parts, OpenWrite(s, part)
  PROVE  Spares(Now, Now', s)
<1> DEFINE d == Closed(s)
           before == IF OnImage(part) THEN {d} \cup BamUse(d, part) ELSE {d}
           u == Use("write", IF OnImage(part) THEN part ELSE NoPart)
           Granted(e) == Grab(e, s, u)
           After(e) == IF OnImage(part) THEN BamUse(Granted(e), part) ELSE {Granted(e)}
<1>1. WF(d) /\ (s = 0 \/ Silent(d, s))
  BY ClosedWF
<1>2. u \in Uses /\ u.kind \notin {"direct", "bam"}
  BY UseType DEF Kinds
<1>3. PICK e \in before :
        \/ Collect(e)
        \/ /\ Unallocated(e.pool) # {}
           /\ \E f \in After(e) : Collect(f) \/ Collect(Stick(f, {FirstFree(e.pool)}))
  BY DEF OpenWrite
<1> HIDE DEF u
<1>4. e \in {d} \/ e \in {d} \cup BamUse(d, part)
  BY <1>3
<1> HIDE DEF d, before
<1>5. BamStep(d, e) /\ SparesAll(d, e)
  BY <1>1, <1>4, MaybeBam, BamUseSpares
<1>6. WF(e) /\ (s = 0 \/ Silent(e, s))
  BY <1>1, <1>5 DEF BamStep
<1>7. CASE Collect(e)
  <2>1. Spares(Now, e, s)
    BY <1>5, OpenedSpares DEF d
  <2> QED
    BY <1>6, <1>7, <2>1, CollectSpares
<1>8. CASE /\ Unallocated(e.pool) # {}
           /\ \E f \in After(e) : Collect(f) \/ Collect(Stick(f, {FirstFree(e.pool)}))
  <2> DEFINE g == Granted(e)
             i == FirstFree(e.pool)
  <2>1. WF(g) /\ SparesAll(e, g) /\ i \in Idx
    BY <1>2, <1>6, <1>8, GrabWF, GrabSpares
  <2>2. PICK f \in After(e) : Collect(f) \/ Collect(Stick(f, {i}))
    BY <1>8
  <2>3. f \in {g} \/ f \in BamUse(g, part)
    BY <2>2
  <2> HIDE DEF g, Granted, After, i
  <2>4. WF(f) /\ SparesAll(g, f) /\ f \in Work /\ PoolOK(f.pool)
    BY <2>1, <2>3, BamUseSpares DEF WF
  <2> DEFINE h == Stick(f, {i})
  <2>5. {i} \in SUBSET Idx
    BY <2>1
  <2>6. WF(h) /\ SparesAll(f, h)
    BY <2>4, <2>5, StickWF, StickSpares
  <2> HIDE DEF h
  <2>7. SparesAll(d, f) /\ SparesAll(d, h)
    BY <1>5, <2>1, <2>4, <2>6, SparesTransitive
  <2>8. Spares(Now, f, s) /\ Spares(Now, h, s)
    BY <2>7, OpenedSpares DEF d
  <2> QED
    BY <2>2, <2>4, <2>6, <2>8, CollectSpares DEF h
<1> QED
  BY <1>3, <1>7, <1>8

-----------------------------------------------------------------------------
LEMMA RotateSpares ==
  ASSUME NEW d, WF(d), NEW i \in d.pool.allocated, d.use[i].kind = "direct",
         NEW s \in Host, d.pool.secondary[i] = s
  PROVE  Spares(d, With(d, Rotate(d.pool, i)), s)
<1> DEFINE j == Next1(d.pool, i)
           e == With(d, Activate(d.pool, i, j, s))
<1>1. j \in Chain(d.pool, i)
  BY MovesInChain
<1>2. Rotate(d.pool, i) = Activate(d.pool, i, j, s)
  BY DEF Rotate
<1> HIDE DEF j
<1>3. Spares(d, e, s)
  BY <1>1, ActivateSpares
<1> QED
  BY <1>2, <1>3

LEMMA ListenSpares ==
  ASSUME IInv, NEW s \in Host, Listen(s)
  PROVE  Spares(Now, Now', s)
<1> DEFINE d == Now
           i == find_buffer(pool, s)
           part == use[i].part
           flushed == Clean(d, i)
           failed == Free(d, {i})
           moved == With(d, Rotate(d.pool, i))
<1>1. /\ d.pool = pool /\ d.use = use /\ WF(d) /\ Tidy(d)
  BY NowFields DEF IInv
<1>2. /\ Holds(pool, s) /\ use[i].kind \in {"write", "direct"}
      /\ \/ Settle(Dirty(d, i))
         \/ use[i].kind = "direct" /\ Settle(Dirty(moved, find_buffer(moved.pool, s)))
         \/ use[i].kind = "write" /\ Settle(Dirty(flushed, i))
         \/ use[i].kind = "write" /\ Settle(failed)
         \/ /\ use[i].kind = "write"
            /\ \E e \in BamUse(flushed, part) : Settle(Dirty(e, i))
         \/ /\ use[i].kind = "write"
            /\ \E e \in BamUse(failed, part) : Settle(e)
  <2>1. d \in [pool : {pool}, use : {use}, one : {bam_buffer}, two : {bam_buffer2}]
    BY DEF Now
  <2>2. With(d, Rotate(pool, i)).pool = Rotate(pool, i)
    BY <2>1 DEF With
  <2> QED
    BY <1>1, <2>2 DEF Listen
<1>3. /\ i \in d.pool.allocated /\ i \in Idx /\ d.use[i].kind # "bam"
      /\ d.pool.secondary[i] = s
  BY <1>1, <1>2, FoundBuffer
<1>4. part \in Parts \cup {NoPart}
  BY <1>1, <1>3 DEF WF, Work, Uses
<1> HIDE DEF i, part, d
(* A buffer of s marked dirty, in a record that has spared the others. *)
<1>5. ASSUME NEW e, WF(e), Spares(d, e, s), NEW j \in e.pool.allocated,
             e.use[j].kind # "bam", e.pool.secondary[j] = s
      PROVE  WF(Dirty(e, j)) /\ Spares(d, Dirty(e, j), s)
  <2> DEFINE h == Dirty(e, j)
  <2>1. WF(h)
    BY <1>5, MarkDirtyWF
  <2>2. Spares(e, h, s)
    BY <1>5, MarkSpares
  <2> HIDE DEF h
  <2>3. Spares(d, h, s)
    BY <1>5, <2>2, SparesTransitive
  <2> QED
    BY <2>1, <2>3 DEF h
(* A BAM look-up spares the others too. *)
<1>6. ASSUME NEW e, WF(e), Spares(d, e, s), NEW f \in BamUse(e, part)
      PROVE  WF(f) /\ Keep(e, f) /\ Spares(d, f, s)
  <2>1. WF(f) /\ Keep(e, f) /\ SparesAll(e, f)
    BY <1>4, <1>6, BamUseSpares
  <2> QED
    BY <1>6, <2>1, SparesTransitive
<1>7. PICK h : WF(h) /\ Settle(h) /\ Spares(d, h, s)
  <2>1. CASE Settle(Dirty(d, i))
    <3>1. Spares(d, d, s)
      BY SparesTransitive
    <3> QED
      BY <1>1, <1>3, <1>5, <2>1, <3>1
  <2>2. CASE use[i].kind = "direct" /\ Settle(Dirty(moved, find_buffer(moved.pool, s)))
    <3> DEFINE j == find_buffer(moved.pool, s)
    <3>1. WF(moved) /\ Holds(moved.pool, s) /\ Spares(d, moved, s)
      BY <1>1, <1>3, <2>2, RotateWF, RotateSpares
    <3> HIDE DEF moved
    <3>2. j \in moved.pool.allocated /\ moved.use[j].kind # "bam"
          /\ moved.pool.secondary[j] = s
      BY <3>1, FoundBuffer
    <3> QED
      BY <1>5, <2>2, <3>1, <3>2
  <2>3. WF(flushed) /\ Keep(d, flushed) /\ Spares(d, flushed, s)
    BY <1>1, <1>3, MarkCleanWF, MarkSpares
  <2>4. i \in flushed.pool.allocated /\ flushed.use[i].kind # "bam"
        /\ flushed.pool.secondary[i] = s
    BY <1>3, <2>3 DEF Keep
  <2> HIDE DEF flushed
  <2>5. CASE Settle(Dirty(flushed, i))
    BY <1>5, <2>3, <2>4, <2>5
  <2>6. ASSUME use[i].kind = "write"
        PROVE  WF(failed) /\ Spares(d, failed, s)
    <3>1. d.use[i].kind \notin {"direct", "bam"} /\ i \in Own(d, s)
      BY <1>1, <1>3, <2>6 DEF Own
    <3> QED
      BY <1>1, <1>3, <3>1, FreeOneWF, FreeSpares
  <2> HIDE DEF failed
  <2>7. CASE use[i].kind = "write" /\ Settle(failed)
    BY <2>6, <2>7
  <2>8. CASE \E e \in BamUse(flushed, part) : Settle(Dirty(e, i))
    <3>1. PICK e \in BamUse(flushed, part) : Settle(Dirty(e, i))
      BY <2>8
    <3>2. WF(e) /\ Keep(flushed, e) /\ Spares(d, e, s)
      BY <1>6, <2>3
    <3>3. i \in e.pool.allocated /\ e.use[i].kind # "bam" /\ e.pool.secondary[i] = s
      BY <2>4, <3>2 DEF Keep
    <3> QED
      BY <1>5, <3>1, <3>2, <3>3
  <2>9. CASE use[i].kind = "write" /\ \E e \in BamUse(failed, part) : Settle(e)
    BY <1>6, <2>6, <2>9
  <2> QED
    BY <1>2, <2>1, <2>2, <2>5, <2>7, <2>8, <2>9
<1> QED
  BY <1>7, SettleSpares DEF d

LEMMA TalkSpares ==
  ASSUME IInv, NEW s \in Host, Talk(s)
  PROVE  Spares(Now, Now', s)
<1> DEFINE d == Now
           i == find_buffer(pool, s)
           part == use[i].part
           failed == Free(d, {i})
           moved == With(d, Rotate(d.pool, i))
<1>1. /\ d.pool = pool /\ d.use = use /\ WF(d)
  BY NowFields DEF IInv
<1>2. /\ Holds(pool, s)
      /\ \/ use[i].kind \in {"read", "dir"} /\ Settle(failed)
         \/ use[i].kind = "direct" /\ Settle(moved)
         \/ \E e \in BamUse(d, part) : Settle(e)
  BY <1>1 DEF Talk
<1>3. /\ i \in d.pool.allocated /\ i \in Idx /\ d.pool.secondary[i] = s
  BY <1>1, <1>2, FoundBuffer
<1>4. part \in Parts \cup {NoPart}
  BY <1>1, <1>3 DEF WF, Work, Uses
<1> HIDE DEF i, part, d
<1>5. PICK h : WF(h) /\ Settle(h) /\ Spares(d, h, s)
  <2>1. CASE use[i].kind \in {"read", "dir"} /\ Settle(failed)
    <3>1. d.use[i].kind \notin {"direct", "bam"} /\ i \in Own(d, s)
      BY <1>1, <1>3, <2>1 DEF Own
    <3>2. WF(failed) /\ Spares(d, failed, s)
      BY <1>1, <1>3, <3>1, FreeOneWF, FreeSpares
    <3> QED
      BY <2>1, <3>2
  <2>2. CASE use[i].kind = "direct" /\ Settle(moved)
    <3>1. WF(moved) /\ Spares(d, moved, s)
      BY <1>1, <1>3, <2>2, RotateWF, RotateSpares
    <3> QED
      BY <2>2, <3>1
  <2>3. CASE \E e \in BamUse(d, part) : Settle(e)
    <3>1. PICK e \in BamUse(d, part) : Settle(e)
      BY <2>3
    <3>2. WF(e) /\ SparesAll(d, e)
      BY <1>1, <1>4, BamUseSpares
    <3> QED
      BY <3>1, <3>2, SparesTransitive
  <2> QED
    BY <1>2, <2>1, <2>2, <2>3
<1> QED
  BY <1>5, SettleSpares DEF d

LEMMA BufferPositionSpares ==
  ASSUME IInv, NEW s \in Host, NEW n \in Nat, BufferPosition(s, n)
  PROVE  Spares(Now, Now', s)
<1> DEFINE d == Now
           i == find_buffer(pool, s)
           j == d.pool.first[i] + (n % d.pool.size[i])
           e == With(d, Activate(d.pool, i, j, s))
<1>1. /\ d.pool = pool /\ d.use = use /\ WF(d)
  BY NowFields DEF IInv
<1>2. /\ Holds(pool, s) /\ d.use[i].kind = "direct"
      /\ Settle(d) \/ (d.pool.size[i] # 1 /\ Settle(e))
  BY <1>1 DEF BufferPosition
<1>3. i \in d.pool.allocated /\ i \in Idx /\ d.pool.secondary[i] = s
  BY <1>1, <1>2, FoundBuffer
<1> HIDE DEF i, d
<1>4. d.pool.size[i] # 1 => j \in Chain(d.pool, i)
  BY <1>1, <1>2, <1>3, MovesInChain
<1>5. PICK h : WF(h) /\ Settle(h) /\ Spares(d, h, s)
  <2>1. CASE Settle(d)
    BY <1>1, <2>1, SparesTransitive
  <2>2. CASE d.pool.size[i] # 1 /\ Settle(e)
    <3>1. j \in Chain(d.pool, i)
      BY <1>4, <2>2
    <3> HIDE DEF j
    <3>2. WF(e) /\ Spares(d, e, s)
      BY <1>1, <1>2, <1>3, <3>1, ActivateWF, ActivateSpares
    <3> QED
      BY <2>2, <3>2
  <2> QED
    BY <1>2, <2>1, <2>2
<1> QED
  BY <1>5, SettleSpares DEF d

LEMMA CloseChannelSpares ==
  ASSUME IInv, NEW s \in Host, CloseChannel(s)
  PROVE  Spares(Now, Now', s)
<1> DEFINE d == Now
           i == find_buffer(pool, s)
           e == CleanupAndFree(d, i)
<1>1. d.pool = pool /\ WF(d)
  BY NowFields DEF IInv
<1>2. Holds(pool, s) /\ Settle(e)
  BY DEF CloseChannel
<1>3. i \in d.pool.allocated /\ d.pool.secondary[i] = s /\ s # SecBam
  BY <1>1, <1>2, FoundBuffer
<1> HIDE DEF i, d
<1>4. WF(e) /\ Spares(d, e, s)
  BY <1>1, <1>3, CleanupWF, CleanupSpares
<1> HIDE DEF e
<1> QED
  BY <1>2, <1>4, SettleSpares DEF d

(* The commands work on buffers of their own, on channel 0. *)
LEMMA ImageCommandSpares ==
  ASSUME IInv, NEW part \in Parts, ImageCommand(part)
  PROVE  Spares(Now, Now', 0)
<1> DEFINE d == Now
<1>1. WF(d)
  BY DEF IInv
<1>2. PICK e \in BamUse(d, part) : Collect(e)
  BY DEF ImageCommand
<1> HIDE DEF d
<1>3. WF(e) /\ SparesAll(d, e)
  BY <1>1, BamUseSpares
<1>4. Spares(d, e, 0)
  BY <1>3, SparesTransitive
<1> QED
  BY <1>2, <1>3, <1>4, CollectSpares DEF d

LEMMA FormatSpares ==
  ASSUME IInv, NEW part \in Parts, Format(part)
  PROVE  Spares(Now, Now', 0)
<1> DEFINE n == Now
           i == FirstFree(pool)
           u == Use("write", NoPart)
           g == Grab(n, 0, u)
           h == Dirty(g, i)
           f == [j \in Idx |-> IF j \in {g.one, g.two} THEN Use("bam", NoPart) ELSE g.use[j]]
           d == UsedAs(h, f)
<1>1. Unallocated(pool) # {} /\ \E e \in {d} \cup BamUse(d, part) : Collect(e)
  BY DEF Format
<1>2. WF(n) /\ n.pool = pool
  BY NowFields DEF IInv
<1>3. u \in Uses /\ u.kind = "write"
  BY UseType DEF Kinds
<1> HIDE DEF u, n
<1>4. /\ WF(g) /\ i \in g.pool.allocated /\ g.use[i].kind = "write"
      /\ SparesAll(n, g) /\ g.pool.secondary[i] = 0
  BY <1>1, <1>2, <1>3, GrabWF, GrabSpares
<1> HIDE DEF g, i
<1>5. WF(h) /\ Spares(g, h, 0) /\ h.use = g.use /\ h.pool.allocated = g.pool.allocated
      /\ h.pool.secondary = g.pool.secondary
  BY <1>4, MarkDirtyWF, MarkSpares
<1> HIDE DEF h
<1>6. /\ f \in [Idx -> Uses] /\ \A j \in Idx : f[j].kind = h.use[j].kind
      /\ \A j \in UserBuffers(g.pool) : f[j] = h.use[j]
  <2>1. g.use \in [Idx -> Uses] /\ g.pool.allocated \subseteq Idx
    BY <1>4 DEF WF, Work, PoolOK, Pools
  <2>2. \A j \in Idx : j \in {g.one, g.two} => g.use[j].kind = "bam"
    BY <1>4, SecondaryFacts DEF WF, BamOK, Linked, KindOK
  <2>3. Use("bam", NoPart) \in Uses /\ Use("bam", NoPart).kind = "bam"
    BY UseType DEF Kinds
  <2>4. \A j \in UserBuffers(g.pool) : j \notin {g.one, g.two} /\ j \in Idx
    BY <1>4, <2>1 DEF WF, BamOK, UserBuffers, SecSystem, SecBam
  <2> QED
    BY <1>5, <2>1, <2>2, <2>3, <2>4
<1> HIDE DEF f
<1>7. WF(d) /\ h \in Work
  BY <1>5, <1>6, ContentsWF DEF WF
<1>8. d.pool = h.pool /\ d.use = f
  BY <1>7, UsedAsFields
<1> HIDE DEF d
<1>9. SparesAll(h, d)
  BY <1>5, <1>6, <1>8 DEF SparesAll, Same, UserBuffers
<1>10. Spares(n, d, 0)
  BY <1>4, <1>5, <1>9, SparesTransitive
<1>11. PICK e \in {d} \cup BamUse(d, part) : Collect(e)
  BY <1>1
<1>12. WF(e) /\ SparesAll(d, e)
  BY <1>7, BamUseSpares
<1>13. Spares(n, e, 0)
  BY <1>10, <1>12, SparesTransitive
<1> QED
  BY <1>11, <1>12, <1>13, CollectSpares DEF n

LEMMA CopySpares ==
  ASSUME IInv, NEW part \in Parts, Copy(part)
  PROVE  Spares(Now, Now', 0)
<1> DEFINE n == Now
           i == FirstFree(pool)
           u == Use("read", NoPart)
           g == Grab(n, 0, u)
           j == FirstFree(g.pool)
           v == Use("write", NoPart)
           k == Grab(g, 0, v)
           h == Stick(k, {i, j})
<1>1. /\ Unallocated(pool) # {}
      /\ \/ Collect(g)
         \/ /\ Unallocated(g.pool) # {}
            /\ \E e \in {h} \cup BamUse(h, part) :
                 Collect(Free(e, {i, j})) \/ Collect(Free(e, {j}))
  BY DEF Copy
<1>2. WF(n) /\ n.pool = pool
  BY NowFields DEF IInv
<1>3. u \in Uses /\ u.kind = "read" /\ v \in Uses /\ v.kind = "write"
  BY UseType DEF Kinds
<1> HIDE DEF u, v, n
<1>4. /\ WF(g) /\ i \in Idx /\ i \in g.pool.allocated /\ g.use[i].kind = "read"
      /\ SparesAll(n, g) /\ g.pool.secondary[i] = 0
  BY <1>1, <1>2, <1>3, GrabWF, GrabSpares
<1> HIDE DEF g, i
<1>5. CASE Collect(g)
  <2>1. Spares(n, g, 0)
    BY <1>4, SparesTransitive
  <2> QED
    BY <1>4, <1>5, <2>1, CollectSpares DEF n
<1>6. CASE /\ Unallocated(g.pool) # {}
           /\ \E e \in {h} \cup BamUse(h, part) :
                Collect(Free(e, {i, j})) \/ Collect(Free(e, {j}))
  <2>1. /\ WF(k) /\ Keep(g, k) /\ SparesAll(g, k)
        /\ j \in Idx /\ j \in k.pool.allocated /\ k.use[j].kind = "write"
        /\ k.pool.secondary[j] = 0
    <3>1. /\ WF(k) /\ Keep(g, k)
          /\ j \in Idx /\ j \in k.pool.allocated /\ k.use[j].kind = "write"
      BY <1>3, <1>4, <1>6, GrabWF
    <3>2. SparesAll(g, k) /\ k.pool.secondary[j] = 0
      BY <1>3, <1>4, <1>6, GrabSpares
    <3> QED
      BY <3>1, <3>2
  <2> HIDE DEF j, k
  <2>2. {i, j} \in SUBSET Idx /\ k \in Work /\ PoolOK(k.pool)
    BY <1>4, <2>1 DEF WF
  <2>3. WF(h) /\ Keep(k, h) /\ SparesAll(k, h)
    BY <2>1, <2>2, StickWF, StickSpares
  <2> HIDE DEF h
  <2>4. PICK e \in {h} \cup BamUse(h, part) :
          Collect(Free(e, {i, j})) \/ Collect(Free(e, {j}))
    BY <1>6
  <2>5. WF(e) /\ Keep(h, e) /\ SparesAll(h, e)
    BY <2>3, BamUseSpares
  <2>6. Spares(n, e, 0)
    BY <1>4, <2>1, <2>3, <2>5, SparesTransitive
  <2>7. /\ {i, j} \in SUBSET e.pool.allocated /\ {j} \in SUBSET e.pool.allocated
        /\ \A m \in {i, j} : e.use[m].kind \notin {"direct", "bam"}
        /\ \A m \in {i, j} : m \in Own(e, 0)
    BY <1>4, <2>1, <2>3, <2>5 DEF Keep, Own
  <2>8. ASSUME NEW S \in {{i, j}, {j}}
        PROVE  WF(Free(e, S)) /\ Spares(n, Free(e, S), 0)
    <3> DEFINE f == Free(e, S)
    <3>1. WF(f)
      BY <2>5, <2>7, FreePlainWF
    <3>2. \A m \in S : m \in Own(e, 0)
      BY <2>7
    <3>3. Spares(e, f, 0)
      BY <2>5, <3>2, FreeSpares
    <3> HIDE DEF f
    <3>4. Spares(n, f, 0)
      BY <2>6, <3>3, SparesTransitive
    <3> QED
      BY <3>1, <3>4 DEF f
  <2>9. PICK S \in {{i, j}, {j}} : Collect(Free(e, S))
    BY <2>4
  <2> QED
    BY <2>8, <2>9, CollectSpares DEF n
<1> QED
  BY <1>1, <1>5, <1>6

-----------------------------------------------------------------------------
(* The sweeps leave no channel. *)
NoChannel(d) == UserBuffers(d.pool) = {}

LEMMA SweepLeavesNone ==
  ASSUME NEW d, WF(d), NEW flags \in {FMB_USER, FMB_USER_CLEAN},
         NEW e, e = Sweep(d, flags)
  PROVE  NoChannel(e)
<1> DEFINE S == Matching(d.pool, flags)
           q == free_buffers(d.pool, S)
<1>1. S = UserBuffers(d.pool)
  BY DEF Matching, UserBuffers, FMB_USER, FMB_USER_CLEAN
<1>2. e = With(d, q) /\ d \in Work
  BY DEF Sweep, free_multiple_buffers, WF
<1> HIDE DEF S
<1>3. /\ q.allocated = d.pool.allocated \ S
      /\ \A k \in q.allocated : q.secondary[k] = d.pool.secondary[k]
  BY FreeBuffers DEF WF
<1> HIDE DEF q
<1>4. e.pool = q
  BY <1>2, WithFields
<1> QED
  BY <1>1, <1>3, <1>4 DEF NoChannel, UserBuffers

(* Nor does freeing or the collection make one. *)
LEMMA NoneFreed ==
  ASSUME NEW d, WF(d), NEW S, NEW e, e = Free(d, S), NoChannel(d)
  PROVE  NoChannel(e)
<1> DEFINE q == free_buffers(d.pool, S)
<1>1. e = With(d, q) /\ d \in Work
  BY DEF Free, WF
<1>2. /\ q.allocated = d.pool.allocated \ S
      /\ \A k \in q.allocated : q.secondary[k] = d.pool.secondary[k]
  BY FreeBuffers DEF WF
<1> HIDE DEF q
<1>3. e.pool = q
  BY <1>1, WithFields
<1> QED
  BY <1>2, <1>3 DEF NoChannel, UserBuffers

LEMMA NoneCollected ==
  ASSUME NEW ACTION d, WF(d), Collect(d), NoChannel(d)
  PROVE  UserBuffers(pool') = {}
<1> DEFINE S == Matching(d.pool, FMB_UNSTICKY)
           e == Free(d, S)
<1>1. pool' = e.pool
  BY DEF Collect, Settle, Sweep, Free, free_multiple_buffers
<1> HIDE DEF S
<1>2. NoChannel(e)
  BY NoneFreed
<1> QED
  BY <1>1, <1>2 DEF NoChannel

LEMMA SweptNone ==
  ASSUME IInv
  PROVE  NoChannel(Swept) /\ WF(Swept)
<1>1. WF(Now)
  BY DEF IInv
<1> QED
  BY <1>1, SweptWF, SweepLeavesNone DEF Swept

LEMMA MountLeavesNone ==
  ASSUME IInv, NEW part \in Parts, Mount(part)
  PROVE  UserBuffers(pool') = {}
<1> DEFINE d == Swept
           e == BamBufferAlloc(d)
<1>1. /\ WF(d) /\ NoChannel(d) /\ d.one = bam_buffer /\ d.two = bam_buffer2
  BY SweptWF, SweptNone
<1>2. \/ Collect(d)
      \/ bam_buffer = NULL /\ Unallocated(d.pool) # {} /\ Collect(e)
  BY DEF Mount
<1>3. CASE Collect(d)
  BY <1>1, <1>3, NoneCollected
<1>4. CASE bam_buffer = NULL /\ Unallocated(d.pool) # {} /\ Collect(e)
  <2>1. d.two = NULL
    BY <1>1, <1>4 DEF WF, BamOK
  <2> HIDE DEF d
  <2>2. WF(e)
    BY <1>1, <1>4, <2>1, BamAllocWF
  <2>3. NoChannel(e)
    <3> DEFINE i == FirstFree(d.pool)
               q == alloc_system_buffer(d.pool, SecBam)
               r == stick_buffers(q, {i})
    <3>1. /\ PoolOK(q)
          /\ i \in Idx /\ i \notin d.pool.allocated
          /\ q.allocated = d.pool.allocated \cup {i}
          /\ q.sticky = d.pool.sticky \ {i}
          /\ q.dirty = d.pool.dirty \ {i}
          /\ q.secondary = [d.pool.secondary EXCEPT ![i] = SecBam]
          /\ q.first = [d.pool.first EXCEPT ![i] = i]
          /\ q.size = [d.pool.size EXCEPT ![i] = 0]
      BY <1>1, <1>4, SecondaryFacts, AllocSystem DEF WF
    <3>2. e.pool = r
      BY DEF BamBufferAlloc
    <3>3. r.allocated = q.allocated /\ r.secondary = q.secondary
      BY <3>1 DEF stick_buffers, PoolOK, Pools
    <3>4. d.pool.secondary \in [Idx -> Secondary] /\ d.pool.allocated \subseteq Idx
      BY <1>1 DEF WF, Work, Pools
    <3> HIDE DEF q, r, i
    <3>5. \A k \in e.pool.allocated : e.pool.secondary[k] < SecSystem
                                         => k \in UserBuffers(d.pool)
      BY <3>1, <3>2, <3>3, <3>4 DEF UserBuffers, SecBam, SecSystem
    <3> QED
      BY <1>1, <3>5 DEF NoChannel, UserBuffers
  <2> QED
    BY <1>4, <2>2, <2>3, NoneCollected
<1> QED
  BY <1>2, <1>3, <1>4

LEMMA UnmountLeavesNone ==
  ASSUME IInv, NEW part \in Parts, Unmount(part)
  PROVE  UserBuffers(pool') = {}
<1> DEFINE s == Swept
           d == Forget(s, part)
           left == bam_refcount'
           e == DropBam(d, left)
<1>1. WF(s) /\ NoChannel(s) /\ s \in Work
  BY SweptNone DEF WF
<1>2. Collect(e)
  BY DEF Unmount
<1> HIDE DEF s
<1>3. d.pool = s.pool
  BY <1>1, UsedAsFields DEF Forget
<1>4. WF(d) /\ NoChannel(d)
  BY <1>1, <1>3, ForgetWF DEF NoChannel
<1> HIDE DEF d
<1>5. WF(e)
  BY <1>4, DropBamWF
<1>6. NoChannel(e)
  <2> DEFINE S == {d.one, d.two} \ {NULL}
             f == Free(d, S)
  <2>1. e = d \/ e.pool = free_buffers(d.pool, S)
    BY DEF DropBam
  <2>2. f.pool = free_buffers(d.pool, S)
    BY <1>4, WithFields DEF Free, WF
  <2> HIDE DEF S, f, e
  <2>3. NoChannel(f)
    BY <1>4, NoneFreed DEF f
  <2> QED
    BY <1>4, <2>1, <2>2, <2>3 DEF NoChannel
<1> QED
  BY <1>2, <1>5, <1>6, NoneCollected

-----------------------------------------------------------------------------
(* Every step spares all channels but one, or leaves none. *)
LEMMA StepSpares ==
  ASSUME IInv, Next
  PROVE  UserBuffers(pool') = {} \/ \E s \in Host \cup {0} : Spares(Now, Now', s)
<1>1. ASSUME NEW s \in Host, OpenFails(s)
      PROVE  Spares(Now, Now', s)
  BY <1>1, OpenFailsSpares
<1>2. ASSUME NEW s \in Host, OpenDirect(s)
      PROVE  Spares(Now, Now', s)
  BY <1>2, OpenDirectSpares
<1>3. ASSUME NEW s \in Host, NEW n \in Lengths, OpenLarge(s, n)
      PROVE  Spares(Now, Now', s)
  BY <1>3, OpenLargeSpares
<1>4. ASSUME NEW s \in Host, NEW k \in {"read", "dir"}, NEW part \in Parts,
             OpenRead(s, k, part)
      PROVE  Spares(Now, Now', s)
  BY <1>4, OpenReadSpares
<1>5. ASSUME NEW s \in Host, NEW part \in Parts, OpenWrite(s, part)
      PROVE  Spares(Now, Now', s)
  BY <1>5, OpenWriteSpares
<1>6. ASSUME NEW s \in Host, Listen(s) \/ Talk(s) \/ CloseChannel(s)
      PROVE  Spares(Now, Now', s)
  BY <1>6, ListenSpares, TalkSpares, CloseChannelSpares
<1>7. ASSUME NEW s \in Host, NEW n \in 0 .. Count, BufferPosition(s, n)
      PROVE  Spares(Now, Now', s)
  BY <1>7, BufferPositionSpares
<1>8. ASSUME CloseAll
      PROVE  UserBuffers(pool') = {}
  BY <1>8, SweptNone DEF CloseAll, Settle, NoChannel
<1>9. ASSUME ResetCommand
      PROVE  UserBuffers(pool') = {}
  <2> DEFINE n == Now
             e == Sweep(n, FMB_USER)
  <2>1. WF(n) /\ Collect(e)
    BY <1>9 DEF ResetCommand, IInv
  <2> HIDE DEF n
  <2>2. WF(e) /\ NoChannel(e)
    BY <2>1, SweepUsersWF, SweepLeavesNone
  <2> QED
    BY <2>1, <2>2, NoneCollected
<1>10. ASSUME NEW part \in Parts, Mount(part) \/ Unmount(part) \/ PanicReboot(part)
       PROVE  UserBuffers(pool') = {}
  <2>1. CASE PanicReboot(part)
    BY <2>1 DEF PanicReboot, buffers_init, UserBuffers
  <2> QED
    BY <1>10, <2>1, MountLeavesNone, UnmountLeavesNone
<1>11. ASSUME NEW part \in Parts, ImageCommand(part) \/ Format(part) \/ Copy(part)
       PROVE  Spares(Now, Now', 0)
  BY <1>11, ImageCommandSpares, FormatSpares, CopySpares
<1> QED
  BY <1>1, <1>2, <1>3, <1>4, <1>5, <1>6, <1>7, <1>8, <1>9, <1>10, <1>11 DEF Next

(* No step of the drive touches two channels and leaves one open, whatever  *)
(* the pool, the channels and the partitions: the bytes, positions and       *)
(* flushes of a channel stay in its own buffers, and the collection after a  *)
(* command takes nobody else's (fileops.c, iec.c, doscmd.c).                 *)
THEOREM OneChannelAtATime == Spec => OneChannelTouched
<1> DEFINE A == \A s, t \in Host :
                  s # t /\ Touched(s) /\ Touched(t) => UserBuffers(pool') = {}
<1>1. ASSUME NEW s \in Host \cup {0}, NEW t \in Host, s # t, Spares(Now, Now', s)
      PROVE  ~Touched(t)
  <2> SUFFICES ASSUME NEW i \in pool.allocated, pool.secondary[i] \in {t, SecChain - t}
               PROVE  /\ i \in pool'.allocated
                      /\ pool'.secondary[i] = pool.secondary[i]
                      /\ i \in pool'.dirty <=> i \in pool.dirty
                      /\ use'[i] = use[i]
    BY DEF Touched
  <2> DEFINE n == Now
             m == Now'
  <2>1. n.pool = pool /\ n.use = use /\ m.pool = pool' /\ m.use = use' /\ Spares(n, m, s)
    BY <1>1 DEF Now
  <2> HIDE DEF n, m
  <2>2. /\ t \in 0 .. 14 /\ s \in 0 .. 14 /\ s # t
    BY <1>1, ChannelsAssumption DEF HostSec
  <2>3. i \in UserBuffers(n.pool) \ Own(n, s)
    BY <2>1, <2>2 DEF UserBuffers, Own, SecSystem, SecChain
  <2>4. Same(n, m, i)
    BY <2>1, <2>3 DEF Spares
  <2> QED
    BY <2>1, <2>4 DEF Same
<1>2. IInv /\ Next => A
  <2> SUFFICES ASSUME IInv, Next, NEW s \in Host, NEW t \in Host,
                      s # t, Touched(s), Touched(t)
               PROVE  UserBuffers(pool') = {}
    OBVIOUS
  <2>1. ASSUME NEW r \in Host \cup {0}, Spares(Now, Now', r)
        PROVE  FALSE
    <3>1. r # s \/ r # t
      OBVIOUS
    <3> QED
      BY <1>1, <2>1, <3>1
  <2> QED
    BY <2>1, StepSpares
<1>3. IInv /\ [Next]_vars => [A]_vars
  BY <1>2
<1> QED
  BY <1>3, Inductive, PTL DEF Spec, OneChannelTouched
=============================================================================
