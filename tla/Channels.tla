------------------------------ MODULE Channels ------------------------------
(***************************************************************************)
(* The users of the buffer pool: the channels the computer opens           *)
(* (fileops.c), what the bus handlers do to a channel's buffer (iec.c), the *)
(* commands that open, move or sweep buffers (doscmd.c), and the two BAM   *)
(* buffers with their reference count (d64ops.c, vfsops.c).                *)
(*                                                                         *)
(* The firmware is one loop, so each handler is one action; the handlers   *)
(* that run from BUS_CLEANUP end with the collection of the buffers nobody *)
(* has made sticky.  File contents are left out: an operation on the       *)
(* medium succeeds or fails, by a nondeterministic choice.                 *)
(***************************************************************************)
EXTENDS Buffers

CONSTANTS
  Host,    (* the secondary addresses the computer uses *)
  Parts,   (* the partitions, each with a disk image that can be mounted *)
  Lengths, (* the buffer counts asked for in "##n" *)
  NoPart,  (* partition byte 255: not on a disk image, or an invalid BAM buffer *)
  NULL     (* the null pointer *)

ASSUME ChannelsAssumption ==
  /\ Host \subseteq HostSec
  /\ IsFiniteSet(Parts) /\ Cardinality(Parts) <= 255
  /\ NoPart \notin Parts
  /\ Lengths \subseteq 1 .. 9
  /\ NULL \notin Idx

VARIABLES
  pool,         (* buffers[], active_buffers and the LEDs *)
  use,          (* what each buffer is used for, and the partition in its pvt *)
  bam_buffer, bam_buffer2, bam_refcount,
  mounted       (* the partitions whose fop is &d64ops *)

vars == <<pool, use, bam_buffer, bam_buffer2, bam_refcount, mounted>>

Kinds == {"free", "read", "dir", "write", "direct", "bam"}
Uses  == [kind : Kinds, part : Parts \cup {NoPart}]
Use(kind, part) == [kind |-> kind, part |-> part]

(* What a handler works on: the pool, the uses and the two BAM pointers.   *)
Now == [pool |-> pool, use |-> use, one |-> bam_buffer, two |-> bam_buffer2]

With(d, p)    == [d EXCEPT !.pool = p]
UsedAs(d, f)  == [d EXCEPT !.use = f]
Free(d, S)    == With(d, free_buffers(d.pool, S))
Clean(d, i)   == With(d, mark_buffer_clean(d.pool, i))
Dirty(d, i)   == With(d, mark_buffer_dirty(d.pool, i))
Stick(d, S)   == With(d, stick_buffers(d.pool, S))
Sweep(d, flags) == With(d, free_multiple_buffers(d.pool, flags))

(* The end of a handler; unallocated buffers are not in use. *)
Settle(d) ==
  /\ pool' = d.pool
  /\ use' = [i \in Idx |-> IF i \in d.pool.allocated THEN d.use[i] ELSE Use("free", NoPart)]
  /\ bam_buffer' = d.one
  /\ bam_buffer2' = d.two

(* The end of a handler called from BUS_CLEANUP: the unsticky buffers go.  *)
CollectNothing(d) == Settle(d)   (* mutant: no collection *)
Collect(d) == Settle(Sweep(d, FMB_UNSTICKY))

Init ==
  /\ pool = buffers_init
  /\ use = [i \in Idx |-> Use("free", NoPart)]
  /\ bam_buffer = NULL /\ bam_buffer2 = NULL /\ bam_refcount = 0
  /\ mounted = {}

(***************************************************************************)
(* The BAM buffers, d64ops.c.                                              *)
(***************************************************************************)

(* bam_buffer_alloc: the new buffer is sticky and holds nothing yet.  It is *)
(* now bam_buffer, and what was bam_buffer, if anything, is bam_buffer2.     *)
BamBufferAlloc(d) ==
  LET i == FirstFree(d.pool)
  IN [pool |-> stick_buffers(alloc_system_buffer(d.pool, SecBam), {i}),
      use  |-> [d.use EXCEPT ![i] = Use("bam", NoPart)],
      one  |-> i,
      two  |-> d.one]

(* The buffer the wanted BAM sector is to be found in or read into, when   *)
(* bam_buffer does not hold it: the second buffer, allocated at the first   *)
(* need; without a free buffer the first one has to do.                     *)
OtherWindow(d) ==
  IF d.two # NULL THEN [pool |-> d.pool, use |-> d.use, one |-> d.two, two |-> d.one]
  ELSE IF d.use[d.one].part = NoPart \/ Unallocated(d.pool) = {} THEN d
  ELSE BamBufferAlloc(d)

(* What move_bam_window can lead to: bam_buffer already has the sector, or *)
(* the other window has it or is loaded with it, or the loading fails.      *)
MoveBamWindow(d, part) ==
  LET w == OtherWindow(d)
  IN {w, UsedAs(w, [w.use EXCEPT ![w.one].part = part])}
       \cup (IF d.use[d.one].part = part THEN {d} ELSE {})

(* An operation that looks at the BAM moves the window one or more times.  *)
BamUse(d, part) ==
  LET once == MoveBamWindow(d, part)
  IN once \cup UNION {MoveBamWindow(e, part) : e \in once}

(* The handler dereferences bam_buffer: no outcome without one. *)
OnImage(part) == part \in mounted
Usable(part)  == OnImage(part) => bam_buffer # NULL

(* Dereferencing a null bam_buffer ends in a processor exception, and the  *)
(* panic handler restarts the firmware.                                     *)
PanicReboot(part) ==
  /\ ~Usable(part)
  /\ pool' = buffers_init
  /\ use' = [i \in Idx |-> Use("free", NoPart)]
  /\ bam_buffer' = NULL /\ bam_buffer2' = NULL /\ bam_refcount' = 0
  /\ mounted' = {}

BamUnchanged == UNCHANGED <<bam_refcount, mounted>>

(***************************************************************************)
(* file_open and what it calls.                                            *)
(***************************************************************************)

(* cleanup_and_free_buffer: the cleanup of a '#' chain frees all of it.    *)
FreeOnly(d, i) == Free(d, {i})   (* mutant: the chain's cleanup is not called *)
CleanupAndFree(d, i) == Free(d, Chain(d.pool, i))

(* file_open first closes the channel if it is in use. *)
StillOpen(s) == Now   (* mutant: the channel's old buffer stays *)
Closed(s) ==
  IF Holds(pool, s) THEN CleanupAndFree(Now, find_buffer(pool, s)) ELSE Now

(* alloc_buffer on behalf of channel s, for the given use. *)
Grab(d, s, u) ==
  UsedAs(With(d, alloc_buffer(d.pool, s)), [d.use EXCEPT ![FirstFree(d.pool)] = u])

(* The name is refused, there is no such file or no buffer is free: the     *)
(* error is set and nothing is opened.                                      *)
OpenFails(s) ==
  /\ Collect(Closed(s))
  /\ BamUnchanged

(* OPEN s,"#": one direct access buffer, a chain of one. *)
ChainOfOne(p, i) == [p EXCEPT !.size[i] = 1]

OpenDirect(s) ==
  LET d == Closed(s)
      i == FirstFree(d.pool)
      e == Stick(Grab(d, s, Use("direct", NoPart)), {i})
  IN /\ Unallocated(d.pool) # {}
     /\ Collect(With(e, ChainOfOne(e.pool, i)))
     /\ BamUnchanged

(* OPEN s,"##n": a chain of n buffers, the first one the active one. *)
OpenLarge(s, n) ==
  LET d       == Closed(s)
      start   == LinkedStart(d.pool, n)
      members == start .. (start + n - 1)
      p       == alloc_linked_buffers(d.pool, n, SecChain - s)
      linked  == UsedAs(With(d, [p EXCEPT !.secondary[start] = s]),
                        [i \in Idx |-> IF i \in members THEN Use("direct", NoPart)
                                       ELSE d.use[i]])
  IN /\ BamUnchanged
     /\ \/ /\ Runs(d.pool, n) = {}
           /\ Collect(d)
        \/ /\ Runs(d.pool, n) # {}
           /\ Collect(Stick(linked, members))

(* A file or a directory opened for reading: sticky on success; on failure *)
(* either freed by the first refill or left for the collection.  Only a     *)
(* directory of an image comes back to its partition's BAM later.           *)
OpenRead(s, kind, part) ==
  LET d == Closed(s)
      e == Grab(d, s, Use(kind, IF kind = "dir" /\ OnImage(part) THEN part ELSE NoPart))
  IN /\ Unallocated(d.pool) # {}
     /\ Collect(e) \/ Collect(Stick(e, {FirstFree(d.pool)}))
     /\ BamUnchanged

(* A file opened for writing.  On an image that looks for free sectors in   *)
(* the BAM, and before it, for "@", frees those of the file it replaces.     *)
OpenWrite(s, part) ==
  LET d == Closed(s)
      before == IF OnImage(part) THEN {d} \cup BamUse(d, part) ELSE {d}
  IN /\ Usable(part)
     /\ BamUnchanged
     /\ \E e \in before :
          \/ Collect(e)
          \/ /\ Unallocated(e.pool) # {}
             /\ LET g == Grab(e, s, Use("write", IF OnImage(part) THEN part ELSE NoPart))
                    after == IF OnImage(part) THEN BamUse(g, part) ELSE {g}
                IN \E f \in after :
                     Collect(f) \/ Collect(Stick(f, {FirstFree(e.pool)}))

(***************************************************************************)
(* The data phases of the bus: iec_listen_handler and iec_talk_handler.    *)
(***************************************************************************)

(* directbuffer_refill: the channel moves on to the next buffer. *)
Next1(p, i) == IF i = p.first[i] + p.size[i] - 1 THEN p.first[i] ELSE i + 1

ActivateSwapped(p, i, j, s) ==   (* mutant: the subtraction the wrong way round *)
  [p EXCEPT !.secondary = [@ EXCEPT ![i] = s - SecChain, ![j] = s]]

Activate(p, i, j, s) == [p EXCEPT !.secondary = [@ EXCEPT ![i] = SecChain - s, ![j] = s]]

Rotate(p, i) == Activate(p, i, Next1(p, i), p.secondary[i])

(* A byte for channel s.  A full buffer is flushed first: that moves a '#'  *)
(* channel on, writes a file block or fails and frees the buffer.           *)
Listen(s) ==
  LET i == find_buffer(pool, s)
      part == use[i].part
      flushed == Clean(Now, i)
      failed  == Free(Now, {i})
  IN /\ Holds(pool, s)
     /\ use[i].kind \in {"write", "direct"}
     /\ BamUnchanged
     /\ \/ Settle(Dirty(Now, i))
        \/ /\ use[i].kind = "direct"
           /\ LET p == Rotate(pool, i)
              IN Settle(Dirty(With(Now, p), find_buffer(p, s)))
        \/ /\ use[i].kind = "write" /\ part = NoPart
           /\ \/ Settle(Dirty(flushed, i))
              \/ Settle(failed)
        \/ /\ use[i].kind = "write" /\ part # NoPart /\ Usable(part)
           /\ \/ \E e \in BamUse(flushed, part) :
                   Settle(Dirty(e, i))
              \/ \E e \in BamUse(failed, part) : Settle(e)

(* A block of channel s sent and the buffer refilled; the blocks-free line  *)
(* that ends a directory of an image counts the free sectors in the BAM.    *)
Talk(s) ==
  LET i == find_buffer(pool, s)
      part == use[i].part
      failed == Free(Now, {i})
  IN /\ Holds(pool, s)
     /\ BamUnchanged
     /\ \/ use[i].kind \in {"read", "dir"} /\ Settle(failed)
        \/ use[i].kind = "direct" /\ Settle(With(Now, Rotate(pool, i)))
        \/ /\ use[i].kind = "dir" /\ part # NoPart /\ Usable(part)
           /\ \E e \in BamUse(Now, part) : Settle(e)

(***************************************************************************)
(* CLOSE and the sweeps.                                                   *)
(***************************************************************************)

(* CLOSE of a channel other than 15: the same whether the cleanup fails.   *)
CloseChannel(s) ==
  /\ Holds(pool, s)
  /\ Settle(CleanupAndFree(Now, find_buffer(pool, s)))
  /\ BamUnchanged

(* free_multiple_buffers(FMB_USER_CLEAN). *)
Swept == Sweep(Now, FMB_USER_CLEAN)

(* CLOSE of channel 15, and the I command. *)
CloseAll ==
  /\ Settle(Swept)
  /\ UNCHANGED <<bam_refcount, mounted>>

(* The UJ command drops the channels without calling their cleanups. *)
ResetCommand ==
  /\ Collect(Sweep(Now, FMB_USER))
  /\ BamUnchanged

(***************************************************************************)
(* Mounting and unmounting images: vfs_chdir, vfs_image_unmount, d64_mount  *)
(* and d64_unmount.                                                         *)
(***************************************************************************)

Mount(part) ==
  /\ ~OnImage(part)
  /\ \/ (* the image cannot be opened or is of no known size *)
        /\ Collect(Swept)
        /\ UNCHANGED <<bam_refcount, mounted>>
     \/ /\ bam_buffer # NULL \/ Unallocated(Swept.pool) # {}
        /\ bam_refcount' = Byte(bam_refcount + 1)
        /\ mounted' = mounted \cup {part}
        /\ \/ bam_buffer # NULL /\ Collect(Swept)
           \/ bam_buffer = NULL /\ Collect(BamBufferAlloc(Swept))

(* d64_unmount: the contents of the partition are forgotten, and then "if   *)
(* (--bam_refcount)" frees the BAM buffers while there is a user left.       *)
Forget(d, part) ==
  UsedAs(d, [i \in Idx |-> IF d.use[i] = Use("bam", part) THEN Use("bam", NoPart)
                           ELSE d.use[i]])

DropFirst(d, left) ==   (* mutant: bam_buffer2 is freed but not cleared *)
  IF left = 0 THEN d
  ELSE [pool |-> free_buffers(d.pool, {d.one, d.two} \ {NULL}),
        use  |-> d.use, one |-> NULL, two |-> d.two]

DropBam(d, left) ==
  IF left = 0 THEN d
  ELSE [pool |-> free_buffers(d.pool, {d.one, d.two} \ {NULL}),
        use  |-> d.use, one |-> NULL, two |-> NULL]

Unmount(part) ==
  /\ OnImage(part)
  /\ bam_refcount' = Byte(bam_refcount - 1)
  /\ mounted' = mounted \ {part}
  /\ Collect(DropBam(Forget(Swept, part), bam_refcount'))

(***************************************************************************)
(* Other commands that use buffers.                                        *)
(***************************************************************************)

(* B-P on a chain: from the first buffer n steps on, wrapping at the end.  *)
BufferPosition(s, n) ==
  LET i == find_buffer(pool, s)
      j == pool.first[i] + (n % pool.size[i])
  IN /\ Holds(pool, s)
     /\ use[i].kind = "direct"
     /\ IF pool.size[i] = 1 THEN Settle(Now)
        ELSE Settle(With(Now, Activate(pool, i, j, s)))
     /\ BamUnchanged

(* Scratching files of an image.                                           *)
ImageCommand(part) ==
  /\ OnImage(part) /\ Usable(part)
  /\ BamUnchanged
  /\ \E e \in BamUse(Now, part) : Collect(e)

(* d64_format: a work buffer, left to the collection; the BAM buffers hold  *)
(* nothing any more; unless the medium fails first every sector is freed.   *)
Format(part) ==
  LET i == FirstFree(pool)
      g == Grab(Now, 0, Use("write", NoPart))
      d == UsedAs(Dirty(g, i),
                  [j \in Idx |-> IF j \in {g.one, g.two} THEN Use("bam", NoPart)
                                 ELSE g.use[j]])
  IN /\ OnImage(part) /\ Usable(part)
     /\ Unallocated(pool) # {}
     /\ BamUnchanged
     /\ \E e \in {d} \cup BamUse(d, part) : Collect(e)

(* The C command takes two buffers on secondary address 0.  It ends with    *)
(* nothing open, except after an error past the opening of a source file:   *)
(* then the source buffer is cleaned up, not freed, and it is sticky.       *)
Copy(part) ==
  LET i == FirstFree(pool)
      g == Grab(Now, 0, Use("read", NoPart))
  IN /\ Unallocated(pool) # {}
     /\ Usable(part)
     /\ BamUnchanged
     /\ \/ Collect(g)
        \/ /\ Unallocated(g.pool) # {}
           /\ LET j == FirstFree(g.pool)
                  h == Stick(Grab(g, 0, Use("write", NoPart)), {i, j})
              IN \E e \in (IF OnImage(part) THEN {h} \cup BamUse(h, part) ELSE {h}) :
                   \/ Collect(Free(e, {i, j}))
                   \/ Collect(Free(e, {j}))

Next ==
  \/ \E s \in Host :
       \/ OpenFails(s) \/ OpenDirect(s)
       \/ \E n \in Lengths : OpenLarge(s, n)
       \/ \E k \in {"read", "dir"}, part \in Parts : OpenRead(s, k, part)
       \/ \E part \in Parts : OpenWrite(s, part)
       \/ Listen(s) \/ Talk(s) \/ CloseChannel(s)
       \/ \E n \in 0 .. Count : BufferPosition(s, n)
  \/ CloseAll
  \/ ResetCommand
  \/ \E part \in Parts :
       \/ Mount(part) \/ Unmount(part) \/ ImageCommand(part) \/ Format(part)
       \/ Copy(part) \/ PanicReboot(part)

Spec == Init /\ [][Next]_vars
-----------------------------------------------------------------------------
(***************************************************************************)
(* Properties.                                                             *)
(***************************************************************************)

(* Every variable has the type of the C object it stands for. *)
TypeOK ==
  /\ pool \in Pools
  /\ use \in [Idx -> Uses]
  /\ bam_buffer \in Idx \cup {NULL}
  /\ bam_buffer2 \in Idx \cup {NULL}
  /\ bam_refcount \in 0 .. 255
  /\ mounted \subseteq Parts

(* Through every open, flush, chain move, sweep and collection the counter  *)
(* byte active_buffers and the LEDs agree with the buffers: a count that    *)
(* drifts makes check_free_buffers refuse or promise a buffer wrongly, and  *)
(* a dark dirty LED invites the user to pull the card (buffers.c, led.c).   *)
Accounting == ActiveExact(pool) /\ LedsExact(pool)

(* No two buffers answer to the same open channel, so that find_buffer in   *)
(* the bus handlers cannot send the bytes of one file to another.  Channel  *)
(* 0 is left out: commands take their work buffers there.                   *)
ChannelUnique ==
  \A i, j \in pool.allocated :
    pool.secondary[i] \in Host \ {0} /\ pool.secondary[i] = pool.secondary[j] => i = j

(* The buffers of a '#' channel live and die together, survive the          *)
(* collection together, and one of them carries the channel number while    *)
(* the others carry its complement (open_buffer, directbuffer_refill,       *)
(* parse_block, largebuffer_cleanup).                                       *)
ChainIntact ==
  \A i \in pool.allocated : use[i].kind = "direct" =>
    LET chain == Chain(pool, i)
    IN /\ chain \subseteq pool.allocated \cap pool.sticky
       /\ \A j \in chain : pool.first[j] = pool.first[i] /\ pool.size[j] = pool.size[i]
       /\ \E j \in chain :
            /\ pool.secondary[j] \in Host
            /\ \A k \in chain \ {j} : pool.secondary[k] = SecChain - pool.secondary[j]

(* The static BAM pointers of d64ops.c name exactly the buffers allocated   *)
(* for the BAM: none is leaked, collected under the driver, shared with a   *)
(* channel or named twice, and the reference count is the number of images. *)
BamBuffersOwned ==
  /\ {i \in pool.allocated : pool.secondary[i] = SecBam}
       = {bam_buffer, bam_buffer2} \ {NULL}
  /\ bam_buffer2 # NULL => bam_buffer \notin {NULL, bam_buffer2}
  /\ \A i \in pool.allocated :
       (pool.secondary[i] = SecBam) <=> (use[i].kind = "bam" /\ i \notin pool.dirty)
  /\ bam_refcount = Cardinality(mounted)

(* Between two handlers nothing is waiting to be collected: every buffer    *)
(* left allocated is sticky, so the collection at the next BUS_CLEANUP can  *)
(* never take a buffer from under an open channel.                          *)
NothingUnsticky == pool.allocated \subseteq pool.sticky

(* A step touches one open channel or drops them all: using, opening,       *)
(* moving or closing one leaves every other one with the buffers it had, as *)
(* dirty as they were, so that a step along a chain cannot land in a         *)
(* neighbour, and a collection after a command cannot free one; only the    *)
(* sweeps reach several channels, and they leave none (iec.c, fileops.c).   *)
Touched(s) ==
  \E i \in pool.allocated :
    /\ pool.secondary[i] \in {s, SecChain - s}
    /\ \/ i \notin pool'.allocated
       \/ pool'.secondary[i] # pool.secondary[i]
       \/ i \in pool.dirty /\ i \notin pool'.dirty
       \/ i \notin pool.dirty /\ i \in pool'.dirty
       \/ use'[i] # use[i]

OneChannelTouched ==
  [][\A s, t \in Host :
       s # t /\ Touched(s) /\ Touched(t) => UserBuffers(pool') = {}]_vars
=============================================================================
