------------------------------ MODULE Buffers ------------------------------
(***************************************************************************)
(* The buffer pool of buffers.c, as a data structure: one record value     *)
(* stands for the array buffers[], the counter byte active_buffers and the *)
(* two LEDs, and each function of buffers.c is an operator from the pool   *)
(* before the call to the pool after it.  The 256 data bytes of a buffer   *)
(* are left out; so are the fields only one file type uses.  The channels  *)
(* and the callbacks that use the pool are in module Channels.             *)
(*                                                                         *)
(* Buffer ERRORBUFFER_IDX (secondary address 15) is never allocated, freed *)
(* or marked dirty through these functions, so the pool is the buffers     *)
(* 0 .. Count - 1 that can be.                                             *)
(***************************************************************************)
EXTENDS Integers, FiniteSets

CONSTANT Count  (* CONFIG_BUFFER_COUNT: the number of data buffers *)

ASSUME CountAssumption == Count \in 1 .. 15

Idx == 0 .. Count - 1

(* Secondary addresses of special significance, buffers.h. *)
SecSystem == 100
SecBam    == 101
SecChain  == 99
HostSec   == 0 .. 14
Secondary == 0 .. 104

(* The flags of free_multiple_buffers. *)
Flags         == {"CLEAN", "FREE_SYSTEM", "FREE_STICKY"}
FMB_USER       == {"FREE_STICKY"}
FMB_USER_CLEAN == {"FREE_STICKY", "CLEAN"}
FMB_UNSTICKY   == {"FREE_SYSTEM"}

(* uint8_t arithmetic. *)
Byte(n) == n % 256

(***************************************************************************)
(* The pool: buffers[] split into one component for each field.            *)
(***************************************************************************)
Pools ==
  [allocated : SUBSET Idx, sticky : SUBSET Idx, dirty : SUBSET Idx,
   secondary : [Idx -> Secondary],
   first     : [Idx -> Idx],
   size      : [Idx -> 0 .. Count],
   active    : 0 .. 255,
   busyLed   : BOOLEAN, dirtyLed : BOOLEAN]

buffers_init ==
  [allocated |-> {}, sticky |-> {}, dirty |-> {},
   secondary |-> [i \in Idx |-> 0],
   first     |-> [i \in Idx |-> i],
   size      |-> [i \in Idx |-> 0],
   active    |-> 0,
   busyLed   |-> FALSE, dirtyLed |-> FALSE]

Unallocated(p) == Idx \ p.allocated

(* Allocated buffers that are not for system use, and allocated dirty ones. *)
UserBuffers(p)  == {i \in p.allocated : p.secondary[i] < SecSystem}
DirtyBuffers(p) == p.allocated \cap p.dirty

check_free_buffers(p)     == p.active % 16 < Count
get_dirty_buffer_count(p) == p.active \div 16

(* The buffers of a chain made by alloc_linked_buffers, from any member. *)
ChainTooLong(p, i) ==   (* mutant: the last member is one too far *)
  IF p.size[i] > 1 THEN p.first[i] .. (p.first[i] + p.size[i]) ELSE {i}

Chain(p, i) ==
  IF p.size[i] > 1 THEN p.first[i] .. (p.first[i] + p.size[i] - 1) ELSE {i}

(* The buffer find_buffer returns; the caller asks Holds(p, s) first, the   *)
(* test for NULL.                                                           *)
Holds(p, s) == \E i \in p.allocated : p.secondary[i] = s

find_buffer(p, s) ==
  CHOOSE i \in p.allocated :
    /\ p.secondary[i] = s
    /\ \A j \in p.allocated : p.secondary[j] = s => i <= j

(***************************************************************************)
(* Allocation.                                                             *)
(***************************************************************************)

(* The lowest unallocated buffer: what both alloc_system_buffer and         *)
(* alloc_buffer take.                                                       *)
FirstFree(p) ==
  CHOOSE i \in Unallocated(p) : \A j \in Unallocated(p) : i <= j

(* memset clears every field but the data pointer. *)
alloc_specific_buffer(p, i) ==
  [p EXCEPT !.allocated = @ \cup {i},
            !.sticky    = @ \ {i},
            !.dirty     = @ \ {i},
            !.secondary[i] = SecSystem,
            !.first[i]  = i,
            !.size[i]   = 0]

(* alloc_system_buffer, and the assignment of its special secondary. *)
alloc_system_buffer(p, sec) ==
  LET i == FirstFree(p)
  IN [alloc_specific_buffer(p, i) EXCEPT !.secondary[i] = sec]

(* alloc_buffer, and the assignment of the channel's secondary address. *)
alloc_buffer(p, sec) ==
  LET i == FirstFree(p)
  IN [alloc_specific_buffer(p, i) EXCEPT
        !.secondary[i] = sec,
        !.active       = Byte(@ + 1),
        !.busyLed      = TRUE]

(* The start of the first run of n unallocated buffers. *)
Runs(p, n) == {s \in Idx : s + n <= Count /\ s .. (s + n - 1) \subseteq Unallocated(p)}

LinkedStart(p, n) == CHOOSE s \in Runs(p, n) : \A t \in Runs(p, n) : s <= t

(* alloc_linked_buffers; every member gets the secondary address sec. *)
alloc_linked_buffers(p, n, sec) ==
  LET start   == LinkedStart(p, n)
      members == start .. (start + n - 1)
  IN [p EXCEPT
        !.allocated = @ \cup members,
        !.sticky    = @ \ members,
        !.dirty     = @ \ members,
        !.secondary = [i \in Idx |-> IF i \in members THEN sec ELSE p.secondary[i]],
        !.first     = [i \in Idx |-> IF i \in members THEN start ELSE p.first[i]],
        !.size      = [i \in Idx |-> IF i \in members THEN n ELSE p.size[i]],
        !.active    = Byte(@ + n),
        !.busyLed   = TRUE]

(***************************************************************************)
(* Marks.                                                                  *)
(***************************************************************************)

stick_buffers(p, S)   == [p EXCEPT !.sticky = @ \cup S]

mark_buffer_dirty_again(p, i) ==   (* mutant: no test of the dirty flag *)
  [p EXCEPT !.dirty = @ \cup {i}, !.active = Byte(@ + 16), !.dirtyLed = TRUE]

mark_buffer_dirty(p, i) ==
  IF i \in p.dirty THEN p
  ELSE [p EXCEPT !.dirty    = @ \cup {i},
                 !.active   = Byte(@ + 16),
                 !.dirtyLed = TRUE]

mark_buffer_clean(p, i) ==
  IF i \notin p.dirty THEN p
  ELSE LET left == Byte(p.active - 16)
       IN [p EXCEPT !.dirty    = @ \ {i},
                    !.active   = left,
                    !.dirtyLed = IF left \div 16 = 0 THEN FALSE ELSE @]

(***************************************************************************)
(* Deallocation.                                                           *)
(***************************************************************************)

update_leds(p) ==
  [p EXCEPT !.busyLed = (p.active # 0), !.dirtyLed = (get_dirty_buffer_count(p) # 0)]

(* The calls of free_buffer for every member of S, in any order: each call  *)
(* skips a buffer that is not allocated, and the last call that is not      *)
(* skipped sets the LEDs.  The other fields keep their values in the code,  *)
(* where nothing reads them before the memset of the next allocation; here  *)
(* they go back to their initial values.                                    *)
free_buffers(p, S) ==
  LET freed == S \cap p.allocated
      dirty == freed \cap p.dirty
      user  == {i \in freed : p.secondary[i] < SecSystem}
  IN IF freed = {} THEN p
     ELSE update_leds(
            [p EXCEPT
               !.allocated = @ \ freed,
               !.sticky    = @ \ freed,
               !.dirty     = @ \ freed,
               !.secondary = [i \in Idx |-> IF i \in freed THEN 0 ELSE p.secondary[i]],
               !.first     = [i \in Idx |-> IF i \in freed THEN i ELSE p.first[i]],
               !.size      = [i \in Idx |-> IF i \in freed THEN 0 ELSE p.size[i]],
               !.active    = Byte(@ - 16 * Cardinality(dirty) - Cardinality(user))])

(* The buffers free_multiple_buffers frees. *)
Matching(p, flags) ==
  {i \in p.allocated :
     /\ "FREE_SYSTEM" \in flags \/ p.secondary[i] < SecSystem
     /\ "FREE_STICKY" \in flags \/ i \notin p.sticky}

free_multiple_buffers(p, flags) == free_buffers(p, Matching(p, flags))

(***************************************************************************)
(* What must hold of every pool.                                           *)
(***************************************************************************)

(* active_buffers is the number of user buffers plus 16 times the number of *)
(* dirty ones: both nibbles are exact.                                      *)
ActiveExact(p) ==
  p.active = Cardinality(UserBuffers(p)) + 16 * Cardinality(DirtyBuffers(p))

(* The dirty LED is on exactly while a buffer is dirty; the busy LED is on  *)
(* while a user buffer is allocated and off when no buffer is.              *)
LedsExact(p) ==
  /\ p.dirtyLed <=> DirtyBuffers(p) # {}
  /\ UserBuffers(p) # {} => p.busyLed
  /\ p.busyLed => p.allocated # {}
============================================================================
