------------------------------ MODULE Evacuator ------------------------------
(***************************************************************************)
(* The far-memory cache as its concurrent parts see it: mutator threads    *)
(* that dereference pointers inside deref scopes, prefetchers and the      *)
(* dynamic pager that swap objects in, and the GC master with its slaves   *)
(* that evacuates whole regions (aifm_changes/manager.cpp).                *)
(*                                                                         *)
(* What is abstracted.  A region holds SlotsPerRegion objects of one size; *)
(* an address is <<region, slot>>.  The circular buffers of the region     *)
(* manager are sets here, without order or capacity.  A remote address is  *)
(* named by the pointer it was allocated for and a number; the object id   *)
(* that a data structure gives an object, once for all, is number 0.       *)
(* "hot" stands for the test hot && !nt of swap_out.  Pointers are unique  *)
(* pointers.                                                               *)
(***************************************************************************)
EXTENDS Naturals, FiniteSets

CONSTANTS
  Ptr,             \* far-memory pointers (GenericUniquePtr)
  Vanilla,         \* those of kVanillaPtrDSID: the id is a remote address
  Region,          \* the regions of the local cache
  SlotsPerRegion,  \* objects that fit into one region
  Core,            \* cores, each with its core-local free region
  Mutator,         \* application threads; they work inside deref scopes
  Reallocator,     \* mutators that also replace objects (reallocate)
  Prefetcher,      \* threads that swap in inside a deref scope
  Pager,           \* threads that swap in outside any scope (dynamic_pager)
  Slave,           \* GC slave threads (marker and write-backer)
  Value,           \* contents of an object
  LowFree, HighFree, AlmostEmptyFree, \* free-region thresholds, as counts
  MaxPick,         \* num_regions_per_gc_round
  MaxIds,          \* bound: remote addresses a reallocated pointer goes through
  JunkId,          \* what get_object_id() yields on a present pointer
  NULL

Scoped == Mutator \cup Prefetcher
Swapper == Scoped \cup Pager
Thread == Swapper \cup Slave
RemoteId == Ptr \X (0..MaxIds)
ObjId == RemoteId \cup {JunkId}
Addr == Region \X (1..SlotsPerRegion)

ASSUME ConstantsOK ==
  /\ SlotsPerRegion \in Nat \ {0}
  /\ LowFree \in Nat /\ HighFree \in Nat /\ AlmostEmptyFree \in Nat
  /\ MaxPick \in Nat \ {0} /\ MaxIds \in Nat
  /\ Vanilla \subseteq Ptr
  /\ JunkId \notin Ptr \X Nat
  /\ NULL \notin Ptr \cup Region \cup Addr \cup Thread \cup ObjId \cup Value
  /\ Reallocator \subseteq Mutator
  /\ Mutator \cap (Prefetcher \cup Pager \cup Slave) = {}
  /\ Prefetcher \cap (Pager \cup Slave) = {}
  /\ Pager \cap Slave = {}

VARIABLES
  meta,     \* the metadata word of every pointer
  hdr,      \* object header at an address, NoObject where none was built
  data,     \* object data at an address
  far,      \* the remote device: contents by object id
  oid,      \* the id of every pointer's object, taken last
  lock,     \* ObjLocker: holder of the lock of every object id
  open,     \* core_local_free_regions_
  free, used, from, \* free_regions_, used_regions_, from_regions_
  fill,     \* slots handed out in a region (first_free_byte_idx_)
  pins,     \* the threads a region's ref_cnt counts
  almost_empty,
  expected_status,
  status,   \* nt status of a scoped thread, "out" outside a deref scope
  gc,       \* where the GC master is
  todo,     \* addresses the slaves have yet to scan in this phase
  loc,      \* per thread: program counter and local variables
  exited    \* the process called exit(-ENOSPC)

memVars == <<meta, hdr, data, far, oid>>
poolVars == <<open, free, used, fill, pins, almost_empty>>
gcVars == <<from, gc, todo, expected_status>>
vars == <<memVars, lock, poolVars, gcVars, status, loc, exited>>

-----------------------------------------------------------------------------
(* Pointer metadata (pointer.hpp).  Format I: a present pointer with the    *)
(* evacuation, hot and dirty bits and an address.  Format II: a far pointer *)
(* with the object id.                                                      *)

\* An object's header names its pointer and its id; is_freed tells a scan to
\* skip it.
Header == [ptr : Ptr \cup {NULL}, id : ObjId, freed : BOOLEAN]
NoObject == [ptr |-> NULL, id |-> JunkId, freed |-> FALSE]
NewObject(p, i) == [ptr |-> p, id |-> i, freed |-> FALSE]

Meta == [kind : {"null", "present", "far"}, evac : BOOLEAN, hot : BOOLEAN,
         dirty : BOOLEAN, addr : Addr \cup {NULL}, id : ObjId \cup {NULL}]

NullMeta == [kind |-> "null", evac |-> FALSE, hot |-> FALSE, dirty |-> FALSE,
             addr |-> NULL, id |-> NULL]
PresentMeta(a, hot, dirty) ==
  [kind |-> "present", evac |-> FALSE, hot |-> hot, dirty |-> dirty,
   addr |-> a, id |-> NULL]
FarMeta(i) == [kind |-> "far", evac |-> FALSE, hot |-> FALSE, dirty |-> FALSE,
               addr |-> NULL, id |-> i]

IsNull(p) == meta[p].kind = "null"
IsPresent(p) == meta[p].kind = "present"
IsEvacuation(p) == IsPresent(p) /\ meta[p].evac
IsDirty(p) == meta[p].dirty = TRUE

\* In the present format the bits of the object id hold part of the address.
GetObjectId(p) == IF meta[p].kind = "far" THEN meta[p].id ELSE JunkId

RegionOf(a) == a[1]

\* A thread's local state.  "after" is where a blocking allocation returns to.
Idle == [pc |-> "idle", ptr |-> NULL, id |-> NULL, addr |-> NULL,
         src |-> NULL, flag |-> FALSE, after |-> "idle"]
Goto(t, to) == loc' = [loc EXCEPT ![t].pc = to]
GoIdle(t) == loc' = [loc EXCEPT ![t] = Idle]
Access(t) == loc' = [loc EXCEPT ![t].pc = "access", ![t].src = NULL, ![t].after = "idle"]
InScope(t) == t \in Scoped /\ status[t] # "out"

Acquire(t, i) == lock[i] = NULL /\ lock' = [lock EXCEPT ![i] = t]
Unlock(t) == lock' = [lock EXCEPT ![loc[t].id] = NULL]

-----------------------------------------------------------------------------
(* Allocation of a local object.                                            *)

\* Mutant of HasRoom: one object too many fits.
HasRoomOffByOne(c) == open[c] # NULL /\ fill[open[c]] <= SlotsPerRegion

HasRoom(c) == open[c] # NULL /\ fill[open[c]] < SlotsPerRegion

\* Mutant of Bump: the region's ref_cnt is not incremented.
BumpUnpinned(t, r, next) ==
  /\ fill' = [fill EXCEPT ![r] = @ + 1]
  /\ loc' = [loc EXCEPT ![t].addr = <<r, fill[r] + 1>>, ![t].pc = next]
  /\ UNCHANGED pins

\* allocate_object takes the next slot and a reference on the region.
Bump(t, r, next) ==
  /\ fill' = [fill EXCEPT ![r] = @ + 1]
  /\ pins' = [pins EXCEPT ![r] = @ \cup {t}]
  /\ loc' = [loc EXCEPT ![t].addr = <<r, fill[r] + 1>>, ![t].pc = next]

DropPin(t) == pins' = [pins EXCEPT ![RegionOf(loc[t].addr)] = @ \ {t}]

\* gc_check, run on return when the core-local region was refilled.
GCCheck ==
  almost_empty' = (almost_empty \/ Cardinality(free') <= AlmostEmptyFree)

\* The allocation succeeds, from the core's region or after a refill, which
\* first retires the full region to the used ones.
AllocateLocal(t, c, refilled, next) ==
  \/ /\ HasRoom(c)
     /\ Bump(t, open[c], next)
     /\ UNCHANGED <<open, free, used>>
     /\ IF refilled THEN GCCheck ELSE UNCHANGED almost_empty
  \/ \E r \in free :
        /\ ~HasRoom(c)
        /\ used' = used \cup ({open[c]} \ {NULL})
        /\ open' = [open EXCEPT ![c] = r]
        /\ free' = free \ {r}
        /\ Bump(t, r, next)
        /\ GCCheck

\* Mutant of RefillFails: the full region is dropped, not retired.
RefillFailsLosingRegion(c) ==
  /\ ~HasRoom(c) /\ free = {}
  /\ open' = [open EXCEPT ![c] = NULL]
  /\ UNCHANGED <<used, free, fill, pins>>

\* The refill finds no free region; the full one has been retired all the same.
RefillFails(c) ==
  /\ ~HasRoom(c) /\ free = {}
  /\ used' = used \cup ({open[c]} \ {NULL})
  /\ open' = [open EXCEPT ![c] = NULL]
  /\ UNCHANGED <<free, fill, pins>>

\* allocate_local_object retries until it succeeds and waits for the GC while
\* the cache is almost empty.
AllocateBlocking(t, c) ==
  /\ loc[t].pc \in {"alloc", "realloc"}
  /\ AllocateLocal(t, c, loc[t].pc = "realloc", loc[t].after)
  /\ UNCHANGED <<memVars, lock, gcVars, status, exited>>

AllocateFails(t, c) ==
  /\ loc[t].pc \in {"alloc", "realloc"}
  /\ RefillFails(c)
  /\ \/ ~almost_empty /\ Goto(t, "realloc") /\ UNCHANGED exited
     \/ almost_empty /\ ~InScope(t) /\ Goto(t, "wait") /\ UNCHANGED exited
     \/ almost_empty /\ InScope(t) /\ exited' = TRUE /\ UNCHANGED loc
  /\ UNCHANGED <<memVars, lock, almost_empty, gcVars, status>>

WaitForGC(t) ==
  /\ loc[t].pc = "wait" /\ ~almost_empty
  /\ Goto(t, "realloc")
  /\ UNCHANGED <<memVars, lock, poolVars, gcVars, status, exited>>

\* allocate_local_object_nb for a mutator: one attempt.  Without a free region
\* nothing was allocated, and a mutator in a scope keeps what it has.
AllocateOnce(m, c) ==
  /\ loc[m].pc = "nb_alloc"
  /\ \/ AllocateLocal(m, c, FALSE, loc[m].after)
     \/ /\ RefillFails(c) /\ GCCheck
        /\ IF loc[m].after = "build" THEN GoIdle(m) ELSE Access(m)
  /\ UNCHANGED <<memVars, lock, gcVars, status, exited>>

-----------------------------------------------------------------------------
(* allocate_generic_unique_ptr and its non-blocking variant, outside deref   *)
(* scopes.                                                                  *)

AllocatePtr(m, p, how) ==
  /\ loc[m].pc = "idle" /\ IsNull(p)
  /\ \A n \in Mutator : loc[n].ptr # p
  /\ loc' = [loc EXCEPT ![m].pc = how, ![m].ptr = p, ![m].after = "build"]
  /\ UNCHANGED <<memVars, lock, poolVars, gcVars, status, exited>>

\* The pointer becomes present and dirty; the region was pinned until now and
\* the pointer is not registered yet, so nobody sees the steps in between.
BuildObject(m) ==
  /\ loc[m].pc = "build"
  /\ LET p == loc[m].ptr  a == loc[m].addr IN
     /\ meta' = [meta EXCEPT ![p] = PresentMeta(a, TRUE, TRUE)]
     /\ hdr' = [hdr EXCEPT ![a] = NewObject(p, oid[p])]
  /\ DropPin(m) /\ GoIdle(m)
  /\ UNCHANGED <<data, far, oid, lock, open, free, used, fill, almost_empty,
                 gcVars, status, exited>>

-----------------------------------------------------------------------------
(* swap_in                                                                  *)

\* The caller of swap_in continues: a mutator dereferences again, the others
\* are done with this pointer.
Return(t) ==
  loc' = [loc EXCEPT ![t] =
            IF t \in Pager THEN Idle
            ELSE [Idle EXCEPT !.pc = IF t \in Mutator THEN "deref" ELSE "leave",
                              !.ptr = loc[t].ptr, !.flag = loc[t].flag]]

SwapInReadId(t) ==
  /\ loc[t].pc = "si_read"
  /\ loc' = [loc EXCEPT ![t].id = GetObjectId(loc[t].ptr), ![t].pc = "si_check"]
  /\ UNCHANGED <<memVars, lock, poolVars, gcVars, status, exited>>

\* The present bit is read after the id (rmb).
SwapInCheck(t) ==
  /\ loc[t].pc = "si_check"
  /\ IF IsPresent(loc[t].ptr)
     THEN Return(t)
     ELSE Goto(t, "si_lock")
  /\ UNCHANGED <<memVars, lock, poolVars, gcVars, status, exited>>

\* Mutant of SwapInLock: the object lock is not taken.
SwapInLockFree(t) ==
  /\ loc[t].pc = "si_lock"
  /\ Goto(t, "si_recheck")
  /\ UNCHANGED <<memVars, lock, poolVars, gcVars, status, exited>>

SwapInLock(t) ==
  /\ loc[t].pc = "si_lock"
  /\ Acquire(t, loc[t].id)
  /\ Goto(t, "si_recheck")
  /\ UNCHANGED <<memVars, poolVars, gcVars, status, exited>>

\* Mutant of SwapInRecheck: presence is not tested again under the lock.
SwapInNoRecheck(t) ==
  /\ loc[t].pc = "si_recheck"
  /\ loc' = [loc EXCEPT ![t].pc = "alloc", ![t].after = "fetch"]
  /\ UNCHANGED <<memVars, lock, poolVars, gcVars, status, exited>>

SwapInRecheck(t) ==
  /\ loc[t].pc = "si_recheck"
  /\ IF IsPresent(loc[t].ptr)
     THEN Unlock(t) /\ Return(t)
     ELSE /\ loc' = [loc EXCEPT ![t].pc = "alloc", ![t].after = "fetch"]
          /\ UNCHANGED lock
  /\ UNCHANGED <<memVars, poolVars, gcVars, status, exited>>

\* read_object fills the data, then the header is initialised.
SwapInFetch(t) ==
  /\ loc[t].pc = "fetch"
  /\ LET a == loc[t].addr  i == loc[t].id IN
     /\ \E v \in Value : /\ i # JunkId => v = far[i]
                         /\ data' = [data EXCEPT ![a] = v]
     /\ hdr' = [hdr EXCEPT ![a] = NewObject(loc[t].ptr, i)]
  /\ Goto(t, "si_present")
  /\ UNCHANGED <<meta, far, oid, lock, poolVars, gcVars, status, exited>>

SwapInPresent(t) ==
  /\ loc[t].pc = "si_present"
  /\ meta' = [meta EXCEPT ![loc[t].ptr] = PresentMeta(loc[t].addr, FALSE, FALSE)]
  /\ Goto(t, "si_finish")
  /\ UNCHANGED <<hdr, data, far, oid, lock, poolVars, gcVars, status, exited>>

\* Mutant of SwapInFinish: the object stays locked.
SwapInFinishLeakingLock(t) ==
  /\ loc[t].pc = "si_finish"
  /\ DropPin(t) /\ Return(t)
  /\ UNCHANGED <<memVars, lock, open, free, used, fill, almost_empty, gcVars, status,
                 exited>>

SwapInFinish(t) ==
  /\ loc[t].pc = "si_finish"
  /\ DropPin(t) /\ Unlock(t) /\ Return(t)
  /\ UNCHANGED <<memVars, open, free, used, fill, almost_empty, gcVars, status,
                 exited>>

SwapIn(t) == \/ SwapInReadId(t) \/ SwapInCheck(t) \/ SwapInLock(t)
             \/ SwapInRecheck(t) \/ SwapInFetch(t) \/ SwapInPresent(t)
             \/ SwapInFinish(t)

-----------------------------------------------------------------------------
(* Deref scopes and dereferences (AIFM's DerefScope and GenericFarMemPtr,   *)
(* as the code here relies on them), the prefetcher, and the dynamic pager. *)

\* A unique pointer has one writer or several readers at a time.
MayUse(m, p, write) ==
  \A n \in Mutator \ {m} :
     InScope(n) /\ loc[n].ptr = p => ~write /\ ~loc[n].flag

EnterScope(t) == status' = [status EXCEPT ![t] = expected_status]

ScopeEnter(m, p, write) ==
  /\ loc[m].pc = "idle" /\ ~almost_empty
  /\ ~IsNull(p) /\ MayUse(m, p, write)
  /\ EnterScope(m)
  /\ loc' = [loc EXCEPT ![m].pc = "deref", ![m].ptr = p, ![m].flag = write]
  /\ UNCHANGED <<memVars, lock, poolVars, gcVars, exited>>

DerefFar(t) ==
  /\ loc[t].pc = "deref" /\ ~IsPresent(loc[t].ptr)
  /\ Goto(t, "si_read")
  /\ UNCHANGED <<memVars, lock, poolVars, gcVars, status, exited>>

\* Mutant of DerefPresent: a dereference for writing leaves the object clean.
DerefPresentClean(m) ==
  LET p == loc[m].ptr IN
  /\ loc[m].pc = "deref" /\ IsPresent(p) /\ ~IsEvacuation(p)
  /\ meta' = [meta EXCEPT ![p].hot = TRUE]
  /\ loc' = [loc EXCEPT ![m].addr = meta[p].addr, ![m].pc = "access"]
  /\ UNCHANGED <<hdr, data, far, oid, lock, poolVars, gcVars, status, exited>>

\* The raw address stays valid until the scope ends.
DerefPresent(m) ==
  LET p == loc[m].ptr IN
  /\ loc[m].pc = "deref" /\ IsPresent(p) /\ ~IsEvacuation(p)
  /\ meta' = [meta EXCEPT ![p].hot = TRUE, ![p].dirty = @ \/ loc[m].flag]
  /\ loc' = [loc EXCEPT ![m].addr = meta[p].addr, ![m].pc = "access"]
  /\ UNCHANGED <<hdr, data, far, oid, lock, poolVars, gcVars, status, exited>>

\* mutator_migrate_object: the mutator moves an object that is being evacuated.
MigrateBegin(m) ==
  LET p == loc[m].ptr  old == meta[p].addr IN
  /\ loc[m].pc = "deref" /\ IsEvacuation(p)
  /\ Acquire(m, hdr[old].id)
  /\ loc' = [loc EXCEPT ![m].id = hdr[old].id, ![m].src = old, ![m].pc = "alloc",
                        ![m].after = "copy"]
  /\ UNCHANGED <<memVars, poolVars, gcVars, status, exited>>

MigrateCopy(m) ==
  LET p == loc[m].ptr  old == loc[m].src  a == loc[m].addr IN
  /\ loc[m].pc = "copy"
  /\ data' = [data EXCEPT ![a] = data[old]]
  /\ hdr' = [hdr EXCEPT ![a] = hdr[old], ![old].freed = TRUE]
  /\ meta' = [meta EXCEPT ![p] = PresentMeta(a, meta[p].hot, meta[p].dirty)]
  /\ DropPin(m) /\ Unlock(m)
  /\ loc' = [loc EXCEPT ![m] = [Idle EXCEPT !.pc = "deref", !.ptr = p,
                                            !.flag = loc[m].flag]]
  /\ UNCHANGED <<far, oid, open, free, used, fill, almost_empty, gcVars, status, exited>>

Store(m, v) ==
  /\ loc[m].pc = "access" /\ loc[m].flag
  /\ data' = [data EXCEPT ![loc[m].addr] = v]
  /\ UNCHANGED <<meta, hdr, far, oid, lock, poolVars, gcVars, status, loc, exited>>

\* The remote addresses left to reallocate p, when it takes one for its id.
HasFreshId(p) == p \in Vanilla => oid[p][2] < MaxIds
FreshId(p) == <<p, oid[p][2] + 1>>

\* reallocate_generic_unique_ptr_nb: the object behind a dereferenced pointer is
\* replaced by a new one with contents of its own.
ReallocateBegin(m) ==
  /\ loc[m].pc = "access" /\ loc[m].flag /\ HasFreshId(loc[m].ptr)
  /\ loc' = [loc EXCEPT ![m].src = loc[m].addr, ![m].pc = "nb_alloc",
                        ![m].after = "re_init"]
  /\ UNCHANGED <<memVars, lock, poolVars, gcVars, status, exited>>

\* It is published before the old one is freed; nobody sees it half built, as its
\* region is pinned.  It keeps the old one's id, but for a vanilla pointer:
\* allocate_remote_object finds it a new one.
ReallocateInit(m, v) ==
  LET p == loc[m].ptr  a == loc[m].addr
      i == IF p \in Vanilla THEN FreshId(p) ELSE hdr[loc[m].src].id
  IN
  /\ loc[m].pc = "re_init" /\ HasFreshId(p)
  /\ data' = [data EXCEPT ![a] = v]
  /\ meta' = [meta EXCEPT ![p] = PresentMeta(a, TRUE, TRUE)]
  /\ hdr' = [hdr EXCEPT ![a] = NewObject(p, i)]
  /\ oid' = IF p \in Vanilla THEN [oid EXCEPT ![p] = i] ELSE oid
  /\ Goto(m, "re_free")
  /\ UNCHANGED <<far, lock, poolVars, gcVars, status, exited>>

\* Mutant of ReallocateFree: the old object is not freed.
ReallocateLeak(m) ==
  /\ loc[m].pc = "re_free"
  /\ DropPin(m) /\ Access(m)
  /\ UNCHANGED <<memVars, lock, open, free, used, fill,
                 almost_empty, gcVars, status, exited>>

ReallocateFree(m) ==
  /\ loc[m].pc = "re_free"
  /\ hdr' = [hdr EXCEPT ![loc[m].src].freed = TRUE]
  /\ DropPin(m) /\ Access(m)
  /\ UNCHANGED <<meta, data, far, oid, lock, open, free, used, fill,
                 almost_empty, gcVars, status, exited>>

ScopeExit(t) ==
  /\ loc[t].pc \in {"access", "leave"}
  /\ status' = [status EXCEPT ![t] = "out"]
  /\ GoIdle(t)
  /\ UNCHANGED <<memVars, lock, poolVars, gcVars, exited>>

\* The prefetcher swaps in what is not present, and uses no raw address.
Prefetch(f, p) ==
  /\ loc[f].pc = "idle" /\ ~almost_empty /\ ~IsNull(p)
  /\ EnterScope(f)
  /\ loc' = [loc EXCEPT ![f].pc = "deref", ![f].ptr = p]
  /\ UNCHANGED <<memVars, lock, poolVars, gcVars, exited>>

PrefetchSkip(f) ==
  /\ loc[f].pc = "deref" /\ IsPresent(loc[f].ptr)
  /\ Goto(f, "leave")
  /\ UNCHANGED <<memVars, lock, poolVars, gcVars, status, exited>>

\* dynamic_pager visits a registered pointer and calls swap_in, in no scope.
PagerVisit(g, p) ==
  /\ loc[g].pc = "idle" /\ ~IsNull(p) /\ ~IsPresent(p)
  /\ loc' = [loc EXCEPT ![g].pc = "si_read", ![g].ptr = p]
  /\ UNCHANGED <<memVars, lock, poolVars, gcVars, status, exited>>

-----------------------------------------------------------------------------
(* The GC master: gc_cache.                                                 *)

OtherFlag == IF expected_status = "flag0" THEN "flag1" ELSE "flag0"
Objects(rs) == {a \in Addr : RegionOf(a) \in rs /\ hdr[a].ptr # NULL}
SlavesIdle == \A s \in Slave : loc[s].pc = "idle"
gcOnly == <<memVars, lock, open, fill, pins, status, loc, exited>>

GCStart ==
  /\ gc = "off" /\ Cardinality(free) <= LowFree
  /\ gc' = "loop"
  /\ UNCHANGED <<gcOnly, free, used, from, todo, expected_status, almost_empty>>

GCLoop ==
  /\ gc = "loop"
  /\ gc' = IF Cardinality(free) >= HighFree THEN "off" ELSE "pick"
  /\ UNCHANGED <<gcOnly, free, used, from, todo, expected_status, almost_empty>>

\* Mutant of GCPick: the region's ref_cnt is ignored.
GCPickPinned(r) ==
  /\ gc = "pick" /\ Cardinality(from) < MaxPick
  /\ r \in used
  /\ used' = used \ {r}
  /\ from' = from \cup {r}
  /\ UNCHANGED <<gcOnly, free, gc, todo, expected_status, almost_empty>>

\* Phase 1.  Only a region whose ref_cnt is 0 is popped.
GCPick(r) ==
  /\ gc = "pick" /\ Cardinality(from) < MaxPick
  /\ r \in used /\ pins[r] = {}
  /\ used' = used \ {r}
  /\ from' = from \cup {r}
  /\ UNCHANGED <<gcOnly, free, gc, todo, expected_status, almost_empty>>

\* pop_used_region gives up when the regions it looks at are pinned.
GCPickDone ==
  /\ gc = "pick"
  /\ Cardinality(from) = MaxPick \/ used = {} \/ \E r \in used : pins[r] # {}
  /\ IF from = {} THEN gc' = "loop" /\ UNCHANGED todo
                  ELSE gc' = "mark" /\ todo' = Objects(from)
  /\ UNCHANGED <<gcOnly, free, used, from, expected_status, almost_empty>>

\* Mutant of GCFlip: the expected status is not flipped.
GCFlipForgotten ==
  /\ gc = "mark" /\ todo = {} /\ SlavesIdle
  /\ gc' = "observe"
  /\ UNCHANGED <<gcOnly, free, used, from, todo, expected_status, almost_empty>>

\* Phase 2 is over when the slaves have scanned everything; phase 3 begins:
\* wait_mutators_observation.
GCFlip ==
  /\ gc = "mark" /\ todo = {} /\ SlavesIdle
  /\ expected_status' = OtherFlag
  /\ gc' = "observe"
  /\ UNCHANGED <<gcOnly, free, used, from, todo, almost_empty>>

\* Mutant of GCObserved: the mutators are not waited for.
GCObservedAtOnce ==
  /\ gc = "observe"
  /\ gc' = "writeback"
  /\ todo' = Objects(from)
  /\ UNCHANGED <<gcOnly, free, used, from, expected_status, almost_empty>>

\* Phase 3 ends when no thread is left with the old status; phase 4 begins.
GCObserved ==
  /\ gc = "observe"
  /\ \A t \in Scoped : status[t] # OtherFlag
  /\ gc' = "writeback"
  /\ todo' = Objects(from)
  /\ UNCHANGED <<gcOnly, free, used, from, expected_status, almost_empty>>

\* Mutant of GCWrittenBack: slaves may still be busy with their last objects.
GCWrittenBackEarly ==
  /\ gc = "writeback" /\ todo = {}
  /\ gc' = "release"
  /\ UNCHANGED <<gcOnly, free, used, from, todo, expected_status, almost_empty>>

\* Phase 4 ends when the slaves have exited.
GCWrittenBack ==
  /\ gc = "writeback" /\ todo = {} /\ SlavesIdle
  /\ gc' = "release"
  /\ UNCHANGED <<gcOnly, free, used, from, todo, expected_status, almost_empty>>

\* Phase 5.  push_free_region resets the region.
GCRelease(r) ==
  /\ gc = "release" /\ r \in from
  /\ from' = from \ {r}
  /\ free' = free \cup {r}
  /\ fill' = [fill EXCEPT ![r] = 0]
  /\ pins' = [pins EXCEPT ![r] = {}]
  /\ hdr' = [a \in Addr |-> IF RegionOf(a) = r THEN NoObject ELSE hdr[a]]
  /\ UNCHANGED <<meta, data, far, oid, lock, open, used, almost_empty, gc, todo,
                 expected_status, status, loc, exited>>

\* Mutant of GCRoundDone: almost_empty is never reset.
GCRoundDoneKeepingFlag ==
  /\ gc = "release" /\ from = {}
  /\ gc' = "loop"
  /\ UNCHANGED <<gcOnly, free, used, from, todo, expected_status, almost_empty>>

GCRoundDone ==
  /\ gc = "release" /\ from = {}
  /\ almost_empty' = (almost_empty /\ Cardinality(free) <= AlmostEmptyFree)
  /\ gc' = "loop"
  /\ UNCHANGED <<gcOnly, free, used, from, todo, expected_status>>

-----------------------------------------------------------------------------
(* The GC slaves: GCParallelMarker, GCParallelWriteBacker, swap_out.        *)

SlaveScan(s, a) ==
  /\ gc \in {"mark", "writeback"} /\ loc[s].pc = "idle" /\ a \in todo
  /\ todo' = todo \ {a}
  /\ IF hdr[a].freed
     THEN UNCHANGED loc
     ELSE loc' = [loc EXCEPT ![s].pc = "lock", ![s].src = a, ![s].id = hdr[a].id]
  /\ UNCHANGED <<memVars, lock, poolVars, from, gc, expected_status, status, exited>>

SlaveLock(s) ==
  /\ loc[s].pc = "lock"
  /\ Acquire(s, loc[s].id)
  /\ Goto(s, gc)
  /\ UNCHANGED <<memVars, poolVars, gcVars, status, exited>>

\* Mutant of SetEvacuation: the marker leaves the object locked.
SetEvacuationLeakingLock(s) ==
  LET o == hdr[loc[s].src] IN
  /\ loc[s].pc = "mark"
  /\ meta' = IF o.freed THEN meta ELSE [meta EXCEPT ![o.ptr].evac = TRUE]
  /\ GoIdle(s)
  /\ UNCHANGED <<hdr, data, far, oid, lock, poolVars, gcVars, status, exited>>

SetEvacuation(s) ==
  LET o == hdr[loc[s].src] IN
  /\ loc[s].pc = "mark"
  /\ meta' = IF o.freed THEN meta ELSE [meta EXCEPT ![o.ptr].evac = TRUE]
  /\ Unlock(s) /\ GoIdle(s)
  /\ UNCHANGED <<hdr, data, far, oid, poolVars, gcVars, status, exited>>

\* swap_out: nothing to do, or copy a hot object, or write it back.
SwapOutSkip(s) ==
  LET o == hdr[loc[s].src] IN
  /\ loc[s].pc = "writeback"
  /\ o.freed \/ ~meta[o.ptr].evac
  /\ Unlock(s) /\ GoIdle(s)
  /\ UNCHANGED <<memVars, poolVars, gcVars, status, exited>>

\* Mutant of SwapOutDecide: the dirty bit is not looked at.
SwapOutDecideClean(s) ==
  LET o == hdr[loc[s].src] IN
  /\ loc[s].pc = "writeback"
  /\ ~o.freed /\ meta[o.ptr].evac
  /\ loc' = [loc EXCEPT ![s].ptr = o.ptr,
                        ![s].pc = IF meta[o.ptr].hot /\ ~almost_empty
                                  THEN "so_alloc" ELSE "so_write"]
  /\ UNCHANGED <<memVars, lock, poolVars, gcVars, status, exited>>

SwapOutDecide(s) ==
  LET o == hdr[loc[s].src] IN
  /\ loc[s].pc = "writeback"
  /\ ~o.freed /\ meta[o.ptr].evac
  /\ loc' = [loc EXCEPT ![s].ptr = o.ptr, ![s].flag = IsDirty(o.ptr),
                        ![s].pc = IF meta[o.ptr].hot /\ ~almost_empty
                                  THEN "so_alloc" ELSE "so_write"]
  /\ UNCHANGED <<memVars, lock, poolVars, gcVars, status, exited>>

\* allocate_local_object_nb: without a free region the object is written back.
SwapOutAllocate(s, c) ==
  /\ loc[s].pc = "so_alloc"
  /\ \/ AllocateLocal(s, c, FALSE, "so_copy")
     \/ RefillFails(c) /\ GCCheck /\ Goto(s, "so_write")
  /\ UNCHANGED <<memVars, lock, gcVars, status, exited>>

SwapOutCopy(s) ==
  LET p == loc[s].ptr  a == loc[s].addr IN
  /\ loc[s].pc = "so_copy"
  /\ data' = [data EXCEPT ![a] = data[loc[s].src]]
  /\ hdr' = [hdr EXCEPT ![a] = hdr[loc[s].src]]
  /\ meta' = [meta EXCEPT ![p] = PresentMeta(a, FALSE, meta[p].dirty)]
  /\ DropPin(s) /\ Unlock(s) /\ GoIdle(s)
  /\ UNCHANGED <<far, oid, open, free, used, fill, almost_empty, gcVars, status, exited>>

SwapOutWrite(s) ==
  /\ loc[s].pc = "so_write"
  /\ far' = IF loc[s].flag THEN [far EXCEPT ![loc[s].id] = data[loc[s].src]] ELSE far
  /\ Goto(s, "so_meta")
  /\ UNCHANGED <<meta, hdr, data, oid, lock, poolVars, gcVars, status, exited>>

SwapOutMeta(s) ==
  /\ loc[s].pc = "so_meta"
  /\ meta' = [meta EXCEPT ![loc[s].ptr] = FarMeta(loc[s].id)]
  /\ Unlock(s) /\ GoIdle(s)
  /\ UNCHANGED <<hdr, data, far, oid, poolVars, gcVars, status, exited>>

-----------------------------------------------------------------------------
Init ==
  /\ meta = [p \in Ptr |-> NullMeta]
  /\ hdr = [a \in Addr |-> NoObject]
  /\ \E v \in Value : data = [a \in Addr |-> v] /\ far = [i \in ObjId |-> v]
  /\ oid = [p \in Ptr |-> <<p, 0>>]
  /\ lock = [i \in ObjId |-> NULL]
  /\ open \in {f \in [Core -> Region] : \A c, d \in Core : f[c] = f[d] => c = d}
  /\ free = Region \ {open[c] : c \in Core}
  /\ used = {} /\ from = {} /\ todo = {}
  /\ fill = [r \in Region |-> 0]
  /\ pins = [r \in Region |-> {}]
  /\ almost_empty = FALSE /\ exited = FALSE
  /\ gc = "off" /\ expected_status = "flag0"
  /\ status = [t \in Scoped |-> "out"]
  /\ loc = [t \in Thread |-> Idle]

MutatorStep(m) ==
  \/ \E p \in Ptr : \/ \E how \in {"alloc", "nb_alloc"} : AllocatePtr(m, p, how)
                    \/ \E w \in BOOLEAN : ScopeEnter(m, p, w)
  \/ (\E c \in Core : AllocateOnce(m, c)) \/ BuildObject(m)
  \/ DerefPresent(m) \/ MigrateBegin(m) \/ MigrateCopy(m)
  \/ (m \in Reallocator /\ ReallocateBegin(m)) \/ ReallocateFree(m)
  \/ \E v \in Value : Store(m, v) \/ ReallocateInit(m, v)

SwapperStep(t) ==
  \/ SwapIn(t) \/ WaitForGC(t)
  \/ \E c \in Core : AllocateBlocking(t, c) \/ AllocateFails(t, c)

SlaveStep(s) ==
  \/ \E a \in Addr : SlaveScan(s, a)
  \/ SlaveLock(s) \/ SetEvacuation(s)
  \/ SwapOutSkip(s) \/ SwapOutDecide(s)
  \/ \E c \in Core : SwapOutAllocate(s, c)
  \/ SwapOutCopy(s) \/ SwapOutWrite(s) \/ SwapOutMeta(s)

MasterStep ==
  \/ GCStart \/ GCLoop \/ GCPickDone \/ GCFlip \/ GCObserved
  \/ GCWrittenBack \/ GCRoundDone
  \/ \E r \in Region : GCPick(r) \/ GCRelease(r)

\* exit() ends the process.
Exited == exited /\ UNCHANGED vars

Next ==
  \/ /\ ~exited
     /\ \/ \E m \in Mutator : MutatorStep(m)
        \/ \E t \in Swapper : SwapperStep(t)
        \/ \E t \in Scoped : DerefFar(t) \/ ScopeExit(t)
        \/ \E f \in Prefetcher : PrefetchSkip(f) \/ \E p \in Ptr : Prefetch(f, p)
        \/ \E g \in Pager, p \in Ptr : PagerVisit(g, p)
        \/ \E s \in Slave : SlaveStep(s)
        \/ MasterStep
  \/ Exited

Spec == Init /\ [][Next]_vars

\* What a thread does once it has begun: it leaves its scope in the end, since
\* scopes are a few statements long.  Beginning is up to the application.
Progress(t) ==
  /\ ~exited
  /\ \/ t \in Mutator /\ (\/ BuildObject(t) \/ DerefPresent(t)
                           \/ MigrateBegin(t) \/ MigrateCopy(t)
                           \/ \E c \in Core : AllocateOnce(t, c)
                           \/ \E v \in Value : ReallocateInit(t, v)
                           \/ ReallocateFree(t))
     \/ t \in Prefetcher /\ PrefetchSkip(t)
     \/ t \in Scoped /\ (DerefFar(t) \/ ScopeExit(t))
     \/ t \in Swapper /\ SwapperStep(t)
     \/ t \in Slave /\ SlaveStep(t)

Fairness == /\ \A t \in Thread : WF_vars(Progress(t))
            /\ WF_vars(~exited /\ MasterStep)
FairSpec == Spec /\ Fairness

-----------------------------------------------------------------------------
(* Properties.                                                              *)

PC == {"idle", "alloc", "realloc", "wait", "nb_alloc", "build", "fetch", "copy", "deref",
       "access", "leave", "si_read", "si_check", "si_lock", "si_recheck",
       "si_present", "si_finish", "lock", "mark", "writeback", "so_alloc",
       "so_copy", "so_write", "so_meta", "re_init", "re_free"}
Local == [pc : PC, ptr : Ptr \cup {NULL}, id : ObjId \cup {NULL},
          addr : Addr \cup {NULL}, src : Addr \cup {NULL}, flag : BOOLEAN,
          after : {"idle", "build", "fetch", "copy", "re_init"}]

\* The type invariant.  Its one delicate conjunct is fill: allocate_object
\* never hands out more of a region than it holds.
TypeOK ==
  /\ meta \in [Ptr -> Meta]
  /\ hdr \in [Addr -> Header]
  /\ data \in [Addr -> Value] /\ far \in [ObjId -> Value]
  /\ oid \in [Ptr -> RemoteId]
  /\ lock \in [ObjId -> Thread \cup {NULL}]
  /\ open \in [Core -> Region \cup {NULL}]
  /\ free \subseteq Region /\ used \subseteq Region /\ from \subseteq Region
  /\ fill \in [Region -> 0..SlotsPerRegion]
  /\ pins \in [Region -> SUBSET Thread]
  /\ almost_empty \in BOOLEAN /\ exited \in BOOLEAN
  /\ expected_status \in {"flag0", "flag1"}
  /\ status \in [Scoped -> {"out", "flag0", "flag1"}]
  /\ gc \in {"off", "loop", "pick", "mark", "observe", "writeback", "release"}
  /\ todo \subseteq Addr
  /\ loc \in [Thread -> Local]

\* No region is lost and none is in two places: try_refill moves regions from
\* the free ones to a core and from there to the used ones, the GC master from
\* the used ones through from_regions_ back to the free ones.
RegionsPartitioned ==
  /\ Region = free \cup used \cup from \cup ({open[c] : c \in Core} \ {NULL})
  /\ free \cap (used \cup from) = {} /\ used \cap from = {}
  /\ \A c \in Core : open[c] \notin free \cup used \cup from
  /\ \A c, d \in Core : open[c] = open[d] /\ open[c] # NULL => c = d

\* "The region can only be GCed when the ref_cnt goes to 0" (region.hpp): from
\* the time the master picks a region until it is handed out again, no thread
\* is between allocate_object and its atomic_inc_ref_cnt(-1) on that region.
PinnedNotReclaimed == \A r \in free \cup from : pins[r] = {}

\* What a load through p would return: the object the metadata names.
Current(p) == IF IsPresent(p) THEN data[meta[p].addr] ELSE far[meta[p].id]

\* The raw address a deref returned stays good until the scope ends, whatever
\* the collector, the prefetchers and the pager do meanwhile: its region is not
\* handed out again, and the pointer still leads to the same contents.
HandleValid ==
  \A m \in Mutator : loc[m].pc = "access" =>
     /\ RegionOf(loc[m].addr) \notin free
     /\ data[loc[m].addr] = Current(loc[m].ptr)

\* swap_out writes an object back only if it is dirty; so a present object that
\* is not dirty must equal its remote copy, through moves, swap-ins and the
\* copies made by the GC.
CleanMatchesFar ==
  \A p \in Ptr : IsPresent(p) /\ ~IsDirty(p) => data[meta[p].addr] = far[oid[p]]

\* When push_cache_free_region gives a region away nothing points into it: every
\* object of it has been migrated, copied or written back by then.
ReleaseUnreferenced ==
  \A p \in Ptr : IsPresent(p) =>
     RegionOf(meta[p].addr) \notin free \cup (IF gc = "release" THEN from ELSE {})

\* Only a store or a reallocation of the application through p changes what p leads to: swap_in,
\* swap_out, mutator_migrate_object and the reuse of regions never do.
ContentStable ==
  [][\A p \in Ptr : ~IsNull(p) /\ Current(p)' # Current(p)
        => \E m \in Mutator, v \in Value :
              (Store(m, v) \/ ReallocateInit(m, v)) /\ loc[m].ptr = p]_vars

\* The id that swap_in reads before it takes the object lock, and fetches by
\* afterwards, is the id of the pointer's own object: "universal object ID (used
\* when swapping in)" (pointer.hpp:22).
SwapInUsesOwnId ==
  \A t \in Swapper : loc[t].pc = "fetch" => loc[t].id = oid[loc[t].ptr]

\* wait_mutators_observation ends: "Wait all mutator threads swicth to the new
\* status." (manager.cpp:481), unless the process has exited.
MutatorsObserve == gc = "observe" ~> gc = "writeback" \/ exited

\* A round of gc_cache that has picked regions marks, observes, writes back and
\* releases them: no lock taken by a slave or by swap_in stops it for ever.
RoundTerminates == gc = "mark" ~> gc = "loop" \/ exited

\* mutator_wait_for_gc_cache returns (manager.cpp:740-762), in a system without a
\* pager: a round of the GC ends with enough regions, since nobody it waits for (a
\* mutator in a scope, a holder of a lock or of a reference on a region) is waiting,
\* and the waiter gets to allocate, unless others take the regions that become
\* free for ever.  With a pager, which waits with an object locked, it may not
\* return: see MutatorsObserve.
WaitersResume ==
  \A t \in Mutator :
     \/ []<><<\E r \in free : r \notin free'>>_vars
     \/ loc[t].pc = "wait" ~> loc[t].pc # "wait" \/ exited

\* A dereference under way returns an address: neither the object lock, nor a
\* swap-in, nor a migration that loses its race with the GC stops it for ever.
DereferenceReturns ==
  \A m \in Mutator : loc[m].pc = "deref" ~> loc[m].pc = "access" \/ exited
==============================================================================
