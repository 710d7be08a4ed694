--------------------------- MODULE EvacuatorProofs ---------------------------
(***************************************************************************)
(* What holds of Evacuator for every set of pointers, regions, cores,      *)
(* threads and values.  First the region pool on its own: which steps move *)
(* regions, and that they keep PoolInv.  Then the types of everything.     *)
(***************************************************************************)
EXTENDS Evacuator, TLAPS

poolState == <<open, free, used, from, fill, pins>>

PoolTypeOK ==
  /\ open \in [Core -> Region \cup {NULL}]
  /\ free \subseteq Region /\ used \subseteq Region /\ from \subseteq Region
  /\ fill \in [Region -> 0..SlotsPerRegion]
  /\ pins \in [Region -> SUBSET Thread]

\* A free region has been reset, so the refill that takes it finds room.
FreeIsEmpty == \A r \in free : fill[r] = 0

PoolInv == PoolTypeOK /\ RegionsPartitioned /\ PinnedNotReclaimed /\ FreeIsEmpty

-----------------------------------------------------------------------------
(* The steps that touch the pool.                                           *)

\* A slot of region r is handed to thread t.
Handed(t, r) ==
  /\ fill' = [fill EXCEPT ![r] = @ + 1]
  /\ pins' = [pins EXCEPT ![r] = @ \cup {t}]

BumpOpen(t, c) ==
  /\ HasRoom(c) /\ Handed(t, open[c])
  /\ UNCHANGED <<open, free, used, from>>

Refill(t, c, r) ==
  /\ ~HasRoom(c) /\ r \in free
  /\ used' = used \cup ({open[c]} \ {NULL})
  /\ open' = [open EXCEPT ![c] = r]
  /\ free' = free \ {r}
  /\ Handed(t, r)
  /\ UNCHANGED from

RefillLost(c) == RefillFails(c) /\ UNCHANGED from

Unpin(t, r) ==
  /\ pins' = [pins EXCEPT ![r] = @ \ {t}]
  /\ UNCHANGED <<open, free, used, from, fill>>

Pick(r) ==
  /\ r \in used /\ pins[r] = {}
  /\ used' = used \ {r} /\ from' = from \cup {r}
  /\ UNCHANGED <<open, free, fill, pins>>

Release(r) ==
  /\ r \in from
  /\ from' = from \ {r} /\ free' = free \cup {r}
  /\ fill' = [fill EXCEPT ![r] = 0]
  /\ pins' = [pins EXCEPT ![r] = {}]
  /\ UNCHANGED <<open, used>>

PoolStep ==
  \/ \E t \in Thread, c \in Core : BumpOpen(t, c) \/ \E r \in Region : Refill(t, c, r)
  \/ \E c \in Core : RefillLost(c)
  \/ \E t \in Thread : \E r : Unpin(t, r)
  \/ \E r \in Region : Pick(r) \/ Release(r)

LEMMA AllocationIsPoolStep ==
  ASSUME PoolTypeOK, NEW t \in Thread, NEW c \in Core, NEW refilled, NEW next,
         AllocateLocal(t, c, refilled, next), UNCHANGED from
  PROVE  PoolStep
<1>1. CASE HasRoom(c) /\ Bump(t, open[c], next) /\ UNCHANGED <<open, free, used>>
  <2>1. BumpOpen(t, c) BY <1>1 DEF BumpOpen, Handed, Bump
  <2> QED BY <2>1 DEF PoolStep
<1>2. ASSUME NEW r \in free, ~HasRoom(c), used' = used \cup ({open[c]} \ {NULL}),
             open' = [open EXCEPT ![c] = r], free' = free \ {r}, Bump(t, r, next)
      PROVE  PoolStep
  <2>1. Refill(t, c, r) BY <1>2 DEF Refill, Handed, Bump
  <2>2. r \in Region BY <1>2 DEF PoolTypeOK
  <2> QED BY <2>1, <2>2 DEF PoolStep
<1> QED BY <1>1, <1>2 DEF AllocateLocal

\* Everything the system does to the regions is one of these steps.
LEMMA NextIsPoolStep ==
  ASSUME PoolTypeOK, Next
  PROVE  PoolStep \/ UNCHANGED poolState
<1> USE DEF poolState, poolVars, gcVars, vars, Swapper, Scoped, Thread
<1>1. ASSUME NEW m \in Mutator, MutatorStep(m)
      PROVE  PoolStep \/ UNCHANGED poolState
  <2>1. CASE \E p \in Ptr : \/ \E how \in {"alloc", "nb_alloc"} : AllocatePtr(m, p, how)
                            \/ \E w \in BOOLEAN : ScopeEnter(m, p, w)
    BY <2>1 DEF AllocatePtr, ScopeEnter
  <2>2. CASE BuildObject(m)
    <3>1. Unpin(m, RegionOf(loc[m].addr)) BY <2>2 DEF BuildObject, DropPin, Unpin
    <3> QED BY <3>1 DEF PoolStep
  <2>3. CASE DerefPresent(m) \/ MigrateBegin(m) \/ ReallocateBegin(m)
             \/ \E v \in Value : Store(m, v) \/ ReallocateInit(m, v)
    BY <2>3 DEF DerefPresent, MigrateBegin, ReallocateBegin, Store, ReallocateInit
  <2>4. CASE MigrateCopy(m)
    <3>1. Unpin(m, RegionOf(loc[m].addr)) BY <2>4 DEF MigrateCopy, DropPin, Unpin
    <3> QED BY <3>1 DEF PoolStep
  <2>5. CASE ReallocateFree(m)
    <3>1. Unpin(m, RegionOf(loc[m].addr)) BY <2>5 DEF ReallocateFree, DropPin, Unpin
    <3> QED BY <3>1 DEF PoolStep
  <2>6. ASSUME NEW c \in Core, AllocateOnce(m, c)
        PROVE  PoolStep
    <3>1. ASSUME RefillFails(c) PROVE PoolStep
      BY <2>6, <3>1 DEF AllocateOnce, PoolStep, RefillLost
    <3>2. ASSUME AllocateLocal(m, c, FALSE, loc[m].after) PROVE PoolStep
      BY <2>6, <3>2, AllocationIsPoolStep DEF AllocateOnce
    <3> QED BY <2>6, <3>1, <3>2 DEF AllocateOnce
  <2> QED BY <1>1, <2>1, <2>2, <2>3, <2>4, <2>5, <2>6 DEF MutatorStep
<1>2. ASSUME NEW t \in Swapper, SwapperStep(t)
      PROVE  PoolStep \/ UNCHANGED poolState
  <2>1. CASE WaitForGC(t)
    BY <2>1 DEF WaitForGC
  <2>2. CASE SwapInFinish(t)
    <3>1. Unpin(t, RegionOf(loc[t].addr)) BY <2>2 DEF SwapInFinish, DropPin, Unpin
    <3> QED BY <3>1 DEF PoolStep
  <2>3. CASE SwapInReadId(t) \/ SwapInCheck(t) \/ SwapInLock(t) \/ SwapInRecheck(t)
             \/ SwapInFetch(t) \/ SwapInPresent(t)
    BY <2>3 DEF SwapInReadId, SwapInCheck, SwapInLock, SwapInRecheck, SwapInFetch,
                SwapInPresent
  <2>4. ASSUME NEW c \in Core, AllocateBlocking(t, c)
        PROVE  PoolStep
    BY <2>4, AllocationIsPoolStep DEF AllocateBlocking
  <2>5. ASSUME NEW c \in Core, AllocateFails(t, c)
        PROVE  PoolStep
    BY <2>5 DEF AllocateFails, PoolStep, RefillLost
  <2> QED BY <1>2, <2>1, <2>2, <2>3, <2>4, <2>5 DEF SwapperStep, SwapIn
<1>3. ASSUME NEW t \in Scoped, DerefFar(t) \/ ScopeExit(t)
      PROVE  UNCHANGED poolState
  BY <1>3 DEF DerefFar, ScopeExit
<1>4. ASSUME NEW t \in Thread, PrefetchSkip(t) \/ \E p \in Ptr : Prefetch(t, p) \/ PagerVisit(t, p)
      PROVE  UNCHANGED poolState
  BY <1>4 DEF PrefetchSkip, Prefetch, PagerVisit
<1>5. ASSUME NEW s \in Slave, SlaveStep(s)
      PROVE  PoolStep \/ UNCHANGED poolState
  <2>1. CASE \E a \in Addr : SlaveScan(s, a)
    BY <2>1 DEF SlaveScan
  <2>2. CASE SlaveLock(s) \/ SetEvacuation(s) \/ SwapOutSkip(s) \/ SwapOutDecide(s)
             \/ SwapOutWrite(s) \/ SwapOutMeta(s)
    BY <2>2 DEF SlaveLock, SetEvacuation, SwapOutSkip, SwapOutDecide, SwapOutWrite,
                SwapOutMeta
  <2>3. ASSUME NEW c \in Core, SwapOutAllocate(s, c)
        PROVE  PoolStep
    <3>1. UNCHANGED from BY <2>3 DEF SwapOutAllocate
    <3>2. CASE AllocateLocal(s, c, FALSE, "so_copy")
      BY <3>1, <3>2, AllocationIsPoolStep
    <3>3. CASE RefillFails(c)
      BY <3>1, <3>3 DEF PoolStep, RefillLost
    <3> QED BY <2>3, <3>2, <3>3 DEF SwapOutAllocate
  <2>4. CASE SwapOutCopy(s)
    <3>1. Unpin(s, RegionOf(loc[s].addr)) BY <2>4 DEF SwapOutCopy, DropPin, Unpin
    <3> QED BY <3>1 DEF PoolStep
  <2> QED BY <1>5, <2>1, <2>2, <2>3, <2>4 DEF SlaveStep
<1>6. CASE MasterStep
  <2> USE DEF gcOnly
  <2>1. CASE GCStart \/ GCLoop \/ GCPickDone \/ GCFlip \/ GCObserved \/ GCWrittenBack
             \/ GCRoundDone
    BY <2>1 DEF GCStart, GCLoop, GCPickDone, GCFlip, GCObserved, GCWrittenBack, GCRoundDone
  <2>2. ASSUME NEW r \in Region, GCPick(r)
        PROVE  PoolStep
    BY <2>2 DEF GCPick, Pick, PoolStep
  <2>3. ASSUME NEW r \in Region, GCRelease(r)
        PROVE  PoolStep
    BY <2>3 DEF GCRelease, Release, PoolStep
  <2> QED BY <1>6, <2>1, <2>2, <2>3 DEF MasterStep
<1>7. CASE Exited
  BY <1>7 DEF Exited
<1> QED BY <1>1, <1>2, <1>3, <1>4, <1>5, <1>6, <1>7 DEF Next

-----------------------------------------------------------------------------
(* PoolInv is inductive.                                                    *)

\* NULL names no region and no slot.
LEMMA NullIsNoRegion == NULL \notin Region /\ SlotsPerRegion \in Nat \ {0}
BY ConstantsOK

LEMMA HandedKeepsTypes ==
  ASSUME PoolTypeOK, NEW t \in Thread, NEW r \in Region, fill[r] < SlotsPerRegion,
         Handed(t, r)
  PROVE  /\ fill' \in [Region -> 0..SlotsPerRegion]
         /\ pins' \in [Region -> SUBSET Thread]
         /\ \A q \in Region \ {r} : fill'[q] = fill[q] /\ pins'[q] = pins[q]
BY NullIsNoRegion DEF PoolTypeOK, Handed

LEMMA PoolInvKept ==
  ASSUME PoolInv, PoolStep
  PROVE  PoolInv'
<1> USE NullIsNoRegion DEF PoolInv, RegionsPartitioned
<1>1. ASSUME NEW t \in Thread, NEW c \in Core, BumpOpen(t, c)
      PROVE  PoolInv'
  <2>1. open[c] \in Region /\ fill[open[c]] < SlotsPerRegion
    BY <1>1 DEF BumpOpen, HasRoom, PoolTypeOK
  <2>2. Handed(t, open[c]) /\ UNCHANGED <<open, free, used, from>>
    BY <1>1 DEF BumpOpen
  <2>3. PoolTypeOK'
    BY <2>1, <2>2, HandedKeepsTypes DEF PoolTypeOK
  <2>4. RegionsPartitioned'
    BY <2>2
  <2>5. PinnedNotReclaimed' /\ FreeIsEmpty'
    BY <2>1, <2>2, HandedKeepsTypes DEF PinnedNotReclaimed, FreeIsEmpty, PoolTypeOK
  <2> QED BY <2>3, <2>4, <2>5
<1>2. ASSUME NEW t \in Thread, NEW c \in Core, NEW r \in Region, Refill(t, c, r)
      PROVE  PoolInv'
  <2>1. fill[r] < SlotsPerRegion
    BY <1>2 DEF Refill, FreeIsEmpty
  <2>2. Handed(t, r) /\ r \in free /\ free' = free \ {r} /\ from' = from
        /\ used' = used \cup ({open[c]} \ {NULL}) /\ open' = [open EXCEPT ![c] = r]
    BY <1>2 DEF Refill
  <2>3. PoolTypeOK'
    BY <2>1, <2>2, HandedKeepsTypes DEF PoolTypeOK
  <2>4. RegionsPartitioned'
    BY <2>2 DEF PoolTypeOK
  <2>5. PinnedNotReclaimed' /\ FreeIsEmpty'
    <3>1. free' \cup from' \subseteq (free \cup from) \ {r}
      BY <2>2
    <3>2. \A q \in (free \cup from) \ {r} : fill'[q] = fill[q] /\ pins'[q] = pins[q]
      BY <2>1, <2>2, HandedKeepsTypes DEF PoolTypeOK
    <3> QED BY <2>2, <3>1, <3>2 DEF PinnedNotReclaimed, FreeIsEmpty
  <2> QED BY <2>3, <2>4, <2>5
<1>3. ASSUME NEW c \in Core, RefillLost(c)
      PROVE  PoolInv'
  <2>1. PoolTypeOK'
    BY <1>3 DEF RefillLost, RefillFails, PoolTypeOK
  <2>2. RegionsPartitioned'
    BY <1>3 DEF RefillLost, RefillFails, PoolTypeOK
  <2>3. PinnedNotReclaimed' /\ FreeIsEmpty'
    BY <1>3 DEF RefillLost, RefillFails, PinnedNotReclaimed, FreeIsEmpty
  <2> QED BY <2>1, <2>2, <2>3
<1>4. ASSUME NEW t \in Thread, NEW r, Unpin(t, r)
      PROVE  PoolInv'
  <2>1. PoolTypeOK'
    BY <1>4 DEF Unpin, PoolTypeOK
  <2>2. RegionsPartitioned'
    BY <1>4 DEF Unpin
  <2>3. PinnedNotReclaimed' /\ FreeIsEmpty'
    BY <1>4 DEF Unpin, PinnedNotReclaimed, FreeIsEmpty, PoolTypeOK
  <2> QED BY <2>1, <2>2, <2>3
<1>5. ASSUME NEW r \in Region, Pick(r)
      PROVE  PoolInv'
  <2>1. PoolTypeOK'
    BY <1>5 DEF Pick, PoolTypeOK
  <2>2. RegionsPartitioned'
    BY <1>5 DEF Pick, PoolTypeOK
  <2>3. PinnedNotReclaimed' /\ FreeIsEmpty'
    BY <1>5 DEF Pick, PinnedNotReclaimed, FreeIsEmpty
  <2> QED BY <2>1, <2>2, <2>3
<1>6. ASSUME NEW r \in Region, Release(r)
      PROVE  PoolInv'
  <2>1. PoolTypeOK'
    BY <1>6 DEF Release, PoolTypeOK
  <2>2. RegionsPartitioned'
    BY <1>6 DEF Release, PoolTypeOK
  <2>3. PinnedNotReclaimed' /\ FreeIsEmpty'
    BY <1>6 DEF Release, PinnedNotReclaimed, FreeIsEmpty, PoolTypeOK
  <2> QED BY <2>1, <2>2, <2>3
<1> QED BY <1>1, <1>2, <1>3, <1>4, <1>5, <1>6 DEF PoolStep

LEMMA PoolInvHolds == Spec => []PoolInv
<1>1. Init => PoolInv
  <2> SUFFICES ASSUME Init PROVE PoolInv OBVIOUS
  <2>1. PoolTypeOK
    BY NullIsNoRegion DEF Init, PoolTypeOK
  <2>2. RegionsPartitioned
    BY NullIsNoRegion DEF Init, RegionsPartitioned
  <2>3. PinnedNotReclaimed /\ FreeIsEmpty
    BY DEF Init, PinnedNotReclaimed, FreeIsEmpty
  <2> QED BY <2>1, <2>2, <2>3 DEF PoolInv
<1>2. PoolInv /\ [Next]_vars => PoolInv'
  <2> SUFFICES ASSUME PoolInv, [Next]_vars PROVE PoolInv' OBVIOUS
  <2>1. CASE PoolStep
    BY <2>1, PoolInvKept
  <2>2. CASE UNCHANGED poolState
    BY <2>2 DEF poolState, PoolInv, PoolTypeOK, RegionsPartitioned, PinnedNotReclaimed,
                FreeIsEmpty
  <2>3. CASE UNCHANGED vars
    BY <2>2, <2>3 DEF vars, poolState, poolVars, gcVars
  <2> QED BY <2>1, <2>2, <2>3, NextIsPoolStep DEF PoolInv
<1> QED BY <1>1, <1>2, PTL DEF Spec

\* try_refill, push_free_region and the master's picking never lose a region or
\* leave one in two places, for any number of regions, cores and threads.
THEOREM RegionsStayPartitioned == Spec => []RegionsPartitioned
<1>1. PoolInv => RegionsPartitioned BY DEF PoolInv
<1> QED BY <1>1, PoolInvHolds, PTL

\* A region the master is evacuating or has released has ref_cnt 0: threads get a
\* reference only on a core's open region, and keep a region from being picked
\* until they drop theirs.
THEOREM PinnedNeverReclaimed == Spec => []PinnedNotReclaimed
<1>1. PoolInv => PinnedNotReclaimed BY DEF PoolInv
<1> QED BY <1>1, PoolInvHolds, PTL

-----------------------------------------------------------------------------
(* Types.  What a step reads from a thread's locals is well typed only at   *)
(* certain places; ThreadOK says what is known where.                       *)

Allocating == {"alloc", "realloc", "wait", "nb_alloc"}
SlavePC == {"lock", "mark", "writeback", "so_alloc", "so_copy", "so_write", "so_meta"}

\* The thread is at "next", or in the allocation that leads to it.
Heading(t, next) ==
  loc[t].pc = next \/ (loc[t].pc \in Allocating /\ loc[t].after = next)

ThreadOK(t) ==
  /\ t \in Swapper /\ loc[t].pc # "idle" => loc[t].ptr \in Ptr
  /\ t \in Slave /\ loc[t].pc # "idle" => gc \in {"mark", "writeback"}
  /\ Heading(t, "fetch") \/ loc[t].pc \in {"si_check", "si_lock", "si_recheck"}
          \/ loc[t].pc \in SlavePC \cup {"si_present", "si_finish"}
       => loc[t].id \in ObjId
  /\ Heading(t, "copy") \/ Heading(t, "re_init") \/ loc[t].pc = "re_free"
          \/ loc[t].pc \in SlavePC
       => loc[t].src \in Addr
  /\ Heading(t, "re_init") \/ loc[t].pc \in {"build", "fetch", "si_present", "copy",
                                             "so_copy", "access", "re_free"}
       => loc[t].addr \in Addr
  /\ loc[t].pc = "nb_alloc" => t \in Mutator /\ loc[t].after \in {"build", "re_init"}

LocalsOK == loc \in [Thread -> Local] /\ \A t \in Thread : ThreadOK(t)

MemoryOK ==
  /\ meta \in [Ptr -> Meta] /\ hdr \in [Addr -> Header]
  /\ data \in [Addr -> Value] /\ far \in [ObjId -> Value]
  /\ oid \in [Ptr -> RemoteId]
  /\ \A p \in Ptr : /\ IsPresent(p) => meta[p].addr \in Addr
                    /\ meta[p].kind = "far" => meta[p].id \in ObjId

ControlOK ==
  /\ lock \in [ObjId -> Thread \cup {NULL}]
  /\ almost_empty \in BOOLEAN /\ exited \in BOOLEAN
  /\ expected_status \in {"flag0", "flag1"}
  /\ status \in [Scoped -> {"out", "flag0", "flag1"}]
  /\ gc \in {"off", "loop", "pick", "mark", "observe", "writeback", "release"}
  /\ todo \subseteq Addr

RestOK == LocalsOK /\ MemoryOK /\ ControlOK

\* No two pointers have an id in common.
IdsOwned == \A p \in Ptr : oid[p][1] = p

TypeInv == PoolInv /\ RestOK /\ IdsOwned


\* Only t's locals change, and they end up well typed.
LEMMA OneThreadMoves ==
  ASSUME LocalsOK, NEW t \in Thread, loc' \in [Thread -> Local], gc' = gc,
         \A u \in Thread \ {t} : loc'[u] = loc[u], ThreadOK(t)'
  PROVE  LocalsOK'
<1>1. \A u \in Thread \ {t} : ThreadOK(u)'
  BY DEF LocalsOK, ThreadOK, Heading
<1> QED BY <1>1 DEF LocalsOK

LEMMA ThreadKinds ==
  /\ \A t \in Swapper : t \in Thread /\ t \notin Slave
  /\ \A t \in Slave : t \in Thread /\ t \notin Swapper
  /\ \A t \in Scoped : t \in Swapper
  /\ \A t \in Mutator : t \in Scoped
  /\ \A t \in Prefetcher : t \in Scoped /\ t \notin Mutator
  /\ \A t \in Pager : t \in Swapper
BY ConstantsOK DEF Thread, Swapper, Scoped

LEMMA IdleIsLocal == Idle \in Local
BY DEF Idle, Local, PC

\* A thread that has nothing left to do needs nothing.
LEMMA GoIdleOK ==
  ASSUME LocalsOK, NEW t \in Thread, loc' = [loc EXCEPT ![t] = Idle], gc' = gc
  PROVE  LocalsOK'
<1>1. loc' \in [Thread -> Local] /\ \A u \in Thread \ {t} : loc'[u] = loc[u]
  BY IdleIsLocal DEF LocalsOK
<1>2. ThreadOK(t)'
  BY DEF LocalsOK, Idle, ThreadOK, Heading, Allocating, SlavePC
<1> QED BY <1>1, <1>2, OneThreadMoves

\* A thread that goes on with its pointer needs nothing else.
LEMMA GoOnOK ==
  ASSUME LocalsOK, NEW t \in Swapper, gc' = gc, NEW p \in Ptr, NEW w \in BOOLEAN,
         NEW pc \in {"deref", "leave"},
         loc' = [loc EXCEPT ![t] = [Idle EXCEPT !.pc = pc, !.ptr = p, !.flag = w]]
  PROVE  LocalsOK'
<1> DEFINE l == [Idle EXCEPT !.pc = pc, !.ptr = p, !.flag = w]
<1>1. l \in Local /\ l.pc = pc /\ l.ptr = p
  BY DEF Idle, Local, PC
<1>2. loc' = [loc EXCEPT ![t] = l] OBVIOUS
<1> HIDE DEF l
<1>3. loc' \in [Thread -> Local] /\ \A u \in Thread \ {t} : loc'[u] = loc[u]
  BY <1>1, <1>2, ThreadKinds DEF LocalsOK
<1>4. loc'[t].pc = pc /\ loc'[t].ptr = p
  BY <1>1, <1>2, ThreadKinds DEF LocalsOK
<1>5. ThreadOK(t)'
  BY <1>4, ThreadKinds DEF ThreadOK, Heading, Allocating, SlavePC
<1> QED BY <1>3, <1>5, OneThreadMoves, ThreadKinds

LEMMA ReturnOK ==
  ASSUME LocalsOK, NEW t \in Swapper, loc[t].pc # "idle", gc' = gc, Return(t)
  PROVE  LocalsOK'
<1>1. t \in Thread /\ loc[t].ptr \in Ptr /\ loc[t].flag \in BOOLEAN
  BY ThreadKinds DEF LocalsOK, ThreadOK, Local
<1>2. CASE t \in Pager
  BY <1>1, <1>2, GoIdleOK DEF Return
<1>3. CASE t \in Mutator /\ t \notin Pager
  BY <1>1, <1>3, GoOnOK DEF Return
<1>4. CASE t \notin Mutator /\ t \notin Pager
  BY <1>1, <1>4, GoOnOK DEF Return
<1> QED BY <1>2, <1>3, <1>4

LEMMA MemoryUntouched ==
  ASSUME MemoryOK, UNCHANGED memVars
  PROVE  MemoryOK'
BY DEF MemoryOK, memVars, IsPresent

\* The slot an allocation hands out is an address.
LEMMA SlotIsAddr ==
  ASSUME PoolInv, NEW r \in Region, fill[r] < SlotsPerRegion
  PROVE  <<r, fill[r] + 1>> \in Addr
<1>1. fill[r] + 1 \in 1..SlotsPerRegion
  BY NullIsNoRegion DEF PoolInv, PoolTypeOK
<1> QED BY <1>1 DEF Addr

LEMMA BumpOK ==
  ASSUME PoolInv, LocalsOK, NEW t \in Thread, NEW r \in Region, fill[r] < SlotsPerRegion,
         NEW next \in PC, Bump(t, r, next), gc' = gc,
         \/ t \in Swapper /\ loc[t].pc \in Allocating /\ next = loc[t].after
         \/ t \in Slave /\ loc[t].pc = "so_alloc" /\ next = "so_copy"
  PROVE  LocalsOK'
<1>1. PICK a \in Addr : loc' = [loc EXCEPT ![t].addr = a, ![t].pc = next]
  BY SlotIsAddr DEF Bump
<1>2. loc' \in [Thread -> Local] /\ \A u \in Thread \ {t} : loc'[u] = loc[u]
  BY <1>1 DEF LocalsOK, Local
<1>3. /\ loc'[t].pc = next /\ loc'[t].addr = a /\ loc'[t].ptr = loc[t].ptr
      /\ loc'[t].id = loc[t].id /\ loc'[t].src = loc[t].src /\ loc'[t].after = loc[t].after
  BY <1>1 DEF LocalsOK, Local
<1>4. ThreadOK(t)'
  <2>1. ThreadOK(t) BY DEF LocalsOK
  <2>2. CASE t \in Swapper /\ loc[t].pc \in Allocating /\ next = loc[t].after
    <3>1. next \in {"idle", "build", "fetch", "copy", "re_init"} BY <2>2 DEF LocalsOK, Local
    <3> QED BY <1>3, <2>1, <2>2, <3>1, ThreadKinds
            DEF ThreadOK, Heading, Allocating, SlavePC
  <2>3. CASE t \in Slave /\ loc[t].pc = "so_alloc" /\ next = "so_copy"
    BY <1>3, <2>1, <2>3, ThreadKinds DEF ThreadOK, Heading, Allocating, SlavePC
  <2> QED BY <2>2, <2>3
<1> QED BY <1>2, <1>4, OneThreadMoves

LEMMA AllocateLocalOK ==
  ASSUME PoolInv, LocalsOK, NEW t \in Thread, NEW c \in Core, NEW refilled, NEW next \in PC,
         AllocateLocal(t, c, refilled, next), gc' = gc, almost_empty \in BOOLEAN,
         \/ t \in Swapper /\ loc[t].pc \in Allocating /\ next = loc[t].after
         \/ t \in Slave /\ loc[t].pc = "so_alloc" /\ next = "so_copy"
  PROVE  LocalsOK' /\ almost_empty' \in BOOLEAN
<1>1. ASSUME HasRoom(c), Bump(t, open[c], next)
      PROVE  LocalsOK'
  <2>1. open[c] \in Region /\ fill[open[c]] < SlotsPerRegion
    BY <1>1 DEF HasRoom, PoolInv, PoolTypeOK
  <2> QED BY <1>1, <2>1, BumpOK
<1>2. ASSUME NEW r \in free, Bump(t, r, next)
      PROVE  LocalsOK'
  <2>1. r \in Region /\ fill[r] < SlotsPerRegion
    BY NullIsNoRegion DEF PoolInv, PoolTypeOK, FreeIsEmpty
  <2> QED BY <1>2, <2>1, BumpOK
<1>3. almost_empty' \in BOOLEAN
  BY DEF AllocateLocal, GCCheck
<1>4. \/ HasRoom(c) /\ Bump(t, open[c], next)
      \/ \E r \in free : Bump(t, r, next)
  BY DEF AllocateLocal
<1> QED BY <1>1, <1>2, <1>3, <1>4

\* A thread that only moves from one place to another.
LEMMA GotoOK ==
  ASSUME LocalsOK, NEW t \in Thread, NEW to \in PC, Goto(t, to), gc' = gc,
         ThreadOK(t) /\ loc'[t] = [loc[t] EXCEPT !.pc = to] => ThreadOK(t)'
  PROVE  LocalsOK'
<1>1. loc' \in [Thread -> Local] /\ \A u \in Thread \ {t} : loc'[u] = loc[u]
  BY DEF Goto, LocalsOK, Local
<1>2. loc'[t] = [loc[t] EXCEPT !.pc = to]
  BY DEF Goto, LocalsOK
<1>3. ThreadOK(t)'
  BY <1>2 DEF LocalsOK
<1> QED BY <1>1, <1>3, OneThreadMoves

-----------------------------------------------------------------------------
(* RestOK is kept by every step, one lemma for each kind of thread.         *)

LEMMA SwapInKeepsTypes ==
  ASSUME TypeInv, NEW t \in Swapper, SwapIn(t)
  PROVE  RestOK'
<1> USE ThreadKinds DEF TypeInv, RestOK, gcVars, poolVars
<1>0. t \in Thread /\ ThreadOK(t) /\ loc[t] \in Local
  BY DEF LocalsOK
<1>1. CASE SwapInReadId(t)
  <2>1. GetObjectId(loc[t].ptr) \in ObjId
    <3>1. loc[t].ptr \in Ptr
      BY <1>0, <1>1 DEF SwapInReadId, ThreadOK
    <3> QED BY <3>1 DEF MemoryOK, GetObjectId, ObjId
  <2>2. loc' \in [Thread -> Local] /\ \A u \in Thread \ {t} : loc'[u] = loc[u]
    BY <1>1, <2>1 DEF SwapInReadId, LocalsOK, Local, PC
  <2>3. ThreadOK(t)'
    BY <1>0, <1>1, <2>1 DEF SwapInReadId, LocalsOK, Local, ThreadOK, Heading, Allocating,
                            SlavePC
  <2>4. LocalsOK'
    BY <1>0, <1>1, <2>2, <2>3, OneThreadMoves DEF SwapInReadId
  <2>5. MemoryOK' /\ ControlOK'
    BY <1>1, MemoryUntouched DEF SwapInReadId, ControlOK
  <2> QED BY <2>4, <2>5
<1>2. CASE SwapInCheck(t)
  <2>1. ASSUME Goto(t, "si_lock") PROVE LocalsOK'
    <3>1. gc' = gc /\ loc[t].pc = "si_check" /\ "si_lock" \in PC
      BY <1>2 DEF SwapInCheck, PC
    <3>2. ASSUME loc'[t] = [loc[t] EXCEPT !.pc = "si_lock"] PROVE ThreadOK(t)'
      BY <1>0, <3>1, <3>2 DEF Local, ThreadOK, Heading, Allocating, SlavePC
    <3> QED BY <1>0, <2>1, <3>1, <3>2, GotoOK
  <2>2. ASSUME Return(t) PROVE LocalsOK'
    BY <1>2, <2>2, ReturnOK DEF SwapInCheck
  <2>3. MemoryOK' /\ ControlOK'
    BY <1>2, MemoryUntouched DEF SwapInCheck, ControlOK
  <2> QED BY <1>2, <2>1, <2>2, <2>3 DEF SwapInCheck
<1>3. CASE SwapInLock(t)
  <2>1. gc' = gc /\ loc[t].pc = "si_lock" /\ "si_recheck" \in PC
    BY <1>3 DEF SwapInLock, PC
  <2>2. ASSUME loc'[t] = [loc[t] EXCEPT !.pc = "si_recheck"] PROVE ThreadOK(t)'
    BY <1>0, <2>1, <2>2 DEF Local, ThreadOK, Heading, Allocating, SlavePC
  <2>3. LocalsOK'
    BY <1>0, <1>3, <2>1, <2>2, GotoOK DEF SwapInLock
  <2>4. MemoryOK' /\ ControlOK'
    BY <1>0, <1>3, MemoryUntouched DEF SwapInLock, Acquire, ControlOK
  <2> QED BY <2>3, <2>4
<1>4. CASE SwapInRecheck(t)
  <2>1. ASSUME loc' = [loc EXCEPT ![t].pc = "alloc", ![t].after = "fetch"]
        PROVE  LocalsOK'
    <3>1. loc' \in [Thread -> Local] /\ \A u \in Thread \ {t} : loc'[u] = loc[u]
      BY <2>1 DEF LocalsOK, Local, PC
    <3>2. ThreadOK(t)'
      BY <1>0, <1>4, <2>1 DEF SwapInRecheck, LocalsOK, Local, ThreadOK, Heading,
                              Allocating, SlavePC
    <3> QED BY <1>0, <1>4, <3>1, <3>2, OneThreadMoves DEF SwapInRecheck
  <2>2. ASSUME Return(t) PROVE LocalsOK'
    BY <1>4, <2>2, ReturnOK DEF SwapInRecheck
  <2>3. MemoryOK' /\ ControlOK'
    BY <1>4, MemoryUntouched DEF SwapInRecheck, Unlock, ControlOK
  <2> QED BY <1>4, <2>1, <2>2, <2>3 DEF SwapInRecheck
<1>5. CASE SwapInFetch(t)
  <2>1. loc[t].pc = "fetch" /\ loc[t].id \in ObjId /\ loc[t].addr \in Addr
        /\ loc[t].ptr \in Ptr
    BY <1>0, <1>5 DEF SwapInFetch, ThreadOK, Heading
  <2>2. ASSUME loc'[t] = [loc[t] EXCEPT !.pc = "si_present"] PROVE ThreadOK(t)'
    BY <1>0, <1>5, <2>1, <2>2 DEF SwapInFetch, Local, ThreadOK, Heading, Allocating, SlavePC
  <2>3. LocalsOK'
    <3>1. "si_present" \in PC /\ gc' = gc BY <1>5 DEF SwapInFetch, PC
    <3> QED BY <1>0, <1>5, <2>2, <3>1, GotoOK DEF SwapInFetch
  <2>4. data' \in [Addr -> Value] /\ hdr' \in [Addr -> Header]
    BY <1>5, <2>1 DEF SwapInFetch, MemoryOK, NewObject, Header
  <2>5. MemoryOK' /\ ControlOK'
    BY <1>5, <2>4 DEF SwapInFetch, MemoryOK, IsPresent, ControlOK
  <2> QED BY <2>3, <2>5
<1>6. CASE SwapInPresent(t)
  <2>1. loc[t].pc = "si_present" /\ loc[t].addr \in Addr
    BY <1>0, <1>6 DEF SwapInPresent, ThreadOK
  <2>2. ASSUME loc'[t] = [loc[t] EXCEPT !.pc = "si_finish"] PROVE ThreadOK(t)'
    BY <1>0, <1>6, <2>1, <2>2 DEF SwapInPresent, Local, ThreadOK, Heading, Allocating,
                                  SlavePC
  <2>3. LocalsOK'
    <3>1. "si_finish" \in PC /\ gc' = gc BY <1>6 DEF SwapInPresent, PC
    <3> QED BY <1>0, <1>6, <2>2, <3>1, GotoOK DEF SwapInPresent
  <2>4. MemoryOK' /\ ControlOK'
    BY <1>6, <2>1 DEF SwapInPresent, MemoryOK, Meta, PresentMeta, IsPresent, ControlOK
  <2> QED BY <2>3, <2>4
<1>7. CASE SwapInFinish(t)
  <2>1. LocalsOK'
    BY <1>7, ReturnOK DEF SwapInFinish
  <2>2. MemoryOK' /\ ControlOK'
    BY <1>7, MemoryUntouched DEF SwapInFinish, Unlock, ControlOK
  <2> QED BY <2>1, <2>2
<1> QED BY <1>1, <1>2, <1>3, <1>4, <1>5, <1>6, <1>7 DEF SwapIn

LEMMA AllocationKeepsTypes ==
  ASSUME TypeInv, NEW t \in Swapper,
         WaitForGC(t) \/ \E c \in Core : AllocateBlocking(t, c) \/ AllocateFails(t, c)
  PROVE  RestOK'
<1> USE ThreadKinds DEF TypeInv, RestOK, gcVars, poolVars
<1>0. t \in Thread /\ ThreadOK(t) /\ loc[t] \in Local /\ almost_empty \in BOOLEAN
  BY DEF LocalsOK, ControlOK
<1>1. ASSUME loc[t].pc \in Allocating \ {"nb_alloc"}, NEW to \in {"realloc", "wait"}, Goto(t, to), gc' = gc
      PROVE  LocalsOK'
  <2>1. ASSUME loc'[t] = [loc[t] EXCEPT !.pc = to] PROVE ThreadOK(t)'
    BY <1>0, <1>1, <2>1 DEF Local, ThreadOK, Heading, Allocating, SlavePC
  <2>2. to \in PC BY DEF PC
  <2> QED BY <1>0, <1>1, <2>1, <2>2, GotoOK
<1>2. CASE WaitForGC(t)
  <2>1. LocalsOK' BY <1>1, <1>2 DEF WaitForGC, Allocating
  <2>2. MemoryOK' /\ ControlOK'
    BY <1>2, MemoryUntouched DEF WaitForGC, ControlOK
  <2> QED BY <2>1, <2>2
<1>3. ASSUME NEW c \in Core, AllocateBlocking(t, c)
      PROVE  RestOK'
  <2>1. loc[t].after \in PC BY <1>0 DEF Local, PC
  <2>2. LocalsOK' /\ almost_empty' \in BOOLEAN
    BY <1>0, <1>3, <2>1, AllocateLocalOK DEF AllocateBlocking, Allocating
  <2>3. MemoryOK' /\ ControlOK'
    BY <1>3, <2>2, MemoryUntouched DEF AllocateBlocking, ControlOK
  <2> QED BY <2>2, <2>3
<1>4. ASSUME NEW c \in Core, AllocateFails(t, c)
      PROVE  RestOK'
  <2>1. CASE UNCHANGED loc
    BY <1>4, <2>1 DEF AllocateFails, LocalsOK, ThreadOK, Heading, MemoryOK, IsPresent,
                      memVars, ControlOK
  <2>2. CASE \E to \in {"realloc", "wait"} : Goto(t, to)
    <3>1. LocalsOK'
      BY <1>1, <1>4, <2>2 DEF AllocateFails, Allocating
    <3>2. MemoryOK' /\ ControlOK'
      BY <1>4, MemoryUntouched DEF AllocateFails, ControlOK
    <3> QED BY <3>1, <3>2
  <2> QED BY <1>4, <2>1, <2>2 DEF AllocateFails
<1> QED BY <1>2, <1>3, <1>4

LEMMA ScopesKeepTypes ==
  ASSUME TypeInv, NEW t \in Scoped,
         DerefFar(t) \/ ScopeExit(t) \/ PrefetchSkip(t) \/ \E p \in Ptr : Prefetch(t, p)
  PROVE  RestOK'
<1> USE ThreadKinds DEF TypeInv, RestOK, gcVars, poolVars
<1>0. t \in Swapper /\ t \in Thread /\ t \notin Slave /\ ThreadOK(t) /\ loc[t] \in Local
  BY DEF LocalsOK
<1>1. CASE DerefFar(t) \/ PrefetchSkip(t)
  <2>1. ASSUME NEW to \in {"si_read", "leave"}, Goto(t, to) PROVE LocalsOK'
    <3>1. loc[t].pc = "deref" /\ gc' = gc /\ to \in PC
      BY <1>1 DEF DerefFar, PrefetchSkip, PC
    <3>2. ASSUME loc'[t] = [loc[t] EXCEPT !.pc = to] PROVE ThreadOK(t)'
      BY <1>0, <3>1, <3>2 DEF Local, ThreadOK, Heading, Allocating, SlavePC
    <3> QED BY <1>0, <2>1, <3>1, <3>2, GotoOK
  <2>2. MemoryOK' /\ ControlOK'
    BY <1>1, MemoryUntouched DEF DerefFar, PrefetchSkip, ControlOK
  <2> QED BY <1>1, <2>1, <2>2 DEF DerefFar, PrefetchSkip
<1>2. CASE ScopeExit(t)
  <2>1. LocalsOK' BY <1>0, <1>2, GoIdleOK DEF ScopeExit, GoIdle
  <2>2. MemoryOK' /\ ControlOK'
    BY <1>2, MemoryUntouched DEF ScopeExit, ControlOK
  <2> QED BY <2>1, <2>2
<1>3. ASSUME NEW p \in Ptr, Prefetch(t, p)
      PROVE  RestOK'
  <2>1. loc' \in [Thread -> Local] /\ \A u \in Thread \ {t} : loc'[u] = loc[u]
    BY <1>3 DEF Prefetch, LocalsOK, Local, PC
  <2>2. ThreadOK(t)'
    BY <1>0, <1>3 DEF Prefetch, LocalsOK, Local, ThreadOK, Heading, Allocating, SlavePC
  <2>3. LocalsOK'
    BY <1>0, <1>3, <2>1, <2>2, OneThreadMoves DEF Prefetch
  <2>4. MemoryOK' /\ ControlOK'
    BY <1>3, MemoryUntouched DEF Prefetch, EnterScope, ControlOK
  <2> QED BY <2>3, <2>4
<1> QED BY <1>1, <1>2, <1>3

LEMMA PagerKeepsTypes ==
  ASSUME TypeInv, NEW g \in Pager, NEW p \in Ptr, PagerVisit(g, p)
  PROVE  RestOK'
<1> USE ThreadKinds DEF TypeInv, RestOK, gcVars, poolVars
<1>1. loc' \in [Thread -> Local] /\ \A u \in Thread \ {g} : loc'[u] = loc[u]
  BY DEF PagerVisit, LocalsOK, Local, PC
<1>2. ThreadOK(g)'
  BY DEF PagerVisit, LocalsOK, Local, ThreadOK, Heading, Allocating, SlavePC
<1>3. LocalsOK'
  BY <1>1, <1>2, OneThreadMoves DEF PagerVisit
<1>4. MemoryOK' /\ ControlOK'
  BY MemoryUntouched DEF PagerVisit, ControlOK
<1> QED BY <1>3, <1>4

\* Setting the hot and dirty bits of a pointer.
LEMMA BitsSet ==
  ASSUME meta \in [Ptr -> Meta], NEW p \in Ptr, NEW d \in BOOLEAN,
         meta' = [meta EXCEPT ![p].hot = TRUE, ![p].dirty = d]
  PROVE  meta' \in [Ptr -> Meta]
BY DEF Meta

\* A remote address taken for a pointer is one more of its own.
LEMMA FreshIds ==
  ASSUME MemoryOK, NEW p \in Ptr, HasFreshId(p), p \in Vanilla
  PROVE  FreshId(p) \in RemoteId /\ FreshId(p)[1] = p
BY ConstantsOK DEF MemoryOK, HasFreshId, FreshId, RemoteId

LEMMA NextIsIdStep ==
  ASSUME Next
  PROVE  UNCHANGED oid \/ \E m \in Mutator, v \in Value : ReallocateInit(m, v)
<1> USE DEF memVars
<1>1. ASSUME NEW m \in Mutator, MutatorStep(m)
      PROVE  UNCHANGED oid \/ \E v \in Value : ReallocateInit(m, v)
  BY <1>1 DEF MutatorStep, AllocatePtr, ScopeEnter, BuildObject, DerefPresent, MigrateBegin,
              MigrateCopy, Store, AllocateOnce, ReallocateBegin, ReallocateFree
<1>2. ASSUME NEW t \in Swapper, SwapperStep(t)
      PROVE  UNCHANGED oid
  BY <1>2 DEF SwapperStep, SwapIn, SwapInReadId, SwapInCheck, SwapInLock, SwapInRecheck,
              SwapInFetch, SwapInPresent, SwapInFinish, WaitForGC, AllocateBlocking,
              AllocateFails
<1>3. ASSUME NEW t, DerefFar(t) \/ ScopeExit(t) \/ PrefetchSkip(t)
                       \/ \E p \in Ptr : Prefetch(t, p) \/ PagerVisit(t, p)
      PROVE  UNCHANGED oid
  BY <1>3 DEF DerefFar, ScopeExit, PrefetchSkip, Prefetch, PagerVisit
<1>4. ASSUME NEW s \in Slave, SlaveStep(s)
      PROVE  UNCHANGED oid
  BY <1>4 DEF SlaveStep, SlaveScan, SlaveLock, SetEvacuation, SwapOutSkip, SwapOutDecide,
              SwapOutAllocate, SwapOutCopy, SwapOutWrite, SwapOutMeta
<1>5. CASE MasterStep \/ Exited
  BY <1>5 DEF MasterStep, Exited, vars, gcOnly, GCStart, GCLoop, GCPick, GCPickDone, GCFlip,
              GCObserved, GCWrittenBack, GCRelease, GCRoundDone
<1> QED BY <1>1, <1>2, <1>3, <1>4, <1>5 DEF Next

LEMMA IdsKept ==
  ASSUME TypeInv, [Next]_vars
  PROVE  IdsOwned'
<1>1. CASE UNCHANGED oid
  BY <1>1 DEF TypeInv, IdsOwned
<1>2. ASSUME NEW m \in Mutator, NEW v \in Value, ReallocateInit(m, v)
      PROVE  IdsOwned'
  BY <1>2 DEF TypeInv, RestOK, MemoryOK, IdsOwned, ReallocateInit, FreshId
<1> QED BY <1>1, <1>2, NextIsIdStep DEF vars, memVars

LEMMA MutatorKeepsTypes ==
  ASSUME TypeInv, NEW m \in Mutator, MutatorStep(m)
  PROVE  RestOK'
<1> USE ThreadKinds DEF TypeInv, RestOK, gcVars, poolVars
<1>0. m \in Thread /\ m \in Swapper /\ m \notin Slave /\ ThreadOK(m) /\ loc[m] \in Local
  BY DEF LocalsOK
<1>1. ASSUME NEW p \in Ptr, NEW how \in {"alloc", "nb_alloc"}, AllocatePtr(m, p, how)
      PROVE  RestOK'
  <2>1. loc' \in [Thread -> Local] /\ \A u \in Thread \ {m} : loc'[u] = loc[u]
    BY <1>1 DEF AllocatePtr, LocalsOK, Local, PC
  <2>2. ThreadOK(m)'
    BY <1>0, <1>1 DEF AllocatePtr, LocalsOK, Local, ThreadOK, Heading, Allocating, SlavePC
  <2>3. LocalsOK'
    BY <1>0, <1>1, <2>1, <2>2, OneThreadMoves DEF AllocatePtr
  <2>4. MemoryOK' /\ ControlOK'
    BY <1>1, MemoryUntouched DEF AllocatePtr, ControlOK
  <2> QED BY <2>3, <2>4
<1>2. ASSUME NEW p \in Ptr, NEW w \in BOOLEAN, ScopeEnter(m, p, w)
      PROVE  RestOK'
  <2>1. loc' \in [Thread -> Local] /\ \A u \in Thread \ {m} : loc'[u] = loc[u]
    BY <1>2 DEF ScopeEnter, LocalsOK, Local, PC
  <2>2. ThreadOK(m)'
    BY <1>0, <1>2 DEF ScopeEnter, LocalsOK, Local, ThreadOK, Heading, Allocating, SlavePC
  <2>3. LocalsOK'
    BY <1>0, <1>2, <2>1, <2>2, OneThreadMoves DEF ScopeEnter
  <2>4. MemoryOK' /\ ControlOK'
    BY <1>2, MemoryUntouched DEF ScopeEnter, EnterScope, ControlOK
  <2> QED BY <2>3, <2>4
<1>3. CASE BuildObject(m)
  <2>1. loc[m].ptr \in Ptr /\ loc[m].addr \in Addr
    BY <1>0, <1>3 DEF BuildObject, ThreadOK
  <2>2. LocalsOK'
    BY <1>0, <1>3, GoIdleOK DEF BuildObject, GoIdle
  <2>3. meta' \in [Ptr -> Meta] /\ hdr' \in [Addr -> Header]
    BY <1>3, <2>1 DEF BuildObject, MemoryOK, Meta, PresentMeta, Header, NewObject, ObjId
  <2>4. \A p \in Ptr : /\ IsPresent(p)' => meta'[p].addr \in Addr
                       /\ meta'[p].kind = "far" => meta'[p].id \in ObjId
    BY <1>3, <2>1 DEF BuildObject, MemoryOK, PresentMeta, IsPresent
  <2>5. MemoryOK' /\ ControlOK'
    BY <1>3, <2>3, <2>4 DEF BuildObject, MemoryOK, ControlOK
  <2> QED BY <2>2, <2>5
<1>4. CASE DerefPresent(m)
  <2>1. loc[m].ptr \in Ptr /\ loc[m].flag \in BOOLEAN
    BY <1>0, <1>4 DEF DerefPresent, ThreadOK, Local
  <2>2. meta[loc[m].ptr].addr \in Addr
    BY <1>4, <2>1 DEF DerefPresent, MemoryOK
  <2>3. loc' \in [Thread -> Local] /\ \A u \in Thread \ {m} : loc'[u] = loc[u]
    BY <1>4, <2>2 DEF DerefPresent, LocalsOK, Local, PC
  <2>4. ThreadOK(m)'
    BY <1>0, <1>4, <2>1 DEF DerefPresent, LocalsOK, Local, ThreadOK, Heading, Allocating,
                            SlavePC
  <2>5. LocalsOK'
    BY <1>0, <1>4, <2>3, <2>4, OneThreadMoves DEF DerefPresent
  <2>6. meta' \in [Ptr -> Meta]
    <3> DEFINE d == meta[loc[m].ptr].dirty \/ loc[m].flag
    <3>1. d \in BOOLEAN OBVIOUS
    <3>2. meta' = [meta EXCEPT ![loc[m].ptr].hot = TRUE, ![loc[m].ptr].dirty = d]
      BY <1>4, <2>1 DEF DerefPresent, MemoryOK, Meta
    <3>3. meta \in [Ptr -> Meta] BY DEF MemoryOK
    <3> HIDE DEF d
    <3> QED BY <2>1, <3>1, <3>2, <3>3, BitsSet
  <2>7. \A p \in Ptr : /\ IsPresent(p)' => meta'[p].addr \in Addr
                       /\ meta'[p].kind = "far" => meta'[p].id \in ObjId
    BY <1>4, <2>1 DEF DerefPresent, MemoryOK, Meta, IsPresent
  <2>8. MemoryOK' /\ ControlOK'
    BY <1>4, <2>6, <2>7 DEF DerefPresent, MemoryOK, ControlOK
  <2> QED BY <2>5, <2>8
<1>5. CASE MigrateBegin(m)
  <2>1. loc[m].ptr \in Ptr
    BY <1>0, <1>5 DEF MigrateBegin, ThreadOK
  <2>2. PICK old \in Addr : /\ old = meta[loc[m].ptr].addr
                            /\ hdr[old].id \in ObjId
    BY <1>5, <2>1 DEF MigrateBegin, IsEvacuation, MemoryOK, Header
  <2>3. loc' \in [Thread -> Local] /\ \A u \in Thread \ {m} : loc'[u] = loc[u]
    <3>1. PICK i \in ObjId :
             loc' = [loc EXCEPT ![m].id = i, ![m].src = old, ![m].pc = "alloc",
                                ![m].after = "copy"]
      BY <1>5, <2>2 DEF MigrateBegin
    <3>2. "alloc" \in PC BY DEF PC
    <3> QED BY <3>1, <3>2 DEF LocalsOK, Local
  <2>4. ThreadOK(m)'
    <3>1. /\ loc'[m].pc = "alloc" /\ loc'[m].after = "copy" /\ loc'[m].src = old
          /\ loc'[m].id = hdr[old].id /\ loc'[m].ptr = loc[m].ptr
      BY <1>0, <1>5, <2>2 DEF MigrateBegin, LocalsOK, Local
    <3> QED BY <1>0, <2>1, <2>2, <3>1 DEF ThreadOK, Heading, Allocating, SlavePC
  <2>5. LocalsOK'
    BY <1>0, <1>5, <2>3, <2>4, OneThreadMoves DEF MigrateBegin
  <2>6. MemoryOK' /\ ControlOK'
    BY <1>0, <1>5, MemoryUntouched DEF MigrateBegin, Acquire, ControlOK
  <2> QED BY <2>5, <2>6
<1>6. CASE MigrateCopy(m)
  <2>1. loc[m].src \in Addr /\ loc[m].addr \in Addr /\ loc[m].ptr \in Ptr
        /\ loc[m].flag \in BOOLEAN
    BY <1>0, <1>6 DEF MigrateCopy, ThreadOK, Heading, Local
  <2>2. LocalsOK'
    BY <1>0, <1>6, <2>1, GoOnOK DEF MigrateCopy
  <2>3. meta' \in [Ptr -> Meta]
    BY <1>6, <2>1 DEF MigrateCopy, MemoryOK, Meta, PresentMeta
  <2>4. hdr' \in [Addr -> Header]
    <3> DEFINE copied == [hdr EXCEPT ![loc[m].addr] = hdr[loc[m].src]]
    <3>1. hdr' = [copied EXCEPT ![loc[m].src].freed = TRUE] BY <1>6 DEF MigrateCopy
    <3>2. copied \in [Addr -> Header] BY <2>1 DEF MemoryOK
    <3> HIDE DEF copied
    <3> QED BY <2>1, <3>1, <3>2 DEF Header
  <2>5. \A p \in Ptr : /\ IsPresent(p)' => meta'[p].addr \in Addr
                       /\ meta'[p].kind = "far" => meta'[p].id \in ObjId
    BY <1>6, <2>1 DEF MigrateCopy, MemoryOK, PresentMeta, IsPresent
  <2>6. MemoryOK' /\ ControlOK'
    BY <1>6, <2>1, <2>3, <2>4, <2>5 DEF MigrateCopy, Unlock, MemoryOK, ControlOK
  <2> QED BY <2>2, <2>6
<1>7. ASSUME NEW v \in Value, Store(m, v)
      PROVE  RestOK'
  <2>1. LocalsOK'
    BY <1>7 DEF Store, LocalsOK, ThreadOK, Heading
  <2>2. MemoryOK' /\ ControlOK'
    BY <1>7 DEF Store, MemoryOK, IsPresent, ControlOK
  <2> QED BY <2>1, <2>2
<1>8. ASSUME loc[m].pc # "idle", loc[m].addr \in Addr, Access(m), gc' = gc
      PROVE  LocalsOK'
  <2>1. loc' \in [Thread -> Local] /\ \A u \in Thread \ {m} : loc'[u] = loc[u]
    BY <1>8 DEF Access, LocalsOK, Local, PC
  <2>2. loc'[m].pc = "access" /\ loc'[m].ptr = loc[m].ptr /\ loc'[m].addr = loc[m].addr
    BY <1>0, <1>8 DEF Access, LocalsOK
  <2>3. loc[m].ptr \in Ptr BY <1>0, <1>8 DEF ThreadOK
  <2>4. ThreadOK(m)'
    BY <1>0, <1>8, <2>2, <2>3 DEF ThreadOK, Heading, Allocating, SlavePC
  <2> QED BY <1>0, <1>8, <2>1, <2>4, OneThreadMoves
<1>9. ASSUME NEW c \in Core, AllocateOnce(m, c)
      PROVE  RestOK'
  <2>1. loc[m].after \in {"build", "re_init"} /\ loc[m].after \in PC /\ gc' = gc
        /\ loc[m].pc = "nb_alloc" /\ almost_empty \in BOOLEAN
    BY <1>0, <1>9 DEF AllocateOnce, ThreadOK, PC, ControlOK
  <2>2. ASSUME AllocateLocal(m, c, FALSE, loc[m].after)
        PROVE  LocalsOK' /\ almost_empty' \in BOOLEAN
    BY <1>0, <2>1, <2>2, AllocateLocalOK DEF Allocating
  <2>3. ASSUME GCCheck, IF loc[m].after = "build" THEN GoIdle(m) ELSE Access(m)
        PROVE  LocalsOK' /\ almost_empty' \in BOOLEAN
    <3>1. almost_empty' \in BOOLEAN BY <2>1, <2>3 DEF GCCheck
    <3>2. CASE loc[m].after = "build"
      BY <1>0, <2>1, <2>3, <3>1, <3>2, GoIdleOK DEF GoIdle
    <3>3. CASE loc[m].after = "re_init"
      <4>1. loc[m].addr \in Addr BY <1>0, <2>1, <3>3 DEF ThreadOK, Heading, Allocating
      <4> QED BY <1>8, <2>1, <2>3, <3>1, <3>3, <4>1
    <3> QED BY <2>1, <3>2, <3>3
  <2>4. LocalsOK' /\ almost_empty' \in BOOLEAN
    BY <1>9, <2>2, <2>3 DEF AllocateOnce
  <2>5. MemoryOK' /\ ControlOK'
    BY <1>9, <2>4, MemoryUntouched DEF AllocateOnce, ControlOK
  <2> QED BY <2>4, <2>5
<1>10. CASE ReallocateBegin(m)
  <2>1. loc[m].addr \in Addr /\ loc[m].ptr \in Ptr
    BY <1>0, <1>10 DEF ReallocateBegin, ThreadOK
  <2>2. PICK a \in Addr : /\ a = loc[m].addr
                          /\ loc' = [loc EXCEPT ![m].src = a, ![m].pc = "nb_alloc",
                                                ![m].after = "re_init"]
    BY <1>10, <2>1 DEF ReallocateBegin
  <2>3. loc' \in [Thread -> Local] /\ \A u \in Thread \ {m} : loc'[u] = loc[u]
    BY <2>2 DEF LocalsOK, Local, PC
  <2>4. ThreadOK(m)'
    BY <1>0, <2>1, <2>2 DEF LocalsOK, Local, ThreadOK, Heading, Allocating, SlavePC
  <2>5. LocalsOK'
    BY <1>0, <1>10, <2>3, <2>4, OneThreadMoves DEF ReallocateBegin
  <2>6. MemoryOK' /\ ControlOK'
    BY <1>10, MemoryUntouched DEF ReallocateBegin, ControlOK
  <2> QED BY <2>5, <2>6
<1>11. ASSUME NEW v \in Value, ReallocateInit(m, v)
       PROVE  RestOK'
  <2>1. loc[m].src \in Addr /\ loc[m].addr \in Addr /\ loc[m].ptr \in Ptr
    BY <1>0, <1>11 DEF ReallocateInit, ThreadOK, Heading
  <2>2. LocalsOK'
    <3>1. gc' = gc /\ loc[m].pc = "re_init" /\ "re_free" \in PC
      BY <1>11 DEF ReallocateInit, PC
    <3>2. ASSUME loc'[m] = [loc[m] EXCEPT !.pc = "re_free"] PROVE ThreadOK(m)'
      BY <1>0, <2>1, <3>1, <3>2 DEF Local, ThreadOK, Heading, Allocating, SlavePC
    <3> QED BY <1>0, <1>11, <3>1, <3>2, GotoOK DEF ReallocateInit
  <2>3. meta' \in [Ptr -> Meta]
    BY <1>11, <2>1 DEF ReallocateInit, MemoryOK, Meta, PresentMeta
  <2>4. hdr' \in [Addr -> Header]
    <3> DEFINE i == IF loc[m].ptr \in Vanilla THEN FreshId(loc[m].ptr) ELSE hdr[loc[m].src].id
    <3>1. i \in ObjId
      BY <1>11, <2>1, FreshIds DEF ReallocateInit, MemoryOK, Header, ObjId
    <3>2. hdr' = [hdr EXCEPT ![loc[m].addr] = NewObject(loc[m].ptr, i)]
      BY <1>11 DEF ReallocateInit
    <3> HIDE DEF i
    <3> QED BY <2>1, <3>1, <3>2 DEF MemoryOK, Header, NewObject
  <2>5. \A p \in Ptr : /\ IsPresent(p)' => meta'[p].addr \in Addr
                       /\ meta'[p].kind = "far" => meta'[p].id \in ObjId
    BY <1>11, <2>1 DEF ReallocateInit, MemoryOK, PresentMeta, IsPresent
  <2>6. MemoryOK' /\ ControlOK'
    <3>1. oid' \in [Ptr -> RemoteId]
      BY <1>11, <2>1, FreshIds DEF ReallocateInit, MemoryOK
    <3> QED BY <1>11, <2>1, <2>3, <2>4, <2>5, <3>1 DEF ReallocateInit, MemoryOK, ControlOK
  <2> QED BY <2>2, <2>6
<1>12. CASE ReallocateFree(m)
  <2>1. loc[m].src \in Addr /\ loc[m].addr \in Addr
    BY <1>0, <1>12 DEF ReallocateFree, ThreadOK
  <2>2. LocalsOK'
    BY <1>8, <1>12, <2>1 DEF ReallocateFree
  <2>3. hdr' \in [Addr -> Header]
    BY <1>12, <2>1 DEF ReallocateFree, MemoryOK, Header
  <2>4. MemoryOK' /\ ControlOK'
    BY <1>12, <2>3 DEF ReallocateFree, MemoryOK, IsPresent, ControlOK
  <2> QED BY <2>2, <2>4
<1> QED BY <1>1, <1>2, <1>3, <1>4, <1>5, <1>6, <1>7, <1>9, <1>10, <1>11, <1>12
        DEF MutatorStep

\* Setting the evacuation bit of a pointer.
LEMMA EvacuationSet ==
  ASSUME MemoryOK, NEW p, meta' = [meta EXCEPT ![p].evac = TRUE], UNCHANGED <<hdr, data, far, oid>>
  PROVE  MemoryOK'
<1>1. meta' \in [Ptr -> Meta]
  <2>1. meta \in [Ptr -> Meta] BY DEF MemoryOK
  <2> QED BY <2>1 DEF Meta
<1>2. \A q \in Ptr : /\ meta'[q].kind = meta[q].kind
                     /\ meta'[q].addr = meta[q].addr
                     /\ meta'[q].id = meta[q].id
  <2>1. meta \in [Ptr -> Meta] BY DEF MemoryOK
  <2> QED BY <2>1 DEF Meta
<1> QED BY <1>1, <1>2 DEF MemoryOK, IsPresent

LEMMA SlaveKeepsTypes ==
  ASSUME TypeInv, NEW s \in Slave, SlaveStep(s)
  PROVE  RestOK'
<1> USE ThreadKinds DEF TypeInv, RestOK, gcVars, poolVars
<1>0. s \in Thread /\ s \notin Swapper /\ ThreadOK(s) /\ loc[s] \in Local
  BY DEF LocalsOK
<1>1. ASSUME NEW a \in Addr, SlaveScan(s, a)
      PROVE  RestOK'
  <2>1. CASE UNCHANGED loc
    <3>1. LocalsOK' BY <1>1, <2>1 DEF SlaveScan, LocalsOK, ThreadOK, Heading
    <3> QED BY <1>1, <3>1, MemoryUntouched DEF SlaveScan, ControlOK
  <2>2. CASE loc' = [loc EXCEPT ![s].pc = "lock", ![s].src = a, ![s].id = hdr[a].id]
    <3>1. PICK i \in ObjId : loc' = [loc EXCEPT ![s].pc = "lock", ![s].src = a, ![s].id = i]
      BY <2>2 DEF MemoryOK, Header
    <3>2. loc' \in [Thread -> Local] /\ \A u \in Thread \ {s} : loc'[u] = loc[u]
      BY <3>1 DEF LocalsOK, Local, PC
    <3>3. gc' = gc /\ gc \in {"mark", "writeback"}
      BY <1>1 DEF SlaveScan
    <3>4. ThreadOK(s)'
      BY <1>0, <3>1, <3>3 DEF LocalsOK, Local, ThreadOK, Heading, Allocating, SlavePC
    <3>5. LocalsOK' BY <1>0, <3>2, <3>3, <3>4, OneThreadMoves
    <3> QED BY <1>1, <3>5, MemoryUntouched DEF SlaveScan, ControlOK
  <2> QED BY <1>1, <2>1, <2>2 DEF SlaveScan
<1>2. ASSUME loc[s].pc \in SlavePC, NEW to \in SlavePC, to # "so_copy", Goto(s, to), gc' = gc
      PROVE  LocalsOK'
  <2>1. ASSUME loc'[s] = [loc[s] EXCEPT !.pc = to] PROVE ThreadOK(s)'
    BY <1>0, <1>2, <2>1 DEF Local, ThreadOK, Heading, Allocating, SlavePC
  <2>2. to \in PC BY DEF PC, SlavePC
  <2> QED BY <1>0, <1>2, <2>1, <2>2, GotoOK
<1>3. CASE SlaveLock(s)
  <2>1. gc \in {"mark", "writeback"}
    BY <1>0, <1>3 DEF SlaveLock, ThreadOK
  <2>2. LocalsOK'
    BY <1>2, <1>3, <2>1 DEF SlaveLock, SlavePC
  <2>3. MemoryOK' /\ ControlOK'
    BY <1>0, <1>3, MemoryUntouched DEF SlaveLock, Acquire, ControlOK
  <2> QED BY <2>2, <2>3
<1>4. CASE SetEvacuation(s)
  <2>1. LocalsOK' BY <1>0, <1>4, GoIdleOK DEF SetEvacuation, GoIdle
  <2>2. UNCHANGED memVars \/ \E p : meta' = [meta EXCEPT ![p].evac = TRUE]
    BY <1>4 DEF SetEvacuation, memVars
  <2>3. MemoryOK'
    BY <1>4, <2>2, MemoryUntouched, EvacuationSet DEF SetEvacuation
  <2>4. ControlOK'
    BY <1>4 DEF SetEvacuation, Unlock, ControlOK
  <2> QED BY <2>1, <2>3, <2>4
<1>5. CASE SwapOutSkip(s)
  <2>1. LocalsOK' BY <1>0, <1>5, GoIdleOK DEF SwapOutSkip, GoIdle
  <2>2. MemoryOK' /\ ControlOK'
    BY <1>5, MemoryUntouched DEF SwapOutSkip, Unlock, ControlOK
  <2> QED BY <2>1, <2>2
<1>6. CASE SwapOutDecide(s)
  <2>1. loc[s].src \in Addr
    BY <1>0, <1>6 DEF SwapOutDecide, ThreadOK, SlavePC
  <2>2. PICK p \in Ptr \cup {NULL}, d \in BOOLEAN, to \in {"so_alloc", "so_write"} :
           loc' = [loc EXCEPT ![s].ptr = p, ![s].flag = d, ![s].pc = to]
    <3>1. hdr[loc[s].src].ptr \in Ptr \cup {NULL}
      BY <2>1 DEF MemoryOK, Header
    <3>2. IsDirty(hdr[loc[s].src].ptr) \in BOOLEAN
      BY DEF IsDirty
    <3> QED BY <1>6, <3>1, <3>2 DEF SwapOutDecide
  <2>3. loc' \in [Thread -> Local] /\ \A u \in Thread \ {s} : loc'[u] = loc[u]
    <3>1. to \in PC BY DEF PC
    <3>2. [loc[s] EXCEPT !.ptr = p, !.flag = d, !.pc = to] \in Local
      BY <1>0, <3>1 DEF Local
    <3> QED BY <2>2, <3>2 DEF LocalsOK
  <2>4. gc' = gc /\ loc[s].pc = "writeback"
    BY <1>6 DEF SwapOutDecide
  <2>5. ThreadOK(s)'
    BY <1>0, <2>2, <2>4 DEF LocalsOK, Local, ThreadOK, Heading, Allocating, SlavePC
  <2>6. LocalsOK' BY <1>0, <2>3, <2>4, <2>5, OneThreadMoves
  <2>7. MemoryOK' /\ ControlOK'
    BY <1>6, MemoryUntouched DEF SwapOutDecide, ControlOK
  <2> QED BY <2>6, <2>7
<1>7. ASSUME NEW c \in Core, SwapOutAllocate(s, c)
      PROVE  RestOK'
  <2>1. loc[s].pc = "so_alloc" /\ gc' = gc /\ almost_empty \in BOOLEAN /\ "so_copy" \in PC
    BY <1>7 DEF SwapOutAllocate, ControlOK, PC
  <2>2. ASSUME AllocateLocal(s, c, FALSE, "so_copy")
        PROVE  LocalsOK' /\ almost_empty' \in BOOLEAN
    BY <1>0, <2>1, <2>2, AllocateLocalOK
  <2>3. ASSUME RefillFails(c), GCCheck, Goto(s, "so_write")
        PROVE  LocalsOK' /\ almost_empty' \in BOOLEAN
    BY <1>2, <2>1, <2>3 DEF GCCheck, SlavePC
  <2>4. LocalsOK' /\ almost_empty' \in BOOLEAN
    BY <1>7, <2>2, <2>3 DEF SwapOutAllocate
  <2>5. MemoryOK' /\ ControlOK'
    BY <1>7, <2>4, MemoryUntouched DEF SwapOutAllocate, ControlOK
  <2> QED BY <2>4, <2>5
<1>8. CASE SwapOutCopy(s)
  <2>1. loc[s].src \in Addr /\ loc[s].addr \in Addr
    BY <1>0, <1>8 DEF SwapOutCopy, ThreadOK, SlavePC
  <2>2. LocalsOK' BY <1>0, <1>8, GoIdleOK DEF SwapOutCopy, GoIdle
  <2>3. meta' \in [Ptr -> Meta] /\ hdr' \in [Addr -> Header]
    BY <1>8, <2>1 DEF SwapOutCopy, MemoryOK, Meta, PresentMeta
  <2>4. \A p \in Ptr : /\ IsPresent(p)' => meta'[p].addr \in Addr
                       /\ meta'[p].kind = "far" => meta'[p].id \in ObjId
    BY <1>8, <2>1 DEF SwapOutCopy, MemoryOK, PresentMeta, IsPresent
  <2>5. MemoryOK' /\ ControlOK'
    BY <1>8, <2>1, <2>3, <2>4 DEF SwapOutCopy, Unlock, MemoryOK, ControlOK
  <2> QED BY <2>2, <2>5
<1>9. CASE SwapOutWrite(s)
  <2>1. loc[s].pc = "so_write" /\ gc' = gc /\ loc[s].src \in Addr
    BY <1>0, <1>9 DEF SwapOutWrite, ThreadOK, SlavePC
  <2>2. LocalsOK'
    BY <1>2, <1>9, <2>1 DEF SwapOutWrite, SlavePC
  <2>3. MemoryOK' /\ ControlOK'
    BY <1>9, <2>1 DEF SwapOutWrite, MemoryOK, IsPresent, ControlOK
  <2> QED BY <2>2, <2>3
<1>10. CASE SwapOutMeta(s)
  <2>1. loc[s].id \in ObjId
    BY <1>0, <1>10 DEF SwapOutMeta, ThreadOK, SlavePC
  <2>2. LocalsOK' BY <1>0, <1>10, GoIdleOK DEF SwapOutMeta, GoIdle
  <2>3. MemoryOK'
    BY <1>10, <2>1 DEF SwapOutMeta, MemoryOK, Meta, FarMeta, IsPresent
  <2>4. ControlOK'
    BY <1>10 DEF SwapOutMeta, Unlock, ControlOK
  <2> QED BY <2>2, <2>3, <2>4
<1> QED BY <1>1, <1>3, <1>4, <1>5, <1>6, <1>7, <1>8, <1>9, <1>10 DEF SlaveStep

LEMMA MasterKeepsTypes ==
  ASSUME TypeInv, MasterStep
  PROVE  RestOK'
<1> USE DEF TypeInv, RestOK, gcOnly
<1>1. SlavesIdle \/ gc \in {"mark", "writeback"}
  BY ThreadKinds DEF SlavesIdle, LocalsOK, ThreadOK
<1>2. ASSUME UNCHANGED loc, SlavesIdle \/ gc' = gc PROVE LocalsOK'
  BY <1>2 DEF LocalsOK, ThreadOK, Heading, SlavesIdle
<1>3. CASE GCStart \/ GCLoop \/ GCPickDone \/ GCFlip \/ GCObserved \/ GCWrittenBack
           \/ GCRoundDone \/ \E r \in Region : GCPick(r)
  <2>1. LocalsOK'
    BY <1>1, <1>2, <1>3 DEF GCStart, GCLoop, GCPickDone, GCFlip, GCObserved,
                            GCWrittenBack, GCRoundDone, GCPick
  <2>2. MemoryOK'
    BY <1>3, MemoryUntouched DEF GCStart, GCLoop, GCPickDone, GCFlip, GCObserved,
                                 GCWrittenBack, GCRoundDone, GCPick
  <2>3. ControlOK'
    BY <1>3 DEF GCStart, GCLoop, GCPickDone, GCFlip, GCObserved, GCWrittenBack,
                GCRoundDone, GCPick, ControlOK, Objects, OtherFlag
  <2> QED BY <2>1, <2>2, <2>3
<1>4. ASSUME NEW r \in Region, GCRelease(r)
      PROVE  RestOK'
  <2>1. LocalsOK' BY <1>1, <1>2, <1>4 DEF GCRelease
  <2>2. hdr' \in [Addr -> Header]
    BY <1>4 DEF GCRelease, MemoryOK, NoObject, Header, ObjId
  <2>3. MemoryOK' /\ ControlOK'
    BY <1>4, <2>2 DEF GCRelease, MemoryOK, IsPresent, ControlOK
  <2> QED BY <2>1, <2>3
<1> QED BY <1>3, <1>4 DEF MasterStep

LEMMA TypesKept ==
  ASSUME TypeInv, [Next]_vars
  PROVE  RestOK'
<1>1. CASE UNCHANGED vars
  BY <1>1 DEF vars, memVars, poolVars, gcVars, TypeInv, RestOK, LocalsOK, ThreadOK, Heading,
              MemoryOK, IsPresent, ControlOK
<1>2. CASE Next
  <2>1. CASE \E m \in Mutator : MutatorStep(m)
    BY <2>1, MutatorKeepsTypes
  <2>2. CASE \E t \in Swapper : SwapperStep(t)
    BY <2>2, SwapInKeepsTypes, AllocationKeepsTypes DEF SwapperStep
  <2>3. CASE \E t \in Scoped : DerefFar(t) \/ ScopeExit(t)
    BY <2>3, ScopesKeepTypes
  <2>4. CASE \E f \in Prefetcher : PrefetchSkip(f) \/ \E p \in Ptr : Prefetch(f, p)
    BY <2>4, ScopesKeepTypes, ThreadKinds
  <2>5. CASE \E g \in Pager, p \in Ptr : PagerVisit(g, p)
    BY <2>5, PagerKeepsTypes
  <2>6. CASE \E s \in Slave : SlaveStep(s)
    BY <2>6, SlaveKeepsTypes
  <2>7. CASE MasterStep
    BY <2>7, MasterKeepsTypes
  <2>8. CASE Exited
    BY <1>1, <2>8 DEF Exited
  <2> QED BY <1>2, <2>1, <2>2, <2>3, <2>4, <2>5, <2>6, <2>7, <2>8 DEF Next
<1> QED BY <1>1, <1>2

LEMMA TypesAtFirst ==
  ASSUME Init
  PROVE  RestOK
<1>1. LocalsOK
  <2>1. \A t \in Thread : loc[t] = Idle BY DEF Init
  <2>2. Idle.pc = "idle" BY DEF Idle
  <2> QED BY <2>1, <2>2, IdleIsLocal
          DEF Init, LocalsOK, ThreadOK, Heading, Allocating, SlavePC
<1>2. MemoryOK
  <2>1. NullMeta \in Meta /\ NullMeta.kind = "null"
    BY DEF NullMeta, Meta
  <2>2. NoObject \in Header
    BY DEF NoObject, Header, ObjId
  <2>3. oid \in [Ptr -> RemoteId]
    BY ConstantsOK DEF Init, RemoteId
  <2> QED BY <2>1, <2>2, <2>3 DEF Init, MemoryOK, IsPresent
<1>3. ControlOK
  BY DEF Init, ControlOK
<1> QED BY <1>1, <1>2, <1>3 DEF RestOK

LEMMA TypeInvHolds == Spec => []TypeInv
<1>1. Init /\ PoolInv => TypeInv
  <2>1. Init => IdsOwned BY DEF IdsOwned, Init
  <2> QED BY <2>1, TypesAtFirst DEF TypeInv
<1>2. TypeInv /\ [Next]_vars /\ PoolInv' => TypeInv'
  BY TypesKept, IdsKept DEF TypeInv
<1> QED BY <1>1, <1>2, PoolInvHolds, PTL DEF Spec

\* Every field keeps its type in every behaviour, with pagers or without: what a
\* thread reads from its own variables at any point has been set on the way there
\* (an address after every allocation, an id before every lock), and a region is
\* never filled beyond its end.
THEOREM TypesHold == Spec => []TypeOK
<1>1. TypeInv => TypeOK
  BY DEF TypeInv, PoolInv, PoolTypeOK, RestOK, LocalsOK, MemoryOK, ControlOK, TypeOK
<1> QED BY <1>1, TypeInvHolds, PTL
=============================================================================
