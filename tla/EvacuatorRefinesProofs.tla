----------------------- MODULE EvacuatorRefinesProofs -----------------------
(***************************************************************************)
(* The cache's regions are a pool, for every number of regions, cores and  *)
(* threads: each pool step of EvacuatorProofs is a step of RegionPool.     *)
(* And the cache is the memory the application is promised, whatever swaps *)
(* in, writes back and moves: each step of it is a step of FarMemory or    *)
(* leaves contents and views alone.                                        *)
(***************************************************************************)
EXTENDS EvacuatorRefines, EvacuatorRound

pinned == {r \in Region : pins[r] # {}}

LEMMA PoolInitImplements ==
  ASSUME Init
  PROVE  Pool!Init
<1>1. pinned = {} BY DEF Init, pinned
<1>2. open \in [Core -> Region] /\ \A c, d \in Core : open[c] = open[d] => c = d
  BY DEF Init
<1> QED BY <1>1, <1>2 DEF Init, Pool!Init, pinned

\* Handing out a slot pins its region and no other.
LEMMA HandedPins ==
  ASSUME PoolInv, NEW t \in Thread, NEW r \in Region, Handed(t, r)
  PROVE  pinned' = pinned \cup {r}
<1>1. \A q \in Region : pins'[q] = IF q = r THEN pins[q] \cup {t} ELSE pins[q]
  BY DEF Handed, PoolInv, PoolTypeOK
<1> QED BY <1>1 DEF pinned

LEMMA PoolStepImplements ==
  ASSUME PoolInv, PoolStep
  PROVE  Pool!Next \/ UNCHANGED Pool!vars
<1> USE NullIsNoRegion
<1>1. ASSUME NEW t \in Thread, NEW c \in Core, BumpOpen(t, c)
      PROVE  Pool!Next
  <2>1. open[c] \in Region /\ open[c] # NULL
    BY <1>1 DEF BumpOpen, HasRoom, PoolInv, PoolTypeOK
  <2>2. pinned' = pinned \cup {open[c]}
    BY <1>1, <2>1, HandedPins DEF BumpOpen
  <2>3. Pool!Pin(c)
    BY <1>1, <2>1, <2>2 DEF BumpOpen, Pool!Pin, pinned
  <2> QED BY <2>3 DEF Pool!Next
<1>2. ASSUME NEW t \in Thread, NEW c \in Core, NEW r \in Region, Refill(t, c, r)
      PROVE  Pool!Next
  <2>1. pinned' = pinned \cup {r}
    BY <1>2, HandedPins DEF Refill
  <2>2. Pool!Refill(c, r)
    BY <1>2, <2>1 DEF Refill, Pool!Refill, pinned
  <2> QED BY <2>2 DEF Pool!Next
<1>3. ASSUME NEW c \in Core, RefillLost(c)
      PROVE  Pool!Next
  <2>1. pinned' = pinned
    BY <1>3 DEF RefillLost, RefillFails, pinned
  <2>2. Pool!RunDry(c)
    BY <1>3, <2>1 DEF RefillLost, RefillFails, Pool!RunDry, pinned
  <2> QED BY <2>2 DEF Pool!Next
<1>4. ASSUME NEW t \in Thread, NEW r, Unpin(t, r)
      PROVE  Pool!Next \/ UNCHANGED Pool!vars
  <2>1. \A q \in Region : pins'[q] = IF q = r THEN pins[q] \ {t} ELSE pins[q]
    BY <1>4 DEF Unpin, PoolInv, PoolTypeOK
  <2>2. CASE r \in Region /\ pins'[r] = {}
    <3>1. pinned' = pinned \ {r} BY <2>1, <2>2 DEF pinned
    <3>2. Pool!Unpin(r) BY <1>4, <3>1 DEF Unpin, Pool!Unpin, pinned
    <3> QED BY <2>2, <3>2 DEF Pool!Next
  <2>3. CASE r \notin Region \/ pins'[r] # {}
    <3>1. pinned' = pinned BY <2>1, <2>3 DEF pinned
    <3> QED BY <1>4, <3>1 DEF Unpin, Pool!vars, pinned
  <2> QED BY <2>2, <2>3
<1>5. ASSUME NEW r \in Region, Pick(r)
      PROVE  Pool!Next
  <2>1. Pool!Pick(r)
    BY <1>5 DEF Pick, Pool!Pick
  <2> QED BY <2>1 DEF Pool!Next
<1>6. ASSUME NEW r \in Region, Release(r)
      PROVE  Pool!Next
  <2>1. pins[r] = {}
    BY <1>6 DEF Release, PoolInv, PinnedNotReclaimed
  <2>2. pins' = pins
    BY <1>6, <2>1 DEF Release, PoolInv, PoolTypeOK
  <2>3. Pool!Release(r)
    BY <1>6, <2>2 DEF Release, Pool!Release
  <2> QED BY <2>3 DEF Pool!Next
<1> QED BY <1>1, <1>2, <1>3, <1>4, <1>5, <1>6 DEF PoolStep

\* The evacuating cache implements RegionPool for every number of regions, cores
\* and threads: a slot handed out pins an open region, a failed refill leaves the
\* core without one, and the master moves only unpinned used regions.
THEOREM RegionsArePool == Spec => ImplementsPool
<1>1. Init => Pool!Init
  BY PoolInitImplements
<1>2. PoolInv /\ [Next]_vars => [Pool!Next]_Pool!vars
  <2> SUFFICES ASSUME PoolInv, [Next]_vars PROVE Pool!Next \/ UNCHANGED Pool!vars OBVIOUS
  <2>1. CASE PoolStep
    BY <2>1, PoolStepImplements
  <2>2. CASE UNCHANGED poolState
    BY <2>2 DEF poolState, Pool!vars
  <2>3. CASE UNCHANGED vars
    BY <2>2, <2>3 DEF vars, poolState, poolVars, gcVars
  <2> QED BY <2>1, <2>2, <2>3, NextIsPoolStep DEF PoolInv
<1> QED BY <1>1, <1>2, PoolInvHolds, PTL DEF Spec, ImplementsPool, Pool!Spec

-----------------------------------------------------------------------------
(* The memory.  A mutator has a view while it holds a raw address.          *)

Viewing(m) == loc[m].pc = "access" \/ Reallocating(m)

ViewKept(m) ==
  /\ Viewing(m)' <=> Viewing(m)
  /\ Viewing(m) => loc'[m].ptr = loc[m].ptr /\ loc'[m].flag = loc[m].flag

\* What FarMemory sees of a mutator, and of all.
ViewOf(m) == IF Viewing(m) THEN [ptr |-> loc[m].ptr, write |-> loc[m].flag,
                                 val |-> Lead(loc[m].ptr)]
                           ELSE NULL

\* Only one thread's locals change in a step.
OneMoves(t) == \A u \in Thread \ {t} : loc'[u] = loc[u]

LEMMA OneViewKept ==
  ASSUME NEW t, OneMoves(t), t \in Mutator => ViewKept(t)
  PROVE  \A m \in Mutator : ViewKept(m)
<1> SUFFICES ASSUME NEW m \in Mutator, m # t PROVE ViewKept(m) OBVIOUS
<1>1. loc'[m] = loc[m] BY ThreadKinds DEF OneMoves
<1> QED BY <1>1 DEF ViewKept, Viewing, Reallocating

LEMMA NoViewsMove ==
  ASSUME UNCHANGED loc
  PROVE  \A m \in Mutator : ViewKept(m)
BY DEF ViewKept, Viewing, Reallocating

\* A mutator that works through a view has dereferenced a present pointer, and what
\* the raw address shows is what the pointer leads to.
LEMMA ViewShows ==
  ASSUME CacheInv, TypeInv, NEW m \in Mutator, Viewing(m)
  PROVE  /\ loc[m].ptr \in Ptr /\ IsPresent(loc[m].ptr) /\ loc[m].flag \in BOOLEAN
         /\ Lead(loc[m].ptr) \in Value /\ Lead(loc[m].ptr) = Current(loc[m].ptr)
         /\ ~Reallocating(m) => data[loc[m].addr] = Lead(loc[m].ptr)
<1> USE ThreadKinds
<1>0. m \in Thread /\ m \in Swapper /\ MutatorOK(m) /\ ThreadOK(m) /\ loc[m].pc # "idle"
  BY DEF CacheInv, ThreadsInv, LocalInv, TypeInv, RestOK, LocalsOK, Viewing, Reallocating
<1>1. loc[m].ptr \in Ptr /\ loc[m].flag \in BOOLEAN
  BY <1>0 DEF ThreadOK, TypeInv, RestOK, LocalsOK, Local
<1>2. IsPresent(loc[m].ptr)
  BY <1>0 DEF MutatorOK, HasHandle, Heading, Allocating, Viewing, Reallocating
<1>3. Lead(loc[m].ptr) = Current(loc[m].ptr)
  BY <1>2 DEF Lead, IsNull, IsPresent
<1>4. Lead(loc[m].ptr) \in Value
  BY <1>1, <1>2, <1>3, LeadValue DEF IsNull, IsPresent
<1>5. ~Reallocating(m) => data[loc[m].addr] = Lead(loc[m].ptr)
  BY <1>0, <1>2, <1>3 DEF MutatorOK, HasHandle, HandleOf, Viewing, Current
<1> QED BY <1>1, <1>2, <1>3, <1>4, <1>5

Mapped == Leads = [p \in Ptr |-> Lead(p)] /\ Shown = [m \in Mutator |-> ViewOf(m)]

LEMMA MappedHolds == CacheInv /\ TypeInv => Mapped
<1> SUFFICES ASSUME CacheInv, TypeInv PROVE Mapped OBVIOUS
<1>1. ASSUME NEW m \in Mutator, Viewing(m)
      PROVE  (IF Reallocating(m) THEN Current(loc[m].ptr) ELSE data[loc[m].addr])
             = Lead(loc[m].ptr)
  BY <1>1, ViewShows
<1> QED BY <1>1 DEF Mapped, Leads, Shown, Lead, ViewOf, Viewing

LEMMA MappedNext == CacheInv' /\ TypeInv' => Mapped'
BY MappedHolds, PTL

\* An allocation that succeeds sends its thread on, and no other.
LEMMA AllocateMoves ==
  ASSUME TypeInv, NEW t \in Thread, NEW c, NEW refilled, NEW next,
         AllocateLocal(t, c, refilled, next)
  PROVE  /\ OneMoves(t) /\ loc'[t].pc = next
         /\ loc'[t].ptr = loc[t].ptr /\ loc'[t].flag = loc[t].flag
<1>1. \E a : loc' = [loc EXCEPT ![t].addr = a, ![t].pc = next]
  BY DEF AllocateLocal, Bump
<1> QED BY <1>1 DEF OneMoves, TypeInv, RestOK, LocalsOK, Local

\* swap_in and the allocations it waits for give no view and take none.
LEMMA SwapperViews ==
  ASSUME CacheInv, TypeInv, NEW t \in Swapper, SwapperStep(t)
  PROVE  \A m \in Mutator : ViewKept(m)
<1> USE ThreadKinds
<1>0. t \in Thread /\ KindOK(t)
  BY DEF CacheInv, ThreadsInv, LocalInv
<1>1. SUFFICES OneMoves(t) /\ ~Viewing(t) /\ ~Viewing(t)'
  BY <1>1, OneViewKept DEF ViewKept
<1>2. ASSUME Return(t), loc[t].pc \in {"si_check", "si_recheck", "si_finish"}
      PROVE  OneMoves(t) /\ ~Viewing(t) /\ ~Viewing(t)'
  BY <1>2, ReturnBecomes DEF Becomes, OneMoves, Viewing, Reallocating
<1>3. ASSUME NEW to, Goto(t, to), to \notin {"access", "re_init", "re_free", "nb_alloc"},
             loc[t].pc \notin {"access", "re_init", "re_free", "nb_alloc"}
      PROVE  OneMoves(t) /\ ~Viewing(t) /\ ~Viewing(t)'
  BY <1>0, <1>3, GotoBecomes DEF Becomes, OneMoves, Viewing, Reallocating
<1>4. CASE SwapInReadId(t)
  <2>1. Becomes(t, "si_check", loc[t].ptr, GetObjectId(loc[t].ptr), loc[t].addr, loc[t].src,
                loc[t].flag, loc[t].after)
    BY <1>0, <1>4 DEF SwapInReadId, Becomes, TypeInv, RestOK, LocalsOK, Local
  <2> QED BY <1>4, <2>1 DEF SwapInReadId, Becomes, OneMoves, Viewing, Reallocating
<1>5. CASE SwapInCheck(t) BY <1>2, <1>3, <1>5 DEF SwapInCheck
<1>6. CASE SwapInLock(t) BY <1>3, <1>6 DEF SwapInLock
<1>7. CASE SwapInRecheck(t)
  <2>1. CASE IsPresent(loc[t].ptr) BY <1>2, <1>7, <2>1 DEF SwapInRecheck
  <2>2. CASE ~IsPresent(loc[t].ptr)
    <3>1. OneMoves(t) /\ loc[t].pc = "si_recheck" /\ loc'[t].pc = "alloc"
      BY <1>0, <1>7, <2>2 DEF SwapInRecheck, OneMoves, TypeInv, RestOK, LocalsOK, Local
    <3> QED BY <3>1 DEF Viewing, Reallocating
  <2> QED BY <2>1, <2>2
<1>8. CASE SwapInFetch(t) BY <1>3, <1>8 DEF SwapInFetch
<1>9. CASE SwapInPresent(t) BY <1>3, <1>9 DEF SwapInPresent
<1>10. CASE SwapInFinish(t) BY <1>2, <1>10 DEF SwapInFinish
<1>11. CASE WaitForGC(t) BY <1>3, <1>11 DEF WaitForGC
<1>12. ASSUME NEW c \in Core, AllocateBlocking(t, c)
       PROVE  OneMoves(t) /\ ~Viewing(t) /\ ~Viewing(t)'
  <2>1. /\ loc[t].pc \in {"alloc", "realloc"}
        /\ loc[t].after \in {"fetch", "build", "copy"}
    BY <1>0, <1>12 DEF AllocateBlocking, KindOK, Allocating
  <2>2. OneMoves(t) /\ loc'[t].pc = loc[t].after
    BY <1>0, <1>12, AllocateMoves DEF AllocateBlocking
  <2> QED BY <2>1, <2>2 DEF Viewing, Reallocating
<1>13. ASSUME NEW c \in Core, AllocateFails(t, c)
       PROVE  OneMoves(t) /\ ~Viewing(t) /\ ~Viewing(t)'
  <2>1. CASE UNCHANGED loc
    BY <1>13, <2>1 DEF AllocateFails, OneMoves, Viewing, Reallocating
  <2> QED BY <1>3, <1>13, <2>1 DEF AllocateFails
<1> QED BY <1>4, <1>5, <1>6, <1>7, <1>8, <1>9, <1>10, <1>11, <1>12, <1>13
        DEF SwapperStep, SwapIn

\* Only a dereference gives a view, and only the end of the scope takes it: neither an
\* allocation, a migration nor a reallocation does.
LEMMA MutatorViews ==
  ASSUME CacheInv, TypeInv, NEW m \in Mutator, MutatorStep(m), ~DerefPresent(m)
  PROVE  \A n \in Mutator : ViewKept(n)
<1> USE ThreadKinds
<1>0. m \in Thread /\ KindOK(m) /\ ThreadOK(m)
  BY DEF CacheInv, ThreadsInv, LocalInv, TypeInv, RestOK, LocalsOK
<1>1. SUFFICES OneMoves(m) /\ ViewKept(m)
  BY <1>1, OneViewKept
<1> USE DEF OneMoves, ViewKept, Viewing, Reallocating
<1>2. ASSUME NEW p \in Ptr, NEW how \in {"alloc", "nb_alloc"}, AllocatePtr(m, p, how)
      PROVE  OneMoves(m) /\ ViewKept(m)
  <2>1. /\ OneMoves(m) /\ loc[m].pc = "idle" /\ loc'[m].pc = how /\ loc'[m].after = "build"
    BY <1>0, <1>2 DEF AllocatePtr, TypeInv, RestOK, LocalsOK, Local
  <2> QED BY <2>1
<1>3. ASSUME NEW p \in Ptr, NEW w \in BOOLEAN, ScopeEnter(m, p, w)
      PROVE  OneMoves(m) /\ ViewKept(m)
  <2>1. OneMoves(m) /\ loc[m].pc = "idle" /\ loc'[m].pc = "deref"
    BY <1>0, <1>3 DEF ScopeEnter, TypeInv, RestOK, LocalsOK, Local
  <2> QED BY <2>1
<1>4. ASSUME NEW c \in Core, AllocateOnce(m, c)
      PROVE  OneMoves(m) /\ ViewKept(m)
  <2>1. loc[m].pc = "nb_alloc" /\ loc[m].after \in {"build", "re_init"}
    BY <1>0, <1>4 DEF AllocateOnce, ThreadOK
  <2>2. CASE AllocateLocal(m, c, FALSE, loc[m].after)
    <3>1. /\ OneMoves(m) /\ loc'[m].pc = loc[m].after
          /\ loc'[m].ptr = loc[m].ptr /\ loc'[m].flag = loc[m].flag
      BY <1>0, <2>2, AllocateMoves
    <3> QED BY <2>1, <3>1
  <2>3. CASE loc[m].after = "build" /\ GoIdle(m)
    <3>1. OneMoves(m) /\ loc'[m].pc = "idle" BY <1>0, <2>3, IdleBecomes DEF Becomes
    <3> QED BY <2>1, <2>3, <3>1
  <2>4. CASE loc[m].after = "re_init" /\ Access(m)
    <3>1. /\ OneMoves(m) /\ loc'[m].pc = "access"
          /\ loc'[m].ptr = loc[m].ptr /\ loc'[m].flag = loc[m].flag
      BY <1>0, <2>4 DEF Access, TypeInv, RestOK, LocalsOK, Local
    <3> QED BY <2>1, <2>4, <3>1
  <2> QED BY <1>4, <2>1, <2>2, <2>3, <2>4 DEF AllocateOnce
<1>5. CASE BuildObject(m)
  <2>1. OneMoves(m) /\ loc[m].pc = "build" /\ loc'[m].pc = "idle"
    BY <1>0, <1>5, IdleBecomes DEF BuildObject, Becomes
  <2> QED BY <2>1
<1>6. CASE MigrateBegin(m)
  <2>1. OneMoves(m) /\ loc[m].pc = "deref" /\ loc'[m].pc = "alloc"
    BY <1>0, <1>6 DEF MigrateBegin, TypeInv, RestOK, LocalsOK, Local
  <2> QED BY <2>1
<1>7. CASE MigrateCopy(m)
  <2>1. OneMoves(m) /\ loc[m].pc = "copy" /\ loc'[m].pc = "deref"
    BY <1>0, <1>7 DEF MigrateCopy, Idle, TypeInv, RestOK, LocalsOK
  <2> QED BY <2>1
<1>8. CASE ReallocateBegin(m)
  <2>1. /\ OneMoves(m) /\ loc[m].pc = "access" /\ loc'[m].pc = "nb_alloc"
        /\ loc'[m].after = "re_init" /\ loc'[m].ptr = loc[m].ptr /\ loc'[m].flag = loc[m].flag
    BY <1>0, <1>8 DEF ReallocateBegin, TypeInv, RestOK, LocalsOK, Local
  <2> QED BY <2>1
<1>9. CASE ReallocateFree(m)
  <2>1. /\ OneMoves(m) /\ loc[m].pc = "re_free" /\ loc'[m].pc = "access"
        /\ loc'[m].ptr = loc[m].ptr /\ loc'[m].flag = loc[m].flag
    BY <1>0, <1>9 DEF ReallocateFree, Access, TypeInv, RestOK, LocalsOK, Local
  <2> QED BY <2>1
<1>10. ASSUME NEW v \in Value, Store(m, v)
       PROVE  OneMoves(m) /\ ViewKept(m)
  BY <1>10 DEF Store
<1>11. ASSUME NEW v \in Value, ReallocateInit(m, v)
       PROVE  OneMoves(m) /\ ViewKept(m)
  <2>1. /\ OneMoves(m) /\ loc[m].pc = "re_init" /\ loc'[m].pc = "re_free"
        /\ loc'[m].ptr = loc[m].ptr /\ loc'[m].flag = loc[m].flag
    BY <1>0, <1>11, GotoBecomes DEF ReallocateInit, Becomes
  <2> QED BY <2>1
<1> QED BY <1>2, <1>3, <1>4, <1>5, <1>6, <1>7, <1>8, <1>9, <1>10, <1>11 DEF MutatorStep

\* No slave has a view.
LEMMA SlaveViews ==
  ASSUME CacheInv, TypeInv, NEW s \in Slave, SlaveStep(s)
  PROVE  \A n \in Mutator : ViewKept(n)
<1> USE ThreadKinds
<1>1. SUFFICES OneMoves(s)
  BY <1>1, OneViewKept
<1>2. ASSUME NEW to, Goto(s, to) PROVE OneMoves(s)
  BY <1>2, GotoBecomes DEF Becomes, OneMoves
<1>3. ASSUME GoIdle(s) PROVE OneMoves(s)
  BY <1>3, IdleBecomes DEF Becomes, OneMoves
<1>4. ASSUME UNCHANGED loc PROVE OneMoves(s)
  BY <1>4 DEF OneMoves
<1>5. ASSUME NEW a \in Addr, SlaveScan(s, a) PROVE OneMoves(s)
  BY <1>4, <1>5 DEF SlaveScan, OneMoves, TypeInv, RestOK, LocalsOK
<1>6. CASE SlaveLock(s) BY <1>2, <1>6 DEF SlaveLock
<1>7. CASE SetEvacuation(s) BY <1>3, <1>7 DEF SetEvacuation
<1>8. CASE SwapOutSkip(s) BY <1>3, <1>8 DEF SwapOutSkip
<1>9. CASE SwapOutDecide(s) BY <1>9 DEF SwapOutDecide, OneMoves, TypeInv, RestOK, LocalsOK
<1>10. ASSUME NEW c \in Core, SwapOutAllocate(s, c) PROVE OneMoves(s)
  BY <1>2, <1>3, <1>10, AllocateMoves DEF SwapOutAllocate
<1>11. CASE SwapOutCopy(s) BY <1>3, <1>11 DEF SwapOutCopy
<1>12. CASE SwapOutWrite(s) BY <1>2, <1>12 DEF SwapOutWrite
<1>13. CASE SwapOutMeta(s) BY <1>3, <1>13 DEF SwapOutMeta
<1> QED BY <1>5, <1>6, <1>7, <1>8, <1>9, <1>10, <1>11, <1>12, <1>13 DEF SlaveStep

\* Prefetchers and pagers have none either.
LEMMA HelperViews ==
  ASSUME CacheInv, TypeInv,
         \/ \E t \in Scoped : DerefFar(t) \/ (ScopeExit(t) /\ loc[t].pc = "leave")
         \/ \E f \in Prefetcher : PrefetchSkip(f) \/ \E p \in Ptr : Prefetch(f, p)
         \/ \E g \in Pager, p \in Ptr : PagerVisit(g, p)
  PROVE  \A n \in Mutator : ViewKept(n)
<1> USE ThreadKinds DEF OneMoves, ViewKept, Viewing, Reallocating
<1>1. ASSUME NEW t \in Scoped, DerefFar(t) PROVE \A n \in Mutator : ViewKept(n)
  <2>1. OneMoves(t) /\ loc[t].pc = "deref" /\ loc'[t].pc = "si_read"
    BY <1>1, GotoBecomes DEF DerefFar, Becomes
  <2> QED BY <2>1, OneViewKept
<1>2. ASSUME NEW t \in Scoped, ScopeExit(t), loc[t].pc = "leave"
      PROVE  \A n \in Mutator : ViewKept(n)
  <2>1. OneMoves(t) /\ loc'[t].pc = "idle"
    BY <1>2, IdleBecomes DEF ScopeExit, Becomes
  <2> QED BY <1>2, <2>1, OneViewKept
<1>3. ASSUME NEW f \in Prefetcher, PrefetchSkip(f) PROVE \A n \in Mutator : ViewKept(n)
  <2>1. OneMoves(f) BY <1>3, GotoBecomes DEF PrefetchSkip, Becomes
  <2> QED BY <2>1, OneViewKept
<1>4. ASSUME NEW f \in Prefetcher, NEW p \in Ptr, Prefetch(f, p)
      PROVE  \A n \in Mutator : ViewKept(n)
  <2>1. OneMoves(f) BY <1>4 DEF Prefetch, TypeInv, RestOK, LocalsOK
  <2> QED BY <2>1, OneViewKept
<1>5. ASSUME NEW g \in Pager, NEW p \in Ptr, PagerVisit(g, p)
      PROVE  \A n \in Mutator : ViewKept(n)
  <2>1. OneMoves(g) /\ loc[g].pc = "idle" /\ loc'[g].pc = "si_read"
    BY <1>5 DEF PagerVisit, TypeInv, RestOK, LocalsOK, Local
  <2> QED BY <2>1, OneViewKept
<1> QED BY <1>1, <1>2, <1>3, <1>4, <1>5

\* So views come and go with dereferences and scopes only.
LEMMA StepViews ==
  ASSUME CacheInv, TypeInv, [Next]_vars
  PROVE  \/ \A n \in Mutator : ViewKept(n)
         \/ \E m \in Mutator : DerefPresent(m)
         \/ \E m \in Mutator : ScopeExit(m) /\ loc[m].pc = "access"
<1> USE ThreadKinds
<1>1. CASE UNCHANGED vars BY <1>1, NoViewsMove DEF vars
<1>2. CASE MasterStep BY <1>2, MasterAlone, NoViewsMove
<1>3. ASSUME NEW t \in Scoped, ScopeExit(t)
      PROVE  loc[t].pc = "leave" \/ (t \in Mutator /\ loc[t].pc = "access")
  <2>1. KindOK(t) BY DEF CacheInv, ThreadsInv, LocalInv
  <2> QED BY <1>3, <2>1 DEF ScopeExit, KindOK
<1> QED BY <1>1, <1>2, <1>3, MutatorViews, SwapperViews, SlaveViews, HelperViews DEF Next, Exited

\* What a mutator that keeps its view sees in the next state.
LEMMA KeptView ==
  ASSUME NEW m \in Mutator, ViewKept(m), NEW p, p = loc[m].ptr
  PROVE  ViewOf(m)' = IF Viewing(m) THEN [ptr |-> p, write |-> loc[m].flag, val |-> Lead(p)']
                                    ELSE NULL
<1>1. CASE ~Viewing(m) BY <1>1 DEF ViewKept, ViewOf
<1>2. CASE Viewing(m)
  <2>1. Viewing(m)' /\ loc'[m].ptr = p /\ loc'[m].flag = loc[m].flag BY <1>2 DEF ViewKept
  <2>2. Lead(loc[m].ptr)' = Lead(p)' BY <2>1 DEF Lead, IsNull, IsPresent, Current
  <2> QED BY <1>2, <2>1, <2>2 DEF ViewOf
<1> QED BY <1>1, <1>2

\* A step that keeps the views, and what they lead to, is a stutter of the memory.
LEMMA NothingSeen ==
  ASSUME CacheInv, TypeInv, Mapped, Mapped',
         \A p \in Ptr : Lead(p)' = Lead(p), \A m \in Mutator : ViewKept(m)
  PROVE  UNCHANGED Memory!vars
<1>1. Leads' = Leads BY DEF Mapped
<1>2. ASSUME NEW m \in Mutator PROVE ViewOf(m)' = ViewOf(m)
  <2> SUFFICES ASSUME NEW p, p = loc[m].ptr PROVE ViewOf(m)' = ViewOf(m) OBVIOUS
  <2>1. Viewing(m) => p \in Ptr BY ViewShows
  <2> QED BY <2>1, KeptView DEF ViewOf
<1>3. Shown' = Shown BY <1>2 DEF Mapped
<1> QED BY <1>1, <1>3 DEF Memory!vars

\* Building an object allocates a pointer nobody has a view of.
LEMMA BuildAllocates ==
  ASSUME CacheInv, TypeInv, Mapped, Mapped', NEW b \in Mutator, BuildObject(b)
  PROVE  Memory!Next
<1>1. PICK p \in Ptr : /\ p = loc[b].ptr /\ IsNull(p) /\ Lead(p)' \in Value
                       /\ \A q \in Ptr \ {p} : Lead(q)' = Lead(q)
  BY BuildLeads
<1>2. Leads[p] = NULL BY <1>1 DEF Mapped, Lead
<1>3. Leads' = [Leads EXCEPT ![p] = Lead(p)'] BY <1>1 DEF Mapped
<1>4. MutatorStep(b) /\ ~DerefPresent(b) BY DEF MutatorStep, BuildObject, DerefPresent
<1>5. \A m \in Mutator : ViewKept(m) BY <1>4, MutatorViews
<1>6. ASSUME NEW m \in Mutator PROVE ViewOf(m)' = ViewOf(m)
  <2> SUFFICES ASSUME NEW q, q = loc[m].ptr PROVE ViewOf(m)' = ViewOf(m) OBVIOUS
  <2>1. Viewing(m) => q \in Ptr \ {p} BY <1>1, ViewShows DEF IsNull, IsPresent
  <2> QED BY <1>1, <1>5, <2>1, KeptView DEF ViewOf
<1>7. Shown' = Shown BY <1>6 DEF Mapped
<1>8. Memory!Allocate(p) BY <1>1, <1>2, <1>3, <1>7 DEF Memory!Allocate
<1> QED BY <1>8 DEF Memory!Next

\* Two mutators that view one pointer only read it.
LEMMA WritersAlone ==
  ASSUME CacheInv, TypeInv, NEW m \in Mutator, NEW n \in Mutator, m # n,
         Inside(m), Viewing(n), loc[m].ptr = loc[n].ptr
  PROVE  ~loc[m].flag /\ ~loc[n].flag
<1>1. m \in Thread /\ n \in Thread BY ThreadKinds
<1>2. Apart(m, n) BY <1>1 DEF CacheInv, ThreadsInv
<1>3. Inside(n) BY DEF Inside, Heading, Allocating, Viewing, Reallocating
<1> QED BY <1>2, <1>3 DEF Apart

\* A store and a reallocation store through the mutator's view.
LEMMA StoreStores ==
  ASSUME CacheInv, TypeInv, Mapped, Mapped', NEW b \in Mutator, NEW v \in Value,
         Store(b, v) \/ ReallocateInit(b, v)
  PROVE  Memory!Next
<1>1. PICK p \in Ptr : /\ p = loc[b].ptr /\ IsPresent(p) /\ loc[b].flag /\ Lead(p)' = v
                       /\ \A q \in Ptr \ {p} : Lead(q)' = Lead(q)
  BY StoreLeads
<1>2. Leads' = [Leads EXCEPT ![p] = v] BY <1>1 DEF Mapped
<1>3. /\ MutatorStep(b) /\ ~DerefPresent(b) /\ Viewing(b) /\ Inside(b)
  BY DEF MutatorStep, Store, ReallocateInit, DerefPresent, Viewing, Reallocating, Inside, Heading,
         Allocating
<1>4. \A m \in Mutator : ViewKept(m) BY <1>3, MutatorViews
<1>5. /\ Shown[b] = [ptr |-> p, write |-> loc[b].flag, val |-> Lead(p)]
      /\ Shown[b] # NULL
  <2>1. Shown[b] = [ptr |-> p, write |-> loc[b].flag, val |-> Lead(p)]
    BY <1>1, <1>3 DEF Mapped, ViewOf
  <2>2. p \in Ptr /\ loc[b].flag \in BOOLEAN /\ Lead(p) \in Value
    BY <1>1, <1>3, ViewShows
  <2> QED BY <2>1, <2>2, NullIsNoView
<1>6. ViewOf(b)' = [Shown[b] EXCEPT !.val = v]
  <2>1. ViewOf(b)' = [ptr |-> p, write |-> loc[b].flag, val |-> v]
    BY <1>1, <1>3, <1>4, KeptView
  <2> QED BY <1>5, <2>1
<1>7. ASSUME NEW m \in Mutator \ {b} PROVE ViewOf(m)' = ViewOf(m)
  <2> SUFFICES ASSUME NEW q, q = loc[m].ptr PROVE ViewOf(m)' = ViewOf(m) OBVIOUS
  <2>1. Viewing(m) => q \in Ptr \ {p} BY <1>1, <1>3, ViewShows, WritersAlone
  <2> QED BY <1>1, <1>4, <2>1, KeptView DEF ViewOf
<1>8. Shown' = [Shown EXCEPT ![b].val = v] BY <1>5, <1>6, <1>7 DEF Mapped
<1>9. Memory!Store(b, v) BY <1>1, <1>2, <1>5, <1>8 DEF Memory!Store
<1> QED BY <1>9 DEF Memory!Next

\* Where the pointers lead on, the mutators that keep their view keep what it shows.
LEMMA OtherViews ==
  ASSUME CacheInv, TypeInv, \A p \in Ptr : Lead(p)' = Lead(p), NEW m \in Mutator, ViewKept(m)
  PROVE  ViewOf(m)' = ViewOf(m)
<1> SUFFICES ASSUME NEW p, p = loc[m].ptr PROVE ViewOf(m)' = ViewOf(m) OBVIOUS
<1>1. Viewing(m) => p \in Ptr BY ViewShows
<1> QED BY <1>1, KeptView DEF ViewOf

\* A dereference gives the mutator a view nobody has for writing.
LEMMA DerefDerefs ==
  ASSUME CacheInv, TypeInv, Mapped, Mapped', NEW b \in Mutator, DerefPresent(b)
  PROVE  Memory!Next
<1> USE ThreadKinds
<1>0. /\ b \in Thread /\ ThreadOK(b) /\ loc[b].pc = "deref" /\ IsPresent(loc[b].ptr)
  BY DEF TypeInv, RestOK, LocalsOK, DerefPresent
<1>1. loc[b].ptr \in Ptr /\ loc[b].flag \in BOOLEAN
  BY <1>0 DEF ThreadOK, TypeInv, RestOK, LocalsOK, Local
<1> SUFFICES ASSUME NEW p \in Ptr, p = loc[b].ptr, NEW w \in BOOLEAN, w = loc[b].flag
             PROVE  Memory!Next
  BY <1>1
<1>2. \A q \in Ptr : Lead(q)' = Lead(q) BY MutatorLeads
<1>3. Leads' = Leads BY <1>2 DEF Mapped
<1>4. /\ OneMoves(b) /\ loc'[b].pc = "access" /\ loc'[b].ptr = p /\ loc'[b].flag = w
  BY <1>0 DEF DerefPresent, OneMoves, TypeInv, RestOK, LocalsOK, Local
<1>5. Shown[b] = NULL BY <1>0 DEF Mapped, ViewOf, Viewing, Reallocating
<1>6. Leads[p] = Lead(p) /\ Lead(p) # NULL
  <2>1. Current(p) \in Value BY <1>0, LeadValue DEF IsNull, IsPresent
  <2> QED BY <1>0, <2>1, ConstantsOK DEF Mapped, Lead, IsNull, IsPresent
<1>7. ASSUME NEW d \in Mutator, Shown[d] # NULL, Shown[d].ptr = p
      PROVE  ~w /\ ~Shown[d].write
  <2>1. Viewing(d) /\ Shown[d] = ViewOf(d) BY <1>7 DEF Mapped, ViewOf
  <2>2. loc[d].ptr = p /\ Shown[d].write = loc[d].flag BY <1>7, <2>1 DEF ViewOf
  <2>3. Inside(b) BY <1>0 DEF Inside, Heading, Allocating
  <2>4. d # b BY <1>5, <1>7
  <2> QED BY <2>1, <2>2, <2>3, <2>4, WritersAlone
<1>8. ViewOf(b)' = [ptr |-> p, write |-> w, val |-> Leads[p]]
  <2>1. Lead(loc[b].ptr)' = Lead(p)' BY <1>4 DEF Lead, IsNull, IsPresent, Current
  <2> QED BY <1>2, <1>4, <1>6, <2>1 DEF ViewOf, Viewing
<1>9. ASSUME NEW m \in Mutator \ {b} PROVE ViewOf(m)' = ViewOf(m)
  <2>1. loc'[m] = loc[m] BY <1>4 DEF OneMoves
  <2>2. ViewKept(m) BY <2>1 DEF ViewKept, Viewing, Reallocating
  <2> QED BY <1>2, <2>2, OtherViews
<1>10. Shown' = [Shown EXCEPT ![b] = [ptr |-> p, write |-> w, val |-> Leads[p]]]
  BY <1>8, <1>9 DEF Mapped
<1>11. Memory!Deref(b, p, w)
  BY <1>3, <1>5, <1>6, <1>7, <1>10 DEF Memory!Deref, Memory!Views
<1> QED BY <1>11 DEF Memory!Next

\* The end of its scope takes the view from it.
LEMMA ExitLeaves ==
  ASSUME CacheInv, TypeInv, Mapped, Mapped', NEW b \in Mutator, ScopeExit(b)
  PROVE  Memory!Next
<1> USE ThreadKinds
<1>1. \A q \in Ptr : Lead(q)' = Lead(q)
  <2>1. UNCHANGED <<meta, data, far, oid>> BY DEF ScopeExit, memVars
  <2> QED BY <2>1, QuietLeads
<1>2. Leads' = Leads BY <1>1 DEF Mapped
<1>3. OneMoves(b) /\ loc'[b].pc = "idle"
  BY IdleBecomes DEF ScopeExit, Becomes, OneMoves
<1>4. ViewOf(b)' = NULL BY <1>3 DEF ViewOf, Viewing, Reallocating
<1>5. ASSUME NEW m \in Mutator \ {b} PROVE ViewOf(m)' = ViewOf(m)
  <2>1. loc'[m] = loc[m] BY <1>3 DEF OneMoves
  <2>2. ViewKept(m) BY <2>1 DEF ViewKept, Viewing, Reallocating
  <2> QED BY <1>1, <2>2, OtherViews
<1>6. Shown' = [Shown EXCEPT ![b] = NULL] BY <1>4, <1>5 DEF Mapped
<1>7. Memory!Leave(b) BY <1>2, <1>6 DEF Memory!Leave
<1> QED BY <1>7 DEF Memory!Next

LEMMA MemoryStepImplements ==
  ASSUME CacheInv, CacheInv', TypeInv, TypeInv', SwapInUsesOwnId, [Next]_vars
  PROVE  [Memory!Next]_Memory!vars
<1>1. Mapped /\ Mapped' BY MappedHolds, MappedNext
<1>2. CASE \A q \in Ptr : Lead(q)' = Lead(q)
  <2>1. CASE \A m \in Mutator : ViewKept(m) BY <1>1, <1>2, <2>1, NothingSeen
  <2> QED BY <1>1, <2>1, StepViews, DerefDerefs, ExitLeaves
<1> QED BY <1>1, <1>2, StepLeads, BuildAllocates, StoreStores

LEMMA MemoryInitImplements ==
  ASSUME Init
  PROVE  Memory!Init
<1>1. Leads = [p \in Ptr |-> NULL] BY DEF Init, Leads, IsNull, NullMeta
<1>2. Shown = [m \in Mutator |-> NULL]
  BY ThreadKinds DEF Init, Idle, Shown, Reallocating
<1> QED BY <1>1, <1>2 DEF Memory!Init

\* Whatever the prefetchers, the pagers and the collector do meanwhile, the application
\* sees the memory FarMemory describes, for every number of pointers, regions, slots and
\* threads: a dereference shows the last value stored through the pointer, and the raw
\* address goes on doing so, through swap-ins, write-backs and copies, until the scope
\* ends.  It is lost only when swap_in fetches by an id that is not the pointer's own.
THEOREM CacheIsMemory == Spec /\ []SwapInUsesOwnId => ImplementsMemory
<1>1. Init => Memory!Init BY MemoryInitImplements
<1>2. CacheInv /\ CacheInv' /\ TypeInv /\ TypeInv' /\ SwapInUsesOwnId /\ [Next]_vars
      => [Memory!Next]_Memory!vars
  BY MemoryStepImplements
<1> QED BY <1>1, <1>2, CacheInvHolds, TypeInvHolds, PTL DEF Spec, ImplementsMemory, Memory!Spec

\* The cache of an application without a dynamic pager is that memory.
THEOREM ScopesSeeMemory ==
  ASSUME Pager = {}
  PROVE  Spec => ImplementsMemory
BY ScopesUseOwnId, CacheIsMemory, PTL
=============================================================================
