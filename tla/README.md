# A verification model of DynamicSwap

DynamicSwap changes AIFM, a far-memory runtime: application objects live in a
local cache of regions, are written back to a remote device when the cache runs
out of free regions, and are fetched again when they are dereferenced. The
repository holds the files of AIFM it changed (`aifm_changes/`), the dynamic
pager it adds (`src/dswap.cpp`, `inc/dswap.hpp`) and a few test programs. The
rest of AIFM (`DerefScope`, `GenericFarMemPtr::_deref`, `ObjLocker`, the device,
the `.ipp` files) is not in the repository; where the model needs it, it is
modelled from how the code here relies on it, and marked external in
`PROJECT.json`.

Two remarks on the sources as they stand. `inc/dswap.hpp:35` declares
`register_object` with one parameter while `dswap.cpp:16` and `array.cpp:19` use
two; and two of the unit tests contain the bare statement `register_object`. The
model follows the definitions in the `.cpp` files.

## Inventory

| Part | State | Operations | Interacts with |
|---|---|---|---|
| Region manager (`manager.cpp:141-266`, `region.hpp`) | `free_regions_`, `used_regions_`, `nt_used_regions_` (circular buffers), one core-local region per core and kind; per region `first_free_byte_idx_`, `ref_cnt` | constructor, `try_refill_core_local_free_region`, `push_free_region`, `pop_used_region` | local and remote allocation, GC master |
| Local allocation (`663-718`, `740-762`) | `almost_empty`, `gc_lock_`, `mutator_cache_condvar_` | `allocate_local_object`, `_nb`, `mutator_wait_for_gc_cache` | region manager, GC, every thread that needs an object |
| Remote allocation (`720-738`, `764-766`) | far-memory regions | `allocate_remote_object` | region manager |
| Pointers (`pointer.hpp`) | a metadata word in one of two formats | `is_present`, `get_object_id`, `set_present`, `gc_copy`, `gc_wb`, ... | everything below |
| Swapping (`268-390`) | the object lock, object headers and data, the device | `swap_in`, `swap_out` | allocation, pointers, device |
| GC (`45-51`, `392-661`) | `from_regions_`, `gc_master_active`, `expected_status`, slave task queues | `gc_cache` with five phases, marker and write-backer slaves | regions, scopes (`expected_status`), swapping |
| GC launching (`768-784`) | `gc_master_active`, `gc_master_spawned_`, `pending_gcs_` | `launch_gc_master` | `gc_check` after a refill |
| Pointer allocation (`91-139`, `794-830`) | | `allocate_generic_unique_ptr`, `reallocate_generic_unique_ptr_nb` | allocation, pointers |
| Data structure ids (`73-81`, `786-792`) | a queue of ids | allocate, free | factories |
| Dynamic pager (`dswap.cpp`) | `object_refs`, `available_mem`, `swap_threshold`, `dynamic_manager_running`, one mutex | `register_object`, `dynamic_pager`, `dynamic_memory`, init and stop | `swap_in`, pointers, `GenericArray` |
| Arrays (`array.cpp`) | the array's pointers | constructor allocates and registers every item | pointer allocation, pager |

The hard behaviour is concurrent evacuation. Mutators hold raw addresses inside
deref scopes; the GC master picks full regions, has slaves set the evacuation
bit on every pointer into them, flips the expected status and waits until no
scope of the old status is left, has slaves copy or write back every object
still marked, and hands the regions out again. Meanwhile mutators migrate marked
objects themselves, prefetchers swap objects in, and the pager, an ordinary
`std::thread` that enters no scope, swaps in whatever it finds absent. Object
locks, region reference counts, the dirty bit and the two statuses are what
holds this together.

What makes each part correct:

* swapping and GC: a raw address stays good until its scope ends; nothing but a
  store changes what a pointer leads to; a clean object equals its remote copy;
  nothing points into a region that is handed out again; `swap_in` fetches by
  the pointer's own id; a GC round and a dereference end;
* region manager: no region is lost or in two places; a region with a reference
  is not evacuated; the kinds mix in one known case only; the oldest temporal region is
  collected first; the
  buffers are big enough for every region there is;
* allocation and launching: whoever waits for the GC is woken, at most one master
  runs, and a GC that is needed is started;
* pager: the memory it accounts for is what is in the cache, a pass stops at the
  threshold, registration is not blocked for ever, and only live pointers are
  visited.

## Plan

Done:

1. `Evacuator` - swapping, allocation, reallocation, GC phases, scopes, prefetcher
   and pager together.
2. `EvacuatorProofs` - types, the partition of the regions and the protection of
   pinned regions.
3. `RegionPool` - the regions as an abstract pool; `RegionManager` - the buffers
   with their order and capacity, the constructor with its arithmetic, non-temporal
   regions, the retries of `pop_used_region`, shown to implement it.
4. `GCControl` - `launch_gc_master`, `gc_check`, the early returns of `gc_cache`,
   `almost_empty` and the condition variable.
5. `DynamicPager`, `DynamicPagerProofs` - registration, the pager's pass, the memory
   thread with its unsigned arithmetic, stopping.
6. `FarMemory` - what the whole promises: a memory of one value per pointer, read
   and written inside scopes; `EvacuatorRefines` - `Evacuator` implements it and
   `RegionPool`.

7. `EvacuatorContents`, `EvacuatorRound` - the invariant that keeps contents and
   raw addresses good; `EvacuatorRefinesProofs` - both refinements of `Evacuator`.
8. `RegionManagerProofs`, `GCControlProofs` - all properties of these modules but
   liveness; `DynamicPagerProofs` completed with `ReadingBracketed`.

Every safety and action property and every refinement that a passing run checks
is thus also a theorem. Left is what the last section names: liveness stays
with TLC, and some parts are not modelled.

## Evacuator

State: `meta` is the metadata word of each pointer as a record; `hdr` and `data`
are the object at an address, `far` the device's contents by object id, `lock`
the object locks; `open`, `free`, `used` and `from` are the core-local regions
and the three collections of the manager and the master; `fill` and `pins` are a
region's allocation index and its reference count, the latter as the set of
threads it counts; `almost_empty`, `expected_status` and `status` (AIFM's
per-thread status) are the flags shared with `DerefScope`; `gc` and `todo` are the
master's place and the objects the slaves have yet to visit; `loc` is each
thread's program counter and local variables; `exited` records `exit(-ENOSPC)`.

Actions are cut where other threads can see a difference: a read of shared
metadata, the taking of a lock, an allocation (one atomic step: preemption is
off and the region spin lock is held), the copying, the publishing in the
metadata. Thus `swap_in` is seven actions, `swap_out` six, a migration two with
an allocation between them, a reallocation three around one. `AllocateBlocking`, `AllocateFails` and `WaitForGC`
are the one allocation all blocking callers share; `after` says where it returns
to. The allocation of a pointer is one action after its allocation of space:
the region is pinned until then and nobody knows the pointer.

| Code | Actions |
|---|---|
| `allocate_generic_unique_ptr`, `_nb` | `AllocatePtr`, allocation, `BuildObject` |
| `reallocate_generic_unique_ptr_nb` | `ReallocateBegin`, `AllocateOnce`, `ReallocateInit`, `ReallocateFree` |
| `allocate_local_object`, `try_refill...`, `mutator_wait_for_gc_cache` | `AllocateBlocking`, `AllocateFails`, `WaitForGC` |
| `allocate_local_object_nb` called by a mutator | `AllocateOnce` |
| `swap_in` | `SwapInReadId` ... `SwapInFinish` |
| `gc_cache` | `GCStart`, `GCLoop`, `GCPick`, `GCPickDone`, `GCFlip`, `GCObserved`, `GCWrittenBack`, `GCRelease`, `GCRoundDone` |
| marker and write-backer `slave_fn` | `SlaveScan`, `SlaveLock`, `SetEvacuation`, `SwapOutSkip` |
| `swap_out`, `allocate_local_object_nb` | `SwapOutDecide`, `SwapOutAllocate`, `SwapOutCopy`, `SwapOutWrite`, `SwapOutMeta` |
| `dynamic_pager` | `PagerVisit`, then `swap_in` |
| external: scopes, dereference, migration, prefetcher | `ScopeEnter`, `DerefFar`, `DerefPresent`, `MigrateBegin`, `MigrateCopy`, `Store`, `ScopeExit`, `Prefetch`, `PrefetchSkip` |

Abstractions. All objects have one size and a region holds `SlotsPerRegion` of
them. The regions' circular buffers are sets, so the master may pick any unpinned
used region and may give up when it meets a pinned one. An object id is the
pointer it was allocated for, with a count of the ids that pointer had before (`oid`
is the current one); on a present pointer `get_object_id` yields bits of an address, `JunkId`, and a fetch by it may deliver anything. The free-region
ratios are counts. Hotness is one bit, and means hot and temporal. The application
keeps AIFM's rule for unique pointers, one writer or several readers at a time.
A scope dereferences one pointer. `GCRelease` clears the headers of the region's
slots, which the code leaves as bytes nobody reads. A reallocated object keeps its
id when its pointer belongs to a data structure; for the pointers in `Vanilla` it takes
a new remote address (lines 814-819), `FreshId`, of which `MaxIds` bounds the number per
pointer. `allocate_remote_object` always finds one: its refill loop is not modelled (see
the last section). The move of a fresh pointer
into its array cell happens together with its construction.

### Runs

| Run | Instance | Shows |
|---|---|---|
| `evac_scopes` | 2 pointers, 3 regions of one slot, a mutator, a prefetcher, a slave, 2 values | the type invariant, `PinnedNotReclaimed`, `HandleValid`, `CleanMatchesFar`, `ReleaseUnreferenced`, `SwapInUsesOwnId` and `ImplementsMemory` (about a million states up to symmetry) |
| `evac_full` | the same with a mutator that reallocates and no prefetcher; one pointer is vanilla and takes one new id | `RegionsPartitioned`, `ReleaseUnreferenced`, `ImplementsMemory` and `ImplementsPool` when the cache runs out of regions (a million states up to symmetry) |
| `evac_live` | 3 pointers, 3 regions, a mutator and a slave, 1 value, `FairSpec` | `RoundTerminates`, `DereferenceReturns`, `WaitersResume` |
| `evac_pager` | a mutator, a pager, a slave; explored up to the first fetch by a foreign id | `HandleValid`, `ReleaseUnreferenced`, `ContentStable`, no deadlock |
| `evac_pager_id` | the same, 1 value | a violation of `SwapInUsesOwnId` |
| `evac_pager_wait` | 3 pointers, 2 regions, a mutator, a pager, a slave, `FairSpec` | a violation of `MutatorsObserve` |

One slot per region makes every allocation cross a region boundary and every
refill matter; three regions for two objects leave one to open, one to collect
and one to move into, and the GC runs in every behaviour of any length. Copies to
another region, write-backs and migrations occur there. Refills that fail, waits and
the exit of the process need a full cache; in `evac_full` the objects that
reallocation replaces fill it, so that the same three regions see everything at
once. Two values suffice to tell a stale copy from a current
one. `evac_scopes` has one mutator because the sharing of pointers between
threads is already between the mutator and the prefetcher, which takes every step
of a swap-in. In `evac_live` three objects fill the three regions, so that a thread
that allocates finds none free and has to wait for the GC (`pc = "wait"` is reached).

Two runs cut their instance by a constraint that keeps the cases they are about.
`OneUsed` (`evac_live`) lets the mutator dereference one of the three
pointers; the other two are allocated, marked, moved and written back all the same.
`NewIdsLast` (`evac_full`) ends a behaviour where a data structure's pointer is
dereferenced after the vanilla one has its new id; the new id's own life, with
write-back, swap-in and a failing reallocation, is explored in full.

Symmetry is used only where no liveness is checked; vanilla pointers, the others, regions, mutators,
slaves and values are interchangeable in the definitions.

`ImplementsMemory` is the promise as a whole. `FarMemory` has one value per pointer
and, per mutator, a view: what it has dereferenced, and what a load through the raw
address returns. The mapping (`EvacuatorRefines`) takes the value from wherever the
metadata says the object is, in a region or on the device, and the view from the
bytes at the address the mutator holds. That the two never differ, and that only an
allocation, a store or a reallocation changes a value, is the refinement; swap-ins,
write-backs, copies, migrations and the release of regions are stuttering steps.
`ImplementsPool` maps the same regions to `RegionPool` (below).

The violations. `evac_pager_id`: the pager decides to swap in an absent pointer,
a mutator swaps it in, the pager reads the id (now address bits), the GC marks
and writes the object back without waiting for the pager, which is in no scope;
the pager then finds it absent and fetches by the bits it has. In a scope this
cannot happen (`SwapInUsesOwnId` passes in `evac_scopes`), because between the
mark and the write-back the GC waits for the scope to end. `evac_pager` shows
that nothing else goes wrong with the contents before such a fetch. A former id, read
before a vanilla pointer was reallocated, is foreign in the same sense: a pager
may come to fetch by it along the same path, and `SwapInUsesOwnId` and the theorems below
treat it so. The runs with a pager have no `Reallocator`, since no code of the
repository calls `reallocate_generic_unique_ptr_nb`.
`evac_pager_wait`: the pager holds the object lock in `swap_in` and waits for the
GC; a mutator in a scope waits for the lock; the GC waits for the mutator. No step
of the three is enabled.

### Fairness

`FairSpec` assumes weak fairness of what each thread has begun: a mutator, slave
or swapper at a program counter whose next step stays possible takes it (the
runtime schedules every runnable thread), a scope ends in the end (scopes are
blocks of a few statements, and `ScopeExit` is never disabled at its end), and the
GC master keeps running. The application need not begin anything: `AllocatePtr`,
`ScopeEnter`, `Prefetch`, `Store`, `ReallocateBegin` and `PagerVisit` are not fair.
`evac_live` has no reallocating mutator: one that repeats a failing reallocation in
one scope keeps the GC waiting, which is the application's doing. Object locks are
weakly fair only. The start of the master when few regions are free stands for
`gc_check` calling `launch_gc_master` and is assumed to succeed; `GCControl` shows how
it can fail.

`WaitersResume` says that a thread in `mutator_wait_for_gc_cache` gets on with its
allocation, unless regions leave `free` again and again: a refill takes whatever is free
when it gets the spin lock, and nothing keeps other threads from doing so each time before
the waiter runs. It is a property of the system without a pager. There, whoever waits
is in no scope and holds no object lock (a swap-in inside a scope ends the
process instead of waiting), so the GC waits for nobody who waits for it. A pager
waits with an object locked, and `evac_pager_wait` shows what comes of it.

### Proofs

All theorems hold for all values of the constants that satisfy `ConstantsOK`: the
kinds of threads are distinct, a region has at least one slot, and `NULL` and `JunkId`
are distinct from what they stand next to.

**Regions and types** (`EvacuatorProofs`, pagers included).

* `RegionsStayPartitioned`: `Spec => []RegionsPartitioned`
* `PinnedNeverReclaimed`: `Spec => []PinnedNotReclaimed`
* `TypesHold`: `Spec => []TypeOK`

The first two share the inductive invariant `PoolInv`: types of the pool, the
partition, the pins and `FreeIsEmpty` (a free region is reset, hence has room and
no reference). Neither is inductive alone: a refill takes a free region, and only
the partition says it is not also the one the master releases; a reference is
taken on a core's open region, and only the partition says the master is not
evacuating it. `NextIsPoolStep` reduces the forty actions to six kinds of pool
step, and `PoolInvKept` treats those. `TypeOK` needs to know what a thread has set
in its local variables at each program counter (`ThreadOK`): that an address is
set after each allocation, an id before each lock, a source before each copy, that
a slave is busy only while the master marks or writes back, and that a present
pointer holds an address and a far one an id.

**Contents** (`EvacuatorContents`, `EvacuatorRound`). The invariant is `CacheInv`; TLC
checked it on the instances of `evac_scopes`, `evac_full` and `evac_pager`
before it was proved. It says

* of the memory: a present pointer's object carries its id and names it, and equals
  the remote copy while it is clean (`PointerOK`); an object that names a pointer
  is the one the pointer leads to, or its publication or its removal is under way
  in a known place (`LedTo`);
* of the round: after marking, a pointer into an evacuated region has the
  evacuation bit (`Marked`), after write-back there is none (`Evacuated`), except
  for objects still on the slaves' list or in a slave's hands; outside
  `observe` no scope has the old status (`RoundOK`);
* of each thread: it holds the object lock between locking and unlocking
  (`LockOK`), its slot is pinned, below the allocation index and unpublished while it
  builds there (`SlotOK`), and what it read before stays true as long as it relies
  on it (`SwapInOK`, `MutatorOK`, `SlaveOK`). The heart of it is `Safe`: a raw
  address into an evacuated region is held only by a scope the round still waits for;
* of two threads: they build in different slots, slaves work on different
  objects, and a writer has its pointer to itself (`Apart`).

`ContentsStay`, `HandlesStayValid`, `ReleasedUnreferenced` and `CleanEqualsFar` have the
form `Spec /\ []SwapInUsesOwnId => ...`: `CacheInv` is kept by every step but a
fetch by a foreign id. That premise is needed with a pager, as `evac_pager_id` shows,
and is the constraint `evac_pager` explores under. Without one it is a
theorem: for `Pager = {}`, `ScopesUseOwnId` proves `SwapInUsesOwnId`
from `Spec` (the id a thread in a scope has read stays the pointer's own, because
the pointer cannot become present and be written back before the scope
ends), and `ScopesAreSafe` and `ScopesKeepContents` state the four properties of `Spec`
alone.

**Refinements** (`EvacuatorRefinesProofs`). `RegionsArePool` proves `ImplementsPool` from
`PoolInv`: each of the six kinds of pool step is a step of `RegionPool`, or changes
one of several references on a region and is a stutter. `CacheIsMemory` proves
`ImplementsMemory` with the same premise as above, and `ScopesSeeMemory` for
`Pager = {}` without it: the construction of an object is an allocation of
`FarMemory`, the end of a dereference its `Deref`, a store and the initialization of a
reallocated object its `Store`, the end of a scope its `Leave`; all other steps
change neither the value behind any pointer nor what any held address shows. The
value of a pointer is found in another place after a swap-in, write-back, copy or
migration, and `CacheInv` says that it is the same there. `NullIsNoView` says that `NULL`
is not a record.

Model-checked only in this module: liveness.

## RegionManager and RegionPool

`RegionPool` is what the others rely on: a region is open at a holder, free, used or
being evacuated, in exactly one of these places; references are taken only on open
regions; only a used region without references is taken for evacuation, and only
such a one becomes free.

`RegionManager` is the code of `manager.cpp:141-266` and `region.hpp`: the three
buffers as sequences with one capacity, a temporal and a non-temporal core-local
region per core (`Holder`), the header's non-temporal mark, the reference counts,
and the collector inside `pop_used_region` with the retries left for either buffer.
A refill and a push are single steps under the spin lock; a pop holds it (`spin`)
from one look at a region to the next, and references are taken and dropped in
between.

| Code | Actions |
|---|---|
| constructor | `Init` with `RegionsCount`, `FreeCount` |
| `try_refill_core_local_free_region` | `Refill` (retires, then `TakeFree` or `FindNone`), `RefillBug` (line 195) |
| `pop_used_region` | `PopBegin`, `PopNtPinned`, `PopNtTake`, `PopNtEmpty`, `PopPinned`, `PopUsedTake`, `PopEmpty` |
| `push_free_region`, `Region::reset` | `PushFree`, `Reset` |
| `Region::allocate_object`, `atomic_inc_ref_cnt` | `AllocateObject`, `DropRef` |

A refill of a non-temporal holder calls `set_nt` even when `pop_front` found no region
(lines 200-203). The mark then goes through the buffer pointer of a `Region` that holds
none, `nt_buf`: what is left in it after `push_back` moved the region away is either the
same pointer or null (the move is AIFM's; `MovedFrom` allows both). The first such
refill marks the region it has just retired, which is non-temporal anyway, or ends the
process with a write through null (`halted = "fault"`). A second one, before the core
has a region again, marks a buffer that may long have been collected and be in use
elsewhere, as a temporal region.

The mapping to `RegionPool` forgets order and kind. The instance of `regions` and
`regions_bug` has two cores and
`Size = 11`, `KSize = 4`, `NumSocket1CPUs = 1`: buffers for three regions and five
regions in all, so that there are more regions than a buffer holds, as with the 2
and 20 CPUs of `helpers.hpp`. Its regions hold one object and carry one reference, so
that every allocation ends in a refill; the collector holds up to two of them. `regions_live`
has one core, three regions, two objects and two references per region: there the
collector has regions of both kinds to retry on. `MaxRetry = 0` leaves two looks per
buffer, as the code's test comes after the look.

| Run | Shows |
|---|---|
| `regions` | `TypeOK` (buffers within capacity), `BugOnlyWhenDry`, `ImplementsPool`, `RoundRobin`, `KindsKept` |
| `regions_live` | `NtNotBlocked`, `FrontCollected`, `KindsKept`, `ImplementsPool`, under `CollectorSpec`, with one core |
| `regions_bug` | a violation of `RetirementFits`, the `BUG_ON` of line 195 |

`RoundRobin` says that temporal regions enter their buffer at the back and leave it
from the front, to the collector: they are collected in the order they were retired,
and one pinned region at the front hides all behind it. `FrontCollected` and
`NtNotBlocked` are liveness of the collector alone: `CollectorSpec` assumes that it
keeps popping and releasing and nothing of the threads that hold references. A
pinned non-temporal region goes to the back and blocks nobody. The temporal region in
front, once its references are gone, is taken, unless non-temporal ones are collected
again and again: `pop_used_region` looks at those first, and nothing bounds how
long they are preferred.

`KindsKept` says when the buffers stop holding the kinds they are named for. It is
no invariant that they do (`KindsSeparate`): on the instance of `regions_bug` TLC finds
the kinds mixed after eleven steps. What holds is that one step alone can do it, a
refill of a core that is without a non-temporal region already and finds none again
(`SecondDryRefill`); retirement, collection, reset and the first dry refill
keep the marks right. `regions` explores each behaviour up to such a mark
(`UntilMixed`); `regions_live`, which has no constraint, goes on with mixed kinds (TLC reaches them in
fifteen steps).

`BugOnlyWhenDry` bounds the damage of the capacity: the `BUG_ON`
can fail only when at least `2 * NumSocket1CPUs` core-local regions are missing
because their refills failed. With the
constants of `helpers.hpp` there are 36 regions too many; the memory allocated at
`manager.cpp:246` is too small for them as well.

`RegionManagerProofs` proves, from `SizesOK`, `BuffersWithinBounds` (`TypeOK`),
`OnlyDryRefillMixes` (`KindsKept`), `BugNeedsDryCores` (`BugOnlyWhenDry`), `PickerIsRoundRobin`
(`RoundRobin`), `RegionsInOnePlace` (no region is twice in a buffer or in two places,
which the counting below and `ManagerIsPool` rest on) and `ManagerIsPool`. Their
invariant `RegionInv` was checked on the instance of `regions` first. The
argument for `BugOnlyWhenDry` counts: a buffer that is full holds
`RegionsCount` regions, all but `2 * Core - 2 * NumSocket1CPUs` of those there are, and
since none is in two places no more than that many core-local regions are
filled (`FullMeansDry`). `ManagerIsPool` assumes `FreeCount > 0`: otherwise the
constructor fails its `BUG_ON` and there is no manager. The lemmas on sequences without
repetitions say what `push_back` and `pop_front` do to the set of a buffer's elements.

## GCControl

How a collection is started and how threads wait for it (`manager.cpp:554-661`,
`740-784`), with the regions as counts: `gc_master_active`, `gc_master_spawned_`,
`almost_empty`, `gc_lock_` and the sleepers on the condition variable. Threads
allocate, refill, run `gc_check`, load the flag, swap it and spawn; GC threads return
early or collect, clear `almost_empty` and signal. The reads and the compare-and-swap
are separate actions. `launch_gc_master` is modelled for preemption off, the
only way `gc_check` is reached here.

| Run | Shows |
|---|---|
| `gc_launch` | `TypeOK`, `OneMaster`, `FewSpawned`, `NoLostWakeup`, `CollectionWakes`, under `FairSpec` |
| `gc_stuck` | a violation of `LowIsCollected` |

Three threads, one of which allocates inside a scope, and three GC identities,
though at most two are ever alive (`FewSpawned`): the third shows that the bound is not
that of the instance. Fairness is weak for every thread and strong for getting
`gc_lock_`, whose holders leave it after a few statements. Deadlock is not checked:
all threads may have stopped allocating, or sleep for ever as `gc_stuck` shows.

`gc_stuck`: a thread finds few regions free, and no master active; before its
compare-and-swap a whole collection passes, which resets `gc_master_spawned_`; the
thread it then spawns finds enough regions free, or another master, and returns
early, and the flag stays set. Every later launch is refused, regions run out, and
whoever waits sleeps for ever. `CollectionWakes` and `NoLostWakeup` say what holds
all the same: nobody sleeps once `almost_empty` is cleared, and a collection under way
lets a sleeper go on, unless other threads allocate what it frees.

`GCControlProofs` proves, from `ThresholdsOK`, `TypesAndCountsHold` (`TypeOK`),
`AtMostOneMaster`, `AtMostTwoSpawned` and `WakeupsNotLost`, for any number of threads
and regions. Their inductive invariant `LaunchInv` reads the two flags as tokens:
`gc_master_active` is set as long as some thread is past its compare-and-swap
(`ActiveToken`), `gc_master_spawned_` as long as a spawned thread has not reset it
(`SpawnedToken`), and there is one such thread at most. So at most one thread lives that has not reset
the second flag, and those that have reset it still hold the first: two in
all. `LockCovers` and `SleepersCovered` say why no wakeup is lost: the master
holds `gc_lock_` from before it clears `almost_empty` until after the signal, and a
sleeper has either the flag or that signal to rely on.

## DynamicPager

The pager itself, one level above `Evacuator`: a pointer is only its present bit
(`present`), which the GC (`Evacuate`) and mutators (`Fetch`) change at any time and
`swap_in` sets. What `swap_in` does inside, its waiting included, is the subject of
`Evacuator`, whose `PagerVisit` is `PagerCallSwapIn` here. Room is not limited: more
changes of the bits are possible here than in the program.

| Code | Actions |
|---|---|
| `init_dynamic_pager`, `stop_dynamic_pager` | `InitDynamicPager`, `StopDynamicPager` |
| `GenericArray::GenericArray` | `BeginArray`, `AllocateItem`, `RegisterObject`, `EndArray` |
| `register_object` | `RegisterObject` |
| `dynamic_pager` | `PagerTest`, `PagerLock`, `PagerSkip`, `PagerCallSwapIn`, `PagerSwappedIn`, `PagerLeave` |
| `dynamic_memory` | `MemoryTest`, `MemoryLock`, `MemoryVisit`, `MemoryStore` |

`object_refs` also stands for `object_addrs`, which gets the same pointers in the
same critical section. `Word` is 2^64 scaled down; `total` and `available_mem` are
computed modulo it. The threshold is `ceil(cache_size * 0.1)` in floating point,
which on some multiples of ten is one too many (70 gives 8); `Thresholds` allows
both. For `NoSwapBeforeReading` all that counts is that it is at least 1, and stored before
the threads start: `available_mem` is 0 until the first measurement.
`measured` and `changed` are history variables: whether a value was ever
stored, and which bits changed during the scan under way.

| Run | Instance | Shows |
|---|---|---|
| `pager` | an array of three items of size 2, cache of 5, word of 16, `FairSpec` | `TypeOK`, `PassAllOrNothing`, `NoSwapBeforeReading`, `RefsStableInPass`, `ReadingBracketed`, `RegistrationReturns`, `StopQuiesces`, `AbsentIsServed` |

The sizes let the present objects fall short of the cache, nearly fill it and exceed it, so
that memory is plentiful, low and wrapped. Deadlock is not checked because the
process may stop the pager before any array exists, after which nothing is left to
do; the liveness properties show that nobody is stuck before.

What the properties say about the code. `PassAllOrNothing`: the comparison inside
the pager's loop has no effect after the first reference, since the thread that
would lower `available_mem` needs the mutex the pass holds; a pass that is admitted
swaps in everything it finds absent. `ReadingBracketed` is the most that can be
said of the accounting: the scan reads the bits one by one while they change, so
an object that leaves the cache and the one that takes its place may both be
counted, and `available_mem` may wrap although the present objects never exceeded
the cache at any moment. The sizes counted are item sizes, without the headers.

Fairness: both threads and a builder go on with what they have begun, except that a
`swap_in` need not return: `PagerOwnStep`, which is fair, leaves `PagerSwappedIn` out.
`evac_pager_wait` shows such a call, and it is made with the mutex held. The three
liveness properties therefore have one exception, `SwapInStuck`: the pager stays in
one `swap_in` for ever, and with it registrations, the end of the threads and
the rest of the pass. Everything else the code must get right by itself. Taking the
mutex is strongly fair:
its holders leave it and sleep for 50 microseconds, so a waiter is not passed over
for ever. Weak fairness would not do, as the mutex is taken again and again.

`DynamicPagerProofs` proves `PassAllOrNothing`, `NoSwapBeforeReading`,
`RefsStableInPass`, `TypeOK` and `ReadingBracketed` from `PagerConstantsOK` alone. The
invariant `PagerInv`, which serves the first three, says that a thread is in its loop
exactly while it holds the mutex, that the locals are reset outside, that the
threshold is positive once the threads run, and that `available_mem` is 0 until
measured. `ReadingBracketed` needs two facts more: every item is registered once
(`RefsOnce`), and during the scan the total is, modulo the word, some number between the
sizes of the visited items present throughout and of those present at some time
(`ScanInv`). Sums of sizes are reasoned about as numbers of elements, an item of
size `n` being a set of `n` blocks (`SizesAreBlocks`, proved by taking a smallest
counterexample among the finite sets); so what holds of cardinalities holds of sums.

## Not modelled

* Far-memory allocation: regions are handed out in order and never come back; the
  collection of far memory is not implemented in the code.
* Shared pointers, and evacuation and copy notifiers: no code of the repository
  creates or registers any, and the traversal of a shared object's pointers is in a
  file that is not part of it.
* Arrays destroyed while the pager runs (their pointers stay registered) and the
  manager's memory after its destructor: what is read there is undefined, and
  nothing in the repository says when either may be destroyed.
* Data structure ids and factories, logging, thread prioritization, and the test
  programs: no state that other threads share, or code outside the repository.

Hazards of these parts are listed in `PROJECT.json` with a note.

Only model-checked is liveness under fairness, which the proof system does not treat:
`RoundTerminates`, `DereferenceReturns` and `WaitersResume` in `evac_live`, `NtNotBlocked` and
`FrontCollected` in `regions_live`, `CollectionWakes` in `gc_launch`, and
`RegistrationReturns`, `StopQuiesces` and `AbsentIsServed` in `pager`; and
the violations, for which TLC's traces are the evidence.
