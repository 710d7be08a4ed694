---------------------------- MODULE DynamicPager ----------------------------
(***************************************************************************)
(* The dynamic pager (src/dswap.cpp) and the arrays that feed it           *)
(* (aifm_changes/array.cpp): two detached threads, one that swaps in what  *)
(* it finds absent and one that measures the memory left, share a mutex    *)
(* with every thread that registers a pointer.                             *)
(*                                                                         *)
(* What is abstracted.  A pointer is its present bit.  swap_in is a call   *)
(* that ends, if it ends, with the pointer present; what happens inside    *)
(* it, its waiting for the GC included, is Evacuator's subject, and whether*)
(* it returns is not assumed here.  The GC takes any pointer out of the    *)
(* cache at any time and a mutator brings any back: the room there is does *)
(* not limit them.  Arrays outlive the pager.  A sleep is the interval     *)
(* between two tests of the flag.                                          *)
(***************************************************************************)
EXTENDS Naturals, Sequences, FiniteSetsExt

CONSTANTS
  Builder,    \* threads that construct an array each
  NumItems,   \* kNumItems_ of each builder's array
  ItemSize,   \* kItemSize_ of each builder's array
  CacheSize,  \* the cache_size given to init_dynamic_pager
  Word,       \* 2^64: available_mem and total are computed modulo it
  Nobody      \* the mutex is free

ASSUME PagerConstantsOK ==
  /\ NumItems \in [Builder -> Nat]
  /\ ItemSize \in [Builder -> Nat]
  /\ Word \in Nat \ {0}
  /\ CacheSize \in 1..(Word - 1)
  /\ Nobody \notin Builder \cup {"pager", "memory"}

Item == UNION {{b} \X (1..NumItems[b]) : b \in Builder}
Size(i) == ItemSize[i[1]]

VARIABLES
  object_refs,     \* registered pointers in the order of registration
  present,         \* the pointers whose metadata says present
  built,           \* items of each array allocated so far
  bpc,             \* where each builder is
  mutex,           \* holder of object_addrs_mut
  running,         \* dynamic_manager_running
  available_mem, swap_threshold,
  ppc, ppos,       \* dynamic_pager: where it is, the reference it is at
  mpc, mpos, total,\* dynamic_memory: the same, and the sum so far; these locals
                   \* have their initial values outside the loops
  measured,        \* history: available_mem has been stored once
  changed          \* history: pointers whose present bit changed in this scan

builders == <<built, bpc>>
pager == <<ppc, ppos>>
memory == <<mpc, mpos, total, available_mem, measured>>
flags == <<running, swap_threshold>>
vars == <<object_refs, present, builders, mutex, flags, pager, memory, changed>>

Init ==
  /\ object_refs = <<>> /\ present = {}
  /\ built = [b \in Builder |-> 0] /\ bpc = [b \in Builder |-> "idle"]
  /\ mutex = Nobody
  /\ running = FALSE /\ available_mem = 0 /\ swap_threshold = 0
  /\ ppc = "off" /\ ppos = 1
  /\ mpc = "off" /\ mpos = 1 /\ total = 0
  /\ measured = FALSE /\ changed = {}

\* The present bit of the pointers in S flips while the memory thread may be
\* at its scan.
NoteChange(S) == changed' = IF mpc = "scan" THEN changed \cup S ELSE changed

-----------------------------------------------------------------------------
\* std::ceil(cache_size * 0.1); on a multiple of ten the product may lie just
\* above the whole number (70 * 0.1 gives 8).
Thresholds(size) ==
  {(size + 9) \div 10} \cup (IF size % 10 = 0 THEN {size \div 10 + 1} ELSE {})

\* Mutant: the threads start before the threshold is stored.
InitWithoutThreshold ==
  /\ ppc = "off"
  /\ running' = TRUE
  /\ ppc' = "test" /\ mpc' = "test"
  /\ UNCHANGED <<object_refs, present, builders, mutex, swap_threshold, ppos, mpos, total,
                 available_mem, measured, changed>>

\* FarMemManager's constructor: the flags are stored before the threads start.
InitDynamicPager ==
  /\ ppc = "off"
  /\ running' = TRUE
  /\ swap_threshold' \in Thresholds(CacheSize)
  /\ ppc' = "test" /\ mpc' = "test"
  /\ UNCHANGED <<object_refs, present, builders, mutex, ppos, mpos, total,
                 available_mem, measured, changed>>

\* FarMemManager's destructor, when no array is under construction.
StopDynamicPager ==
  /\ running
  /\ \A b \in Builder : bpc[b] \in {"idle", "built"}
  /\ running' = FALSE
  /\ UNCHANGED <<object_refs, present, builders, mutex, swap_threshold, pager,
                 memory, changed>>

-----------------------------------------------------------------------------
\* GenericArray's constructor: one item after the other is allocated, which
\* leaves it present, and registered.
BeginArray(b) ==
  /\ running /\ bpc[b] = "idle"
  /\ bpc' = [bpc EXCEPT ![b] = "allocate"]
  /\ UNCHANGED <<object_refs, present, built, mutex, flags, pager, memory, changed>>

AllocateItem(b) ==
  /\ bpc[b] = "allocate" /\ built[b] < NumItems[b]
  /\ built' = [built EXCEPT ![b] = @ + 1]
  /\ present' = present \cup {<<b, built[b] + 1>>}
  /\ bpc' = [bpc EXCEPT ![b] = "register"]
  /\ NoteChange({<<b, built[b] + 1>>})
  /\ UNCHANGED <<object_refs, mutex, flags, pager, memory>>

\* Mutant: register_object pushes without the mutex.
RegisterUnlocked(b) ==
  /\ bpc[b] = "register"
  /\ object_refs' = Append(object_refs, <<b, built[b]>>)
  /\ bpc' = [bpc EXCEPT ![b] = "allocate"]
  /\ UNCHANGED <<present, built, mutex, flags, pager, memory, changed>>

\* register_object; both vectors get the pointer under the mutex.
RegisterObject(b) ==
  /\ bpc[b] = "register" /\ mutex = Nobody
  /\ object_refs' = Append(object_refs, <<b, built[b]>>)
  /\ bpc' = [bpc EXCEPT ![b] = "allocate"]
  /\ UNCHANGED <<present, built, mutex, flags, pager, memory, changed>>

EndArray(b) ==
  /\ bpc[b] = "allocate" /\ built[b] = NumItems[b]
  /\ bpc' = [bpc EXCEPT ![b] = "built"]
  /\ UNCHANGED <<object_refs, present, built, mutex, flags, pager, memory, changed>>

-----------------------------------------------------------------------------
\* Mutant: the loop of dynamic_pager does not look at the flag again.
PagerTestForever ==
  /\ ppc = "test" /\ ppc' = "lock"
  /\ UNCHANGED <<object_refs, present, builders, mutex, flags, ppos, memory, changed>>

\* Mutant: the pass may end before the last reference.
PagerLeaveEarly ==
  /\ ppc = "scan"
  /\ ppos < Len(object_refs) => available_mem < swap_threshold
  /\ mutex' = Nobody /\ ppc' = "test" /\ ppos' = 1
  /\ UNCHANGED <<object_refs, present, builders, flags, memory, changed>>

\* Mutant: a manual lock instead of the guard; leaving keeps it.
PagerLeaveLocked ==
  /\ ppc = "scan"
  /\ ppos <= Len(object_refs) => available_mem < swap_threshold
  /\ ppc' = "test" /\ ppos' = 1
  /\ UNCHANGED <<object_refs, present, builders, mutex, flags, memory, changed>>

\* Mutant: the present bit is tested before the threshold.
PagerSkipFirst ==
  /\ ppc = "scan" /\ ppos <= Len(object_refs)
  /\ object_refs[ppos] \in present
  /\ ppos' = ppos + 1
  /\ UNCHANGED <<object_refs, present, builders, mutex, flags, ppc, memory, changed>>

\* dynamic_pager.
PagerTest ==
  /\ ppc = "test"
  /\ ppc' = IF running THEN "lock" ELSE "done"
  /\ UNCHANGED <<object_refs, present, builders, mutex, flags, ppos, memory, changed>>

PagerLock ==
  /\ ppc = "lock" /\ mutex = Nobody
  /\ mutex' = "pager" /\ ppc' = "scan"
  /\ UNCHANGED <<object_refs, present, builders, flags, ppos, memory, changed>>

LowMemory == available_mem < swap_threshold

\* The pass is over, because memory is low or because all references were seen.
PagerLeave ==
  /\ ppc = "scan"
  /\ ppos <= Len(object_refs) => LowMemory
  /\ mutex' = Nobody /\ ppc' = "test" /\ ppos' = 1
  /\ UNCHANGED <<object_refs, present, builders, flags, memory, changed>>

PagerSkip ==
  /\ ppc = "scan" /\ ppos <= Len(object_refs) /\ ~LowMemory
  /\ object_refs[ppos] \in present
  /\ ppos' = ppos + 1
  /\ UNCHANGED <<object_refs, present, builders, mutex, flags, ppc, memory, changed>>

PagerCallSwapIn ==
  /\ ppc = "scan" /\ ppos <= Len(object_refs) /\ ~LowMemory
  /\ object_refs[ppos] \notin present
  /\ ppc' = "swap_in"
  /\ UNCHANGED <<object_refs, present, builders, mutex, flags, ppos, memory, changed>>

\* swap_in returns, if it does; a mutator may have brought the object in before.
PagerSwappedIn ==
  /\ ppc = "swap_in"
  /\ present' = present \cup {object_refs[ppos]}
  /\ ppc' = "scan" /\ ppos' = ppos + 1
  /\ NoteChange({object_refs[ppos]} \ present)
  /\ UNCHANGED <<object_refs, builders, mutex, flags, memory>>

-----------------------------------------------------------------------------
\* Mutant: the present bit is tested the wrong way round.
MemoryVisitAbsent ==
  /\ mpc = "scan" /\ mpos <= Len(object_refs)
  /\ total' = IF object_refs[mpos] \notin present
              THEN (total + Size(object_refs[mpos])) % Word ELSE total
  /\ mpos' = mpos + 1
  /\ UNCHANGED <<object_refs, present, builders, mutex, flags, pager, mpc,
                 available_mem, measured, changed>>

\* dynamic_memory.
MemoryTest ==
  /\ mpc = "test"
  /\ mpc' = IF running THEN "lock" ELSE "done"
  /\ UNCHANGED <<object_refs, present, builders, mutex, flags, pager, mpos,
                 total, available_mem, measured, changed>>

MemoryLock ==
  /\ mpc = "lock" /\ mutex = Nobody
  /\ mutex' = "memory" /\ mpc' = "scan"
  /\ UNCHANGED <<object_refs, present, builders, flags, pager, mpos, total,
                 available_mem, measured, changed>>

MemoryVisit ==
  /\ mpc = "scan" /\ mpos <= Len(object_refs)
  /\ total' = IF object_refs[mpos] \in present
              THEN (total + Size(object_refs[mpos])) % Word ELSE total
  /\ mpos' = mpos + 1
  /\ UNCHANGED <<object_refs, present, builders, mutex, flags, pager, mpc,
                 available_mem, measured, changed>>

\* Mutant: the difference is not brought back to the width of the word.
DifferenceWide(sum) == CacheSize + Word - sum

\* cache_size - total, in unsigned arithmetic.
Difference(sum) == (CacheSize + Word - sum) % Word

MemoryStore ==
  /\ mpc = "scan" /\ mpos > Len(object_refs)
  /\ available_mem' = Difference(total)
  /\ measured' = TRUE
  /\ mutex' = Nobody /\ mpc' = "test" /\ mpos' = 1 /\ total' = 0 /\ changed' = {}
  /\ UNCHANGED <<object_refs, present, builders, flags, pager>>

-----------------------------------------------------------------------------
\* The GC takes an object out of the cache; a mutator brings one back.
Evacuate(i) ==
  /\ i \in present
  /\ present' = present \ {i}
  /\ NoteChange({i})
  /\ UNCHANGED <<object_refs, builders, mutex, flags, pager, memory>>

Fetch(i) ==
  /\ built[i[1]] >= i[2] /\ i \notin present
  /\ present' = present \cup {i}
  /\ NoteChange({i})
  /\ UNCHANGED <<object_refs, builders, mutex, flags, pager, memory>>

BuilderStep(b) == BeginArray(b) \/ AllocateItem(b) \/ RegisterObject(b) \/ EndArray(b)

\* What dynamic_pager does itself.
PagerOwnStep == PagerTest \/ PagerLock \/ PagerLeave \/ PagerSkip \/ PagerCallSwapIn

PagerStep == PagerOwnStep \/ PagerSwappedIn

MemoryStep == MemoryTest \/ MemoryLock \/ MemoryVisit \/ MemoryStore

Next ==
  \/ InitDynamicPager
  \/ StopDynamicPager
  \/ \E b \in Builder : BuilderStep(b)
  \/ PagerStep
  \/ MemoryStep
  \/ \E i \in Item : Evacuate(i) \/ Fetch(i)

Spec == Init /\ [][Next]_vars

\* A thread goes on with what it has begun; it sleeps outside the mutex, so
\* another that keeps asking for the mutex gets it in the end.  Nobody has to
\* start or stop the pager, begin an array or touch an object; nor does a call of
\* swap_in have to return.
Fairness ==
  /\ WF_vars(PagerOwnStep) /\ SF_vars(PagerLock)
  /\ WF_vars(MemoryStep) /\ SF_vars(MemoryLock)
  /\ \A b \in Builder :
       /\ WF_vars(AllocateItem(b)) /\ WF_vars(EndArray(b))
       /\ SF_vars(RegisterObject(b))

FairSpec == Spec /\ Fairness

-----------------------------------------------------------------------------
(* Properties.                                                             *)

\* The type invariant.
TypeOK ==
  /\ object_refs \in Seq(Item) /\ present \subseteq Item
  /\ built \in [Builder -> Nat] /\ \A b \in Builder : built[b] <= NumItems[b]
  /\ bpc \in [Builder -> {"idle", "allocate", "register", "built"}]
  /\ mutex \in {Nobody, "pager", "memory"}
  /\ running \in BOOLEAN /\ measured \in BOOLEAN
  /\ available_mem \in 0..(Word - 1) /\ total \in 0..(Word - 1)
  /\ swap_threshold \in Nat
  /\ ppc \in {"off", "test", "lock", "scan", "swap_in", "done"} /\ ppos \in Nat \ {0}
  /\ mpc \in {"off", "test", "lock", "scan", "done"} /\ mpos \in Nat \ {0}
  /\ changed \subseteq Item

\* A pass of dynamic_pager is admitted or refused as a whole: once it is past
\* its first reference, the test against the threshold at dswap.cpp:57 never
\* ends it, however much it swaps in, because dynamic_memory cannot store a new
\* available_mem while the pass holds the mutex.
PassAllOrNothing ==
  ppc = "swap_in" \/ (ppc = "scan" /\ ppos > 1) => ~LowMemory

\* The pager swaps nothing in before dynamic_memory has measured once: till then
\* available_mem is 0, and the threshold is positive before the threads run.
NoSwapBeforeReading == ppc = "swap_in" => measured

\* No reference is pushed, and so the vector not moved, while dynamic_pager or
\* dynamic_memory is in the middle of its loop over object_refs.
RefsStableInPass ==
  [][(ppc \in {"scan", "swap_in"} \/ mpc = "scan") => (object_refs' = object_refs)]_vars

\* The sizes of the registered pointers in S.
SizeOf(S) == MapThenSumSet(Size, S \cap Range(object_refs))

\* What dynamic_memory stores is cache_size less a total that counts every
\* registered pointer present throughout its scan, and none absent throughout.
\* With no change during the scan it is exact; a pointer that leaves or enters
\* the cache meanwhile may be counted or not, since the scan is not atomic.
ReadingBracketed ==
  [][MemoryStore => \E t \in SizeOf(present \ changed)..SizeOf(present \cup changed) :
                      available_mem' = Difference(t % Word)]_vars

\* One call of swap_in by the pager never returns.  That can happen: with the cache
\* full it waits, the object locked, for a collection that waits for a mutator that
\* waits for the object (manager.cpp:278-286; see Evacuator's MutatorsObserve).
SwapInStuck == <>[](ppc = "swap_in")

\* register_object returns: the mutex reaches every thread that asks for it,
\* although the pager holds it through its swap-ins, unless one of these never ends.
RegistrationReturns ==
  SwapInStuck \/ \A b \in Builder : bpc[b] = "register" ~> bpc[b] = "allocate"

\* After stop_dynamic_pager, which does not wait, both threads come to their end,
\* the one in the middle of its scan and the one that waits for the mutex, unless a
\* swap-in never ends.
StopQuiesces ==
  SwapInStuck \/ (ppc # "off" /\ ~running ~> ppc = "done" /\ mpc = "done")

\* A registered pointer does not stay absent while the pager runs and memory is
\* not low: the pager's passes reach every reference, unless the swap-in of an
\* earlier one never ends.
AbsentIsServed ==
  \/ SwapInStuck
  \/ \A i \in Item :
        i \in Range(object_refs) /\ i \notin present ~> i \in present \/ ~running \/ LowMemory
=============================================================================
