------------------------------ MODULE GCControl ------------------------------
(***************************************************************************)
(* How collections are started and how threads wait for them: gc_check and *)
(* launch_gc_master, the control flow of gc_cache with its early returns,  *)
(* and mutator_wait_for_gc_cache (aifm_changes/manager.cpp).               *)
(*                                                                         *)
(* What is abstracted.  Regions are counted.  Every mutator has a core to  *)
(* itself.  Phases 2 to 4 of a round, which Evacuator models, take no step *)
(* here: the picked regions are released one after the other.  GC bounds   *)
(* the GC threads that can be alive at a time.                             *)
(***************************************************************************)
EXTENDS Naturals, FiniteSets

CONSTANTS
  Mutator,       \* threads that allocate local objects
  InScope,       \* those that do so inside a deref scope (swap_in)
  GC,            \* identities for spawned GC threads
  NumRegions,    \* regions of the cache
  LowFree, HighFree, AlmostEmptyFree, \* free-region thresholds, as counts
  MaxPick,       \* num_regions_per_gc_round
  NULL

ASSUME ThresholdsOK ==
  /\ IsFiniteSet(Mutator) /\ InScope \subseteq Mutator
  /\ NumRegions \in Nat /\ Cardinality(Mutator) <= NumRegions
  /\ LowFree \in Nat /\ HighFree \in Nat /\ AlmostEmptyFree \in Nat
  /\ MaxPick \in Nat \ {0} /\ NULL \notin GC

VARIABLES
  free, used, from,   \* numbers of free, used and picked regions
  open,               \* the mutators whose core-local region is valid
  almost_empty, gc_master_active, gc_master_spawned_,
  gc_lock_,           \* the GC thread that holds gc_lock_ across steps
  mut,                \* where each mutator is
  gc,                 \* where each GC thread is, "none" if it is not alive
  exited              \* exit(-ENOSPC)

regions == <<free, used, from, open>>
flags == <<gc_master_active, gc_master_spawned_>>
vars == <<regions, almost_empty, flags, gc_lock_, mut, gc, exited>>

\* is_free_cache_low, is_free_cache_high, is_free_cache_almost_empty.
Low == free <= LowFree
High == free >= HighFree
AlmostEmpty == free <= AlmostEmptyFree

Move(m, to) == mut' = [mut EXCEPT ![m] = to]
Go(g, to) == gc' = [gc EXCEPT ![g] = to]

-----------------------------------------------------------------------------
(* allocate_local_object when the core-local region has no room.            *)

\* The refill retires the mutator's region and takes a free one, or fails.
Refill(m) ==
  /\ mut[m] \in {"idle", "retry"}
  /\ used' = used + IF m \in open THEN 1 ELSE 0
  /\ IF free > 0
     THEN /\ free' = free - 1 /\ open' = open \cup {m}
          /\ Move(m, "check")
     ELSE /\ open' = open \ {m} /\ UNCHANGED free
          /\ Move(m, "wait")
  /\ UNCHANGED <<from, almost_empty, flags, gc_lock_, gc, exited>>

\* mutator_wait_for_gc_cache, from the locking of gc_lock_ to the call of Wait,
\* and from a wakeup on.
Wait(m) ==
  /\ mut[m] = "wait" /\ gc_lock_ = NULL
  /\ \/ ~almost_empty /\ Move(m, "retry") /\ UNCHANGED exited
     \/ almost_empty /\ m \notin InScope /\ Move(m, "asleep") /\ UNCHANGED exited
     \/ almost_empty /\ m \in InScope /\ exited' = TRUE /\ UNCHANGED mut
  /\ UNCHANGED <<regions, almost_empty, flags, gc_lock_, gc>>

\* gc_check, when the allocation returns after a refill.
GCCheck(m) ==
  /\ mut[m] = "check"
  /\ almost_empty' = (almost_empty \/ (Low /\ AlmostEmpty))
  /\ Move(m, IF Low THEN "load" ELSE "idle")
  /\ UNCHANGED <<regions, flags, gc_lock_, gc, exited>>

\* launch_gc_master, called with preemption off: the load of gc_master_active ...
LaunchLoad(m) ==
  /\ mut[m] = "load"
  /\ Move(m, IF gc_master_active THEN "idle" ELSE "cas")
  /\ UNCHANGED <<regions, almost_empty, flags, gc_lock_, gc, exited>>

\* Mutant of LaunchCas: a thread is spawned whatever gc_master_spawned_ says.
LaunchAlways(m) ==
  /\ mut[m] = "cas" /\ Move(m, "idle")
  /\ \E g \in GC :
        /\ gc[g] = "none" /\ Go(g, "enter")
        /\ gc_master_spawned_' = TRUE
  /\ UNCHANGED <<regions, almost_empty, gc_master_active, gc_lock_, exited>>

\* ... and the compare-and-swap of gc_master_spawned_.
LaunchCas(m) ==
  /\ mut[m] = "cas" /\ Move(m, "idle")
  /\ IF gc_master_spawned_
     THEN UNCHANGED <<gc, gc_master_spawned_>>
     ELSE \E g \in GC :
             /\ gc[g] = "none" /\ Go(g, "enter")
             /\ gc_master_spawned_' = TRUE
  /\ UNCHANGED <<regions, almost_empty, gc_master_active, gc_lock_, exited>>

-----------------------------------------------------------------------------
(* gc_cache.                                                                *)

\* The early returns: the cache is not low any more; a master is active.
GCEnter(g) ==
  /\ gc[g] = "enter"
  /\ Go(g, IF Low THEN "cas" ELSE "none")
  /\ UNCHANGED <<regions, almost_empty, flags, gc_lock_, mut, exited>>

\* Mutant of GCCas: the flag is set without a test.
GCSet(g) ==
  /\ gc[g] = "cas"
  /\ gc_master_active' = TRUE
  /\ Go(g, "loop")
  /\ UNCHANGED <<regions, almost_empty, gc_master_spawned_, gc_lock_, mut, exited>>

GCCas(g) ==
  /\ gc[g] = "cas"
  /\ gc_master_active' = TRUE
  /\ Go(g, IF gc_master_active THEN "none" ELSE "loop")
  /\ UNCHANGED <<regions, almost_empty, gc_master_spawned_, gc_lock_, mut, exited>>

GCLoop(g) ==
  /\ gc[g] = "loop"
  /\ Go(g, IF High THEN "cleanup" ELSE "pick")
  /\ UNCHANGED <<regions, almost_empty, flags, gc_lock_, mut, exited>>

\* pick_from_regions; without a region the master yields and tries again.
GCPick(g) ==
  /\ gc[g] = "pick"
  /\ IF used = 0
     THEN Go(g, "loop") /\ UNCHANGED <<used, from>>
     ELSE /\ \E n \in 1..MaxPick : n <= used /\ from' = n /\ used' = used - n
          /\ Go(g, "release")
  /\ UNCHANGED <<free, open, almost_empty, flags, gc_lock_, mut, exited>>

\* Mutant of GCRelease: the region is not pushed to the free ones.
GCReleaseLosing(g) ==
  /\ gc[g] = "release" /\ from > 0
  /\ from' = from - 1
  /\ UNCHANGED <<free, used, open, almost_empty, flags, gc_lock_, mut, gc, exited>>

\* push_cache_free_region.
GCRelease(g) ==
  /\ gc[g] = "release" /\ from > 0
  /\ from' = from - 1 /\ free' = free + 1
  /\ UNCHANGED <<used, open, almost_empty, flags, gc_lock_, mut, gc, exited>>

\* gc_lock_ is taken and the free regions are counted.
GCReleased(g) ==
  /\ gc[g] = "release" /\ from = 0 /\ gc_lock_ = NULL
  /\ IF AlmostEmpty THEN Go(g, "loop") /\ UNCHANGED gc_lock_
                    ELSE Go(g, "clear") /\ gc_lock_' = g
  /\ UNCHANGED <<regions, almost_empty, flags, mut, exited>>

\* Mutant of GCClear: almost_empty stays set.
GCClearForgotten(g) ==
  /\ gc[g] = "clear"
  /\ Go(g, "signal")
  /\ UNCHANGED <<regions, almost_empty, flags, gc_lock_, mut, exited>>

GCClear(g) ==
  /\ gc[g] = "clear"
  /\ almost_empty' = FALSE
  /\ Go(g, "signal")
  /\ UNCHANGED <<regions, flags, gc_lock_, mut, exited>>

\* Mutant of GCSignal: one waiter is woken, not all.
GCSignalOne(g) ==
  /\ gc[g] = "signal"
  /\ \/ /\ \A m \in Mutator : mut[m] # "asleep"
        /\ UNCHANGED mut
     \/ \E m \in Mutator : mut[m] = "asleep" /\ Move(m, "wait")
  /\ gc_lock_' = NULL
  /\ Go(g, "loop")
  /\ UNCHANGED <<regions, almost_empty, flags, exited>>

\* SignalAll, and the unlocking.
GCSignal(g) ==
  /\ gc[g] = "signal"
  /\ mut' = [m \in Mutator |-> IF mut[m] = "asleep" THEN "wait" ELSE mut[m]]
  /\ gc_lock_' = NULL
  /\ Go(g, "loop")
  /\ UNCHANGED <<regions, almost_empty, flags, exited>>

\* The final cleanup: the two flags, one after the other.
GCCleanup(g) ==
  /\ gc[g] = "cleanup"
  /\ gc_master_spawned_' = FALSE
  /\ Go(g, "inactive")
  /\ UNCHANGED <<regions, almost_empty, gc_master_active, gc_lock_, mut, exited>>

GCInactive(g) ==
  /\ gc[g] = "inactive"
  /\ gc_master_active' = FALSE
  /\ Go(g, "none")
  /\ UNCHANGED <<regions, almost_empty, gc_master_spawned_, gc_lock_, mut, exited>>

-----------------------------------------------------------------------------
Init ==
  /\ free = NumRegions - Cardinality(Mutator) /\ used = 0 /\ from = 0
  /\ open = Mutator
  /\ almost_empty = FALSE
  /\ gc_master_active = FALSE /\ gc_master_spawned_ = FALSE
  /\ gc_lock_ = NULL
  /\ mut = [m \in Mutator |-> "idle"]
  /\ gc = [g \in GC |-> "none"]
  /\ exited = FALSE

MutatorStep(m) ==
  ~exited /\ (Refill(m) \/ Wait(m) \/ GCCheck(m) \/ LaunchLoad(m) \/ LaunchCas(m))

GCStep(g) ==
  /\ ~exited
  /\ \/ GCEnter(g) \/ GCCas(g) \/ GCLoop(g) \/ GCPick(g) \/ GCRelease(g)
     \/ GCReleased(g) \/ GCClear(g) \/ GCSignal(g) \/ GCCleanup(g) \/ GCInactive(g)

Next == (\E m \in Mutator : MutatorStep(m)) \/ (\E g \in GC : GCStep(g))

Spec == Init /\ [][Next]_vars

\* A thread that has begun an allocation goes on with it, and so does a GC
\* thread; a thread that keeps asking for gc_lock_ gets it.
Fairness ==
  /\ \A m \in Mutator : /\ WF_vars(mut[m] # "idle" /\ MutatorStep(m))
                        /\ SF_vars(~exited /\ Wait(m))
  /\ \A g \in GC : WF_vars(GCStep(g))
FairSpec == Spec /\ Fairness

-----------------------------------------------------------------------------
(* Properties.                                                              *)

\* The type invariant; the regions are counted once each.
TypeOK ==
  /\ free \in Nat /\ used \in Nat /\ from \in 0..MaxPick
  /\ open \subseteq Mutator
  /\ free + used + from + Cardinality(open) = NumRegions
  /\ almost_empty \in BOOLEAN /\ exited \in BOOLEAN
  /\ gc_master_active \in BOOLEAN /\ gc_master_spawned_ \in BOOLEAN
  /\ gc_lock_ \in GC \cup {NULL}
  /\ mut \in [Mutator -> {"idle", "retry", "check", "load", "cas", "wait", "asleep"}]
  /\ gc \in [GC -> {"none", "enter", "cas", "loop", "pick", "release", "clear",
                    "signal", "cleanup", "inactive"}]

Master == {g \in GC : gc[g] \notin {"none", "enter", "cas"}}
Collecting == {g \in Master : gc[g] \notin {"cleanup", "inactive"}}
Alive == {g \in GC : gc[g] # "none"}

\* "No more than 1 active gc master thread." (manager.cpp:573)
OneMaster == Cardinality(Master) <= 1

\* "Prevent too many spawned threads." (manager.cpp:778): besides the master that
\* is cleaning up at most one spawned thread is in gc_cache, although the flag
\* is reset before the master is done.
FewSpawned == Cardinality(Alive) <= 2

\* No wakeup is lost: whoever sleeps on the condition variable while nobody holds
\* gc_lock_ sleeps because almost_empty is still set.
NoLostWakeup ==
  gc_lock_ = NULL => \A m \in Mutator : mut[m] = "asleep" => almost_empty

\* A thread other than m is in the middle of an allocation with regions to take.
OthersAllocate(m) ==
  \E n \in Mutator \ {m} : mut[n] \notin {"idle", "asleep", "wait"}

\* A collection under way when thread m sleeps lets it go on, unless others take
\* the regions it frees: it does not end before it has freed what the sleepers
\* retired, cleared almost_empty and signalled.
CollectionWakes ==
  \A m \in Mutator :
     mut[m] = "asleep" /\ Collecting # {}
        ~> mut[m] = "retry" \/ OthersAllocate(m) \/ exited

\* "Prevent too many spawned threads." (manager.cpp:778): the flag prevents too
\* many, not all of them.  A thread that launches a collection because the cache
\* is low gets one, unless the cache is not low any more.
LowIsCollected ==
  \A m \in Mutator : mut[m] = "load" ~> Master # {} \/ ~Low \/ exited
==============================================================================
