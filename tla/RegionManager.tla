---------------------------- MODULE RegionManager ----------------------------
(***************************************************************************)
(* FarMemManager::RegionManager (aifm_changes/manager.cpp): the regions of *)
(* the local cache in three circular buffers of fixed capacity, two        *)
(* core-local regions per core, and the spin lock that guards the buffers  *)
(* but not the regions' ref_cnt.                                           *)
(*                                                                         *)
(* What is abstracted.  A region holds Slots objects of one size.  The GC  *)
(* master is the caller of pop_used_region and push_free_region; it holds  *)
(* at most MaxFrom regions.  MaxPins bounds ref_cnt.                       *)
(***************************************************************************)
EXTENDS Integers, FiniteSets, SequencesExt

CONSTANTS
  Size, KSize,      \* the memory to manage and Region::kSize
  Core,             \* the kNumCPUs cores FOR_ALL_SOCKET0_CORES visits
  NumSocket1CPUs,   \* helpers::kNumSocket1CPUs
  Region,           \* the regions the constructor makes
  MaxRetry,         \* kPickRegionMaxRetryTimes
  Slots, MaxPins, MaxFrom,
  NULL

\* ceil(size / kSize): the capacity of the buffers, and of the memory.
RegionsCount == (Size + KSize - 1) \div KSize

\* What is left for free_regions_ once the core-local regions are taken off: two
\* for every CPU of socket 1.
FreeCount == RegionsCount - 2 * NumSocket1CPUs

Holder == Core \X BOOLEAN   \* <<core, nt>>

\* The constructor makes FreeCount regions, and two for every core.
ASSUME SizesOK ==
  /\ Size \in Nat /\ KSize \in Nat \ {0}
  /\ Core # {} /\ IsFiniteSet(Core) /\ IsFiniteSet(Region)
  /\ NumSocket1CPUs \in 0..Cardinality(Core)
  /\ FreeCount > 0 => Cardinality(Region) = 2 * Cardinality(Core) + FreeCount
  /\ MaxRetry \in Nat /\ Slots \in Nat \ {0}
  /\ MaxPins \in Nat \ {0} /\ MaxFrom \in Nat \ {0}
  /\ NULL \notin Region

VARIABLES
  free_regions, used_regions, nt_used_regions, \* the circular buffers
  core_local,   \* core_local_free_regions_ and core_local_free_nt_regions_
  nt_buf,       \* buf_ptr_ of a core's non-temporal Region, valid or not
  fill,         \* objects allocated in a region
  ref_cnt, is_nt, \* the header of a region
  from,         \* popped regions, held by the GC master
  spin,         \* region_spin_ is held across steps, by pop_used_region
  pop,          \* where pop_used_region is, and its retry_times
  halted        \* "no", "enospc" after exit(-ENOSPC), "bug" after a BUG_ON,
                \* "fault" after a write through a null buf_ptr_

vars == <<free_regions, used_regions, nt_used_regions, core_local, nt_buf, fill,
          ref_cnt, is_nt, from, spin, pop, halted>>
lists == <<free_regions, used_regions, nt_used_regions>>
cores == <<core_local, nt_buf>>

NotPopping == [pc |-> "idle", retry_times |-> 0]
Popping(list, n) == [pc |-> list, retry_times |-> n]

\* Mutants of Full: the last slot is wasted; one region too many is let in.
FullEarly(list) == Len(list) >= RegionsCount - 1
FullLate(list) == Len(list) > RegionsCount

\* CircularBuffer::push_back fails when the buffer is full.
Full(list) == Len(list) >= RegionsCount

IsGcable(r) == ref_cnt[r] = 0

\* What allocate_object finds in the core-local region, nothing if it is invalid.
NewSlotsIn(h) == IF core_local[h] = NULL THEN 0 ELSE Slots - fill[core_local[h]]

-----------------------------------------------------------------------------
\* The constructor.  It refuses a size that leaves nothing for free_regions_.
Init ==
  /\ \/ /\ FreeCount <= 0
        /\ halted = "enospc"
        /\ core_local = [h \in Holder |-> NULL]
        /\ free_regions = <<>>
     \/ /\ FreeCount > 0
        /\ halted = "no"
        /\ core_local \in Injection(Holder, Region)
        /\ free_regions \in SetToSeqs(Region \ Range(core_local))
  /\ nt_buf = [c \in Core |-> core_local[<<c, TRUE>>]]
  /\ is_nt = [r \in Region |-> \E c \in Core : r = core_local[<<c, TRUE>>]]
  /\ used_regions = <<>> /\ nt_used_regions = <<>> /\ from = {}
  /\ fill = [r \in Region |-> 0]
  /\ ref_cnt = [r \in Region |-> 0]
  /\ spin = FALSE /\ pop = NotPopping

\* Region::allocate_object.  The object holds a reference on its region until
\* its owner has finished building it.
AllocateObject(h) ==
  LET r == core_local[h] IN
  /\ NewSlotsIn(h) > 0
  /\ fill' = [fill EXCEPT ![r] = @ + 1]
  /\ ref_cnt[r] < MaxPins
  /\ ref_cnt' = [ref_cnt EXCEPT ![r] = @ + 1]
  /\ UNCHANGED <<lists, cores, is_nt, from, spin, pop, halted>>

\* Region::atomic_inc_ref_cnt(-1).
DropRef(r) ==
  /\ ref_cnt[r] > 0
  /\ ref_cnt' = [ref_cnt EXCEPT ![r] = @ - 1]
  /\ UNCHANGED <<lists, cores, fill, is_nt, from, spin, pop, halted>>

-----------------------------------------------------------------------------
\* try_refill_core_local_free_region, called with the holder's full region: it
\* is retired to the buffer of its kind ...
RetiresTo(h) == IF is_nt[core_local[h]] THEN "nt" ELSE "t"
RetireFails(h) ==
  /\ core_local[h] # NULL
  /\ Full(IF RetiresTo(h) = "nt" THEN nt_used_regions ELSE used_regions)

Retire(h) ==
  LET put(list, kind) ==
        IF core_local[h] # NULL /\ RetiresTo(h) = kind
        THEN Append(list, core_local[h]) ELSE list
  IN /\ used_regions' = put(used_regions, "t")
     /\ nt_used_regions' = put(nt_used_regions, "nt")

\* ... and the head of the free ones becomes the core-local region, if there is
\* one ...
TakeFree(h) ==
  LET r == Head(free_regions) IN
  /\ core_local' = [core_local EXCEPT ![h] = r]
  /\ nt_buf' = IF h[2] THEN [nt_buf EXCEPT ![h[1]] = r] ELSE nt_buf
  /\ free_regions' = Tail(free_regions)
  /\ is_nt' = [is_nt EXCEPT ![r] = @ \/ h[2]]
  /\ UNCHANGED halted

\* What is left in buf_ptr_ of a Region that push_back has moved from.
MovedFrom(r) == {r, NULL}
NtBufLeft(c) ==
  IF core_local[<<c, TRUE>>] = NULL THEN {nt_buf[c]} ELSE MovedFrom(core_local[<<c, TRUE>>])

\* ... the caller's next step is to wait or to give up otherwise.  set_nt runs
\* for a non-temporal holder all the same, on a Region that is not valid: it
\* marks the buffer that Region had last, or writes through null.
FindNone(h) ==
  /\ core_local' = [core_local EXCEPT ![h] = NULL]
  /\ UNCHANGED free_regions
  /\ \/ ~h[2] /\ UNCHANGED <<nt_buf, is_nt, halted>>
     \/ /\ h[2]
        /\ \E b \in NtBufLeft(h[1]) :
             /\ nt_buf' = [nt_buf EXCEPT ![h[1]] = b]
             /\ IF b = NULL THEN halted' = "fault" /\ UNCHANGED is_nt
                            ELSE is_nt' = [is_nt EXCEPT ![b] = TRUE] /\ UNCHANGED halted

Refill(h) ==
  /\ ~spin /\ NewSlotsIn(h) = 0 /\ ~RetireFails(h)
  /\ Retire(h)
  /\ IF free_regions = <<>> THEN FindNone(h) ELSE TakeFree(h)
  /\ UNCHANGED <<fill, ref_cnt, from, spin, pop>>

\* BUG_ON(!success).
RefillBug(h) ==
  /\ ~spin /\ NewSlotsIn(h) = 0 /\ RetireFails(h)
  /\ halted' = "bug"
  /\ UNCHANGED <<lists, cores, fill, ref_cnt, is_nt, from, spin, pop>>

-----------------------------------------------------------------------------
\* Mutant of Reset: the non-temporal mark survives.
ResetKeepingNt(r) ==
  /\ fill' = [fill EXCEPT ![r] = 0]
  /\ ref_cnt' = [ref_cnt EXCEPT ![r] = 0]
  /\ UNCHANGED is_nt

\* Region::reset.
Reset(r) ==
  /\ fill' = [fill EXCEPT ![r] = 0]
  /\ ref_cnt' = [ref_cnt EXCEPT ![r] = 0]
  /\ is_nt' = [is_nt EXCEPT ![r] = FALSE]

\* push_free_region.
PushFree(r) ==
  /\ ~spin /\ r \in from
  /\ Reset(r)
  /\ IF Full(free_regions)
     THEN halted' = "bug" /\ UNCHANGED <<free_regions, from>>
     ELSE /\ free_regions' = Append(free_regions, r)
          /\ from' = from \ {r}
          /\ UNCHANGED halted
  /\ UNCHANGED <<used_regions, nt_used_regions, cores, spin, pop>>

\* pop_used_region: it holds the spin lock while it looks for a region without
\* references, first among the non-temporal ones.
PopBegin ==
  /\ ~spin /\ pop.pc = "idle" /\ Cardinality(from) < MaxFrom
  /\ spin' = TRUE
  /\ pop' = Popping("nt", 0)
  /\ UNCHANGED <<lists, cores, fill, ref_cnt, is_nt, from, halted>>

PopTake(r) ==
  /\ from' = from \cup {r}
  /\ spin' = FALSE /\ pop' = NotPopping

\* Mutant of PopNtPinned: the pinned region is put back in front.
PopNtPinnedInFront ==
  /\ pop.pc = "nt" /\ nt_used_regions # <<>> /\ ~IsGcable(Head(nt_used_regions))
  /\ pop' = IF pop.retry_times <= MaxRetry
            THEN Popping("nt", pop.retry_times + 1) ELSE Popping("t", 0)
  /\ UNCHANGED <<lists, cores, fill, ref_cnt, is_nt, from, spin, halted>>

\* A pinned non-temporal region goes to the back; the next one is tried.
PopNtPinned ==
  /\ pop.pc = "nt" /\ nt_used_regions # <<>> /\ ~IsGcable(Head(nt_used_regions))
  /\ nt_used_regions' = Append(Tail(nt_used_regions), Head(nt_used_regions))
  /\ pop' = IF pop.retry_times <= MaxRetry
            THEN Popping("nt", pop.retry_times + 1) ELSE Popping("t", 0)
  /\ UNCHANGED <<free_regions, used_regions, cores, fill, ref_cnt, is_nt, from,
                 spin, halted>>

PopNtTake ==
  /\ pop.pc = "nt" /\ nt_used_regions # <<>> /\ IsGcable(Head(nt_used_regions))
  /\ nt_used_regions' = Tail(nt_used_regions)
  /\ PopTake(Head(nt_used_regions))
  /\ UNCHANGED <<free_regions, used_regions, cores, fill, ref_cnt, is_nt, halted>>

\* Mutant of PopNtEmpty: the temporal regions are not tried.
PopNtEmptyGivingUp ==
  /\ pop.pc = "nt" /\ nt_used_regions = <<>>
  /\ pop' = NotPopping /\ spin' = FALSE
  /\ UNCHANGED <<lists, cores, fill, ref_cnt, is_nt, from, halted>>

PopNtEmpty ==
  /\ pop.pc = "nt" /\ nt_used_regions = <<>>
  /\ pop' = Popping("t", 0)
  /\ UNCHANGED <<lists, cores, fill, ref_cnt, is_nt, from, spin, halted>>

\* Mutant of PopPinned: the pinned region goes to the back here too.
PopPinnedToBack ==
  /\ pop.pc = "t" /\ used_regions # <<>> /\ ~IsGcable(Head(used_regions))
  /\ used_regions' = Append(Tail(used_regions), Head(used_regions))
  /\ IF pop.retry_times <= MaxRetry
     THEN pop' = Popping("t", pop.retry_times + 1) /\ UNCHANGED spin
     ELSE pop' = NotPopping /\ spin' = FALSE
  /\ UNCHANGED <<free_regions, nt_used_regions, cores, fill, ref_cnt, is_nt, from,
                 halted>>

\* A pinned temporal region goes back to the front: the retries look at it again.
PopPinned ==
  /\ pop.pc = "t" /\ used_regions # <<>> /\ ~IsGcable(Head(used_regions))
  /\ IF pop.retry_times <= MaxRetry
     THEN pop' = Popping("t", pop.retry_times + 1) /\ UNCHANGED spin
     ELSE pop' = NotPopping /\ spin' = FALSE
  /\ UNCHANGED <<lists, cores, fill, ref_cnt, is_nt, from, halted>>

\* Mutant of PopUsedTake: the region's ref_cnt is not looked at.
PopUsedTakePinned ==
  /\ pop.pc = "t" /\ used_regions # <<>>
  /\ used_regions' = Tail(used_regions)
  /\ PopTake(Head(used_regions))
  /\ UNCHANGED <<free_regions, nt_used_regions, cores, fill, ref_cnt, is_nt, halted>>

PopUsedTake ==
  /\ pop.pc = "t" /\ used_regions # <<>> /\ IsGcable(Head(used_regions))
  /\ used_regions' = Tail(used_regions)
  /\ PopTake(Head(used_regions))
  /\ UNCHANGED <<free_regions, nt_used_regions, cores, fill, ref_cnt, is_nt, halted>>

PopEmpty ==
  /\ pop.pc = "t" /\ used_regions = <<>>
  /\ pop' = NotPopping /\ spin' = FALSE
  /\ UNCHANGED <<lists, cores, fill, ref_cnt, is_nt, from, halted>>

PopStep == \/ PopNtPinned \/ PopNtTake \/ PopNtEmpty
           \/ PopPinned \/ PopUsedTake \/ PopEmpty

-----------------------------------------------------------------------------
MasterStep == PopBegin \/ PopStep \/ \E r \in Region : PushFree(r)

\* exit() and BUG_ON end the process.
Halted == halted # "no" /\ UNCHANGED vars

Next ==
  \/ /\ halted = "no"
     /\ \/ \E h \in Holder : AllocateObject(h) \/ Refill(h) \/ RefillBug(h)
        \/ \E r \in Region : DropRef(r)
        \/ MasterStep
  \/ Halted

Spec == Init /\ [][Next]_vars

\* The GC master keeps collecting while it is in its loop.
CollectorSpec == Spec /\ WF_vars(halted = "no" /\ MasterStep)

-----------------------------------------------------------------------------
(* Properties.                                                              *)

\* The type invariant.  The buffers never hold more than their capacity, and no
\* region is pinned more often than the bound allows.
TypeOK ==
  /\ free_regions \in Seq(Region) /\ Len(free_regions) <= RegionsCount
  /\ used_regions \in Seq(Region) /\ Len(used_regions) <= RegionsCount
  /\ nt_used_regions \in Seq(Region) /\ Len(nt_used_regions) <= RegionsCount
  /\ core_local \in [Holder -> Region \cup {NULL}]
  /\ nt_buf \in [Core -> Region \cup {NULL}]
  /\ fill \in [Region -> 0..Slots]
  /\ ref_cnt \in [Region -> 0..MaxPins]
  /\ is_nt \in [Region -> BOOLEAN]
  /\ from \subseteq Region /\ spin \in BOOLEAN
  /\ pop \in [pc : {"idle", "nt", "t"}, retry_times : 0..(MaxRetry + 2)]
  /\ halted \in {"no", "enospc", "bug", "fault"}

\* The manager is a pool of regions: none is lost or duplicated by the moves
\* between buffers, cores and collector, only open regions are allocated from,
\* and pop_used_region never hands out one with references.
Pool == INSTANCE RegionPool WITH
          free <- ToSet(free_regions),
          used <- ToSet(used_regions) \cup ToSet(nt_used_regions),
          open <- core_local,
          pinned <- {r \in Region : ref_cnt[r] > 0}
ImplementsPool == Pool!Spec

\* "Nt: is this region a non-temporal?" (region.hpp:15).  The mark follows the
\* kind of core-local region a region serves as, through retirement, collection
\* and reuse: the buffers hold the kinds they are named for.
KindsSeparate ==
  /\ \A h \in Holder : core_local[h] # NULL => is_nt[core_local[h]] = h[2]
  /\ \A r \in ToSet(nt_used_regions) : is_nt[r]
  /\ \A r \in ToSet(used_regions) : ~is_nt[r]
  /\ \A r \in ToSet(free_regions) : ~is_nt[r]

\* One step alone can mix the kinds: a refill of a core whose non-temporal Region
\* was left without a region already, and that finds none again.  The first such
\* refill still marks the region it has just retired as non-temporal, and
\* retirement, collection and reuse keep the kinds apart.
SecondDryRefill ==
  \E c \in Core : /\ core_local[<<c, TRUE>>] = NULL /\ free_regions = <<>>
                 /\ Refill(<<c, TRUE>>)
KindsKept == [][KindsSeparate => KindsSeparate' \/ SecondDryRefill]_vars

\* The regions exceed the capacity of the buffers by 2 * (kNumCPUs -
\* kNumSocket1CPUs).  What keeps BUG_ON(!success) from firing is that the cores
\* keep regions back: it takes 2 * kNumSocket1CPUs core-local regions that could
\* not be replaced.
BugOnlyWhenDry ==
  halted = "bug" =>
     Cardinality({h \in Holder : core_local[h] = NULL}) >= 2 * NumSocket1CPUs

\* "A naive from-region picker according to the simple round-robin order."
\* (manager.cpp:393): the temporal regions are collected first in, first out,
\* whatever is pinned meanwhile.  A step adds regions at the back only, or hands
\* the one at the front to the collector.
RoundRobin ==
  [][\/ IsPrefix(used_regions, used_regions')
     \/ /\ used_regions # <<>> /\ used_regions' = Tail(used_regions)
        /\ Head(used_regions) \in from']_vars

\* A non-temporal region without references is collected even if another one
\* stays pinned for ever: the pinned one is passed on to the back.
NtNotBlocked ==
  \A r \in Region :
     r \in ToSet(nt_used_regions) /\ IsGcable(r)
        ~> r \notin ToSet(nt_used_regions) \/ halted # "no"

\* A temporal region at the front is collected once its references are gone:
\* failing looks at the non-temporal ones, whose pinned regions are rotated, do
\* not keep the picker from it.  Non-temporal regions that are collected in its
\* stead, over and over, do; the code puts no bound on that.
FrontCollected ==
  \A r \in Region :
     \/ []<><<PopNtTake>>_vars
     \/ used_regions # <<>> /\ Head(used_regions) = r /\ IsGcable(r)
           ~> r \notin ToSet(used_regions) \/ halted # "no"

\* BUG_ON(!success) (manager.cpp:195): the retired region always fits into the
\* buffer of its kind.
RetirementFits == halted # "bug"
==============================================================================
