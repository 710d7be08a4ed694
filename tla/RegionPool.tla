----------------------------- MODULE RegionPool -----------------------------
(***************************************************************************)
(* What the pool of cache regions promises to the allocator and to the     *)
(* collector, without order, capacity, locks or reference counts.  Every   *)
(* region is free, open for allocation at one holder, used up, or being    *)
(* collected.  A pinned region is one somebody is still writing an object  *)
(* into; it is never collected.  RegionManager and Evacuator implement it. *)
(***************************************************************************)
CONSTANTS Region, Holder, NULL

VARIABLES
  free, used, from,  \* the regions that are free, used up, being collected
  open,              \* the region each holder allocates from, NULL if none
  pinned             \* the regions with an unfinished allocation

vars == <<free, used, from, open, pinned>>

Init ==
  /\ open \in [Holder -> Region]
  /\ \A h, k \in Holder : open[h] = open[k] => h = k
  /\ free = Region \ {open[h] : h \in Holder}
  /\ used = {} /\ from = {} /\ pinned = {}

\* A holder gives its region up as used and takes a free one, from which the
\* caller may allocate in the same step.
Refill(h, r) ==
  /\ r \in free
  /\ used' = used \cup ({open[h]} \ {NULL})
  /\ open' = [open EXCEPT ![h] = r]
  /\ free' = free \ {r}
  /\ pinned' \in {pinned, pinned \cup {r}}
  /\ UNCHANGED from

\* Without a free region the holder is left with none.
RunDry(h) ==
  /\ free = {}
  /\ used' = used \cup ({open[h]} \ {NULL})
  /\ open' = [open EXCEPT ![h] = NULL]
  /\ UNCHANGED <<free, from, pinned>>

\* Only an open region is allocated from.
Pin(h) ==
  /\ open[h] # NULL
  /\ pinned' = pinned \cup {open[h]}
  /\ UNCHANGED <<free, used, from, open>>

Unpin(r) ==
  /\ pinned' = pinned \ {r}
  /\ UNCHANGED <<free, used, from, open>>

\* The collector takes a used region nobody is allocating in, and frees it.
Pick(r) ==
  /\ r \in used \ pinned
  /\ used' = used \ {r}
  /\ from' = from \cup {r}
  /\ UNCHANGED <<free, open, pinned>>

Release(r) ==
  /\ r \in from
  /\ from' = from \ {r}
  /\ free' = free \cup {r}
  /\ UNCHANGED <<used, open, pinned>>

Next ==
  \/ \E h \in Holder : RunDry(h) \/ Pin(h) \/ \E r \in Region : Refill(h, r)
  \/ \E r \in Region : Unpin(r) \/ Pick(r) \/ Release(r)

Spec == Init /\ [][Next]_vars
=============================================================================
