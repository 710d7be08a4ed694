------------------------ MODULE RegionManagerProofs ------------------------
(***************************************************************************)
(* The region manager for any number of regions, cores and CPUs: no region *)
(* is ever in two places, one step alone can mix the kinds of regions, a   *)
(* buffer can only overflow after as many cores ran dry as the buffers     *)
(* lack slots, and temporal regions are collected first in, first out.  A  *)
(* manager that came up implements RegionPool.                             *)
(***************************************************************************)
EXTENDS RegionManager, FiniteSetTheorems, TLAPS

-----------------------------------------------------------------------------
(* Sequences without repetitions.                                           *)

Once(s) == \A i, j \in 1..Len(s) : s[i] = s[j] => i = j

LEMMA EmptyList ==
  ASSUME NEW S
  PROVE  <<>> \in Seq(S) /\ Len(<<>>) = 0 /\ Once(<<>>) /\ ToSet(<<>>) = {}
BY DEF Once, ToSet

LEMMA ListElements ==
  ASSUME NEW S, NEW s \in Seq(S)
  PROVE  ToSet(s) = {s[i] : i \in 1..Len(s)} /\ ToSet(s) \subseteq S
BY DEF ToSet

\* push_back.
LEMMA AppendFacts ==
  ASSUME NEW S, NEW s \in Seq(S), NEW x \in S
  PROVE  /\ Append(s, x) \in Seq(S) /\ Len(Append(s, x)) = Len(s) + 1
         /\ ToSet(Append(s, x)) = ToSet(s) \cup {x}
         /\ Once(s) /\ x \notin ToSet(s) => Once(Append(s, x))
<1> DEFINE t == Append(s, x)
<1>1. /\ t \in Seq(S) /\ Len(t) = Len(s) + 1 /\ t[Len(s) + 1] = x
      /\ \A i \in 1..Len(s) : t[i] = s[i]
  OBVIOUS
<1>2. ToSet(t) = {t[i] : i \in 1..Len(t)} /\ ToSet(s) = {s[i] : i \in 1..Len(s)}
  BY <1>1, ListElements
<1>3. 1..Len(t) = 1..Len(s) \cup {Len(s) + 1} BY <1>1
<1> HIDE DEF t
<1>4. ToSet(t) = ToSet(s) \cup {x} BY <1>1, <1>2, <1>3
<1>5. ASSUME Once(s), x \notin ToSet(s) PROVE Once(t)
  BY <1>1, <1>2, <1>3, <1>5 DEF Once
<1> QED BY <1>1, <1>4, <1>5 DEF t

\* pop_front.
LEMMA TailFacts ==
  ASSUME NEW S, NEW s \in Seq(S), s # <<>>
  PROVE  /\ Head(s) \in S /\ Head(s) \in ToSet(s) /\ Head(s) = s[1]
         /\ Tail(s) \in Seq(S) /\ Len(Tail(s)) = Len(s) - 1 /\ Len(s) \in Nat \ {0}
         /\ \A i \in 1..(Len(s) - 1) : Tail(s)[i] = s[i + 1]
         /\ Once(s) => Once(Tail(s)) /\ ToSet(Tail(s)) = ToSet(s) \ {Head(s)}
<1> DEFINE t == Tail(s)
<1>1. /\ t \in Seq(S) /\ Len(t) = Len(s) - 1 /\ Len(s) \in Nat \ {0} /\ Head(s) = s[1]
      /\ \A i \in 1..Len(t) : t[i] = s[i + 1]
  OBVIOUS
<1>2. ToSet(t) = {t[i] : i \in 1..Len(t)} /\ ToSet(s) = {s[i] : i \in 1..Len(s)}
  BY <1>1, ListElements
<1> HIDE DEF t
<1>3. Head(s) \in ToSet(s) /\ Head(s) \in S BY <1>1, <1>2
<1>4. ASSUME Once(s) PROVE Once(t) /\ ToSet(t) = ToSet(s) \ {Head(s)}
  <2>1. Once(t)
    <3> SUFFICES ASSUME NEW i \in 1..Len(t), NEW j \in 1..Len(t), t[i] = t[j] PROVE i = j
      BY DEF Once
    <3>1. i + 1 \in 1..Len(s) /\ j + 1 \in 1..Len(s) /\ s[i + 1] = s[j + 1] BY <1>1
    <3>2. i + 1 = j + 1 BY <1>4, <3>1 DEF Once
    <3> QED BY <3>2
  <2>2. \A i \in 1..Len(t) : t[i] \in ToSet(s) /\ t[i] # s[1]
    BY <1>1, <1>2, <1>4 DEF Once
  <2>3. \A i \in 1..Len(s) : i # 1 => s[i] = t[i - 1] /\ i - 1 \in 1..Len(t)
    BY <1>1
  <2>4. ToSet(t) \subseteq ToSet(s) \ {s[1]} BY <1>2, <2>2
  <2>5. ToSet(s) \ {s[1]} \subseteq ToSet(t) BY <1>2, <2>3
  <2> QED BY <1>1, <2>1, <2>4, <2>5
<1>5. \A i \in 1..(Len(s) - 1) : t[i] = s[i + 1] BY <1>1
<1>6. t = Tail(s) BY DEF t
<1> QED BY <1>1, <1>3, <1>4, <1>5, <1>6

\* A pinned region that goes to the back is still the only copy of itself.
LEMMA BackFacts ==
  ASSUME NEW S, NEW q \in Seq(S), NEW x \in S, Once(q), x \notin ToSet(q)
  PROVE  /\ Append(q, x) \in Seq(S) /\ Len(Append(q, x)) = Len(q) + 1 /\ Once(Append(q, x))
         /\ ToSet(Append(q, x)) = ToSet(q) \cup {x}
<1>1. ToSet(Append(q, x)) = ToSet(q) \cup {x} BY AppendFacts
<1>2. Once(Append(q, x)) BY AppendFacts
<1> QED BY <1>1, <1>2

LEMMA RotateFacts ==
  ASSUME NEW S, NEW s \in Seq(S), s # <<>>, Once(s)
  PROVE  LET t == Append(Tail(s), Head(s)) IN
         t \in Seq(S) /\ Len(t) = Len(s) /\ Once(t) /\ ToSet(t) = ToSet(s)
<1>1. /\ Head(s) \in S /\ Head(s) \in ToSet(s)
      /\ Tail(s) \in Seq(S) /\ Len(Tail(s)) = Len(s) - 1 /\ Len(s) \in Nat
      /\ Once(Tail(s)) /\ ToSet(Tail(s)) = ToSet(s) \ {Head(s)}
  BY TailFacts
<1> SUFFICES ASSUME NEW x \in S, NEW q \in Seq(S), Once(q), x \in ToSet(s),
                    Len(q) = Len(s) - 1, ToSet(q) = ToSet(s) \ {x}
             PROVE  /\ Append(q, x) \in Seq(S) /\ Len(Append(q, x)) = Len(s)
                    /\ Once(Append(q, x)) /\ ToSet(Append(q, x)) = ToSet(s)
  BY <1>1
<1>2. /\ Append(q, x) \in Seq(S) /\ Len(Append(q, x)) = Len(q) + 1 /\ Once(Append(q, x))
      /\ ToSet(Append(q, x)) = ToSet(q) \cup {x}
  BY BackFacts
<1> QED BY <1>1, <1>2

-----------------------------------------------------------------------------
(* The inductive invariant.                                                 *)

\* The core-local regions.
Opened == {core_local[h] : h \in Holder} \ {NULL}

Distinct(F, U, N, C, O) ==
  /\ F \cap (U \cup N \cup C \cup O) = {}
  /\ U \cap (N \cup C \cup O) = {}
  /\ N \cap (C \cup O) = {}
  /\ C \cap O = {}

\* No region is twice in a buffer, at a core, or in two of these places.
OnePlace ==
  /\ Once(free_regions) /\ Once(used_regions) /\ Once(nt_used_regions)
  /\ \A h, k \in Holder : core_local[h] = core_local[k] /\ core_local[h] # NULL => h = k
  /\ Distinct(ToSet(free_regions), ToSet(used_regions), ToSet(nt_used_regions), from, Opened)

\* A region the master holds has no reference, and can get none.
Unreferenced == \A r \in from : ref_cnt[r] = 0

\* The manager works on only if its constructor left regions for free_regions_.
CameUp == halted # "enospc" => FreeCount > 0

RegionInv ==
  TypeOK /\ OnePlace /\ Unreferenced /\ BugOnlyWhenDry /\ CameUp

LEMMA Capacity == RegionsCount \in Nat /\ FreeCount \in Int /\ FreeCount <= RegionsCount
<1>1. Cardinality(Core) \in Nat BY SizesOK, FS_CardinalityType
<1>2. RegionsCount \in Nat BY SizesOK DEF RegionsCount
<1>3. NumSocket1CPUs \in Nat BY SizesOK, <1>1
<1> QED BY <1>2, <1>3 DEF FreeCount

LEMMA Holders == IsFiniteSet(Holder) /\ Cardinality(Holder) = 2 * Cardinality(Core)
<1>1. IsFiniteSet(BOOLEAN) /\ Cardinality(BOOLEAN) = 2
  <2>1. BOOLEAN = {TRUE} \cup {FALSE} OBVIOUS
  <2>2. IsFiniteSet({TRUE}) /\ Cardinality({TRUE}) = 1 BY FS_Singleton
  <2>3. FALSE \notin {TRUE} OBVIOUS
  <2>4. Cardinality({TRUE} \cup {FALSE}) = Cardinality({TRUE}) + 1
    BY <2>2, <2>3, FS_AddElement
  <2>5. IsFiniteSet({TRUE} \cup {FALSE}) BY <2>2, FS_AddElement
  <2>6. IsFiniteSet(BOOLEAN) /\ Cardinality(BOOLEAN) = Cardinality({TRUE}) + 1
    BY <2>1, <2>4, <2>5, Zenon
  <2> QED BY <2>2, <2>6
<1>2. IsFiniteSet(Core) /\ Cardinality(Core) \in Nat BY SizesOK, FS_CardinalityType
<1>3. IsFiniteSet(Holder) /\ Cardinality(Holder) = Cardinality(Core) * Cardinality(BOOLEAN)
  BY <1>1, <1>2, FS_Product DEF Holder
<1> QED BY <1>1, <1>2, <1>3

\* The regions of a list without repetitions are at least as many as it is long.
LEMMA ListBound ==
  ASSUME NEW s \in Seq(Region), Once(s)
  PROVE  /\ IsFiniteSet(ToSet(s)) /\ Cardinality(ToSet(s)) \in Nat
         /\ Len(s) <= Cardinality(ToSet(s))
<1>1. ToSet(s) = {s[i] : i \in 1..Len(s)} /\ ToSet(s) \subseteq Region BY ListElements
<1>2. IsFiniteSet(ToSet(s)) BY <1>1, SizesOK, FS_Subset
<1>3. s \in Injection(1..Len(s), ToSet(s))
  BY <1>1 DEF Injection, IsInjective, Once
<1>4. Cardinality(1..Len(s)) <= Cardinality(ToSet(s)) BY <1>2, <1>3, FS_Injection
<1>5. Cardinality(1..Len(s)) = Len(s)
  <2>1. Len(s) \in Nat /\ 1 \in Int OBVIOUS
  <2>2. Cardinality(1..Len(s)) = IF 1 > Len(s) THEN 0 ELSE Len(s) - 1 + 1
    BY <2>1, FS_Interval
  <2> QED BY <2>1, <2>2
<1> QED BY <1>2, <1>4, <1>5, FS_CardinalityType

\* A buffer is full only when enough cores have no region: the regions are RegionsCount
\* and those the cores hold beyond 2 * kNumSocket1CPUs.
LEMMA FullMeansDry ==
  ASSUME TypeOK, OnePlace, FreeCount > 0,
         NEW s \in {free_regions, used_regions, nt_used_regions}, Full(s)
  PROVE  Cardinality({h \in Holder : core_local[h] = NULL}) >= 2 * NumSocket1CPUs
<1> DEFINE A == {h \in Holder : core_local[h] # NULL}
           D == {h \in Holder : core_local[h] = NULL}
<1>1. s \in Seq(Region) /\ Once(s) /\ ToSet(s) \cap Opened = {}
  BY DEF TypeOK, OnePlace, Distinct
<1>2. IsFiniteSet(ToSet(s)) /\ Len(s) <= Cardinality(ToSet(s)) /\ Cardinality(ToSet(s)) \in Nat
  BY <1>1, ListBound
<1>3. Len(s) >= RegionsCount /\ Len(s) \in Nat BY <1>1 DEF Full
<1>4. ToSet(s) \subseteq Region /\ Opened \subseteq Region
  BY <1>1, ListElements DEF TypeOK, Opened
<1>5. IsFiniteSet(Opened) /\ Cardinality(Opened) \in Nat
  BY <1>4, SizesOK, FS_Subset, FS_CardinalityType
<1>6. Cardinality(ToSet(s)) + Cardinality(Opened) <= Cardinality(Region)
  <2>1. Cardinality(ToSet(s) \cup Opened) = Cardinality(ToSet(s)) + Cardinality(Opened) - 0
    BY <1>1, <1>2, <1>5, FS_Union, FS_EmptySet
  <2>2. Cardinality(ToSet(s) \cup Opened) <= Cardinality(Region)
    BY <1>4, SizesOK, FS_Subset
  <2> QED BY <1>2, <1>5, <2>1, <2>2
<1>7. Cardinality(A) <= Cardinality(Opened)
  <2>1. [h \in A |-> core_local[h]] \in Injection(A, Opened)
    <3>1. [h \in A |-> core_local[h]] \in [A -> Opened] BY DEF Opened
    <3> QED BY <3>1 DEF Injection, IsInjective, OnePlace
  <2> QED BY <1>5, <2>1, FS_Injection
<1>8. /\ IsFiniteSet(A) /\ IsFiniteSet(D) /\ Cardinality(A) \in Nat /\ Cardinality(D) \in Nat
      /\ Cardinality(A) + Cardinality(D) = 2 * Cardinality(Core)
  <2>1. A \subseteq Holder /\ D \subseteq Holder /\ A \cup D = Holder /\ A \cap D = {}
    OBVIOUS
  <2>2. IsFiniteSet(A) /\ IsFiniteSet(D) BY <2>1, Holders, FS_Subset
  <2>3. Cardinality(A) \in Nat /\ Cardinality(D) \in Nat BY <2>2, FS_CardinalityType
  <2>4. Cardinality(A \cup D) = Cardinality(A) + Cardinality(D) - 0
    BY <2>1, <2>2, FS_Union, FS_EmptySet
  <2>5. Cardinality(Holder) = Cardinality(A) + Cardinality(D) - 0
    BY <2>1, <2>4, Zenon
  <2> HIDE DEF A, D
  <2> QED BY <2>2, <2>3, <2>5, Holders
<1>9. /\ Cardinality(Region) = 2 * Cardinality(Core) + FreeCount
      /\ Cardinality(Core) \in Nat /\ NumSocket1CPUs \in Int
  BY SizesOK, FS_CardinalityType
<1>10. FreeCount = RegionsCount - 2 * NumSocket1CPUs /\ RegionsCount \in Nat
  BY Capacity DEF FreeCount
<1> HIDE DEF A, D
<1>11. Cardinality(D) >= 2 * NumSocket1CPUs
  BY <1>2, <1>3, <1>5, <1>6, <1>7, <1>8, <1>9, <1>10
<1> QED BY <1>11 DEF D

-----------------------------------------------------------------------------
(* The constructor establishes it.                                          *)

LEMMA InitOnePlace ==
  ASSUME Init
  PROVE  RegionInv
<1>1. /\ nt_buf = [c \in Core |-> core_local[<<c, TRUE>>]]
      /\ is_nt = [r \in Region |-> \E c \in Core : r = core_local[<<c, TRUE>>]]
      /\ used_regions = <<>> /\ nt_used_regions = <<>> /\ from = {}
      /\ fill = [r \in Region |-> 0] /\ ref_cnt = [r \in Region |-> 0]
      /\ spin = FALSE /\ pop = NotPopping
  BY DEF Init
<1>2. Once(<<>>) /\ ToSet(<<>>) = {} /\ <<>> \in Seq(Region) /\ Len(<<>>) = 0
  BY EmptyList
<1>3. /\ fill \in [Region -> 0..Slots] /\ ref_cnt \in [Region -> 0..MaxPins]
      /\ is_nt \in [Region -> BOOLEAN]
  BY <1>1, SizesOK
<1>4. pop \in [pc : {"idle", "nt", "t"}, retry_times : 0..(MaxRetry + 2)]
  BY <1>1, SizesOK DEF NotPopping
<1>5. CASE FreeCount <= 0 /\ halted = "enospc" /\ core_local = [h \in Holder |-> NULL]
           /\ free_regions = <<>>
  <2>1. TypeOK
    <3>1. core_local \in [Holder -> Region \cup {NULL}] /\ nt_buf \in [Core -> Region \cup {NULL}]
      BY <1>1, <1>5 DEF Holder
    <3>2. /\ Len(free_regions) <= RegionsCount /\ Len(used_regions) <= RegionsCount
          /\ Len(nt_used_regions) <= RegionsCount
      BY <1>1, <1>2, <1>5, Capacity
    <3>3. /\ free_regions \in Seq(Region) /\ used_regions \in Seq(Region)
          /\ nt_used_regions \in Seq(Region) /\ from \subseteq Region /\ spin \in BOOLEAN
      BY <1>1, <1>2, <1>5
    <3> QED BY <1>3, <1>4, <1>5, <3>1, <3>2, <3>3 DEF TypeOK
  <2>2. OnePlace BY <1>1, <1>2, <1>5 DEF OnePlace, Distinct, Opened
  <2> QED BY <1>1, <1>5, <2>1, <2>2
          DEF RegionInv, Unreferenced, BugOnlyWhenDry, CameUp
<1>6. CASE /\ FreeCount > 0 /\ halted = "no" /\ core_local \in Injection(Holder, Region)
           /\ free_regions \in SetToSeqs(Region \ Range(core_local))
  <2> DEFINE R == Range(core_local)
             F == Region \ R
  <2>1. /\ core_local \in [Holder -> Region]
        /\ \A h, k \in Holder : core_local[h] = core_local[k] => h = k
    BY <1>6 DEF Injection, IsInjective
  <2>2. R = {core_local[h] : h \in Holder} /\ R \subseteq Region /\ R = Opened
    BY <2>1, SizesOK DEF Range, Opened
  <2>3. IsFiniteSet(R) /\ IsFiniteSet(F) /\ Cardinality(R) \in Nat /\ Cardinality(F) \in Nat
    BY <2>2, SizesOK, FS_Subset, FS_Difference, FS_CardinalityType
  <2>4. Cardinality(R) >= 2 * Cardinality(Core)
    <3>1. core_local \in Injection(Holder, R)
      BY <2>1, <2>2 DEF Injection, IsInjective
    <3> HIDE DEF R
    <3>2. Cardinality(Holder) <= Cardinality(R) BY <2>3, <3>1, FS_Injection
    <3>3. Cardinality(Core) \in Nat BY SizesOK, FS_CardinalityType
    <3> QED BY <2>3, <3>2, <3>3, Holders
  <2>5. Cardinality(F) <= FreeCount
    <3>1. Cardinality(F) = Cardinality(Region) - Cardinality(Region \cap R)
      BY SizesOK, FS_Difference
    <3>2. Region \cap R = R BY <2>2
    <3>3. Cardinality(Region) = 2 * Cardinality(Core) + FreeCount /\ Cardinality(Core) \in Nat
      BY <1>6, SizesOK, FS_CardinalityType
    <3> HIDE DEF F, R
    <3>4. Cardinality(F) = Cardinality(Region) - Cardinality(R) BY <3>1, <3>2
    <3> QED BY <2>3, <2>4, <3>3, <3>4, Capacity
  <2>6. /\ free_regions \in [1..Cardinality(F) -> F]
        /\ \A i, j \in 1..Cardinality(F) : i # j => free_regions[i] # free_regions[j]
    BY <1>6 DEF SetToSeqs
  <2> HIDE DEF R
  <2>7. /\ free_regions \in Seq(Region) /\ Len(free_regions) = Cardinality(F)
        /\ ToSet(free_regions) \subseteq F /\ Once(free_regions)
    <3> HIDE DEF F
    <3>1. F \subseteq Region BY DEF F
    <3>2. free_regions \in Seq(F) /\ Len(free_regions) = Cardinality(F) BY <2>3, <2>6
    <3>3. ToSet(free_regions) \subseteq F BY <3>2, ListElements
    <3>4. Once(free_regions) BY <2>6, <3>2 DEF Once
    <3>5. free_regions \in Seq(Region) BY <3>1, <3>2
    <3> QED BY <3>2, <3>3, <3>4, <3>5
  <2>8. Len(free_regions) <= RegionsCount BY <2>3, <2>5, <2>7, Capacity
  <2>9. TypeOK
    <3>1. core_local \in [Holder -> Region \cup {NULL}] /\ nt_buf \in [Core -> Region \cup {NULL}]
      BY <1>1, <2>1 DEF Holder
    <3>2. Len(used_regions) <= RegionsCount /\ Len(nt_used_regions) <= RegionsCount
      BY <1>1, <1>2, Capacity
    <3>3. /\ used_regions \in Seq(Region) /\ nt_used_regions \in Seq(Region)
          /\ from \subseteq Region /\ spin \in BOOLEAN
      BY <1>1, <1>2
    <3> QED BY <1>3, <1>4, <1>6, <2>7, <2>8, <3>1, <3>2, <3>3 DEF TypeOK
  <2>10. OnePlace
    BY <1>1, <1>2, <2>1, <2>2, <2>7 DEF OnePlace, Distinct
  <2> QED BY <1>1, <1>6, <2>9, <2>10
          DEF RegionInv, Unreferenced, BugOnlyWhenDry, CameUp
<1> QED BY <1>5, <1>6 DEF Init

-----------------------------------------------------------------------------
(* Every step keeps it.                                                     *)

\* What a step that moves no region has to respect.
LEMMA NothingMoved ==
  ASSUME RegionInv, halted = "no", UNCHANGED <<lists, cores, is_nt, from>>,
         fill' \in [Region -> 0..Slots], ref_cnt' \in [Region -> 0..MaxPins],
         \A r \in from : ref_cnt'[r] = ref_cnt[r], spin' \in BOOLEAN,
         pop' \in [pc : {"idle", "nt", "t"}, retry_times : 0..(MaxRetry + 2)],
         halted' = "no"
  PROVE  RegionInv'
<1> USE DEF RegionInv, lists, cores
<1>1. TypeOK' BY DEF TypeOK
<1>2. OnePlace' BY DEF OnePlace, Opened
<1>3. Unreferenced' BY DEF Unreferenced
<1>4. BugOnlyWhenDry' /\ CameUp' BY DEF BugOnlyWhenDry, CameUp
<1> QED BY <1>1, <1>2, <1>3, <1>4

LEMMA AllocateKeeps ==
  ASSUME RegionInv, halted = "no", NEW h \in Holder, AllocateObject(h)
  PROVE  RegionInv'
<1>1. core_local[h] # NULL /\ core_local[h] \in Region
  BY SizesOK DEF AllocateObject, NewSlotsIn, RegionInv, TypeOK
<1>2. core_local[h] \in Opened BY <1>1 DEF Opened
<1> SUFFICES ASSUME NEW r \in Region, r = core_local[h], r \in Opened PROVE RegionInv'
  BY <1>1, <1>2
<1>3. /\ fill[r] \in 0..Slots /\ Slots - fill[r] > 0 /\ ref_cnt[r] \in 0..MaxPins
      /\ ref_cnt[r] < MaxPins
  BY <1>1 DEF AllocateObject, NewSlotsIn, RegionInv, TypeOK
<1>4. /\ fill' = [fill EXCEPT ![r] = @ + 1] /\ ref_cnt' = [ref_cnt EXCEPT ![r] = @ + 1]
      /\ UNCHANGED <<lists, cores, is_nt, from, spin, pop, halted>>
  BY DEF AllocateObject
<1>5. r \notin from BY DEF RegionInv, OnePlace, Distinct
<1>6. /\ fill' \in [Region -> 0..Slots] /\ ref_cnt' \in [Region -> 0..MaxPins]
      /\ \A q \in from : ref_cnt'[q] = ref_cnt[q]
  <2>1. fill[r] + 1 \in 0..Slots /\ ref_cnt[r] + 1 \in 0..MaxPins
    BY <1>3, SizesOK
  <2> QED BY <1>4, <1>5, <2>1 DEF RegionInv, TypeOK
<1> QED BY <1>4, <1>6, NothingMoved DEF RegionInv, TypeOK

LEMMA DropRefKeeps ==
  ASSUME RegionInv, halted = "no", NEW r \in Region, DropRef(r)
  PROVE  RegionInv'
<1>1. /\ ref_cnt[r] > 0 /\ ref_cnt' = [ref_cnt EXCEPT ![r] = @ - 1]
      /\ UNCHANGED <<lists, cores, fill, is_nt, from, spin, pop, halted>>
  BY DEF DropRef
<1>2. r \notin from BY <1>1 DEF RegionInv, Unreferenced
<1>3. ref_cnt' \in [Region -> 0..MaxPins] /\ \A q \in from : ref_cnt'[q] = ref_cnt[q]
  BY <1>1, <1>2, SizesOK DEF RegionInv, TypeOK
<1> QED BY <1>1, <1>3, NothingMoved DEF RegionInv, TypeOK

\* A buffer that overflows stops everything, when enough cores are dry.
LEMMA BugKeeps ==
  ASSUME RegionInv, halted = "no", UNCHANGED <<lists, cores, from>>, halted' = "bug",
         fill' \in [Region -> 0..Slots], ref_cnt' \in [Region -> 0..MaxPins],
         is_nt' \in [Region -> BOOLEAN], UNCHANGED <<spin, pop>>, \A r \in from : ref_cnt'[r] = 0,
         NEW s \in {free_regions, used_regions, nt_used_regions}, Full(s)
  PROVE  RegionInv'
<1> USE DEF RegionInv, lists, cores
<1>1. TypeOK' BY DEF TypeOK
<1>2. OnePlace' BY DEF OnePlace, Opened
<1>3. Unreferenced' BY DEF Unreferenced
<1>4. Cardinality({h \in Holder : core_local[h] = NULL}) >= 2 * NumSocket1CPUs
  BY FullMeansDry DEF CameUp
<1>5. BugOnlyWhenDry' /\ CameUp' BY <1>4 DEF BugOnlyWhenDry, CameUp
<1> QED BY <1>1, <1>2, <1>3, <1>5

LEMMA RefillBugKeeps ==
  ASSUME RegionInv, halted = "no", NEW h \in Holder, RefillBug(h)
  PROVE  RegionInv'
<1>1. /\ halted' = "bug"
      /\ UNCHANGED <<lists, cores, fill, ref_cnt, is_nt, from, spin, pop>>
  BY DEF RefillBug
<1>2. PICK s \in {free_regions, used_regions, nt_used_regions} : Full(s)
  BY DEF RefillBug, RetireFails
<1> QED BY <1>1, <1>2, BugKeeps DEF RegionInv, TypeOK, Unreferenced

Listed(s) == s \in Seq(Region) /\ Len(s) <= RegionsCount /\ Once(s)

\* The region a holder retires, if it is of the kind.
Retired(h, nt) == {r \in {core_local[h]} \ {NULL} : is_nt[r] = nt}

LEMMA PushBack ==
  ASSUME NEW s \in Seq(Region), Once(s), NEW r \in Region, r \notin ToSet(s), ~Full(s)
  PROVE  Listed(Append(s, r)) /\ ToSet(Append(s, r)) = ToSet(s) \cup {r}
<1>1. Len(s) + 1 <= RegionsCount /\ Len(s) \in Nat BY Capacity DEF Full
<1>2. /\ Append(s, r) \in Seq(Region) /\ Len(Append(s, r)) = Len(s) + 1 /\ Once(Append(s, r))
      /\ ToSet(Append(s, r)) = ToSet(s) \cup {r}
  BY BackFacts
<1> QED BY <1>1, <1>2 DEF Listed

LEMMA RetireMoves ==
  ASSUME RegionInv, NEW h \in Holder, ~RetireFails(h), Retire(h)
  PROVE  /\ Listed(used_regions)' /\ Listed(nt_used_regions)'
         /\ ToSet(used_regions)' = ToSet(used_regions) \cup Retired(h, FALSE)
         /\ ToSet(nt_used_regions)' = ToSet(nt_used_regions) \cup Retired(h, TRUE)
<1>1. /\ Listed(used_regions) /\ Listed(nt_used_regions)
      /\ core_local[h] \in Region \cup {NULL}
  BY DEF RegionInv, TypeOK, OnePlace, Listed
<1>2. CASE core_local[h] = NULL
  <2>1. used_regions' = used_regions /\ nt_used_regions' = nt_used_regions
    BY <1>2 DEF Retire
  <2>2. Retired(h, FALSE) = {} /\ Retired(h, TRUE) = {} BY <1>2 DEF Retired
  <2> QED BY <1>1, <2>1, <2>2 DEF Listed
<1>3. ASSUME NEW r \in Region, r = core_local[h], r # NULL
      PROVE  /\ Listed(used_regions)' /\ Listed(nt_used_regions)'
             /\ ToSet(used_regions)' = ToSet(used_regions) \cup Retired(h, FALSE)
             /\ ToSet(nt_used_regions)' = ToSet(nt_used_regions) \cup Retired(h, TRUE)
  <2>1. r \notin ToSet(used_regions) /\ r \notin ToSet(nt_used_regions) /\ is_nt[r] \in BOOLEAN
    BY <1>3 DEF RegionInv, TypeOK, OnePlace, Distinct, Opened
  <2>2. CASE is_nt[r]
    <3>1. used_regions' = used_regions /\ nt_used_regions' = Append(nt_used_regions, r)
      BY <1>3, <2>2 DEF Retire, RetiresTo
    <3>2. ~Full(nt_used_regions) BY <1>3, <2>2 DEF RetireFails, RetiresTo
    <3>3. Retired(h, FALSE) = {} /\ Retired(h, TRUE) = {r} BY <1>3, <2>1, <2>2 DEF Retired
    <3>4. /\ Listed(Append(nt_used_regions, r))
          /\ ToSet(Append(nt_used_regions, r)) = ToSet(nt_used_regions) \cup {r}
      BY <1>1, <2>1, <3>2, PushBack DEF Listed
    <3> QED BY <1>1, <3>1, <3>3, <3>4 DEF Listed
  <2>3. CASE ~is_nt[r]
    <3>1. used_regions' = Append(used_regions, r) /\ nt_used_regions' = nt_used_regions
      BY <1>3, <2>3 DEF Retire, RetiresTo
    <3>2. ~Full(used_regions) BY <1>3, <2>3 DEF RetireFails, RetiresTo
    <3>3. Retired(h, FALSE) = {r} /\ Retired(h, TRUE) = {} BY <1>3, <2>1, <2>3 DEF Retired
    <3>4. /\ Listed(Append(used_regions, r))
          /\ ToSet(Append(used_regions, r)) = ToSet(used_regions) \cup {r}
      BY <1>1, <2>1, <3>2, PushBack DEF Listed
    <3> QED BY <1>1, <3>1, <3>3, <3>4 DEF Listed
  <2> QED BY <2>2, <2>3
<1> QED BY <1>1, <1>2, <1>3

LEMMA HolderChanges ==
  ASSUME RegionInv, NEW h \in Holder, NEW r \in Region \cup {NULL}, r \notin Opened,
         core_local' = [core_local EXCEPT ![h] = r]
  PROVE  /\ core_local' \in [Holder -> Region \cup {NULL}]
         /\ Opened' = (Opened \ {core_local[h]}) \cup ({r} \ {NULL})
         /\ \A k, l \in Holder : core_local'[k] = core_local'[l] /\ core_local'[k] # NULL => k = l
<1>1. /\ core_local \in [Holder -> Region \cup {NULL}]
      /\ \A k, l \in Holder : core_local[k] = core_local[l] /\ core_local[k] # NULL => k = l
      /\ \A k \in Holder : core_local[k] # NULL => core_local[k] # r
  BY DEF RegionInv, TypeOK, OnePlace, Opened
<1>2. core_local'[h] = r /\ \A k \in Holder \ {h} : core_local'[k] = core_local[k]
  BY <1>1
<1>3. \A k, l \in Holder : core_local'[k] = core_local'[l] /\ core_local'[k] # NULL => k = l
  BY <1>1, <1>2
<1>4. Opened' = (Opened \ {core_local[h]}) \cup ({r} \ {NULL})
  BY <1>1, <1>2 DEF Opened
<1> QED BY <1>1, <1>3, <1>4

\* A retired region and the one that replaces it change places.
LEMMA RefillDistinct ==
  ASSUME NEW F, NEW U, NEW N, NEW C, NEW O, Distinct(F, U, N, C, O), NEW A, NEW B, NEW x,
         NEW r, A \cap B = {}, A \cup B \subseteq {x} \cap O, r # NULL => r \in F
  PROVE  Distinct(F \ {r}, U \cup A, N \cup B, C, (O \ {x}) \cup ({r} \ {NULL}))
<1> USE DEF Distinct
<1>1. (F \ {r}) \cap ((U \cup A) \cup (N \cup B) \cup C \cup (O \ {x}) \cup ({r} \ {NULL})) = {}
  OBVIOUS
<1>2. (U \cup A) \cap ((N \cup B) \cup C \cup (O \ {x}) \cup ({r} \ {NULL})) = {}
  OBVIOUS
<1>3. (N \cup B) \cap (C \cup (O \ {x}) \cup ({r} \ {NULL})) = {}
  OBVIOUS
<1>4. C \cap ((O \ {x}) \cup ({r} \ {NULL})) = {}
  OBVIOUS
<1> QED BY <1>1, <1>2, <1>3, <1>4

\* The mark goes to the region taken, or to the buffer an invalid Region still names.
LEMMA MarkTypes ==
  ASSUME RegionInv, halted = "no", NEW h \in Holder, Refill(h)
  PROVE  /\ is_nt' \in [Region -> BOOLEAN] /\ nt_buf' \in [Core -> Region \cup {NULL}]
         /\ halted' \in {"no", "fault"}
<1>1. /\ is_nt \in [Region -> BOOLEAN] /\ nt_buf \in [Core -> Region \cup {NULL}]
      /\ core_local \in [Holder -> Region \cup {NULL}] /\ free_regions \in Seq(Region)
  BY DEF RegionInv, TypeOK
<1>2. PICK c \in Core, b \in BOOLEAN : h = <<c, b>> BY DEF Holder
<1>3. CASE free_regions = <<>>
  <2>1. NtBufLeft(c) \subseteq Region \cup {NULL}
    <3>1. core_local[<<c, TRUE>>] \in Region \cup {NULL} BY <1>1 DEF Holder
    <3> QED BY <1>1, <3>1 DEF NtBufLeft, MovedFrom
  <2>2. FindNone(h) BY <1>3 DEF Refill
  <2> QED BY <1>1, <1>2, <2>1, <2>2 DEF FindNone
<1>4. CASE free_regions # <<>>
  <2>1. Head(free_regions) \in Region BY <1>1, <1>4
  <2>2. TakeFree(h) BY <1>4 DEF Refill
  <2> QED BY <1>1, <1>2, <2>1, <2>2 DEF TakeFree
<1> QED BY <1>3, <1>4

LEMMA RefillKeeps ==
  ASSUME RegionInv, halted = "no", NEW h \in Holder, Refill(h)
  PROVE  RegionInv'
<1>1. /\ Listed(used_regions)' /\ Listed(nt_used_regions)'
      /\ ToSet(used_regions)' = ToSet(used_regions) \cup Retired(h, FALSE)
      /\ ToSet(nt_used_regions)' = ToSet(nt_used_regions) \cup Retired(h, TRUE)
  BY RetireMoves DEF Refill
<1>2. UNCHANGED <<fill, ref_cnt, from, spin, pop>> BY DEF Refill
<1>3. /\ Retired(h, FALSE) \cap Retired(h, TRUE) = {}
      /\ Retired(h, FALSE) \cup Retired(h, TRUE) \subseteq {core_local[h]} \cap Opened
  BY DEF Retired, Opened
<1>4. /\ Listed(free_regions)
      /\ Distinct(ToSet(free_regions), ToSet(used_regions), ToSet(nt_used_regions), from, Opened)
  BY DEF RegionInv, TypeOK, OnePlace, Listed
<1>5. PICK r \in Region \cup {NULL} :
        /\ core_local' = [core_local EXCEPT ![h] = r] /\ r \notin Opened
        /\ Listed(free_regions)' /\ ToSet(free_regions)' = ToSet(free_regions) \ {r}
        /\ r # NULL => r \in ToSet(free_regions)
  <2>1. CASE free_regions = <<>>
    <3>1. NULL \notin ToSet(free_regions) BY <1>4, SizesOK, ListElements DEF Listed
    <3>2. core_local' = [core_local EXCEPT ![h] = NULL] /\ UNCHANGED free_regions
      BY <2>1 DEF Refill, FindNone
    <3> QED BY <1>4, <3>1, <3>2 DEF Opened, Listed
  <2>2. CASE free_regions # <<>>
    <3>1. /\ core_local' = [core_local EXCEPT ![h] = Head(free_regions)]
          /\ free_regions' = Tail(free_regions)
      BY <2>2 DEF Refill, TakeFree
    <3>2. /\ Head(free_regions) \in Region /\ Head(free_regions) \in ToSet(free_regions)
          /\ Tail(free_regions) \in Seq(Region) /\ Once(Tail(free_regions))
          /\ Len(Tail(free_regions)) = Len(free_regions) - 1 /\ Len(free_regions) \in Nat
          /\ ToSet(Tail(free_regions)) = ToSet(free_regions) \ {Head(free_regions)}
      BY <1>4, <2>2, TailFacts DEF Listed
    <3>3. Listed(free_regions)' BY <1>4, <3>1, <3>2, Capacity DEF Listed
    <3>4. Head(free_regions) \notin Opened /\ Head(free_regions) # NULL
      BY <1>4, <3>2, SizesOK DEF Distinct
    <3> QED BY <3>1, <3>2, <3>3, <3>4
  <2> QED BY <2>1, <2>2
<1>6. /\ core_local' \in [Holder -> Region \cup {NULL}]
      /\ Opened' = (Opened \ {core_local[h]}) \cup ({r} \ {NULL})
      /\ \A k, l \in Holder : core_local'[k] = core_local'[l] /\ core_local'[k] # NULL => k = l
  BY <1>5, HolderChanges
<1>7. /\ is_nt' \in [Region -> BOOLEAN] /\ nt_buf' \in [Core -> Region \cup {NULL}]
      /\ halted' \in {"no", "fault"}
  BY MarkTypes
<1>8. TypeOK' BY <1>1, <1>2, <1>5, <1>6, <1>7 DEF RegionInv, TypeOK, Listed
<1>9. OnePlace'
  <2>1. Distinct(ToSet(free_regions)', ToSet(used_regions)', ToSet(nt_used_regions)', from',
                 Opened')
    <3>1. Distinct(ToSet(free_regions) \ {r}, ToSet(used_regions) \cup Retired(h, FALSE),
                   ToSet(nt_used_regions) \cup Retired(h, TRUE), from,
                   (Opened \ {core_local[h]}) \cup ({r} \ {NULL}))
      BY <1>3, <1>4, <1>5, RefillDistinct
    <3> QED BY <1>1, <1>2, <1>5, <1>6, <3>1
  <2> QED BY <1>1, <1>5, <1>6, <2>1 DEF OnePlace, Listed
<1>10. Unreferenced' BY <1>2 DEF RegionInv, Unreferenced
<1>11. BugOnlyWhenDry' /\ CameUp' BY <1>7 DEF RegionInv, BugOnlyWhenDry, CameUp
<1> QED BY <1>8, <1>9, <1>10, <1>11 DEF RegionInv

LEMMA PushFreeKeeps ==
  ASSUME RegionInv, halted = "no", NEW r \in Region, PushFree(r)
  PROVE  RegionInv'
<1>1. /\ r \in from /\ UNCHANGED <<used_regions, nt_used_regions, cores, spin, pop>>
      /\ fill' = [fill EXCEPT ![r] = 0] /\ ref_cnt' = [ref_cnt EXCEPT ![r] = 0]
      /\ is_nt' = [is_nt EXCEPT ![r] = FALSE]
  BY DEF PushFree, Reset
<1>2. /\ fill' \in [Region -> 0..Slots] /\ ref_cnt' \in [Region -> 0..MaxPins]
      /\ is_nt' \in [Region -> BOOLEAN]
  BY <1>1, SizesOK DEF RegionInv, TypeOK
<1>3. \A q \in from : q \in Region /\ ref_cnt'[q] = 0
  BY <1>1 DEF RegionInv, TypeOK, Unreferenced
<1>4. CASE Full(free_regions)
  <2>1. halted' = "bug" /\ UNCHANGED <<free_regions, from>> BY <1>4 DEF PushFree
  <2> QED BY <1>1, <1>2, <1>3, <1>4, <2>1, BugKeeps DEF lists, cores
<1>5. CASE ~Full(free_regions)
  <2>1. free_regions' = Append(free_regions, r) /\ from' = from \ {r} /\ halted' = halted
    BY <1>5 DEF PushFree
  <2>2. /\ free_regions \in Seq(Region) /\ Once(free_regions) /\ r \notin ToSet(free_regions)
        /\ r \notin ToSet(used_regions) \cup ToSet(nt_used_regions) \cup Opened
        /\ ToSet(used_regions) \subseteq Region /\ ToSet(nt_used_regions) \subseteq Region
        /\ ToSet(free_regions) \subseteq Region
    BY <1>1, ListElements DEF RegionInv, TypeOK, OnePlace, Distinct
  <2>3. Listed(free_regions)' /\ ToSet(free_regions)' = ToSet(free_regions) \cup {r}
    BY <1>5, <2>1, <2>2, PushBack DEF Listed
  <2>4. TypeOK' BY <1>1, <1>2, <2>1, <2>3 DEF RegionInv, TypeOK, Listed, cores
  <2>5. OnePlace'
    <3>1. Opened' = Opened BY <1>1 DEF Opened, cores
    <3>2. Distinct(ToSet(free_regions), ToSet(used_regions), ToSet(nt_used_regions), from,
                   Opened)
      BY DEF RegionInv, OnePlace
    <3>3. Distinct(ToSet(free_regions) \cup {r}, ToSet(used_regions), ToSet(nt_used_regions),
                   from \ {r}, Opened)
      BY <2>2, <3>2 DEF Distinct
    <3>4. Distinct(ToSet(free_regions), ToSet(used_regions), ToSet(nt_used_regions), from,
                   Opened)'
      BY <1>1, <2>1, <2>3, <3>1, <3>3
    <3> QED BY <1>1, <2>3, <3>4 DEF RegionInv, OnePlace, Listed, cores
  <2>6. Unreferenced' BY <1>3, <2>1 DEF Unreferenced
  <2>7. BugOnlyWhenDry' /\ CameUp' BY <2>1 DEF RegionInv, BugOnlyWhenDry, CameUp
  <2> QED BY <2>4, <2>5, <2>6, <2>7 DEF RegionInv
<1> QED BY <1>4, <1>5

\* pop_used_region takes the front region of a buffer, which has no reference.
LEMMA TakeKeeps ==
  ASSUME RegionInv, halted = "no", PopNtTake \/ PopUsedTake
  PROVE  RegionInv'
<1>1. UNCHANGED <<free_regions, core_local, nt_buf, fill, ref_cnt, is_nt, halted>>
  BY DEF PopNtTake, PopUsedTake, cores
<1>2. /\ Listed(used_regions) /\ Listed(nt_used_regions)
      /\ Distinct(ToSet(free_regions), ToSet(used_regions), ToSet(nt_used_regions), from, Opened)
  BY DEF RegionInv, TypeOK, OnePlace, Listed
<1>3. PICK r \in ToSet(used_regions) \cup ToSet(nt_used_regions) :
        /\ r \in Region /\ ref_cnt[r] = 0 /\ PopTake(r)
        /\ Listed(used_regions)' /\ ToSet(used_regions)' = ToSet(used_regions) \ {r}
        /\ Listed(nt_used_regions)' /\ ToSet(nt_used_regions)' = ToSet(nt_used_regions) \ {r}
  <2>1. ASSUME NEW s \in Seq(Region), Listed(s), s # <<>>, NEW r, r = Head(s)
        PROVE  /\ r \in Region /\ r \in ToSet(s) /\ Listed(Tail(s))
               /\ ToSet(Tail(s)) = ToSet(s) \ {r}
    BY <2>1, TailFacts, Capacity DEF Listed
  <2>2. CASE PopNtTake
    <3>1. /\ nt_used_regions # <<>> /\ IsGcable(Head(nt_used_regions))
          /\ nt_used_regions' = Tail(nt_used_regions) /\ used_regions' = used_regions
          /\ PopTake(Head(nt_used_regions))
      BY <2>2 DEF PopNtTake
    <3>2. /\ Head(nt_used_regions) \in Region /\ Head(nt_used_regions) \in ToSet(nt_used_regions)
          /\ Listed(nt_used_regions)'
          /\ ToSet(nt_used_regions)' = ToSet(nt_used_regions) \ {Head(nt_used_regions)}
      BY <1>2, <2>1, <3>1 DEF Listed
    <3>3. Head(nt_used_regions) \notin ToSet(used_regions) BY <1>2, <3>2 DEF Distinct
    <3> QED BY <1>2, <3>1, <3>2, <3>3 DEF IsGcable, Listed
  <2>3. CASE PopUsedTake
    <3>1. /\ used_regions # <<>> /\ IsGcable(Head(used_regions))
          /\ used_regions' = Tail(used_regions) /\ nt_used_regions' = nt_used_regions
          /\ PopTake(Head(used_regions))
      BY <2>3 DEF PopUsedTake
    <3>2. /\ Head(used_regions) \in Region /\ Head(used_regions) \in ToSet(used_regions)
          /\ Listed(used_regions)'
          /\ ToSet(used_regions)' = ToSet(used_regions) \ {Head(used_regions)}
      BY <1>2, <2>1, <3>1 DEF Listed
    <3>3. Head(used_regions) \notin ToSet(nt_used_regions) BY <1>2, <3>2 DEF Distinct
    <3> QED BY <1>2, <3>1, <3>2, <3>3 DEF IsGcable, Listed
  <2> QED BY <2>2, <2>3
<1>4. from' = from \cup {r} /\ spin' = FALSE /\ pop' = NotPopping BY <1>3 DEF PopTake
<1>5. TypeOK'
  <2>1. pop' \in [pc : {"idle", "nt", "t"}, retry_times : 0..(MaxRetry + 2)]
    BY <1>4, SizesOK DEF NotPopping
  <2> QED BY <1>1, <1>3, <1>4, <2>1 DEF RegionInv, TypeOK, Listed
<1>6. OnePlace'
  <2>1. Opened' = Opened BY <1>1 DEF Opened
  <2>2. Distinct(ToSet(free_regions), ToSet(used_regions) \ {r}, ToSet(nt_used_regions) \ {r},
                 from \cup {r}, Opened)
    BY <1>2, <1>3 DEF Distinct
  <2>3. Distinct(ToSet(free_regions), ToSet(used_regions), ToSet(nt_used_regions), from,
                 Opened)'
    BY <1>1, <1>3, <1>4, <2>1, <2>2
  <2> QED BY <1>1, <1>3, <2>3 DEF RegionInv, OnePlace, Listed
<1>7. Unreferenced' BY <1>1, <1>3, <1>4 DEF RegionInv, Unreferenced
<1>8. BugOnlyWhenDry' /\ CameUp' BY <1>1 DEF RegionInv, BugOnlyWhenDry, CameUp
<1> QED BY <1>5, <1>6, <1>7, <1>8 DEF RegionInv

\* A pinned non-temporal region goes to the back of its buffer.
LEMMA RotateKeeps ==
  ASSUME RegionInv, halted = "no", PopNtPinned
  PROVE  RegionInv'
<1>1. /\ nt_used_regions # <<>>
      /\ nt_used_regions' = Append(Tail(nt_used_regions), Head(nt_used_regions))
      /\ UNCHANGED <<free_regions, used_regions, core_local, nt_buf, fill, ref_cnt, is_nt,
                     from, spin, halted>>
  BY DEF PopNtPinned, cores
<1>2. Listed(nt_used_regions)' /\ ToSet(nt_used_regions)' = ToSet(nt_used_regions)
  <2>1. Listed(nt_used_regions) BY DEF RegionInv, TypeOK, OnePlace, Listed
  <2> QED BY <1>1, <2>1, RotateFacts DEF Listed
<1>3. pop' \in [pc : {"idle", "nt", "t"}, retry_times : 0..(MaxRetry + 2)]
  <2>1. pop.retry_times \in Nat /\ MaxRetry \in Nat BY SizesOK DEF RegionInv, TypeOK
  <2>2. \/ pop.retry_times <= MaxRetry /\ pop' = Popping("nt", pop.retry_times + 1)
        \/ pop' = Popping("t", 0)
    BY DEF PopNtPinned
  <2> QED BY <2>1, <2>2 DEF Popping
<1>4. TypeOK' BY <1>1, <1>2, <1>3 DEF RegionInv, TypeOK, Listed
<1>5. OnePlace'
  <2>1. Opened' = Opened BY <1>1 DEF Opened
  <2>2. OnePlace BY DEF RegionInv
  <2>3. /\ Once(free_regions') /\ Once(used_regions') /\ Once(nt_used_regions')
        /\ \A h, k \in Holder : core_local'[h] = core_local'[k] /\ core_local'[h] # NULL => h = k
    BY <1>1, <1>2, <2>2 DEF OnePlace, Listed
  <2>4. Distinct(ToSet(free_regions), ToSet(used_regions), ToSet(nt_used_regions), from,
                 Opened)'
    BY <1>1, <1>2, <2>1, <2>2 DEF OnePlace
  <2> QED BY <2>3, <2>4 DEF OnePlace
<1>6. Unreferenced' BY <1>1 DEF RegionInv, Unreferenced
<1>7. BugOnlyWhenDry' /\ CameUp' BY <1>1 DEF RegionInv, BugOnlyWhenDry, CameUp
<1> QED BY <1>4, <1>5, <1>6, <1>7 DEF RegionInv

\* The steps of pop_used_region that leave the regions where they are.
QuietPop == PopBegin \/ PopNtEmpty \/ PopPinned \/ PopEmpty

LEMMA QuietPopFacts ==
  ASSUME RegionInv, QuietPop
  PROVE  /\ UNCHANGED <<lists, cores, fill, ref_cnt, is_nt, from, halted>>
         /\ spin' \in BOOLEAN
         /\ pop' \in [pc : {"idle", "nt", "t"}, retry_times : 0..(MaxRetry + 2)]
<1>1. /\ MaxRetry \in Nat /\ spin \in BOOLEAN
      /\ pop \in [pc : {"idle", "nt", "t"}, retry_times : 0..(MaxRetry + 2)]
  BY SizesOK DEF RegionInv, TypeOK
<1>2. /\ NotPopping \in [pc : {"idle", "nt", "t"}, retry_times : 0..(MaxRetry + 2)]
      /\ Popping("t", 0) \in [pc : {"idle", "nt", "t"}, retry_times : 0..(MaxRetry + 2)]
      /\ Popping("nt", 0) \in [pc : {"idle", "nt", "t"}, retry_times : 0..(MaxRetry + 2)]
  BY <1>1 DEF NotPopping, Popping
<1>3. CASE PopBegin BY <1>2, <1>3 DEF PopBegin
<1>4. CASE PopNtEmpty BY <1>1, <1>2, <1>4 DEF PopNtEmpty
<1>5. CASE PopPinned
  <2>1. pop.retry_times <= MaxRetry =>
          Popping("t", pop.retry_times + 1)
             \in [pc : {"idle", "nt", "t"}, retry_times : 0..(MaxRetry + 2)]
    BY <1>1 DEF Popping
  <2> QED BY <1>1, <1>2, <1>5, <2>1 DEF PopPinned
<1>6. CASE PopEmpty BY <1>2, <1>6 DEF PopEmpty
<1> QED BY <1>3, <1>4, <1>5, <1>6 DEF QuietPop

LEMMA StepKeeps ==
  ASSUME RegionInv, [Next]_vars
  PROVE  RegionInv'
<1>1. ASSUME UNCHANGED vars PROVE RegionInv'
  BY <1>1 DEF vars, RegionInv, TypeOK, OnePlace, Opened, Unreferenced,
              BugOnlyWhenDry, CameUp
<1>2. ASSUME halted = "no", NEW h \in Holder, AllocateObject(h) PROVE RegionInv'
  BY <1>2, AllocateKeeps
<1>3. ASSUME halted = "no", NEW h \in Holder, Refill(h) PROVE RegionInv'
  BY <1>3, RefillKeeps
<1>4. ASSUME halted = "no", NEW h \in Holder, RefillBug(h) PROVE RegionInv'
  BY <1>4, RefillBugKeeps
<1>5. ASSUME halted = "no", NEW r \in Region, DropRef(r) PROVE RegionInv'
  BY <1>5, DropRefKeeps
<1>6. ASSUME halted = "no", NEW r \in Region, PushFree(r) PROVE RegionInv'
  BY <1>6, PushFreeKeeps
<1>7. ASSUME halted = "no", PopNtTake \/ PopUsedTake PROVE RegionInv'
  BY <1>7, TakeKeeps
<1>8. ASSUME halted = "no", PopNtPinned PROVE RegionInv' BY <1>8, RotateKeeps
<1>9. ASSUME halted = "no", QuietPop PROVE RegionInv'
  <2>1. /\ UNCHANGED <<lists, cores, fill, ref_cnt, is_nt, from, halted>>
        /\ spin' \in BOOLEAN
        /\ pop' \in [pc : {"idle", "nt", "t"}, retry_times : 0..(MaxRetry + 2)]
    BY <1>9, QuietPopFacts
  <2> QED BY <1>9, <2>1, NothingMoved DEF RegionInv, TypeOK
<1> QED BY <1>1, <1>2, <1>3, <1>4, <1>5, <1>6, <1>7, <1>8, <1>9
        DEF Next, MasterStep, PopStep, QuietPop, Halted

LEMMA RegionInvHolds == Spec => []RegionInv
<1>1. Init => RegionInv BY InitOnePlace
<1>2. RegionInv /\ [Next]_vars => RegionInv' BY StepKeeps
<1> QED BY <1>1, <1>2, PTL DEF Spec

-----------------------------------------------------------------------------
(* The invariants.                                                          *)

\* The buffers never exceed their capacity, and no header field leaves its range:
\* CircularBuffer, Region::allocate_object and atomic_inc_ref_cnt.
THEOREM BuffersWithinBounds == Spec => []TypeOK
<1>1. RegionInv => TypeOK BY DEF RegionInv
<1> QED BY <1>1, RegionInvHolds, PTL

\* BUG_ON(!success) and push_free_region's BUG_ON fire only when 2 * kNumSocket1CPUs
\* core-local regions could not be replaced, for any number of cores and regions.
THEOREM BugNeedsDryCores == Spec => []BugOnlyWhenDry
<1>1. RegionInv => BugOnlyWhenDry BY DEF RegionInv
<1> QED BY <1>1, RegionInvHolds, PTL

\* No region is twice in a circular buffer, nor in two of the buffers, the core-local
\* slots and the collector's hands: push_back and pop_front never copy a region.
THEOREM RegionsInOnePlace == Spec => []OnePlace
<1>1. RegionInv => OnePlace BY DEF RegionInv
<1> QED BY <1>1, RegionInvHolds, PTL

-----------------------------------------------------------------------------
(* The kinds of regions.                                                    *)

\* What a step that changes no mark, and moves regions within their kind, respects.
LEMMA MarksKept ==
  ASSUME KindsSeparate, UNCHANGED <<core_local, is_nt>>,
         ToSet(free_regions)' \subseteq ToSet(free_regions),
         ToSet(used_regions)' \subseteq ToSet(used_regions),
         ToSet(nt_used_regions)' \subseteq ToSet(nt_used_regions)
  PROVE  KindsSeparate'
BY DEF KindsSeparate

\* try_refill_core_local_free_region marks the region it hands to a non-temporal holder.
\* A first refill that finds none marks the region it has retired, which has the mark.
LEMMA RefillMarks ==
  ASSUME RegionInv, KindsSeparate, NEW h \in Holder, Refill(h), ~SecondDryRefill
  PROVE  \E r \in Region \cup {NULL} :
           /\ core_local' = [core_local EXCEPT ![h] = r] /\ r \notin Opened
           /\ ToSet(free_regions)' = ToSet(free_regions) \ {r}
           /\ r # NULL => r \in ToSet(free_regions) /\ is_nt' = [is_nt EXCEPT ![r] = h[2]]
           /\ r = NULL => is_nt' = is_nt
<1>1. /\ is_nt \in [Region -> BOOLEAN] /\ core_local \in [Holder -> Region \cup {NULL}]
      /\ free_regions \in Seq(Region) /\ Once(free_regions)
      /\ ToSet(free_regions) \cap Opened = {} /\ NULL \notin Region
  BY SizesOK DEF RegionInv, TypeOK, OnePlace, Distinct
<1>2. PICK c \in Core, b \in BOOLEAN : h = <<c, b>> BY DEF Holder
<1>3. CASE free_regions = <<>>
  <2>1. FindNone(h) BY <1>3 DEF Refill
  <2>2. NULL \notin ToSet(free_regions) BY <1>1, ListElements
  <2>3. core_local' = [core_local EXCEPT ![h] = NULL] /\ ToSet(free_regions)' = ToSet(free_regions) \ {NULL}
    BY <2>1, <2>2 DEF FindNone
  <2>4. is_nt' = is_nt
    <3>1. CASE ~h[2] BY <2>1, <3>1 DEF FindNone
    <3>2. CASE h[2]
      <4>1. h = <<c, TRUE>> BY <1>2, <3>2
      <4>2. core_local[h] # NULL /\ core_local[h] \in Region
        BY <1>1, <1>3, <4>1 DEF SecondDryRefill
      <4>3. is_nt[core_local[h]] = TRUE BY <3>2, <4>1, <4>2 DEF KindsSeparate
      <4>4. NtBufLeft(h[1]) = {core_local[h], NULL} BY <4>1, <4>2 DEF NtBufLeft, MovedFrom
      <4>5. PICK d \in {core_local[h], NULL} :
              IF d = NULL THEN is_nt' = is_nt ELSE is_nt' = [is_nt EXCEPT ![d] = TRUE]
        BY <2>1, <3>2, <4>4 DEF FindNone
      <4>6. [is_nt EXCEPT ![core_local[h]] = TRUE] = is_nt BY <1>1, <4>2, <4>3
      <4> QED BY <4>5, <4>6
    <3> QED BY <3>1, <3>2
  <2> QED BY <1>1, <2>3, <2>4 DEF Opened
<1>4. CASE free_regions # <<>>
  <2>1. TakeFree(h) BY <1>4 DEF Refill
  <2>2. /\ Head(free_regions) \in Region /\ Head(free_regions) \in ToSet(free_regions)
        /\ ToSet(Tail(free_regions)) = ToSet(free_regions) \ {Head(free_regions)}
    BY <1>1, <1>4, TailFacts
  <2>3. is_nt[Head(free_regions)] = FALSE /\ h[2] \in BOOLEAN
    BY <1>1, <1>2, <2>2 DEF KindsSeparate
  <2>4. is_nt' = [is_nt EXCEPT ![Head(free_regions)] = h[2]]
    <3>1. is_nt' = [is_nt EXCEPT ![Head(free_regions)] = is_nt[Head(free_regions)] \/ h[2]]
      BY <2>1 DEF TakeFree
    <3>2. (is_nt[Head(free_regions)] \/ h[2]) = h[2] BY <2>3
    <3> QED BY <3>1, <3>2
  <2> QED BY <1>1, <2>1, <2>2, <2>4 DEF TakeFree
<1> QED BY <1>3, <1>4

LEMMA RefillKinds ==
  ASSUME RegionInv, KindsSeparate, NEW h \in Holder, Refill(h), ~SecondDryRefill
  PROVE  KindsSeparate'
<1>1. /\ ToSet(used_regions)' = ToSet(used_regions) \cup Retired(h, FALSE)
      /\ ToSet(nt_used_regions)' = ToSet(nt_used_regions) \cup Retired(h, TRUE)
  BY RetireMoves DEF Refill
<1>2. PICK r \in Region \cup {NULL} :
        /\ core_local' = [core_local EXCEPT ![h] = r] /\ r \notin Opened
        /\ ToSet(free_regions)' = ToSet(free_regions) \ {r}
        /\ r # NULL => r \in ToSet(free_regions) /\ is_nt' = [is_nt EXCEPT ![r] = h[2]]
        /\ r = NULL => is_nt' = is_nt
  BY RefillMarks
<1>3. /\ is_nt \in [Region -> BOOLEAN] /\ core_local \in [Holder -> Region \cup {NULL}]
      /\ NULL \notin Region
  BY SizesOK DEF RegionInv, TypeOK
<1>4. (\A q \in Region : q # r => is_nt'[q] = is_nt[q]) /\ (r # NULL => is_nt'[r] = h[2])
  BY <1>2, <1>3
<1>5. /\ ToSet(free_regions) \subseteq Region /\ ToSet(used_regions) \subseteq Region
      /\ ToSet(nt_used_regions) \subseteq Region
  BY ListElements DEF RegionInv, TypeOK
<1>6. \A k \in Holder : core_local'[k] # NULL => is_nt'[core_local'[k]] = k[2]
  BY <1>2, <1>3, <1>4 DEF KindsSeparate, Opened
<1>7. \A q \in ToSet(free_regions)' : ~is_nt'[q] BY <1>2, <1>4, <1>5 DEF KindsSeparate
<1>8. /\ r \notin ToSet(used_regions) \cup ToSet(nt_used_regions)
      /\ core_local[h] # NULL => core_local[h] # r
  BY <1>2, <1>3, <1>5 DEF RegionInv, OnePlace, Distinct, Opened
<1>9. \A q \in ToSet(used_regions)' : q # r /\ q \in Region /\ ~is_nt[q]
  <2>1. \A q \in Retired(h, FALSE) : q # r /\ q \in Region /\ ~is_nt[q]
    BY <1>3, <1>8 DEF Retired
  <2> QED BY <1>1, <1>5, <1>8, <2>1 DEF KindsSeparate
<1>10. \A q \in ToSet(nt_used_regions)' : q # r /\ q \in Region /\ is_nt[q]
  <2>1. \A q \in Retired(h, TRUE) : q # r /\ q \in Region /\ is_nt[q]
    BY <1>3, <1>8 DEF Retired
  <2> QED BY <1>1, <1>5, <1>8, <2>1 DEF KindsSeparate
<1> QED BY <1>4, <1>6, <1>7, <1>9, <1>10 DEF KindsSeparate

\* Region::reset clears the mark of a region on its way back to the free ones.
LEMMA PushFreeKinds ==
  ASSUME RegionInv, KindsSeparate, NEW r \in Region, PushFree(r)
  PROVE  KindsSeparate'
<1>1. /\ r \in from /\ UNCHANGED <<used_regions, nt_used_regions, core_local>>
      /\ is_nt' = [is_nt EXCEPT ![r] = FALSE]
      /\ free_regions' = free_regions \/ free_regions' = Append(free_regions, r)
  <2>1. /\ r \in from /\ UNCHANGED <<used_regions, nt_used_regions, core_local>>
        /\ is_nt' = [is_nt EXCEPT ![r] = FALSE]
    BY DEF PushFree, Reset, cores
  <2>2. CASE Full(free_regions) BY <2>1, <2>2 DEF PushFree
  <2>3. CASE ~Full(free_regions) BY <2>1, <2>3 DEF PushFree
  <2> QED BY <2>2, <2>3
<1>2. /\ is_nt \in [Region -> BOOLEAN] /\ free_regions \in Seq(Region)
      /\ core_local \in [Holder -> Region \cup {NULL}]
      /\ r \notin ToSet(used_regions) \cup ToSet(nt_used_regions) \cup Opened
  BY <1>1 DEF RegionInv, TypeOK, OnePlace, Distinct
<1>3. ToSet(free_regions)' \subseteq ToSet(free_regions) \cup {r}
  <2>1. r \in Region /\ ToSet(Append(free_regions, r)) = ToSet(free_regions) \cup {r}
    BY <1>2, AppendFacts
  <2> QED BY <1>1, <2>1
<1>4. /\ \A q \in Region \ {r} : is_nt'[q] = is_nt[q]
      /\ is_nt'[r] = FALSE
      /\ ToSet(used_regions) \subseteq Region \ {r} /\ ToSet(nt_used_regions) \subseteq Region \ {r}
      /\ ToSet(free_regions) \subseteq Region
      /\ \A h \in Holder : core_local[h] # NULL => core_local[h] \in Region \ {r}
  BY <1>1, <1>2, ListElements DEF RegionInv, TypeOK, Opened
<1> QED BY <1>1, <1>3, <1>4 DEF KindsSeparate

\* Through retirement, collection and reuse every buffer holds regions of the kind it is
\* named for, until a core whose non-temporal Region is already invalid fails once more to
\* refill it: set_nt (manager.cpp:201-203) is the one step that can mix the kinds.
THEOREM OnlyDryRefillMixes == Spec => KindsKept
<1>1. ASSUME RegionInv, [Next]_vars, KindsSeparate, ~SecondDryRefill PROVE KindsSeparate'
  <2>1. ASSUME UNCHANGED <<lists, core_local, is_nt>> PROVE KindsSeparate'
    BY <1>1, <2>1, MarksKept DEF lists
  <2>2. ASSUME NEW h \in Holder, Refill(h) PROVE KindsSeparate'
    BY <1>1, <2>2, RefillKinds
  <2>3. ASSUME NEW r \in Region, PushFree(r) PROVE KindsSeparate'
    BY <1>1, <2>3, PushFreeKinds
  <2>4. ASSUME PopNtPinned PROVE KindsSeparate'
    <3>1. /\ nt_used_regions # <<>> /\ nt_used_regions \in Seq(Region) /\ Once(nt_used_regions)
          /\ nt_used_regions' = Append(Tail(nt_used_regions), Head(nt_used_regions))
          /\ UNCHANGED <<free_regions, used_regions, core_local, is_nt>>
      BY <1>1, <2>4 DEF PopNtPinned, RegionInv, TypeOK, OnePlace, cores
    <3>2. ToSet(nt_used_regions)' = ToSet(nt_used_regions) BY <3>1, RotateFacts
    <3> QED BY <1>1, <3>1, <3>2, MarksKept
  <2>5. ASSUME PopNtTake PROVE KindsSeparate'
    <3>1. /\ nt_used_regions # <<>> /\ nt_used_regions \in Seq(Region) /\ Once(nt_used_regions)
          /\ nt_used_regions' = Tail(nt_used_regions)
          /\ UNCHANGED <<free_regions, used_regions, core_local, is_nt>>
      BY <1>1, <2>5 DEF PopNtTake, RegionInv, TypeOK, OnePlace, cores
    <3>2. ToSet(nt_used_regions)' \subseteq ToSet(nt_used_regions) BY <3>1, TailFacts
    <3> QED BY <1>1, <3>1, <3>2, MarksKept
  <2>6. ASSUME PopUsedTake PROVE KindsSeparate'
    <3>1. /\ used_regions # <<>> /\ used_regions \in Seq(Region) /\ Once(used_regions)
          /\ used_regions' = Tail(used_regions)
          /\ UNCHANGED <<free_regions, nt_used_regions, core_local, is_nt>>
      BY <1>1, <2>6 DEF PopUsedTake, RegionInv, TypeOK, OnePlace, cores
    <3>2. ToSet(used_regions)' \subseteq ToSet(used_regions) BY <3>1, TailFacts
    <3> QED BY <1>1, <3>1, <3>2, MarksKept
  <2> QED BY <1>1, <2>1, <2>2, <2>3, <2>4, <2>5, <2>6
          DEF Next, AllocateObject, RefillBug, DropRef, MasterStep, PopBegin, PopStep, PopNtEmpty,
              PopPinned, PopEmpty, Halted, cores, vars, lists
<1>2. RegionInv /\ [Next]_vars => [KindsSeparate => KindsSeparate' \/ SecondDryRefill]_vars
  BY <1>1
<1> QED BY <1>2, RegionInvHolds, PTL DEF Spec, KindsKept

-----------------------------------------------------------------------------
(* Round robin.                                                             *)

LEMMA PrefixSelf ==
  ASSUME NEW S, NEW s \in Seq(S)
  PROVE  IsPrefix(s, s)
BY DEF IsPrefix

LEMMA PrefixAppend ==
  ASSUME NEW S, NEW s \in Seq(S), NEW x \in S
  PROVE  IsPrefix(s, Append(s, x))
<1> DEFINE t == Append(s, x)
<1>1. /\ t \in Seq(S) /\ Len(t) = Len(s) + 1 /\ Len(s) \in Nat
      /\ \A i \in 1..Len(s) : t[i] = s[i]
  OBVIOUS
<1> HIDE DEF t
<1>2. SubSeq(s, 1, Len(s)) = SubSeq(t, 1, Len(s)) BY <1>1
<1>3. IsPrefix(s, t) BY <1>1, <1>2 DEF IsPrefix
<1> QED BY <1>3 DEF t

\* Temporal regions enter at the back and leave at the front, into the collector's hands,
\* and are not rotated when pinned: the picker of manager.cpp:393 is first in, first out.
THEOREM PickerIsRoundRobin == Spec => RoundRobin
<1>1. ASSUME RegionInv, [Next]_vars
      PROVE  \/ IsPrefix(used_regions, used_regions')
             \/ /\ used_regions # <<>> /\ used_regions' = Tail(used_regions)
                /\ Head(used_regions) \in from'
  <2>1. used_regions \in Seq(Region) BY <1>1 DEF RegionInv, TypeOK
  <2>2. CASE used_regions' = used_regions BY <2>1, <2>2, PrefixSelf
  <2>3. ASSUME NEW h \in Holder, Refill(h) PROVE IsPrefix(used_regions, used_regions')
    <3>1. CASE core_local[h] # NULL /\ RetiresTo(h) = "t"
      <4>1. used_regions' = Append(used_regions, core_local[h])
        BY <2>3, <3>1 DEF Refill, Retire
      <4>2. core_local[h] \in Region BY <1>1, <3>1 DEF RegionInv, TypeOK
      <4>3. IsPrefix(used_regions, Append(used_regions, core_local[h]))
        BY <2>1, <4>2, PrefixAppend
      <4> QED BY <4>1, <4>3
    <3>2. CASE ~(core_local[h] # NULL /\ RetiresTo(h) = "t")
      <4>1. used_regions' = used_regions BY <2>3, <3>2 DEF Refill, Retire
      <4> QED BY <2>1, <4>1, PrefixSelf
    <3> QED BY <3>1, <3>2
  <2>4. ASSUME PopUsedTake
        PROVE  /\ used_regions # <<>> /\ used_regions' = Tail(used_regions)
               /\ Head(used_regions) \in from'
    BY <2>4 DEF PopUsedTake, PopTake
  <2> QED BY <1>1, <2>2, <2>3, <2>4
          DEF Next, AllocateObject, RefillBug, DropRef, MasterStep, PushFree, PopBegin,
              PopStep, PopNtPinned, PopNtTake, PopNtEmpty, PopPinned, PopEmpty, Halted,
              lists, vars
<1>2. RegionInv /\ [Next]_vars =>
        [\/ IsPrefix(used_regions, used_regions')
         \/ /\ used_regions # <<>> /\ used_regions' = Tail(used_regions)
            /\ Head(used_regions) \in from']_vars
  BY <1>1
<1> QED BY <1>2, RegionInvHolds, PTL DEF Spec, RoundRobin

-----------------------------------------------------------------------------
(* The region pool.                                                         *)

Used == ToSet(used_regions) \cup ToSet(nt_used_regions)
Pinned == {r \in Region : ref_cnt[r] > 0}

\* A list without repetitions that is as long as its set is large holds all of it.
LEMMA ListCovers ==
  ASSUME NEW F, IsFiniteSet(F), NEW s \in [1..Cardinality(F) -> F],
         \A i, j \in 1..Cardinality(F) : i # j => s[i] # s[j]
  PROVE  ToSet(s) = F
<1> DEFINE n == Cardinality(F)
<1>1. n \in Nat BY FS_CardinalityType
<1> HIDE DEF n
<1>2. s \in [1..n -> F] /\ \A i, j \in 1..n : i # j => s[i] # s[j] BY DEF n
<1>3. s \in Seq(F) /\ Len(s) = n BY <1>1, <1>2
<1>4. s \in Injection(1..n, F) BY <1>2 DEF Injection, IsInjective
<1>5. Cardinality(1..n) = n
  <2>1. Cardinality(1..n) = IF 1 > n THEN 0 ELSE n - 1 + 1 BY <1>1, FS_Interval
  <2> QED BY <1>1, <2>1
<1>6. s \in Surjection(1..n, F) BY <1>4, <1>5, FS_Injection DEF n
<1>7. \A x \in F : \E i \in 1..n : s[i] = x BY <1>6 DEF Surjection
<1>8. ToSet(s) = {s[i] : i \in 1..n} /\ ToSet(s) \subseteq F BY <1>3, ListElements
<1>9. F \subseteq {s[i] : i \in 1..n} BY <1>7
<1> QED BY <1>8, <1>9

\* The constructor deals out every region: to a core, or to free_regions_.
LEMMA InitImplements ==
  ASSUME FreeCount > 0, Init
  PROVE  Pool!Init
<1>1. /\ core_local \in Injection(Holder, Region) /\ used_regions = <<>>
      /\ free_regions \in SetToSeqs(Region \ Range(core_local))
      /\ nt_used_regions = <<>> /\ from = {} /\ ref_cnt = [r \in Region |-> 0]
  BY Capacity DEF Init
<1>2. /\ core_local \in [Holder -> Region]
      /\ \A h, k \in Holder : core_local[h] = core_local[k] => h = k
  BY <1>1 DEF Injection, IsInjective
<1>3. Range(core_local) = {core_local[h] : h \in Holder} BY <1>2 DEF Range
<1>4. ToSet(free_regions) = Region \ {core_local[h] : h \in Holder}
  <2> SUFFICES ASSUME NEW F, F = Region \ {core_local[h] : h \in Holder}
               PROVE  ToSet(free_regions) = F
    OBVIOUS
  <2>1. IsFiniteSet(F) BY SizesOK, FS_Subset
  <2>2. /\ free_regions \in [1..Cardinality(F) -> F]
        /\ \A i, j \in 1..Cardinality(F) : i # j => free_regions[i] # free_regions[j]
    BY <1>1, <1>3 DEF SetToSeqs
  <2> QED BY <2>1, <2>2, ListCovers
<1>5. ToSet(used_regions) \cup ToSet(nt_used_regions) = {} BY <1>1, EmptyList
<1>6. {r \in Region : ref_cnt[r] > 0} = {} BY <1>1
<1> QED BY <1>1, <1>2, <1>4, <1>5, <1>6 DEF Pool!Init

\* What leaves the places, the references and the cores alone is a stutter of the pool.
PlacesKept == UNCHANGED <<ToSet(free_regions), Used, from, core_local, Pinned>>

LEMMA RefillImplements ==
  ASSUME RegionInv, NEW h \in Holder, Refill(h)
  PROVE  Pool!Next
<1>1. /\ ToSet(used_regions)' = ToSet(used_regions) \cup Retired(h, FALSE)
      /\ ToSet(nt_used_regions)' = ToSet(nt_used_regions) \cup Retired(h, TRUE)
      /\ UNCHANGED <<ref_cnt, from>>
  BY RetireMoves DEF Refill
<1>2. Retired(h, FALSE) \cup Retired(h, TRUE) = {core_local[h]} \ {NULL}
  <2>1. core_local[h] # NULL => is_nt[core_local[h]] \in BOOLEAN
    BY DEF RegionInv, TypeOK
  <2> QED BY <2>1 DEF Retired
<1>3. Used' = Used \cup ({core_local[h]} \ {NULL}) BY <1>1, <1>2 DEF Used
<1>4. Pinned' = Pinned BY <1>1 DEF Pinned
<1>5. CASE free_regions = <<>>
  <2>1. ToSet(free_regions) = {} BY <1>5, EmptyList
  <2>2. core_local' = [core_local EXCEPT ![h] = NULL] /\ UNCHANGED free_regions
    BY <1>5 DEF Refill, FindNone
  <2>3. Pool!RunDry(h) BY <1>1, <1>3, <1>4, <2>1, <2>2 DEF Pool!RunDry, Used, Pinned
  <2> QED BY <2>3 DEF Pool!Next
<1>6. CASE free_regions # <<>>
  <2>1. /\ core_local' = [core_local EXCEPT ![h] = Head(free_regions)]
        /\ free_regions' = Tail(free_regions)
    BY <1>6 DEF Refill, TakeFree
  <2>2. free_regions \in Seq(Region) /\ Once(free_regions) BY DEF RegionInv, TypeOK, OnePlace
  <2>3. /\ Head(free_regions) \in Region /\ Head(free_regions) \in ToSet(free_regions)
        /\ ToSet(Tail(free_regions)) = ToSet(free_regions) \ {Head(free_regions)}
    BY <1>6, <2>2, TailFacts
  <2>4. PICK r \in Region :
          /\ r \in ToSet(free_regions) /\ core_local' = [core_local EXCEPT ![h] = r]
          /\ ToSet(free_regions)' = ToSet(free_regions) \ {r}
    BY <2>1, <2>3
  <2>5. Pool!Refill(h, r) BY <1>1, <1>3, <1>4, <2>4 DEF Pool!Refill, Used, Pinned
  <2> QED BY <2>5 DEF Pool!Next
<1> QED BY <1>5, <1>6

LEMMA AllocateImplements ==
  ASSUME RegionInv, NEW h \in Holder, AllocateObject(h)
  PROVE  Pool!Next
<1>1. /\ core_local[h] # NULL /\ core_local[h] \in Region
      /\ ref_cnt' = [ref_cnt EXCEPT ![core_local[h]] = @ + 1]
      /\ UNCHANGED <<lists, core_local, from>>
  BY DEF AllocateObject, NewSlotsIn, RegionInv, TypeOK, cores
<1>2. ref_cnt \in [Region -> 0..MaxPins] BY DEF RegionInv, TypeOK
<1>3. Pinned' = Pinned \cup {core_local[h]} BY <1>1, <1>2, SizesOK DEF Pinned
<1>4. Pool!Pin(h) BY <1>1, <1>3 DEF Pool!Pin, Pinned, lists
<1> QED BY <1>4 DEF Pool!Next

\* Only the last reference unpins a region.
LEMMA DropRefImplements ==
  ASSUME RegionInv, NEW r \in Region, DropRef(r)
  PROVE  Pool!Next \/ PlacesKept
<1>1. /\ ref_cnt[r] > 0 /\ ref_cnt' = [ref_cnt EXCEPT ![r] = @ - 1]
      /\ UNCHANGED <<lists, core_local, from>> /\ ref_cnt \in [Region -> 0..MaxPins]
  BY DEF DropRef, RegionInv, TypeOK, cores
<1>2. /\ \A q \in Region \ {r} : ref_cnt'[q] = ref_cnt[q]
      /\ ref_cnt'[r] = ref_cnt[r] - 1 /\ ref_cnt[r] \in 0..MaxPins
  BY <1>1
<1>3. CASE ref_cnt[r] = 1
  <2>1. Pinned' = Pinned \ {r} BY <1>2, <1>3 DEF Pinned
  <2>2. Pool!Unpin(r) BY <1>1, <2>1 DEF Pool!Unpin, Pinned, lists
  <2> QED BY <2>2 DEF Pool!Next
<1>4. CASE ref_cnt[r] > 1
  <2>1. Pinned' = Pinned BY <1>2, <1>4, SizesOK DEF Pinned
  <2> QED BY <1>1, <2>1 DEF PlacesKept, Used, lists
<1> QED BY <1>1, <1>2, <1>3, <1>4, SizesOK

\* push_free_region resets the region it releases, which had no reference; a buffer that
\* overflows releases nothing.
LEMMA PushFreeImplements ==
  ASSUME RegionInv, NEW r \in Region, PushFree(r)
  PROVE  Pool!Next \/ PlacesKept
<1>1. /\ r \in from /\ ref_cnt' = [ref_cnt EXCEPT ![r] = 0]
      /\ UNCHANGED <<used_regions, nt_used_regions, core_local>>
      /\ ref_cnt \in [Region -> 0..MaxPins] /\ ref_cnt[r] = 0
  BY DEF PushFree, Reset, RegionInv, TypeOK, Unreferenced, cores
<1>2. ref_cnt' = ref_cnt BY <1>1
<1>3. CASE Full(free_regions)
  <2>1. UNCHANGED <<free_regions, from>> BY <1>3 DEF PushFree
  <2> QED BY <1>1, <1>2, <2>1 DEF PlacesKept, Used, Pinned
<1>4. CASE ~Full(free_regions)
  <2>1. free_regions' = Append(free_regions, r) /\ from' = from \ {r} BY <1>4 DEF PushFree
  <2>2. free_regions \in Seq(Region) BY DEF RegionInv, TypeOK
  <2>3. ToSet(Append(free_regions, r)) = ToSet(free_regions) \cup {r} BY <2>2, AppendFacts
  <2>4. Pool!Release(r) BY <1>1, <1>2, <2>1, <2>3 DEF Pool!Release
  <2> QED BY <2>4 DEF Pool!Next
<1> QED BY <1>3, <1>4

\* pop_used_region hands out the front of one of the two lists of used regions.
LEMMA TakeImplements ==
  ASSUME RegionInv, PopNtTake \/ PopUsedTake
  PROVE  Pool!Next
<1>1. /\ used_regions \in Seq(Region) /\ Once(used_regions)
      /\ nt_used_regions \in Seq(Region) /\ Once(nt_used_regions)
      /\ ToSet(used_regions) \cap ToSet(nt_used_regions) = {}
  BY DEF RegionInv, TypeOK, OnePlace, Distinct
<1>2. PICK r \in Region :
        ref_cnt[r] = 0 /\ PopTake(r) /\ r \in Used /\ Used' = Used \ {r}
  <2>1. CASE PopNtTake
    <3>1. /\ nt_used_regions # <<>> /\ IsGcable(Head(nt_used_regions))
          /\ nt_used_regions' = Tail(nt_used_regions) /\ used_regions' = used_regions
          /\ PopTake(Head(nt_used_regions))
      BY <2>1 DEF PopNtTake
    <3>2. /\ Head(nt_used_regions) \in Region /\ Head(nt_used_regions) \in ToSet(nt_used_regions)
          /\ ToSet(Tail(nt_used_regions)) = ToSet(nt_used_regions) \ {Head(nt_used_regions)}
      BY <1>1, <3>1, TailFacts
    <3>3. Used' = Used \ {Head(nt_used_regions)} BY <1>1, <3>1, <3>2 DEF Used
    <3> QED BY <3>1, <3>2, <3>3 DEF Used, IsGcable
  <2>2. CASE PopUsedTake
    <3>1. /\ used_regions # <<>> /\ IsGcable(Head(used_regions))
          /\ used_regions' = Tail(used_regions) /\ nt_used_regions' = nt_used_regions
          /\ PopTake(Head(used_regions))
      BY <2>2 DEF PopUsedTake
    <3>2. /\ Head(used_regions) \in Region /\ Head(used_regions) \in ToSet(used_regions)
          /\ ToSet(Tail(used_regions)) = ToSet(used_regions) \ {Head(used_regions)}
      BY <1>1, <3>1, TailFacts
    <3>3. Used' = Used \ {Head(used_regions)} BY <1>1, <3>1, <3>2 DEF Used
    <3> QED BY <3>1, <3>2, <3>3 DEF Used, IsGcable
  <2> QED BY <2>1, <2>2
<1>3. UNCHANGED <<free_regions, core_local, ref_cnt>> BY DEF PopNtTake, PopUsedTake, cores
<1>4. from' = from \cup {r} BY <1>2 DEF PopTake
<1>5. Pool!Pick(r) BY <1>2, <1>3, <1>4 DEF Pool!Pick, Used, Pinned
<1> QED BY <1>5 DEF Pool!Next

LEMMA StepImplements ==
  ASSUME RegionInv, [Next]_vars
  PROVE  Pool!Next \/ PlacesKept
<1>1. CASE UNCHANGED <<lists, core_local, ref_cnt, from>>
  BY <1>1 DEF PlacesKept, Used, Pinned, lists
<1>2. ASSUME NEW h \in Holder, AllocateObject(h) PROVE Pool!Next
  BY <1>2, AllocateImplements
<1>3. ASSUME NEW h \in Holder, Refill(h) PROVE Pool!Next BY <1>3, RefillImplements
<1>4. ASSUME NEW r \in Region, DropRef(r) PROVE Pool!Next \/ PlacesKept
  BY <1>4, DropRefImplements
<1>5. ASSUME NEW r \in Region, PushFree(r) PROVE Pool!Next \/ PlacesKept
  BY <1>5, PushFreeImplements
<1>6. CASE PopNtTake \/ PopUsedTake BY <1>6, TakeImplements
<1>7. ASSUME PopNtPinned PROVE PlacesKept
  <2>1. nt_used_regions \in Seq(Region) /\ Once(nt_used_regions) /\ nt_used_regions # <<>>
    BY <1>7 DEF PopNtPinned, RegionInv, TypeOK, OnePlace
  <2>2. ToSet(Append(Tail(nt_used_regions), Head(nt_used_regions))) = ToSet(nt_used_regions)
    BY <2>1, RotateFacts
  <2>3. /\ nt_used_regions' = Append(Tail(nt_used_regions), Head(nt_used_regions))
        /\ UNCHANGED <<free_regions, used_regions, core_local, ref_cnt, from>>
    BY <1>7 DEF PopNtPinned, cores
  <2> QED BY <2>2, <2>3 DEF PlacesKept, Used, Pinned
<1>8. CASE QuietPop
  <2>1. UNCHANGED <<lists, core_local, ref_cnt, from>> BY <1>8, QuietPopFacts DEF cores
  <2> QED BY <1>1, <2>1
<1>9. ASSUME NEW h \in Holder, RefillBug(h) PROVE PlacesKept
  BY <1>9 DEF RefillBug, PlacesKept, Used, Pinned, lists, cores
<1>10. CASE UNCHANGED vars BY <1>1, <1>10 DEF vars, lists, cores
<1> QED BY <1>2, <1>3, <1>4, <1>5, <1>6, <1>7, <1>8, <1>9, <1>10
        DEF Next, MasterStep, PopStep, QuietPop, Halted

\* A manager that came up implements RegionPool, whatever the sizes: no region is lost or
\* duplicated by the moves between the buffers, the cores and the collector, and
\* pop_used_region hands out no region with references.  A refused constructor leaves
\* the cores without regions, which is not a pool.
THEOREM ManagerIsPool ==
  ASSUME FreeCount > 0
  PROVE  Spec => ImplementsPool
<1>1. Init => Pool!Init BY InitImplements
<1>2. RegionInv /\ [Next]_vars => [Pool!Next]_Pool!vars
  BY StepImplements DEF PlacesKept, Used, Pinned, Pool!vars
<1> QED BY <1>1, <1>2, RegionInvHolds, PTL DEF Spec, ImplementsPool, Pool!Spec
=============================================================================
