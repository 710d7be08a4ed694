------------------------- MODULE DynamicPagerProofs -------------------------
(***************************************************************************)
(* Proofs about DynamicPager, for any number of builders, items and sizes  *)
(* and any width of the counters.  The mutex says which thread is in its   *)
(* loop, so that what a pass of the pager relies on is changed by nobody   *)
(* else; on top of that, what the scan of dynamic_memory has added up is   *)
(* compared with the sizes of what it has visited.                         *)
(***************************************************************************)
EXTENDS DynamicPager, FiniteSetTheorems, WellFoundedInduction, TLAPS

InPass == ppc \in {"scan", "swap_in"}
InScan == mpc = "scan"

\* Each thread is in its loop exactly while it holds the mutex.
MutexHeld ==
  /\ mutex = "pager" <=> InPass
  /\ mutex = "memory" <=> InScan

\* Neither thread runs before the threshold is set, and none is 0.
Started ==
  /\ ppc = "off" => mpc = "off"
  /\ ppc # "off" => swap_threshold \in Nat /\ swap_threshold > 0

PagerInv ==
  /\ MutexHeld
  /\ Started
  /\ ~InPass => ppos = 1
  /\ ~measured => available_mem = 0
  /\ PassAllOrNothing

\* The ceiling of a tenth of a positive size is positive, however it is rounded.
LEMMA ThresholdPositive ==
  ASSUME NEW t \in Thresholds(CacheSize)
  PROVE  t \in Nat /\ t > 0
<1>1. CacheSize \in Nat /\ CacheSize > 0
  BY PagerConstantsOK
<1>2. (CacheSize + 9) \div 10 \in Nat /\ (CacheSize + 9) \div 10 > 0
  BY <1>1
<1>3. CacheSize \div 10 + 1 \in Nat /\ CacheSize \div 10 + 1 > 0
  BY <1>1
<1> QED BY <1>2, <1>3 DEF Thresholds

LEMMA PagerInvInit == Init => PagerInv
BY PagerConstantsOK
   DEF Init, PagerInv, MutexHeld, Started, InPass, InScan, PassAllOrNothing

\* Every step keeps the invariant.  Only MemoryStore changes available_mem, and
\* only InitDynamicPager the threshold, and neither does so during a pass.
LEMMA PagerInvKept == PagerInv /\ [Next]_vars => PagerInv'
<1> SUFFICES ASSUME PagerInv, [Next]_vars PROVE PagerInv'
  OBVIOUS
<1> USE DEF PagerInv, MutexHeld, Started, InPass, InScan, PassAllOrNothing, LowMemory
<1>1. CASE InitDynamicPager
  BY <1>1, ThresholdPositive DEF InitDynamicPager
<1>2. CASE StopDynamicPager
  BY <1>2 DEF StopDynamicPager, builders, pager, memory
<1>3. ASSUME NEW b \in Builder, BuilderStep(b) PROVE PagerInv'
  BY <1>3 DEF BuilderStep, BeginArray, AllocateItem, RegisterObject, EndArray,
              flags, pager, memory
<1>4. CASE PagerStep
  <2>1. CASE PagerTest
    BY <2>1 DEF PagerTest, flags, memory
  <2>2. CASE PagerLock
    BY <2>2, PagerConstantsOK DEF PagerLock, flags, memory
  <2>3. CASE PagerLeave
    BY <2>3, PagerConstantsOK DEF PagerLeave, flags, memory
  <2>4. CASE PagerSkip
    BY <2>4 DEF PagerSkip, flags, memory
  <2>5. CASE PagerCallSwapIn
    BY <2>5 DEF PagerCallSwapIn, flags, memory
  <2>6. CASE PagerSwappedIn
    BY <2>6 DEF PagerSwappedIn, flags, memory
  <2> QED BY <1>4, <2>1, <2>2, <2>3, <2>4, <2>5, <2>6 DEF PagerStep, PagerOwnStep
<1>5. CASE MemoryStep
  <2>1. CASE MemoryTest
    BY <2>1 DEF MemoryTest, flags, pager
  <2>2. CASE MemoryLock
    BY <2>2, PagerConstantsOK DEF MemoryLock, flags, pager
  <2>3. CASE MemoryVisit
    BY <2>3 DEF MemoryVisit, flags, pager
  <2>4. CASE MemoryStore
    BY <2>4, PagerConstantsOK DEF MemoryStore, flags, pager
  <2> QED BY <1>5, <2>1, <2>2, <2>3, <2>4 DEF MemoryStep
<1>6. ASSUME NEW i \in Item, Evacuate(i) \/ Fetch(i) PROVE PagerInv'
  BY <1>6 DEF Evacuate, Fetch, flags, pager, memory
<1>7. CASE UNCHANGED vars
  BY <1>7 DEF vars, flags, pager, memory
<1> QED BY <1>1, <1>2, <1>3, <1>4, <1>5, <1>6, <1>7 DEF Next

LEMMA PagerInvHolds == Spec => []PagerInv
BY PagerInvInit, PagerInvKept, PTL DEF Spec

\* A pass of dynamic_pager is admitted or refused as a whole (dswap.cpp:56-62).
THEOREM PassesAllOrNothing == Spec => []PassAllOrNothing
<1>1. PagerInv => PassAllOrNothing
  BY DEF PagerInv
<1> QED BY PagerInvHolds, <1>1, PTL

\* No swap-in is called before available_mem has been stored (dswap.cpp:57, 100):
\* a pass that swaps in has found available_mem above a positive threshold.
THEOREM ReadingComesFirst == Spec => []NoSwapBeforeReading
<1>1. PagerInv => NoSwapBeforeReading
  BY DEF PagerInv, NoSwapBeforeReading, PassAllOrNothing, LowMemory, Started
<1> QED BY PagerInvHolds, <1>1, PTL

\* register_object pushes nothing while a loop over object_refs is under way
\* (dswap.cpp:17-20, 54-56, 91-94).
THEOREM LoopsKeepReferences == Spec => RefsStableInPass
<1> DEFINE Stable == InPass \/ InScan => object_refs' = object_refs
<1>1. PagerInv /\ [Next]_vars => [Stable]_vars
  <2> SUFFICES ASSUME PagerInv, Next, InPass \/ InScan PROVE object_refs' = object_refs
    BY DEF vars
  <2>1. mutex # Nobody
    BY PagerConstantsOK DEF PagerInv, MutexHeld
  <2> QED
    BY <2>1 DEF Next, InitDynamicPager, StopDynamicPager, BuilderStep, BeginArray,
       AllocateItem, RegisterObject, EndArray, PagerStep, PagerOwnStep, PagerTest, PagerLock,
       PagerLeave, PagerSkip, PagerCallSwapIn, PagerSwappedIn, MemoryStep,
       MemoryTest, MemoryLock, MemoryVisit, MemoryStore, Evacuate, Fetch
<1>2. [][Stable]_vars => RefsStableInPass
  BY PTL DEF RefsStableInPass, InPass, InScan
<1> QED BY <1>1, <1>2, PagerInvHolds, PTL DEF Spec

\* A remainder by the width of the counters fits into them.
LEMMA WordRange == \A n \in Nat : n % Word \in 0..(Word - 1)
BY PagerConstantsOK

\* The position of a swap-in under way is that of a reference: object_refs[ppos]
\* exists from the test at dswap.cpp:59 until swap_in returns.  And a builder
\* about to register has an item to register.
Positioned ==
  /\ ppc = "swap_in" => ppos <= Len(object_refs)
  /\ \A b \in Builder : bpc[b] = "register" => built[b] > 0

LEMMA TypesInit == Init => TypeOK /\ Positioned
<1> SUFFICES ASSUME Init PROVE TypeOK /\ Positioned
  OBVIOUS
<1>1. 0 \in 0..(Word - 1)
  BY PagerConstantsOK
<1>2. object_refs \in Seq(Item) /\ present \subseteq Item /\ changed \subseteq Item
  BY DEF Init
<1>3. Positioned
  BY DEF Init, Positioned
<1>4. built \in [Builder -> Nat] /\ \A b \in Builder : built[b] <= NumItems[b]
  BY PagerConstantsOK DEF Init
<1>5. bpc \in [Builder -> {"idle", "allocate", "register", "built"}]
  BY DEF Init
<1>6. /\ available_mem \in 0..(Word - 1) /\ total \in 0..(Word - 1)
      /\ swap_threshold \in Nat /\ ppos \in Nat \ {0} /\ mpos \in Nat \ {0}
  BY <1>1 DEF Init
<1>7. /\ mutex \in {Nobody, "pager", "memory"}
      /\ running \in BOOLEAN /\ measured \in BOOLEAN
      /\ ppc \in {"off", "test", "lock", "scan", "swap_in", "done"}
      /\ mpc \in {"off", "test", "lock", "scan", "done"}
  BY DEF Init
<1> QED BY <1>2, <1>3, <1>4, <1>5, <1>6, <1>7 DEF TypeOK

LEMMA TypesKept == TypeOK /\ Positioned /\ [Next]_vars => TypeOK' /\ Positioned'
<1> SUFFICES ASSUME TypeOK, Positioned, [Next]_vars PROVE TypeOK' /\ Positioned'
  OBVIOUS
<1> USE PagerConstantsOK DEF TypeOK, Positioned
<1>1. CASE InitDynamicPager
  BY <1>1, ThresholdPositive DEF InitDynamicPager, builders
<1>2. CASE StopDynamicPager
  BY <1>2 DEF StopDynamicPager, builders, pager, memory
<1>3. ASSUME NEW b \in Builder, BuilderStep(b) PROVE TypeOK' /\ Positioned'
  <2>1. CASE BeginArray(b)
    BY <2>1 DEF BeginArray, flags, pager, memory
  <2>2. CASE AllocateItem(b)
    <3>1. <<b, built[b] + 1>> \in Item
      BY <2>2 DEF AllocateItem, Item
    <3>2. present' \subseteq Item /\ changed' \subseteq Item
      BY <2>2, <3>1 DEF AllocateItem, NoteChange
    <3>3. Positioned'
      BY <2>2 DEF AllocateItem, pager
    <3>4. built[b] + 1 \in Nat /\ built[b] + 1 <= NumItems[b]
      BY <2>2 DEF AllocateItem
    <3>5. built' \in [Builder -> Nat] /\ \A c \in Builder : built'[c] <= NumItems[c]
      BY <2>2, <3>4 DEF AllocateItem
    <3> QED BY <2>2, <3>2, <3>3, <3>5 DEF AllocateItem, flags, pager, memory
  <2>3. CASE RegisterObject(b)
    <3>1. <<b, built[b]>> \in Item
      BY <2>3 DEF RegisterObject, Item
    <3> QED BY <2>3, <3>1 DEF RegisterObject, flags, pager, memory
  <2>4. CASE EndArray(b)
    BY <2>4 DEF EndArray, flags, pager, memory
  <2> QED BY <1>3, <2>1, <2>2, <2>3, <2>4 DEF BuilderStep
<1>4. CASE PagerStep
  BY <1>4 DEF PagerStep, PagerOwnStep, PagerTest, PagerLock, PagerLeave, PagerSkip,
     PagerCallSwapIn, PagerSwappedIn, NoteChange, flags, memory, builders
<1>5. CASE MemoryStep
  <2>1. CASE MemoryVisit
    <3>1. object_refs[mpos] \in Item
      BY <2>1 DEF MemoryVisit
    <3>2. object_refs[mpos][1] \in Builder
      BY <3>1 DEF Item
    <3>3. Size(object_refs[mpos]) \in Nat
      BY <3>2 DEF Size
    <3>4. total + Size(object_refs[mpos]) \in Nat
      BY <3>3
    <3>5. (total + Size(object_refs[mpos])) % Word \in 0..(Word - 1)
      BY <3>4, WordRange
    <3> QED BY <2>1, <3>5 DEF MemoryVisit, flags, pager, builders
  <2>2. CASE MemoryStore
    <3>1. CacheSize + Word - total \in Nat
      OBVIOUS
    <3>2. Difference(total) \in 0..(Word - 1)
      BY <3>1, WordRange DEF Difference
    <3> QED BY <2>2, <3>2 DEF MemoryStore, flags, pager, builders
  <2> QED BY <1>5, <2>1, <2>2 DEF MemoryStep, MemoryTest, MemoryLock, flags, pager, builders
<1>6. ASSUME NEW i \in Item, Evacuate(i) \/ Fetch(i) PROVE TypeOK' /\ Positioned'
  BY <1>6 DEF Evacuate, Fetch, NoteChange, builders, flags, pager, memory
<1>7. CASE UNCHANGED vars
  BY <1>7 DEF vars, builders, flags, pager, memory
<1> QED BY <1>1, <1>2, <1>3, <1>4, <1>5, <1>6, <1>7 DEF Next

\* The types hold; the counters of dswap.cpp stay within their width.
THEOREM PagerTypesHold == Spec => []TypeOK
BY TypesInit, TypesKept, PTL DEF Spec

-----------------------------------------------------------------------------
(* The sum of sizes.  A sum over a set is the number of blocks its members *)
(* fill, which turns the facts about sums into facts about cardinalities.   *)

Sizes(S) == MapThenSumSet(Size, S)
Blocks(S) == {e \in S \X Nat : e[2] \in 1..Size(e[1])}

First(s) == CHOOSE x \in s : TRUE

\* f adds up the sizes of a subset of S one by one.
Adds(f, S) ==
  f = [s \in SUBSET S |-> IF s = {} THEN 0 ELSE Size(First(s)) + f[s \ {First(s)}]]

\* An item of size n fills n blocks.
LEMMA BlocksOfOne ==
  ASSUME NEW x, Size(x) \in Nat
  PROVE  IsFiniteSet(Blocks({x})) /\ Cardinality(Blocks({x})) = Size(x)
<1> DEFINE n == Size(x)
           B == Blocks({x})
           f == [k \in 1..n |-> <<x, k>>]
<1>1. f \in [1..n -> B] BY DEF Blocks
<1>2. \A e \in B : e[2] \in 1..n /\ e = <<x, e[2]>> BY DEF Blocks
<1>3. \A e \in B : \E k \in 1..n : f[k] = e BY <1>2
<1>4. f \in Injection(1..n, B)
  <2>1. \A i, j \in 1..n : f[i] = f[j] => i = j OBVIOUS
  <2> QED BY <1>1, <2>1 DEF Injection, IsInjective
<1>5. f \in Surjection(1..n, B) BY <1>1, <1>3 DEF Surjection
<1> HIDE DEF B, f, n
<1>6. IsFiniteSet(1..n) /\ Cardinality(1..n) = n
  <2>1. n \in Nat BY DEF n
  <2>2. IsFiniteSet(1..n) /\ Cardinality(1..n) = IF 1 > n THEN 0 ELSE n - 1 + 1
    BY <2>1, FS_Interval
  <2> QED BY <2>1, <2>2
<1>7. IsFiniteSet(B) /\ Cardinality(B) = Cardinality(1..n)
  BY <1>4, <1>5, <1>6, FS_Surjection
<1> QED BY <1>6, <1>7 DEF B, n

\* Finitely many items of finite size fill finitely many blocks.
LEMMA BlocksFinite ==
  ASSUME NEW S, IsFiniteSet(S), \A x \in S : Size(x) \in Nat
  PROVE  IsFiniteSet(Blocks(S)) /\ Cardinality(Blocks(S)) \in Nat
<1> DEFINE f == [x \in S |-> Blocks({x})]
           F == {f[x] : x \in S}
<1>1. IsFiniteSet(F)
  <2>1. f \in Surjection(S, F) BY DEF Surjection
  <2> QED BY <2>1, FS_Surjection
<1>2. \A B \in F : IsFiniteSet(B) BY BlocksOfOne
<1>3. Blocks(S) = UNION F
  <2>1. \A e \in Blocks(S) : e[1] \in S /\ e \in f[e[1]] BY DEF Blocks
  <2>2. \A x \in S : f[x] \subseteq Blocks(S) BY DEF Blocks
  <2> HIDE DEF f
  <2> QED BY <2>1, <2>2
<1> HIDE DEF F
<1>4. IsFiniteSet(Blocks(S)) BY <1>1, <1>2, <1>3, FS_UNION
<1> QED BY <1>4, FS_CardinalityType

LEMMA DisjointUnion ==
  ASSUME NEW A, NEW B, IsFiniteSet(A), IsFiniteSet(B), A \cap B = {}
  PROVE  Cardinality(A \cup B) = Cardinality(A) + Cardinality(B)
<1>1. Cardinality(A \cup B) = Cardinality(A) + Cardinality(B) - Cardinality(A \cap B)
  BY FS_Union
<1>2. Cardinality(A \cap B) = 0 BY FS_EmptySet
<1>3. Cardinality(A) \in Nat /\ Cardinality(B) \in Nat BY FS_CardinalityType
<1> QED BY <1>1, <1>2, <1>3

\* Another item adds its own blocks.
LEMMA BlocksAdd ==
  ASSUME NEW S, IsFiniteSet(S), NEW x, x \notin S, \A y \in S \cup {x} : Size(y) \in Nat
  PROVE  Cardinality(Blocks(S \cup {x})) = Cardinality(Blocks(S)) + Size(x)
<1>1. Blocks(S \cup {x}) = Blocks(S) \cup Blocks({x}) BY DEF Blocks
<1>2. Blocks(S) \cap Blocks({x}) = {} BY DEF Blocks
<1>3. /\ IsFiniteSet(Blocks(S)) /\ Cardinality(Blocks(S)) \in Nat
      /\ IsFiniteSet(Blocks({x})) /\ Cardinality(Blocks({x})) = Size(x)
  BY BlocksFinite, BlocksOfOne
<1>4. Cardinality(Blocks(S) \cup Blocks({x})) = Cardinality(Blocks(S)) + Cardinality(Blocks({x}))
  BY <1>2, <1>3, DisjointUnion
<1>5. Cardinality(Blocks(S \cup {x})) = Cardinality(Blocks(S) \cup Blocks({x})) BY <1>1, Zenon
<1> QED BY <1>3, <1>4, <1>5

\* The sum, which MapThenSumSet defines by recursion over the subsets of S, is the number
\* of blocks: both add up one by one, and a smallest subset they differ on cannot exist.
LEMMA SizesAreBlocks ==
  ASSUME NEW S, IsFiniteSet(S), \A x \in S : Size(x) \in Nat
  PROVE  Sizes(S) = Cardinality(Blocks(S))
<1> DEFINE g == [s \in SUBSET S |-> Cardinality(Blocks(s))]
           f == CHOOSE h : Adds(h, S)
           W == {s \in SUBSET S : f[s] # g[s]}
<1>1. Sizes(S) = f[S] BY DEF Sizes, MapThenSumSet, MapThenFoldSet, Adds, First
<1>2. Adds(g, S)
  <2>1. ASSUME NEW s \in SUBSET S, s # {}
        PROVE  g[s] = Size(First(s)) + g[s \ {First(s)}]
    <3>1. First(s) \in s BY <2>1 DEF First
    <3> SUFFICES ASSUME NEW x \in s, NEW r, r = s \ {x} PROVE g[s] = Size(x) + g[r]
      BY <3>1
    <3>2. IsFiniteSet(r) /\ r \subseteq S /\ x \notin r /\ s = r \cup {x} BY FS_Subset
    <3>3. /\ Cardinality(Blocks(r \cup {x})) = Cardinality(Blocks(r)) + Size(x)
          /\ Cardinality(Blocks(r)) \in Nat /\ Size(x) \in Nat
      BY <3>2, BlocksAdd, BlocksFinite
    <3>4. g[s] = Cardinality(Blocks(r \cup {x})) /\ g[r] = Cardinality(Blocks(r))
      BY <3>2, Zenon
    <3>5. Size(x) + Cardinality(Blocks(r)) = Cardinality(Blocks(r)) + Size(x) BY <3>3
    <3> QED BY <3>3, <3>4, <3>5
  <2>2. g[{}] = 0
    <3>1. Blocks({}) = {} BY DEF Blocks
    <3> QED BY <3>1, FS_EmptySet
  <2>3. g = [s \in SUBSET S |-> g[s]] OBVIOUS
  <2> HIDE DEF g
  <2> QED BY <2>1, <2>2, <2>3 DEF Adds
<1>3. Adds(f, S) BY <1>2
<1> HIDE DEF f, g
<1>4. W = {}
  <2> SUFFICES ASSUME W # {} PROVE FALSE OBVIOUS
  <2>1. IsWellFoundedOn(StrictSubsetOrdering(S), SUBSET S)
    BY FS_StrictSubsetOrderingWellFounded, FS_FiniteSubsetsOfFinite
  <2>2. W \subseteq SUBSET S OBVIOUS
  <2>3. PICK s \in W : \A t \in W : <<t, s>> \notin StrictSubsetOrdering(S)
    BY <2>1, <2>2, WFMin
  <2>4. \A t \in SUBSET S : t \subseteq s /\ t # s => f[t] = g[t]
    BY <2>3 DEF StrictSubsetOrdering
  <2>5. CASE s = {} BY <1>2, <1>3, <2>3, <2>5 DEF Adds
  <2>6. CASE s # {}
    <3>1. First(s) \in s BY <2>6 DEF First
    <3>2. f[s \ {First(s)}] = g[s \ {First(s)}] BY <2>3, <2>4, <3>1
    <3>3. f[s] = Size(First(s)) + f[s \ {First(s)}] BY <1>3, <2>3, <2>6 DEF Adds
    <3>4. g[s] = Size(First(s)) + g[s \ {First(s)}] BY <1>2, <2>3, <2>6 DEF Adds
    <3> QED BY <2>3, <3>2, <3>3, <3>4
  <2> QED BY <2>5, <2>6
<1>5. f[S] = g[S] BY <1>4
<1> QED BY <1>1, <1>5 DEF g

LEMMA ItemSizes == \A x \in Item : Size(x) \in Nat
<1>1. \A x \in Item : x[1] \in Builder BY DEF Item
<1> QED BY <1>1, PagerConstantsOK DEF Size

\* The size of what of Q is in V, when V gets another item.
LEMMA SizesVisit ==
  ASSUME NEW V \in SUBSET Item, IsFiniteSet(V), NEW x \in Item \ V, NEW Q
  PROVE  /\ Sizes(Q \cap V) \in Nat /\ Size(x) \in Nat
         /\ Sizes(Q \cap (V \cup {x})) = Sizes(Q \cap V) + (IF x \in Q THEN Size(x) ELSE 0)
<1> DEFINE A == Q \cap V
<1>1. IsFiniteSet(A) /\ A \subseteq Item /\ x \notin A BY FS_Subset
<1>2. Size(x) \in Nat /\ \A y \in A \cup {x} : Size(y) \in Nat BY <1>1, ItemSizes
<1>3. Sizes(A) = Cardinality(Blocks(A)) /\ Sizes(A) \in Nat
  BY <1>1, <1>2, SizesAreBlocks, BlocksFinite
<1>4. Sizes(A \cup {x}) = Sizes(A) + Size(x)
  <2>1. IsFiniteSet(A \cup {x}) BY <1>1, FS_AddElement
  <2>2. Sizes(A \cup {x}) = Cardinality(Blocks(A \cup {x})) BY <1>2, <2>1, SizesAreBlocks
  <2>3. Cardinality(Blocks(A \cup {x})) = Cardinality(Blocks(A)) + Size(x)
    BY <1>1, <1>2, BlocksAdd
  <2> QED BY <1>3, <2>2, <2>3
<1>5. Q \cap (V \cup {x}) = IF x \in Q THEN A \cup {x} ELSE A OBVIOUS
<1> HIDE DEF A
<1>6. CASE x \in Q
  <2>1. Sizes(Q \cap (V \cup {x})) = Sizes(A \cup {x}) BY <1>5, <1>6, Zenon
  <2>2. Sizes(Q \cap (V \cup {x})) = Sizes(A) + Size(x) BY <1>4, <2>1
  <2> QED BY <1>2, <1>3, <1>6, <2>2 DEF A
<1>7. CASE x \notin Q
  <2>1. Sizes(Q \cap (V \cup {x})) = Sizes(A) BY <1>5, <1>7, Zenon
  <2> QED BY <1>2, <1>3, <1>7, <2>1 DEF A
<1> QED BY <1>6, <1>7

\* More items are not smaller.
LEMMA SizesGrow ==
  ASSUME NEW S \in SUBSET Item, IsFiniteSet(S), NEW T \in SUBSET S
  PROVE  Sizes(T) \in Nat /\ Sizes(S) \in Nat /\ Sizes(T) <= Sizes(S)
<1>1. IsFiniteSet(T) /\ T \subseteq Item BY FS_Subset
<1>2. /\ \A x \in S : Size(x) \in Nat
      /\ \A x \in T : Size(x) \in Nat
  BY <1>1, ItemSizes
<1>3. /\ Sizes(S) = Cardinality(Blocks(S)) /\ Sizes(T) = Cardinality(Blocks(T))
      /\ IsFiniteSet(Blocks(S)) /\ Cardinality(Blocks(S)) \in Nat
      /\ Cardinality(Blocks(T)) \in Nat
  BY <1>1, <1>2, SizesAreBlocks, BlocksFinite
<1>4. Blocks(T) \subseteq Blocks(S) BY DEF Blocks
<1>5. Cardinality(Blocks(T)) <= Cardinality(Blocks(S)) BY <1>3, <1>4, FS_Subset
<1> QED BY <1>3, <1>5

\* Between the sizes, within V, of L and of U.
Window(L, U, V) == Sizes(L \cap V)..Sizes(U \cap V)

\* A larger range of sets gives a larger range of sizes.
LEMMA WindowWidens ==
  ASSUME NEW V \in SUBSET Item, IsFiniteSet(V), NEW L, NEW U, NEW L2 \in SUBSET L, NEW U2,
         U \subseteq U2
  PROVE  Window(L, U, V) \subseteq Window(L2, U2, V)
<1>1. /\ IsFiniteSet(L \cap V) /\ L \cap V \subseteq Item /\ L2 \cap V \subseteq L \cap V
      /\ IsFiniteSet(U2 \cap V) /\ U2 \cap V \subseteq Item /\ U \cap V \subseteq U2 \cap V
  BY FS_Subset
<1>2. /\ Sizes(L2 \cap V) <= Sizes(L \cap V) /\ Sizes(U \cap V) <= Sizes(U2 \cap V)
      /\ Sizes(L2 \cap V) \in Nat /\ Sizes(L \cap V) \in Nat
      /\ Sizes(U \cap V) \in Nat /\ Sizes(U2 \cap V) \in Nat
  BY <1>1, SizesGrow
<1> QED BY <1>2 DEF Window

\* What a visit to x adds.
Counted(x, P) == IF x \in P THEN Size(x) ELSE 0

\* The scan counts x if it is present.
LEMMA WindowVisit ==
  ASSUME NEW V \in SUBSET Item, IsFiniteSet(V), NEW x \in Item \ V, NEW P, NEW C,
         NEW t \in Window(P \ C, P \cup C, V)
  PROVE  /\ t \in Nat /\ Size(x) \in Nat
         /\ t + Counted(x, P) \in Window(P \ C, P \cup C, V \cup {x})
<1>1. /\ Sizes((P \ C) \cap V) \in Nat /\ Size(x) \in Nat
      /\ Sizes((P \ C) \cap (V \cup {x}))
           = Sizes((P \ C) \cap V) + (IF x \in P \ C THEN Size(x) ELSE 0)
  BY SizesVisit
<1>2. /\ Sizes((P \cup C) \cap V) \in Nat
      /\ Sizes((P \cup C) \cap (V \cup {x}))
           = Sizes((P \cup C) \cap V) + (IF x \in P \cup C THEN Size(x) ELSE 0)
  BY SizesVisit
<1> SUFFICES ASSUME NEW l \in Nat, NEW u \in Nat, NEW n \in Nat, t \in l..u, n = Size(x)
             PROVE  /\ t \in Nat
                    /\ t + (IF x \in P THEN n ELSE 0)
                         \in (l + (IF x \in P \ C THEN n ELSE 0))..
                             (u + (IF x \in P \cup C THEN n ELSE 0))
  BY <1>1, <1>2 DEF Window, Counted
<1> QED OBVIOUS

-----------------------------------------------------------------------------
(* Unsigned arithmetic.                                                     *)

\* Division with remainder by the width of the counters.
LEMMA Quotient ==
  ASSUME NEW n \in Nat
  PROVE  (n % Word) \in 0..(Word - 1) /\ \E q \in Nat : n = (Word * q) + (n % Word)
<1> USE PagerConstantsOK
<1>1. (n % Word) \in 0..(Word - 1) OBVIOUS
<1>2. n = (Word * (n \div Word)) + (n % Word) OBVIOUS
<1>3. n \div Word \in Nat
  <2>1. n \div Word \in Int OBVIOUS
  <2>2. n \div Word >= 0 OBVIOUS
  <2> QED BY <2>1, <2>2
<1> QED BY <1>1, <1>2, <1>3

LEMMA MultipleBound ==
  ASSUME NEW d \in Nat, d >= 1
  PROVE  Word * d >= Word
BY PagerConstantsOK

\* A number has one remainder only.
LEMMA OneRemainder ==
  ASSUME NEW p \in Nat, NEW q \in Nat, NEW r \in 0..(Word - 1), NEW s \in 0..(Word - 1),
         (Word * p) + r = (Word * q) + s
  PROVE  r = s
<1> USE PagerConstantsOK
<1>1. CASE p = q BY <1>1
<1>2. ASSUME NEW a \in Nat, NEW b \in Nat, NEW x \in 0..(Word - 1), NEW y \in 0..(Word - 1),
             (Word * a) + x = (Word * b) + y, a > b
      PROVE FALSE
  <2>1. PICK d \in Nat : a = b + d /\ d >= 1
    <3>1. a - b \in Nat /\ a = b + (a - b) /\ a - b >= 1 BY <1>2
    <3> QED BY <3>1
  <2>2. Word * a = (Word * b) + (Word * d) BY <2>1
  <2>3. Word * d >= Word BY <2>1, MultipleBound
  <2>4. Word * d \in Int /\ Word * b \in Int /\ Word * a \in Int OBVIOUS
  <2> QED BY <1>2, <2>2, <2>3, <2>4
<1> QED BY <1>1, <1>2

\* What the counter holds is the sum modulo its width, however often it wrapped.
LEMMA AddWrapped ==
  ASSUME NEW t \in Nat, NEW n \in Nat
  PROVE  ((t % Word) + n) % Word = (t + n) % Word
<1>1. (t % Word) \in 0..(Word - 1) /\ \E a \in Nat : t = (Word * a) + (t % Word) BY Quotient
<1> SUFFICES ASSUME NEW u \in 0..(Word - 1), NEW a \in Nat, t = (Word * a) + u
             PROVE  (u + n) % Word = (t + n) % Word
  BY <1>1
<1> USE PagerConstantsOK
<1>2. u + n \in Nat /\ t + n \in Nat OBVIOUS
<1>3. PICK b \in Nat : u + n = (Word * b) + ((u + n) % Word) BY <1>2, Quotient
<1>4. PICK c \in Nat : t + n = (Word * c) + ((t + n) % Word) BY <1>2, Quotient
<1>5. ((u + n) % Word) \in 0..(Word - 1) /\ ((t + n) % Word) \in 0..(Word - 1)
  BY <1>2, Quotient
<1> SUFFICES ASSUME NEW x \in 0..(Word - 1), NEW y \in 0..(Word - 1),
                    u + n = (Word * b) + x, t + n = (Word * c) + y
             PROVE  x = y
  BY <1>3, <1>4, <1>5
<1>6. (Word * (a + b)) + x = (Word * c) + y
  <2>1. Word * (a + b) = (Word * a) + (Word * b) OBVIOUS
  <2>2. Word * a \in Nat /\ Word * b \in Nat /\ Word * c \in Nat OBVIOUS
  <2> QED BY <2>1, <2>2
<1>7. a + b \in Nat OBVIOUS
<1> QED BY <1>6, <1>7, OneRemainder

-----------------------------------------------------------------------------
(* The scan of dynamic_memory.                                              *)

\* The pointers the scan has visited.
Visited == {object_refs[i] : i \in 1..(mpos - 1)}

\* Every item is registered at most once, and after it was allocated.
RefsOnce ==
  /\ \A i, j \in 1..Len(object_refs) : object_refs[i] = object_refs[j] => i = j
  /\ \A i \in 1..Len(object_refs), b \in Builder, n \in Nat :
       object_refs[i] = <<b, n>> => n <= built[b] /\ (bpc[b] = "register" => n < built[b])

\* The locals of the scan have their initial values outside; inside, the total is that
\* of the visited pointers, up to those whose bit changed meanwhile.
ScanInv ==
  /\ ~InScan => mpos = 1 /\ total = 0 /\ changed = {}
  /\ InScan => mpos <= Len(object_refs) + 1
  /\ InScan => \E t \in Window(present \ changed, present \cup changed, Visited) :
                  total = t % Word

\* register_object pushes each item once: its builder goes on to the next one.
LEMMA RefsOnceKept ==
  ASSUME TypeOK, RefsOnce, [Next]_vars
  PROVE  RefsOnce'
<1> USE DEF RefsOnce
<1>1. CASE UNCHANGED <<object_refs, built, bpc>> BY <1>1
<1>2. ASSUME NEW b \in Builder, BuilderStep(b) PROVE RefsOnce'
  <2>0. built \in [Builder -> Nat] /\ object_refs \in Seq(Item) BY DEF TypeOK
  <2>1. CASE BeginArray(b) \/ EndArray(b)
    <3>1. /\ UNCHANGED <<object_refs, built>> /\ bpc'[b] # "register"
          /\ \A c \in Builder \ {b} : bpc'[c] = bpc[c]
      BY <2>1 DEF BeginArray, EndArray, TypeOK
    <3> QED BY <3>1
  <2>2. CASE AllocateItem(b)
    <3>1. /\ UNCHANGED object_refs /\ bpc[b] = "allocate"
          /\ built'[b] = built[b] + 1
          /\ \A c \in Builder \ {b} : bpc'[c] = bpc[c] /\ built'[c] = built[c]
      BY <2>2 DEF AllocateItem, TypeOK
    <3> QED BY <2>0, <3>1
  <2>3. CASE RegisterObject(b)
    <3> DEFINE x == <<b, built[b]>>
    <3>1. /\ object_refs' = Append(object_refs, x) /\ UNCHANGED built
          /\ bpc[b] = "register" /\ bpc'[b] = "allocate"
          /\ \A c \in Builder \ {b} : bpc'[c] = bpc[c]
      BY <2>3 DEF RegisterObject, TypeOK
    <3>2. /\ Len(object_refs') = Len(object_refs) + 1 /\ Len(object_refs) \in Nat
          /\ object_refs'[Len(object_refs) + 1] = x
          /\ \A i \in 1..Len(object_refs) : object_refs'[i] = object_refs[i]
      BY <2>0, <3>1
    <3>3. \A i \in 1..Len(object_refs) : object_refs[i] # x BY <2>0, <3>1
    <3> SUFFICES ASSUME NEW i \in 1..Len(object_refs')
                 PROVE  /\ \A j \in 1..Len(object_refs') :
                             object_refs'[i] = object_refs'[j] => i = j
                        /\ \A c \in Builder, n \in Nat :
                             object_refs'[i] = <<c, n>> =>
                               n <= built'[c] /\ (bpc'[c] = "register" => n < built'[c])
      OBVIOUS
    <3>4. CASE i = Len(object_refs) + 1
      <4>1. \A j \in 1..Len(object_refs') : object_refs'[i] = object_refs'[j] => i = j
        BY <3>2, <3>3, <3>4
      <4>2. \A c \in Builder, n \in Nat : x = <<c, n>> => c = b /\ n = built[b]
        OBVIOUS
      <4>3. ASSUME NEW c \in Builder, NEW n \in Nat, object_refs'[i] = <<c, n>>
            PROVE  n <= built'[c] /\ bpc'[c] # "register"
        <5>1. c = b /\ n = built[b] BY <3>2, <3>4, <4>2, <4>3
        <5>2. n <= built[b] BY <5>1
        <5> QED BY <3>1, <5>1, <5>2
      <4> QED BY <4>1, <4>3
    <3>5. CASE i \in 1..Len(object_refs)
      <4>1. \A j \in 1..Len(object_refs') : object_refs'[i] = object_refs'[j] => i = j
        BY <3>2, <3>3, <3>5
      <4>2. \A c \in Builder, n \in Nat :
               object_refs[i] = <<c, n>> => n <= built[c] /\ (bpc[c] = "register" => n < built[c])
        BY <3>5
      <4> QED BY <3>1, <3>2, <3>5, <4>1, <4>2
    <3> QED BY <3>2, <3>4, <3>5
  <2> QED BY <1>2, <2>1, <2>2, <2>3 DEF BuilderStep
<1> QED BY <1>1, <1>2
        DEF Next, InitDynamicPager, StopDynamicPager, PagerStep, PagerOwnStep, PagerTest, PagerLock,
            PagerLeave, PagerSkip, PagerCallSwapIn, PagerSwappedIn, MemoryStep, MemoryTest,
            MemoryLock, MemoryVisit, MemoryStore, Evacuate, Fetch, vars, builders

\* The scan has visited finitely many items.
LEMMA VisitedItems ==
  ASSUME TypeOK, mpos <= Len(object_refs) + 1
  PROVE  Visited \in SUBSET Item /\ IsFiniteSet(Visited)
<1>1. object_refs \in Seq(Item) /\ mpos \in Nat \ {0} /\ Len(object_refs) \in Nat
  BY DEF TypeOK
<1> DEFINE n == mpos - 1
           f == [i \in 1..n |-> object_refs[i]]
<1>2. n \in Nat /\ n <= Len(object_refs) BY <1>1
<1>3. Visited \subseteq Item
  <2>1. \A i \in 1..n : object_refs[i] \in Item BY <1>1, <1>2
  <2> QED BY <2>1 DEF Visited
<1>4. f \in Surjection(1..n, Visited) BY DEF Surjection, Visited
<1>5. IsFiniteSet(1..n) BY <1>2, FS_Interval
<1> HIDE DEF f
<1>6. IsFiniteSet(Visited) BY <1>4, <1>5, FS_Surjection
<1> QED BY <1>3, <1>6

\* The bit of a pointer flips during the scan: from then on it may be counted or not.
LEMMA FlipKeeps ==
  ASSUME TypeOK, ScanInv, NEW S, NoteChange(S), UNCHANGED <<object_refs, mpc, mpos, total>>,
         present' \ S = present \ S
  PROVE  ScanInv'
<1>1. CASE ~InScan
  <2>1. changed' = changed BY <1>1 DEF NoteChange, InScan
  <2> QED BY <1>1, <2>1 DEF ScanInv, InScan
<1>2. CASE InScan
  <2>1. changed' = changed \cup S BY <1>2 DEF NoteChange, InScan
  <2>2. Visited \in SUBSET Item /\ IsFiniteSet(Visited) /\ mpos <= Len(object_refs) + 1
    BY <1>2, VisitedItems DEF ScanInv
  <2>3. /\ present' \ changed' \subseteq present \ changed
        /\ present \cup changed \subseteq present' \cup changed'
    BY <2>1
  <2>4. Window(present \ changed, present \cup changed, Visited)
          \subseteq Window(present' \ changed', present' \cup changed', Visited)
    BY <2>2, <2>3, WindowWidens
  <2>5. PICK t \in Window(present \ changed, present \cup changed, Visited) : total = t % Word
    BY <1>2 DEF ScanInv
  <2>6. t \in Window(present' \ changed', present' \cup changed', Visited) BY <2>4
  <2>7. Visited' = Visited BY DEF Visited
  <2>8. total' = t % Word BY <2>5
  <2> QED BY <1>2, <2>2, <2>6, <2>7, <2>8 DEF ScanInv, InScan
<1> QED BY <1>1, <1>2

\* A scan that begins has visited nothing.
LEMMA LockStarts ==
  ASSUME TypeOK, ScanInv, MemoryLock
  PROVE  ScanInv'
<1>1. /\ mpos = 1 /\ total = 0 /\ changed = {} /\ mpc' = "scan"
      /\ UNCHANGED <<object_refs, present, mpos, total, changed>>
  BY DEF MemoryLock, ScanInv, InScan, pager, flags, builders
<1>2. Visited' = {} BY <1>1 DEF Visited
<1>3. Sizes({}) = 0
  <2>1. Sizes({}) = Cardinality(Blocks({})) BY SizesAreBlocks, FS_EmptySet
  <2>2. Blocks({}) = {} BY DEF Blocks
  <2> QED BY <2>1, <2>2, FS_EmptySet
<1>4. 0 \in Window(present' \ changed', present' \cup changed', Visited')
  <2>1. (present' \ changed') \cap {} = {} /\ (present' \cup changed') \cap {} = {} OBVIOUS
  <2>2. /\ Sizes((present' \ changed') \cap {}) = 0
        /\ Sizes((present' \cup changed') \cap {}) = 0
    BY <1>3, <2>1, Zenon
  <2> QED BY <1>2, <2>2 DEF Window
<1>5. 0 = 0 % Word BY PagerConstantsOK
<1>6. mpos' <= Len(object_refs') + 1
  <2>1. Len(object_refs) \in Nat BY DEF TypeOK
  <2> QED BY <1>1, <2>1
<1> QED BY <1>1, <1>4, <1>5, <1>6 DEF ScanInv, InScan

\* A visit adds the item to the visited ones, and its size to the total if it is present.
LEMMA VisitKeeps ==
  ASSUME TypeOK, RefsOnce, ScanInv, MemoryVisit
  PROVE  ScanInv'
<1>1. /\ mpc = "scan" /\ mpos <= Len(object_refs) /\ mpos' = mpos + 1
      /\ UNCHANGED <<object_refs, present, mpc, changed>>
      /\ total' = IF object_refs[mpos] \in present
                  THEN (total + Size(object_refs[mpos])) % Word ELSE total
  BY DEF MemoryVisit
<1>2. object_refs \in Seq(Item) /\ mpos \in Nat \ {0} /\ Len(object_refs) \in Nat
  BY DEF TypeOK
<1>3. Visited \in SUBSET Item /\ IsFiniteSet(Visited) BY <1>1, VisitedItems DEF ScanInv, InScan
<1>4. object_refs[mpos] \in Item \ Visited
  <2>1. object_refs[mpos] \in Item BY <1>1, <1>2
  <2>2. \A i \in 1..(mpos - 1) : object_refs[i] # object_refs[mpos]
    BY <1>1, <1>2 DEF RefsOnce
  <2> QED BY <2>1, <2>2 DEF Visited
<1>5. Visited' = Visited \cup {object_refs[mpos]}
  <2>1. 1..(mpos' - 1) = (1..(mpos - 1)) \cup {mpos} BY <1>1, <1>2
  <2> QED BY <1>1, <2>1 DEF Visited
<1>6. PICK t \in Window(present \ changed, present \cup changed, Visited) : total = t % Word
  BY <1>1 DEF ScanInv, InScan
<1> SUFFICES ASSUME NEW x \in Item \ Visited, x = object_refs[mpos] PROVE ScanInv'
  BY <1>4
<1>7. /\ t \in Nat /\ Size(x) \in Nat
      /\ t + Counted(x, present)
           \in Window(present \ changed, present \cup changed, Visited \cup {x})
  BY <1>3, <1>6, WindowVisit
<1>8. total' = (t + Counted(x, present)) % Word
  <2>1. CASE x \in present
    <3>1. total' = ((t % Word) + Size(x)) % Word BY <1>1, <1>6, <2>1
    <3>2. ((t % Word) + Size(x)) % Word = (t + Size(x)) % Word BY <1>7, AddWrapped
    <3> QED BY <2>1, <3>1, <3>2 DEF Counted
  <2>2. CASE x \notin present
    <3>1. t + 0 = t BY <1>7
    <3> QED BY <1>1, <1>6, <2>2, <3>1 DEF Counted
  <2> QED BY <2>1, <2>2
<1>9. mpos' <= Len(object_refs') + 1 BY <1>1, <1>2
<1> QED BY <1>1, <1>5, <1>7, <1>8, <1>9 DEF ScanInv, InScan

\* Only the scan moves its own locals; the references are stable meanwhile.
LEMMA ScanStep ==
  ASSUME PagerInv, TypeOK, Positioned, RefsOnce, ScanInv, [Next]_vars
  PROVE  ScanInv'
<1>1. CASE UNCHANGED <<object_refs, present, mpc, mpos, total, changed>>
  BY <1>1 DEF ScanInv, InScan, Visited
<1>2. CASE InitDynamicPager
  <2>1. ~InScan /\ ~InScan' /\ UNCHANGED <<mpos, total, changed>>
    BY <1>2 DEF InitDynamicPager, PagerInv, Started, InScan
  <2> QED BY <2>1 DEF ScanInv
<1>3. ASSUME NEW b \in Builder, AllocateItem(b) PROVE ScanInv'
  <2>1. /\ NoteChange({<<b, built[b] + 1>>}) /\ present' = present \cup {<<b, built[b] + 1>>}
        /\ UNCHANGED <<object_refs, mpc, mpos, total>>
    BY <1>3 DEF AllocateItem, memory
  <2> QED BY <2>1, FlipKeeps
<1>4. ASSUME NEW b \in Builder, RegisterObject(b) PROVE ScanInv'
  <2>1. ~InScan /\ UNCHANGED <<mpc, mpos, total, changed>>
    BY <1>4, PagerConstantsOK DEF RegisterObject, PagerInv, MutexHeld, memory
  <2> QED BY <2>1 DEF ScanInv, InScan
<1>5. ASSUME NEW i \in Item, Evacuate(i) \/ Fetch(i) PROVE ScanInv'
  <2>1. /\ NoteChange({i}) /\ present' \ {i} = present \ {i}
        /\ UNCHANGED <<object_refs, mpc, mpos, total>>
    BY <1>5 DEF Evacuate, Fetch, memory
  <2> QED BY <2>1, FlipKeeps
<1>6. CASE PagerSwappedIn
  <2>1. /\ ~InScan /\ UNCHANGED <<mpc, mpos, total, changed>>
    BY <1>6 DEF PagerSwappedIn, PagerInv, MutexHeld, InPass, InScan, NoteChange, memory
  <2> QED BY <2>1 DEF ScanInv, InScan
<1>7. CASE MemoryTest
  <2>1. ~InScan /\ ~InScan' /\ UNCHANGED <<mpos, total, changed>>
    BY <1>7 DEF MemoryTest, InScan
  <2> QED BY <2>1 DEF ScanInv
<1>8. CASE MemoryLock BY <1>8, LockStarts
<1>9. CASE MemoryVisit BY <1>9, VisitKeeps
<1>10. CASE MemoryStore
  <2>1. ~InScan' /\ mpos' = 1 /\ total' = 0 /\ changed' = {}
    BY <1>10 DEF MemoryStore, InScan
  <2> QED BY <2>1 DEF ScanInv
<1> QED BY <1>1, <1>2, <1>3, <1>4, <1>5, <1>6, <1>7, <1>8, <1>9, <1>10
        DEF Next, StopDynamicPager, BuilderStep, BeginArray, EndArray, PagerStep, PagerOwnStep,
            PagerTest, PagerLock, PagerLeave, PagerSkip, PagerCallSwapIn, MemoryStep, vars,
            pager, memory, builders, flags

ReadingInv == PagerInv /\ TypeOK /\ Positioned /\ RefsOnce /\ ScanInv

LEMMA ReadingInvHolds == Spec => []ReadingInv
<1>1. Init => RefsOnce /\ ScanInv
  <2>1. Len(<<>>) = 0 OBVIOUS
  <2> QED BY <2>1 DEF Init, RefsOnce, ScanInv, InScan
<1>2. Init => ReadingInv BY <1>1, PagerInvInit, TypesInit DEF ReadingInv
<1>3. ReadingInv /\ [Next]_vars => ReadingInv'
  BY PagerInvKept, TypesKept, RefsOnceKept, ScanStep DEF ReadingInv
<1> QED BY <1>2, <1>3, PTL DEF Spec

\* What dynamic_memory stores counts every registered pointer that was present
\* throughout its scan and none that was absent throughout (dswap.cpp:91-100), whatever
\* the arrays and however often the unsigned counters wrap.
THEOREM ReadingsBracketed == Spec => ReadingBracketed
<1>1. ASSUME ReadingInv, MemoryStore
      PROVE  \E t \in SizeOf(present \ changed)..SizeOf(present \cup changed) :
                available_mem' = Difference(t % Word)
  <2>1. mpc = "scan" /\ mpos > Len(object_refs) /\ available_mem' = Difference(total)
    BY <1>1 DEF MemoryStore
  <2>2. /\ mpos <= Len(object_refs) + 1 /\ mpos \in Nat \ {0} /\ object_refs \in Seq(Item)
    BY <1>1, <2>1 DEF ReadingInv, ScanInv, InScan, TypeOK
  <2>3. Visited = Range(object_refs)
    <3>1. mpos - 1 = Len(object_refs) BY <2>1, <2>2
    <3>2. DOMAIN object_refs = 1..Len(object_refs) BY <2>2
    <3> QED BY <3>1, <3>2 DEF Visited, Range
  <2>4. PICK t \in Window(present \ changed, present \cup changed, Visited) : total = t % Word
    BY <1>1, <2>1 DEF ReadingInv, ScanInv, InScan
  <2>5. t \in SizeOf(present \ changed)..SizeOf(present \cup changed)
    BY <2>3, <2>4 DEF Window, SizeOf, Sizes
  <2> QED BY <2>1, <2>4, <2>5
<1>2. ReadingInv /\ [Next]_vars =>
        [MemoryStore => \E t \in SizeOf(present \ changed)..SizeOf(present \cup changed) :
                           available_mem' = Difference(t % Word)]_vars
  BY <1>1
<1> QED BY <1>2, ReadingInvHolds, PTL DEF Spec, ReadingBracketed
=============================================================================
