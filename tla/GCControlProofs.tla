--------------------------- MODULE GCControlProofs ---------------------------
(***************************************************************************)
(* What holds of the launching of collections for every number of          *)
(* mutators, GC threads and regions, and for all thresholds.  LaunchInv is *)
(* the inductive invariant: gc_master_active and gc_master_spawned_ are    *)
(* tokens, gc_lock_ covers the clearing and the signal, and regions are    *)
(* picked only by the master.                                              *)
(***************************************************************************)
EXTENDS GCControl, FiniteSetTheorems, TLAPS

\* What gc_cache does once it has won gc_master_active.
MasterPC == {"loop", "pick", "release", "clear", "signal", "cleanup", "inactive"}
GCPC == {"none", "enter", "cas"} \cup MasterPC
MutPC == {"idle", "retry", "check", "load", "cas", "wait", "asleep"}

TypesOK ==
  /\ almost_empty \in BOOLEAN /\ exited \in BOOLEAN
  /\ gc_master_active \in BOOLEAN /\ gc_master_spawned_ \in BOOLEAN
  /\ gc_lock_ \in GC \cup {NULL}
  /\ mut \in [Mutator -> MutPC]
  /\ gc \in [GC -> GCPC]

\* Every region is counted once.
Counted ==
  /\ free \in Nat /\ used \in Nat /\ from \in 0..MaxPick
  /\ open \subseteq Mutator
  /\ free + used + from + Cardinality(open) = NumRegions

\* Picked regions are left only while the master is releasing them.
PickedByMaster == from > 0 => \E g \in GC : gc[g] = "release"

\* gc_master_active is set as long as a thread is past its compare-and-swap, and
\* there is one such thread at most.
ActiveToken ==
  /\ \A g \in GC : gc[g] \in MasterPC => gc_master_active
  /\ \A g, h \in GC : gc[g] \in MasterPC /\ gc[h] \in MasterPC => g = h

\* gc_master_spawned_ is set as long as there is a thread that has not reset it,
\* and there is one such thread at most.
SpawnedToken ==
  /\ \A g \in GC : gc[g] \notin {"none", "inactive"} => gc_master_spawned_
  /\ \A g, h \in GC : gc[g] \notin {"none", "inactive"} /\ gc[h] \notin {"none", "inactive"}
                         => g = h

\* The master holds gc_lock_ from before the clearing until after the signal.
LockCovers == \A g \in GC : gc[g] \in {"clear", "signal"} <=> gc_lock_ = g

\* A sleeper has almost_empty set, or the signal that wakes it is on its way.
SleepersCovered ==
  \A m \in Mutator : mut[m] = "asleep" => almost_empty \/ \E g \in GC : gc[g] = "signal"

LaunchInv ==
  /\ TypesOK /\ Counted /\ PickedByMaster /\ ActiveToken /\ SpawnedToken
  /\ LockCovers /\ SleepersCovered

-----------------------------------------------------------------------------
(* LaunchInv is inductive.                                                  *)

LEMMA ConstantsTyped ==
  /\ IsFiniteSet(Mutator) /\ NumRegions \in Nat /\ MaxPick \in Nat \ {0}
  /\ NULL \notin GC /\ Cardinality(Mutator) <= NumRegions
BY ThresholdsOK

LEMMA InitInv == Init => LaunchInv
<1> SUFFICES ASSUME Init PROVE LaunchInv OBVIOUS
<1> USE DEF Init
<1>1. TypesOK BY DEF TypesOK, MutPC, GCPC
<1>2. Counted
  <2>1. Cardinality(Mutator) \in Nat BY ConstantsTyped, FS_CardinalityType
  <2> QED BY <2>1, ConstantsTyped DEF Counted
<1>3. PickedByMaster /\ ActiveToken /\ SpawnedToken
  BY DEF PickedByMaster, ActiveToken, SpawnedToken, MasterPC
<1>4. LockCovers /\ SleepersCovered
  BY ConstantsTyped DEF LockCovers, SleepersCovered
<1> QED BY <1>1, <1>2, <1>3, <1>4 DEF LaunchInv

\* A refill moves a region at a time, whether or not it finds a free one.
LEMMA RefillCounted ==
  ASSUME Counted, NEW m \in Mutator, Refill(m)
  PROVE  Counted'
<1>1. IsFiniteSet(open)
  BY ConstantsTyped, FS_Subset DEF Counted
<1>2. /\ Cardinality(open) \in Nat
      /\ Cardinality(open \cup {m}) = IF m \in open THEN Cardinality(open)
                                      ELSE Cardinality(open) + 1
      /\ Cardinality(open \ {m}) = IF m \in open THEN Cardinality(open) - 1
                                   ELSE Cardinality(open)
  BY <1>1, FS_CardinalityType, FS_AddElement, FS_RemoveElement
<1>3. CASE free > 0
  <2>1. /\ free' = free - 1 /\ open' = open \cup {m} /\ from' = from
        /\ used' = used + IF m \in open THEN 1 ELSE 0
    BY <1>3 DEF Refill
  <2>2. m \in open => used' = used + 1 /\ Cardinality(open') = Cardinality(open)
    BY <1>2, <2>1
  <2>3. m \notin open => used' = used /\ Cardinality(open') = Cardinality(open) + 1
    BY <1>2, <2>1 DEF Counted
  <2> QED BY <1>2, <1>3, <2>1, <2>2, <2>3, ConstantsTyped DEF Counted
<1>4. CASE ~(free > 0)
  <2>1. /\ free' = free /\ open' = open \ {m} /\ from' = from
        /\ used' = used + IF m \in open THEN 1 ELSE 0
    BY <1>4 DEF Refill
  <2>2. m \in open => used' = used + 1 /\ Cardinality(open') = Cardinality(open) - 1
    BY <1>2, <2>1
  <2>3. m \notin open => used' = used /\ Cardinality(open') = Cardinality(open)
    BY <1>2, <2>1 DEF Counted
  <2> QED BY <1>2, <1>4, <2>1, <2>2, <2>3, ConstantsTyped DEF Counted
<1> QED BY <1>3, <1>4

\* Mutators touch neither the GC threads, except to spawn one, nor gc_lock_.
LEMMA MutatorKeepsInv ==
  ASSUME LaunchInv, NEW m \in Mutator, MutatorStep(m)
  PROVE  LaunchInv'
<1> USE DEF LaunchInv
<1>1. CASE Refill(m)
  <2>1. TypesOK' BY <1>1 DEF Refill, Move, TypesOK, MutPC, flags
  <2>2. Counted' BY <1>1, RefillCounted
  <2>3. PickedByMaster' /\ ActiveToken' /\ SpawnedToken' /\ LockCovers'
    BY <1>1 DEF Refill, PickedByMaster, ActiveToken, SpawnedToken, LockCovers, flags
  <2>4. SleepersCovered'
    BY <1>1 DEF Refill, Move, SleepersCovered, TypesOK
  <2> QED BY <2>1, <2>2, <2>3, <2>4
<1>2. CASE Wait(m)
  <2>1. TypesOK' BY <1>2 DEF Wait, Move, TypesOK, MutPC, flags
  <2>2. Counted' /\ PickedByMaster' /\ ActiveToken' /\ SpawnedToken' /\ LockCovers'
    BY <1>2 DEF Wait, Counted, PickedByMaster, ActiveToken, SpawnedToken, LockCovers,
                flags, regions
  <2>3. SleepersCovered'
    BY <1>2 DEF Wait, Move, SleepersCovered, TypesOK
  <2> QED BY <2>1, <2>2, <2>3
<1>3. CASE GCCheck(m)
  <2>1. TypesOK' BY <1>3 DEF GCCheck, Move, TypesOK, MutPC, flags, Low, AlmostEmpty
  <2>2. Counted' /\ PickedByMaster' /\ ActiveToken' /\ SpawnedToken' /\ LockCovers'
    BY <1>3 DEF GCCheck, Counted, PickedByMaster, ActiveToken, SpawnedToken, LockCovers,
                flags, regions
  <2>3. SleepersCovered'
    BY <1>3 DEF GCCheck, Move, SleepersCovered, TypesOK
  <2> QED BY <2>1, <2>2, <2>3
<1>4. CASE LaunchLoad(m)
  <2>1. TypesOK' BY <1>4 DEF LaunchLoad, Move, TypesOK, MutPC, flags
  <2>2. Counted' /\ PickedByMaster' /\ ActiveToken' /\ SpawnedToken' /\ LockCovers'
    BY <1>4 DEF LaunchLoad, Counted, PickedByMaster, ActiveToken, SpawnedToken, LockCovers,
                flags, regions
  <2>3. SleepersCovered'
    BY <1>4 DEF LaunchLoad, Move, SleepersCovered, TypesOK
  <2> QED BY <2>1, <2>2, <2>3
<1>5. CASE LaunchCas(m) /\ gc_master_spawned_
  <2>1. TypesOK' BY <1>5 DEF LaunchCas, Move, TypesOK, MutPC
  <2>2. Counted' /\ PickedByMaster' /\ ActiveToken' /\ SpawnedToken' /\ LockCovers'
    BY <1>5 DEF LaunchCas, Counted, PickedByMaster, ActiveToken, SpawnedToken, LockCovers,
                regions
  <2>3. SleepersCovered'
    BY <1>5 DEF LaunchCas, Move, SleepersCovered, TypesOK
  <2> QED BY <2>1, <2>2, <2>3
<1>6. CASE LaunchCas(m) /\ ~gc_master_spawned_
  <2>1. PICK g \in GC : gc[g] = "none" /\ Go(g, "enter") /\ gc_master_spawned_' = TRUE
    BY <1>6 DEF LaunchCas
  <2>2. gc'[g] = "enter" /\ \A h \in GC \ {g} : gc'[h] = gc[h]
    BY <2>1 DEF Go, TypesOK
  <2>3. TypesOK' BY <1>6, <2>1 DEF LaunchCas, Move, Go, TypesOK, MutPC, GCPC
  <2>4. Counted' BY <1>6 DEF LaunchCas, Counted, regions
  <2>5. PickedByMaster' /\ ActiveToken' /\ LockCovers'
    BY <1>6, <2>1, <2>2 DEF LaunchCas, PickedByMaster, ActiveToken, LockCovers, regions, MasterPC
  <2>6. SpawnedToken'
    BY <1>6, <2>1, <2>2 DEF SpawnedToken
  <2>7. SleepersCovered'
    BY <1>6, <2>1, <2>2 DEF LaunchCas, Move, SleepersCovered, TypesOK
  <2> QED BY <2>3, <2>4, <2>5, <2>6, <2>7
<1> QED BY <1>1, <1>2, <1>3, <1>4, <1>5, <1>6 DEF MutatorStep

LEMMA GCKeepsInv ==
  ASSUME LaunchInv, NEW g \in GC, GCStep(g)
  PROVE  LaunchInv'
<1> USE DEF LaunchInv
<1>0. ASSUME NEW to \in GCPC, Go(g, to)
      PROVE  /\ gc' \in [GC -> GCPC] /\ gc'[g] = to
             /\ \A h \in GC \ {g} : gc'[h] = gc[h]
  BY <1>0 DEF Go, TypesOK
<1>1. CASE GCEnter(g)
  <2>1. PICK to \in {"cas", "none"} : Go(g, to) BY <1>1 DEF GCEnter
  <2>2. /\ gc[g] = "enter" /\ gc'[g] = to /\ gc' \in [GC -> GCPC]
        /\ \A h \in GC \ {g} : gc'[h] = gc[h]
    BY <1>0, <1>1, <2>1 DEF GCEnter, GCPC
  <2>3. TypesOK' BY <1>1, <2>2 DEF GCEnter, TypesOK, flags
  <2>4. Counted' BY <1>1 DEF GCEnter, Counted, regions
  <2>5. PickedByMaster' /\ ActiveToken' /\ SpawnedToken'
    BY <1>1, <2>2 DEF GCEnter, PickedByMaster, ActiveToken, SpawnedToken, MasterPC, regions, flags
  <2>6. LockCovers' /\ SleepersCovered'
    BY <1>1, <2>2 DEF GCEnter, LockCovers, SleepersCovered
  <2> QED BY <2>3, <2>4, <2>5, <2>6
<1>2. CASE GCCas(g) /\ gc_master_active
  <2>1. gc[g] = "cas" /\ Go(g, "none") /\ gc_master_active' BY <1>2 DEF GCCas
  <2>2. gc'[g] = "none" /\ gc' \in [GC -> GCPC] /\ \A h \in GC \ {g} : gc'[h] = gc[h]
    BY <1>0, <2>1 DEF GCPC
  <2>3. TypesOK' BY <1>2, <2>2 DEF GCCas, TypesOK
  <2>4. Counted' BY <1>2 DEF GCCas, Counted, regions
  <2>5. PickedByMaster' /\ ActiveToken' /\ SpawnedToken'
    BY <1>2, <2>1, <2>2 DEF GCCas, PickedByMaster, ActiveToken, SpawnedToken, MasterPC, regions
  <2>6. LockCovers' /\ SleepersCovered'
    BY <1>2, <2>1, <2>2 DEF GCCas, LockCovers, SleepersCovered
  <2> QED BY <2>3, <2>4, <2>5, <2>6
<1>3. CASE GCCas(g) /\ ~gc_master_active
  <2>1. gc[g] = "cas" /\ Go(g, "loop") /\ gc_master_active' BY <1>3 DEF GCCas
  <2>2. gc'[g] = "loop" /\ gc' \in [GC -> GCPC] /\ \A h \in GC \ {g} : gc'[h] = gc[h]
    BY <1>0, <2>1 DEF GCPC, MasterPC
  <2>3. TypesOK' BY <1>3, <2>2 DEF GCCas, TypesOK
  <2>4. Counted' BY <1>3 DEF GCCas, Counted, regions
  <2>5. ActiveToken'
    BY <1>3, <2>1, <2>2 DEF ActiveToken
  <2>6. PickedByMaster' /\ SpawnedToken'
    BY <1>3, <2>1, <2>2 DEF GCCas, PickedByMaster, SpawnedToken, regions
  <2>7. LockCovers' /\ SleepersCovered'
    BY <1>3, <2>1, <2>2 DEF GCCas, LockCovers, SleepersCovered
  <2> QED BY <2>3, <2>4, <2>5, <2>6, <2>7
<1>4. CASE GCLoop(g)
  <2>1. PICK to \in {"cleanup", "pick"} : Go(g, to) BY <1>4 DEF GCLoop
  <2>2. /\ gc[g] = "loop" /\ gc'[g] = to /\ gc' \in [GC -> GCPC]
        /\ \A h \in GC \ {g} : gc'[h] = gc[h]
    BY <1>0, <1>4, <2>1 DEF GCLoop, GCPC, MasterPC
  <2>3. TypesOK' BY <1>4, <2>2 DEF GCLoop, TypesOK, flags
  <2>4. Counted' BY <1>4 DEF GCLoop, Counted, regions
  <2>5. PickedByMaster' /\ ActiveToken' /\ SpawnedToken'
    BY <1>4, <2>2 DEF GCLoop, PickedByMaster, ActiveToken, SpawnedToken, MasterPC, regions, flags
  <2>6. LockCovers' /\ SleepersCovered'
    BY <1>4, <2>2 DEF GCLoop, LockCovers, SleepersCovered
  <2> QED BY <2>3, <2>4, <2>5, <2>6
<1>5. CASE GCPick(g) /\ used = 0
  <2>1. gc[g] = "pick" /\ Go(g, "loop") /\ UNCHANGED <<used, from>> BY <1>5 DEF GCPick
  <2>2. gc'[g] = "loop" /\ gc' \in [GC -> GCPC] /\ \A h \in GC \ {g} : gc'[h] = gc[h]
    BY <1>0, <2>1 DEF GCPC, MasterPC
  <2>3. TypesOK' BY <1>5, <2>2 DEF GCPick, TypesOK, flags
  <2>4. Counted' BY <1>5, <2>1 DEF GCPick, Counted
  <2>5. PickedByMaster' /\ ActiveToken' /\ SpawnedToken'
    BY <1>5, <2>1, <2>2 DEF GCPick, PickedByMaster, ActiveToken, SpawnedToken, MasterPC, flags
  <2>6. LockCovers' /\ SleepersCovered'
    BY <1>5, <2>1, <2>2 DEF GCPick, LockCovers, SleepersCovered
  <2> QED BY <2>3, <2>4, <2>5, <2>6
<1>6. CASE GCPick(g) /\ used # 0
  <2>1. PICK n \in 1..MaxPick : n <= used /\ from' = n /\ used' = used - n
    BY <1>6 DEF GCPick
  <2>2. gc[g] = "pick" /\ Go(g, "release") /\ UNCHANGED <<free, open>> BY <1>6 DEF GCPick
  <2>3. gc'[g] = "release" /\ gc' \in [GC -> GCPC] /\ \A h \in GC \ {g} : gc'[h] = gc[h]
    BY <1>0, <2>2 DEF GCPC, MasterPC
  <2>4. from = 0
    <3>1. ~\E h \in GC : gc[h] = "release"
      BY <2>2 DEF ActiveToken, MasterPC
    <3> QED BY <3>1 DEF PickedByMaster, Counted
  <2>5. Counted'
    <3>1. IsFiniteSet(open) BY ConstantsTyped, FS_Subset DEF Counted
    <3>2. Cardinality(open) \in Nat BY <3>1, FS_CardinalityType
    <3> QED BY <2>1, <2>2, <2>4, <3>2, ConstantsTyped DEF Counted
  <2>6. TypesOK' BY <1>6, <2>3 DEF GCPick, TypesOK, flags
  <2>7. PickedByMaster' /\ ActiveToken' /\ SpawnedToken'
    BY <1>6, <2>2, <2>3 DEF GCPick, PickedByMaster, ActiveToken, SpawnedToken, MasterPC, flags
  <2>8. LockCovers' /\ SleepersCovered'
    BY <1>6, <2>2, <2>3 DEF GCPick, LockCovers, SleepersCovered
  <2> QED BY <2>5, <2>6, <2>7, <2>8
<1>7. CASE GCRelease(g)
  <2>1. Counted'
    <3>1. IsFiniteSet(open) BY ConstantsTyped, FS_Subset DEF Counted
    <3>2. Cardinality(open) \in Nat BY <3>1, FS_CardinalityType
    <3> QED BY <1>7, <3>2, ConstantsTyped DEF GCRelease, Counted
  <2>2. TypesOK' /\ ActiveToken' /\ SpawnedToken' /\ LockCovers' /\ SleepersCovered'
    BY <1>7 DEF GCRelease, TypesOK, ActiveToken, SpawnedToken, LockCovers, SleepersCovered, flags
  <2>3. PickedByMaster' BY <1>7 DEF GCRelease, PickedByMaster
  <2> QED BY <2>1, <2>2, <2>3
<1>8. CASE GCReleased(g) /\ AlmostEmpty
  <2>1. gc[g] = "release" /\ from = 0 /\ Go(g, "loop") /\ UNCHANGED gc_lock_
    BY <1>8 DEF GCReleased
  <2>2. gc'[g] = "loop" /\ gc' \in [GC -> GCPC] /\ \A h \in GC \ {g} : gc'[h] = gc[h]
    BY <1>0, <2>1 DEF GCPC, MasterPC
  <2>3. TypesOK' BY <1>8, <2>1, <2>2 DEF GCReleased, TypesOK, flags
  <2>4. Counted' BY <1>8 DEF GCReleased, Counted, regions
  <2>5. PickedByMaster' /\ ActiveToken' /\ SpawnedToken'
    BY <1>8, <2>1, <2>2 DEF GCReleased, PickedByMaster, ActiveToken, SpawnedToken, MasterPC,
                            regions, flags
  <2>6. LockCovers' /\ SleepersCovered'
    BY <1>8, <2>1, <2>2 DEF GCReleased, LockCovers, SleepersCovered
  <2> QED BY <2>3, <2>4, <2>5, <2>6
<1>9. CASE GCReleased(g) /\ ~AlmostEmpty
  <2>1. /\ gc[g] = "release" /\ from = 0 /\ Go(g, "clear") /\ gc_lock_' = g
        /\ gc_lock_ = NULL
    BY <1>9 DEF GCReleased
  <2>2. gc'[g] = "clear" /\ gc' \in [GC -> GCPC] /\ \A h \in GC \ {g} : gc'[h] = gc[h]
    BY <1>0, <2>1 DEF GCPC, MasterPC
  <2>3. TypesOK' BY <1>9, <2>1, <2>2 DEF GCReleased, TypesOK, flags
  <2>4. Counted' BY <1>9 DEF GCReleased, Counted, regions
  <2>5. PickedByMaster' /\ ActiveToken' /\ SpawnedToken'
    BY <1>9, <2>1, <2>2 DEF GCReleased, PickedByMaster, ActiveToken, SpawnedToken, MasterPC,
                            regions, flags
  <2>6. LockCovers'
    BY <2>1, <2>2, ConstantsTyped DEF LockCovers
  <2>7. SleepersCovered'
    BY <1>9, <2>1, <2>2 DEF GCReleased, SleepersCovered
  <2> QED BY <2>3, <2>4, <2>5, <2>6, <2>7
<1>10. CASE GCClear(g)
  <2>1. gc[g] = "clear" /\ Go(g, "signal") BY <1>10 DEF GCClear
  <2>2. gc'[g] = "signal" /\ gc' \in [GC -> GCPC] /\ \A h \in GC \ {g} : gc'[h] = gc[h]
    BY <1>0, <2>1 DEF GCPC, MasterPC
  <2>3. TypesOK' BY <1>10, <2>2 DEF GCClear, TypesOK, flags
  <2>4. Counted' BY <1>10 DEF GCClear, Counted, regions
  <2>5. PickedByMaster' /\ ActiveToken' /\ SpawnedToken'
    BY <1>10, <2>1, <2>2 DEF GCClear, PickedByMaster, ActiveToken, SpawnedToken, MasterPC,
                             regions, flags
  <2>6. LockCovers' /\ SleepersCovered'
    BY <1>10, <2>1, <2>2 DEF GCClear, LockCovers, SleepersCovered
  <2> QED BY <2>3, <2>4, <2>5, <2>6
<1>11. CASE GCSignal(g)
  <2>1. gc[g] = "signal" /\ Go(g, "loop") /\ gc_lock_' = NULL BY <1>11 DEF GCSignal
  <2>2. gc'[g] = "loop" /\ gc' \in [GC -> GCPC] /\ \A h \in GC \ {g} : gc'[h] = gc[h]
    BY <1>0, <2>1 DEF GCPC, MasterPC
  <2>3. TypesOK' BY <1>11, <2>1, <2>2 DEF GCSignal, TypesOK, flags, MutPC
  <2>4. Counted' BY <1>11 DEF GCSignal, Counted, regions
  <2>5. PickedByMaster' /\ ActiveToken' /\ SpawnedToken'
    BY <1>11, <2>1, <2>2 DEF GCSignal, PickedByMaster, ActiveToken, SpawnedToken, MasterPC,
                             regions, flags
  <2>6. LockCovers'
    BY <2>1, <2>2, ConstantsTyped DEF LockCovers
  <2>7. SleepersCovered' BY <1>11 DEF GCSignal, SleepersCovered
  <2> QED BY <2>3, <2>4, <2>5, <2>6, <2>7
<1>12. CASE GCCleanup(g)
  <2>1. gc[g] = "cleanup" /\ Go(g, "inactive") /\ gc_master_spawned_' = FALSE
    BY <1>12 DEF GCCleanup
  <2>2. gc'[g] = "inactive" /\ gc' \in [GC -> GCPC] /\ \A h \in GC \ {g} : gc'[h] = gc[h]
    BY <1>0, <2>1 DEF GCPC, MasterPC
  <2>3. TypesOK' BY <1>12, <2>2 DEF GCCleanup, TypesOK
  <2>4. Counted' BY <1>12 DEF GCCleanup, Counted, regions
  <2>5. PickedByMaster' /\ ActiveToken'
    BY <1>12, <2>1, <2>2 DEF GCCleanup, PickedByMaster, ActiveToken, MasterPC, regions
  <2>6. SpawnedToken' BY <2>1, <2>2 DEF SpawnedToken
  <2>7. LockCovers' /\ SleepersCovered'
    BY <1>12, <2>1, <2>2 DEF GCCleanup, LockCovers, SleepersCovered
  <2> QED BY <2>3, <2>4, <2>5, <2>6, <2>7
<1>13. CASE GCInactive(g)
  <2>1. gc[g] = "inactive" /\ Go(g, "none") /\ gc_master_active' = FALSE
    BY <1>13 DEF GCInactive
  <2>2. gc'[g] = "none" /\ gc' \in [GC -> GCPC] /\ \A h \in GC \ {g} : gc'[h] = gc[h]
    BY <1>0, <2>1 DEF GCPC
  <2>3. TypesOK' BY <1>13, <2>2 DEF GCInactive, TypesOK
  <2>4. Counted' BY <1>13 DEF GCInactive, Counted, regions
  <2>5. ActiveToken' BY <2>1, <2>2 DEF ActiveToken, MasterPC
  <2>6. PickedByMaster' /\ SpawnedToken'
    BY <1>13, <2>1, <2>2 DEF GCInactive, PickedByMaster, SpawnedToken, regions
  <2>7. LockCovers' /\ SleepersCovered'
    BY <1>13, <2>1, <2>2 DEF GCInactive, LockCovers, SleepersCovered
  <2> QED BY <2>3, <2>4, <2>5, <2>6, <2>7
<1> QED BY <1>1, <1>2, <1>3, <1>4, <1>5, <1>6, <1>7, <1>8, <1>9, <1>10, <1>11, <1>12, <1>13
        DEF GCStep

LEMMA AtMostOne ==
  ASSUME NEW S, \A x, y \in S : x = y
  PROVE  IsFiniteSet(S) /\ Cardinality(S) \in 0..1
<1>1. CASE S = {}
  BY <1>1, FS_EmptySet
<1>2. CASE S # {}
  <2>1. PICK x \in S : TRUE BY <1>2
  <2>2. S = {x} BY <2>1
  <2> QED BY <2>2, FS_Singleton
<1> QED BY <1>1, <1>2

LEMMA AtMostTwo ==
  ASSUME NEW S, NEW T, \A x, y \in S : x = y, \A x, y \in T : x = y
  PROVE  Cardinality(S \cup T) <= 2
<1>1. IsFiniteSet(S) /\ Cardinality(S) \in 0..1 BY AtMostOne
<1>2. IsFiniteSet(T) /\ Cardinality(T) \in 0..1 BY AtMostOne
<1>3. CASE S = {} \/ T = {}
  <2>1. S \cup T = S \/ S \cup T = T BY <1>3
  <2> QED BY <1>1, <1>2, <2>1
<1>4. CASE S # {} /\ T # {}
  <2>1. PICK y \in T : TRUE BY <1>4
  <2>2. S \cup T = S \cup {y} BY <2>1
  <2>3. Cardinality(S \cup {y}) \in {Cardinality(S), Cardinality(S) + 1}
    BY <1>1, FS_AddElement
  <2> QED BY <1>1, <2>2, <2>3
<1> QED BY <1>3, <1>4

LEMMA LaunchInvHolds == Spec => []LaunchInv
<1>1. LaunchInv /\ [Next]_vars => LaunchInv'
  <2> SUFFICES ASSUME LaunchInv, [Next]_vars PROVE LaunchInv' OBVIOUS
  <2>1. CASE UNCHANGED vars
    BY <2>1 DEF vars, regions, flags, LaunchInv, TypesOK, Counted, PickedByMaster, ActiveToken,
                SpawnedToken, LockCovers, SleepersCovered
  <2> QED BY <2>1, MutatorKeepsInv, GCKeepsInv DEF Next
<1> QED BY <1>1, InitInv, PTL DEF Spec

-----------------------------------------------------------------------------
\* Every step of an allocation, of a launch and of a round keeps the counts: the
\* refill, the picking and push_cache_free_region lose no region, whatever the
\* thresholds and however many threads there are.
THEOREM TypesAndCountsHold == Spec => []TypeOK
<1>1. LaunchInv => TypeOK
  BY DEF LaunchInv, TypesOK, Counted, TypeOK, MutPC, GCPC, MasterPC
<1> QED BY <1>1, LaunchInvHolds, PTL

\* The compare-and-swap of gc_master_active lets one thread at a time into the
\* loop of gc_cache, however many are spawned.
THEOREM AtMostOneMaster == Spec => []OneMaster
<1>1. LaunchInv => OneMaster
  <2> SUFFICES ASSUME LaunchInv PROVE OneMaster OBVIOUS
  <2>1. \A g \in Master : gc[g] \in MasterPC
    BY DEF Master, LaunchInv, TypesOK, GCPC
  <2>2. \A g, h \in Master : g = h
    BY <2>1 DEF Master, LaunchInv, ActiveToken
  <2> QED BY <2>2, AtMostOne DEF OneMaster
<1> QED BY <1>1, LaunchInvHolds, PTL

\* gc_master_spawned_ keeps the threads in gc_cache to two: the one that has just
\* reset the flag, and one launched after that.
THEOREM AtMostTwoSpawned == Spec => []FewSpawned
<1>1. LaunchInv => FewSpawned
  <2> SUFFICES ASSUME LaunchInv PROVE FewSpawned OBVIOUS
  <2> DEFINE Last == {g \in GC : gc[g] = "inactive"}
             Rest == {g \in GC : gc[g] \notin {"none", "inactive"}}
  <2>1. \A g, h \in Last : g = h BY DEF LaunchInv, ActiveToken, MasterPC
  <2>2. \A g, h \in Rest : g = h BY DEF LaunchInv, SpawnedToken
  <2>3. Alive = Last \cup Rest BY DEF Alive
  <2> QED BY <2>1, <2>2, <2>3, AtMostTwo DEF FewSpawned
<1> QED BY <1>1, LaunchInvHolds, PTL

\* SignalAll under gc_lock_ misses nobody: a thread is asleep with the lock free
\* only while almost_empty is set, so that the next round will wake it.
THEOREM WakeupsNotLost == Spec => []NoLostWakeup
<1>1. LaunchInv => NoLostWakeup
  <2> SUFFICES ASSUME LaunchInv, gc_lock_ = NULL, NEW m \in Mutator, mut[m] = "asleep"
               PROVE  almost_empty
    BY DEF NoLostWakeup
  <2>1. ~\E g \in GC : gc[g] = "signal"
    BY ConstantsTyped DEF LaunchInv, LockCovers
  <2> QED BY <2>1 DEF LaunchInv, SleepersCovered
<1> QED BY <1>1, LaunchInvHolds, PTL
==============================================================================
