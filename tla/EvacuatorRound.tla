--------------------------- MODULE EvacuatorRound ---------------------------
(***************************************************************************)
(* The steps that change an object in place, and the round of the GC       *)
(* master; then what follows of all the steps together.                    *)
(***************************************************************************)
EXTENDS EvacuatorContents

\* A dereference sets the hot bit, and the dirty bit if it is for writing.
LEMMA DerefKeeps ==
  ASSUME CacheInv, TypeInv, TypeInv', NEW m \in Mutator, DerefPresent(m)
  PROVE  CacheInv'
<1> USE ThreadKinds DEF gcVars, poolVars
<1>0. /\ m \in Thread /\ m \in Swapper /\ m \in Scoped /\ m \notin Slave /\ LocalInv(m)
      /\ SwapInOK(m) /\ ThreadOK(m)
  BY DEF CacheInv, ThreadsInv, LocalInv, TypeInv, RestOK, LocalsOK
<1> SUFFICES ASSUME NEW p \in Ptr, p = loc[m].ptr PROVE CacheInv'
  <2>1. loc[m].pc = "deref" BY DEF DerefPresent
  <2> QED BY <1>0, <2>1 DEF ThreadOK
<1>1. /\ loc[m].pc = "deref" /\ IsPresent(p) /\ ~meta[p].evac
      /\ UNCHANGED <<hdr, data, far, oid, from, gc, todo, expected_status, status, fill, pins, lock>>
  BY DEF DerefPresent, IsEvacuation
<1> SUFFICES ASSUME NEW a \in Addr, a = meta[p].addr PROVE CacheInv'
  BY <1>1, PresentFacts
<1>2. Becomes(m, "access", p, loc[m].id, a, loc[m].src, loc[m].flag, loc[m].after)
  <2>1. loc' = [loc EXCEPT ![m].addr = a, ![m].pc = "access"] BY DEF DerefPresent
  <2> QED BY <1>0, <2>1 DEF Becomes, TypeInv, RestOK, LocalsOK, Local
<1>3. /\ \A q \in Ptr \ {p} : meta'[q] = meta[q]
      /\ \A q \in Ptr : /\ meta'[q].kind = meta[q].kind /\ meta'[q].evac = meta[q].evac
                        /\ meta'[q].addr = meta[q].addr /\ meta'[q].id = meta[q].id
                        /\ meta[q].dirty = TRUE => meta'[q].dirty = TRUE
      /\ loc[m].flag => meta'[p].dirty = TRUE
  <2>1. meta' = [meta EXCEPT ![p].hot = TRUE, ![p].dirty = @ \/ loc[m].flag]
    BY DEF DerefPresent
  <2> QED BY <2>1 DEF TypeInv, RestOK, MemoryOK, Meta
<1>4. \A x : Scanned(x)' <=> Scanned(x) BY <1>0, <1>2, ScannedKept DEF Becomes
<1>5. ASSUME NEW x \in Addr PROVE HeaderOK(x)' /\ LedTo(x)'
  <2>1. HeaderOK(x) /\ LedTo(x) BY DEF CacheInv, MemoryInv
  <2>2. hdr[x].ptr # NULL => hdr[x].ptr \in Ptr BY DEF TypeInv, RestOK, MemoryOK, Header
  <2>3. HeaderOK(x)' BY <1>1, <1>3, <2>1, <2>2 DEF HeaderOK, IsNull
  <2>4. LedTo(x)'
    BY <1>1, <1>2, <1>3, <1>4, <2>1, <2>2 DEF LedTo, IsPresent, Becomes
  <2> QED BY <2>3, <2>4
<1>6. ASSUME NEW q \in Ptr PROVE PointerOK(q)' /\ Marked(q)' /\ Evacuated(q)'
  <2>1. PointerOK(q) /\ Marked(q) /\ Evacuated(q) BY DEF CacheInv, MemoryInv
  <2> QED BY <1>1, <1>3, <1>4, <2>1 DEF PointerOK, Marked, Evacuated, IsPresent, IsDirty
<1>7. RoundOK' BY <1>1 DEF CacheInv, RoundOK, OtherFlag
<1>8. LocalInv(m)'
  <2>1. KindOK(m)' /\ LockOK(m)' /\ SlotOK(m)'
    BY <1>0, <1>2 DEF KindOK, LockOK, SlotOK, Becomes, Holds, Heading, Pinning, Unbuilt, Allocating,
       SlavePC, SwapOutPC
  <2>2. status'[m] # "out" BY <1>0, <1>1 DEF SwapInOK, Inside, Heading, Allocating
  <2>3. IsPresent(p)' /\ ~IsNull(p)' BY <1>1, <1>3 DEF IsPresent, IsNull
  <2>4. SwapInOK(m)'
    BY <1>2, <2>2, <2>3 DEF SwapInOK, Becomes, Inside, Heading, Allocating, Fetching, IsNull
  <2>5. /\ \A n \in {"build", "copy", "re_init"} : ~Heading(m, n)'
        /\ HandleOf(m)' = a /\ loc'[m].pc = "access" /\ loc'[m].flag = loc[m].flag /\ loc'[m].ptr = p
    BY <1>2 DEF Becomes, Heading, Allocating, HandleOf
  <2>6. Safe(m, a)
    <3>1. Marked(p) /\ RoundOK BY DEF CacheInv, MemoryInv
    <3> QED BY <1>1, <3>1 DEF Marked, Safe, RoundOK, TypeInv, RestOK, ControlOK
  <2>7. Safe(m, a)' BY <1>1, <2>6 DEF Safe, OtherFlag
  <2>8. hdr[a].ptr = p BY <1>1, PresentFacts
  <2>9. MutatorOK(m)'
    BY <1>1, <1>3, <2>3, <2>5, <2>7, <2>8 DEF MutatorOK, IsDirty
  <2> QED BY <1>0, <2>1, <2>4, <2>9 DEF LocalInv
<1>9. ASSUME NEW u \in Thread \ {m} PROVE LocalInv(u)'
  <2>1. /\ LocalInv(u) /\ ThreadOK(u) /\ SlotOK(u) /\ LockOK(u) /\ (u \in Swapper => SwapInOK(u))
        /\ (u \in Mutator => MutatorOK(u)) /\ (u \in Slave => SlaveOK(u))
    BY DEF CacheInv, ThreadsInv, LocalInv, TypeInv, RestOK, LocalsOK
  <2>2. loc'[u] = loc[u] BY <1>2 DEF Becomes
  <2>3. u \in Slave /\ loc[u].pc \in SwapOutPC => hdr[loc[u].src].ptr \in Ptr \ {p}
    <3>1. SUFFICES ASSUME u \in Slave, loc[u].pc \in SwapOutPC, loc[u].ptr = p PROVE FALSE
      BY SwapOutFacts
    <3>2. gc = "writeback" /\ RegionOf(a) \in from BY <3>1, SwapOutFacts
    <3>3. Marked(p) BY DEF CacheInv, MemoryInv
    <3> QED BY <1>1, <3>2, <3>3 DEF Marked
  <2>4. u \in Mutator /\ HasHandle(u) =>
          loc[u].ptr \in Ptr /\ data[HandleOf(u)] = data[meta[loc[u].ptr].addr]
    BY <2>1 DEF MutatorOK, ThreadOK, HasHandle, Heading, Allocating
  <2>5. loc[u].pc \in Unbuilt => hdr'[loc[u].addr].ptr = NULL BY <1>1, <2>1 DEF SlotOK
  <2>6. u \in Swapper /\ loc[u].pc = "si_present" => data[loc[u].addr] = far[oid[loc[u].ptr]]
    BY <2>1 DEF SwapInOK
  <2>7. Holds(u) => lock'[loc[u].id] = u BY <1>1, <2>1 DEF LockOK
  <2>8. \A r \in Region : fill'[r] >= fill[r] BY <1>1 DEF TypeInv, PoolInv, PoolTypeOK
  <2> QED BY <1>1, <1>3, <2>1, <2>2, <2>3, <2>4, <2>5, <2>6, <2>7, <2>8, BystanderFramed
<1>10. \A u \in Thread \ {m} : Apart(m, u)'
  BY <1>0, <1>1, <1>2, ApartKept DEF Becomes, Heading, Allocating, Unbuilt, Inside
<1>11. ThreadsInv' BY <1>0, <1>2, <1>8, <1>9, <1>10, ThreadsTogether DEF Becomes
<1> QED BY <1>5, <1>6, <1>7, <1>11 DEF CacheInv, MemoryInv

\* A store goes to the object its pointer leads to, which is dirty and nobody else's.
LEMMA StoreKeeps ==
  ASSUME CacheInv, TypeInv, TypeInv', NEW m \in Mutator, NEW v, Store(m, v)
  PROVE  CacheInv'
<1> USE ThreadKinds DEF gcVars, poolVars
<1>0. /\ m \in Thread /\ m \in Swapper /\ m \in Scoped /\ m \notin Slave /\ LocalInv(m)
      /\ MutatorOK(m) /\ ThreadOK(m)
  BY DEF CacheInv, ThreadsInv, LocalInv, TypeInv, RestOK, LocalsOK
<1> SUFFICES ASSUME NEW p \in Ptr, p = loc[m].ptr, NEW a \in Addr, a = loc[m].addr PROVE CacheInv'
  <2>1. loc[m].pc = "access" BY DEF Store
  <2> QED BY <1>0, <2>1 DEF ThreadOK
<1>1. /\ loc[m].pc = "access" /\ loc[m].flag
      /\ UNCHANGED <<meta, hdr, far, oid, from, gc, todo, expected_status, status, fill, pins, lock, loc>>
  BY DEF Store
<1>2. HasHandle(m) /\ HandleOf(m) = a /\ Inside(m)
  BY <1>1 DEF HasHandle, HandleOf, Inside, Heading, Allocating
<1>3. /\ IsPresent(p) /\ hdr[a].ptr = p /\ IsDirty(p) /\ meta[p].addr = a /\ p # NULL
  BY <1>0, <1>1, <1>2, PresentFacts DEF MutatorOK
<1>4. \A x \in Addr \ {a} : data'[x] = data[x]
  <2>1. data' = [data EXCEPT ![a] = v] BY DEF Store
  <2> QED BY <2>1 DEF TypeInv, RestOK, MemoryOK
<1>5. \A x : Scanned(x)' <=> Scanned(x) BY <1>1 DEF Scanned
<1>6. ASSUME NEW x \in Addr PROVE HeaderOK(x)' /\ LedTo(x)'
  <2>1. HeaderOK(x) /\ LedTo(x) BY DEF CacheInv, MemoryInv
  <2> QED BY <1>1, <1>5, <2>1 DEF HeaderOK, LedTo, IsNull, IsPresent
<1>7. ASSUME NEW q \in Ptr PROVE PointerOK(q)' /\ Marked(q)' /\ Evacuated(q)'
  <2>1. PointerOK(q) /\ Marked(q) /\ Evacuated(q) BY DEF CacheInv, MemoryInv
  <2>2. IsPresent(q) /\ q # p => meta[q].addr \in Addr \ {a} BY <1>3, PresentFacts
  <2>3. PointerOK(q)'
    BY <1>1, <1>3, <1>4, <2>1, <2>2 DEF PointerOK, IsPresent, IsDirty
  <2> QED BY <1>1, <1>5, <2>1, <2>3 DEF Marked, Evacuated, IsPresent
<1>8. RoundOK' BY <1>1 DEF CacheInv, RoundOK, OtherFlag
<1>9. ASSUME NEW u \in Thread PROVE LocalInv(u)'
  <2>1. /\ LocalInv(u) /\ ThreadOK(u) /\ SlotOK(u) /\ LockOK(u) /\ (u \in Swapper => SwapInOK(u))
        /\ (u \in Mutator => MutatorOK(u)) /\ (u \in Slave => SlaveOK(u))
    BY DEF CacheInv, ThreadsInv, LocalInv, TypeInv, RestOK, LocalsOK
  <2>2. u \in Slave /\ loc[u].pc \in SwapOutPC => data'[loc[u].src] = data[loc[u].src]
    <3>1. SUFFICES ASSUME u \in Slave, loc[u].pc \in SwapOutPC PROVE loc[u].src \in Addr \ {a}
      BY <1>4
    <3>2. loc[u].src \in Addr /\ hdr[loc[u].src].ptr = loc[u].ptr /\ loc[u].ptr # p
      BY <1>2, <3>1, SwapOutFacts
    <3> QED BY <1>3, <3>2
  <2>3. u \in Mutator /\ HasHandle(u) => data'[HandleOf(u)] = data'[meta[loc[u].ptr].addr]
    <3>1. CASE u = m BY <1>2, <1>3, <3>1
    <3>2. ASSUME u \in Mutator, HasHandle(u), u # m
          PROVE  data'[HandleOf(u)] = data'[meta[loc[u].ptr].addr]
      <4>1. loc[u].ptr \in Ptr /\ HandleOf(u) \in Addr /\ Inside(u)
        BY <2>1, <3>2 DEF HasHandle, HandleOf, ThreadOK, Heading, Allocating, Inside
      <4>2. Apart(m, u) BY <1>0, <3>2 DEF CacheInv, ThreadsInv
      <4>3. loc[u].ptr # p BY <1>1, <1>2, <3>2, <4>1, <4>2 DEF Apart
      <4>4. IsPresent(loc[u].ptr) /\ hdr[HandleOf(u)].ptr = loc[u].ptr
            /\ data[HandleOf(u)] = data[meta[loc[u].ptr].addr]
        BY <2>1, <3>2 DEF MutatorOK
      <4>5. meta[loc[u].ptr].addr \in Addr /\ hdr[meta[loc[u].ptr].addr].ptr = loc[u].ptr
        BY <4>1, <4>4, PresentFacts
      <4> QED BY <1>3, <1>4, <4>1, <4>3, <4>4, <4>5
    <3> QED BY <3>1, <3>2
  <2>4. loc[u].pc \in Unbuilt => hdr'[loc[u].addr].ptr = NULL BY <1>1, <2>1 DEF SlotOK
  <2>5. u \in Swapper /\ loc[u].pc = "si_present" => data'[loc[u].addr] = far[oid[loc[u].ptr]]
    <3>1. SUFFICES ASSUME u \in Swapper, loc[u].pc = "si_present"
                   PROVE  loc[u].addr \in Addr \ {a} /\ data[loc[u].addr] = far[oid[loc[u].ptr]]
      BY <1>4
    <3>2. loc[u].addr \in Addr /\ Fetching(u) BY <2>1, <3>1 DEF ThreadOK, Fetching
    <3>3. hdr[loc[u].addr].ptr = loc[u].ptr /\ ~IsPresent(loc[u].ptr)
      BY <2>1, <3>1, <3>2 DEF SwapInOK, NewObject
    <3> QED BY <1>3, <2>1, <3>1, <3>2, <3>3 DEF SwapInOK
  <2>6. Holds(u) => lock'[loc[u].id] = u BY <1>1, <2>1 DEF LockOK
  <2>7. \A r \in Region : fill'[r] >= fill[r] BY <1>1 DEF TypeInv, PoolInv, PoolTypeOK
  <2> QED BY <1>1, <2>1, <2>2, <2>3, <2>4, <2>5, <2>6, <2>7, BystanderFramed
<1>10. \A u \in Thread \ {m} : Apart(m, u)'
  BY <1>0, <1>1 DEF CacheInv, ThreadsInv, Apart, Heading, Inside
<1>11. ThreadsInv' BY <1>0, <1>1, <1>9, <1>10, ThreadsTogether
<1> QED BY <1>6, <1>7, <1>8, <1>11 DEF CacheInv, MemoryInv

\* The object that was replaced is freed; its successor is where the pointer leads.
LEMMA FreeKeeps ==
  ASSUME CacheInv, TypeInv, TypeInv', NEW m \in Mutator, ReallocateFree(m)
  PROVE  CacheInv'
<1> USE ThreadKinds DEF gcVars
<1>0. /\ m \in Thread /\ m \in Swapper /\ m \in Scoped /\ m \notin Slave /\ LocalInv(m)
      /\ MutatorOK(m) /\ ThreadOK(m) /\ SwapInOK(m)
  BY DEF CacheInv, ThreadsInv, LocalInv, TypeInv, RestOK, LocalsOK
<1>1. /\ loc[m].pc = "re_free" /\ DropPin(m)
      /\ UNCHANGED <<meta, data, far, oid, from, gc, todo, expected_status, status, fill, lock>>
  BY DEF ReallocateFree
<1> SUFFICES ASSUME NEW p \in Ptr, p = loc[m].ptr, NEW a \in Addr, a = loc[m].addr,
                    NEW old \in Addr, old = loc[m].src
             PROVE  CacheInv'
  BY <1>0, <1>1 DEF ThreadOK
<1>2. Becomes(m, "access", p, loc[m].id, a, NULL, loc[m].flag, "idle")
  <2>1. loc' = [loc EXCEPT ![m].pc = "access", ![m].src = NULL, ![m].after = "idle"]
    BY DEF ReallocateFree, Access
  <2> QED BY <1>0, <2>1 DEF Becomes, TypeInv, RestOK, LocalsOK, Local
<1>3. /\ IsPresent(p) /\ meta[p].addr = a /\ loc[m].flag /\ IsDirty(p) /\ hdr[old].ptr = p
      /\ a # old
  BY <1>0, <1>1 DEF MutatorOK
<1>4. hdr[a].ptr = p /\ p # NULL BY <1>3, PresentFacts
<1>5. /\ \A x \in Addr \ {old} : hdr'[x] = hdr[x]
      /\ hdr'[old].ptr = hdr[old].ptr /\ hdr'[old].id = hdr[old].id /\ hdr'[old].freed
  <2>1. hdr' = [hdr EXCEPT ![old].freed = TRUE] BY DEF ReallocateFree
  <2> QED BY <2>1 DEF TypeInv, RestOK, MemoryOK, Header
<1>6. \A x : Scanned(x)' <=> Scanned(x) BY <1>0, <1>2, ScannedKept DEF Becomes
<1>7. ASSUME NEW x \in Addr PROVE HeaderOK(x)' /\ LedTo(x)'
  <2>1. HeaderOK(x) /\ LedTo(x) BY DEF CacheInv, MemoryInv
  <2>2. HeaderOK(x)' BY <1>1, <1>5, <2>1 DEF HeaderOK, IsNull
  <2>3. LedTo(x)'
    <3>1. CASE x = old BY <1>5, <3>1 DEF LedTo
    <3>2. CASE x # old BY <1>1, <1>2, <1>5, <1>6, <2>1, <3>2 DEF LedTo, IsPresent, Becomes
    <3> QED BY <3>1, <3>2
  <2> QED BY <2>2, <2>3
<1>8. ASSUME NEW q \in Ptr PROVE PointerOK(q)' /\ Marked(q)' /\ Evacuated(q)'
  <2>1. PointerOK(q) /\ Marked(q) /\ Evacuated(q) BY DEF CacheInv, MemoryInv
  <2>2. ASSUME IsPresent(q) PROVE meta[q].addr \in Addr \ {old}
    <3>1. meta[q].addr \in Addr /\ hdr[meta[q].addr].ptr = q BY <2>2, PresentFacts
    <3> QED BY <1>3, <3>1
  <2>3. PointerOK(q)' BY <1>1, <1>5, <2>1, <2>2 DEF PointerOK, IsPresent, IsDirty
  <2> QED BY <1>1, <1>6, <2>1, <2>3 DEF Marked, Evacuated, IsPresent
<1>9. RoundOK'
  <2>1. \A x \in todo : hdr'[x].ptr = hdr[x].ptr BY <1>5 DEF TypeInv, RestOK, ControlOK
  <2> QED BY <1>1, <2>1 DEF CacheInv, RoundOK, OtherFlag
<1>10. LocalInv(m)'
  <2>1. KindOK(m)' /\ LockOK(m)' /\ SlotOK(m)'
    BY <1>0, <1>2 DEF KindOK, LockOK, SlotOK, Becomes, Holds, Heading, Pinning, Unbuilt, Allocating,
       SlavePC, SwapOutPC
  <2>2. status'[m] # "out" BY <1>0, <1>1 DEF SwapInOK, Inside, Heading, Allocating
  <2>3. IsPresent(p)' /\ ~IsNull(p)' BY <1>1, <1>3 DEF IsPresent, IsNull
  <2>4. SwapInOK(m)'
    BY <1>2, <2>2, <2>3 DEF SwapInOK, Becomes, Inside, Heading, Allocating, Fetching, IsNull
  <2>5. /\ \A n \in {"build", "copy", "re_init"} : ~Heading(m, n)'
        /\ HandleOf(m)' = a /\ loc'[m].pc = "access" /\ loc'[m].flag = loc[m].flag /\ loc'[m].ptr = p
    BY <1>2 DEF Becomes, Heading, Allocating, HandleOf
  <2>6. Safe(m, a)' BY <1>0, <1>1, PinnedSlot DEF Safe, Pinning
  <2>7. MutatorOK(m)'
    BY <1>1, <1>3, <1>4, <1>5, <2>3, <2>5, <2>6 DEF MutatorOK, IsDirty
  <2> QED BY <1>0, <2>1, <2>4, <2>7 DEF LocalInv
<1>11. ASSUME NEW u \in Thread \ {m} PROVE LocalInv(u)'
  <2>1. /\ LocalInv(u) /\ ThreadOK(u) /\ SlotOK(u) /\ LockOK(u) /\ (u \in Swapper => SwapInOK(u))
        /\ (u \in Mutator => MutatorOK(u)) /\ (u \in Slave => SlaveOK(u))
    BY DEF CacheInv, ThreadsInv, LocalInv, TypeInv, RestOK, LocalsOK
  <2>2. loc'[u] = loc[u] BY <1>2 DEF Becomes
  <2>3. u \in Mutator /\ HasHandle(u) => data[HandleOf(u)] = data[meta[loc[u].ptr].addr]
    BY <2>1 DEF MutatorOK
  <2>4. loc[u].pc \in Unbuilt => hdr'[loc[u].addr].ptr = NULL
    <3>1. loc[u].pc \in Unbuilt => loc[u].addr \in Addr
      BY <2>1 DEF ThreadOK, Heading, Unbuilt
    <3> QED BY <1>5, <2>1, <3>1 DEF SlotOK
  <2>5. u \in Swapper /\ loc[u].pc = "si_present" =>
           hdr'[loc[u].addr] = hdr[loc[u].addr] /\ data[loc[u].addr] = far[oid[loc[u].ptr]]
    <3>1. SUFFICES ASSUME u \in Swapper, loc[u].pc = "si_present"
                   PROVE  loc[u].addr \in Addr \ {old} /\ data[loc[u].addr] = far[oid[loc[u].ptr]]
      BY <1>5
    <3>2. loc[u].addr \in Addr /\ Fetching(u) BY <2>1, <3>1 DEF ThreadOK, Fetching
    <3>3. hdr[loc[u].addr].ptr = loc[u].ptr /\ ~IsPresent(loc[u].ptr)
      BY <2>1, <3>1, <3>2 DEF SwapInOK, NewObject
    <3> QED BY <1>3, <2>1, <3>1, <3>2, <3>3 DEF SwapInOK
  <2>6. Holds(u) => lock'[loc[u].id] = u BY <1>1, <2>1 DEF LockOK
  <2>7. \A r \in Region : fill'[r] >= fill[r] /\ (u \in pins[r] => u \in pins'[r])
    BY <1>0, <1>1, DropKeepsPins DEF TypeInv, PoolInv, PoolTypeOK
  <2>8. \A x \in Addr : hdr[x].ptr # NULL => hdr'[x].ptr = hdr[x].ptr /\ hdr'[x].id = hdr[x].id
    BY <1>5
  <2> QED BY <1>1, <2>1, <2>2, <2>3, <2>4, <2>5, <2>6, <2>7, <2>8, BystanderFramed
<1>12. \A u \in Thread \ {m} : Apart(m, u)'
  BY <1>0, <1>1, <1>2, ApartKept DEF Becomes, Heading, Allocating, Unbuilt, Inside
<1>13. ThreadsInv' BY <1>0, <1>2, <1>10, <1>11, <1>12, ThreadsTogether DEF Becomes
<1> QED BY <1>7, <1>8, <1>9, <1>13 DEF CacheInv, MemoryInv

-----------------------------------------------------------------------------
(* The slaves.                                                              *)

\* The marker sets the evacuation bit of the pointer it finds in the header.
LEMMA MarkKeeps ==
  ASSUME CacheInv, TypeInv, TypeInv', NEW s \in Slave, SetEvacuation(s)
  PROVE  CacheInv'
<1> USE ThreadKinds DEF gcVars, poolVars
<1>0. loc[s].pc = "mark" /\ loc[s].pc # "idle" BY DEF SetEvacuation
<1> SUFFICES ASSUME NEW p \in Ptr, NEW old \in Addr, p = hdr[old].ptr, old = loc[s].src
             PROVE  CacheInv'
  BY <1>0, SlaveSource
<1>1. /\ Unlock(s) /\ GoIdle(s)
      /\ UNCHANGED <<hdr, data, far, oid, from, gc, todo, expected_status, status, fill, pins>>
  BY DEF SetEvacuation
<1>2. /\ gc = "mark" /\ Holds(s) /\ RegionOf(old) \in from /\ p # NULL
      /\ ~hdr[old].freed =>
           /\ IsPresent(p)
           /\ meta[p].addr = old \/ \E m \in Mutator : loc[m].pc = "re_free" /\ loc[m].ptr = p
  <2>1. SlaveOK(s) BY DEF CacheInv, ThreadsInv, LocalInv
  <2> QED BY <1>0, <2>1, SlaveSource, ConstantsOK DEF SlaveOK, Holds, ObjId
<1>3. /\ \A q \in Ptr : /\ meta'[q].kind = meta[q].kind /\ meta'[q].dirty = meta[q].dirty
                        /\ meta'[q].addr = meta[q].addr /\ meta'[q].id = meta[q].id
                        /\ (meta[q].evac => meta'[q].evac)
                        /\ (q # p \/ hdr[old].freed) => meta'[q].evac = meta[q].evac
      /\ ~hdr[old].freed => meta'[p].evac
  <2>1. CASE hdr[old].freed
    BY <2>1 DEF SetEvacuation
  <2>2. CASE ~hdr[old].freed
    <3>1. meta' = [meta EXCEPT ![p].evac = TRUE] BY <2>2 DEF SetEvacuation
    <3>2. meta \in [Ptr -> Meta] BY DEF TypeInv, RestOK, MemoryOK
    <3>3. \A q \in Ptr \ {p} : meta'[q] = meta[q] BY <3>1, <3>2
    <3>4. meta'[p] = [meta[p] EXCEPT !.evac = TRUE] BY <3>1, <3>2
    <3>5. /\ meta'[p].kind = meta[p].kind /\ meta'[p].dirty = meta[p].dirty
          /\ meta'[p].addr = meta[p].addr /\ meta'[p].id = meta[p].id /\ meta'[p].evac
      BY <3>2, <3>4 DEF Meta
    <3> QED BY <2>2, <3>3, <3>5
  <2> QED BY <2>1, <2>2
<1>4. /\ LocalInv(s)' /\ loc'[s].pc = "idle"
      /\ \A u \in Thread \ {s} : loc'[u] = loc[u] /\ Apart(s, u)'
      /\ \A x : Scanned(x)' <=> Scanned(x) /\ x # old
  BY <1>0, <1>1, SlaveDone
<1>5. ASSUME NEW x \in Addr PROVE HeaderOK(x)' /\ LedTo(x)'
  <2>1. HeaderOK(x) /\ LedTo(x) BY DEF CacheInv, MemoryInv
  <2>2. hdr[x].ptr # NULL => hdr[x].ptr \in Ptr BY DEF TypeInv, RestOK, MemoryOK, Header
  <2>3. HeaderOK(x)' BY <1>1, <1>3, <2>1, <2>2 DEF HeaderOK, IsNull
  <2>4. \A u \in Swapper : loc'[u] = loc[u] BY <1>4
  <2>5. LedTo(x)'
    BY <1>1, <1>2, <1>3, <2>1, <2>2, <2>4 DEF LedTo, IsPresent
  <2> QED BY <2>3, <2>5
<1>6. ASSUME NEW q \in Ptr PROVE PointerOK(q)' /\ Marked(q)' /\ Evacuated(q)'
  <2>1. PointerOK(q) /\ Marked(q) BY DEF CacheInv, MemoryInv
  <2>2. ASSUME IsPresent(q), meta[q].addr = old PROVE meta'[q].evac
    <3>1. hdr[old].ptr = q /\ hdr[old].freed = FALSE BY <2>2, PresentFacts
    <3> QED BY <1>3, <3>1
  <2>3. PointerOK(q)' BY <1>1, <1>3, <2>1 DEF PointerOK, IsPresent, IsDirty
  <2>4. Marked(q)' BY <1>1, <1>3, <1>4, <2>1, <2>2 DEF Marked, IsPresent
  <2>5. Evacuated(q)' BY <1>1, <1>2 DEF Evacuated
  <2> QED BY <2>3, <2>4, <2>5
<1>7. RoundOK' BY <1>1 DEF CacheInv, RoundOK, OtherFlag
<1>8. ASSUME NEW u \in Thread \ {s} PROVE LocalInv(u)'
  <2>1. /\ LocalInv(u) /\ ThreadOK(u) /\ SlotOK(u) /\ LockOK(u) /\ (u \in Swapper => SwapInOK(u))
        /\ (u \in Mutator => MutatorOK(u)) /\ (u \in Slave => SlaveOK(u)) /\ loc'[u] = loc[u]
    BY <1>4 DEF CacheInv, ThreadsInv, LocalInv, TypeInv, RestOK, LocalsOK
  <2>2. u \in Slave => loc[u].pc \notin SwapOutPC
    BY <1>2, <2>1 DEF SlaveOK, SwapOutPC
  <2>3. ASSUME u \in Mutator, HasHandle(u)
        PROVE  /\ loc[u].ptr \in Ptr /\ data[HandleOf(u)] = data[meta[loc[u].ptr].addr]
               /\ meta'[loc[u].ptr].evac /\ ~meta[loc[u].ptr].evac /\ ~loc[u].flag =>
                     RegionOf(meta[loc[u].ptr].addr) \in from /\ gc \in {"mark", "observe"}
    <3>1. loc[u].ptr \in Ptr /\ data[HandleOf(u)] = data[meta[loc[u].ptr].addr]
      BY <2>1, <2>3 DEF MutatorOK, ThreadOK, HasHandle, Heading, Allocating
    <3>2. SUFFICES ASSUME meta'[loc[u].ptr].evac, ~meta[loc[u].ptr].evac
                   PROVE  RegionOf(meta[loc[u].ptr].addr) \in from
      BY <1>2, <3>1
    <3>3. loc[u].ptr = p /\ ~hdr[old].freed BY <1>3, <3>1, <3>2
    <3>4. ASSUME NEW m \in Mutator, loc[m].pc = "re_free", loc[m].ptr = p PROVE FALSE
      <4>1. u # m /\ MutatorOK(m) BY <2>3, <3>4 DEF HasHandle, Heading, Allocating, CacheInv,
                                     ThreadsInv, LocalInv
      <4>2. Apart(u, m) BY <4>1 DEF CacheInv, ThreadsInv
      <4>3. Inside(u) /\ Inside(m) BY <2>3, <3>4 DEF Inside, HasHandle, Heading, Allocating
      <4> QED BY <2>3, <3>3, <3>4, <4>1, <4>2, <4>3 DEF Apart, MutatorOK
    <3> QED BY <1>2, <3>3, <3>4
  <2>4. loc[u].pc \in Unbuilt => hdr'[loc[u].addr].ptr = NULL BY <1>1, <2>1 DEF SlotOK
  <2>5. u \in Swapper /\ loc[u].pc = "si_present" => data[loc[u].addr] = far[oid[loc[u].ptr]]
    BY <2>1 DEF SwapInOK
  <2>6. Holds(u) => lock'[loc[u].id] = u
    BY <1>1, <1>2, UnlockKeepsLocks
  <2>7. \A r \in Region : fill'[r] >= fill[r] BY <1>1 DEF TypeInv, PoolInv, PoolTypeOK
  <2> QED BY <1>1, <1>3, <2>1, <2>2, <2>3, <2>4, <2>5, <2>6, <2>7, BystanderFramed
<1>9. ThreadsInv' BY <1>4, <1>8, ThreadsTogether
<1> QED BY <1>5, <1>6, <1>7, <1>9 DEF CacheInv, MemoryInv

\* There is nothing to write back: the object is freed, or it is not p's any more.
LEMMA SkipKeeps ==
  ASSUME CacheInv, TypeInv, TypeInv', NEW s \in Slave, SwapOutSkip(s)
  PROVE  CacheInv'
<1> USE ThreadKinds DEF gcVars, poolVars, memVars
<1>0. loc[s].pc = "writeback" /\ loc[s].pc # "idle" BY DEF SwapOutSkip
<1> SUFFICES ASSUME NEW old \in Addr, old = loc[s].src PROVE CacheInv'
  BY <1>0, SlaveSource
<1>1. /\ Unlock(s) /\ GoIdle(s) /\ (hdr[old].freed \/ ~meta[hdr[old].ptr].evac)
      /\ UNCHANGED <<meta, hdr, data, far, oid, from, gc, todo, expected_status, status, fill, pins>>
  BY DEF SwapOutSkip
<1>2. gc = "writeback" /\ Holds(s) /\ RegionOf(old) \in from
  <2>1. SlaveOK(s) BY DEF CacheInv, ThreadsInv, LocalInv
  <2> QED BY <1>0, <2>1 DEF SlaveOK, Holds
<1>3. /\ LocalInv(s)' /\ loc'[s].pc = "idle"
      /\ \A u \in Thread \ {s} : loc'[u] = loc[u] /\ Apart(s, u)'
      /\ \A x : Scanned(x)' <=> Scanned(x) /\ x # old
  BY <1>0, <1>1, SlaveDone
<1>4. ASSUME NEW x \in Addr PROVE HeaderOK(x)' /\ LedTo(x)'
  <2>1. HeaderOK(x) /\ LedTo(x) BY DEF CacheInv, MemoryInv
  <2>2. \A u \in Swapper : loc'[u] = loc[u] BY <1>3
  <2> QED BY <1>1, <1>3, <2>1, <2>2 DEF HeaderOK, LedTo, IsPresent, IsNull
<1>5. ASSUME NEW q \in Ptr PROVE PointerOK(q)' /\ Marked(q)' /\ Evacuated(q)'
  <2>1. PointerOK(q) /\ Marked(q) /\ Evacuated(q) BY DEF CacheInv, MemoryInv
  <2>2. IsPresent(q) => meta[q].addr # old
    <3>1. SUFFICES ASSUME IsPresent(q), meta[q].addr = old PROVE FALSE OBVIOUS
    <3>2. hdr[old].ptr = q /\ hdr[old].freed = FALSE BY <3>1, PresentFacts
    <3> QED BY <1>1, <1>2, <2>1, <3>1, <3>2 DEF Marked
  <2> QED BY <1>1, <1>3, <2>1, <2>2 DEF PointerOK, Marked, Evacuated, IsPresent, IsDirty
<1>6. RoundOK' BY <1>1 DEF CacheInv, RoundOK, OtherFlag
<1>7. ASSUME NEW u \in Thread \ {s} PROVE LocalInv(u)'
  <2>1. LocalInv(u) /\ loc'[u] = loc[u] BY <1>3 DEF CacheInv, ThreadsInv
  <2>2. Holds(u) => lock'[loc[u].id] = u BY <1>1, <1>2, UnlockKeepsLocks
  <2>3. \A r \in Region : fill'[r] >= fill[r] BY <1>1 DEF TypeInv, PoolInv, PoolTypeOK
  <2> QED BY <1>1, <2>1, <2>2, <2>3, BystanderKept
<1>8. ThreadsInv' BY <1>3, <1>7, ThreadsTogether
<1> QED BY <1>4, <1>5, <1>6, <1>8 DEF CacheInv, MemoryInv

\* A slave takes an address off the list; a freed object needs no more.
LEMMA ScanKeeps ==
  ASSUME CacheInv, TypeInv, TypeInv', NEW s \in Slave, NEW a \in Addr, SlaveScan(s, a)
  PROVE  CacheInv'
<1> USE ThreadKinds DEF gcVars, poolVars, memVars
<1>1. /\ gc \in {"mark", "writeback"} /\ loc[s].pc = "idle" /\ a \in todo /\ todo' = todo \ {a}
      /\ UNCHANGED <<meta, hdr, data, far, oid, from, gc, expected_status, status, fill, pins, lock>>
  BY DEF SlaveScan
<1>2. /\ RegionOf(a) \in from /\ hdr[a].ptr # NULL
      /\ \A u \in Slave : loc[u].pc # "idle" => loc[u].src # a
  <2>1. RoundOK /\ HeaderOK(a) BY DEF CacheInv, MemoryInv
  <2>2. \A u \in Slave : SlaveOK(u) BY DEF CacheInv, ThreadsInv, LocalInv
  <2> QED BY <1>1, <2>1, <2>2 DEF RoundOK, HeaderOK, SlaveOK
<1>3. /\ \A u \in Thread \ {s} : loc'[u] = loc[u]
      /\ \/ hdr[a].freed /\ loc'[s] = loc[s]
         \/ /\ ~hdr[a].freed
            /\ loc'[s].pc = "lock" /\ loc'[s].src = a /\ loc'[s].id = hdr[a].id
  <2>1. CASE hdr[a].freed BY <2>1 DEF SlaveScan
  <2>2. CASE ~hdr[a].freed
    <3>1. loc' = [loc EXCEPT ![s].pc = "lock", ![s].src = a, ![s].id = hdr[a].id]
      BY <2>2 DEF SlaveScan
    <3> QED BY <2>2, <3>1 DEF TypeInv, RestOK, LocalsOK, Local
  <2> QED BY <2>1, <2>2
<1>4. /\ \A x : Scanned(x) => Scanned(x)'
      /\ \A x : Scanned(x)' => Scanned(x) \/ x = a
      /\ ~hdr[a].freed => Scanned(a)'
  <2>1. \A u \in Slave \ {s} : loc'[u] = loc[u] BY <1>3
  <2> QED BY <1>1, <1>3, <2>1 DEF Scanned
<1>5. ASSUME NEW x \in Addr PROVE HeaderOK(x)' /\ LedTo(x)'
  <2>1. HeaderOK(x) /\ LedTo(x) BY DEF CacheInv, MemoryInv
  <2>2. \A u \in Swapper : loc'[u] = loc[u] BY <1>3
  <2>3. HeaderOK(x)' BY <1>1, <2>1 DEF HeaderOK, IsNull
  <2>4. LedTo(x)' BY <1>1, <1>4, <2>1, <2>2 DEF LedTo, IsPresent
  <2> QED BY <2>3, <2>4
<1>6. ASSUME NEW q \in Ptr PROVE PointerOK(q)' /\ Marked(q)' /\ Evacuated(q)'
  <2>1. PointerOK(q) /\ Marked(q) /\ Evacuated(q) BY DEF CacheInv, MemoryInv
  <2>2. ASSUME IsPresent(q), meta[q].addr = a PROVE Scanned(a)'
    BY <1>4, <2>2, PresentFacts
  <2> QED BY <1>1, <1>4, <2>1, <2>2 DEF PointerOK, Marked, Evacuated, IsPresent, IsDirty
<1>7. RoundOK' BY <1>1 DEF CacheInv, RoundOK, OtherFlag
<1>8. ASSUME NEW u \in Thread, loc'[u] = loc[u] PROVE LocalInv(u)'
  <2>1. LocalInv(u) /\ ThreadOK(u) BY DEF CacheInv, ThreadsInv, TypeInv, RestOK, LocalsOK
  <2>2. Holds(u) => lock'[loc[u].id] = u BY <1>1, <2>1 DEF LocalInv, LockOK
  <2>3. \A r \in Region : fill'[r] >= fill[r] BY <1>1 DEF TypeInv, PoolInv, PoolTypeOK
  <2>4. u \in Mutator /\ HasHandle(u) => data[HandleOf(u)] = data[meta[loc[u].ptr].addr]
    BY <2>1 DEF LocalInv, MutatorOK
  <2>5. loc[u].pc \in Unbuilt => hdr'[loc[u].addr].ptr = NULL
    BY <1>1, <2>1 DEF LocalInv, SlotOK
  <2>6. u \in Swapper /\ loc[u].pc = "si_present" => data[loc[u].addr] = far[oid[loc[u].ptr]]
    BY <2>1 DEF LocalInv, SwapInOK
  <2>7. \A x \in Addr : hdr[x].ptr # NULL => hdr'[x].ptr = hdr[x].ptr /\ hdr'[x].id = hdr[x].id
    BY <1>1
  <2> QED BY <1>1, <1>8, <2>1, <2>2, <2>3, <2>4, <2>5, <2>6, <2>7, BystanderFramed
<1>9. LocalInv(s)'
  <2>1. CASE loc'[s] = loc[s] BY <1>8, <2>1
  <2>2. CASE loc'[s].pc = "lock" /\ loc'[s].src = a /\ loc'[s].id = hdr[a].id
    <3>1. KindOK(s)' /\ LockOK(s)' /\ SlotOK(s)'
      BY <2>2 DEF KindOK, LockOK, SlotOK, Holds, Heading, Allocating, Pinning, Unbuilt, SlavePC,
         SwapOutPC
    <3>2. SlaveOK(s)' BY <1>1, <1>2, <2>2 DEF SlaveOK, SwapOutPC
    <3> QED BY <3>1, <3>2 DEF LocalInv
  <2> QED BY <1>3, <2>1, <2>2
<1>10. ASSUME NEW u \in Thread \ {s} PROVE Apart(s, u)'
  <2>1. Apart(s, u) /\ loc'[u] = loc[u] BY <1>3 DEF CacheInv, ThreadsInv
  <2> QED BY <1>1, <1>2, <1>3, <2>1 DEF Apart, Unbuilt, Heading, Inside
<1>11. ThreadsInv' BY <1>3, <1>8, <1>9, <1>10, ThreadsTogether
<1> QED BY <1>5, <1>6, <1>7, <1>11 DEF CacheInv, MemoryInv

\* The object is written back if it is dirty, and equals its remote copy anyway if not.
LEMMA WriteKeeps ==
  ASSUME CacheInv, TypeInv, TypeInv', NEW s \in Slave, SwapOutWrite(s)
  PROVE  CacheInv'
<1> USE ThreadKinds DEF gcVars, poolVars, memVars
<1>0. loc[s].pc = "so_write" /\ loc[s].pc \in SwapOutPC /\ loc[s].pc # "idle"
  BY DEF SwapOutWrite, SwapOutPC
<1> SUFFICES ASSUME NEW p \in Ptr, NEW a \in Addr, p = loc[s].ptr, a = loc[s].src PROVE CacheInv'
  BY <1>0, SwapOutFacts
<1>1. /\ Goto(s, "so_meta")
      /\ UNCHANGED <<meta, hdr, data, oid, from, gc, todo, expected_status, status, fill, pins, lock>>
  BY DEF SwapOutWrite
<1>2. IsPresent(p) /\ meta[p].addr = a /\ loc[s].flag = IsDirty(p) /\ loc[s].id = oid[p]
  <2>1. SlaveOK(s) BY DEF CacheInv, ThreadsInv, LocalInv
  <2> QED BY <1>0, <2>1, SwapOutFacts DEF SlaveOK
<1>3. /\ far'[oid[p]] = data[a] /\ \A i \in ObjId \ {oid[p]} : far'[i] = far[i]
      /\ \A q \in Ptr \ {p} : far'[oid[q]] = far[oid[q]]
  <2>1. PointerOK(p) BY DEF CacheInv, MemoryInv
  <2>2. far' = IF loc[s].flag THEN [far EXCEPT ![oid[p]] = data[a]] ELSE far
    BY <1>2 DEF SwapOutWrite
  <2>3. far \in [ObjId -> Value] BY DEF TypeInv, RestOK, MemoryOK
  <2>4. oid[p] \in ObjId /\ \A q \in Ptr \ {p} : oid[q] \in ObjId \ {oid[p]} BY IdsDistinct
  <2> QED BY <1>2, <2>1, <2>2, <2>3, <2>4 DEF PointerOK
<1>4. Becomes(s, "so_meta", p, oid[p], loc[s].addr, a, loc[s].flag, loc[s].after)
  BY <1>1, <1>2, GotoBecomes
<1>5. \A x : Scanned(x)' <=> Scanned(x)
  BY <1>0, <1>4 DEF Scanned, Becomes
<1>6. \A u \in Swapper : loc'[u] = loc[u] BY <1>4 DEF Becomes
<1>7. ASSUME NEW x \in Addr PROVE HeaderOK(x)' /\ LedTo(x)'
  <2>1. HeaderOK(x) /\ LedTo(x) BY DEF CacheInv, MemoryInv
  <2> QED BY <1>1, <1>5, <1>6, <2>1 DEF HeaderOK, LedTo, IsPresent, IsNull
<1>8. ASSUME NEW q \in Ptr PROVE PointerOK(q)' /\ Marked(q)' /\ Evacuated(q)'
  <2>1. PointerOK(q) /\ Marked(q) /\ Evacuated(q) BY DEF CacheInv, MemoryInv
  <2> QED BY <1>1, <1>2, <1>3, <1>5, <2>1 DEF PointerOK, Marked, Evacuated, IsPresent, IsDirty
<1>9. RoundOK' BY <1>1 DEF CacheInv, RoundOK, OtherFlag
<1>10. LocalInv(s)'
  <2>1. SlaveOK(s) /\ LockOK(s) /\ KindOK(s) BY DEF CacheInv, ThreadsInv, LocalInv
  <2>2. KindOK(s)' /\ LockOK(s)' /\ SlotOK(s)'
    BY <1>0, <1>1, <1>2, <1>4, <2>1 DEF KindOK, LockOK, SlotOK, Becomes, Holds, Heading, Allocating,
       Pinning,
       Unbuilt, SlavePC, SwapOutPC
  <2>3. SlaveOK(s)'
    BY <1>0, <1>1, <1>2, <1>3, <1>4, <2>1 DEF SlaveOK, Becomes, SwapOutPC, IsPresent
  <2> QED BY <2>2, <2>3 DEF LocalInv
<1>11. ASSUME NEW u \in Thread \ {s} PROVE LocalInv(u)'
  <2>1. /\ LocalInv(u) /\ ThreadOK(u) /\ SlotOK(u) /\ LockOK(u) /\ (u \in Swapper => SwapInOK(u))
        /\ (u \in Mutator => MutatorOK(u)) /\ loc'[u] = loc[u]
    BY <1>4 DEF CacheInv, ThreadsInv, LocalInv, TypeInv, RestOK, LocalsOK, Becomes
  <2>2. u \in Slave /\ loc[u].pc \in SwapOutPC =>
          far'[oid[hdr[loc[u].src].ptr]] = far[oid[hdr[loc[u].src].ptr]]
    <3>1. ASSUME u \in Slave, loc[u].pc \in SwapOutPC PROVE hdr[loc[u].src].ptr \in Ptr \ {p}
      <4>1. ~(Holds(u) /\ loc[u].id = oid[p]) BY <1>0, SwapOutFacts
      <4>2. /\ Holds(u) /\ loc[u].ptr \in Ptr /\ loc[u].id = oid[loc[u].ptr]
            /\ hdr[loc[u].src].ptr = loc[u].ptr
        BY <3>1, SwapOutFacts
      <4> QED BY <4>1, <4>2
    <3> QED BY <1>3, <3>1
  <2>3. u \in Swapper /\ loc[u].pc = "si_present" => data[loc[u].addr] = far'[oid[loc[u].ptr]]
    <3>1. SUFFICES ASSUME u \in Swapper, loc[u].pc = "si_present"
                   PROVE  loc[u].ptr \in Ptr \ {p} /\ data[loc[u].addr] = far[oid[loc[u].ptr]]
      BY <1>3
    <3>2. Fetching(u) /\ loc[u].id = oid[loc[u].ptr] /\ loc[u].ptr \in Ptr
      BY <2>1, <3>1 DEF Fetching, SwapInOK, ThreadOK
    <3>3. loc[u].ptr # p
      <4>1. loc[u].ptr = p => ~(Fetching(u) /\ loc[u].id = oid[p]) BY <1>0, <3>1, SwapOutFacts
      <4> QED BY <3>2, <4>1
    <3> QED BY <2>1, <3>1, <3>2, <3>3 DEF SwapInOK
  <2>4. u \in Mutator /\ HasHandle(u) => data[HandleOf(u)] = data[meta[loc[u].ptr].addr]
    BY <2>1 DEF MutatorOK
  <2>5. loc[u].pc \in Unbuilt => hdr'[loc[u].addr].ptr = NULL BY <1>1, <2>1 DEF SlotOK
  <2>6. Holds(u) => lock'[loc[u].id] = u BY <1>1, <2>1 DEF LockOK
  <2>7. \A r \in Region : fill'[r] >= fill[r] BY <1>1 DEF TypeInv, PoolInv, PoolTypeOK
  <2> QED BY <1>1, <2>1, <2>2, <2>3, <2>4, <2>5, <2>6, <2>7, BystanderFramed
<1>12. \A u \in Thread \ {s} : Apart(s, u)'
  BY <1>0, <1>4, ApartKept DEF Becomes, Heading, Allocating, Unbuilt, Inside
<1>13. ThreadsInv' BY <1>4, <1>10, <1>11, <1>12, ThreadsTogether DEF Becomes
<1> QED BY <1>7, <1>8, <1>9, <1>13 DEF CacheInv, MemoryInv

\* The pointer leads to the remote copy from now on; nobody who uses it minds.
LEMMA RemoteKeeps ==
  ASSUME CacheInv, TypeInv, TypeInv', NEW s \in Slave, SwapOutMeta(s)
  PROVE  CacheInv'
<1> USE ThreadKinds DEF gcVars, poolVars, memVars
<1>0. loc[s].pc = "so_meta" /\ loc[s].pc \in SwapOutPC /\ loc[s].pc # "idle"
  BY DEF SwapOutMeta, SwapOutPC
<1> SUFFICES ASSUME NEW p \in Ptr, NEW a \in Addr, p = loc[s].ptr, a = loc[s].src PROVE CacheInv'
  BY <1>0, SwapOutFacts
<1>1. /\ Unlock(s) /\ GoIdle(s)
      /\ UNCHANGED <<hdr, data, far, oid, from, gc, todo, expected_status, status, fill, pins>>
  BY DEF SwapOutMeta
<1>2. /\ IsPresent(p) /\ meta[p].addr = a /\ hdr[a].ptr = p /\ p # NULL /\ Holds(s)
      /\ gc = "writeback" /\ RegionOf(a) \in from /\ a \notin todo
  BY <1>0, SwapOutFacts
<1>3. meta'[p].kind = "far" /\ meta'[p].id = oid[p] /\ \A q \in Ptr \ {p} : meta'[q] = meta[q]
  <2>1. meta' = [meta EXCEPT ![p] = FarMeta(oid[p])] BY <1>0, SwapOutFacts DEF SwapOutMeta
  <2> QED BY <2>1 DEF FarMeta, TypeInv, RestOK, MemoryOK
<1>4. /\ LocalInv(s)' /\ loc'[s].pc = "idle"
      /\ \A u \in Thread \ {s} : loc'[u] = loc[u] /\ Apart(s, u)'
      /\ \A x : Scanned(x)' <=> Scanned(x) /\ x # a
  BY <1>0, <1>1, SlaveDone
<1>5. ASSUME NEW x \in Addr PROVE HeaderOK(x)' /\ LedTo(x)'
  <2>1. HeaderOK(x) /\ LedTo(x) BY DEF CacheInv, MemoryInv
  <2>2. hdr[x].ptr # NULL => hdr[x].ptr \in Ptr BY DEF TypeInv, RestOK, MemoryOK, Header
  <2>3. HeaderOK(x)' BY <1>1, <1>3, <2>1, <2>2 DEF HeaderOK, IsNull
  <2>4. \A u \in Swapper : loc'[u] = loc[u] BY <1>4
  <2>5. ASSUME x = a PROVE LedTo(x)'
    BY <1>1, <1>2, <1>4, <2>5 DEF LedTo
  <2>6. ASSUME x # a PROVE LedTo(x)'
    <3>1. IsPresent(hdr[x].ptr) /\ meta[hdr[x].ptr].addr = x /\ hdr[x].ptr # NULL =>
             meta'[hdr[x].ptr] = meta[hdr[x].ptr]
      BY <1>2, <1>3, <2>2, <2>6
    <3> QED BY <1>1, <1>4, <2>1, <2>4, <2>6, <3>1 DEF LedTo, IsPresent
  <2> QED BY <2>3, <2>5, <2>6
<1>6. ASSUME NEW q \in Ptr PROVE PointerOK(q)' /\ Marked(q)' /\ Evacuated(q)'
  <2>1. PointerOK(q) /\ Marked(q) /\ Evacuated(q) BY DEF CacheInv, MemoryInv
  <2>2. CASE q = p BY <1>1, <1>3, <2>2 DEF PointerOK, Marked, Evacuated, IsPresent
  <2>3. CASE q # p
    <3>1. IsPresent(q) => meta[q].addr # a BY <1>2, <2>3, PresentFacts
    <3> QED BY <1>1, <1>3, <1>4, <2>1, <2>3, <3>1 DEF PointerOK, Marked, Evacuated, IsPresent,
               IsDirty
  <2> QED BY <2>2, <2>3
<1>7. RoundOK' BY <1>1 DEF CacheInv, RoundOK, OtherFlag
<1>8. ASSUME NEW u \in Thread \ {s} PROVE LocalInv(u)'
  <2>1. /\ LocalInv(u) /\ ThreadOK(u) /\ SlotOK(u) /\ LockOK(u) /\ KindOK(u)
        /\ (u \in Swapper => SwapInOK(u))
        /\ (u \in Mutator => MutatorOK(u)) /\ (u \in Slave => SlaveOK(u)) /\ loc'[u] = loc[u]
    BY <1>4 DEF CacheInv, ThreadsInv, LocalInv, TypeInv, RestOK, LocalsOK
  <2>2. Holds(u) => lock'[loc[u].id] = u BY <1>1, <1>2, UnlockKeepsLocks
  <2>3. \A r \in Region : fill'[r] >= fill[r] BY <1>1 DEF TypeInv, PoolInv, PoolTypeOK
  <2>4. CASE u \in Swapper /\ loc[u].ptr = p
    <3>1. KindOK(u)' BY <2>1 DEF KindOK
    <3>2. LockOK(u)' BY <2>1, <2>2 DEF LockOK, Holds, Heading
    <3>3. SlotOK(u)' BY <1>1, <2>1 DEF SlotOK
    <3>4. IsPresent(p)' = FALSE /\ ~IsNull(p)' BY <1>3 DEF IsPresent, IsNull
    <3>5. /\ ~(Fetching(u) /\ loc[u].id = oid[p])
          /\ u \in Scoped => loc[u].pc \notin {"si_read", "si_check", "si_lock", "si_recheck"}
      <4>1. \A v \in Swapper : loc[v].ptr = p =>
              /\ ~(Fetching(v) /\ loc[v].id = oid[p])
              /\ v \in Scoped => loc[v].pc \notin {"si_read", "si_check", "si_lock", "si_recheck"}
        BY <1>0, SwapOutFacts
      <4> QED BY <2>4, <4>1
    <3>6. SwapInOK(u)'
      BY <1>1, <2>1, <2>4, <3>4, <3>5 DEF SwapInOK, Inside, Heading, Fetching
    <3>7. ASSUME u \in Mutator PROVE MutatorOK(u)'
      <4>1. /\ ~Heading(u, "build") /\ ~Heading(u, "copy")
            /\ loc[u].pc # "re_free" /\ ~HasHandle(u)
        BY <1>0, <2>4, <3>7, SwapOutFacts
      <4>2. HasHandle(u)' <=> HasHandle(u) BY <2>1 DEF HasHandle, Heading
      <4>3. \A n \in {"build", "copy", "re_init"} : Heading(u, n)' <=> Heading(u, n)
        BY <2>1 DEF Heading
      <4>4. /\ loc[u].pc = "nb_alloc" /\ loc[u].after = "re_init" => loc[u].addr = loc[u].src
            /\ Heading(u, "re_init") => loc[u].flag
        BY <2>1, <3>7 DEF MutatorOK
      <4> QED BY <2>1, <4>1, <4>2, <4>3, <4>4 DEF MutatorOK
    <3> QED BY <2>4, <3>1, <3>2, <3>3, <3>6, <3>7 DEF LocalInv
  <2>5. CASE ~(u \in Swapper /\ loc[u].ptr = p)
    <3>1. u \in Slave /\ loc[u].pc \in SwapOutPC =>
            meta'[hdr[loc[u].src].ptr] = meta[hdr[loc[u].src].ptr]
      <4>1. SUFFICES ASSUME u \in Slave, loc[u].pc \in SwapOutPC
                     PROVE  hdr[loc[u].src].ptr \in Ptr \ {p}
        BY <1>3
      <4>2. ~(Holds(u) /\ loc[u].id = oid[p]) BY <1>0, SwapOutFacts
      <4>3. /\ Holds(u) /\ loc[u].ptr \in Ptr /\ loc[u].id = oid[loc[u].ptr]
            /\ hdr[loc[u].src].ptr = loc[u].ptr
        BY <4>1, SwapOutFacts
      <4> QED BY <4>2, <4>3
    <3>2. u \in Swapper /\ loc[u].ptr \in Ptr => meta'[loc[u].ptr] = meta[loc[u].ptr]
      BY <1>3, <2>5
    <3>3. u \in Mutator /\ HasHandle(u) =>
            /\ meta'[loc[u].ptr] = meta[loc[u].ptr]
            /\ data[HandleOf(u)] = data[meta[loc[u].ptr].addr]
      <4>1. u \in Mutator /\ HasHandle(u) => loc[u].ptr \in Ptr
        BY <2>1 DEF ThreadOK, HasHandle, Heading, Allocating
      <4> QED BY <2>1, <3>2, <4>1 DEF MutatorOK
    <3>4. u \in Swapper /\ loc[u].pc = "si_present" => data[loc[u].addr] = far[oid[loc[u].ptr]]
      BY <2>1 DEF SwapInOK
    <3>5. loc[u].pc \in Unbuilt => hdr'[loc[u].addr].ptr = NULL BY <1>1, <2>1 DEF SlotOK
    <3> QED BY <1>1, <2>1, <2>2, <2>3, <3>1, <3>2, <3>3, <3>4, <3>5, BystanderFramed
  <2> QED BY <2>4, <2>5
<1>9. ThreadsInv' BY <1>4, <1>8, ThreadsTogether
<1> QED BY <1>5, <1>6, <1>7, <1>9 DEF CacheInv, MemoryInv

-----------------------------------------------------------------------------
(* The GC master.                                                           *)

\* When the master moves on, no slave is at work and nothing is left to scan.
LEMMA MasterAlone ==
  ASSUME CacheInv, TypeInv, MasterStep
  PROVE  /\ todo = {} /\ (\A s \in Slave : loc[s].pc = "idle") /\ (\A a : ~Scanned(a))
         /\ UNCHANGED <<meta, data, far, oid, loc, status, lock>>
<1>1. /\ gc \notin {"mark", "writeback"} \/ (todo = {} /\ SlavesIdle)
      /\ UNCHANGED <<meta, data, far, oid, loc, status, lock>>
  <2> USE DEF gcOnly, memVars
  <2>1. CASE GCStart \/ GCLoop BY <2>1 DEF GCStart, GCLoop
  <2>2. CASE GCPickDone BY <2>2 DEF GCPickDone
  <2>3. CASE GCFlip \/ GCObserved BY <2>3 DEF GCFlip, GCObserved
  <2>4. CASE GCWrittenBack \/ GCRoundDone BY <2>4 DEF GCWrittenBack, GCRoundDone
  <2>5. ASSUME NEW r \in Region, GCPick(r) \/ GCRelease(r)
        PROVE  /\ gc \notin {"mark", "writeback"} \/ (todo = {} /\ SlavesIdle)
               /\ UNCHANGED <<meta, data, far, oid, loc, status, lock>>
    BY <2>5 DEF GCPick, GCRelease
  <2> QED BY <2>1, <2>2, <2>3, <2>4, <2>5 DEF MasterStep
<1>2. todo = {} BY <1>1 DEF CacheInv, RoundOK
<1>3. ASSUME NEW s \in Slave PROVE loc[s].pc = "idle"
  BY <1>1, SlaveSource DEF SlavesIdle
<1> QED BY <1>1, <1>2, <1>3 DEF Scanned

\* A thread from one phase to the next: the evacuated regions are none of its business
\* once the mutators have been waited for.
LEMMA PhaseKept ==
  ASSUME CacheInv, TypeInv, NEW u \in Thread, u \in Slave => loc[u].pc = "idle",
         UNCHANGED <<meta, data, far, oid, loc, status, lock>>,
         \A r \in Region \ from : fill'[r] = fill[r] /\ pins'[r] = pins[r],
         \A a \in Addr : gc # "release" \/ RegionOf(a) \notin from => hdr'[a] = hdr[a],
         u \in Scoped /\ status[u] # "out" => \A a \in Addr : Safe(u, a) => Safe(u, a)',
         \/ gc \notin {"mark", "observe"}
         \/ gc = "mark" /\ gc' = "observe" /\ from' = from
         \/ gc = "observe" /\ (u \in Scoped => status[u] # OtherFlag)
  PROVE  LocalInv(u)'
<1> USE ThreadKinds
<1>0. /\ LocalInv(u) /\ ThreadOK(u) /\ KindOK(u) /\ LockOK(u) /\ SlotOK(u)
      /\ (u \in Swapper => SwapInOK(u)) /\ (u \in Mutator => MutatorOK(u))
  BY DEF CacheInv, ThreadsInv, LocalInv, TypeInv, RestOK, LocalsOK
<1>1. KindOK(u)' BY <1>0 DEF KindOK
<1>2. LockOK(u)' BY <1>0 DEF LockOK, Holds, Heading
<1>3. ASSUME loc[u].pc \in Pinning
      PROVE  /\ loc[u].addr \in Addr /\ hdr'[loc[u].addr] = hdr[loc[u].addr]
             /\ fill'[RegionOf(loc[u].addr)] = fill[RegionOf(loc[u].addr)]
             /\ pins'[RegionOf(loc[u].addr)] = pins[RegionOf(loc[u].addr)]
  BY <1>3, PinnedSlot
<1>4. SlotOK(u)' BY <1>0, <1>3 DEF SlotOK, Pinning
<1>5. ASSUME u \in Swapper PROVE SwapInOK(u)'
  <2>1. CASE loc[u].pc = "idle" BY <2>1 DEF SwapInOK, Inside, Heading, Fetching, Allocating
  <2>2. CASE loc[u].pc # "idle"
    <3>1. loc[u].ptr \in Ptr BY <1>0, <1>5, <2>2 DEF ThreadOK
    <3>2. IsPresent(loc[u].ptr) => meta[loc[u].ptr].addr \in Addr BY <3>1, PresentFacts
    <3>3. u \in Scoped /\ loc[u].pc \in {"si_read", "si_check", "si_lock", "si_recheck"} =>
             status[u] # "out"
      BY <1>0, <1>5 DEF SwapInOK, Inside, Heading, Allocating
    <3>4. u \in Scoped /\ loc[u].pc \in {"si_read", "si_check", "si_lock", "si_recheck"}
            /\ IsPresent(loc[u].ptr) =>
             Safe(u, meta[loc[u].ptr].addr)'
      BY <1>0, <1>5, <3>2, <3>3 DEF SwapInOK
    <3>5. loc[u].pc = "si_present" => hdr'[loc[u].addr] = hdr[loc[u].addr]
      BY <1>3 DEF Pinning
    <3> QED BY <1>0, <1>5, <3>4, <3>5 DEF SwapInOK, Inside, Heading, Fetching, IsNull, IsPresent
  <2> QED BY <2>1, <2>2
<1>6. ASSUME u \in Mutator PROVE MutatorOK(u)'
  <2> DEFINE p == loc[u].ptr
  <2>1. /\ \A n \in {"build", "copy", "re_init"} : Heading(u, n)' <=> Heading(u, n)
        /\ (HasHandle(u)' <=> HasHandle(u)) /\ HandleOf(u)' = HandleOf(u)
    BY DEF Heading, HasHandle, HandleOf
  <2>2. HasHandle(u) \/ loc[u].pc = "re_free" => status[u] # "out"
    BY <1>0, <1>6 DEF SwapInOK, Inside, HasHandle, Heading, Allocating
  <2>3. ASSUME HasHandle(u), NEW h, h = HandleOf(u)
        PROVE  /\ hdr'[h].ptr = p /\ Safe(u, h)' /\ h \in Addr
               /\ meta[p].evac /\ ~loc[u].flag =>
                    RegionOf(meta[p].addr) \in from' /\ gc' \in {"mark", "observe"}
               /\ \/ meta[p].addr = h
                  \/ /\ ~loc[u].flag /\ gc' \in {"mark", "observe"}
                     /\ RegionOf(h) \in from' /\ RegionOf(meta[p].addr) \notin from'
    <3>1. h \in Addr BY <1>0, <2>3 DEF HasHandle, HandleOf, ThreadOK
    <3>2. /\ hdr[h].ptr = p /\ Safe(u, h)
          /\ meta[p].evac /\ ~loc[u].flag =>
               RegionOf(meta[p].addr) \in from /\ gc \in {"mark", "observe"}
          /\ \/ meta[p].addr = h
             \/ /\ ~loc[u].flag /\ gc \in {"mark", "observe"}
                /\ RegionOf(h) \in from /\ RegionOf(meta[p].addr) \notin from
      BY <1>0, <1>6, <2>3 DEF MutatorOK
    <3>3. Safe(u, h)' BY <1>6, <2>2, <2>3, <3>1, <3>2
    <3>4. gc = "release" => RegionOf(h) \notin from BY <3>2 DEF Safe
    <3>5. hdr'[h].ptr = p BY <3>1, <3>2, <3>4
    <3>6. gc = "observe" /\ status[u] # OtherFlag => RegionOf(h) \notin from
      BY <3>2 DEF Safe
    <3> QED BY <1>6, <3>1, <3>2, <3>3, <3>5, <3>6
  <2>4. ASSUME loc[u].pc = "re_free"
        PROVE  hdr'[loc[u].src].ptr = p /\ Safe(u, loc[u].src)'
    <3>1. loc[u].src \in Addr BY <1>0, <2>4 DEF ThreadOK
    <3>2. hdr[loc[u].src].ptr = p /\ Safe(u, loc[u].src) BY <1>0, <1>6, <2>4 DEF MutatorOK
    <3>3. gc = "release" => RegionOf(loc[u].src) \notin from BY <3>2 DEF Safe
    <3> QED BY <1>6, <2>2, <2>4, <3>1, <3>2, <3>3
  <2>5. (IsPresent(p)' <=> IsPresent(p)) /\ (IsDirty(p)' <=> IsDirty(p)) /\ (IsNull(p)' <=> IsNull(p))
        /\ (IsEvacuation(p)' <=> IsEvacuation(p))
    BY DEF IsPresent, IsDirty, IsNull, IsEvacuation
  <2>6. Heading(u, "build")' => IsNull(p)' BY <1>0, <1>6, <2>1, <2>5 DEF MutatorOK
  <2>7. Heading(u, "copy")' => loc'[u].id = oid'[p] /\ IsEvacuation(p)' /\ meta'[p].addr = loc'[u].src
    BY <1>0, <1>6, <2>1, <2>5 DEF MutatorOK
  <2>8. ASSUME HasHandle(u), NEW h, h = HandleOf(u)
        PROVE  IsPresent(p)' /\ data'[h] = data'[meta'[p].addr] /\ (loc[u].flag => IsDirty(p)')
    BY <1>0, <1>6, <2>5, <2>8 DEF MutatorOK
  <2>9. /\ Heading(u, "re_init") => loc[u].flag
        /\ loc[u].pc = "nb_alloc" /\ loc[u].after = "re_init" => loc[u].addr = loc[u].src
        /\ loc[u].pc = "re_free" => /\ IsPresent(p)' /\ meta'[p].addr = loc[u].addr /\ loc[u].flag
                                    /\ IsDirty(p)' /\ loc[u].src # loc[u].addr
    BY <1>0, <1>6, <2>5 DEF MutatorOK
  <2> QED BY <2>1, <2>3, <2>4, <2>6, <2>7, <2>8, <2>9 DEF MutatorOK
<1>7. u \in Slave => SlaveOK(u)' BY DEF SlaveOK
<1> QED BY <1>1, <1>2, <1>4, <1>5, <1>6, <1>7 DEF LocalInv

\* Nor are two threads any less apart.
LEMMA PhaseThreads ==
  ASSUME CacheInv, UNCHANGED loc, \A u \in Thread : LocalInv(u)'
  PROVE  ThreadsInv'
BY DEF CacheInv, ThreadsInv, Apart, Heading, Inside

\* Between rounds, and while regions are picked, nothing is being evacuated.
LEMMA BetweenRoundsKeeps ==
  ASSUME CacheInv, TypeInv, TypeInv', MasterStep,
         UNCHANGED <<hdr, fill, pins, expected_status>>,
         todo' = {}, gc' \in {"off", "loop", "pick"}, gc' # "pick" => from' = {},
         gc \notin {"mark", "observe"}, gc \in {"writeback", "release"} => from = {}
  PROVE  CacheInv'
<1> USE ThreadKinds
<1>1. /\ todo = {} /\ (\A s \in Slave : loc[s].pc = "idle") /\ (\A a : ~Scanned(a))
      /\ UNCHANGED <<meta, data, far, oid, loc, status, lock>>
  BY MasterAlone
<1>2. ASSUME NEW x \in Addr PROVE HeaderOK(x)' /\ LedTo(x)'
  <2>1. HeaderOK(x) /\ LedTo(x) BY DEF CacheInv, MemoryInv
  <2> QED BY <1>1, <2>1 DEF HeaderOK, LedTo, IsNull, IsPresent
<1>3. ASSUME NEW q \in Ptr PROVE PointerOK(q)' /\ Marked(q)' /\ Evacuated(q)'
  <2>1. PointerOK(q) BY DEF CacheInv, MemoryInv
  <2> QED BY <1>1, <2>1 DEF PointerOK, Marked, Evacuated, IsPresent, IsDirty
<1>4. RoundOK' BY <1>1 DEF CacheInv, RoundOK, OtherFlag
<1>5. ASSUME NEW u \in Thread PROVE LocalInv(u)'
  <2>1. \A a \in Addr : Safe(u, a)'
    BY DEF Safe
  <2> QED BY <1>1, <2>1, PhaseKept
<1>6. ThreadsInv' BY <1>1, <1>5, PhaseThreads
<1> QED BY <1>2, <1>3, <1>4, <1>6 DEF CacheInv, MemoryInv

\* The marker's list has every object of the picked regions.
LEMMA PickedKeeps ==
  ASSUME CacheInv, TypeInv, TypeInv', GCPickDone
  PROVE  CacheInv'
<1> USE ThreadKinds DEF gcOnly, memVars
<1>0. MasterStep BY DEF MasterStep
<1>1. /\ todo = {} /\ (\A s \in Slave : loc[s].pc = "idle") /\ (\A a : ~Scanned(a))
      /\ UNCHANGED <<meta, data, far, oid, loc, status, lock>>
  BY <1>0, MasterAlone
<1>2. gc = "pick" /\ UNCHANGED <<hdr, from, fill, pins, expected_status>>
  BY DEF GCPickDone
<1>3. CASE from = {} /\ gc' = "loop" /\ UNCHANGED todo
  BY <1>0, <1>1, <1>2, <1>3, BetweenRoundsKeeps
<1>4. CASE from # {} /\ gc' = "mark" /\ todo' = Objects(from)
  <2>1. \A a : ~Scanned(a)' BY <1>1 DEF Scanned
  <2>2. ASSUME NEW x \in Addr PROVE HeaderOK(x)' /\ LedTo(x)'
    <3>1. HeaderOK(x) /\ LedTo(x) BY DEF CacheInv, MemoryInv
    <3> QED BY <1>1, <1>2, <3>1 DEF HeaderOK, LedTo, IsNull, IsPresent
  <2>3. ASSUME NEW q \in Ptr PROVE PointerOK(q)' /\ Marked(q)' /\ Evacuated(q)'
    <3>1. PointerOK(q) BY DEF CacheInv, MemoryInv
    <3>2. IsPresent(q) /\ RegionOf(meta[q].addr) \in from => meta[q].addr \in todo'
      BY <1>4, PresentFacts DEF Objects
    <3>3. PointerOK(q)' BY <1>1, <1>2, <3>1 DEF PointerOK, IsPresent, IsDirty
    <3> QED BY <1>1, <1>2, <1>4, <3>2, <3>3 DEF Marked, Evacuated, IsPresent
  <2>4. RoundOK'
    <3>1. \A a \in todo' : RegionOf(a) \in from /\ hdr[a].ptr # NULL BY <1>4 DEF Objects
    <3> QED BY <1>1, <1>2, <1>4, <3>1 DEF CacheInv, RoundOK, OtherFlag
  <2>5. ASSUME NEW u \in Thread PROVE LocalInv(u)'
    <3>1. \A a \in Addr : Safe(u, a)' BY <1>4 DEF Safe
    <3> QED BY <1>1, <1>2, <3>1, PhaseKept
  <2>6. ThreadsInv' BY <1>1, <2>5, PhaseThreads
  <2> QED BY <2>2, <2>3, <2>4, <2>6 DEF CacheInv, MemoryInv
<1> QED BY <1>3, <1>4 DEF GCPickDone

\* The status that the threads in a scope have becomes the old one, to be waited for.
LEMMA FlipKeeps ==
  ASSUME CacheInv, TypeInv, TypeInv', GCFlip
  PROVE  CacheInv'
<1> USE ThreadKinds DEF gcOnly, memVars
<1>1. /\ todo = {} /\ (\A s \in Slave : loc[s].pc = "idle") /\ (\A a : ~Scanned(a))
      /\ UNCHANGED <<meta, data, far, oid, loc, status, lock>>
  <2>1. MasterStep BY DEF MasterStep
  <2> QED BY <2>1, MasterAlone
<1>2. gc = "mark" /\ gc' = "observe" /\ UNCHANGED <<hdr, from, todo, fill, pins>>
      /\ expected_status' = OtherFlag
  BY DEF GCFlip
<1>3. \A a : ~Scanned(a)' BY <1>1 DEF Scanned
<1>4. ASSUME NEW x \in Addr PROVE HeaderOK(x)' /\ LedTo(x)'
  <2>1. HeaderOK(x) /\ LedTo(x) BY DEF CacheInv, MemoryInv
  <2> QED BY <1>1, <1>2, <2>1 DEF HeaderOK, LedTo, IsNull, IsPresent
<1>5. ASSUME NEW q \in Ptr PROVE PointerOK(q)' /\ Marked(q)' /\ Evacuated(q)'
  <2>1. PointerOK(q) /\ Marked(q) BY DEF CacheInv, MemoryInv
  <2> QED BY <1>1, <1>2, <1>3, <2>1 DEF PointerOK, Marked, Evacuated, IsPresent, IsDirty
<1>6. RoundOK' BY <1>1, <1>2 DEF CacheInv, RoundOK
<1>7. ASSUME NEW u \in Thread PROVE LocalInv(u)'
  <2>1. ASSUME u \in Scoped, status[u] # "out" PROVE status'[u] = OtherFlag'
    <3>1. status[u] # OtherFlag BY <1>2, <2>1 DEF CacheInv, RoundOK
    <3>2. status[u] \in {"flag0", "flag1"} /\ expected_status \in {"flag0", "flag1"}
      BY <2>1 DEF TypeInv, RestOK, ControlOK
    <3> QED BY <1>1, <1>2, <3>1, <3>2 DEF OtherFlag
  <2>2. u \in Scoped /\ status[u] # "out" => \A a \in Addr : Safe(u, a)'
    BY <1>2, <2>1 DEF Safe
  <2> QED BY <1>1, <1>2, <2>2, PhaseKept
<1>8. ThreadsInv' BY <1>1, <1>7, PhaseThreads
<1> QED BY <1>4, <1>5, <1>6, <1>8 DEF CacheInv, MemoryInv

\* No thread is left in a scope that it entered before the flip.
LEMMA ObservedKeeps ==
  ASSUME CacheInv, TypeInv, TypeInv', GCObserved
  PROVE  CacheInv'
<1> USE ThreadKinds DEF gcOnly, memVars
<1>1. /\ todo = {} /\ (\A s \in Slave : loc[s].pc = "idle") /\ (\A a : ~Scanned(a))
      /\ UNCHANGED <<meta, data, far, oid, loc, status, lock>>
  <2>1. MasterStep BY DEF MasterStep
  <2> QED BY <2>1, MasterAlone
<1>2. /\ gc = "observe" /\ gc' = "writeback" /\ todo' = Objects(from)
      /\ \A t \in Scoped : status[t] # OtherFlag
      /\ UNCHANGED <<hdr, from, fill, pins, expected_status>>
  BY DEF GCObserved
<1>3. ASSUME NEW x \in Addr PROVE HeaderOK(x)' /\ LedTo(x)'
  <2>1. HeaderOK(x) /\ LedTo(x) BY DEF CacheInv, MemoryInv
  <2> QED BY <1>1, <1>2, <2>1 DEF HeaderOK, LedTo, IsNull, IsPresent
<1>4. ASSUME NEW q \in Ptr PROVE PointerOK(q)' /\ Marked(q)' /\ Evacuated(q)'
  <2>1. PointerOK(q) /\ Marked(q) BY DEF CacheInv, MemoryInv
  <2>2. IsPresent(q) /\ RegionOf(meta[q].addr) \in from => meta[q].addr \in todo'
    BY <1>2, PresentFacts DEF Objects
  <2>3. PointerOK(q)' BY <1>1, <1>2, <2>1 DEF PointerOK, IsPresent, IsDirty
  <2> QED BY <1>1, <1>2, <2>1, <2>2, <2>3 DEF Marked, Evacuated, IsPresent
<1>5. RoundOK'
  <2>1. \A a \in todo' : RegionOf(a) \in from /\ hdr[a].ptr # NULL BY <1>2 DEF Objects
  <2> QED BY <1>1, <1>2, <2>1 DEF RoundOK, OtherFlag
<1>6. ASSUME NEW u \in Thread PROVE LocalInv(u)'
  <2>1. u \in Scoped => \A a \in Addr : Safe(u, a) => Safe(u, a)' BY <1>2 DEF Safe
  <2> QED BY <1>1, <1>2, <2>1, PhaseKept
<1>7. ThreadsInv' BY <1>1, <1>6, PhaseThreads
<1> QED BY <1>3, <1>4, <1>5, <1>7 DEF CacheInv, MemoryInv

\* Every object of the evacuated regions has been seen to.
LEMMA WrittenBackKeeps ==
  ASSUME CacheInv, TypeInv, TypeInv', GCWrittenBack
  PROVE  CacheInv'
<1> USE ThreadKinds DEF gcOnly, memVars
<1>1. /\ todo = {} /\ (\A s \in Slave : loc[s].pc = "idle") /\ (\A a : ~Scanned(a))
      /\ UNCHANGED <<meta, data, far, oid, loc, status, lock>>
  <2>1. MasterStep BY DEF MasterStep
  <2> QED BY <2>1, MasterAlone
<1>2. gc = "writeback" /\ gc' = "release"
      /\ UNCHANGED <<hdr, from, todo, fill, pins, expected_status>>
  BY DEF GCWrittenBack
<1>3. \A a : ~Scanned(a)' BY <1>1 DEF Scanned
<1>4. ASSUME NEW x \in Addr PROVE HeaderOK(x)' /\ LedTo(x)'
  <2>1. HeaderOK(x) /\ LedTo(x) BY DEF CacheInv, MemoryInv
  <2> QED BY <1>1, <1>2, <1>3, <2>1 DEF HeaderOK, LedTo, IsNull, IsPresent
<1>5. ASSUME NEW q \in Ptr PROVE PointerOK(q)' /\ Marked(q)' /\ Evacuated(q)'
  <2>1. PointerOK(q) /\ Evacuated(q) BY DEF CacheInv, MemoryInv
  <2> QED BY <1>1, <1>2, <2>1 DEF PointerOK, Marked, Evacuated, IsPresent, IsDirty
<1>6. RoundOK' BY <1>1, <1>2 DEF CacheInv, RoundOK, OtherFlag
<1>7. ASSUME NEW u \in Thread PROVE LocalInv(u)'
  <2>1. u \in Scoped => \A a \in Addr : Safe(u, a) => Safe(u, a)' BY <1>2 DEF Safe
  <2> QED BY <1>1, <1>2, <2>1, PhaseKept
<1>8. ThreadsInv' BY <1>1, <1>7, PhaseThreads
<1> QED BY <1>4, <1>5, <1>6, <1>8 DEF CacheInv, MemoryInv

\* Nothing leads into a region that is given away.
LEMMA ReleaseKeeps ==
  ASSUME CacheInv, TypeInv, TypeInv', NEW r \in Region, GCRelease(r)
  PROVE  CacheInv'
<1> USE ThreadKinds
<1>1. /\ todo = {} /\ (\A s \in Slave : loc[s].pc = "idle") /\ (\A a : ~Scanned(a))
      /\ UNCHANGED <<meta, data, far, oid, loc, status, lock>>
  <2>1. MasterStep BY DEF MasterStep
  <2> QED BY <2>1, MasterAlone
<1>2. /\ gc = "release" /\ r \in from /\ from' = from \ {r} /\ UNCHANGED <<gc, todo, expected_status>>
      /\ \A a \in Addr : hdr'[a] = IF RegionOf(a) = r THEN NoObject ELSE hdr[a]
  BY DEF GCRelease
<1>3. \A q \in Region \ {r} : fill'[q] = fill[q] /\ pins'[q] = pins[q]
  BY DEF GCRelease, TypeInv, PoolInv, PoolTypeOK
<1>4. \A a : ~Scanned(a)' BY <1>1 DEF Scanned
<1>5. ASSUME NEW x \in Addr PROVE HeaderOK(x)' /\ LedTo(x)'
  <2>1. HeaderOK(x) /\ LedTo(x) BY DEF CacheInv, MemoryInv
  <2>2. CASE RegionOf(x) = r BY <1>2, <2>2 DEF HeaderOK, LedTo, NoObject
  <2>3. CASE RegionOf(x) # r
    <3>1. hdr'[x] = hdr[x] /\ fill'[x[1]] = fill[x[1]]
      BY <1>2, <1>3, <2>3 DEF RegionOf, Addr
    <3> QED BY <1>1, <1>2, <1>4, <2>1, <2>3, <3>1 DEF HeaderOK, LedTo, IsNull, IsPresent
  <2> QED BY <2>2, <2>3
<1>6. ASSUME NEW q \in Ptr PROVE PointerOK(q)' /\ Marked(q)' /\ Evacuated(q)'
  <2>1. PointerOK(q) /\ Evacuated(q) BY DEF CacheInv, MemoryInv
  <2>2. IsPresent(q) => meta[q].addr \in Addr /\ RegionOf(meta[q].addr) \notin from
    BY <1>1, <1>2, <2>1, PresentFacts DEF Evacuated
  <2> QED BY <1>1, <1>2, <2>1, <2>2 DEF PointerOK, Marked, Evacuated, IsPresent, IsDirty
<1>7. RoundOK' BY <1>1, <1>2 DEF CacheInv, RoundOK, OtherFlag
<1>8. ASSUME NEW u \in Thread PROVE LocalInv(u)'
  <2>1. \A a \in Addr : Safe(u, a) => Safe(u, a)' BY <1>2 DEF Safe
  <2> QED BY <1>1, <1>2, <1>3, <2>1, PhaseKept
<1>9. ThreadsInv' BY <1>1, <1>8, PhaseThreads
<1> QED BY <1>5, <1>6, <1>7, <1>9 DEF CacheInv, MemoryInv

LEMMA MasterKeeps ==
  ASSUME CacheInv, TypeInv, TypeInv', MasterStep
  PROVE  CacheInv'
<1> USE DEF gcOnly, memVars
<1>0. todo = {} /\ (gc \in {"off", "loop"} => from = {})
  BY MasterAlone DEF CacheInv, RoundOK
<1>1. CASE GCStart BY <1>0, <1>1, BetweenRoundsKeeps DEF GCStart
<1>2. CASE GCLoop BY <1>0, <1>2, BetweenRoundsKeeps DEF GCLoop
<1>3. CASE GCRoundDone BY <1>0, <1>3, BetweenRoundsKeeps DEF GCRoundDone
<1>4. ASSUME NEW r \in Region, GCPick(r) PROVE CacheInv'
  BY <1>0, <1>4, BetweenRoundsKeeps DEF GCPick
<1> QED BY <1>1, <1>2, <1>3, <1>4, PickedKeeps, FlipKeeps, ObservedKeeps, WrittenBackKeeps,
           ReleaseKeeps
        DEF MasterStep

-----------------------------------------------------------------------------
(* All steps together.                                                      *)

LEMMA StepKeeps ==
  ASSUME CacheInv, SwapInUsesOwnId, TypeInv, TypeInv', [Next]_vars
  PROVE  CacheInv'
<1> USE ThreadKinds
<1>1. CASE UNCHANGED vars
  BY <1>1, NothingMoves DEF vars, memVars, poolVars, gcVars
<1>2. ASSUME NEW m \in Mutator, MutatorStep(m) PROVE CacheInv'
  <2>1. CASE \/ \E p \in Ptr : \/ \E how \in {"alloc", "nb_alloc"} : AllocatePtr(m, p, how)
                               \/ \E w \in BOOLEAN : ScopeEnter(m, p, w)
             \/ \E c \in Core : AllocateOnce(m, c)
             \/ MigrateBegin(m) \/ ReallocateBegin(m)
    BY <2>1, MutatorQuiet
  <2>2. CASE BuildObject(m) BY <2>2, BuildKeeps
  <2>3. CASE DerefPresent(m) BY <2>3, DerefKeeps
  <2>4. CASE MigrateCopy(m) BY <2>4, MigrateKeeps
  <2>5. CASE ReallocateFree(m) BY <2>5, FreeKeeps
  <2>6. CASE \E v \in Value : Store(m, v) BY <2>6, StoreKeeps
  <2>7. CASE \E v \in Value : ReallocateInit(m, v) BY <2>7, ReallocateKeeps
  <2> QED BY <1>2, <2>1, <2>2, <2>3, <2>4, <2>5, <2>6, <2>7 DEF MutatorStep
<1>3. ASSUME NEW t \in Swapper, SwapperStep(t) PROVE CacheInv'
  <2>1. CASE SwapInFetch(t) BY <2>1, FetchKeeps
  <2>2. CASE SwapInPresent(t) BY <2>2, PresentKeeps
  <2>3. CASE SwapInReadId(t) \/ SwapInCheck(t) \/ SwapInLock(t) \/ SwapInRecheck(t) \/ SwapInFinish(t)
    BY <2>3, SwapInQuiet
  <2>4. CASE WaitForGC(t) \/ \E c \in Core : AllocateBlocking(t, c) \/ AllocateFails(t, c)
    BY <2>4, AllocationQuiet
  <2> QED BY <1>3, <2>1, <2>2, <2>3, <2>4 DEF SwapperStep, SwapIn
<1>4. CASE \E t \in Scoped : DerefFar(t) \/ ScopeExit(t)
  BY <1>4, ScopesQuiet
<1>5. CASE \E f \in Prefetcher : PrefetchSkip(f) \/ \E p \in Ptr : Prefetch(f, p)
  BY <1>5, ScopesQuiet
<1>6. CASE \E g \in Pager, p \in Ptr : PagerVisit(g, p)
  BY <1>6, ScopesQuiet
<1>7. ASSUME NEW s \in Slave, SlaveStep(s) PROVE CacheInv'
  <2>1. CASE \E a \in Addr : SlaveScan(s, a) BY <2>1, ScanKeeps
  <2>2. CASE SlaveLock(s) \/ SwapOutDecide(s) \/ \E c \in Core : SwapOutAllocate(s, c)
    BY <2>2, SlaveQuiet
  <2>3. CASE SetEvacuation(s) BY <2>3, MarkKeeps
  <2>4. CASE SwapOutSkip(s) BY <2>4, SkipKeeps
  <2>5. CASE SwapOutCopy(s) BY <2>5, CopyKeeps
  <2>6. CASE SwapOutWrite(s) BY <2>6, WriteKeeps
  <2>7. CASE SwapOutMeta(s) BY <2>7, RemoteKeeps
  <2> QED BY <1>7, <2>1, <2>2, <2>3, <2>4, <2>5, <2>6, <2>7 DEF SlaveStep
<1>8. CASE MasterStep BY <1>8, MasterKeeps
<1>9. CASE Exited BY <1>1, <1>9 DEF Exited
<1> QED BY <1>1, <1>2, <1>3, <1>4, <1>5, <1>6, <1>7, <1>8, <1>9 DEF Next

LEMMA CacheAtFirst ==
  ASSUME Init
  PROVE  CacheInv
<1>1. \A t \in Thread : loc[t].pc = "idle" BY DEF Init, Idle
<1>2. /\ \A p \in Ptr : meta[p].kind = "null"
      /\ \A a \in Addr : hdr[a].ptr = NULL
      /\ gc = "off" /\ from = {} /\ todo = {}
      /\ \A t \in Scoped : status[t] = "out"
  BY DEF Init, NullMeta, NoObject
<1>3. MemoryInv
  BY <1>2 DEF MemoryInv, HeaderOK, LedTo, PointerOK, Marked, Evacuated, IsPresent
<1>4. RoundOK BY <1>2 DEF RoundOK, OtherFlag
<1>5. ASSUME NEW t \in Thread PROVE LocalInv(t)
  <2>1. KindOK(t) /\ LockOK(t) /\ SlotOK(t)
    BY <1>1 DEF KindOK, LockOK, SlotOK, Holds, Heading, Allocating, Pinning, Unbuilt, SlavePC,
       SwapOutPC
  <2>2. SwapInOK(t) /\ MutatorOK(t) /\ SlaveOK(t)
    BY <1>1 DEF SwapInOK, MutatorOK, SlaveOK, Inside, Fetching, HasHandle, Heading, Allocating
  <2> QED BY <2>1, <2>2 DEF LocalInv
<1>6. \A t, u \in Thread : Apart(t, u)
  BY <1>1 DEF Apart, Inside, Heading, Allocating, Unbuilt
<1> QED BY <1>3, <1>4, <1>5, <1>6 DEF CacheInv, ThreadsInv

\* A foreign id is the one way to lose contents: without such a fetch CacheInv holds,
\* whatever pagers do.
LEMMA CacheInvHolds == Spec /\ []SwapInUsesOwnId => []CacheInv
<1>1. Init => CacheInv BY CacheAtFirst
<1>2. CacheInv /\ SwapInUsesOwnId /\ TypeInv /\ TypeInv' /\ [Next]_vars => CacheInv'
  BY StepKeeps
<1> QED BY <1>1, <1>2, TypeInvHolds, PTL DEF Spec

\* A thread in a scope fetches by the id of its own pointer.
LEMMA ScopedUsesOwnId ==
  ASSUME CacheInv, NEW t \in Scoped, loc[t].pc = "fetch"
  PROVE  loc[t].id = oid[loc[t].ptr]
<1>1. SwapInOK(t) BY ThreadKinds DEF CacheInv, ThreadsInv, LocalInv
<1> QED BY <1>1 DEF SwapInOK, Heading

\* Without pagers every swap-in fetches by its pointer's own id: the id that swap_in
\* reads before it takes the lock cannot go stale under a thread in a deref scope,
\* since the collector waits for that thread before it touches the metadata.
THEOREM ScopesUseOwnId ==
  ASSUME Pager = {}
  PROVE  Spec => []SwapInUsesOwnId
<1>1. Init => CacheInv BY CacheAtFirst
<1>2. CacheInv => SwapInUsesOwnId
  BY ScopedUsesOwnId DEF SwapInUsesOwnId, Swapper
<1>3. CacheInv /\ TypeInv /\ TypeInv' /\ [Next]_vars => CacheInv'
  BY <1>2, StepKeeps
<1> QED BY <1>1, <1>2, <1>3, TypeInvHolds, PTL DEF Spec

LEMMA HandlesAreValid ==
  ASSUME CacheInv, TypeInv
  PROVE  HandleValid
<1> SUFFICES ASSUME NEW m \in Mutator, loc[m].pc = "access"
             PROVE  RegionOf(loc[m].addr) \notin free /\ data[loc[m].addr] = Current(loc[m].ptr)
  BY DEF HandleValid
<1> USE ThreadKinds
<1>1. MutatorOK(m) /\ ThreadOK(m)
  BY DEF CacheInv, ThreadsInv, LocalInv, TypeInv, RestOK, LocalsOK
<1>2. HasHandle(m) /\ HandleOf(m) = loc[m].addr BY DEF HasHandle, HandleOf
<1>3. /\ loc[m].addr \in Addr /\ loc[m].ptr \in Ptr /\ IsPresent(loc[m].ptr)
      /\ hdr[loc[m].addr].ptr = loc[m].ptr
      /\ data[loc[m].addr] = data[meta[loc[m].ptr].addr]
  BY <1>1, <1>2 DEF MutatorOK, ThreadOK
<1>4. RegionOf(loc[m].addr) \notin free
  <2>1. SUFFICES ASSUME RegionOf(loc[m].addr) \in free PROVE FALSE OBVIOUS
  <2>2. fill[loc[m].addr[1]] = 0 /\ loc[m].addr[2] \in 1..SlotsPerRegion
    BY <1>3, <2>1 DEF RegionOf, Addr, TypeInv, PoolInv, FreeIsEmpty
  <2>3. loc[m].addr[2] > fill[loc[m].addr[1]] BY <2>2, ConstantsOK
  <2>4. HeaderOK(loc[m].addr) BY <1>3 DEF CacheInv, MemoryInv
  <2> QED BY <1>3, <2>3, <2>4, ConstantsOK DEF HeaderOK, ObjId
<1> QED BY <1>3, <1>4 DEF Current

LEMMA ReleasedIsUnreferenced ==
  ASSUME CacheInv, TypeInv
  PROVE  ReleaseUnreferenced
<1> SUFFICES ASSUME NEW p \in Ptr, IsPresent(p)
             PROVE  /\ RegionOf(meta[p].addr) \notin free
                    /\ gc = "release" => RegionOf(meta[p].addr) \notin from
  BY DEF ReleaseUnreferenced
<1> DEFINE a == meta[p].addr
<1>1. a \in Addr /\ hdr[a].ptr = p /\ p # NULL BY PresentFacts
<1>2. RegionOf(a) \notin free
  <2>1. SUFFICES ASSUME RegionOf(a) \in free PROVE FALSE OBVIOUS
  <2>2. fill[a[1]] = 0 /\ a[2] \in 1..SlotsPerRegion
    BY <1>1, <2>1 DEF RegionOf, Addr, TypeInv, PoolInv, FreeIsEmpty
  <2>3. a[2] > fill[a[1]] BY <2>2, ConstantsOK
  <2>4. HeaderOK(a) BY <1>1 DEF CacheInv, MemoryInv
  <2> QED BY <1>1, <2>3, <2>4 DEF HeaderOK
<1>3. ASSUME gc = "release" PROVE RegionOf(a) \notin from
  <2>1. todo = {} BY <1>3 DEF CacheInv, RoundOK
  <2>2. ~Scanned(a) BY <1>3, SlaveSource DEF Scanned
  <2>3. Evacuated(p) BY DEF CacheInv, MemoryInv
  <2> QED BY <1>3, <2>1, <2>2, <2>3 DEF Evacuated
<1> QED BY <1>2, <1>3

\* A raw address stays good until its scope ends, for any number of threads, regions
\* and pagers, as long as no swap-in fetches by a foreign id.
THEOREM HandlesStayValid == Spec /\ []SwapInUsesOwnId => []HandleValid
<1>1. CacheInv /\ TypeInv => HandleValid BY HandlesAreValid
<1> QED BY <1>1, CacheInvHolds, TypeInvHolds, PTL

\* A region goes back to the free ones when no pointer leads into it any more.
THEOREM ReleasedUnreferenced == Spec /\ []SwapInUsesOwnId => []ReleaseUnreferenced
<1>1. CacheInv /\ TypeInv => ReleaseUnreferenced BY ReleasedIsUnreferenced
<1> QED BY <1>1, CacheInvHolds, TypeInvHolds, PTL

\* swap_out may drop a clean object: it equals its remote copy.
THEOREM CleanEqualsFar == Spec /\ []SwapInUsesOwnId => []CleanMatchesFar
<1>1. CacheInv => CleanMatchesFar
  BY DEF CacheInv, MemoryInv, PointerOK, CleanMatchesFar
<1> QED BY <1>1, CacheInvHolds, PTL

\* The same without any assumption on what happens, for an application that runs no
\* dynamic pager.
THEOREM ScopesAreSafe ==
  ASSUME Pager = {}
  PROVE  Spec => [](HandleValid /\ ReleaseUnreferenced /\ CleanMatchesFar)
BY ScopesUseOwnId, HandlesStayValid, ReleasedUnreferenced, CleanEqualsFar, PTL

-----------------------------------------------------------------------------
(* What a pointer leads to.                                                 *)

Lead(p) == IF IsNull(p) THEN NULL ELSE Current(p)

\* A pointer that is not null leads to a value.
LEMMA LeadValue ==
  ASSUME TypeInv, CacheInv, NEW p \in Ptr, ~IsNull(p)
  PROVE  Current(p) \in Value
<1>1. meta[p].kind \in {"null", "present", "far"} BY DEF TypeInv, RestOK, MemoryOK, Meta
<1>2. PointerOK(p) BY DEF CacheInv, MemoryInv
<1>3. CASE IsPresent(p)
  <2>1. meta[p].addr \in Addr BY <1>3, PresentFacts
  <2> QED BY <1>3, <2>1 DEF Current, TypeInv, RestOK, MemoryOK
<1>4. CASE meta[p].kind = "far"
  <2>1. meta[p].id = oid[p] BY <1>2, <1>4 DEF PointerOK
  <2>2. far[oid[p]] \in Value BY IdsDistinct DEF TypeInv, RestOK, MemoryOK
  <2> QED BY <1>4, <2>1, <2>2 DEF Current, IsPresent
<1> QED BY <1>1, <1>3, <1>4 DEF IsNull, IsPresent

\* Metadata that says the same of an object that is the same.
LEMMA LeadSame ==
  ASSUME CacheInv, TypeInv, NEW q \in Ptr,
         meta'[q].kind = meta[q].kind, meta'[q].addr = meta[q].addr, meta'[q].id = meta[q].id,
         IsPresent(q) => data'[meta[q].addr] = data[meta[q].addr],
         meta[q].kind = "far" => far'[oid[q]] = far[oid[q]]
  PROVE  Lead(q)' = Lead(q)
<1>1. PointerOK(q) BY DEF CacheInv, MemoryInv
<1>2. meta[q].kind \in {"null", "present", "far"} BY DEF TypeInv, RestOK, MemoryOK, Meta
<1>3. CASE meta[q].kind = "null" BY <1>3 DEF Lead, IsNull
<1>4. CASE meta[q].kind = "present" BY <1>4 DEF Lead, IsNull, IsPresent, Current
<1>5. CASE meta[q].kind = "far" BY <1>1, <1>5 DEF Lead, IsNull, IsPresent, Current, PointerOK
<1> QED BY <1>2, <1>3, <1>4, <1>5

\* Filling a slot where no object is changes no object.
LEMMA LeadBesidesSlot ==
  ASSUME CacheInv, TypeInv, NEW p, NEW a \in Addr, hdr[a].ptr \in {NULL, p},
         \A q \in Ptr \ {p} : meta'[q] = meta[q],
         \A x \in Addr \ {a} : data'[x] = data[x], UNCHANGED far
  PROVE  \A q \in Ptr \ {p} : Lead(q)' = Lead(q)
<1> SUFFICES ASSUME NEW q \in Ptr \ {p} PROVE Lead(q)' = Lead(q) OBVIOUS
<1>1. IsPresent(q) => meta[q].addr \in Addr /\ hdr[meta[q].addr].ptr = q /\ q # NULL
  BY PresentFacts
<1> QED BY <1>1, LeadSame

\* swap_in leads to the same contents.
LEMMA SwapInLeads ==
  ASSUME CacheInv, SwapInUsesOwnId, TypeInv, NEW t \in Swapper,
         SwapInFetch(t) \/ SwapInPresent(t)
  PROVE  \A q \in Ptr : Lead(q)' = Lead(q)
<1> USE ThreadKinds
<1>0. /\ t \in Thread /\ SwapInOK(t) /\ ThreadOK(t) /\ loc[t].pc \in {"fetch", "si_present"}
  BY DEF CacheInv, ThreadsInv, LocalInv, TypeInv, RestOK, LocalsOK, SwapInFetch, SwapInPresent
<1> SUFFICES ASSUME NEW p \in Ptr, p = loc[t].ptr, NEW a \in Addr, a = loc[t].addr
             PROVE  \A q \in Ptr : Lead(q)' = Lead(q)
  BY <1>0 DEF ThreadOK
<1>1. CASE SwapInFetch(t)
  <2>1. loc[t].pc = "fetch" /\ UNCHANGED <<meta, far, oid>> BY <1>1 DEF SwapInFetch
  <2>2. hdr[a].ptr = NULL BY <1>0, <2>1, PinnedSlot DEF Pinning, Unbuilt
  <2>3. \A x \in Addr \ {a} : data'[x] = data[x]
    <3>1. PICK v : data' = [data EXCEPT ![a] = v] BY <1>1 DEF SwapInFetch
    <3> QED BY <3>1 DEF TypeInv, RestOK, MemoryOK
  <2>4. NULL \notin Ptr BY ConstantsOK DEF ObjId
  <2>5. \A q \in Ptr \ {NULL} : Lead(q)' = Lead(q)
    BY <2>1, <2>2, <2>3, LeadBesidesSlot
  <2> QED BY <2>4, <2>5
<1>2. CASE SwapInPresent(t)
  <2>1. loc[t].pc = "si_present" /\ UNCHANGED <<hdr, data, far, oid>> BY <1>2 DEF SwapInPresent
  <2>2. meta'[p] = PresentMeta(a, FALSE, FALSE) /\ \A q \in Ptr \ {p} : meta'[q] = meta[q]
    <3>1. meta' = [meta EXCEPT ![p] = PresentMeta(a, FALSE, FALSE)] BY <1>2 DEF SwapInPresent
    <3> QED BY <3>1 DEF TypeInv, RestOK, MemoryOK
  <2>3. /\ ~IsNull(p) /\ ~IsPresent(p) /\ data[a] = far[oid[p]] /\ hdr[a].ptr = p
    BY <1>0, <2>1 DEF SwapInOK, Inside, Fetching, Heading, Allocating, NewObject
  <2>4. meta[p].kind \in {"null", "present", "far"} BY DEF TypeInv, RestOK, MemoryOK, Meta
  <2>5. PointerOK(p) BY DEF CacheInv, MemoryInv
  <2>6. Lead(p) = far[oid[p]] BY <2>3, <2>4, <2>5 DEF Lead, Current, IsNull, IsPresent, PointerOK
  <2>7. Lead(p)' = data'[a] BY <2>2 DEF Lead, Current, IsNull, IsPresent, PresentMeta
  <2>8. \A q \in Ptr \ {p} : Lead(q)' = Lead(q) BY <2>1, <2>2, <2>3, LeadBesidesSlot
  <2> QED BY <2>1, <2>3, <2>6, <2>7, <2>8
<1> QED BY <1>1, <1>2

\* So do the marker and the write-backer, whether they copy or write back.
LEMMA SlaveLeads ==
  ASSUME CacheInv, TypeInv, NEW s \in Slave,
         SetEvacuation(s) \/ SwapOutCopy(s) \/ SwapOutWrite(s) \/ SwapOutMeta(s)
  PROVE  \A q \in Ptr : Lead(q)' = Lead(q)
<1> USE ThreadKinds
<1>0. SlaveOK(s) /\ ThreadOK(s)
  BY DEF CacheInv, ThreadsInv, LocalInv, TypeInv, RestOK, LocalsOK
<1>1. CASE SetEvacuation(s)
  <2> SUFFICES ASSUME NEW p \in Ptr, p = hdr[loc[s].src].ptr
               PROVE  \A q \in Ptr : Lead(q)' = Lead(q)
    BY <1>1, SlaveSource DEF SetEvacuation
  <2>1. UNCHANGED <<data, far, oid>> BY <1>1 DEF SetEvacuation
  <2>2. \A q \in Ptr : /\ meta'[q].kind = meta[q].kind /\ meta'[q].addr = meta[q].addr
                       /\ meta'[q].id = meta[q].id
    <3>1. meta \in [Ptr -> Meta] BY DEF TypeInv, RestOK, MemoryOK
    <3>2. meta' = meta \/ meta' = [meta EXCEPT ![p].evac = TRUE]
      BY <1>1 DEF SetEvacuation
    <3>3. CASE meta' = meta BY <3>3
    <3>4. CASE meta' = [meta EXCEPT ![p].evac = TRUE]
      <4>1. meta'[p] = [meta[p] EXCEPT !.evac = TRUE] /\ \A q \in Ptr \ {p} : meta'[q] = meta[q]
        BY <3>1, <3>4
      <4>2. meta'[p].kind = meta[p].kind /\ meta'[p].addr = meta[p].addr /\ meta'[p].id = meta[p].id
        BY <3>1, <4>1 DEF Meta
      <4> QED BY <4>1, <4>2
    <3> QED BY <3>2, <3>3, <3>4
  <2> QED BY <2>1, <2>2, LeadSame
<1>2. ASSUME loc[s].pc \in SwapOutPC, NEW p \in Ptr, p = loc[s].ptr, NEW old \in Addr, old = loc[s].src,
             SwapOutCopy(s) \/ SwapOutWrite(s) \/ SwapOutMeta(s)
      PROVE  \A q \in Ptr : Lead(q)' = Lead(q)
  <2>1. /\ loc[s].id = oid[p] /\ IsPresent(p) /\ meta[p].addr = old /\ hdr[old].ptr = p
    BY <1>2, SwapOutFacts
  <2>2. Lead(p) = data[old] BY <2>1 DEF Lead, Current, IsPresent, IsNull
  <2>3. CASE SwapOutCopy(s)
    <3> SUFFICES ASSUME NEW a \in Addr, a = loc[s].addr PROVE \A q \in Ptr : Lead(q)' = Lead(q)
      BY <2>3, PinnedSlot DEF SwapOutCopy, Pinning, Unbuilt
    <3>1. hdr[a].ptr = NULL BY <2>3, PinnedSlot DEF SwapOutCopy, Pinning, Unbuilt
    <3>2. UNCHANGED <<far, oid>> /\ data' = [data EXCEPT ![a] = data[old]]
      BY <1>2, <2>3 DEF SwapOutCopy
    <3>3. data'[a] = data[old] /\ \A x \in Addr \ {a} : data'[x] = data[x]
      BY <3>2 DEF TypeInv, RestOK, MemoryOK
    <3>4. meta' = [meta EXCEPT ![p] = PresentMeta(a, FALSE, meta[p].dirty)]
      BY <1>2, <2>3 DEF SwapOutCopy
    <3>5. /\ meta'[p] = PresentMeta(a, FALSE, meta[p].dirty)
          /\ \A q \in Ptr \ {p} : meta'[q] = meta[q]
      BY <3>4 DEF TypeInv, RestOK, MemoryOK
    <3>6. Lead(p)' = data'[a] BY <3>5 DEF Lead, Current, IsNull, IsPresent, PresentMeta
    <3>7. \A q \in Ptr \ {p} : Lead(q)' = Lead(q)
      BY <3>1, <3>2, <3>3, <3>5, LeadBesidesSlot
    <3> QED BY <2>2, <3>3, <3>6, <3>7
  <2>4. CASE SwapOutWrite(s)
    <3>1. UNCHANGED <<meta, data>> BY <2>4 DEF SwapOutWrite, memVars
    <3>2. \A q \in Ptr \ {p} : far'[oid[q]] = far[oid[q]]
      <4>1. far' = far \/ far' = [far EXCEPT ![oid[p]] = data[old]]
        BY <1>2, <2>1, <2>4 DEF SwapOutWrite
      <4>2. \A q \in Ptr \ {p} : oid[q] \in ObjId /\ oid[q] # oid[p] BY IdsDistinct
      <4> QED BY <4>1, <4>2 DEF TypeInv, RestOK, MemoryOK
    <3>3. \A q \in Ptr : meta[q].kind = "far" => far'[oid[q]] = far[oid[q]]
      BY <2>1, <3>2 DEF IsPresent
    <3> QED BY <3>1, <3>3, LeadSame
  <2>5. CASE SwapOutMeta(s)
    <3>1. UNCHANGED <<data, far, oid>> /\ far[oid[p]] = data[old]
      BY <1>0, <1>2, <2>1, <2>5 DEF SwapOutMeta, SlaveOK, SwapOutPC
    <3>2. meta' = [meta EXCEPT ![p] = FarMeta(oid[p])] BY <1>2, <2>1, <2>5 DEF SwapOutMeta
    <3>3. meta'[p] = FarMeta(oid[p]) /\ \A q \in Ptr \ {p} : meta'[q] = meta[q]
      BY <3>2 DEF TypeInv, RestOK, MemoryOK
    <3>4. Lead(p)' = far'[oid[p]] BY <3>3 DEF Lead, Current, IsNull, IsPresent, FarMeta
    <3>5. \A q \in Ptr \ {p} : Lead(q)' = Lead(q)
      BY <2>1, <3>1, <3>3, LeadBesidesSlot
    <3> QED BY <2>2, <3>1, <3>4, <3>5
  <2> QED BY <1>2, <2>3, <2>4, <2>5
<1>3. ASSUME loc[s].pc \in SwapOutPC, SwapOutCopy(s) \/ SwapOutWrite(s) \/ SwapOutMeta(s)
      PROVE  \A q \in Ptr : Lead(q)' = Lead(q)
  BY <1>2, <1>3, SwapOutFacts
<1> QED BY <1>1, <1>3 DEF SwapOutCopy, SwapOutWrite, SwapOutMeta, SwapOutPC

\* A migrating mutator and a dereferencing one change nothing either.
LEMMA MutatorLeads ==
  ASSUME CacheInv, TypeInv, NEW m \in Mutator, DerefPresent(m) \/ MigrateCopy(m)
  PROVE  \A q \in Ptr : Lead(q)' = Lead(q)
<1> USE ThreadKinds
<1>0. /\ m \in Thread /\ m \in Swapper /\ MutatorOK(m) /\ ThreadOK(m)
      /\ loc[m].pc \in {"deref", "copy"}
  BY DEF CacheInv, ThreadsInv, LocalInv, TypeInv, RestOK, LocalsOK, DerefPresent, MigrateCopy
<1> SUFFICES ASSUME NEW p \in Ptr, p = loc[m].ptr PROVE \A q \in Ptr : Lead(q)' = Lead(q)
  BY <1>0 DEF ThreadOK
<1>1. CASE DerefPresent(m)
  <2>1. UNCHANGED <<data, far, oid>> BY <1>1 DEF DerefPresent
  <2>2. meta' = [meta EXCEPT ![p].hot = TRUE, ![p].dirty = @ \/ loc[m].flag]
    BY <1>1 DEF DerefPresent
  <2>3. \A q \in Ptr : /\ meta'[q].kind = meta[q].kind /\ meta'[q].addr = meta[q].addr
                       /\ meta'[q].id = meta[q].id
    BY <2>2 DEF TypeInv, RestOK, MemoryOK, Meta
  <2> QED BY <2>1, <2>3, LeadSame
<1>2. CASE MigrateCopy(m)
  <2>0. loc[m].pc = "copy" BY <1>2 DEF MigrateCopy
  <2> SUFFICES ASSUME NEW a \in Addr, a = loc[m].addr, NEW old \in Addr, old = loc[m].src
               PROVE  \A q \in Ptr : Lead(q)' = Lead(q)
    BY <1>0, <2>0 DEF ThreadOK, Heading
  <2>1. IsPresent(p) /\ meta[p].addr = old
    BY <1>0, <2>0 DEF MutatorOK, Heading, IsEvacuation
  <2>2. Lead(p) = data[old] BY <2>1 DEF Lead, Current, IsPresent, IsNull
  <2>3. hdr[a].ptr = NULL BY <1>0, <2>0, PinnedSlot DEF Pinning, Unbuilt
  <2>4. UNCHANGED <<far, oid>> /\ data' = [data EXCEPT ![a] = data[old]] BY <1>2 DEF MigrateCopy
  <2>5. data'[a] = data[old] /\ \A x \in Addr \ {a} : data'[x] = data[x]
    BY <2>4 DEF TypeInv, RestOK, MemoryOK
  <2>6. meta' = [meta EXCEPT ![p] = PresentMeta(a, meta[p].hot, meta[p].dirty)]
    BY <1>2 DEF MigrateCopy
  <2>7. /\ meta'[p] = PresentMeta(a, meta[p].hot, meta[p].dirty)
        /\ \A q \in Ptr \ {p} : meta'[q] = meta[q]
    BY <2>6 DEF TypeInv, RestOK, MemoryOK
  <2>8. Lead(p)' = data'[a] BY <2>7 DEF Lead, Current, IsNull, IsPresent, PresentMeta
  <2>9. \A q \in Ptr \ {p} : Lead(q)' = Lead(q) BY <2>3, <2>4, <2>5, <2>7, LeadBesidesSlot
  <2> QED BY <2>2, <2>5, <2>8, <2>9
<1> QED BY <1>1, <1>2

\* A new pointer leads to whatever its slot holds.
LEMMA BuildLeads ==
  ASSUME CacheInv, TypeInv, NEW m \in Mutator, BuildObject(m)
  PROVE  \E p \in Ptr : /\ p = loc[m].ptr /\ IsNull(p) /\ Lead(p)' \in Value
                        /\ \A q \in Ptr \ {p} : Lead(q)' = Lead(q)
<1> USE ThreadKinds
<1>0. m \in Thread /\ m \in Swapper /\ MutatorOK(m) /\ ThreadOK(m) /\ loc[m].pc = "build"
  BY DEF CacheInv, ThreadsInv, LocalInv, TypeInv, RestOK, LocalsOK, BuildObject
<1>h. loc[m].ptr \in Ptr /\ loc[m].addr \in Addr BY <1>0 DEF ThreadOK, Heading
<1> SUFFICES ASSUME NEW p \in Ptr, p = loc[m].ptr, NEW a \in Addr, a = loc[m].addr
             PROVE  /\ IsNull(p) /\ Lead(p)' \in Value
                    /\ \A q \in Ptr \ {p} : Lead(q)' = Lead(q)
  BY <1>h
<1>1. IsNull(p) BY <1>0 DEF MutatorOK, Heading
<1>2. hdr[a].ptr = NULL BY <1>0, PinnedSlot DEF Pinning, Unbuilt
<1>3. UNCHANGED <<data, far, oid>> /\ meta' = [meta EXCEPT ![p] = PresentMeta(a, TRUE, TRUE)]
  BY DEF BuildObject
<1>4. meta'[p] = PresentMeta(a, TRUE, TRUE) /\ \A q \in Ptr \ {p} : meta'[q] = meta[q]
  BY <1>3 DEF TypeInv, RestOK, MemoryOK
<1>5. Lead(p)' = data[a] BY <1>3, <1>4 DEF Lead, Current, IsNull, IsPresent, PresentMeta
<1>6. data[a] \in Value BY DEF TypeInv, RestOK, MemoryOK
<1>7. \A q \in Ptr \ {p} : Lead(q)' = Lead(q) BY <1>2, <1>3, <1>4, LeadBesidesSlot
<1> QED BY <1>1, <1>5, <1>6, <1>7

\* A store and a reallocation give the pointer the contents they say.
LEMMA StoreLeads ==
  ASSUME CacheInv, TypeInv, NEW m \in Mutator, NEW v, Store(m, v) \/ ReallocateInit(m, v)
  PROVE  \E p \in Ptr : /\ p = loc[m].ptr /\ IsPresent(p) /\ loc[m].flag /\ Lead(p)' = v
                        /\ \A q \in Ptr \ {p} : Lead(q)' = Lead(q)
<1> USE ThreadKinds
<1>0. m \in Thread /\ m \in Swapper /\ MutatorOK(m) /\ ThreadOK(m) /\ loc[m].pc \in {"access", "re_init"}
  BY DEF CacheInv, ThreadsInv, LocalInv, TypeInv, RestOK, LocalsOK, Store, ReallocateInit
<1>h. loc[m].ptr \in Ptr /\ loc[m].addr \in Addr BY <1>0 DEF ThreadOK, Heading
<1> SUFFICES ASSUME NEW p \in Ptr, p = loc[m].ptr, NEW a \in Addr, a = loc[m].addr
             PROVE  /\ IsPresent(p) /\ loc[m].flag /\ Lead(p)' = v
                    /\ \A q \in Ptr \ {p} : Lead(q)' = Lead(q)
  BY <1>h
<1>1. IsPresent(p) /\ hdr[HandleOf(m)].ptr = p
  BY <1>0 DEF MutatorOK, HasHandle, Heading
<1>2. CASE Store(m, v)
  <2>1. /\ loc[m].pc = "access" /\ loc[m].flag /\ UNCHANGED <<meta, far, oid>>
        /\ data' = [data EXCEPT ![a] = v]
    BY <1>2 DEF Store
  <2>2. meta[p].addr = a /\ hdr[a].ptr = p
    BY <1>0, <1>1, <2>1 DEF MutatorOK, HasHandle, HandleOf
  <2>3. data'[a] = v /\ \A x \in Addr \ {a} : data'[x] = data[x]
    BY <2>1 DEF TypeInv, RestOK, MemoryOK
  <2>4. Lead(p)' = data'[a] BY <1>1, <2>1, <2>2 DEF Lead, Current, IsNull, IsPresent
  <2>5. \A q \in Ptr \ {p} : Lead(q)' = Lead(q) BY <2>1, <2>2, <2>3, LeadBesidesSlot
  <2> QED BY <1>1, <2>1, <2>3, <2>4, <2>5
<1>3. CASE ReallocateInit(m, v)
  <2>1. /\ loc[m].pc = "re_init" /\ UNCHANGED far
        /\ data' = [data EXCEPT ![a] = v] /\ meta' = [meta EXCEPT ![p] = PresentMeta(a, TRUE, TRUE)]
    BY <1>3 DEF ReallocateInit
  <2>2. loc[m].flag BY <1>0, <2>1 DEF MutatorOK, Heading
  <2>3. hdr[a].ptr = NULL BY <1>0, <2>1, PinnedSlot DEF Pinning, Unbuilt
  <2>4. data'[a] = v /\ \A x \in Addr \ {a} : data'[x] = data[x]
    BY <2>1 DEF TypeInv, RestOK, MemoryOK
  <2>5. meta'[p] = PresentMeta(a, TRUE, TRUE) /\ \A q \in Ptr \ {p} : meta'[q] = meta[q]
    BY <2>1 DEF TypeInv, RestOK, MemoryOK
  <2>6. Lead(p)' = data'[a] BY <2>5 DEF Lead, Current, IsNull, IsPresent, PresentMeta
  <2>7. \A q \in Ptr \ {p} : Lead(q)' = Lead(q)
    BY <2>1, <2>3, <2>4, <2>5, LeadBesidesSlot
  <2> QED BY <1>1, <2>2, <2>4, <2>6, <2>7
<1> QED BY <1>2, <1>3

\* The steps that touch neither the metadata nor any contents.
LEMMA QuietLeads ==
  ASSUME UNCHANGED <<meta, data, far, oid>>
  PROVE  \A q \in Ptr : Lead(q)' = Lead(q)
BY DEF Lead, Current, IsNull, IsPresent

\* Every step but an allocation, a store and a reallocation leads to the same contents.
LEMMA StepLeads ==
  ASSUME CacheInv, SwapInUsesOwnId, TypeInv, [Next]_vars
  PROVE  \/ \A q \in Ptr : Lead(q)' = Lead(q)
         \/ \E m \in Mutator : BuildObject(m)
         \/ \E m \in Mutator, v \in Value : Store(m, v) \/ ReallocateInit(m, v)
<1> USE ThreadKinds DEF vars, memVars, poolVars, gcVars, gcOnly
<1>1. CASE UNCHANGED vars BY <1>1, QuietLeads
<1>2. ASSUME NEW m \in Mutator, MutatorStep(m),
             ~BuildObject(m), ~\E v \in Value : Store(m, v) \/ ReallocateInit(m, v)
      PROVE  \A q \in Ptr : Lead(q)' = Lead(q)
  <2>1. CASE DerefPresent(m) \/ MigrateCopy(m) BY <2>1, MutatorLeads
  <2>2. CASE ~(DerefPresent(m) \/ MigrateCopy(m))
    <3>1. UNCHANGED <<meta, data, far, oid>>
      BY <1>2, <2>2 DEF MutatorStep, AllocatePtr, ScopeEnter, AllocateOnce, MigrateBegin,
                         ReallocateBegin, ReallocateFree
    <3> QED BY <3>1, QuietLeads
  <2> QED BY <2>1, <2>2
<1>3. ASSUME NEW t \in Swapper, SwapperStep(t) PROVE \A q \in Ptr : Lead(q)' = Lead(q)
  <2>1. CASE SwapInFetch(t) \/ SwapInPresent(t) BY <2>1, SwapInLeads
  <2>2. CASE ~(SwapInFetch(t) \/ SwapInPresent(t))
    <3>1. UNCHANGED <<meta, data, far, oid>>
      BY <1>3, <2>2 DEF SwapperStep, SwapIn, SwapInReadId, SwapInCheck, SwapInLock, SwapInRecheck,
                         SwapInFinish, WaitForGC, AllocateBlocking, AllocateFails
    <3> QED BY <3>1, QuietLeads
  <2> QED BY <2>1, <2>2
<1>4. CASE \/ \E t \in Scoped : DerefFar(t) \/ ScopeExit(t)
           \/ \E f \in Prefetcher : PrefetchSkip(f) \/ \E p \in Ptr : Prefetch(f, p)
           \/ \E g \in Pager, p \in Ptr : PagerVisit(g, p)
  <2>1. UNCHANGED <<meta, data, far, oid>>
    BY <1>4 DEF DerefFar, ScopeExit, PrefetchSkip, Prefetch, PagerVisit
  <2> QED BY <2>1, QuietLeads
<1>5. ASSUME NEW s \in Slave, SlaveStep(s) PROVE \A q \in Ptr : Lead(q)' = Lead(q)
  <2>1. CASE SetEvacuation(s) \/ SwapOutCopy(s) \/ SwapOutWrite(s) \/ SwapOutMeta(s)
    BY <2>1, SlaveLeads
  <2>2. CASE ~(SetEvacuation(s) \/ SwapOutCopy(s) \/ SwapOutWrite(s) \/ SwapOutMeta(s))
    <3>1. UNCHANGED <<meta, data, far, oid>>
      BY <1>5, <2>2 DEF SlaveStep, SlaveScan, SlaveLock, SwapOutSkip, SwapOutDecide, SwapOutAllocate
    <3> QED BY <3>1, QuietLeads
  <2> QED BY <2>1, <2>2
<1>6. CASE MasterStep BY <1>6, MasterAlone, QuietLeads
<1>7. CASE Exited BY <1>1, <1>7 DEF Exited
<1> QED BY <1>1, <1>2, <1>3, <1>4, <1>5, <1>6, <1>7 DEF Next

\* Of all that swap-ins, the collector and other threads do, nothing changes what a
\* pointer leads to: only a store or a reallocation through it does.
THEOREM ContentsStay == Spec /\ []SwapInUsesOwnId => ContentStable
<1>1. ASSUME CacheInv, SwapInUsesOwnId, TypeInv, TypeInv', [Next]_vars, NEW p \in Ptr,
             ~IsNull(p), Current(p)' # Current(p)
      PROVE  \E m \in Mutator, v \in Value : (Store(m, v) \/ ReallocateInit(m, v)) /\ loc[m].ptr = p
  <2>1. Lead(p) = Current(p) /\ Lead(p) # NULL
    <3>1. Current(p) \in Value BY <1>1, LeadValue
    <3> QED BY <1>1, <3>1, ConstantsOK DEF Lead
  <2>2. Lead(p)' # Lead(p) BY <1>1, <2>1 DEF Lead
  <2>3. ASSUME NEW m \in Mutator, BuildObject(m) PROVE FALSE
    BY <1>1, <2>2, <2>3, BuildLeads
  <2>4. ASSUME NEW m \in Mutator, NEW v \in Value, Store(m, v) \/ ReallocateInit(m, v)
        PROVE  loc[m].ptr = p
    BY <1>1, <2>2, <2>4, StoreLeads
  <2> QED BY <1>1, <2>2, <2>3, <2>4, StepLeads
<1>2. CacheInv /\ SwapInUsesOwnId /\ TypeInv /\ TypeInv' /\ [Next]_vars
      => [\A p \in Ptr : ~IsNull(p) /\ Current(p)' # Current(p)
            => \E m \in Mutator, v \in Value :
                  (Store(m, v) \/ ReallocateInit(m, v)) /\ loc[m].ptr = p]_vars
  BY <1>1
<1> QED BY <1>2, CacheInvHolds, TypeInvHolds, PTL DEF ContentStable, Spec

\* Where only deref scopes swap in, no step at all but these changes them.
THEOREM ScopesKeepContents ==
  ASSUME Pager = {}
  PROVE  Spec => ContentStable
BY ScopesUseOwnId, ContentsStay, PTL
=============================================================================
