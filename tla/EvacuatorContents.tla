-------------------------- MODULE EvacuatorContents --------------------------
(***************************************************************************)
(* Why no contents are lost.  CacheInv says what holds between pointers,   *)
(* object headers, locks, the phase of the collection and the places where *)
(* threads are; it is inductive as long as no swap-in fetches by a foreign *)
(* id, which is what mutators and prefetchers never do.                    *)
(***************************************************************************)
EXTENDS EvacuatorProofs

\* Where a thread is.
Inside(t) == loc[t].pc # "idle" /\ ~Heading(t, "build")
Fetching(t) == Heading(t, "fetch") \/ loc[t].pc = "si_present"
HasHandle(m) == loc[m].pc = "access" \/ Heading(m, "re_init")
HandleOf(m) == IF loc[m].pc = "access" THEN loc[m].addr ELSE loc[m].src
Unbuilt == {"build", "fetch", "copy", "so_copy", "re_init"}
Pinning == Unbuilt \cup {"si_present", "re_free"}
SwapOutPC == {"so_alloc", "so_copy", "so_write", "so_meta"}
Holds(t) ==
  \/ loc[t].pc \in {"si_recheck", "si_present", "si_finish", "mark", "writeback"} \cup SwapOutPC
  \/ Heading(t, "fetch") \/ Heading(t, "copy")

\* The round under way, if it evacuates address a, still waits for thread t.
Safe(t, a) ==
  RegionOf(a) \in from =>
     gc \in {"pick", "mark"} \/ (gc = "observe" /\ status[t] = OtherFlag)

KindOK(t) ==
  /\ t \in Slave => loc[t].pc \in SlavePC \cup {"idle"}
  /\ t \in Swapper => loc[t].pc \notin SlavePC
  /\ loc[t].pc \in {"access", "build", "copy", "re_init", "re_free"} => t \in Mutator
  /\ loc[t].pc \in Allocating =>
        \/ loc[t].after = "fetch"
        \/ t \in Mutator /\ loc[t].after \in {"build", "copy", "re_init"}
  /\ loc[t].pc \in {"alloc", "realloc", "wait"} => loc[t].after # "re_init"

HeaderOK(a) ==
  /\ a[2] > fill[a[1]] => hdr[a].ptr = NULL
  /\ hdr[a].ptr # NULL => ~IsNull(hdr[a].ptr)

PointerOK(p) ==
  /\ meta[p].kind = "far" => meta[p].id = oid[p]
  /\ IsPresent(p) => hdr[meta[p].addr] = NewObject(p, oid[p])
  /\ IsPresent(p) /\ ~IsDirty(p) => data[meta[p].addr] = far[oid[p]]

RoundOK ==
  /\ gc \in {"off", "loop"} => from = {}
  /\ gc # "observe" => \A t \in Scoped : status[t] # OtherFlag
  /\ \A a \in todo : RegionOf(a) \in from /\ hdr[a].ptr # NULL
  /\ todo # {} => gc \in {"mark", "writeback"}

Scanned(a) == \E s \in Slave : loc[s].pc # "idle" /\ loc[s].src = a

Marked(p) ==
  gc \in {"mark", "observe", "writeback", "release"} /\ IsPresent(p)
       /\ RegionOf(meta[p].addr) \in from /\ ~meta[p].evac
    => gc = "mark" /\ (meta[p].addr \in todo \/ Scanned(meta[p].addr))

Evacuated(p) ==
  gc \in {"writeback", "release"} /\ IsPresent(p) /\ RegionOf(meta[p].addr) \in from
    => meta[p].addr \in todo \/ Scanned(meta[p].addr)

LedTo(a) ==
  hdr[a].ptr # NULL /\ ~hdr[a].freed =>
     \/ IsPresent(hdr[a].ptr) /\ meta[hdr[a].ptr].addr = a
     \/ \E t \in Swapper : loc[t].pc = "si_present" /\ loc[t].addr = a
     \/ \E m \in Mutator : loc[m].pc = "re_free" /\ loc[m].src = a
     \/ gc \in {"writeback", "release"} /\ RegionOf(a) \in from /\ a \notin todo /\ ~Scanned(a)

LockOK(t) == Holds(t) => lock[loc[t].id] = t

SlotOK(t) ==
  /\ loc[t].pc \in Pinning => /\ t \in pins[RegionOf(loc[t].addr)]
                              /\ loc[t].addr[2] <= fill[RegionOf(loc[t].addr)]
  /\ loc[t].pc \in Unbuilt => hdr[loc[t].addr].ptr = NULL

SwapInOK(t) ==
  LET p == loc[t].ptr IN
  /\ Inside(t) => ~IsNull(p) /\ (t \in Scoped => status[t] # "out")
  /\ t \in Scoped =>
       /\ loc[t].pc \in {"si_read", "si_check", "si_lock", "si_recheck"} /\ IsPresent(p) =>
            Safe(t, meta[p].addr)
       /\ loc[t].pc \in {"si_check", "si_lock", "si_recheck"} =>
            loc[t].id = oid[p] \/ IsPresent(p)
       /\ Heading(t, "fetch") => loc[t].id = oid[p]
  /\ loc[t].pc \in {"si_check", "si_lock", "si_recheck"} \/ Fetching(t) =>
       loc[t].id = JunkId \/ loc[t].id[1] # p \/ loc[t].id[2] <= oid[p][2]
  /\ Fetching(t) /\ loc[t].id = oid[p] => ~IsPresent(p)
  /\ loc[t].pc = "si_present" => /\ loc[t].id = oid[p]
                                 /\ hdr[loc[t].addr] = NewObject(p, oid[p])
                                 /\ data[loc[t].addr] = far[oid[p]]

MutatorOK(m) ==
  LET p == loc[m].ptr  h == HandleOf(m) IN
  /\ Heading(m, "build") => IsNull(p)
  /\ Heading(m, "copy") => loc[m].id = oid[p] /\ IsEvacuation(p) /\ meta[p].addr = loc[m].src
  /\ HasHandle(m) =>
       /\ IsPresent(p) /\ hdr[h].ptr = p /\ Safe(m, h)
       /\ data[h] = data[meta[p].addr]
       /\ loc[m].flag => IsDirty(p)
       /\ meta[p].evac /\ ~loc[m].flag =>
            RegionOf(meta[p].addr) \in from /\ gc \in {"mark", "observe"}
       /\ \/ meta[p].addr = h
          \/ /\ ~loc[m].flag /\ gc \in {"mark", "observe"}
             /\ RegionOf(h) \in from /\ RegionOf(meta[p].addr) \notin from
  /\ Heading(m, "re_init") => loc[m].flag
  /\ loc[m].pc = "nb_alloc" /\ loc[m].after = "re_init" => loc[m].addr = loc[m].src
  /\ loc[m].pc = "re_free" =>
       /\ IsPresent(p) /\ meta[p].addr = loc[m].addr /\ loc[m].flag /\ IsDirty(p)
       /\ hdr[loc[m].src].ptr = p /\ Safe(m, loc[m].src) /\ loc[m].src # loc[m].addr

SlaveOK(s) ==
  LET a == loc[s].src  p == hdr[a].ptr IN
  loc[s].pc # "idle" =>
    /\ RegionOf(a) \in from /\ a \notin todo /\ p # NULL /\ loc[s].id = hdr[a].id
    /\ loc[s].pc = "mark" => gc = "mark"
    /\ loc[s].pc \in SwapOutPC \cup {"writeback"} => gc = "writeback"
    /\ loc[s].pc \in SwapOutPC =>
         /\ loc[s].ptr = p /\ IsPresent(p) /\ meta[p].addr = a
         /\ loc[s].pc # "so_meta" => loc[s].flag = IsDirty(p)
         /\ loc[s].pc = "so_meta" => far[oid[p]] = data[a]

\* No two threads build in one slot or for one pointer, no two slaves work on one
\* object, and a mutator that writes has its pointer to itself.
Apart(t, u) ==
  /\ loc[t].pc \in Unbuilt /\ loc[u].pc \in Unbuilt => loc[t].addr # loc[u].addr
  /\ t \in Slave /\ u \in Slave /\ loc[t].pc # "idle" /\ loc[u].pc # "idle" =>
       loc[t].src # loc[u].src
  /\ t \in Mutator /\ u \in Mutator =>
       /\ Heading(t, "build") /\ Heading(u, "build") => loc[t].ptr # loc[u].ptr
       /\ Inside(t) /\ Inside(u) /\ loc[t].ptr = loc[u].ptr => ~loc[t].flag /\ ~loc[u].flag

\* What is known of one thread, and of two.
LocalInv(t) ==
  /\ KindOK(t) /\ LockOK(t) /\ SlotOK(t)
  /\ t \in Swapper => SwapInOK(t)
  /\ t \in Mutator => MutatorOK(t)
  /\ t \in Slave => SlaveOK(t)

MemoryInv ==
  /\ \A a \in Addr : HeaderOK(a) /\ LedTo(a)
  /\ \A p \in Ptr : PointerOK(p) /\ Marked(p) /\ Evacuated(p)

ThreadsInv ==
  /\ \A t \in Thread : LocalInv(t)
  /\ \A t, u \in Thread : t # u => Apart(t, u)

CacheInv == MemoryInv /\ RoundOK /\ ThreadsInv

-----------------------------------------------------------------------------
(* Steps that leave the memory and the round alone.                         *)

\* A thread other than the one that moves keeps what is known of it.
LEMMA BystanderKept ==
  ASSUME NEW u \in Thread, LocalInv(u), TypeInv, TypeInv',
         UNCHANGED <<meta, hdr, data, far, oid, from, gc, todo, expected_status>>,
         loc'[u] = loc[u], u \in Scoped => status'[u] = status[u],
         Holds(u) => lock'[loc[u].id] = u,
         \A r \in Region : fill'[r] >= fill[r] /\ (u \in pins[r] => u \in pins'[r])
  PROVE  LocalInv(u)'
<1> USE DEF LocalInv
<1>1. KindOK(u)' BY DEF KindOK
<1>2. LockOK(u)' BY DEF LockOK, Holds, Heading
<1>3. SlotOK(u)'
  <2>1. ASSUME loc[u].pc \in Pinning
        PROVE  loc[u].addr \in Addr /\ RegionOf(loc[u].addr) \in Region
    <3>1. loc[u].addr \in Addr
      BY <2>1 DEF TypeInv, RestOK, LocalsOK, ThreadOK, Heading, Pinning, Unbuilt
    <3> QED BY <3>1 DEF Addr, RegionOf
  <2>2. loc[u].pc \in Pinning => /\ u \in pins'[RegionOf(loc[u].addr)]
                                 /\ loc[u].addr[2] <= fill'[RegionOf(loc[u].addr)]
    BY <2>1 DEF SlotOK, TypeInv, PoolInv, PoolTypeOK, Addr
  <2> QED BY <2>2 DEF SlotOK, Pinning
<1>4. u \in Swapper => SwapInOK(u)'
  BY DEF SwapInOK, Inside, Heading, Fetching, Safe, OtherFlag, IsNull, IsPresent
<1>5. u \in Mutator => MutatorOK(u)'
  BY ThreadKinds DEF MutatorOK, HasHandle, HandleOf, Heading, Safe, OtherFlag, IsNull, IsPresent,
                     IsDirty, IsEvacuation
<1>6. u \in Slave => SlaveOK(u)'
  BY DEF SlaveOK, IsPresent, IsDirty
<1> QED BY <1>1, <1>2, <1>3, <1>4, <1>5, <1>6

LEMMA QuietStep ==
  ASSUME CacheInv, TypeInv, TypeInv', NEW t \in Thread,
         UNCHANGED <<meta, hdr, data, far, oid, from, gc, todo, expected_status>>,
         \A u \in Thread \ {t} : /\ loc'[u] = loc[u]
                                 /\ u \in Scoped => status'[u] = status[u]
                                 /\ Holds(u) => lock'[loc[u].id] = u,
         \A r \in Region : /\ fill'[r] >= fill[r]
                           /\ \A u \in Thread \ {t} : u \in pins[r] => u \in pins'[r],
         t \in Scoped => status'[t] \in {status[t], "out", expected_status},
         loc[t].pc \notin {"si_present", "re_free"},
         t \in Slave => loc[t].pc # "idle" /\ loc'[t].pc # "idle" /\ loc'[t].src = loc[t].src,
         LocalInv(t)', \A u \in Thread \ {t} : Apart(t, u)'
  PROVE  CacheInv'
<1> USE DEF CacheInv
<1>1. \A a : Scanned(a)' <=> Scanned(a)
  BY ThreadKinds DEF Scanned
<1>2. ASSUME NEW a \in Addr PROVE HeaderOK(a)'
  <2>1. HeaderOK(a) BY DEF MemoryInv
  <2>2. a[2] > fill'[a[1]] => a[2] > fill[a[1]]
    BY DEF TypeInv, PoolInv, PoolTypeOK, Addr
  <2> QED BY <2>1, <2>2 DEF HeaderOK, IsNull
<1>3. ASSUME NEW a \in Addr PROVE LedTo(a)'
  <2>1. LedTo(a) BY DEF MemoryInv
  <2> QED BY <1>1, <2>1, ThreadKinds DEF LedTo, IsPresent
<1>4. ASSUME NEW p \in Ptr PROVE PointerOK(p)' /\ Marked(p)' /\ Evacuated(p)'
  <2>1. PointerOK(p) /\ Marked(p) /\ Evacuated(p) BY DEF MemoryInv
  <2> QED BY <1>1, <2>1 DEF PointerOK, Marked, Evacuated, IsPresent, IsDirty
<1>5. RoundOK'
  <2>1. RoundOK /\ OtherFlag' = OtherFlag BY DEF OtherFlag
  <2>2. OtherFlag \notin {"out", expected_status}
    BY DEF OtherFlag, TypeInv, RestOK, ControlOK
  <2>3. gc # "observe" => \A u \in Scoped : status'[u] # OtherFlag
    BY <2>1, <2>2, ThreadKinds DEF RoundOK
  <2> QED BY <2>1, <2>3 DEF RoundOK
<1>6. \A u \in Thread \ {t} : LocalInv(u)'
  BY BystanderKept DEF ThreadsInv
<1>7. ASSUME NEW u \in Thread, NEW v \in Thread, u # v PROVE Apart(u, v)'
  <2>1. CASE u # t /\ v # t
    BY <1>7, <2>1 DEF ThreadsInv, Apart, Heading, Inside
  <2>2. CASE u = t
    BY <1>7, <2>2
  <2>3. CASE v = t
    BY <1>7, <2>3 DEF Apart
  <2> QED BY <2>1, <2>2, <2>3
<1> QED BY <1>2, <1>3, <1>4, <1>5, <1>6, <1>7 DEF MemoryInv, ThreadsInv
\* The locals of thread t after a step, and the others' left alone.
Becomes(t, pc, ptr, id, addr, src, flag, after) ==
  /\ \A u \in Thread \ {t} : loc'[u] = loc[u]
  /\ loc'[t].pc = pc /\ loc'[t].ptr = ptr /\ loc'[t].id = id /\ loc'[t].addr = addr
  /\ loc'[t].src = src /\ loc'[t].flag = flag /\ loc'[t].after = after

LEMMA GotoBecomes ==
  ASSUME TypeInv, NEW t \in Thread, NEW to, Goto(t, to)
  PROVE  Becomes(t, to, loc[t].ptr, loc[t].id, loc[t].addr, loc[t].src, loc[t].flag, loc[t].after)
BY DEF Becomes, Goto, TypeInv, RestOK, LocalsOK, Local

LEMMA IdleBecomes ==
  ASSUME TypeInv, NEW t \in Thread, GoIdle(t)
  PROVE  Becomes(t, "idle", NULL, NULL, NULL, NULL, FALSE, "idle")
BY DEF Becomes, GoIdle, Idle, TypeInv, RestOK, LocalsOK

LEMMA ReturnBecomes ==
  ASSUME TypeInv, NEW t \in Swapper, Return(t)
  PROVE  \/ Becomes(t, "idle", NULL, NULL, NULL, NULL, FALSE, "idle")
         \/ \E pc \in {"deref", "leave"} :
               Becomes(t, pc, loc[t].ptr, NULL, NULL, NULL, loc[t].flag, "idle")
<1>1. t \in Thread BY ThreadKinds
<1>2. CASE t \in Pager
  BY <1>1, <1>2, IdleBecomes DEF Return, GoIdle
<1>3. CASE t \notin Pager
  <2>1. PICK pc \in {"deref", "leave"} :
           loc' = [loc EXCEPT ![t] = [Idle EXCEPT !.pc = pc, !.ptr = loc[t].ptr,
                                                  !.flag = loc[t].flag]]
    BY <1>3 DEF Return
  <2>2. Becomes(t, pc, loc[t].ptr, NULL, NULL, NULL, loc[t].flag, "idle")
    BY <1>1, <2>1 DEF Becomes, Idle, TypeInv, RestOK, LocalsOK
  <2> QED BY <2>2
<1> QED BY <1>2, <1>3

LEMMA ApartKept ==
  ASSUME CacheInv, NEW t \in Thread,
         \A u \in Thread \ {t} : loc'[u] = loc[u],
         Inside(t)' => Inside(t) /\ loc'[t].ptr = loc[t].ptr /\ loc'[t].flag = loc[t].flag,
         Heading(t, "build")' => Heading(t, "build") /\ loc'[t].ptr = loc[t].ptr,
         loc'[t].pc \in Unbuilt =>
            \A u \in Thread \ {t} : loc[u].pc \in Unbuilt => loc'[t].addr # loc[u].addr,
         t \in Slave /\ loc'[t].pc # "idle" => loc[t].pc # "idle" /\ loc'[t].src = loc[t].src
  PROVE  \A u \in Thread \ {t} : Apart(t, u)'
<1> SUFFICES ASSUME NEW u \in Thread \ {t} PROVE Apart(t, u)' OBVIOUS
<1>1. Apart(t, u) BY DEF CacheInv, ThreadsInv
<1>2. loc'[u] = loc[u] OBVIOUS
<1>3. (Heading(u, "build")' <=> Heading(u, "build")) /\ (Inside(u)' <=> Inside(u))
  BY <1>2 DEF Heading, Inside
<1> QED BY <1>1, <1>2, <1>3 DEF Apart

\* A swapper at a place where it has neither a lock nor an address.
PlainPC == {"idle", "deref", "leave", "si_read", "si_check", "si_lock"}

LEMMA PlainOK ==
  ASSUME NEW t \in Swapper, loc'[t].pc \in PlainPC, SwapInOK(t)'
  PROVE  LocalInv(t)' /\ ~Heading(t, "build")' /\ loc'[t].pc \notin Unbuilt
<1>1. /\ loc'[t].pc \notin Allocating \cup SlavePC \cup Pinning \cup Unbuilt
      /\ \A next \in {"build", "fetch", "copy", "re_init"} : ~Heading(t, next)'
  BY DEF PlainPC, Heading, Allocating, SlavePC, Pinning, Unbuilt
<1>2. KindOK(t)' BY <1>1, ThreadKinds DEF KindOK, PlainPC
<1>3. LockOK(t)' /\ SlotOK(t)'
  BY <1>1 DEF LockOK, Holds, SlotOK, SwapOutPC, PlainPC
<1>4. MutatorOK(t)'
  BY <1>1 DEF MutatorOK, HasHandle, PlainPC
<1> QED BY <1>1, <1>2, <1>3, <1>4, ThreadKinds DEF LocalInv

LEMMA SettledOK ==
  ASSUME NEW t \in Swapper, loc'[t].pc \in {"idle", "deref", "leave", "si_read"},
         loc'[t].pc # "idle" => /\ ~IsNull(loc[t].ptr)'
                                /\ t \in Scoped => status'[t] # "out",
         loc'[t].pc = "si_read" => ~IsPresent(loc[t].ptr)'
  PROVE  LocalInv(t)' /\ ~Heading(t, "build")' /\ loc'[t].pc \notin Unbuilt
<1>1. SwapInOK(t)'
  BY DEF SwapInOK, Fetching, Inside, Heading, Allocating
<1> QED BY <1>1, PlainOK DEF PlainPC

\* The id of the lock a thread holds.
LEMMA HeldId ==
  ASSUME TypeInv, NEW t \in Thread, LocalInv(t), Holds(t)
  PROVE  loc[t].id \in ObjId /\ lock[loc[t].id] = t
<1>1. t \in Swapper \/ t \in Slave BY DEF Thread
<1>2. ThreadOK(t) BY DEF TypeInv, RestOK, LocalsOK
<1>3. CASE Heading(t, "fetch") \/ loc[t].pc \in SlavePC \cup {"si_recheck", "si_present", "si_finish"}
  BY <1>2, <1>3 DEF ThreadOK, LocalInv, LockOK
<1>4. CASE Heading(t, "copy")
  <2>1. t \in Mutator BY <1>4 DEF LocalInv, KindOK, Heading
  <2>2. loc[t].pc # "idle" BY <1>4 DEF Heading, Allocating
  <2>3. loc[t].ptr \in Ptr BY <1>2, <2>1, <2>2, ThreadKinds DEF ThreadOK
  <2>4. loc[t].id = oid[loc[t].ptr] BY <1>4, <2>1 DEF LocalInv, MutatorOK
  <2>5. loc[t].id \in ObjId BY <2>3, <2>4 DEF TypeInv, RestOK, MemoryOK, ObjId
  <2> QED BY <2>5 DEF LocalInv, LockOK
<1> QED BY <1>3, <1>4 DEF Holds, SlavePC, SwapOutPC

LEMMA UnlockKeepsLocks ==
  ASSUME CacheInv, TypeInv, NEW t \in Thread, Holds(t), Unlock(t)
  PROVE  \A u \in Thread \ {t} : Holds(u) => lock'[loc[u].id] = u
<1> SUFFICES ASSUME NEW u \in Thread \ {t}, Holds(u) PROVE lock'[loc[u].id] = u OBVIOUS
<1>1. loc[t].id \in ObjId /\ lock[loc[t].id] = t
  BY HeldId DEF CacheInv, ThreadsInv
<1>2. loc[u].id \in ObjId /\ lock[loc[u].id] = u
  BY HeldId DEF CacheInv, ThreadsInv
<1> QED BY <1>1, <1>2 DEF Unlock, TypeInv, RestOK, ControlOK

LEMMA AcquireKeepsLocks ==
  ASSUME CacheInv, TypeInv, NEW t \in Thread, NEW i \in ObjId, Acquire(t, i)
  PROVE  lock'[i] = t /\ \A u \in Thread \ {t} : Holds(u) => lock'[loc[u].id] = u
<1>1. ASSUME NEW u \in Thread \ {t}, Holds(u) PROVE lock'[loc[u].id] = u
  <2>1. loc[u].id \in ObjId /\ lock[loc[u].id] = u /\ u # NULL
    BY <1>1, HeldId, ConstantsOK DEF CacheInv, ThreadsInv
  <2> QED BY <2>1 DEF Acquire, TypeInv, RestOK, ControlOK
<1> QED BY <1>1 DEF Acquire, TypeInv, RestOK, ControlOK

\* Only t's locals change.
LEMMA QuietMove ==
  ASSUME CacheInv, TypeInv, TypeInv', NEW t \in Thread,
         UNCHANGED <<meta, hdr, data, far, oid, from, gc, todo, expected_status, fill, pins, lock,
                     status>>,
         \A u \in Thread \ {t} : loc'[u] = loc[u],
         loc[t].pc \notin {"si_present", "re_free"},
         t \in Slave => loc[t].pc # "idle" /\ loc'[t].pc # "idle" /\ loc'[t].src = loc[t].src,
         LocalInv(t)', \A u \in Thread \ {t} : Apart(t, u)'
  PROVE  CacheInv'
<1>1. \A u \in Thread : Holds(u) => lock'[loc[u].id] = u
  BY DEF CacheInv, ThreadsInv, LocalInv, LockOK
<1>2. \A r \in Region : fill'[r] >= fill[r]
  BY DEF TypeInv, PoolInv, PoolTypeOK
<1> QED BY <1>1, <1>2, QuietStep

LEMMA SwapInQuiet ==
  ASSUME CacheInv, TypeInv, TypeInv', NEW t \in Swapper,
         SwapInReadId(t) \/ SwapInCheck(t) \/ SwapInLock(t) \/ SwapInRecheck(t)
            \/ SwapInFinish(t)
  PROVE  CacheInv'
<1> USE ThreadKinds DEF memVars, gcVars, poolVars
<1>0. /\ t \in Thread /\ t \notin Slave /\ LocalInv(t) /\ SwapInOK(t) /\ ThreadOK(t)
      /\ \A r \in Region : fill[r] >= fill[r]
  BY DEF CacheInv, ThreadsInv, LocalInv, TypeInv, RestOK, LocalsOK, PoolInv, PoolTypeOK
\* swap_in returns without having changed anything.
<1>1. ASSUME Return(t), loc[t].pc \in {"si_check", "si_recheck", "si_finish"}, UNCHANGED <<meta, status>>
      PROVE  /\ \A u \in Thread \ {t} : loc'[u] = loc[u] /\ Apart(t, u)'
             /\ LocalInv(t)'
  <2>1. /\ \A u \in Thread \ {t} : loc'[u] = loc[u]
        /\ loc'[t].pc \in {"idle", "deref", "leave"}
        /\ loc'[t].pc # "idle" => loc'[t].ptr = loc[t].ptr /\ loc'[t].flag = loc[t].flag
    BY <1>1, ReturnBecomes DEF Becomes
  <2>2. Inside(t) /\ ~IsNull(loc[t].ptr) /\ (t \in Scoped => status[t] # "out")
    BY <1>0, <1>1 DEF SwapInOK, Inside, Heading, Allocating
  <2>3. LocalInv(t)' /\ ~Heading(t, "build")' /\ loc'[t].pc \notin Unbuilt
    BY <1>1, <2>1, <2>2, SettledOK DEF IsNull
  <2>4. Inside(t)' => loc'[t].ptr = loc[t].ptr /\ loc'[t].flag = loc[t].flag
    BY <2>1 DEF Inside
  <2>5. \A u \in Thread \ {t} : Apart(t, u)'
    BY <1>0, <2>1, <2>2, <2>3, <2>4, ApartKept
  <2> QED BY <2>1, <2>3, <2>5
<1>2. CASE SwapInReadId(t)
  <2>1. Becomes(t, "si_check", loc[t].ptr, GetObjectId(loc[t].ptr), loc[t].addr, loc[t].src,
                loc[t].flag, loc[t].after)
    BY <1>0, <1>2 DEF SwapInReadId, Becomes, TypeInv, RestOK, LocalsOK, Local
  <2>2. UNCHANGED <<meta, hdr, data, far, oid, from, gc, todo, expected_status, fill, pins, lock, status>>
        /\ loc[t].pc = "si_read" /\ loc[t].ptr \in Ptr
    BY <1>0, <1>2 DEF SwapInReadId, ThreadOK
  <2>3. Inside(t) BY <2>2 DEF Inside, Heading, Allocating
  <2>4. \/ GetObjectId(loc[t].ptr) = oid[loc[t].ptr]
        \/ GetObjectId(loc[t].ptr) = JunkId /\ IsPresent(loc[t].ptr)
    <3>1. meta[loc[t].ptr].kind \in {"null", "present", "far"} /\ PointerOK(loc[t].ptr)
      BY <2>2 DEF TypeInv, RestOK, MemoryOK, Meta, CacheInv, MemoryInv
    <3> QED BY <1>0, <2>2, <2>3, <3>1 DEF SwapInOK, IsNull, IsPresent, GetObjectId, PointerOK
  <2>5. oid[loc[t].ptr][2] \in Nat BY <2>2 DEF TypeInv, RestOK, MemoryOK, RemoteId
  <2>6. SwapInOK(t)'
    BY <1>0, <2>1, <2>2, <2>3, <2>4, <2>5 DEF SwapInOK, Becomes, Inside, Heading, Allocating,
          Fetching, Safe, OtherFlag, IsNull, IsPresent
  <2>7. LocalInv(t)' /\ ~Heading(t, "build")' /\ loc'[t].pc \notin Unbuilt
    BY <2>1, <2>6, PlainOK DEF Becomes, PlainPC
  <2>8. \A u \in Thread \ {t} : Apart(t, u)'
    BY <1>0, <2>1, <2>3, <2>7, ApartKept DEF Becomes
  <2> QED BY <1>0, <2>1, <2>2, <2>7, <2>8, QuietMove DEF Becomes
<1>3. CASE SwapInCheck(t)
  <2>1. UNCHANGED <<meta, hdr, data, far, oid, from, gc, todo, expected_status, fill, pins, lock, status>>
        /\ loc[t].pc = "si_check"
    BY <1>3 DEF SwapInCheck
  <2>2. CASE Return(t)
    BY <1>0, <1>1, <2>1, <2>2, QuietMove
  <2>3. CASE Goto(t, "si_lock") /\ ~IsPresent(loc[t].ptr)
    <3>1. Becomes(t, "si_lock", loc[t].ptr, loc[t].id, loc[t].addr, loc[t].src, loc[t].flag,
                  loc[t].after)
      BY <1>0, <2>3, GotoBecomes
    <3>2. Inside(t) BY <2>1 DEF Inside, Heading, Allocating
    <3>3. SwapInOK(t)'
      BY <1>0, <2>1, <2>3, <3>1, <3>2 DEF SwapInOK, Becomes, Inside, Heading, Allocating, Fetching,
            IsNull, IsPresent
    <3>4. LocalInv(t)' /\ ~Heading(t, "build")' /\ loc'[t].pc \notin Unbuilt
      BY <3>1, <3>3, PlainOK DEF Becomes, PlainPC
    <3>5. \A u \in Thread \ {t} : Apart(t, u)'
      BY <1>0, <3>1, <3>2, <3>4, ApartKept DEF Becomes
    <3> QED BY <1>0, <2>1, <3>1, <3>4, <3>5, QuietMove DEF Becomes
  <2> QED BY <1>3, <2>2, <2>3 DEF SwapInCheck
<1>4. CASE SwapInLock(t)
  <2>1. Becomes(t, "si_recheck", loc[t].ptr, loc[t].id, loc[t].addr, loc[t].src, loc[t].flag,
                loc[t].after)
    BY <1>0, <1>4, GotoBecomes DEF SwapInLock
  <2>2. UNCHANGED <<meta, hdr, data, far, oid, from, gc, todo, expected_status, fill, pins, status>>
        /\ loc[t].pc = "si_lock" /\ loc[t].id \in ObjId
    BY <1>0, <1>4 DEF SwapInLock, ThreadOK
  <2>3. lock'[loc[t].id] = t /\ \A u \in Thread \ {t} : Holds(u) => lock'[loc[u].id] = u
    BY <1>0, <1>4, <2>2, AcquireKeepsLocks DEF SwapInLock
  <2>4. Inside(t) /\ ~Heading(t, "build")' BY <2>1, <2>2 DEF Inside, Heading, Allocating, Becomes
  <2>5. SwapInOK(t)'
    BY <1>0, <2>1, <2>2, <2>4 DEF SwapInOK, Becomes, Inside, Heading, Allocating, Fetching,
          Safe, OtherFlag, IsNull, IsPresent
  <2>6. KindOK(t)' /\ LockOK(t)' /\ SlotOK(t)' /\ MutatorOK(t)'
    BY <1>0, <2>1, <2>3 DEF KindOK, LockOK, SlotOK, MutatorOK, Becomes, Heading, Allocating,
       SlavePC,
          Pinning, Unbuilt, HasHandle
  <2>7. LocalInv(t)' /\ loc'[t].pc \notin Unbuilt
    BY <1>0, <2>1, <2>5, <2>6 DEF LocalInv, Becomes, Unbuilt
  <2>8. \A u \in Thread \ {t} : Apart(t, u)'
    BY <1>0, <2>1, <2>4, <2>7, ApartKept DEF Becomes
  <2> QED BY <1>0, <2>1, <2>2, <2>3, <2>7, <2>8, QuietStep DEF Becomes
<1>5. CASE SwapInRecheck(t) /\ ~IsPresent(loc[t].ptr)
  <2>1. Becomes(t, "alloc", loc[t].ptr, loc[t].id, loc[t].addr, loc[t].src, loc[t].flag, "fetch")
    BY <1>0, <1>5 DEF SwapInRecheck, Becomes, TypeInv, RestOK, LocalsOK, Local
  <2>2. UNCHANGED <<meta, hdr, data, far, oid, from, gc, todo, expected_status, fill, pins, lock, status>>
        /\ loc[t].pc = "si_recheck"
    BY <1>5 DEF SwapInRecheck
  <2>3. lock[loc[t].id] = t BY <1>0, <2>2 DEF LocalInv, LockOK, Holds
  <2>4. Inside(t) /\ ~Heading(t, "build")' BY <2>1, <2>2 DEF Inside, Heading, Allocating, Becomes
  <2>5. SwapInOK(t)'
    BY <1>0, <1>5, <2>1, <2>2, <2>4 DEF SwapInOK, Becomes, Inside, Heading, Allocating, Fetching,
          IsNull, IsPresent
  <2>6. KindOK(t)' /\ LockOK(t)' /\ SlotOK(t)' /\ MutatorOK(t)'
    BY <1>0, <2>1, <2>2, <2>3 DEF KindOK, LockOK, SlotOK, MutatorOK, Becomes, Heading, Allocating,
       SlavePC,
          Pinning, Unbuilt, HasHandle
  <2>7. LocalInv(t)' /\ loc'[t].pc \notin Unbuilt
    BY <1>0, <2>1, <2>5, <2>6 DEF LocalInv, Becomes, Unbuilt
  <2>8. \A u \in Thread \ {t} : Apart(t, u)'
    BY <1>0, <2>1, <2>4, <2>7, ApartKept DEF Becomes
  <2> QED BY <1>0, <2>1, <2>2, <2>7, <2>8, QuietMove DEF Becomes
<1>6. CASE SwapInRecheck(t) /\ IsPresent(loc[t].ptr)
  <2>1. UNCHANGED <<meta, hdr, data, far, oid, from, gc, todo, expected_status, fill, pins, status>>
        /\ loc[t].pc = "si_recheck" /\ Unlock(t) /\ Return(t)
    BY <1>6 DEF SwapInRecheck
  <2>2. \A u \in Thread \ {t} : Holds(u) => lock'[loc[u].id] = u
    BY <1>0, <2>1, UnlockKeepsLocks DEF Holds
  <2> QED BY <1>0, <1>1, <2>1, <2>2, QuietStep
<1>7. CASE SwapInFinish(t)
  <2>1. UNCHANGED <<meta, hdr, data, far, oid, from, gc, todo, expected_status, fill, status>>
        /\ loc[t].pc = "si_finish" /\ Unlock(t) /\ Return(t) /\ DropPin(t)
    BY <1>7 DEF SwapInFinish
  <2>2. \A u \in Thread \ {t} : Holds(u) => lock'[loc[u].id] = u
    BY <1>0, <2>1, UnlockKeepsLocks DEF Holds
  <2>3. \A r \in Region : \A u \in Thread \ {t} : u \in pins[r] => u \in pins'[r]
    BY <2>1 DEF DropPin, TypeInv, PoolInv, PoolTypeOK
  <2> QED BY <1>0, <1>1, <2>1, <2>2, <2>3, QuietStep
<1> QED BY <1>2, <1>3, <1>4, <1>5, <1>6, <1>7

LEMMA NothingMoves ==
  ASSUME CacheInv, UNCHANGED <<meta, hdr, data, far, oid, from, gc, todo, expected_status, fill, pins,
                               lock, status, loc>>
  PROVE  CacheInv'
<1> USE DEF CacheInv
<1>1. MemoryInv'
  BY DEF MemoryInv, HeaderOK, LedTo, PointerOK, Marked, Evacuated, Scanned, IsNull, IsPresent,
     IsDirty
<1>2. RoundOK' BY DEF RoundOK, OtherFlag
<1>3. ASSUME NEW t \in Thread PROVE LocalInv(t)'
  <2>1. LocalInv(t) BY DEF ThreadsInv
  <2>2. KindOK(t)' /\ LockOK(t)' /\ SlotOK(t)'
    BY <2>1 DEF LocalInv, KindOK, LockOK, SlotOK, Holds, Heading
  <2>3. t \in Swapper => SwapInOK(t)'
    BY <2>1 DEF LocalInv, SwapInOK, Inside, Fetching, Heading, Safe, OtherFlag, IsNull, IsPresent
  <2>4. t \in Mutator => MutatorOK(t)'
    BY <2>1 DEF LocalInv, MutatorOK, HasHandle, HandleOf, Heading, Safe, OtherFlag, IsNull,
       IsPresent,
                IsDirty, IsEvacuation
  <2>5. t \in Slave => SlaveOK(t)'
    BY <2>1 DEF LocalInv, SlaveOK, IsPresent, IsDirty
  <2> QED BY <2>2, <2>3, <2>4, <2>5 DEF LocalInv
<1>4. \A t, u \in Thread : t # u => Apart(t, u)'
  BY DEF ThreadsInv, Apart, Inside, Heading
<1> QED BY <1>1, <1>2, <1>3, <1>4 DEF ThreadsInv

\* An allocation that has to wait or to try again is where it was.
LEMMA WaitingQuiet ==
  ASSUME CacheInv, TypeInv, TypeInv', NEW t \in Swapper, NEW to \in {"realloc", "wait"},
         loc[t].pc \in {"alloc", "realloc", "wait"}, Goto(t, to),
         UNCHANGED <<meta, hdr, data, far, oid, from, gc, todo, expected_status, fill, pins, lock, status>>
  PROVE  CacheInv'
<1> USE ThreadKinds
<1>0. t \in Thread /\ t \notin Slave /\ LocalInv(t)
  BY DEF CacheInv, ThreadsInv
<1>1. Becomes(t, to, loc[t].ptr, loc[t].id, loc[t].addr, loc[t].src, loc[t].flag, loc[t].after)
  BY <1>0, GotoBecomes
<1>2. \A n \in {"build", "fetch", "copy", "re_init"} : Heading(t, n)' <=> Heading(t, n)
  BY <1>1 DEF Heading, Allocating, Becomes
<1>3. KindOK(t)' /\ LockOK(t)' /\ SlotOK(t)'
  BY <1>0, <1>1, <1>2 DEF LocalInv, KindOK, LockOK, SlotOK, Holds, Becomes, Pinning, Unbuilt,
        SlavePC, SwapOutPC, Allocating
<1>4. SwapInOK(t)'
  BY <1>0, <1>1, <1>2 DEF LocalInv, SwapInOK, Inside, Fetching, Becomes, IsNull, IsPresent
<1>5. t \in Mutator => MutatorOK(t)'
  BY <1>0, <1>1, <1>2 DEF LocalInv, MutatorOK, HasHandle, HandleOf, Becomes, Safe, OtherFlag,
     IsNull,
        IsPresent, IsDirty, IsEvacuation
<1>6. LocalInv(t)' BY <1>0, <1>3, <1>4, <1>5 DEF LocalInv
<1>7. \A u \in Thread \ {t} : Apart(t, u)'
  BY <1>0, <1>1, <1>2, ApartKept DEF Becomes, Inside, Unbuilt
<1> QED BY <1>0, <1>1, <1>6, <1>7, QuietMove DEF Becomes

\* A new slot is nobody else's, and no object is in it.
LEMMA BumpQuiet ==
  ASSUME CacheInv, TypeInv, TypeInv', NEW t \in Thread, NEW r \in Region, fill[r] < SlotsPerRegion,
         NEW next, Bump(t, r, next),
         \/ t \in Swapper /\ loc[t].pc \in Allocating /\ next = loc[t].after
         \/ t \in Slave /\ loc[t].pc = "so_alloc" /\ next = "so_copy",
         UNCHANGED <<meta, hdr, data, far, oid, from, gc, todo, expected_status, lock, status>>
  PROVE  CacheInv'
<1> USE ThreadKinds
<1> DEFINE a == <<r, fill[r] + 1>>
<1>0. LocalInv(t) /\ loc[t].pc \notin {"si_present", "re_free", "idle"}
  BY DEF CacheInv, ThreadsInv, Allocating
<1>1. a \in Addr /\ RegionOf(a) = r /\ a[1] = r /\ a[2] = fill[r] + 1
  BY SlotIsAddr DEF TypeInv, RegionOf
<1>2. Becomes(t, next, loc[t].ptr, loc[t].id, a, loc[t].src, loc[t].flag, loc[t].after)
  BY DEF Bump, Becomes, TypeInv, RestOK, LocalsOK, Local
<1>3. fill[r] \in Nat /\ fill'[r] = fill[r] + 1 /\ pins'[r] = pins[r] \cup {t}
      /\ \A q \in Region \ {r} : fill'[q] = fill[q] /\ pins'[q] = pins[q]
  BY DEF Bump, TypeInv, PoolInv, PoolTypeOK
<1>4. \A q \in Region : fill'[q] >= fill[q] /\ \A u \in Thread \ {t} : u \in pins[q] => u \in pins'[q]
  BY <1>3 DEF TypeInv, PoolInv, PoolTypeOK
<1>5. hdr[a].ptr = NULL
  <2>1. HeaderOK(a) BY <1>1 DEF CacheInv, MemoryInv
  <2> QED BY <1>1, <1>3, <2>1 DEF HeaderOK
<1>6. ASSUME NEW u \in Thread \ {t}, loc[u].pc \in Unbuilt PROVE a # loc[u].addr
  <2>1. loc[u].addr[2] <= fill[RegionOf(loc[u].addr)]
    BY <1>6 DEF CacheInv, ThreadsInv, LocalInv, SlotOK, Pinning
  <2> QED BY <1>1, <1>3, <2>1
<1>7. SlotOK(t)'
  BY <1>1, <1>2, <1>3, <1>5 DEF SlotOK, Becomes
<1> HIDE DEF a
<1>8. \A u \in Thread : Holds(u) => lock'[loc[u].id] = u
  BY DEF CacheInv, ThreadsInv, LocalInv, LockOK
<1>9. CASE t \in Swapper /\ loc[t].pc \in Allocating /\ next = loc[t].after
  <2>1. next \in {"build", "fetch", "copy", "re_init"}
    BY <1>0, <1>9 DEF LocalInv, KindOK
  <2>2. \A n \in {"build", "fetch", "copy", "re_init"} : Heading(t, n)' <=> Heading(t, n)
    BY <1>2, <1>9, <2>1 DEF Heading, Allocating, Becomes
  <2>3. KindOK(t)' /\ LockOK(t)'
    BY <1>0, <1>2, <1>9, <2>1, <2>2 DEF LocalInv, KindOK, LockOK, Holds, Becomes, SlavePC,
       SwapOutPC,
          Allocating
  <2>4. SwapInOK(t)'
    BY <1>0, <1>2, <1>9, <2>1, <2>2 DEF LocalInv, SwapInOK, Inside, Fetching, Becomes, IsNull,
          IsPresent, Allocating
  <2>5. t \in Mutator => MutatorOK(t)'
    BY <1>0, <1>2, <1>9, <2>1, <2>2 DEF LocalInv, MutatorOK, HasHandle, HandleOf, Becomes, Safe,
          OtherFlag, IsNull, IsPresent, IsDirty, IsEvacuation, Allocating
  <2>6. LocalInv(t)' BY <1>7, <1>9, <2>3, <2>4, <2>5 DEF LocalInv
  <2>7. \A u \in Thread \ {t} : Apart(t, u)'
    BY <1>0, <1>2, <1>6, <2>2, ApartKept DEF Becomes, Inside
  <2> QED BY <1>0, <1>2, <1>4, <1>8, <1>9, <2>6, <2>7, QuietStep DEF Becomes
<1>10. CASE t \in Slave /\ loc[t].pc = "so_alloc" /\ next = "so_copy"
  <2>1. KindOK(t)' /\ LockOK(t)'
    BY <1>0, <1>2, <1>10 DEF LocalInv, KindOK, LockOK, Holds, Becomes, SlavePC, SwapOutPC,
       Allocating
  <2>2. SlaveOK(t)'
    BY <1>0, <1>2, <1>10 DEF LocalInv, SlaveOK, Becomes, SwapOutPC, IsPresent, IsDirty
  <2>3. LocalInv(t)' BY <1>7, <1>10, <2>1, <2>2 DEF LocalInv
  <2>4. ~Heading(t, "build")' /\ Inside(t)
    BY <1>2, <1>10 DEF Heading, Allocating, Becomes, Inside
  <2>5. \A u \in Thread \ {t} : Apart(t, u)'
    BY <1>0, <1>2, <1>6, <2>4, ApartKept DEF Becomes
  <2> QED BY <1>0, <1>2, <1>4, <1>8, <1>10, <2>3, <2>5, QuietStep DEF Becomes
<1> QED BY <1>9, <1>10

LEMMA AllocateLocalQuiet ==
  ASSUME CacheInv, TypeInv, TypeInv', NEW t \in Thread, NEW c \in Core, NEW refilled, NEW next,
         AllocateLocal(t, c, refilled, next),
         \/ t \in Swapper /\ loc[t].pc \in Allocating /\ next = loc[t].after
         \/ t \in Slave /\ loc[t].pc = "so_alloc" /\ next = "so_copy",
         UNCHANGED <<memVars, lock, gcVars, status>>
  PROVE  CacheInv'
<1> USE DEF memVars, gcVars
<1>1. ASSUME HasRoom(c), Bump(t, open[c], next) PROVE CacheInv'
  <2>1. open[c] \in Region /\ fill[open[c]] < SlotsPerRegion
    BY <1>1 DEF HasRoom, TypeInv, PoolInv, PoolTypeOK
  <2> QED BY <1>1, <2>1, BumpQuiet
<1>2. ASSUME NEW r \in free, Bump(t, r, next) PROVE CacheInv'
  <2>1. r \in Region /\ fill[r] < SlotsPerRegion
    BY NullIsNoRegion DEF TypeInv, PoolInv, PoolTypeOK, FreeIsEmpty
  <2> QED BY <1>2, <2>1, BumpQuiet
<1>3. \/ HasRoom(c) /\ Bump(t, open[c], next)
      \/ \E r \in free : Bump(t, r, next)
  BY DEF AllocateLocal
<1> QED BY <1>1, <1>2, <1>3

LEMMA AllocationQuiet ==
  ASSUME CacheInv, TypeInv, TypeInv', NEW t \in Swapper,
         WaitForGC(t) \/ \E c \in Core : AllocateBlocking(t, c) \/ AllocateFails(t, c)
  PROVE  CacheInv'
<1> USE ThreadKinds DEF memVars, gcVars, poolVars
<1>1. CASE WaitForGC(t)
  BY <1>1, WaitingQuiet DEF WaitForGC
<1>2. ASSUME NEW c \in Core, AllocateBlocking(t, c) PROVE CacheInv'
  BY <1>2, AllocateLocalQuiet DEF AllocateBlocking, Allocating
<1>3. ASSUME NEW c \in Core, AllocateFails(t, c) PROVE CacheInv'
  <2>1. loc[t].pc \in {"alloc", "realloc"}
        /\ UNCHANGED <<meta, hdr, data, far, oid, from, gc, todo, expected_status, fill, pins, lock, status>>
    BY <1>3 DEF AllocateFails, RefillFails
  <2>2. CASE UNCHANGED loc
    BY <2>1, <2>2, NothingMoves
  <2>3. CASE \E to \in {"realloc", "wait"} : Goto(t, to)
    BY <2>1, <2>3, WaitingQuiet
  <2> QED BY <1>3, <2>2, <2>3 DEF AllocateFails
<1> QED BY <1>1, <1>2, <1>3

\* A dereference, a scope or a visit of the pager begins or ends.
LEMMA ScopesQuiet ==
  ASSUME CacheInv, TypeInv, TypeInv', NEW t \in Swapper,
         \/ t \in Scoped /\ (DerefFar(t) \/ ScopeExit(t))
         \/ t \in Prefetcher /\ (PrefetchSkip(t) \/ \E p \in Ptr : Prefetch(t, p))
         \/ t \in Pager /\ \E p \in Ptr : PagerVisit(t, p)
  PROVE  CacheInv'
<1> USE ThreadKinds DEF memVars, gcVars, poolVars
<1>0. t \in Thread /\ t \notin Slave /\ LocalInv(t) /\ SwapInOK(t)
  BY DEF CacheInv, ThreadsInv, LocalInv
<1>1. \A u \in Thread : Holds(u) => lock[loc[u].id] = u
  BY DEF CacheInv, ThreadsInv, LocalInv, LockOK
<1>2. \A r \in Region : fill[r] >= fill[r] BY DEF TypeInv, PoolInv, PoolTypeOK
<1>3. CASE DerefFar(t) \/ PrefetchSkip(t)
  <2>1. PICK to \in {"si_read", "leave"} :
           /\ Becomes(t, to, loc[t].ptr, loc[t].id, loc[t].addr, loc[t].src, loc[t].flag, loc[t].after)
           /\ to = "si_read" => ~IsPresent(loc[t].ptr)
    BY <1>0, <1>3, GotoBecomes DEF DerefFar, PrefetchSkip
  <2>2. loc[t].pc = "deref"
        /\ UNCHANGED <<meta, hdr, data, far, oid, from, gc, todo, expected_status, fill, pins, lock, status>>
    BY <1>3 DEF DerefFar, PrefetchSkip
  <2>3. Inside(t) BY <2>2 DEF Inside, Heading, Allocating
  <2>4. LocalInv(t)' /\ ~Heading(t, "build")' /\ loc'[t].pc \notin Unbuilt
    BY <1>0, <2>1, <2>2, <2>3, SettledOK DEF Becomes, SwapInOK, IsNull, IsPresent
  <2>5. \A u \in Thread \ {t} : Apart(t, u)'
    BY <1>0, <2>1, <2>3, <2>4, ApartKept DEF Becomes
  <2> QED BY <1>0, <2>1, <2>2, <2>4, <2>5, QuietMove DEF Becomes
<1>4. CASE ScopeExit(t)
  <2>1. Becomes(t, "idle", NULL, NULL, NULL, NULL, FALSE, "idle")
    BY <1>0, <1>4, IdleBecomes DEF ScopeExit
  <2>2. loc[t].pc \in {"access", "leave"}
        /\ UNCHANGED <<meta, hdr, data, far, oid, from, gc, todo, expected_status, fill, pins, lock>>
    BY <1>4 DEF ScopeExit
  <2>3. LocalInv(t)' /\ ~Heading(t, "build")' /\ loc'[t].pc \notin Unbuilt /\ ~Inside(t)'
    BY <1>0, <2>1, SettledOK DEF Becomes, Inside
  <2>4. \A u \in Thread \ {t} : Apart(t, u)'
    BY <1>0, <2>1, <2>3, ApartKept DEF Becomes
  <2>5. (\A u \in Scoped \ {t} : status'[u] = status[u])
        /\ (t \in Scoped => status'[t] = "out")
    BY <1>4 DEF ScopeExit, TypeInv, RestOK, ControlOK
  <2> QED BY <1>0, <1>1, <1>2, <2>1, <2>2, <2>3, <2>4, <2>5, QuietStep DEF Becomes
<1>5. ASSUME NEW p \in Ptr, t \in Prefetcher, Prefetch(t, p) PROVE CacheInv'
  <2>1. Becomes(t, "deref", p, loc[t].id, loc[t].addr, loc[t].src, loc[t].flag, loc[t].after)
    <3>1. loc' = [loc EXCEPT ![t].pc = "deref", ![t].ptr = p] BY <1>5 DEF Prefetch
    <3> QED BY <1>0, <3>1 DEF Becomes, TypeInv, RestOK, LocalsOK, Local
  <2>2. loc[t].pc = "idle" /\ ~IsNull(p)
        /\ UNCHANGED <<meta, hdr, data, far, oid, from, gc, todo, expected_status, fill, pins, lock>>
    BY <1>5 DEF Prefetch
  <2>3. (\A u \in Scoped \ {t} : status'[u] = status[u])
        /\ status'[t] = expected_status /\ expected_status # "out"
    BY <1>5 DEF Prefetch, EnterScope, TypeInv, RestOK, ControlOK
  <2>4. LocalInv(t)' /\ ~Heading(t, "build")' /\ loc'[t].pc \notin Unbuilt
    BY <1>0, <2>1, <2>2, <2>3, SettledOK DEF Becomes, IsNull
  <2>5. \A u \in Thread \ {t} : Apart(t, u)'
    BY <1>5, <2>4 DEF Apart
  <2> QED BY <1>0, <1>1, <1>2, <2>1, <2>2, <2>3, <2>4, <2>5, QuietStep DEF Becomes
<1>6. ASSUME NEW p \in Ptr, t \in Pager, PagerVisit(t, p) PROVE CacheInv'
  <2>1. Becomes(t, "si_read", p, loc[t].id, loc[t].addr, loc[t].src, loc[t].flag, loc[t].after)
    <3>1. loc' = [loc EXCEPT ![t].pc = "si_read", ![t].ptr = p] BY <1>6 DEF PagerVisit
    <3> QED BY <1>0, <3>1 DEF Becomes, TypeInv, RestOK, LocalsOK, Local
  <2>2. /\ loc[t].pc = "idle" /\ ~IsNull(p) /\ ~IsPresent(p) /\ t \notin Scoped /\ t \notin Mutator
        /\ UNCHANGED <<meta, hdr, data, far, oid, from, gc, todo, expected_status, fill, pins, lock, status>>
    BY <1>6, ConstantsOK DEF PagerVisit, Scoped
  <2>3. LocalInv(t)' /\ ~Heading(t, "build")' /\ loc'[t].pc \notin Unbuilt
    BY <1>0, <2>1, <2>2, SettledOK DEF Becomes, IsNull, IsPresent
  <2>4. \A u \in Thread \ {t} : Apart(t, u)'
    BY <2>2, <2>3 DEF Apart
  <2> QED BY <1>0, <2>1, <2>2, <2>3, <2>4, QuietMove DEF Becomes
<1> QED BY <1>3, <1>4, <1>5, <1>6

LEMMA MutatorQuiet ==
  ASSUME CacheInv, TypeInv, TypeInv', NEW m \in Mutator,
         \/ \E p \in Ptr : \/ \E how \in {"alloc", "nb_alloc"} : AllocatePtr(m, p, how)
                           \/ \E w \in BOOLEAN : ScopeEnter(m, p, w)
         \/ \E c \in Core : AllocateOnce(m, c)
         \/ MigrateBegin(m) \/ ReallocateBegin(m)
  PROVE  CacheInv'
<1> USE ThreadKinds DEF memVars, gcVars, poolVars
<1>0. /\ m \in Thread /\ m \in Swapper /\ m \in Scoped /\ m \notin Slave /\ LocalInv(m)
      /\ SwapInOK(m) /\ MutatorOK(m) /\ ThreadOK(m)
  BY DEF CacheInv, ThreadsInv, LocalInv, TypeInv, RestOK, LocalsOK
<1>1. \A u \in Thread : Holds(u) => lock[loc[u].id] = u
  BY DEF CacheInv, ThreadsInv, LocalInv, LockOK
<1>2. \A r \in Region : fill[r] >= fill[r] BY DEF TypeInv, PoolInv, PoolTypeOK
<1>3. ASSUME NEW p \in Ptr, NEW how \in {"alloc", "nb_alloc"}, AllocatePtr(m, p, how)
      PROVE  CacheInv'
  <2>1. Becomes(m, how, p, loc[m].id, loc[m].addr, loc[m].src, loc[m].flag, "build")
    BY <1>0, <1>3 DEF AllocatePtr, Becomes, TypeInv, RestOK, LocalsOK, Local
  <2>2. /\ loc[m].pc = "idle" /\ IsNull(p) /\ \A n \in Mutator : loc[n].ptr # p
        /\ UNCHANGED <<meta, hdr, data, far, oid, from, gc, todo, expected_status, fill, pins, lock, status>>
    BY <1>3 DEF AllocatePtr
  <2>3. Heading(m, "build")' /\ \A n \in {"fetch", "copy", "re_init"} : ~Heading(m, n)'
    BY <2>1 DEF Heading, Allocating, Becomes
  <2>4. KindOK(m)' /\ LockOK(m)' /\ SlotOK(m)'
    BY <1>0, <2>1, <2>3 DEF KindOK, LockOK, SlotOK, Holds, Becomes, SlavePC, SwapOutPC, Pinning,
          Unbuilt
  <2>5. SwapInOK(m)' /\ MutatorOK(m)'
    BY <2>1, <2>2, <2>3 DEF SwapInOK, MutatorOK, Inside, Fetching, HasHandle, Becomes, IsNull
  <2>6. LocalInv(m)' BY <1>0, <2>4, <2>5 DEF LocalInv
  <2>7. \A u \in Thread \ {m} : Apart(m, u)'
    BY <2>1, <2>2, <2>3 DEF Apart, Inside, Becomes, Unbuilt
  <2> QED BY <1>0, <2>1, <2>2, <2>6, <2>7, QuietMove DEF Becomes
<1>4. ASSUME NEW p \in Ptr, NEW w \in BOOLEAN, ScopeEnter(m, p, w)
      PROVE  CacheInv'
  <2>1. Becomes(m, "deref", p, loc[m].id, loc[m].addr, loc[m].src, w, loc[m].after)
    BY <1>0, <1>4 DEF ScopeEnter, Becomes, TypeInv, RestOK, LocalsOK, Local
  <2>2. /\ loc[m].pc = "idle" /\ ~IsNull(p) /\ MayUse(m, p, w)
        /\ UNCHANGED <<meta, hdr, data, far, oid, from, gc, todo, expected_status, fill, pins, lock>>
    BY <1>4 DEF ScopeEnter
  <2>3. (\A u \in Scoped \ {m} : status'[u] = status[u])
        /\ status'[m] = expected_status /\ expected_status # "out"
    BY <1>0, <1>4 DEF ScopeEnter, EnterScope, TypeInv, RestOK, ControlOK
  <2>4. LocalInv(m)' /\ ~Heading(m, "build")' /\ loc'[m].pc \notin Unbuilt
    BY <1>0, <2>1, <2>2, <2>3, SettledOK DEF Becomes, IsNull
  <2>5. ASSUME NEW u \in Thread \ {m} PROVE Apart(m, u)'
    <3>1. u \in Mutator /\ Inside(u) => InScope(u)
      BY DEF CacheInv, ThreadsInv, LocalInv, SwapInOK, InScope
    <3>2. u \in Mutator /\ Inside(u) /\ loc[u].ptr = p => ~w /\ ~loc[u].flag
      BY <2>2, <3>1 DEF MayUse
    <3>3. loc'[u] = loc[u] /\ (Inside(u)' <=> Inside(u))
      BY <2>1 DEF Becomes, Inside, Heading
    <3> QED BY <2>1, <2>4, <3>2, <3>3 DEF Apart, Becomes
  <2> QED BY <1>0, <1>1, <1>2, <2>1, <2>2, <2>3, <2>4, <2>5, QuietStep DEF Becomes
<1>5. ASSUME NEW c \in Core, AllocateOnce(m, c)
      PROVE  CacheInv'
  <2>1. loc[m].pc = "nb_alloc" BY <1>5 DEF AllocateOnce
  <2>2. CASE AllocateLocal(m, c, FALSE, loc[m].after)
    BY <1>0, <1>5, <2>1, <2>2, AllocateLocalQuiet DEF AllocateOnce, Allocating
  <2>3. CASE RefillFails(c) /\ loc[m].after = "build" /\ GoIdle(m)
    <3>1. Becomes(m, "idle", NULL, NULL, NULL, NULL, FALSE, "idle")
      BY <1>0, <2>3, IdleBecomes
    <3>2. UNCHANGED <<meta, hdr, data, far, oid, from, gc, todo, expected_status, fill, pins, lock, status>>
      BY <1>5, <2>3 DEF AllocateOnce, RefillFails
    <3>3. LocalInv(m)' /\ ~Heading(m, "build")' /\ loc'[m].pc \notin Unbuilt /\ ~Inside(m)'
      BY <1>0, <3>1, SettledOK DEF Becomes, Inside
    <3>4. \A u \in Thread \ {m} : Apart(m, u)'
      BY <1>0, <3>1, <3>3, ApartKept DEF Becomes
    <3> QED BY <1>0, <2>1, <3>1, <3>2, <3>3, <3>4, QuietMove DEF Becomes
  <2>4. CASE RefillFails(c) /\ loc[m].after # "build" /\ Access(m)
    <3>1. Becomes(m, "access", loc[m].ptr, loc[m].id, loc[m].addr, NULL, loc[m].flag, "idle")
      BY <1>0, <2>4 DEF Access, Becomes, TypeInv, RestOK, LocalsOK, Local
    <3>2. UNCHANGED <<meta, hdr, data, far, oid, from, gc, todo, expected_status, fill, pins, lock, status>>
      BY <1>5, <2>4 DEF AllocateOnce, RefillFails
    <3>3. loc[m].after = "re_init" /\ Heading(m, "re_init") /\ loc[m].addr = loc[m].src
      BY <1>0, <2>1, <2>4 DEF ThreadOK, Heading, Allocating, MutatorOK
    <3>4. /\ Inside(m) /\ HasHandle(m) /\ HandleOf(m) = loc[m].addr
          /\ HasHandle(m)' /\ HandleOf(m)' = loc[m].addr
          /\ \A n \in {"build", "fetch", "copy", "re_init"} : ~Heading(m, n)'
      BY <2>1, <3>1, <3>3 DEF Inside, HasHandle, HandleOf, Becomes, Heading, Allocating
    <3>5. KindOK(m)' /\ LockOK(m)' /\ SlotOK(m)'
      BY <1>0, <3>1, <3>4 DEF KindOK, LockOK, SlotOK, Holds, Becomes, SlavePC, SwapOutPC, Pinning,
            Unbuilt, Allocating
    <3>6. SwapInOK(m)'
      BY <1>0, <3>1, <3>2, <3>4 DEF SwapInOK, Inside, Fetching, Becomes, IsNull
    <3>7. MutatorOK(m)'
      BY <1>0, <3>1, <3>2, <3>4 DEF MutatorOK, Becomes, IsPresent, IsDirty, Safe, OtherFlag
    <3>8. LocalInv(m)' BY <1>0, <3>5, <3>6, <3>7 DEF LocalInv
    <3>9. \A u \in Thread \ {m} : Apart(m, u)'
      BY <1>0, <3>1, <3>4, ApartKept DEF Becomes, Unbuilt
    <3> QED BY <1>0, <2>1, <3>1, <3>2, <3>8, <3>9, QuietMove DEF Becomes
  <2> QED BY <1>5, <2>2, <2>3, <2>4 DEF AllocateOnce
<1>6. CASE MigrateBegin(m)
  <2> DEFINE p == loc[m].ptr
             old == meta[p].addr
  <2>1. /\ loc[m].pc = "deref" /\ IsPresent(p) /\ Acquire(m, hdr[old].id)
        /\ UNCHANGED <<meta, hdr, data, far, oid, from, gc, todo, expected_status, fill, pins, status>>
    BY <1>6 DEF MigrateBegin, IsEvacuation
  <2>2. p \in Ptr BY <1>0, <2>1 DEF ThreadOK
  <2>3. hdr[old].id = oid[p] /\ oid[p] \in ObjId
    <3>1. PointerOK(p) BY <2>2 DEF CacheInv, MemoryInv
    <3>2. hdr[old] = NewObject(p, oid[p]) BY <2>1, <3>1 DEF PointerOK
    <3> QED BY <2>2, <3>2 DEF NewObject, TypeInv, RestOK, MemoryOK, ObjId
  <2>4. Becomes(m, "alloc", p, oid[p], loc[m].addr, old, loc[m].flag, "copy")
    BY <1>0, <1>6, <2>3 DEF MigrateBegin, Becomes, TypeInv, RestOK, LocalsOK, Local
  <2>5. lock'[oid[p]] = m /\ \A u \in Thread \ {m} : Holds(u) => lock'[loc[u].id] = u
    BY <1>0, <2>1, <2>2, <2>3, AcquireKeepsLocks
  <2>6. Inside(m) /\ Heading(m, "copy")' /\ \A n \in {"build", "fetch", "re_init"} : ~Heading(m, n)'
    BY <2>1, <2>4 DEF Inside, Heading, Allocating, Becomes
  <2>7. KindOK(m)' /\ LockOK(m)' /\ SlotOK(m)'
    BY <1>0, <2>4, <2>5 DEF KindOK, LockOK, SlotOK, Becomes, SlavePC, Pinning, Unbuilt, Allocating
  <2>8. SwapInOK(m)' /\ MutatorOK(m)'
    BY <1>0, <1>6, <2>1, <2>4, <2>6 DEF SwapInOK, MutatorOK, MigrateBegin, HasHandle, Inside,
       Fetching,
          Becomes, IsNull, IsPresent, IsEvacuation
  <2>9. LocalInv(m)' BY <1>0, <2>7, <2>8 DEF LocalInv
  <2>10. \A u \in Thread \ {m} : Apart(m, u)'
    BY <1>0, <2>4, <2>6, ApartKept DEF Becomes, Unbuilt
  <2> QED BY <1>0, <1>2, <2>1, <2>4, <2>5, <2>9, <2>10, QuietStep DEF Becomes
<1>7. CASE ReallocateBegin(m)
  <2>1. Becomes(m, "nb_alloc", loc[m].ptr, loc[m].id, loc[m].addr, loc[m].addr, loc[m].flag, "re_init")
    BY <1>0, <1>7 DEF ReallocateBegin, Becomes, TypeInv, RestOK, LocalsOK, Local
  <2>2. /\ loc[m].pc = "access" /\ loc[m].flag
        /\ UNCHANGED <<meta, hdr, data, far, oid, from, gc, todo, expected_status, fill, pins, lock, status>>
    BY <1>7 DEF ReallocateBegin
  <2>3. /\ Inside(m) /\ HasHandle(m) /\ HandleOf(m) = loc[m].addr
        /\ HasHandle(m)' /\ HandleOf(m)' = loc[m].addr
        /\ \A n \in {"build", "fetch", "copy"} : ~Heading(m, n)'
    BY <2>1, <2>2 DEF Inside, HasHandle, HandleOf, Becomes, Heading, Allocating
  <2>4. KindOK(m)' /\ LockOK(m)' /\ SlotOK(m)'
    BY <1>0, <2>1, <2>3 DEF KindOK, LockOK, SlotOK, Holds, Becomes, SlavePC, SwapOutPC, Pinning,
          Unbuilt, Allocating
  <2>5. SwapInOK(m)'
    BY <1>0, <2>1, <2>2, <2>3 DEF SwapInOK, Inside, Fetching, Becomes, IsNull
  <2>6. MutatorOK(m)'
    BY <1>0, <2>1, <2>2, <2>3 DEF MutatorOK, Becomes, IsPresent, IsDirty, Safe, OtherFlag
  <2>7. LocalInv(m)' BY <1>0, <2>4, <2>5, <2>6 DEF LocalInv
  <2>8. \A u \in Thread \ {m} : Apart(m, u)'
    BY <1>0, <2>1, <2>3, ApartKept DEF Becomes, Unbuilt
  <2> QED BY <1>0, <2>1, <2>2, <2>7, <2>8, QuietMove DEF Becomes
<1> QED BY <1>3, <1>4, <1>5, <1>6, <1>7

-----------------------------------------------------------------------------
(* What a slave sees.                                                       *)

\* The object a slave works on is its pointer's current one, unless it is freed.
LEMMA SlaveSource ==
  ASSUME CacheInv, TypeInv, NEW s \in Slave, loc[s].pc # "idle"
  PROVE  LET a == loc[s].src  p == hdr[a].ptr IN
         /\ a \in Addr /\ p \in Ptr /\ loc[s].id \in ObjId /\ loc[s].id = hdr[a].id
         /\ IsPresent(p) /\ meta[p].addr = a => loc[s].id = oid[p]
         /\ RegionOf(a) \in from /\ gc \in {"mark", "writeback"}
         /\ ~hdr[a].freed =>
              /\ IsPresent(p)
              /\ gc = "writeback" => meta[p].addr = a
              /\ \/ meta[p].addr = a
                 \/ \E m \in Mutator : loc[m].pc = "re_free" /\ loc[m].ptr = p
<1> DEFINE a == loc[s].src
           p == hdr[a].ptr
<1> USE ThreadKinds
<1>1. LocalInv(s) /\ KindOK(s) /\ SlaveOK(s) /\ ThreadOK(s)
  BY DEF CacheInv, ThreadsInv, LocalInv, TypeInv, RestOK, LocalsOK
<1>2. a \in Addr /\ gc \in {"mark", "writeback"} /\ loc[s].id \in ObjId
  BY <1>1 DEF KindOK, ThreadOK
<1>3. RegionOf(a) \in from /\ p # NULL /\ loc[s].id = hdr[a].id
  BY <1>1 DEF SlaveOK
<1>4. HeaderOK(a) /\ LedTo(a) BY <1>2 DEF CacheInv, MemoryInv
<1>5. p \in Ptr BY <1>2, <1>3 DEF TypeInv, RestOK, MemoryOK, Header
<1>6. IsPresent(p) /\ meta[p].addr = a => hdr[a].id = oid[p]
  <2>1. PointerOK(p) BY <1>5 DEF CacheInv, MemoryInv
  <2>2. NewObject(p, oid[p]).id = oid[p] BY DEF NewObject
  <2> HIDE DEF a, p
  <2> QED BY <2>1, <2>2 DEF PointerOK
<1>7. ASSUME ~hdr[a].freed
      PROVE  /\ IsPresent(p) /\ (gc = "writeback" => meta[p].addr = a)
             /\ \/ meta[p].addr = a
                \/ \E m \in Mutator : loc[m].pc = "re_free" /\ loc[m].ptr = p
  <2>1. CASE IsPresent(p) /\ meta[p].addr = a
    BY <2>1
  <2>2. ASSUME NEW t \in Swapper, loc[t].pc = "si_present", loc[t].addr = a
        PROVE  FALSE
    <3>1. t \in pins[RegionOf(a)]
      BY <2>2 DEF CacheInv, ThreadsInv, LocalInv, SlotOK, Pinning
    <3> QED BY <1>3, <3>1 DEF TypeInv, PoolInv, PinnedNotReclaimed
  <2>3. ASSUME NEW m \in Mutator, loc[m].pc = "re_free", loc[m].src = a
        PROVE  IsPresent(p) /\ gc # "writeback" /\ loc[m].ptr = p
    <3>1. MutatorOK(m) BY DEF CacheInv, ThreadsInv, LocalInv
    <3> QED BY <1>3, <2>3, <3>1 DEF MutatorOK, Safe
  <2>4. Scanned(a) BY DEF Scanned
  <2> QED BY <1>3, <1>4, <1>7, <2>1, <2>2, <2>3, <2>4 DEF LedTo
<1> QED BY <1>2, <1>3, <1>5, <1>6, <1>7

LEMMA SlaveQuiet ==
  ASSUME CacheInv, TypeInv, TypeInv', NEW s \in Slave,
         SlaveLock(s) \/ SwapOutDecide(s) \/ \E c \in Core : SwapOutAllocate(s, c)
  PROVE  CacheInv'
<1> USE ThreadKinds DEF memVars, gcVars, poolVars
<1>0. /\ s \in Thread /\ s \notin Swapper /\ s \notin Mutator /\ s \notin Scoped
      /\ LocalInv(s) /\ SlaveOK(s) /\ KindOK(s) /\ LockOK(s)
  BY DEF CacheInv, ThreadsInv, LocalInv
<1>1. \A r \in Region : fill[r] >= fill[r] BY DEF TypeInv, PoolInv, PoolTypeOK
<1>2. CASE SlaveLock(s)
  <2>1. loc[s].pc = "lock" /\ Acquire(s, loc[s].id)
        /\ UNCHANGED <<meta, hdr, data, far, oid, from, gc, todo, expected_status, fill, pins, status>>
    BY <1>2 DEF SlaveLock
  <2>2. Becomes(s, gc, loc[s].ptr, loc[s].id, loc[s].addr, loc[s].src, loc[s].flag, loc[s].after)
    BY <1>0, <1>2, GotoBecomes DEF SlaveLock
  <2>3. loc[s].id \in ObjId /\ gc \in {"mark", "writeback"}
    BY <2>1, SlaveSource
  <2>4. lock'[loc[s].id] = s /\ \A u \in Thread \ {s} : Holds(u) => lock'[loc[u].id] = u
    BY <1>0, <2>1, <2>3, AcquireKeepsLocks
  <2>5. KindOK(s)' /\ LockOK(s)' /\ SlotOK(s)'
    BY <1>0, <2>2, <2>3, <2>4 DEF KindOK, LockOK, SlotOK, Becomes, SlavePC, Pinning, Unbuilt,
       Allocating
  <2>6. SlaveOK(s)'
    BY <1>0, <2>1, <2>2, <2>3 DEF SlaveOK, Becomes, SwapOutPC
  <2>7. LocalInv(s)' BY <1>0, <2>5, <2>6 DEF LocalInv
  <2>8. \A u \in Thread \ {s} : Apart(s, u)'
    BY <1>0, <2>1, <2>2, <2>3, ApartKept DEF Becomes, Unbuilt, Inside, Heading, Allocating
  <2> QED BY <1>0, <1>1, <2>1, <2>2, <2>3, <2>4, <2>7, <2>8, QuietStep DEF Becomes
<1>3. CASE SwapOutDecide(s)
  <2> DEFINE a == loc[s].src
             p == hdr[a].ptr
  <2>1. /\ loc[s].pc = "writeback" /\ ~hdr[a].freed
        /\ UNCHANGED <<meta, hdr, data, far, oid, from, gc, todo, expected_status, fill, pins, lock, status>>
    BY <1>3 DEF SwapOutDecide
  <2>2. PICK to \in {"so_alloc", "so_write"} :
           loc' = [loc EXCEPT ![s].ptr = p, ![s].flag = IsDirty(p), ![s].pc = to]
    BY <1>3 DEF SwapOutDecide
  <2>3. Becomes(s, to, p, loc[s].id, loc[s].addr, a, IsDirty(p), loc[s].after)
    BY <1>0, <2>2 DEF Becomes, TypeInv, RestOK, LocalsOK, Local
  <2>4. gc = "writeback" BY <1>0, <2>1 DEF SlaveOK
  <2>5. p \in Ptr /\ loc[s].id = hdr[a].id /\ IsPresent(p) /\ meta[p].addr = a
    BY <2>1, <2>4, SlaveSource
  <2>6. KindOK(s)' /\ LockOK(s)' /\ SlotOK(s)'
    BY <1>0, <2>1, <2>3 DEF KindOK, LockOK, SlotOK, Becomes, SlavePC, Pinning, Unbuilt, Allocating,
       Holds
  <2>7. SlaveOK(s)'
    BY <1>0, <2>1, <2>3, <2>4, <2>5 DEF SlaveOK, Becomes, SwapOutPC, IsPresent, IsDirty
  <2>8. LocalInv(s)' BY <1>0, <2>6, <2>7 DEF LocalInv
  <2>9. ASSUME NEW u \in Thread \ {s} PROVE Apart(s, u)'
    <3>1. Apart(s, u) BY <1>0 DEF CacheInv, ThreadsInv
    <3> QED BY <1>0, <2>1, <2>3, <3>1 DEF Apart, Becomes, Unbuilt
  <2> QED BY <1>0, <2>1, <2>3, <2>8, <2>9, QuietMove DEF Becomes
<1>4. ASSUME NEW c \in Core, SwapOutAllocate(s, c) PROVE CacheInv'
  <2>1. loc[s].pc = "so_alloc" /\ UNCHANGED <<memVars, lock, gcVars, status>>
    BY <1>4 DEF SwapOutAllocate
  <2>2. CASE AllocateLocal(s, c, FALSE, "so_copy")
    BY <1>0, <2>1, <2>2, AllocateLocalQuiet
  <2>3. CASE RefillFails(c) /\ Goto(s, "so_write")
    <3>1. Becomes(s, "so_write", loc[s].ptr, loc[s].id, loc[s].addr, loc[s].src, loc[s].flag, loc[s].after)
      BY <1>0, <2>3, GotoBecomes
    <3>2. UNCHANGED <<meta, hdr, data, far, oid, from, gc, todo, expected_status, fill, pins, lock, status>>
      BY <2>1, <2>3 DEF RefillFails
    <3>3. KindOK(s)' /\ LockOK(s)' /\ SlotOK(s)'
      BY <1>0, <2>1, <3>1, <3>2 DEF KindOK, LockOK, SlotOK, Becomes, SlavePC, Pinning, Unbuilt,
         Allocating,
         Holds, SwapOutPC
    <3>4. SlaveOK(s)'
      BY <1>0, <2>1, <3>1, <3>2 DEF SlaveOK, Becomes, SwapOutPC, IsPresent, IsDirty
    <3>5. LocalInv(s)' BY <1>0, <3>3, <3>4 DEF LocalInv
    <3>6. \A u \in Thread \ {s} : Apart(s, u)'
      BY <1>0, <2>1, <3>1, ApartKept DEF Becomes, Unbuilt, Inside, Heading, Allocating
    <3> QED BY <1>0, <2>1, <3>1, <3>2, <3>5, <3>6, QuietMove DEF Becomes
  <2> QED BY <1>4, <2>2, <2>3 DEF SwapOutAllocate
<1> QED BY <1>2, <1>3, <1>4

-----------------------------------------------------------------------------
(* Steps that change the memory.                                            *)

\* What a bystander needs of a step that changes the memory: its slot stays empty or
\* as it filled it, and its pointer leads to the same place with the same contents.
LEMMA BystanderFramed ==
  ASSUME NEW u \in Thread, LocalInv(u), TypeInv, TypeInv',
         UNCHANGED <<from, gc, expected_status>>, todo' \subseteq todo,
         loc'[u] = loc[u], u \in Scoped => status'[u] = status[u],
         Holds(u) => lock'[loc[u].id] = u,
         \A r \in Region : fill'[r] >= fill[r] /\ (u \in pins[r] => u \in pins'[r]),
         \A x \in Addr : hdr[x].ptr # NULL => hdr'[x].ptr = hdr[x].ptr /\ hdr'[x].id = hdr[x].id,
         loc[u].pc \in Unbuilt => hdr'[loc[u].addr].ptr = NULL,
         u \in Swapper /\ loc[u].pc = "si_present" =>
            /\ hdr'[loc[u].addr] = hdr[loc[u].addr]
            /\ data'[loc[u].addr] = far'[oid[loc[u].ptr]],
         u \in Swapper /\ loc[u].ptr \in Ptr =>
            LET m == meta[loc[u].ptr]  n == meta'[loc[u].ptr] IN
            /\ oid'[loc[u].ptr] = oid[loc[u].ptr]
            /\ n.kind = m.kind /\ n.addr = m.addr
            /\ (m.evac => n.evac) /\ (m.dirty = TRUE => n.dirty = TRUE),
         u \in Mutator /\ HasHandle(u) =>
            LET m == meta[loc[u].ptr]  n == meta'[loc[u].ptr] IN
            /\ data'[HandleOf(u)] = data'[m.addr]
            /\ n.evac /\ ~m.evac /\ ~loc[u].flag =>
                  RegionOf(m.addr) \in from /\ gc \in {"mark", "observe"},
         u \in Slave /\ loc[u].pc \in SwapOutPC =>
            LET p == hdr[loc[u].src].ptr  m == meta[p]  n == meta'[p] IN
            /\ n.kind = m.kind /\ n.addr = m.addr /\ n.dirty = m.dirty
            /\ oid'[p] = oid[p] /\ far'[oid[p]] = far[oid[p]]
            /\ data'[loc[u].src] = data[loc[u].src]
  PROVE  LocalInv(u)'
<1> USE DEF LocalInv
<1>0. ThreadOK(u) BY DEF TypeInv, RestOK, LocalsOK
<1>1. KindOK(u)' BY DEF KindOK
<1>2. LockOK(u)' BY DEF LockOK, Holds, Heading
<1>3. SlotOK(u)'
  <2>1. ASSUME loc[u].pc \in Pinning
        PROVE  loc[u].addr \in Addr /\ RegionOf(loc[u].addr) \in Region
    <3>1. loc[u].addr \in Addr
      BY <1>0, <2>1 DEF ThreadOK, Heading, Pinning, Unbuilt
    <3> QED BY <3>1 DEF Addr, RegionOf
  <2>2. loc[u].pc \in Pinning => /\ u \in pins'[RegionOf(loc[u].addr)]
                                 /\ loc[u].addr[2] <= fill'[RegionOf(loc[u].addr)]
    BY <2>1 DEF SlotOK, TypeInv, PoolInv, PoolTypeOK, Addr
  <2> QED BY <2>2 DEF SlotOK, Pinning
<1>4. ASSUME u \in Swapper PROVE SwapInOK(u)'
  <2>1. CASE loc[u].ptr \in Ptr
    BY <1>4, <2>1 DEF SwapInOK, Inside, Heading, Fetching, Safe, OtherFlag, IsNull, IsPresent
  <2>2. CASE loc[u].pc = "idle"
    BY <2>2 DEF SwapInOK, Inside, Heading, Fetching, Allocating
  <2> QED BY <1>0, <1>4, <2>1, <2>2 DEF ThreadOK
<1>5. ASSUME u \in Mutator PROVE MutatorOK(u)'
  <2>1. MutatorOK(u) /\ u \in Swapper BY <1>5, ThreadKinds
  <2>2. CASE loc[u].pc = "idle"
    BY <2>2 DEF MutatorOK, HasHandle, Heading, Allocating
  <2>3. CASE loc[u].pc # "idle"
    <3> DEFINE p == loc[u].ptr
    <3>1. p \in Ptr BY <1>0, <2>1, <2>3 DEF ThreadOK
    <3>2. /\ IsNull(p) => IsNull(p)'
          /\ IsPresent(p) <=> IsPresent(p)'
          /\ IsEvacuation(p) => IsEvacuation(p)'
          /\ IsDirty(p) => IsDirty(p)'
          /\ meta'[p].addr = meta[p].addr /\ oid'[p] = oid[p]
      BY <2>1, <3>1 DEF IsNull, IsPresent, IsEvacuation, IsDirty
    <3>3. \A n \in {"build", "fetch", "copy", "re_init"} : Heading(u, n)' <=> Heading(u, n)
      BY DEF Heading
    <3>4. ASSUME HasHandle(u)
          PROVE  /\ HandleOf(u) \in Addr /\ hdr[HandleOf(u)].ptr = p /\ p # NULL
                 /\ hdr'[HandleOf(u)].ptr = p
      <4>1. HandleOf(u) \in Addr BY <1>0, <3>4 DEF ThreadOK, HasHandle, HandleOf
      <4>2. hdr[HandleOf(u)].ptr = p BY <2>1, <3>4 DEF MutatorOK
      <4>3. p # NULL BY <3>1, ConstantsOK
      <4> QED BY <4>1, <4>2, <4>3
    <3>5. ASSUME loc[u].pc = "re_free" PROVE hdr'[loc[u].src].ptr = p
      <4>1. loc[u].src \in Addr BY <1>0, <3>5 DEF ThreadOK
      <4>2. hdr[loc[u].src].ptr = p BY <2>1, <3>5 DEF MutatorOK
      <4>3. p # NULL BY <3>1, ConstantsOK
      <4> QED BY <4>1, <4>2, <4>3
    <3>6. (HasHandle(u)' <=> HasHandle(u)) /\ HandleOf(u)' = HandleOf(u)
      BY <3>3 DEF HasHandle, HandleOf
    <3>7. \A x : Safe(u, x)' <=> Safe(u, x)
      BY <1>5, ThreadKinds DEF Safe, OtherFlag
    <3>8. Heading(u, "build")' => IsNull(p)'
      BY <2>1, <3>2, <3>3 DEF MutatorOK
    <3>9. Heading(u, "copy")' => loc'[u].id = oid'[p] /\ IsEvacuation(p)' /\ meta'[p].addr = loc'[u].src
      BY <2>1, <3>2, <3>3 DEF MutatorOK
    <3>10. ASSUME HasHandle(u), NEW h, h = HandleOf(u)
           PROVE  /\ IsPresent(p)' /\ hdr'[h].ptr = p /\ Safe(u, h)'
                  /\ data'[h] = data'[meta'[p].addr]
                  /\ loc[u].flag => IsDirty(p)'
                  /\ meta'[p].evac /\ ~loc[u].flag =>
                       RegionOf(meta'[p].addr) \in from /\ gc \in {"mark", "observe"}
                  /\ \/ meta'[p].addr = h
                     \/ /\ ~loc[u].flag /\ gc \in {"mark", "observe"}
                        /\ RegionOf(h) \in from /\ RegionOf(meta'[p].addr) \notin from
      <4>1. IsPresent(p)' /\ Safe(u, h)' /\ (loc[u].flag => IsDirty(p)')
        BY <2>1, <3>2, <3>7, <3>10 DEF MutatorOK
      <4>2. hdr'[h].ptr = p BY <3>4, <3>10
      <4>3. data'[h] = data'[meta'[p].addr] BY <1>5, <3>2, <3>10
      <4>4. meta'[p].evac /\ ~loc[u].flag =>
               RegionOf(meta'[p].addr) \in from /\ gc \in {"mark", "observe"}
        BY <1>5, <2>1, <3>2, <3>10 DEF MutatorOK
      <4>5. \/ meta'[p].addr = h
            \/ /\ ~loc[u].flag /\ gc \in {"mark", "observe"}
               /\ RegionOf(h) \in from /\ RegionOf(meta'[p].addr) \notin from
        BY <2>1, <3>2, <3>10 DEF MutatorOK
      <4> QED BY <4>1, <4>2, <4>3, <4>4, <4>5
    <3>11. Heading(u, "re_init") => loc[u].flag BY <2>1 DEF MutatorOK
    <3>12. loc[u].pc = "nb_alloc" /\ loc[u].after = "re_init" => loc[u].addr = loc[u].src
      BY <2>1 DEF MutatorOK
    <3>13. loc[u].pc = "re_free" =>
             /\ IsPresent(p)' /\ meta'[p].addr = loc[u].addr /\ loc[u].flag /\ IsDirty(p)'
             /\ hdr'[loc[u].src].ptr = p /\ Safe(u, loc[u].src)' /\ loc[u].src # loc[u].addr
      BY <2>1, <3>2, <3>5, <3>7 DEF MutatorOK
    <3> QED BY <3>3, <3>6, <3>8, <3>9, <3>10, <3>11, <3>12, <3>13 DEF MutatorOK
  <2> QED BY <2>2, <2>3
<1>6. ASSUME u \in Slave PROVE SlaveOK(u)'
  <2>1. SlaveOK(u) BY <1>6
  <2>2. CASE loc[u].pc = "idle" BY <2>2 DEF SlaveOK
  <2>3. CASE loc[u].pc # "idle"
    <3>1. loc[u].src \in Addr BY <1>0, <1>1, <1>6, <2>3 DEF ThreadOK, KindOK
    <3>2. hdr[loc[u].src].ptr # NULL /\ hdr'[loc[u].src].ptr = hdr[loc[u].src].ptr
          /\ hdr'[loc[u].src].id = hdr[loc[u].src].id
      BY <2>1, <2>3, <3>1 DEF SlaveOK
    <3>3. PICK p : p = hdr[loc[u].src].ptr /\ p = hdr'[loc[u].src].ptr
      BY <3>2
    <3>4. loc[u].pc \in SwapOutPC =>
            /\ IsPresent(p)' /\ meta'[p].addr = loc[u].src /\ (IsDirty(p)' <=> IsDirty(p))
            /\ loc[u].pc = "so_meta" => far'[oid'[p]] = data'[loc[u].src]
      BY <1>6, <2>1, <2>3, <3>3 DEF SlaveOK, IsPresent, IsDirty
    <3>5. loc[u].pc \in SwapOutPC => IsDirty(p)' = IsDirty(p)
      BY <1>6, <3>3 DEF IsDirty
    <3> QED BY <2>1, <2>3, <3>2, <3>3, <3>4, <3>5 DEF SlaveOK
  <2> QED BY <2>2, <2>3
<1> QED BY <1>1, <1>2, <1>3, <1>4, <1>5, <1>6

\* Where an object is, no slot is being filled.
LEMMA PresentFacts ==
  ASSUME CacheInv, TypeInv, NEW p \in Ptr, IsPresent(p)
  PROVE  /\ meta[p].addr \in Addr /\ hdr[meta[p].addr] = NewObject(p, oid[p])
         /\ hdr[meta[p].addr].ptr = p /\ hdr[meta[p].addr].id = oid[p]
         /\ hdr[meta[p].addr].freed = FALSE /\ p # NULL
<1>1. PointerOK(p) BY DEF CacheInv, MemoryInv
<1>2. meta[p].addr \in Addr BY DEF TypeInv, RestOK, MemoryOK
<1>3. p # NULL BY ConstantsOK
<1> QED BY <1>1, <1>2, <1>3 DEF PointerOK, NewObject

\* The slaves' places are as they were when another thread moves.
LEMMA ScannedKept ==
  ASSUME NEW t \in Swapper, \A u \in Thread \ {t} : loc'[u] = loc[u]
  PROVE  \A a : Scanned(a)' <=> Scanned(a)
BY ThreadKinds DEF Scanned

\* What is known of the threads, put together after a step of t.
LEMMA ThreadsTogether ==
  ASSUME CacheInv, NEW t \in Thread, LocalInv(t)',
         \A u \in Thread \ {t} : loc'[u] = loc[u] /\ LocalInv(u)' /\ Apart(t, u)'
  PROVE  ThreadsInv'
<1>1. ASSUME NEW u \in Thread, NEW v \in Thread, u # v PROVE Apart(u, v)'
  <2>1. CASE u # t /\ v # t
    BY <1>1, <2>1 DEF CacheInv, ThreadsInv, Apart, Heading, Inside
  <2>2. CASE u = t
    BY <1>1, <2>2
  <2>3. CASE v = t
    BY <1>1, <2>3 DEF Apart
  <2> QED BY <2>1, <2>2, <2>3
<1> QED BY <1>1 DEF ThreadsInv

\* No two pointers have an id in common, and a new one is nobody's.
LEMMA IdsDistinct ==
  ASSUME TypeInv, NEW p \in Ptr
  PROVE  /\ oid[p] \in ObjId /\ oid[p] # JunkId /\ oid[p][1] = p /\ oid[p][2] \in Nat
         /\ \A q \in Ptr \ {p} : oid[q] # oid[p]
<1>1. oid[p] \in RemoteId /\ \A q \in Ptr : oid[q][1] = q
  BY DEF TypeInv, RestOK, MemoryOK, IdsOwned
<1> QED BY <1>1, ConstantsOK DEF RemoteId, ObjId

\* What is no newer than an id of p is not newer than its next one, and is not that.
LEMMA NextIdIsNew ==
  ASSUME TypeInv, NEW p \in Ptr, NEW i \in ObjId, i = JunkId \/ i[1] # p \/ i[2] <= oid[p][2]
  PROVE  /\ i # FreshId(p)
         /\ i = JunkId \/ i[1] # p \/ i[2] <= FreshId(p)[2]
<1>1. oid[p][2] \in Nat BY IdsDistinct
<1>2. FreshId(p)[1] = p /\ FreshId(p)[2] = oid[p][2] + 1 /\ FreshId(p) # JunkId
  BY <1>1, ConstantsOK DEF FreshId
<1>3. CASE i = JunkId BY <1>2, <1>3
<1>4. CASE i \in RemoteId
  <2>1. i[2] \in Nat BY <1>4, ConstantsOK DEF RemoteId
  <2> QED BY <1>1, <1>2, <2>1
<1> QED BY <1>3, <1>4 DEF ObjId

LEMMA FetchKeeps ==
  ASSUME CacheInv, SwapInUsesOwnId, TypeInv, TypeInv', NEW t \in Swapper, SwapInFetch(t)
  PROVE  CacheInv'
<1> DEFINE a == loc[t].addr
           p == loc[t].ptr
<1> USE ThreadKinds DEF memVars, gcVars, poolVars
<1>0. /\ t \in Thread /\ t \notin Slave /\ LocalInv(t) /\ KindOK(t) /\ LockOK(t) /\ SlotOK(t)
      /\ SwapInOK(t) /\ ThreadOK(t)
  BY DEF CacheInv, ThreadsInv, LocalInv, TypeInv, RestOK, LocalsOK
<1>1. /\ loc[t].pc = "fetch" /\ loc[t].id = oid[p]
      /\ UNCHANGED <<meta, far, oid, lock, poolVars, gcVars, status>>
  BY DEF SwapInFetch, SwapInUsesOwnId
<1>2. p \in Ptr /\ a \in Addr BY <1>0, <1>1 DEF ThreadOK
<1>3. p # NULL BY <1>2, ConstantsOK
<1>4. /\ data' = [data EXCEPT ![a] = far[oid[p]]]
      /\ hdr' = [hdr EXCEPT ![a] = NewObject(p, oid[p])]
  <2>1. oid[p] # JunkId BY <1>2, IdsDistinct
  <2> QED BY <1>1, <2>1 DEF SwapInFetch
<1>5. Inside(t) /\ Fetching(t) BY <1>1 DEF Inside, Fetching, Heading, Allocating
<1>6. ~IsNull(p) /\ ~IsPresent(p) BY <1>0, <1>1, <1>5 DEF SwapInOK
<1>7. hdr[a].ptr = NULL /\ t \in pins[RegionOf(a)] /\ a[2] <= fill[RegionOf(a)]
  BY <1>0, <1>1 DEF SlotOK, Unbuilt, Pinning
<1>8. Becomes(t, "si_present", p, oid[p], a, loc[t].src, loc[t].flag, loc[t].after)
  BY <1>0, <1>1, GotoBecomes DEF SwapInFetch
<1>9. /\ hdr'[a] = NewObject(p, oid[p]) /\ data'[a] = far[oid[p]]
      /\ \A x \in Addr \ {a} : hdr'[x] = hdr[x] /\ data'[x] = data[x]
  BY <1>2, <1>4 DEF TypeInv, RestOK, MemoryOK
<1>10. \A x : Scanned(x)' <=> Scanned(x) BY <1>8, ScannedKept DEF Becomes
<1>11. ASSUME NEW q \in Ptr, IsPresent(q)
       PROVE  meta[q].addr \in Addr \ {a}
  <2>1. meta[q].addr \in Addr /\ hdr[meta[q].addr].ptr # NULL BY <1>11, PresentFacts
  <2> HIDE DEF a
  <2> QED BY <1>7, <2>1
<1> HIDE DEF a, p
<1>12. ASSUME NEW x \in Addr PROVE HeaderOK(x)' /\ LedTo(x)'
  <2>1. HeaderOK(x) /\ LedTo(x) BY DEF CacheInv, MemoryInv
  <2>2. CASE x = a
    <3>1. HeaderOK(x)'
      BY <1>1, <1>2, <1>6, <1>7, <1>9, <2>2 DEF HeaderOK, NewObject, IsNull, RegionOf, TypeInv,
         PoolInv,
         PoolTypeOK, Addr
    <3>2. LedTo(x)' BY <1>8, <2>2 DEF LedTo, Becomes
    <3> QED BY <3>1, <3>2
  <2>3. CASE x # a
    <3>1. hdr'[x] = hdr[x] BY <1>9, <2>3
    <3>2. HeaderOK(x)' BY <1>1, <2>1, <3>1 DEF HeaderOK, IsNull
    <3>3. LedTo(x)'
      BY <1>0, <1>1, <1>8, <1>10, <2>1, <3>1 DEF LedTo, IsPresent, Becomes
    <3> QED BY <3>2, <3>3
  <2> QED BY <2>2, <2>3
<1>13. ASSUME NEW q \in Ptr PROVE PointerOK(q)' /\ Marked(q)' /\ Evacuated(q)'
  <2>1. PointerOK(q) /\ Marked(q) /\ Evacuated(q) BY DEF CacheInv, MemoryInv
  <2>2. IsPresent(q) => /\ hdr'[meta[q].addr] = hdr[meta[q].addr]
                        /\ data'[meta[q].addr] = data[meta[q].addr]
    BY <1>9, <1>11
  <2> QED BY <1>1, <1>10, <2>1, <2>2 DEF PointerOK, Marked, Evacuated, IsPresent, IsDirty
<1>14. RoundOK'
  <2>1. \A x \in todo : x \in Addr /\ hdr'[x].ptr # NULL
    BY <1>3, <1>9 DEF CacheInv, RoundOK, NewObject, TypeInv, RestOK, ControlOK
  <2> QED BY <1>1, <2>1 DEF CacheInv, RoundOK, OtherFlag
<1>15. ASSUME NEW u \in Thread \ {t} PROVE LocalInv(u)' /\ Apart(t, u)'
  <2>1. LocalInv(u) /\ Apart(t, u) /\ ThreadOK(u) /\ LockOK(u) /\ SlotOK(u)
        /\ (u \in Swapper => SwapInOK(u)) /\ (u \in Mutator => MutatorOK(u)) /\ (u \in Slave => SlaveOK(u))
    BY <1>0 DEF CacheInv, ThreadsInv, LocalInv, TypeInv, RestOK, LocalsOK
  <2>2. loc'[u] = loc[u] BY <1>8 DEF Becomes
  <2>3. \A x \in Addr : hdr[x].ptr # NULL =>
           x # a /\ hdr'[x] = hdr[x] /\ data'[x] = data[x]
    BY <1>7, <1>9
  <2>4. loc[u].pc \in Unbuilt => hdr'[loc[u].addr].ptr = NULL
    <3>1. loc[u].pc \in Unbuilt => loc[u].addr # a
      BY <1>1, <2>1 DEF Apart, Unbuilt, a
    <3>2. loc[u].pc \in Unbuilt => loc[u].addr \in Addr
      BY <2>1 DEF ThreadOK, Heading, Unbuilt
    <3> QED BY <1>9, <2>1, <3>1, <3>2 DEF SlotOK
  <2>5. u \in Swapper /\ loc[u].pc = "si_present" =>
            hdr'[loc[u].addr] = hdr[loc[u].addr] /\ data'[loc[u].addr] = far'[oid[loc[u].ptr]]
    <3>1. ASSUME u \in Swapper, loc[u].pc = "si_present"
          PROVE  /\ hdr[loc[u].addr].ptr # NULL /\ loc[u].addr \in Addr
                 /\ data[loc[u].addr] = far[oid[loc[u].ptr]]
      <4>1. hdr[loc[u].addr] = NewObject(loc[u].ptr, oid[loc[u].ptr]) /\ loc[u].ptr \in Ptr
        BY <2>1, <3>1 DEF SwapInOK, ThreadOK
      <4>2. loc[u].ptr # NULL BY <4>1, ConstantsOK
      <4> QED BY <2>1, <3>1, <4>1, <4>2 DEF SwapInOK, ThreadOK, NewObject
    <3> QED BY <1>1, <2>3, <3>1
  <2>6. u \in Mutator /\ HasHandle(u) => data'[HandleOf(u)] = data'[meta[loc[u].ptr].addr]
    <3>1. ASSUME u \in Mutator, HasHandle(u)
          PROVE  /\ HandleOf(u) \in Addr /\ hdr[HandleOf(u)].ptr # NULL
                 /\ meta[loc[u].ptr].addr \in Addr \ {a}
                 /\ data[HandleOf(u)] = data[meta[loc[u].ptr].addr]
      <4>1. IsPresent(loc[u].ptr) /\ hdr[HandleOf(u)].ptr = loc[u].ptr
            /\ data[HandleOf(u)] = data[meta[loc[u].ptr].addr]
        BY <2>1, <3>1 DEF MutatorOK
      <4>2. loc[u].ptr \in Ptr /\ HandleOf(u) \in Addr
        BY <2>1, <3>1 DEF HasHandle, HandleOf, ThreadOK, Heading, Allocating
      <4>3. loc[u].ptr # NULL BY <4>2, ConstantsOK
      <4> QED BY <1>11, <4>1, <4>2, <4>3
    <3> QED BY <1>9, <2>3, <3>1
  <2>7. u \in Slave /\ loc[u].pc \in SwapOutPC => data'[loc[u].src] = data[loc[u].src]
    BY <2>1, <2>3 DEF SlaveOK, SwapOutPC, ThreadOK, SlavePC
  <2>8. \A r \in Region : fill'[r] >= fill[r] /\ (u \in pins[r] => u \in pins'[r])
    BY <1>1 DEF TypeInv, PoolInv, PoolTypeOK
  <2>9. Holds(u) => lock'[loc[u].id] = u BY <1>1, <2>1 DEF LockOK
  <2>10. LocalInv(u)'
    BY <1>1, <2>1, <2>2, <2>3, <2>4, <2>5, <2>6, <2>7, <2>8, <2>9, BystanderFramed
  <2>11. Apart(t, u)'
    BY <1>0, <1>1, <1>5, <1>8, <2>1, <2>2 DEF Apart, Becomes, Inside, Heading, Unbuilt, Allocating,
       p
  <2> QED BY <2>10, <2>11
<1>16. LocalInv(t)'
  <2>1. KindOK(t)' /\ LockOK(t)' /\ SlotOK(t)'
    BY <1>0, <1>1, <1>7, <1>8 DEF KindOK, LockOK, SlotOK, Becomes, Holds, Heading, SlavePC, Pinning,
       Unbuilt, Allocating, SwapOutPC
  <2>2. /\ loc'[t].pc = "si_present" /\ loc'[t].ptr = loc[t].ptr /\ loc'[t].id = oid'[loc[t].ptr]
        /\ loc'[t].id = loc[t].id
        /\ loc'[t].addr = loc[t].addr /\ status' = status
        /\ t \in Scoped => status[t] # "out"
    BY <1>0, <1>1, <1>5, <1>8 DEF SwapInOK, Becomes, a, p
  <2>3. /\ meta'[loc[t].ptr].kind \notin {"null", "present"}
        /\ hdr'[loc[t].addr] = NewObject(loc[t].ptr, oid'[loc[t].ptr])
        /\ data'[loc[t].addr] = far'[oid'[loc[t].ptr]]
    BY <1>1, <1>6, <1>9 DEF IsNull, IsPresent, a, p
  <2>4. SwapInOK(t)'
    BY <1>0, <1>1, <1>5, <2>2, <2>3 DEF SwapInOK, Heading, Allocating, Fetching, IsNull, IsPresent
  <2>5. MutatorOK(t)'
    BY <1>8 DEF MutatorOK, Becomes, HasHandle, Heading, Allocating
  <2> QED BY <1>0, <2>1, <2>5, <2>4 DEF LocalInv
<1>17. ThreadsInv' BY <1>0, <1>8, <1>15, <1>16, ThreadsTogether DEF Becomes
<1> QED BY <1>12, <1>13, <1>14, <1>17 DEF CacheInv, MemoryInv

\* What makes u stand in the way of publishing a new object of p at address a.
Undisturbed(u, p, a) ==
  /\ loc[u].pc \in Unbuilt => loc[u].addr # a
  /\ u \in Swapper /\ loc[u].ptr = p => ~(Fetching(u) /\ loc[u].id = oid[p])
  /\ u \in Mutator /\ loc[u].ptr = p =>
       /\ ~Heading(u, "build") /\ ~Heading(u, "copy") /\ loc[u].pc # "re_free"
       /\ HasHandle(u) => /\ ~loc[u].flag /\ gc \in {"mark", "observe"}
                          /\ RegionOf(HandleOf(u)) \in from
                          /\ data'[a] = data[meta[p].addr]
  /\ u \in Slave /\ loc[u].pc \in SwapOutPC => hdr[loc[u].src].ptr # p

\* The object that p led to is accounted for.
OldAccounted(p, a) == \A x \in Addr \ {a} : IsPresent(p) /\ meta[p].addr = x => LedTo(x)'

\* Pointer p leads to address a from now on, with the contents that data' gives it.
LEMMA PublishKeeps ==
  ASSUME CacheInv, TypeInv, TypeInv', NEW t \in Thread, NEW p \in Ptr, NEW a \in Addr,
         RegionOf(a) \notin from, a[2] <= fill[RegionOf(a)], hdr[a].ptr \in {NULL, p},
         UNCHANGED <<far, from, gc, todo, expected_status, status, fill>>,
         oid' = oid \/ (HasFreshId(p) /\ oid' = [oid EXCEPT ![p] = FreshId(p)]),
         \A q \in Ptr \ {p} : meta'[q] = meta[q],
         meta'[p].kind = "present", meta'[p].addr = a, meta'[p].evac = FALSE,
         meta'[p].dirty = TRUE \/ data'[a] = far[oid'[p]],
         hdr'[a] = NewObject(p, oid'[p]), hdr[a].ptr = p => hdr[a].id = oid'[p],
         \A x \in Addr \ {a} :
            /\ data'[x] = data[x]
            /\ \/ hdr'[x] = hdr[x]
               \/ hdr[x].ptr = p /\ hdr'[x].ptr = p /\ hdr'[x].id = hdr[x].id /\ hdr'[x].freed,
         OldAccounted(p, a),
         loc[t].pc # "re_free", loc[t].pc = "si_present" => loc[t].addr = a,
         t \in Slave => /\ loc[t].pc # "idle" /\ hdr[loc[t].src].ptr = p
                        /\ loc'[t].pc = "idle",
         LocalInv(t)',
         \A u \in Thread \ {t} :
            /\ loc'[u] = loc[u] /\ Apart(t, u)' /\ Undisturbed(u, p, a)
            /\ Holds(u) => lock'[loc[u].id] = u
            /\ \A r \in Region : u \in pins[r] => u \in pins'[r]
  PROVE  CacheInv'
<1> USE ThreadKinds
<1>1. p # NULL BY ConstantsOK
<1>2. \A x : Scanned(x)' => Scanned(x) BY DEF Scanned
<1>3. ASSUME NEW q \in Ptr \ {p}, IsPresent(q)
      PROVE  LET x == meta[q].addr IN
             /\ x \in Addr \ {a} /\ hdr'[x] = hdr[x] /\ data'[x] = data[x]
             /\ Scanned(x)' <=> Scanned(x)
  <2>1. meta[q].addr \in Addr /\ hdr[meta[q].addr].ptr = q /\ q # NULL
    BY <1>3, PresentFacts
  <2>2. Scanned(meta[q].addr) => Scanned(meta[q].addr)'
    <3>1. SUFFICES ASSUME NEW s \in Slave, loc[s].pc # "idle", loc[s].src = meta[q].addr
                   PROVE  s # t
      BY DEF Scanned
    <3>2. SlaveOK(s) BY DEF CacheInv, ThreadsInv, LocalInv
    <3> QED BY <2>1, <3>1, <3>2 DEF SlaveOK
  <2> QED BY <1>2, <2>1, <2>2
<1>9. /\ \A q \in Ptr \ {p} : oid'[q] = oid[q]
      /\ oid' = oid \/ oid'[p] = FreshId(p)
  BY DEF TypeInv, RestOK, MemoryOK
<1>4. ASSUME NEW x \in Addr PROVE HeaderOK(x)' /\ LedTo(x)'
  <2>1. HeaderOK(x) /\ LedTo(x) BY DEF CacheInv, MemoryInv
  <2>2. CASE x = a
    <3>1. HeaderOK(x)'
      BY <2>2 DEF HeaderOK, NewObject, IsNull, RegionOf, TypeInv, PoolInv, PoolTypeOK, Addr
    <3>2. LedTo(x)' BY <2>2 DEF LedTo, IsPresent, NewObject
    <3> QED BY <3>1, <3>2
  <2>3. CASE x # a
    <3>1. hdr'[x] = hdr[x] \/ (hdr[x].ptr = p /\ hdr'[x].ptr = p /\ hdr'[x].id = hdr[x].id /\ hdr'[x].freed)
      BY <2>3
    <3>2. hdr[x].ptr # NULL => hdr[x].ptr \in Ptr
      BY DEF TypeInv, RestOK, MemoryOK, Header
    <3>3. HeaderOK(x)' BY <1>1, <2>1, <3>1, <3>2 DEF HeaderOK, IsNull
    <3>4. ASSUME hdr'[x].ptr # NULL, ~hdr'[x].freed PROVE LedTo(x)'
      <4>0. hdr'[x] = hdr[x] BY <3>1, <3>4
      <4>1. CASE IsPresent(hdr[x].ptr) /\ meta[hdr[x].ptr].addr = x
        <5>1. CASE hdr[x].ptr = p BY <2>3, <4>1, <5>1 DEF OldAccounted
        <5>2. CASE hdr[x].ptr # p
          <6>1. meta'[hdr[x].ptr] = meta[hdr[x].ptr] BY <3>2, <3>4, <4>0, <5>2
          <6> QED BY <4>0, <4>1, <6>1 DEF LedTo, IsPresent
        <5> QED BY <5>1, <5>2
      <4>2. CASE \/ \E u \in Swapper : loc[u].pc = "si_present" /\ loc[u].addr = x
                 \/ \E m \in Mutator : loc[m].pc = "re_free" /\ loc[m].src = x
        BY <2>3, <4>2 DEF LedTo
      <4>3. CASE gc \in {"writeback", "release"} /\ RegionOf(x) \in from /\ x \notin todo /\ ~Scanned(x)
        BY <1>2, <4>3 DEF LedTo
      <4> QED BY <2>1, <3>4, <4>0, <4>1, <4>2, <4>3 DEF LedTo
    <3>5. LedTo(x)' BY <3>4 DEF LedTo
    <3> QED BY <3>3, <3>5
  <2> QED BY <2>2, <2>3
<1>5. ASSUME NEW q \in Ptr PROVE PointerOK(q)' /\ Marked(q)' /\ Evacuated(q)'
  <2>1. PointerOK(q) /\ Marked(q) /\ Evacuated(q) BY DEF CacheInv, MemoryInv
  <2>2. CASE q = p
    BY <2>2 DEF PointerOK, Marked, Evacuated, IsPresent, IsDirty
  <2>3. CASE q # p
    BY <1>3, <1>9, <2>1, <2>3 DEF PointerOK, Marked, Evacuated, IsPresent, IsDirty
  <2> QED BY <2>2, <2>3
<1>6. RoundOK'
  <2>1. \A x \in todo : x \in Addr /\ hdr'[x].ptr # NULL
    BY <1>1 DEF CacheInv, RoundOK, NewObject, TypeInv, RestOK, ControlOK
  <2> QED BY <2>1 DEF CacheInv, RoundOK, OtherFlag
<1>7. ASSUME NEW u \in Thread \ {t} PROVE LocalInv(u)'
  <2>1. /\ LocalInv(u) /\ ThreadOK(u) /\ KindOK(u) /\ LockOK(u) /\ SlotOK(u)
        /\ (u \in Swapper => SwapInOK(u)) /\ (u \in Mutator => MutatorOK(u)) /\ (u \in Slave => SlaveOK(u))
        /\ Undisturbed(u, p, a) /\ loc'[u] = loc[u]
    BY DEF CacheInv, ThreadsInv, LocalInv, TypeInv, RestOK, LocalsOK
  <2>2. loc[u].pc \in Unbuilt => hdr'[loc[u].addr].ptr = NULL
    <3>1. loc[u].pc \in Unbuilt => loc[u].addr \in Addr \ {a}
      BY <2>1 DEF ThreadOK, Heading, Unbuilt, Undisturbed
    <3> QED BY <1>1, <2>1, <3>1 DEF SlotOK
  <2>3. \A x \in Addr : hdr[x].ptr # NULL => hdr'[x].ptr = hdr[x].ptr /\ hdr'[x].id = hdr[x].id
    BY DEF NewObject
  <2>4. \A r \in Region : fill'[r] >= fill[r] /\ (u \in pins[r] => u \in pins'[r])
    BY DEF TypeInv, PoolInv, PoolTypeOK
  <2>5. CASE u \in Swapper /\ loc[u].ptr = p
    <3>1. KindOK(u)' BY <2>1 DEF KindOK
    <3>2. LockOK(u)' BY <2>1 DEF LockOK, Holds, Heading
    <3>3. SlotOK(u)'
      <4>1. loc[u].pc \in Pinning => loc[u].addr \in Addr /\ RegionOf(loc[u].addr) \in Region
        BY <2>1, <2>5 DEF ThreadOK, Heading, Pinning, Unbuilt, Addr, RegionOf
      <4> QED BY <2>1, <2>2, <2>4, <4>1 DEF SlotOK, Pinning
    <3>4. SwapInOK(u)'
      <4>1. CASE oid' = oid
        BY <2>1, <2>5, <4>1 DEF SwapInOK, Undisturbed, Inside, Heading, Fetching, Safe, OtherFlag,
           IsNull, IsPresent
      <4>2. CASE oid'[p] = FreshId(p)
        <5>1. loc[u].pc \in {"si_check", "si_lock", "si_recheck"} \/ Fetching(u) =>
                /\ loc[u].id # FreshId(p)
                /\ loc[u].id = JunkId \/ loc[u].id[1] # p \/ loc[u].id[2] <= FreshId(p)[2]
          BY <2>1, <2>5, NextIdIsNew DEF SwapInOK, ThreadOK, Fetching
        <5>2. loc[u].pc # "si_present" /\ (u \in Scoped => ~Heading(u, "fetch"))
          BY <2>1, <2>5 DEF SwapInOK, Undisturbed, Fetching
        <5> QED BY <2>1, <2>5, <4>2, <5>1, <5>2 DEF SwapInOK, Inside, Heading, Fetching, Safe,
                   OtherFlag, IsNull, IsPresent
      <4> QED BY <1>9, <4>1, <4>2
    <3>5. ASSUME u \in Mutator PROVE MutatorOK(u)'
      <4>1. ~Heading(u, "build") /\ ~Heading(u, "copy") /\ loc[u].pc # "re_free"
        BY <2>1, <2>5, <3>5 DEF Undisturbed
      <4>2. (HasHandle(u)' <=> HasHandle(u)) /\ HandleOf(u)' = HandleOf(u)
            /\ \A n \in {"build", "copy", "re_init"} : Heading(u, n)' <=> Heading(u, n)
        BY <2>1 DEF HasHandle, HandleOf, Heading
      <4>3. ASSUME HasHandle(u), NEW h, h = HandleOf(u)
            PROVE  /\ hdr'[h].ptr = p /\ Safe(u, h)' /\ data'[h] = data'[a] /\ ~loc[u].flag
                   /\ gc \in {"mark", "observe"} /\ RegionOf(h) \in from
        <5>1. h \in Addr BY <2>1, <4>3 DEF HasHandle, HandleOf, ThreadOK
        <5>2. hdr[h].ptr = p /\ Safe(u, h) /\ data[h] = data[meta[p].addr]
          BY <2>1, <2>5, <3>5, <4>3 DEF MutatorOK
        <5>3. /\ ~loc[u].flag /\ gc \in {"mark", "observe"} /\ RegionOf(h) \in from
              /\ data'[a] = data[meta[p].addr]
          BY <2>1, <2>5, <3>5, <4>3 DEF Undisturbed
        <5>4. h # a BY <5>3
        <5> QED BY <1>1, <2>3, <5>1, <5>2, <5>3, <5>4 DEF Safe, OtherFlag
      <4>4. loc[u].pc = "nb_alloc" /\ loc[u].after = "re_init" => loc[u].addr = loc[u].src
        BY <2>1, <3>5 DEF MutatorOK
      <4>5. Heading(u, "re_init") => loc[u].flag
        BY <2>1, <3>5 DEF MutatorOK
      <4> QED BY <2>1, <2>5, <4>1, <4>2, <4>3, <4>4, <4>5 DEF MutatorOK, IsPresent
    <3> QED BY <2>5, <3>1, <3>2, <3>3, <3>4, <3>5 DEF LocalInv
  <2>6. CASE ~(u \in Swapper /\ loc[u].ptr = p)
    <3>1. u \in Swapper /\ loc[u].pc = "si_present" =>
             hdr'[loc[u].addr] = hdr[loc[u].addr] /\ data'[loc[u].addr] = far'[oid[loc[u].ptr]]
      <4>1. ASSUME u \in Swapper, loc[u].pc = "si_present"
            PROVE  /\ hdr[loc[u].addr].ptr \notin {NULL, p} /\ loc[u].addr \in Addr
                   /\ data[loc[u].addr] = far[oid[loc[u].ptr]]
        <5>1. hdr[loc[u].addr] = NewObject(loc[u].ptr, oid[loc[u].ptr]) /\ loc[u].ptr \in Ptr
          BY <2>1, <4>1 DEF SwapInOK, ThreadOK
        <5>2. loc[u].ptr # NULL BY <5>1, ConstantsOK
        <5> QED BY <2>1, <2>6, <4>1, <5>1, <5>2 DEF SwapInOK, ThreadOK, NewObject
      <4> QED BY <4>1
    <3>2. u \in Mutator /\ HasHandle(u) =>
             /\ meta'[loc[u].ptr] = meta[loc[u].ptr]
             /\ data'[HandleOf(u)] = data'[meta[loc[u].ptr].addr]
      <4>1. ASSUME u \in Mutator, HasHandle(u)
            PROVE  /\ loc[u].ptr \in Ptr \ {p} /\ HandleOf(u) \in Addr \ {a}
                   /\ meta[loc[u].ptr].addr \in Addr \ {a}
                   /\ data[HandleOf(u)] = data[meta[loc[u].ptr].addr]
        <5>1. IsPresent(loc[u].ptr) /\ hdr[HandleOf(u)].ptr = loc[u].ptr
              /\ data[HandleOf(u)] = data[meta[loc[u].ptr].addr]
          BY <2>1, <4>1 DEF MutatorOK
        <5>2. loc[u].ptr \in Ptr \ {p} /\ HandleOf(u) \in Addr
          BY <2>1, <2>6, <4>1 DEF HasHandle, HandleOf, ThreadOK, Heading, Allocating
        <5>3. loc[u].ptr # NULL BY <5>2, ConstantsOK
        <5> QED BY <1>3, <5>1, <5>2, <5>3
      <4> QED BY <4>1
    <3>3. u \in Swapper /\ loc[u].ptr \in Ptr =>
            meta'[loc[u].ptr] = meta[loc[u].ptr] /\ oid'[loc[u].ptr] = oid[loc[u].ptr]
      BY <1>9, <2>6
    <3>4. u \in Slave /\ loc[u].pc \in SwapOutPC =>
            LET q == hdr[loc[u].src].ptr IN
            /\ meta'[q] = meta[q] /\ oid'[q] = oid[q] /\ data'[loc[u].src] = data[loc[u].src]
      <4>1. ASSUME u \in Slave, loc[u].pc \in SwapOutPC
            PROVE  /\ loc[u].src \in Addr /\ hdr[loc[u].src].ptr \in Ptr \ {p}
                   /\ loc[u].src # a
        <5>1. loc[u].pc # "idle" BY <4>1 DEF SwapOutPC
        <5>2. loc[u].src \in Addr /\ hdr[loc[u].src].ptr \in Ptr /\ RegionOf(loc[u].src) \in from
          BY <4>1, <5>1, SlaveSource
        <5> QED BY <2>1, <4>1, <5>2 DEF Undisturbed
      <4> QED BY <1>9, <4>1
    <3> QED BY <2>1, <2>2, <2>3, <2>4, <3>1, <3>2, <3>3, <3>4, BystanderFramed
  <2> QED BY <2>5, <2>6
<1>8. ThreadsInv' BY <1>7, ThreadsTogether
<1> QED BY <1>4, <1>5, <1>6, <1>8 DEF CacheInv, MemoryInv

\* The slot a thread fills, or has just filled, is not being evacuated.
LEMMA PinnedSlot ==
  ASSUME CacheInv, TypeInv, NEW t \in Thread, loc[t].pc \in Pinning
  PROVE  LET a == loc[t].addr IN
         /\ a \in Addr /\ RegionOf(a) \in Region /\ RegionOf(a) \notin free \cup from
         /\ a[2] <= fill[RegionOf(a)]
         /\ loc[t].pc \in Unbuilt => hdr[a].ptr = NULL
<1>1. SlotOK(t) /\ ThreadOK(t)
  BY DEF CacheInv, ThreadsInv, LocalInv, TypeInv, RestOK, LocalsOK
<1>2. loc[t].addr \in Addr
  BY <1>1 DEF ThreadOK, Pinning, Unbuilt, Heading
<1>3. RegionOf(loc[t].addr) \in Region BY <1>2 DEF Addr, RegionOf
<1> QED BY <1>1, <1>2, <1>3 DEF SlotOK, TypeInv, PoolInv, PinnedNotReclaimed

LEMMA DropKeepsPins ==
  ASSUME TypeInv, NEW t \in Thread, DropPin(t)
  PROVE  \A u \in Thread \ {t} : \A r \in Region : u \in pins[r] => u \in pins'[r]
BY DEF DropPin, TypeInv, PoolInv, PoolTypeOK

LEMMA LockIsExclusive ==
  ASSUME CacheInv, NEW t \in Thread, NEW u \in Thread, Holds(t), Holds(u), loc[t].id = loc[u].id
  PROVE  t = u
BY DEF CacheInv, ThreadsInv, LocalInv, LockOK

LEMMA BuildKeeps ==
  ASSUME CacheInv, TypeInv, TypeInv', NEW m \in Mutator, BuildObject(m)
  PROVE  CacheInv'
<1> DEFINE a == loc[m].addr
           p == loc[m].ptr
<1> USE ThreadKinds DEF gcVars
<1>0. /\ m \in Thread /\ m \in Swapper /\ m \notin Slave /\ LocalInv(m) /\ MutatorOK(m) /\ ThreadOK(m)
  BY DEF CacheInv, ThreadsInv, LocalInv, TypeInv, RestOK, LocalsOK
<1>1. /\ loc[m].pc = "build" /\ DropPin(m)
      /\ meta' = [meta EXCEPT ![p] = PresentMeta(a, TRUE, TRUE)]
      /\ hdr' = [hdr EXCEPT ![a] = NewObject(p, oid[p])]
      /\ UNCHANGED <<data, far, oid, from, gc, todo, expected_status, status, fill, lock>>
  BY DEF BuildObject
<1>2. p \in Ptr /\ IsNull(p) BY <1>0, <1>1 DEF ThreadOK, MutatorOK, Heading
<1>3. /\ a \in Addr /\ RegionOf(a) \notin from /\ a[2] <= fill[RegionOf(a)] /\ hdr[a].ptr = NULL
  BY <1>0, <1>1, PinnedSlot DEF Pinning, Unbuilt
<1>4. Becomes(m, "idle", NULL, NULL, NULL, NULL, FALSE, "idle")
  BY <1>0, IdleBecomes DEF BuildObject
<1>5. LocalInv(m)' /\ ~Heading(m, "build")' /\ loc'[m].pc \notin Unbuilt /\ ~Inside(m)'
  BY <1>0, <1>4, SettledOK DEF Becomes, Inside
<1>6. \A u \in Thread \ {m} : Apart(m, u)'
  BY <1>0, <1>4, <1>5, ApartKept DEF Becomes
<1>7. ASSUME NEW u \in Thread \ {m} PROVE Undisturbed(u, p, a)
  <2>1. /\ LocalInv(u) /\ Apart(m, u) /\ (u \in Swapper => SwapInOK(u)) /\ (u \in Slave => SlaveOK(u))
    BY <1>0 DEF CacheInv, ThreadsInv, LocalInv
  <2>2. u \in Swapper /\ loc[u].ptr = p => ~Inside(u)
    BY <1>2, <2>1 DEF SwapInOK
  <2>3. Fetching(u) \/ Heading(u, "copy") \/ loc[u].pc = "re_free" \/ HasHandle(u) => Inside(u)
    BY DEF Fetching, Heading, HasHandle, Inside, Allocating
  <2>4. u \in Slave /\ loc[u].pc \in SwapOutPC => hdr[loc[u].src].ptr # p
    BY <1>2, <2>1 DEF SlaveOK, SwapOutPC, IsNull, IsPresent
  <2>5. u \in Mutator /\ loc[u].ptr = p => ~Heading(u, "build")
    BY <1>1, <2>1 DEF Apart, Heading
  <2>6. loc[u].pc \in Unbuilt => loc[u].addr # a
    BY <1>1, <2>1 DEF Apart, Unbuilt
  <2> QED BY <2>2, <2>3, <2>4, <2>5, <2>6 DEF Undisturbed
<1>8. /\ \A q \in Ptr \ {p} : meta'[q] = meta[q]
      /\ meta'[p] = PresentMeta(a, TRUE, TRUE)
      /\ hdr'[a] = NewObject(p, oid[p])
      /\ \A x \in Addr \ {a} : hdr'[x] = hdr[x] /\ data'[x] = data[x]
  BY <1>1, <1>2, <1>3 DEF TypeInv, RestOK, MemoryOK
<1>9. meta'[p].kind = "present" /\ meta'[p].addr = a /\ meta'[p].evac = FALSE /\ meta'[p].dirty = TRUE
  BY <1>8 DEF PresentMeta
<1>10. OldAccounted(p, a) BY <1>2 DEF OldAccounted, IsNull, IsPresent
<1>11. \A u \in Thread : Holds(u) => lock'[loc[u].id] = u
  BY <1>1 DEF CacheInv, ThreadsInv, LocalInv, LockOK
<1>12. \A u \in Thread \ {m} : loc'[u] = loc[u] BY <1>4 DEF Becomes
<1>13. \A u \in Thread \ {m} : \A r \in Region : u \in pins[r] => u \in pins'[r]
  BY <1>0, <1>1, DropKeepsPins
<1> HIDE DEF a, p
<1>14. /\ loc[m].pc \notin {"re_free", "si_present"} /\ p # NULL
       /\ oid' = oid \/ (HasFreshId(p) /\ oid' = [oid EXCEPT ![p] = FreshId(p)])
       /\ hdr'[a] = NewObject(p, oid'[p])
  BY <1>1, <1>2, <1>8, ConstantsOK
<1> QED BY <1>0, <1>1, <1>2, <1>3, <1>5, <1>6, <1>7, <1>8, <1>9, <1>10, <1>11, <1>12, <1>13,
           <1>14, PublishKeeps

LEMMA PresentKeeps ==
  ASSUME CacheInv, TypeInv, TypeInv', NEW t \in Swapper, SwapInPresent(t)
  PROVE  CacheInv'
<1> DEFINE a == loc[t].addr
           p == loc[t].ptr
<1> USE ThreadKinds DEF gcVars, poolVars
<1>0. /\ t \in Thread /\ t \notin Slave /\ LocalInv(t) /\ SwapInOK(t) /\ ThreadOK(t) /\ LockOK(t) /\ KindOK(t)
  BY DEF CacheInv, ThreadsInv, LocalInv, TypeInv, RestOK, LocalsOK
<1>1. /\ loc[t].pc = "si_present"
      /\ meta' = [meta EXCEPT ![p] = PresentMeta(a, FALSE, FALSE)]
      /\ UNCHANGED <<hdr, data, far, oid, from, gc, todo, expected_status, status, fill, pins, lock>>
  BY DEF SwapInPresent
<1>2. Inside(t) /\ Fetching(t) /\ Holds(t)
  BY <1>1 DEF Inside, Fetching, Holds, Heading, Allocating
<1>3. /\ p \in Ptr /\ loc[t].id = oid[p] /\ ~IsNull(p) /\ ~IsPresent(p)
      /\ hdr[a] = NewObject(p, oid[p]) /\ data[a] = far[oid[p]]
  BY <1>0, <1>1, <1>2 DEF ThreadOK, SwapInOK
<1>4. p # NULL BY <1>3, ConstantsOK
<1>5. hdr[a].ptr = p /\ hdr[a].id = oid[p] BY <1>3 DEF NewObject
<1>6. a \in Addr /\ RegionOf(a) \notin from /\ a[2] <= fill[RegionOf(a)]
  BY <1>0, <1>1, PinnedSlot DEF Pinning
<1>7. Becomes(t, "si_finish", loc[t].ptr, loc[t].id, loc[t].addr, loc[t].src, loc[t].flag, loc[t].after)
  BY <1>0, GotoBecomes DEF SwapInPresent
<1>8. /\ \A q \in Ptr \ {p} : meta'[q] = meta[q]
      /\ meta'[p] = PresentMeta(a, FALSE, FALSE)
  BY <1>1, <1>3 DEF TypeInv, RestOK, MemoryOK
<1>9. meta'[p].kind = "present" /\ meta'[p].addr = a /\ meta'[p].evac = FALSE
  BY <1>8 DEF PresentMeta
<1>10. LocalInv(t)'
  <2>1. KindOK(t)' /\ LockOK(t)' /\ SlotOK(t)' /\ MutatorOK(t)'
    BY <1>0, <1>1, <1>2, <1>7 DEF KindOK, LockOK, SlotOK, MutatorOK, Becomes, Heading, Allocating,
       SlavePC,
          Pinning, Unbuilt, HasHandle
  <2>2. meta'[loc[t].ptr].kind = "present" /\ (t \in Scoped => status'[t] # "out")
    BY <1>0, <1>1, <1>2, <1>9 DEF SwapInOK
  <2>3. SwapInOK(t)'
    BY <1>3, <1>7, <2>2 DEF SwapInOK, Becomes, Inside, Heading, Allocating, Fetching, IsNull,
       IsPresent
  <2> QED BY <1>0, <2>1, <2>3 DEF LocalInv
<1>11. \A u \in Thread \ {t} : Apart(t, u)'
  BY <1>0, <1>2, <1>7, ApartKept DEF Becomes, Heading, Allocating, Unbuilt
<1>12. ASSUME NEW u \in Thread \ {t} PROVE Undisturbed(u, p, a)
  <2>1. /\ LocalInv(u) /\ SlotOK(u) /\ (u \in Swapper => SwapInOK(u)) /\ (u \in Slave => SlaveOK(u))
        /\ (u \in Mutator => MutatorOK(u))
    BY DEF CacheInv, ThreadsInv, LocalInv
  <2>2. loc[u].pc \in Unbuilt => loc[u].addr # a
    BY <1>4, <1>5, <2>1 DEF SlotOK
  <2>3. ~(Fetching(u) /\ loc[u].id = oid[p])
    BY <1>0, <1>2, <1>3, LockIsExclusive DEF Fetching, Holds
  <2>4. u \in Mutator /\ loc[u].ptr = p =>
          ~Heading(u, "build") /\ ~Heading(u, "copy") /\ loc[u].pc # "re_free" /\ ~HasHandle(u)
    BY <1>3, <2>1 DEF MutatorOK, IsEvacuation
  <2>5. u \in Slave /\ loc[u].pc \in SwapOutPC => hdr[loc[u].src].ptr # p
    BY <1>3, <2>1 DEF SlaveOK, SwapOutPC
  <2> QED BY <2>2, <2>3, <2>4, <2>5 DEF Undisturbed
<1>13. \A u \in Thread : Holds(u) => lock'[loc[u].id] = u
  BY <1>1 DEF CacheInv, ThreadsInv, LocalInv, LockOK
<1>14. \A u \in Thread \ {t} : loc'[u] = loc[u] BY <1>7 DEF Becomes
<1> HIDE DEF a, p
<1>15. loc[t].addr = a /\ OldAccounted(p, a) BY <1>3 DEF a, OldAccounted
<1>16. /\ oid' = oid \/ (HasFreshId(p) /\ oid' = [oid EXCEPT ![p] = FreshId(p)])
       /\ data'[a] = far[oid'[p]] /\ hdr'[a] = NewObject(p, oid'[p]) /\ hdr[a].id = oid'[p]
       /\ \A x \in Addr \ {a} : hdr'[x] = hdr[x] /\ data'[x] = data[x]
       /\ loc[t].pc # "re_free" /\ UNCHANGED <<far, from, gc, todo, expected_status, status, fill>>
  BY <1>1, <1>3, <1>5
<1>17. \A u \in Thread \ {t} :
          /\ loc'[u] = loc[u] /\ Apart(t, u)' /\ Undisturbed(u, p, a)
          /\ Holds(u) => lock'[loc[u].id] = u
          /\ \A r \in Region : u \in pins[r] => u \in pins'[r]
  BY <1>1, <1>11, <1>12, <1>13, <1>14
<1>18. t \in Thread /\ t \notin Slave /\ p \in Ptr /\ hdr[a].ptr = p
  BY <1>0, <1>3, <1>5
<1>19. \A q \in Ptr \ {p} : meta'[q] = meta[q] BY <1>8
<1> QED BY <1>6, <1>9, <1>10, <1>15, <1>16, <1>17, <1>18, <1>19, PublishKeeps

\* A slave that swaps out holds the lock of its object's own id.
LEMMA SwapOutSource ==
  ASSUME CacheInv, TypeInv, NEW s \in Slave, loc[s].pc \in SwapOutPC
  PROVE  /\ loc[s].id = oid[hdr[loc[s].src].ptr] /\ loc[s].ptr = hdr[loc[s].src].ptr
         /\ Holds(s)
<1>1. SlaveOK(s) /\ loc[s].pc # "idle"
  BY ThreadKinds DEF CacheInv, ThreadsInv, LocalInv, SwapOutPC
<1> QED BY <1>1, SlaveSource DEF SlaveOK, Holds

LEMMA MigrateKeeps ==
  ASSUME CacheInv, TypeInv, TypeInv', NEW m \in Mutator, MigrateCopy(m)
  PROVE  CacheInv'
<1> USE ThreadKinds DEF gcVars
<1>0. /\ m \in Thread /\ m \in Swapper /\ m \in Scoped /\ m \notin Slave /\ LocalInv(m) /\ MutatorOK(m)
      /\ SwapInOK(m) /\ ThreadOK(m)
  BY DEF CacheInv, ThreadsInv, LocalInv, TypeInv, RestOK, LocalsOK
<1> SUFFICES ASSUME NEW p \in Ptr, NEW a \in Addr, NEW old \in Addr,
                     p = loc[m].ptr, a = loc[m].addr, old = loc[m].src
              PROVE  CacheInv'
  <2>1. loc[m].pc = "copy" BY DEF MigrateCopy
  <2> QED BY <1>0, <2>1 DEF ThreadOK, Heading
<1>1. /\ loc[m].pc = "copy" /\ DropPin(m) /\ Unlock(m)
      /\ data' = [data EXCEPT ![a] = data[old]]
      /\ hdr' = [hdr EXCEPT ![a] = hdr[old], ![old].freed = TRUE]
      /\ meta' = [meta EXCEPT ![p] = PresentMeta(a, meta[p].hot, meta[p].dirty)]
      /\ loc' = [loc EXCEPT ![m] = [Idle EXCEPT !.pc = "deref", !.ptr = p, !.flag = loc[m].flag]]
      /\ UNCHANGED <<far, oid, from, gc, todo, expected_status, status, fill>>
  BY DEF MigrateCopy
<1>2. Heading(m, "copy") /\ Inside(m) /\ Holds(m)
  BY <1>1 DEF Heading, Inside, Holds, Allocating
<1>3. p \in Ptr /\ loc[m].id = oid[p] /\ IsEvacuation(p) /\ IsPresent(p) /\ meta[p].addr = old
  BY <1>0, <1>1, <1>2 DEF ThreadOK, MutatorOK, IsEvacuation
<1>4. /\ old \in Addr /\ hdr[old] = NewObject(p, oid[p]) /\ hdr[old].ptr = p /\ p # NULL
  BY <1>3, PresentFacts
<1>5. /\ a \in Addr /\ RegionOf(a) \notin from /\ a[2] <= fill[RegionOf(a)] /\ hdr[a].ptr = NULL
  BY <1>0, <1>1, PinnedSlot DEF Pinning, Unbuilt
<1>6. a # old BY <1>4, <1>5
<1>7. Becomes(m, "deref", loc[m].ptr, NULL, NULL, NULL, loc[m].flag, "idle")
  BY <1>0, <1>1 DEF Becomes, Idle, TypeInv, RestOK, LocalsOK
<1>8. /\ \A q \in Ptr \ {p} : meta'[q] = meta[q]
      /\ meta'[p] = PresentMeta(a, meta[p].hot, meta[p].dirty)
  BY <1>1, <1>3 DEF TypeInv, RestOK, MemoryOK
<1>9. meta'[p].kind = "present" /\ meta'[p].addr = a /\ meta'[p].evac = FALSE /\ meta'[p].dirty = meta[p].dirty
  BY <1>8 DEF PresentMeta
<1>10. data'[a] = data[old] /\ \A x \in Addr \ {a} : data'[x] = data[x]
  BY <1>1, <1>5 DEF TypeInv, RestOK, MemoryOK
<1>11. /\ hdr'[a] = NewObject(p, oid[p]) /\ \A x \in Addr \ {a, old} : hdr'[x] = hdr[x]
       /\ hdr'[old] = [hdr[old] EXCEPT !.freed = TRUE]
  BY <1>1, <1>4, <1>5, <1>6 DEF TypeInv, RestOK, MemoryOK
<1>12. hdr'[old].ptr = p /\ hdr'[old].id = hdr[old].id /\ hdr'[old].freed
  BY <1>4, <1>11 DEF NewObject
<1>13. meta'[p].dirty = TRUE \/ data'[a] = far[oid[p]]
  <2>1. PointerOK(p) BY <1>3 DEF CacheInv, MemoryInv
  <2> QED BY <1>3, <1>9, <1>10, <2>1 DEF PointerOK, IsDirty
<1>14. LocalInv(m)' /\ ~Heading(m, "build")' /\ loc'[m].pc \notin Unbuilt
  <2>1. ~IsNull(loc[m].ptr)' BY <1>7, <1>9 DEF IsNull, Becomes
  <2>2. status'[m] # "out" BY <1>0, <1>1, <1>2 DEF SwapInOK
  <2> QED BY <1>0, <1>7, <2>1, <2>2, SettledOK DEF Becomes
<1>15. \A u \in Thread \ {m} : Apart(m, u)'
  BY <1>0, <1>2, <1>7, <1>14, ApartKept DEF Becomes
<1>16. ASSUME NEW u \in Thread \ {m} PROVE Undisturbed(u, p, a)
  <2>1. /\ LocalInv(u) /\ SlotOK(u) /\ (u \in Swapper => SwapInOK(u)) /\ (u \in Slave => SlaveOK(u))
        /\ (u \in Mutator => MutatorOK(u)) /\ Apart(m, u)
    BY <1>0 DEF CacheInv, ThreadsInv, LocalInv
  <2>2. loc[u].pc \in Unbuilt => loc[u].addr # a
    BY <1>1, <2>1 DEF Apart, Unbuilt
  <2>3. u \in Swapper /\ loc[u].ptr = p => ~(Fetching(u) /\ loc[u].id = oid[p])
    BY <1>3, <2>1 DEF SwapInOK
  <2>4. Heading(u, "copy") \/ loc[u].pc = "re_free" \/ HasHandle(u) => Inside(u)
    BY DEF Heading, HasHandle, Inside, Allocating
  <2>5. u \in Mutator /\ loc[u].ptr = p => ~Heading(u, "build")
    BY <1>3, <2>1 DEF MutatorOK, IsNull, IsPresent
  <2>6. ~(Holds(u) /\ loc[u].id = oid[p]) BY <1>0, <1>2, <1>3, LockIsExclusive
  <2>7. u \in Mutator /\ loc[u].ptr = p => ~Heading(u, "copy")
    BY <2>1, <2>6 DEF MutatorOK, Holds
  <2>8. u \in Mutator /\ loc[u].ptr = p /\ Inside(u) => ~loc[u].flag
    BY <1>2, <2>1 DEF Apart
  <2>9. u \in Mutator /\ loc[u].ptr = p => loc[u].pc # "re_free"
    BY <2>1, <2>4, <2>8 DEF MutatorOK
  <2>10. u \in Mutator /\ loc[u].ptr = p /\ HasHandle(u) =>
            gc \in {"mark", "observe"} /\ RegionOf(HandleOf(u)) \in from
    BY <1>3, <2>1, <2>4, <2>8 DEF MutatorOK, IsEvacuation
  <2>11. u \in Slave /\ loc[u].pc \in SwapOutPC => hdr[loc[u].src].ptr # p
    BY <2>6, SwapOutSource DEF Holds
  <2> QED BY <1>3, <1>10, <2>2, <2>3, <2>4, <2>5, <2>7, <2>8, <2>9, <2>10, <2>11 DEF Undisturbed
<1>17. \A u \in Thread \ {m} : Holds(u) => lock'[loc[u].id] = u
  BY <1>0, <1>1, <1>2, UnlockKeepsLocks
<1>18. \A u \in Thread \ {m} : loc'[u] = loc[u] BY <1>7 DEF Becomes
<1>19. \A u \in Thread \ {m} : \A r \in Region : u \in pins[r] => u \in pins'[r]
  BY <1>0, <1>1, DropKeepsPins
<1>20. /\ loc[m].pc \notin {"re_free", "si_present"}
       /\ UNCHANGED <<far, oid, from, gc, todo, expected_status, status, fill>>
  BY <1>1
<1>21. \A x \in Addr \ {a} : /\ data'[x] = data[x]
                             /\ \/ hdr'[x] = hdr[x]
                                \/ hdr[x].ptr = p /\ hdr'[x].ptr = p /\ hdr'[x].id = hdr[x].id /\ hdr'[x].freed
  BY <1>4, <1>10, <1>11, <1>12
<1>22. OldAccounted(p, a)
  <2>1. ASSUME NEW x \in Addr, x = old PROVE LedTo(x)'
    BY <1>12, <2>1 DEF LedTo
  <2> QED BY <1>3, <2>1 DEF OldAccounted
<1>23. /\ oid' = oid \/ (HasFreshId(p) /\ oid' = [oid EXCEPT ![p] = FreshId(p)])
       /\ meta'[p].dirty = TRUE \/ data'[a] = far[oid'[p]]
       /\ hdr'[a] = NewObject(p, oid'[p]) /\ hdr[a].ptr # p
  BY <1>4, <1>5, <1>11, <1>13, <1>20
<1>24. \A u \in Thread \ {m} :
          /\ loc'[u] = loc[u] /\ Apart(m, u)' /\ Undisturbed(u, p, a)
          /\ Holds(u) => lock'[loc[u].id] = u
          /\ \A r \in Region : u \in pins[r] => u \in pins'[r]
  BY <1>15, <1>16, <1>17, <1>18, <1>19
<1> QED BY <1>0, <1>3, <1>5, <1>8, <1>9, <1>14, <1>20, <1>21, <1>22, <1>23, <1>24, PublishKeeps

LEMMA ReallocateKeeps ==
  ASSUME CacheInv, TypeInv, TypeInv', NEW m \in Mutator, NEW v, ReallocateInit(m, v)
  PROVE  CacheInv'
<1> USE ThreadKinds DEF gcVars, poolVars
<1>0. /\ m \in Thread /\ m \in Swapper /\ m \in Scoped /\ m \notin Slave /\ LocalInv(m) /\ MutatorOK(m)
      /\ SwapInOK(m) /\ ThreadOK(m) /\ KindOK(m) /\ SlotOK(m)
  BY DEF CacheInv, ThreadsInv, LocalInv, TypeInv, RestOK, LocalsOK
<1> SUFFICES ASSUME NEW p \in Ptr, NEW a \in Addr, NEW old \in Addr,
                     p = loc[m].ptr, a = loc[m].addr, old = loc[m].src
              PROVE  CacheInv'
  <2>1. loc[m].pc = "re_init" BY DEF ReallocateInit
  <2> QED BY <1>0, <2>1 DEF ThreadOK, Heading
<1>1. /\ loc[m].pc = "re_init" /\ Goto(m, "re_free")
      /\ data' = [data EXCEPT ![a] = v]
      /\ meta' = [meta EXCEPT ![p] = PresentMeta(a, TRUE, TRUE)]
      /\ HasFreshId(p)
      /\ \/ oid' = [oid EXCEPT ![p] = FreshId(p)] /\ hdr' = [hdr EXCEPT ![a] = NewObject(p, FreshId(p))]
         \/ oid' = oid /\ hdr' = [hdr EXCEPT ![a] = NewObject(p, hdr[old].id)]
      /\ UNCHANGED <<far, from, gc, todo, expected_status, status, fill, pins, lock>>
  BY DEF ReallocateInit
<1>2. HasHandle(m) /\ HandleOf(m) = old /\ Inside(m) /\ Heading(m, "re_init")
  BY <1>1 DEF Heading, Inside, HasHandle, HandleOf, Allocating
<1>3. p \in Ptr /\ IsPresent(p) /\ meta[p].addr = old /\ loc[m].flag /\ Safe(m, old)
  BY <1>0, <1>1, <1>2 DEF ThreadOK, MutatorOK
<1>4. /\ old \in Addr /\ hdr[old] = NewObject(p, oid[p]) /\ hdr[old].ptr = p /\ p # NULL
  <2>1. /\ hdr[meta[p].addr] = NewObject(p, oid[p]) /\ hdr[meta[p].addr].ptr = p /\ p # NULL
    BY <1>3, PresentFacts
  <2> QED BY <1>3, <2>1
<1>5. /\ a \in Addr /\ RegionOf(a) \notin from /\ a[2] <= fill[RegionOf(a)] /\ hdr[a].ptr = NULL
  BY <1>0, <1>1, PinnedSlot DEF Pinning, Unbuilt
<1>6. a # old BY <1>4, <1>5
<1>7. Becomes(m, "re_free", loc[m].ptr, loc[m].id, loc[m].addr, loc[m].src, loc[m].flag, loc[m].after)
  BY <1>0, <1>1, GotoBecomes
<1>8. /\ \A q \in Ptr \ {p} : meta'[q] = meta[q]
      /\ meta'[p] = PresentMeta(a, TRUE, TRUE)
  BY <1>1, <1>3 DEF TypeInv, RestOK, MemoryOK
<1>9. meta'[p].kind = "present" /\ meta'[p].addr = a /\ meta'[p].evac = FALSE /\ meta'[p].dirty = TRUE
  BY <1>8 DEF PresentMeta
<1>10. /\ hdr'[a] = NewObject(p, oid'[p])
       /\ \A x \in Addr \ {a} : hdr'[x] = hdr[x] /\ data'[x] = data[x]
  <2>1. hdr[old].id = oid[p] BY <1>4 DEF NewObject
  <2> QED BY <1>1, <1>5, <2>1 DEF TypeInv, RestOK, MemoryOK
<1>11. LocalInv(m)'
  <2>1. KindOK(m)' /\ LockOK(m)' /\ SlotOK(m)'
    BY <1>0, <1>1, <1>7 DEF KindOK, LockOK, SlotOK, Becomes, Holds, Heading, SlavePC, Pinning,
       Unbuilt,
       Allocating, SwapOutPC
  <2>2. meta'[loc[m].ptr].kind = "present" /\ meta'[loc[m].ptr].addr = loc[m].addr
        /\ meta'[loc[m].ptr].dirty = TRUE /\ hdr'[loc[m].src].ptr = loc[m].ptr
        /\ loc[m].src # loc[m].addr
    BY <1>4, <1>6, <1>9, <1>10
  <2>3. status'[m] # "out" BY <1>0, <1>1, <1>2 DEF SwapInOK
  <2>4. SwapInOK(m)'
    BY <1>7, <2>2, <2>3 DEF SwapInOK, Becomes, Inside, Heading, Allocating, Fetching, IsNull,
       IsPresent
  <2>5. \A x : Safe(m, x) => Safe(m, x)' BY <1>1 DEF Safe, OtherFlag
  <2>6. /\ \A n \in {"build", "copy", "re_init"} : ~Heading(m, n)'
        /\ ~HasHandle(m)' /\ loc'[m].pc = "re_free"
    BY <1>7 DEF Becomes, Heading, Allocating, HasHandle
  <2>7. MutatorOK(m)'
    BY <1>3, <1>7, <2>2, <2>5, <2>6 DEF MutatorOK, Becomes, IsPresent, IsDirty
  <2> QED BY <1>0, <2>1, <2>4, <2>7 DEF LocalInv
<1>12. \A u \in Thread \ {m} : Apart(m, u)'
  BY <1>0, <1>2, <1>7, ApartKept DEF Becomes, Heading, Allocating, Unbuilt
<1>13. ASSUME NEW u \in Thread \ {m} PROVE Undisturbed(u, p, a)
  <2>1. /\ LocalInv(u) /\ (u \in Swapper => SwapInOK(u)) /\ (u \in Slave => SlaveOK(u))
        /\ (u \in Mutator => MutatorOK(u)) /\ Apart(m, u)
    BY <1>0 DEF CacheInv, ThreadsInv, LocalInv
  <2>2. loc[u].pc \in Unbuilt => loc[u].addr # a
    BY <1>1, <2>1 DEF Apart, Unbuilt
  <2>3. u \in Swapper /\ loc[u].ptr = p => ~(Fetching(u) /\ loc[u].id = oid[p])
    BY <1>3, <2>1 DEF SwapInOK
  <2>4. Heading(u, "copy") \/ loc[u].pc = "re_free" \/ HasHandle(u) => Inside(u)
    BY DEF Heading, HasHandle, Inside, Allocating
  <2>5. u \in Mutator /\ loc[u].ptr = p => ~Heading(u, "build")
    BY <1>3, <2>1 DEF MutatorOK, IsNull, IsPresent
  <2>6. u \in Mutator /\ loc[u].ptr = p => ~Inside(u)
    BY <1>2, <1>3, <2>1 DEF Apart
  <2>7. u \in Slave /\ loc[u].pc \in SwapOutPC => hdr[loc[u].src].ptr # p
    BY <1>3, <2>1 DEF SlaveOK, SwapOutPC, Safe
  <2> QED BY <2>2, <2>3, <2>4, <2>5, <2>6, <2>7 DEF Undisturbed
<1>14. \A u \in Thread : Holds(u) => lock'[loc[u].id] = u
  BY <1>1 DEF CacheInv, ThreadsInv, LocalInv, LockOK
<1>15. \A u \in Thread \ {m} : loc'[u] = loc[u] BY <1>7 DEF Becomes
<1>16. OldAccounted(p, a)
  <2>1. ASSUME NEW x \in Addr, x = loc[m].src PROVE LedTo(x)'
    BY <1>7, <2>1 DEF LedTo, Becomes
  <2> QED BY <1>3, <2>1 DEF OldAccounted
<1>17. /\ loc[m].pc \notin {"re_free", "si_present"}
       /\ UNCHANGED <<far, from, gc, todo, expected_status, status, fill, pins>>
       /\ oid' = oid \/ (HasFreshId(p) /\ oid' = [oid EXCEPT ![p] = FreshId(p)])
  BY <1>1
<1>18. \A x \in Addr \ {a} :
          /\ data'[x] = data[x]
          /\ \/ hdr'[x] = hdr[x]
             \/ hdr[x].ptr = p /\ hdr'[x].ptr = p /\ hdr'[x].id = hdr[x].id /\ hdr'[x].freed
  BY <1>10
<1>19. \A u \in Thread \ {m} :
          /\ loc'[u] = loc[u] /\ Apart(m, u)' /\ Undisturbed(u, p, a)
          /\ Holds(u) => lock'[loc[u].id] = u
          /\ \A r \in Region : u \in pins[r] => u \in pins'[r]
  BY <1>12, <1>13, <1>14, <1>15, <1>17
<1>20. hdr[a].ptr # p BY <1>4, <1>5
<1> QED BY <1>0, <1>5, <1>8, <1>9, <1>10, <1>11, <1>16, <1>17, <1>18, <1>19, <1>20, PublishKeeps

\* While a slave swaps p out, the object is where it was and no mutator uses it.
LEMMA SwapOutFacts ==
  ASSUME CacheInv, TypeInv, NEW s \in Slave, loc[s].pc \in SwapOutPC
  PROVE  LET a == loc[s].src  p == loc[s].ptr IN
         /\ a \in Addr /\ p \in Ptr /\ loc[s].id = oid[p] /\ IsPresent(p) /\ meta[p].addr = a
         /\ hdr[a] = NewObject(p, oid[p]) /\ hdr[a].ptr = p /\ p # NULL /\ hdr[a].freed = FALSE
         /\ gc = "writeback" /\ RegionOf(a) \in from /\ a \notin todo
         /\ Holds(s)
         /\ \A u \in Thread \ {s} : ~(Holds(u) /\ loc[u].id = oid[p])
         /\ \A u \in Swapper : loc[u].ptr = p =>
              /\ ~(Fetching(u) /\ loc[u].id = oid[p])
              /\ u \in Scoped => loc[u].pc \notin {"si_read", "si_check", "si_lock", "si_recheck"}
         /\ \A u \in Mutator : loc[u].ptr = p =>
              /\ ~Heading(u, "build") /\ ~Heading(u, "copy")
              /\ loc[u].pc # "re_free" /\ ~HasHandle(u)
<1> DEFINE a == loc[s].src
           p == loc[s].ptr
<1> USE ThreadKinds
<1>1. SlaveOK(s) /\ Holds(s) /\ loc[s].pc # "idle"
  BY DEF CacheInv, ThreadsInv, LocalInv, Holds, SwapOutPC
<1>2. /\ a \in Addr /\ p \in Ptr /\ loc[s].id = oid[p] /\ IsPresent(p) /\ meta[p].addr = a
      /\ gc = "writeback" /\ RegionOf(a) \in from /\ a \notin todo
  BY <1>1, SlaveSource DEF SlaveOK
<1>3. hdr[a] = NewObject(p, oid[p]) /\ hdr[a].ptr = p /\ p # NULL /\ hdr[a].freed = FALSE
  BY <1>2, PresentFacts
<1>4. \A u \in Thread \ {s} : ~(Holds(u) /\ loc[u].id = oid[p])
  BY <1>1, <1>2, LockIsExclusive
<1>5. ASSUME NEW u \in Swapper, loc[u].ptr = p
      PROVE  /\ ~(Fetching(u) /\ loc[u].id = oid[p])
             /\ u \in Scoped => loc[u].pc \notin {"si_read", "si_check", "si_lock", "si_recheck"}
  <2>1. SwapInOK(u) BY DEF CacheInv, ThreadsInv, LocalInv
  <2> QED BY <1>2, <1>5, <2>1 DEF SwapInOK, Safe
<1>6. ASSUME NEW u \in Mutator, loc[u].ptr = p
      PROVE  /\ ~Heading(u, "build") /\ ~Heading(u, "copy")
             /\ loc[u].pc # "re_free" /\ ~HasHandle(u)
  <2>1. MutatorOK(u) /\ u # s BY DEF CacheInv, ThreadsInv, LocalInv
  <2>2. ~Heading(u, "build") BY <1>2, <1>6, <2>1 DEF MutatorOK, IsNull, IsPresent
  <2>3. ~Heading(u, "copy") BY <1>4, <1>6, <2>1 DEF MutatorOK, Holds
  <2>4. loc[u].pc # "re_free"
    <3>1. SUFFICES ASSUME loc[u].pc = "re_free" PROVE FALSE OBVIOUS
    <3>2. RegionOf(loc[u].addr) \notin from BY <3>1, PinnedSlot DEF Pinning
    <3> QED BY <1>2, <1>6, <2>1, <3>1, <3>2 DEF MutatorOK
  <2>5. ~HasHandle(u) BY <1>2, <1>6, <2>1 DEF MutatorOK, Safe
  <2> QED BY <2>2, <2>3, <2>4, <2>5
<1> QED BY <1>1, <1>2, <1>3, <1>4, <1>5, <1>6

\* A slave that is done with an object.
LEMMA SlaveDone ==
  ASSUME CacheInv, TypeInv, NEW s \in Slave, loc[s].pc # "idle", GoIdle(s)
  PROVE  /\ LocalInv(s)' /\ loc'[s].pc = "idle"
         /\ \A u \in Thread \ {s} : loc'[u] = loc[u] /\ Apart(s, u)'
         /\ \A x : Scanned(x)' <=> Scanned(x) /\ x # loc[s].src
<1> USE ThreadKinds
<1>1. Becomes(s, "idle", NULL, NULL, NULL, NULL, FALSE, "idle")
  BY IdleBecomes
<1>2. LocalInv(s)'
  <2>1. KindOK(s)' /\ LockOK(s)' /\ SlotOK(s)' /\ SlaveOK(s)'
    BY <1>1 DEF KindOK, LockOK, SlotOK, SlaveOK, Holds, Heading, Becomes, Allocating, Pinning,
       Unbuilt,
       SwapOutPC, SlavePC
  <2> QED BY <2>1 DEF LocalInv
<1>3. ASSUME NEW u \in Thread \ {s} PROVE loc'[u] = loc[u] /\ Apart(s, u)'
  BY <1>1 DEF Apart, Becomes, Unbuilt
<1>4. \A u \in Slave \ {s} : loc[u].pc # "idle" => loc[u].src # loc[s].src
  BY DEF CacheInv, ThreadsInv, Apart
<1>5. \A x : Scanned(x)' <=> Scanned(x) /\ x # loc[s].src
  BY <1>1, <1>4 DEF Scanned, Becomes
<1> QED BY <1>1, <1>2, <1>3, <1>5 DEF Becomes

LEMMA CopyKeeps ==
  ASSUME CacheInv, TypeInv, TypeInv', NEW s \in Slave, SwapOutCopy(s)
  PROVE  CacheInv'
<1> USE ThreadKinds DEF gcVars
<1>0. loc[s].pc = "so_copy" /\ loc[s].pc \in SwapOutPC /\ loc[s].pc \in Pinning /\ loc[s].pc \in Unbuilt
  BY DEF SwapOutCopy, SwapOutPC, Pinning, Unbuilt
<1> SUFFICES ASSUME NEW p \in Ptr, NEW a \in Addr, NEW old \in Addr,
                    p = loc[s].ptr, a = loc[s].addr, old = loc[s].src
             PROVE  CacheInv'
  BY <1>0, SwapOutFacts, PinnedSlot
<1>1. /\ DropPin(s) /\ Unlock(s) /\ GoIdle(s) /\ loc[s].id = oid[p]
      /\ data' = [data EXCEPT ![a] = data[old]]
      /\ hdr' = [hdr EXCEPT ![a] = hdr[old]]
      /\ meta' = [meta EXCEPT ![p] = PresentMeta(a, FALSE, meta[p].dirty)]
      /\ UNCHANGED <<far, oid, from, gc, todo, expected_status, status, fill>>
  BY <1>0, SwapOutFacts DEF SwapOutCopy
<1>2. /\ IsPresent(p) /\ meta[p].addr = old /\ hdr[old] = NewObject(p, oid[p]) /\ hdr[old].ptr = p /\ p # NULL
      /\ gc = "writeback" /\ RegionOf(old) \in from /\ old \notin todo /\ Holds(s)
  BY <1>0, SwapOutFacts
<1>3. /\ RegionOf(a) \notin from /\ a[2] <= fill[RegionOf(a)] /\ hdr[a].ptr = NULL
  BY <1>0, PinnedSlot
<1>4. /\ \A q \in Ptr \ {p} : meta'[q] = meta[q]
      /\ meta'[p] = PresentMeta(a, FALSE, meta[p].dirty)
  BY <1>1 DEF TypeInv, RestOK, MemoryOK
<1>5. meta'[p].kind = "present" /\ meta'[p].addr = a /\ meta'[p].evac = FALSE /\ meta'[p].dirty = meta[p].dirty
  BY <1>4 DEF PresentMeta
<1>6. /\ hdr'[a] = NewObject(p, oid[p]) /\ data'[a] = data[old]
      /\ \A x \in Addr \ {a} : hdr'[x] = hdr[x] /\ data'[x] = data[x]
  BY <1>1, <1>2 DEF TypeInv, RestOK, MemoryOK
<1>7. meta'[p].dirty = TRUE \/ data'[a] = far[oid[p]]
  <2>1. PointerOK(p) BY DEF CacheInv, MemoryInv
  <2> QED BY <1>2, <1>5, <1>6, <2>1 DEF PointerOK, IsDirty
<1>8. /\ LocalInv(s)' /\ loc'[s].pc = "idle" /\ ~Scanned(old)'
      /\ \A u \in Thread \ {s} : loc'[u] = loc[u] /\ Apart(s, u)'
  BY <1>0, <1>1, SlaveDone
<1>9. OldAccounted(p, a)
  <2>1. ASSUME NEW x \in Addr, x = old PROVE LedTo(x)'
    BY <1>1, <1>2, <1>8, <2>1 DEF LedTo
  <2> QED BY <1>2, <2>1 DEF OldAccounted
<1>10. ASSUME NEW u \in Thread \ {s} PROVE Undisturbed(u, p, a)
  <2>1. SlotOK(u) /\ Apart(s, u) BY DEF CacheInv, ThreadsInv, LocalInv
  <2>2. loc[u].pc \in Unbuilt => loc[u].addr # a
    BY <1>0, <2>1 DEF Apart
  <2>3. u \in Slave /\ loc[u].pc \in SwapOutPC => hdr[loc[u].src].ptr # p
    <3>1. ~(Holds(u) /\ loc[u].id = oid[p]) BY <1>0, SwapOutFacts
    <3> QED BY <3>1, SwapOutSource
  <2>4. u \in Swapper /\ loc[u].ptr = p => ~(Fetching(u) /\ loc[u].id = oid[p])
    BY <1>0, SwapOutFacts
  <2>5. u \in Mutator /\ loc[u].ptr = p =>
          ~Heading(u, "build") /\ ~Heading(u, "copy") /\ loc[u].pc # "re_free" /\ ~HasHandle(u)
    BY <1>0, SwapOutFacts
  <2> QED BY <2>2, <2>3, <2>4, <2>5 DEF Undisturbed
<1>11. \A u \in Thread \ {s} : Holds(u) => lock'[loc[u].id] = u
  BY <1>1, <1>2, UnlockKeepsLocks
<1>12. \A u \in Thread \ {s} : \A r \in Region : u \in pins[r] => u \in pins'[r]
  BY <1>1, DropKeepsPins
<1>13. s \in Thread /\ loc[s].pc \notin {"re_free", "si_present", "idle"}
       /\ UNCHANGED <<far, oid, from, gc, todo, expected_status, status, fill>>
  BY <1>0, <1>1
<1>14. /\ oid' = oid \/ (HasFreshId(p) /\ oid' = [oid EXCEPT ![p] = FreshId(p)])
       /\ meta'[p].dirty = TRUE \/ data'[a] = far[oid'[p]]
       /\ hdr'[a] = NewObject(p, oid'[p]) /\ hdr[a].ptr # p /\ hdr[loc[s].src].ptr = p
  BY <1>2, <1>3, <1>6, <1>7, <1>13
<1> QED BY <1>3, <1>4, <1>5, <1>6, <1>8, <1>9, <1>10, <1>11, <1>12, <1>13, <1>14, PublishKeeps
=============================================================================
