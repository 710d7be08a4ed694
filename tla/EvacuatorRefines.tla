-------------------------- MODULE EvacuatorRefines --------------------------
(***************************************************************************)
(* The evacuating cache implements the memory an application is promised,  *)
(* and its regions are a pool.                                             *)
(***************************************************************************)
EXTENDS Evacuator

\* A view is a record, which NULL is not.
ASSUME NullIsNoView == NULL \notin [ptr : Ptr, write : BOOLEAN, val : Value]

\* Mutator m is replacing the object it dereferenced.
Reallocating(m) ==
  \/ loc[m].pc \in {"re_init", "re_free"}
  \/ loc[m].pc = "nb_alloc" /\ loc[m].after = "re_init"

Leads == [p \in Ptr |-> IF IsNull(p) THEN NULL ELSE Current(p)]

\* A mutator's view is what it can load through the raw address it holds.
Shown == [m \in Mutator |->
            IF loc[m].pc = "access" \/ Reallocating(m)
            THEN [ptr |-> loc[m].ptr, write |-> loc[m].flag,
                  val |-> IF Reallocating(m) THEN Current(loc[m].ptr)
                                             ELSE data[loc[m].addr]]
            ELSE NULL]

Memory == INSTANCE FarMemory WITH Client <- Mutator, mem <- Leads, view <- Shown

\* Through swap-ins, write-backs, copies, migrations and the reuse of regions the
\* application sees a memory: a pointer's value is the last one stored through
\* it, and a raw address shows that value until its scope ends.
ImplementsMemory == Memory!Spec

Pool == INSTANCE RegionPool WITH
          Holder <- Core,
          pinned <- {r \in Region : pins[r] # {}}

\* The cache handles its regions like a pool: each is in one place, allocation
\* pins only open ones, and only an unpinned used one is evacuated and freed,
\* also when refills fail half way.
ImplementsPool == Pool!Spec
=============================================================================
