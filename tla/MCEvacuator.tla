----------------------------- MODULE MCEvacuator -----------------------------
(* The instance of Evacuator that TLC explores. *)
EXTENDS EvacuatorRefines, TLC

Symmetry == Permutations(Vanilla) \cup Permutations(Ptr \ Vanilla)
            \cup Permutations(Region) \cup Permutations(Mutator)
            \cup Permutations(Slave) \cup Permutations(Value)

\* Explore a behaviour no further than its first fetch of a foreign object.
UntilForeignFetch == SwapInUsesOwnId

\* Mutators dereference one of the pointers only.
OneUsed == \A m \in Mutator : InScope(m) => loc[m].ptr = CHOOSE p \in Ptr : TRUE

\* The vanilla pointers get their new ids last: from then on no other is dereferenced.
NewIdsLast ==
  \A m \in Mutator : InScope(m) /\ loc[m].ptr \notin Vanilla => \A p \in Vanilla : oid[p][2] = 0
==============================================================================
