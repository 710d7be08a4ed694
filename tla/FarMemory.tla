----------------------------- MODULE FarMemory ------------------------------
(***************************************************************************)
(* What the far-memory cache promises to an application: a memory with one *)
(* value per pointer.  A dereference gives a view of the pointer's object  *)
(* until the scope ends; loads through the view see the memory, and only a *)
(* store through a view for writing changes it.  There are no regions, no  *)
(* copies, no collector and no remote side here.                           *)
(***************************************************************************)
CONSTANTS Ptr, Client, Value, NULL

VARIABLES
  mem,   \* the value a pointer leads to, NULL before it is allocated
  view   \* what each client has dereferenced, NULL if nothing

vars == <<mem, view>>

Views(p) == {c \in Client : view[c] # NULL /\ view[c].ptr = p}

Init ==
  /\ mem = [p \in Ptr |-> NULL]
  /\ view = [c \in Client |-> NULL]

\* A new object has any contents.
Allocate(p) ==
  /\ mem[p] = NULL
  /\ \E v \in Value : mem' = [mem EXCEPT ![p] = v]
  /\ UNCHANGED view

\* Views are shared for reading, exclusive for writing.
Deref(c, p, w) ==
  /\ view[c] = NULL /\ mem[p] # NULL
  /\ \A d \in Views(p) : ~w /\ ~view[d].write
  /\ view' = [view EXCEPT ![c] = [ptr |-> p, write |-> w, val |-> mem[p]]]
  /\ UNCHANGED mem

Store(c, v) ==
  /\ view[c] # NULL /\ view[c].write
  /\ mem' = [mem EXCEPT ![view[c].ptr] = v]
  /\ view' = [view EXCEPT ![c].val = v]

Leave(c) ==
  /\ view' = [view EXCEPT ![c] = NULL]
  /\ UNCHANGED mem

Next ==
  \/ \E p \in Ptr : Allocate(p)
  \/ \E c \in Client : \/ Leave(c)
                       \/ \E v \in Value : Store(c, v)
                       \/ \E p \in Ptr, w \in BOOLEAN : Deref(c, p, w)

Spec == Init /\ [][Next]_vars
=============================================================================
