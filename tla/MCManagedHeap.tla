--------------------------- MODULE MCManagedHeap ---------------------------
(* Model checking of ManagedHeap: objects and payloads are interchangeable *)
(* (heaps and memories are not: Fresh chooses one of them).                *)
EXTENDS ManagedHeap

Symmetry == Permutations(Obj) \cup Permutations(Payload)

\* What Symmetry does, for a run with a liveness property: objects are numbers
\* and are made in their order.
MadeInOrder ==
  \A o \in Obj : obj[o].st # "none" => \A x \in 1..o - 1 : obj[x].st # "none"

\* Behaviours in which every object is made, every payload pushed and exactly two
\* objects joined to others before one is destroyed; members hold no payload, and
\* there is one collection at a time, after a deallocation.
DestroyedLast ==
  /\ (\E o \in Obj : obj[o].st = "gone") =>
       /\ \A o \in Obj : obj[o].st # "none"
       /\ \A p \in Payload : payload[p].st # "new"
       /\ Cardinality({o \in Obj : obj[o].parent # Null}) = 2
  /\ \A c \in Obj : obj[c].parent # Null => \A p \in Payload : payload[p].mem # MemOf(c)
  /\ acts # <<>> => Len(acts) = 1 /\ deallocCount > 0

\* Every behaviour of three objects, and these of all.
ThreeOrDestroyedLast ==
  Cardinality({o \in Obj : obj[o].st # "none"}) <= 3 \/ DestroyedLast
=============================================================================
