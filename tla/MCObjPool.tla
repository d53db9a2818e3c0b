----------------------------- MODULE MCObjPool -----------------------------
(* Model checking of ObjPool.  States, and objects, are interchangeable.   *)
EXTENDS ObjPool, TLC

Symmetry == Permutations(State) \cup Permutations(Object)

\* Objects are pinned, twice too, while one state is up: what two
\* states share has nothing to do with pins.
PinsInOneState ==
  (\E s \in State : st[s].pins > 0) =>
    gens = 1 /\ Cardinality({s \in State : st[s].up}) = 1
=============================================================================
