----------------------------- MODULE MCPageList -----------------------------
(* Model checking of PageList: the values are interchangeable.             *)
EXTENDS PageList, TLC

Symmetry == Permutations(Value)
=============================================================================
