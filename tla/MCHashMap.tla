----------------------------- MODULE MCHashMap -----------------------------
(* Model checking of HashMap: keys and data are interchangeable, because    *)
(* every hash function over HashValues is tried.                            *)
EXTENDS HashMap, TLC

Symmetry == Permutations(Key) \cup Permutations(Data)
=============================================================================
