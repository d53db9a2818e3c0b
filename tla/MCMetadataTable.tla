-------------------------- MODULE MCMetadataTable --------------------------
(* Model checking of MetadataTable.  Keys, and values, are interchangeable. *)
EXTENDS MetadataTable, TLC

Symmetry == Permutations(Key) \cup Permutations(Value)

\* Homes at the start and the end of a table of four, steps of one and three.
Hashes == {<<0, 1>>, <<3, 3>>}
=============================================================================
