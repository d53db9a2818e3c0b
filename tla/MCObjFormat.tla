---------------------------- MODULE MCObjFormat ----------------------------
(* Model checking of ObjFormat with the sizes of the LP64 build.           *)
EXTENDS ObjFormat

Sizes ==
  [empty |-> 8, scanned_pointer |-> 32, bucket |-> 40, hashtable |-> 72, string |-> 16,
   fwd2 |-> 16, fwd |-> 24, pad1 |-> 8, pad |-> 16]
=============================================================================
