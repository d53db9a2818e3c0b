------------------------------ MODULE WeakMap ------------------------------
(***************************************************************************)
(* What the metadata hash table promises: a map from classes of equal keys *)
(* to values that holds its keys or its values weakly.  An entry may be    *)
(* forgotten between or inside calls, but only through a weak side that    *)
(* the program does not hold any more.                                     *)
(***************************************************************************)
CONSTANTS Key, Object, Null

VARIABLES
  map,    \* for each class of equal keys, the stored key and its value
  out,    \* the call that just returned, and its result
  held,   \* the objects the program refers to
  class,  \* the class of each key
  weak    \* whether keys, and whether values, are held weakly

vars == <<map, out, held, class, weak>>

NoEntry == [key |-> Null, value |-> Null]

Nothing == [op |-> "none", key |-> Null, result |-> Null]

Return(op, k, r) == out' = [op |-> op, key |-> k, result |-> r]

Init == map = [k \in Key |-> NoEntry] /\ out = Nothing

Same == UNCHANGED <<class, weak>>

\* The collector finds the weak side of some entries dead.
Forgettable(e) ==
  /\ e # NoEntry
  /\ (weak.key /\ e.key \notin held) \/ (weak.value /\ e.value \notin held)
Forgotten ==
  {[c \in Key |-> IF c \in C THEN NoEntry ELSE map[c]] :
     C \in SUBSET {c \in Key : Forgettable(map[c])}}

Forget(M) == out' = Nothing /\ map' = M /\ Same /\ UNCHANGED held

\* A call works on what is left, M.  A present key keeps the object it was stored
\* with.
Store(M, k, v) ==
  map' = [M EXCEPT ![class[k]] =
            [key |-> IF @ = NoEntry THEN k ELSE @.key, value |-> v]]

Set(M, k, v) == Return("set", k, Null) /\ Store(M, k, v) /\ Same /\ UNCHANGED held
Delete(M, k) ==
  /\ Return("delete", k, Null)
  /\ map' = [M EXCEPT ![class[k]] = NoEntry] /\ Same /\ UNCHANGED held
Ref(M, k) ==
  /\ Return("ref", k, M[class[k]].value)
  /\ held' = held \cup ({out'.result} \ {Null})
  /\ Same /\ map' = M

\* Returns the symbol stored for an equal name, or makes the name the symbol.
Intern(M, k) ==
  LET e == M[class[k]]
      symbol == IF e = NoEntry THEN k ELSE e.value
  IN  /\ Return("intern", k, symbol) /\ Same /\ held' = held \cup {symbol}
      /\ \/ e = NoEntry /\ Store(M, k, k)
         \/ e # NoEntry /\ map' = M

\* A call begins; the program makes a table, makes objects and drops references.
Environment == out' = Nothing /\ UNCHANGED map

Calls(M, k) == Ref(M, k) \/ Delete(M, k) \/ Intern(M, k) \/ \E v \in Object : Set(M, k, v)

Next == Environment \/ \E M \in Forgotten : Forget(M) \/ \E k \in Key : Calls(M, k)

Spec == Init /\ [][Next]_vars
=============================================================================
