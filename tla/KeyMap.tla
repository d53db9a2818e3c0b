------------------------------- MODULE KeyMap -------------------------------
(***************************************************************************)
(* What the hash map of managed_object_hashmap.h promises its callers: a   *)
(* finite map from keys to data in which a call does what its result says, *)
(* with no mention of slots, probing or the size of the table.             *)
(***************************************************************************)
CONSTANTS
  Key,   \* keys a caller uses; equal keys under the compare function are one
  Data,  \* data pointers
  Null   \* NULL

VARIABLES
  map,   \* the data of each key, Null when the key is absent
  out    \* what the last call returned, "none" for a call without a result

Errors == {"ENOMEM", "EEXIST", "EINVAL", "EADDRNOTAVAIL"}
Out    == Data \cup {Null} \cup {"ok", "none"} \cup Errors

Empty == [k \in Key |-> Null]

Init == map = Empty /\ out = "none"

\* Stores d, unless the key is there or there is no memory for it.
Put(k, d) ==
  \/ map[k] = Null /\ map' = [map EXCEPT ![k] = d] /\ out' = "ok"
  \/ map[k] # Null /\ out' = "EEXIST" /\ UNCHANGED map
  \/ map[k] = Null /\ out' = "ENOMEM" /\ UNCHANGED map

\* A null key or null data is refused.
PutInvalid == out' = "EINVAL" /\ UNCHANGED map

Get(k) == out' = map[k] /\ UNCHANGED map

Remove(k) == out' = map[k] /\ map' = [map EXCEPT ![k] = Null]

\* init, clear and cleanup.
Clear == map' = Empty /\ out' = "none"

\* reset empties the map or, without memory, reports that it did not.
Reset ==
  \/ map' = Empty /\ out' = "ok"
  \/ out' = "ENOMEM" /\ UNCHANGED map

Reserve == out' \in {"ok", "ENOMEM"} /\ UNCHANGED map

\* An iterator moves, removes the entry it stands on, or replaces its data.
Iterate == out' = "none" /\ UNCHANGED map
IterRemove(k) == map[k] # Null /\ map' = [map EXCEPT ![k] = Null] /\ out' = "none"
IterSetData(k, d) == map[k] # Null /\ map' = [map EXCEPT ![k] = d] /\ out' = "ok"

Next ==
  \/ \E k \in Key, d \in Data : Put(k, d) \/ IterSetData(k, d)
  \/ \E k \in Key : Get(k) \/ Remove(k) \/ IterRemove(k)
  \/ PutInvalid \/ Clear \/ Reset \/ Reserve \/ Iterate

Spec == Init /\ [][Next]_<<map, out>>

TypeOK == map \in [Key -> Data \cup {Null}] /\ out \in Out

=============================================================================
