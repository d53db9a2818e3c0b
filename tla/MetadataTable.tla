--------------------------- MODULE MetadataTable ---------------------------
(***************************************************************************)
(* The hash table of managed_object_obj_metadata.h: open addressing over   *)
(* two bucket objects, keys and values, that a collector scans.  Keys are  *)
(* hashed by address or by content; either side may be weak.  The MPS runs *)
(* inside every allocation of a call and between calls: it moves objects   *)
(* and splats weak references to dead ones.  It also splats when a call    *)
(* first touches weak values, after the call has accepted the key.         *)
(***************************************************************************)
EXTENDS Integers, FiniteSets

CONSTANTS
  Key, Value,   \* objects that serve as keys, and as values
  Null,         \* NULL
  Unused,       \* managed_obj_global_metadata_Unused, the marker of a free slot
  Deleted,      \* managed_obj_global_metadata_Deleted
  HashValue,    \* <<home, step>>: h before masking, and probe
  Lengths,      \* what make_table is asked for
  MaxLength     \* bound: slots of a table

\* What l = 1 and l *= 2 come to; bound: no table starts with more slots.
Powers == {1, 2, 4, 8, 16, 32, 64, 128, 256, 512, 1024}

ASSUME TableOK ==
  /\ HashValue \subseteq Nat \X {n \in Nat : n % 2 = 1} /\ HashValue # {}
  /\ Lengths \subseteq Nat /\ MaxLength \in Nat \ {0}
  /\ \A n \in Lengths : \E l \in Powers : n <= l /\ l <= MaxLength
  /\ Unused # Deleted /\ {Unused, Deleted, Null} \cap (Key \cup Value) = {}

VARIABLES
  status,   \* objects: "none", "held" by the program, or "loose"
  home,     \* the hash of each object's address, or content
  class,    \* the first of the keys that have the same content
  tbl,      \* the table
  ld,       \* its location dependency
  pc,       \* "none", "idle", "alloc" in a rehash, or "fault"
  call,     \* the call that is rehashing
  out,      \* the call that just returned, and its result
  fault,    \* the assertion that failed
  raced     \* history: a call's first touch splatted the entry it works on

objects == <<status, home, class>>
vars    == <<status, home, class, tbl, ld, pc, call, out, fault, raced>>

Object == Key \cup Value

IsFree(x) == x \in {Unused, Deleted}

NotFound == -1
First(S) == CHOOSE j \in S : \A i \in S : j <= i

----------------------------------------------------------------------------
(* Buckets and counts.                                                     *)

RoundUp(n) == First({l \in Powers : l >= n})

Buckets(length) == [i \in 0..length - 1 |-> Unused]

NewTable(length, eq, wk, wv) ==
  [eq |-> eq, wk |-> wk, wv |-> wv, length |-> length,
   keys |-> Buckets(length), values |-> Buckets(length), used |-> 0, deleted |-> 0]

Tagged(n) == 2 * n + 1

\* A bound on the load that uses every slot.
FullTooLate(T) == T.used >= T.length

Full(T) == Tagged(T.used) >= Tagged(T.length) \div 2

----------------------------------------------------------------------------
(* Hashing, comparing and probing.                                         *)

AnyHash == CHOOSE h \in HashValue : TRUE

Hash(k)     == IF k \in Key THEN home[k] ELSE AnyHash
Cmp(x, k)   == x = k \/ (x \in Key /\ k \in Key /\ class[x] = class[k])

NewLd == [deps |-> {}, moved |-> FALSE, epoch |-> FALSE]

\* The hash of a string does not depend on where it is.
LdAdd(T, l, k) == IF T.eq /\ k \in Key THEN [l EXCEPT !.deps = @ \cup {k}] ELSE l

\* An answer that trusts the addresses.
NeverStale(l) == {FALSE}

\* mps_ld_isstale: certain when a key the table depends on has moved, possible
\* after any collection that moved something.
IsStale(l) == IF l.moved THEN {TRUE} ELSE IF l.epoch THEN {TRUE, FALSE} ELSE {FALSE}

Slot(T, k, j) == (Hash(k)[1] + j * Hash(k)[2]) % T.length

\* The key or the first unused slot; a deleted one only after a whole cycle.
BucketsFind(T, k) ==
  LET ends == {j \in DOMAIN T.keys :
                 LET x == T.keys[Slot(T, k, j)]
                 IN  x = Unused \/ Cmp(x, k)}
      gone == {j \in DOMAIN T.keys : T.keys[Slot(T, k, j)] = Deleted}
  IN  IF ends # {} THEN Slot(T, k, First(ends))
      ELSE IF gone # {} THEN Slot(T, k, First(gone)) ELSE NotFound

\* table_find up to the rehash it may need.
Lookups(T, l, k) ==
  LET b == BucketsFind(T, k)
  IN  IF b = NotFound THEN {"missing"}
      ELSE IF ~IsFree(T.keys[b]) THEN {"found"}
      ELSE {IF stale THEN "stale" ELSE "free" : stale \in IsStale(l)}

----------------------------------------------------------------------------
(* Changes to a table.                                                     *)

\* A key stored without its count.
PutKeyUncounted(T, b, k) == [T EXCEPT !.keys[b] = k]

\* The key and its count, which are written before the value.
PutKey(T, b, k) ==
  IF T.keys[b] = Unused
  THEN [T EXCEPT !.keys[b] = k, !.used = @ + 1]
  ELSE [T EXCEPT !.keys[b] = k, !.deleted = @ - 1]

Put(T, b, k, v) == [PutKey(T, b, k) EXCEPT !.values[b] = v]

\* A removal that is not counted.
RemoveUncounted(T, b) ==
  [T EXCEPT !.keys[b] = Deleted, !.values[b] = Null]

Remove(T, b) ==
  [T EXCEPT !.keys[b] = Deleted, !.values[b] = Null, !.deleted = @ + 1]

\* The copy c of the first i old slots goes on with slot i, unless an assertion
\* has failed; `at` is where the key that table_find looks for went.
CopySlot(T, c, i, key) ==
  LET x == T.keys[i]
      b == BucketsFind(c.new, x)
  IN  IF c.bad # "none" \/ IsFree(x) THEN c
      ELSE IF b = NotFound THEN [c EXCEPT !.bad = "found"]
      ELSE IF c.new.keys[b] # Unused THEN [c EXCEPT !.bad = "present"]
      ELSE [new |-> Put(c.new, b, x, T.values[i]),
            at  |-> IF key # Null /\ Cmp(x, key) THEN b ELSE c.at,
            ld  |-> LdAdd(T, c.ld, x), bad |-> "none"]

\* New buckets with the old keys, in the order of the old slots, up to the first
\* assertion that fails.
Rehashed(T, length, key) ==
  LET copy[n \in 0..T.length] ==
        IF n = 0
        THEN [new |-> NewTable(length, T.eq, T.wk, T.wv), at |-> NotFound,
              ld |-> NewLd, bad |-> "none"]
        ELSE CopySlot(T, copy[n - 1], n - 1, key)
      all == copy[T.length]
  IN  IF all.bad # "none" THEN all
      ELSE IF T.used < T.deleted THEN [all EXCEPT !.bad = "size"]
      ELSE IF all.new.used # T.used - T.deleted THEN [all EXCEPT !.bad = "count"]
      ELSE all

\* A scan that leaves the dependent buckets alone.
SplatAlone(T, dead) ==
  LET keyGone == {i \in DOMAIN T.keys : T.wk /\ T.keys[i] \in dead}
  IN  [T EXCEPT !.keys = [i \in DOMAIN @ |-> IF i \in keyGone THEN Deleted ELSE @[i]],
                !.values = [i \in DOMAIN @ |-> IF T.wv /\ @[i] \in dead THEN Deleted ELSE @[i]],
                !.deleted = @ + Cardinality(keyGone)]

\* A scan that leaves NULL in the slot.
SplatToNull(T, dead) ==
  [T EXCEPT !.keys = [i \in DOMAIN @ |-> IF T.wk /\ @[i] \in dead THEN Null ELSE @[i]]]

\* A scan that looks for dead keys only.
SplatDeadKeys(T, dead) ==
  LET gone == {i \in DOMAIN T.keys : T.wk /\ T.keys[i] \in dead}
  IN  [T EXCEPT !.keys = [i \in DOMAIN @ |-> IF i \in gone THEN Deleted ELSE @[i]],
                !.values = [i \in DOMAIN @ |-> IF i \in gone THEN Deleted ELSE @[i]],
                !.deleted = @ + Cardinality(gone)]

\* The scan of both buckets when the objects of `dead` are splatted: a slot that
\* the first scan cleared on both sides is not seen by the second.
Splat(T, dead) ==
  LET gone == {i \in DOMAIN T.keys : \/ T.wk /\ T.keys[i] \in dead
                                     \/ T.wv /\ T.values[i] \in dead}
  IN  [T EXCEPT !.keys = [i \in DOMAIN @ |-> IF i \in gone THEN Deleted ELSE @[i]],
                !.values = [i \in DOMAIN @ |-> IF i \in gone THEN Deleted ELSE @[i]],
                !.deleted = @ + Cardinality(gone)]

----------------------------------------------------------------------------
(* Barrier hits.  The keys are always touched first, and a hit there comes *)
(* to the same as a collection before the call.  The values may be         *)
(* protected still: the hit that the first touch takes scans them all.     *)

\* What such a scan can find dead: the keys it meets were kept by the scan of the
\* keys, if there was one.
Dying(T) ==
  {o \in Object : /\ T.wv /\ status[o] = "loose"
                  /\ \A i \in DOMAIN T.keys : T.keys[i] # o
                  /\ \E i \in DOMAIN T.keys : T.values[i] = o}

\* Slot b is the one that the call touches.
Touch(b, dead) ==
  /\ dead \subseteq Dying(tbl)
  /\ raced' = (raced \/ (b \in DOMAIN tbl.values /\ tbl.values[b] \in dead))

\* The first slot that table_rehash copies.
FirstCopied(T) ==
  LET kept == {i \in DOMAIN T.keys : ~IsFree(T.keys[i])}
  IN  IF kept = {} THEN NotFound ELSE First(kept)

\* The table as table_rehash reads it: the first key before the hit, the rest
\* after it.
AsRead(T, dead) ==
  LET b == FirstCopied(T)
  IN  IF b = NotFound THEN T ELSE [Splat(T, dead) EXCEPT !.keys[b] = T.keys[b]]

----------------------------------------------------------------------------
(* Ends of a step: a result, a wait in an allocation, or a failed AVER.     *)

NoCall == [op |-> "none", key |-> Null, value |-> Null, length |-> 0, for |-> Null,
           again |-> FALSE]

Nothing == [op |-> "none", key |-> Null, result |-> Null]

\* What a call returns is held by the program that called.
Leave(T, l, op, k, r) ==
  /\ tbl' = T /\ ld' = l /\ pc' = "idle" /\ call' = NoCall
  /\ out' = [op     |-> IF op \in {"internRef", "internSet"} THEN "intern" ELSE op,
             key    |-> k, result |-> r]
  /\ status' = IF r \in Object THEN [status EXCEPT ![r] = "held"] ELSE status
  /\ UNCHANGED <<home, class, fault>>

Rehash(T, l, op, k, v, length, for) ==
  /\ length <= MaxLength
  /\ tbl' = T /\ ld' = l /\ pc' = "alloc"
  /\ call' = [op |-> op, key |-> k, value |-> v, length |-> length, for |-> for,
              again |-> for = Null]
  /\ out' = Nothing /\ UNCHANGED <<objects, fault>>

Abort(why) ==
  pc' = "fault" /\ fault' = why /\ UNCHANGED <<objects, tbl, ld, call, out>>

Result(op, k) == IF op = "internSet" THEN k ELSE Null

\* `dead` is what the hit on the values splats, between the key and the value.
TrySet(T, dead, l, op, k, v, again) ==
  LET b  == BucketsFind(T, k)
      l2 == LdAdd(T, l, k)
  IN  \E how \in Lookups(T, l2, k) :
        \/ /\ how = "found"
           /\ Leave([Splat(T, dead) EXCEPT !.values[b] = v], l2, op, k, Result(op, k))
        \/ /\ how = "free" /\ (T.keys[b] = Unused \/ T.deleted > 0)
           /\ Leave([Splat(PutKey(T, b, k), dead) EXCEPT !.values[b] = v], l2, op, k,
                    Result(op, k))
        \/ dead = {} /\ \/ how = "free" /\ T.keys[b] # Unused /\ T.deleted = 0 /\ Abort("deleted")
                        \/ how = "stale" /\ Rehash(T, l2, op, k, v, T.length, k)
                        \/ how = "missing" /\ again /\ Abort("room")
                        \/ how = "missing" /\ ~again /\ Rehash(T, l2, op, k, v, 2 * T.length, Null)

SetIn(T, dead, l, op, k, v) ==
  \/ Full(T) /\ dead = {} /\ Rehash(T, l, op, k, v, 2 * T.length, Null)
  \/ ~Full(T) /\ TrySet(T, dead, l, op, k, v, FALSE)

\* The rest of table_ref, table_delete and intern_string once the slot is known
\* and its value has been touched.
At(T, l, op, k, b) ==
  \/ op \in {"ref", "internRef"} /\ T.values[b] # Null /\ Leave(T, l, op, k, T.values[b])
  \/ op = "ref" /\ T.values[b] = Null /\ Leave(T, l, op, k, Null)
  \/ op = "internRef" /\ T.values[b] = Null /\ SetIn(T, {}, l, "internSet", k, k)
  \/ op = "delete" /\ Leave(Remove(T, b), l, op, k, Null)

Absent(T, dead, l, op, k) ==
  \/ op \in {"ref", "delete"} /\ dead = {} /\ Leave(T, l, op, k, Null)
  \/ op = "internRef" /\ SetIn(T, dead, l, "internSet", k, k)

Search(op, k, dead) ==
  LET b == BucketsFind(tbl, k)
  IN  \E how \in Lookups(tbl, ld, k) :
        \/ how = "found" /\ At(Splat(tbl, dead), ld, op, k, b)
        \/ how \in {"free", "missing"} /\ Absent(tbl, dead, ld, op, k)
        \/ how = "stale" /\ dead = {} /\ Rehash(tbl, ld, op, k, Null, tbl.length, k)

----------------------------------------------------------------------------
(* The calls.                                                              *)

\* Bound: the count of deleted slots, which only a race makes too high.
Idle(k) ==
  pc = "idle" /\ k \in Key /\ status[k] = "held" /\ tbl.deleted <= tbl.length

\* Bound: a call that may double the table finds room to.
HasRoom == 2 * tbl.length <= MaxLength \/ (~Full(tbl) /\ ~ld.epoch)

Init ==
  /\ status = [o \in Object |-> "none"]
  /\ class \in {c \in [Key -> Key] : \A k \in Key : c[c[k]] = c[k]}
  /\ home = [k \in Key |-> AnyHash]
  /\ tbl = NewTable(1, TRUE, FALSE, FALSE) /\ ld = NewLd
  /\ pc = "none" /\ call = NoCall /\ out = Nothing /\ fault = "none"
  /\ raced = FALSE

\* The strings of a class hash alike, wherever they are.
Contents == {h \in [Key -> HashValue] : \A k \in Key : h[k] = h[class[k]]}

MakeTable(length, eq, wk, wv) ==
  /\ pc = "none" /\ (eq => \A k \in Key : class[k] = k)
  /\ tbl' = NewTable(RoundUp(length), eq, wk, wv) /\ ld' = NewLd
  /\ home' \in IF eq THEN {home} ELSE Contents
  /\ pc' = "idle" /\ UNCHANGED <<status, class, call, out, fault, raced>>

Searches(op, k) ==
  \E dead \in SUBSET Dying(tbl) : Touch(BucketsFind(tbl, k), dead) /\ Search(op, k, dead)

TableRef(k)    == Idle(k) /\ Searches("ref", k)
TableDelete(k) == Idle(k) /\ Searches("delete", k)

TableSet(k, v) ==
  /\ Idle(k) /\ HasRoom /\ status[v] = "held"
  /\ \E dead \in SUBSET Dying(tbl) :
       Touch(BucketsFind(tbl, k), dead) /\ SetIn(tbl, dead, ld, "set", k, v)

\* Names are strings, so only a table of strings interns.
Intern(k) == Idle(k) /\ HasRoom /\ ~tbl.eq /\ Searches("internRef", k)

\* table_rehash from the return of its allocations with table r.new, and the call
\* that made it; the values have been touched.
RehashDone(r) ==
  \/ r.bad # "none" /\ Abort(r.bad)
  \/ /\ r.bad = "none" /\ call.for = Null
     /\ TrySet(r.new, {}, r.ld, call.op, call.key, call.value, call.again)
  \/ /\ r.bad = "none" /\ call.for # Null /\ r.at # NotFound
     /\ \/ At(r.new, r.ld, call.op, call.key, r.at)
        \/ /\ call.op \in {"set", "internSet"}
           /\ Leave([r.new EXCEPT !.values[r.at] = call.value], r.ld,
                    call.op, call.key, Result(call.op, call.key))
  \/ /\ r.bad = "none" /\ call.for # Null /\ r.at = NotFound
     /\ \/ Absent(r.new, {}, r.ld, call.op, call.key)
        \/ /\ call.op \in {"set", "internSet"}
           /\ Rehash(r.new, r.ld, call.op, call.key, call.value, 2 * r.new.length, Null)

RehashReturns ==
  /\ pc = "alloc"
  /\ \E dead \in SUBSET Dying(tbl) :
       /\ FirstCopied(tbl) = NotFound => dead = {}
       /\ Touch(FirstCopied(tbl), dead)
       /\ RehashDone(Rehashed(AsRead(tbl, dead), call.length, call.for))

----------------------------------------------------------------------------
(* The MPS and the program.                                                *)

InTable(o)  == \E i \in DOMAIN tbl.keys : \/ ~tbl.wk /\ tbl.keys[i] = o
                                          \/ ~tbl.wv /\ tbl.values[i] = o
Collectable == {o \in Object : status[o] = "loose" /\ ~InTable(o)}

\* A collection splats some of the dead objects and may move one key.
Collect(dead, moved) ==
  /\ pc \in {"idle", "alloc"} /\ dead \cup moved # {}
  /\ status' = [o \in Object |-> IF o \in dead THEN "none" ELSE status[o]]
  /\ tbl' = Splat(tbl, dead)
  /\ moved \cap {call.key, call.value} = {}
  /\ \E h \in HashValue :
       home' = [k \in Key |-> IF tbl.eq /\ k \in dead THEN AnyHash
                              ELSE IF k \in moved THEN h ELSE home[k]]
  /\ ld' = [deps  |-> ld.deps \ dead,
            moved |-> ld.moved \/ moved \cap ld.deps # {},
            epoch |-> ld.epoch \/ moved # {}]
  /\ out' = Nothing /\ UNCHANGED <<class, pc, call, fault, raced>>

MpsCollects ==
  \E dead \in SUBSET Collectable :
    \/ Collect(dead, {})
    \/ \E k \in {x \in Key \ dead : tbl.eq /\ status[x] # "none"} : Collect(dead, {k})

NewObject(o, h) ==
  /\ pc = "idle" /\ status[o] = "none"
  /\ status' = [status EXCEPT ![o] = "held"]
  /\ home' = IF o \in Key /\ tbl.eq THEN [home EXCEPT ![o] = h] ELSE home
  /\ (o \in Key /\ tbl.eq) \/ h = AnyHash
  /\ out' = Nothing /\ UNCHANGED <<class, tbl, ld, pc, call, fault, raced>>

DropReference(o) ==
  /\ pc = "idle" /\ status[o] = "held"
  /\ status' = [status EXCEPT ![o] = "loose"]
  /\ out' = Nothing /\ UNCHANGED <<home, class, tbl, ld, pc, call, fault, raced>>

----------------------------------------------------------------------------
Calls ==
  \E k \in Key :
    \/ TableRef(k) \/ TableDelete(k) \/ Intern(k)
    \/ \E v \in Value : TableSet(k, v)

Environment ==
  \E o \in Object : DropReference(o) \/ \E h \in HashValue : NewObject(o, h)

\* An assertion failed, or the program has made all its objects and dropped them.
Stopped ==
  /\ \/ pc = "fault"
     \/ pc = "idle" /\ \A o \in Object : status[o] = "loose"
  /\ UNCHANGED vars

Next ==
  \/ \E length \in Lengths, eq, wk, wv \in BOOLEAN : MakeTable(length, eq, wk, wv)
  \/ Calls \/ RehashReturns \/ MpsCollects \/ Environment \/ Stopped

Spec == Init /\ [][Next]_vars

----------------------------------------------------------------------------
(* Properties.                                                             *)

SlotKey   == Key \cup {Unused, Deleted}
SlotValue == Object \cup {Unused, Deleted, Null}

Used(T)    == {i \in DOMAIN T.keys : T.keys[i] # Unused}
Present(T) == {i \in DOMAIN T.keys : T.keys[i] \in Key}

TypeOK ==
  /\ status \in [Object -> {"none", "held", "loose"}] /\ home \in [Key -> HashValue]
  /\ tbl.length <= MaxLength /\ DOMAIN tbl.keys = 0..tbl.length - 1
  /\ tbl.keys \in [0..tbl.length - 1 -> SlotKey]
  /\ tbl.values \in [0..tbl.length - 1 -> SlotValue]
  /\ tbl.used \in 0..tbl.length /\ tbl.deleted \in Nat
  /\ raced \in BOOLEAN /\ (~raced => tbl.deleted <= tbl.length) /\ (raced => tbl.wv)
  /\ pc \in {"none", "idle", "alloc", "fault"}

\* The AVER on the count of copied keys, and the others of the table: what the
\* code asserts (metadata.h:532, 566, 567, 578, 627, 648).
NoAssertionFails == fault = "none"

\* No AVER of the table fails, whatever the collector does in the allocations of a
\* call and at its barrier hits, as long as no hit splatted the very entry that a
\* call had chosen; in a table whose values are strong, none ever does.
AssertionsHold == ~raced => NoAssertionFails

\* table_size counts the entries: a slot is used once it has held a key, and each
\* removal, by the program or by the scanner, is counted once (metadata.h:222-231).
SizeIsExact ==
  pc # "fault" =>
    /\ tbl.used = Cardinality(Used(tbl))
    /\ ~raced => tbl.used - tbl.deleted = Cardinality(Present(tbl))

\* A search always meets an unused slot, so it ends before it has gone round and
\* table_find never takes a present key for absent (metadata.h:522, 635-639).
SearchesEnd ==
  tbl.length > 1 => 2 * Cardinality(Used(tbl)) <= tbl.length

\* Key and value leave the table together: no live key has a splatted value
\* (metadata.h:223, "key/value was splatted: splat value/key too").
SidesNeverPart ==
  \A i \in DOMAIN tbl.keys :
    tbl.keys[i] \in Key <=> tbl.values[i] \in Object

\* They part only where a hit splatted the key that a set had chosen, before the
\* set wrote its value (metadata.h:620-631).
SidesAgree == ~raced => SidesNeverPart

\* The table refers to no object that the collector has reclaimed.
NoDangling ==
  \A i \in DOMAIN tbl.keys : \A x \in {tbl.keys[i], tbl.values[i]} \cap Object :
    status[x] # "none"

\* No two slots hold equal keys, although keys move and slots are left over.
UniqueKeys ==
  \A i, j \in Present(tbl) : Cmp(tbl.keys[i], tbl.keys[j]) => i = j

\* What rehash and the weak sides rely on, under any interleaving of collections
\* with the steps of a call (metadata.h:220-232, 567-568).
EntriesSound == NoDangling /\ UniqueKeys

\* Seen through its slots, the table is the weak map of WeakMap.
Entry(c) ==
  LET at == {i \in Present(tbl) : class[tbl.keys[i]] = c}
      i  == CHOOSE i \in at : TRUE
  IN  IF at = {} THEN [key |-> Null, value |-> Null]
      ELSE [key |-> tbl.keys[i], value |-> tbl.values[i]]

WM == INSTANCE WeakMap WITH
  map  <- [c \in Key |-> Entry(c)],
  held <- {o \in Object : status[o] = "held"},
  weak <- [key |-> tbl.wk, value |-> tbl.wv]

\* Probing, rehashing and splatting implement the weak map, up to a call that loses
\* the entry it works on: a key that is present is found, also when it has moved
\* since it was stored (metadata.h:585-589).
ImplementsWeakMap == WM!Init /\ [][raced' \/ WM!Next]_(WM!vars)
=============================================================================
