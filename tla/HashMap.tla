------------------------------ MODULE HashMap ------------------------------
(***************************************************************************)
(* managed_object_hashmap.c: open addressing with linear probing, removal  *)
(* by shifting the rest of the chain back, and growth by rehashing.  Each  *)
(* call of the API is one action; the calls to calloc() and key_dup() that *)
(* a caller may see fail are chosen to fail or to succeed.                 *)
(***************************************************************************)
EXTENDS Integers, FiniteSets, FiniteSetsExt

CONSTANTS
  Key,         \* keys, equal under the compare function iff the same
  Data,        \* data pointers
  Null,        \* NULL
  HashValues,  \* the values of hash(key) after the secondary hash
  SizeMin,     \* MANAGED_OBJECT_HASHMAP_SIZE_MIN
  SizeDefault, \* MANAGED_OBJECT_HASHMAP_SIZE_DEFAULT
  SizeMax,     \* SIZE_MAX, where --size wraps
  Capacities,  \* bound: the arguments given to reserve
  Failing,     \* the allocations that may fail: "rehash", "reset", "key_dup"
  OwnKeys      \* key_dup and key_free are set

\* The sizes that 1 << n gives: 1 is an int, so n is at most 30.
Pow2 == {2^n : n \in 0..30}

\* No table ever asked for is longer than that.
ASSUME SizesOK ==
  /\ IsFiniteSet(Key)
  /\ \A n \in Capacities \cup {Cardinality(Key)} : n + n \div 3 <= 2^30
  /\ SizeMin \in Pow2 /\ SizeDefault \in Pow2 /\ SizeMin >= 4 /\ SizeDefault >= SizeMin
  /\ SizeMax \in Nat /\ SizeMax > Cardinality(Key)
  /\ HashValues \subseteq Nat /\ Capacities \subseteq Nat
  /\ Null \notin Key \cup Data /\ OwnKeys \in BOOLEAN
  /\ Failing \subseteq {"rehash", "reset", "key_dup"}

VARIABLES
  hash,          \* the hash function given to init, Null before init
  table,         \* the slots 0 .. table_size - 1; no slot stands for NULL
  size,          \* number of entries, as the code counts them
  tableSizeInit, \* table_size_init
  owned,         \* copies made by key_dup and not yet given to key_free
  block,         \* which allocation `table` points to, 0 for NULL
  announced,     \* arguments of the last call of on_realloc
  iter,          \* the caller's iterator, and temp_ptr of the "safe" loops
  visited,       \* history: keys that the iterator has stood on
  reserved,      \* history: the capacity of the last successful reserve
  out            \* what the last call returned

blocks == <<block, announced>>
loop   == <<iter, visited>>
vars   == <<hash, table, size, tableSizeInit, owned, blocks, loop, reserved, out>>

NoEntry  == [key |-> Null, data |-> Null]
Blank(n) == [i \in 0..n - 1 |-> NoEntry]
Slots(t) == Cardinality(DOMAIN t)
Used(t)  == {i \in DOMAIN t : t[i].key # Null}
Keys(t)  == {t[i].key : i \in Used(t)}
NoSlot   == -1

----------------------------------------------------------------------------
(* Probing.                                                                *)

\* Room for n entries at three quarters, a power of two, at least the initial size.
CalcTableSize(atLeast, n) ==
  LET m == n + n \div 3
  IN  IF m < atLeast THEN atLeast ELSE CHOOSE p \in Pow2 : p >= m /\ p < 2 * m

\* How far slot i is, along the probe sequence, from where key k hashes to.
Distance(n, k, i) == (i - hash[k]) % n
Probe(n, k, d)    == (hash[k] + d) % n

\* A search that gives up one slot too early.
FindShort(t, k) ==
  LET n    == Slots(t)
      Hits == {d \in 0..n - 2 : t[Probe(n, k, d)].key \in {k, Null}}
  IN  IF Hits = {} THEN NoSlot ELSE Probe(n, k, Min(Hits))

\* entry_find: the first slot of the probe sequence that holds k or is empty.
Find(t, k) ==
  LET n    == Slots(t)
      Hits == {d \in 0..n - 1 : t[Probe(n, k, d)].key \in {k, Null}}
  IN  IF Hits = {} THEN NoSlot ELSE Probe(n, k, Min(Hits))

\* entry_find without find_empty.
Lookup(t, k) ==
  LET i == Find(t, k) IN IF i # NoSlot /\ t[i].key = Null THEN NoSlot ELSE i

\* A step that ends the walk at the first entry it must leave in place.
ShiftStepShort(i, s, d) ==
  LET n == Slots(s.t)
      j == (i + d) % n
      k == s.t[j].key
  IN  IF s.done \/ k = Null THEN [s EXCEPT !.done = TRUE]
      ELSE IF Distance(n, k, j) > Distance(n, k, s.hole)
      THEN [t |-> [s.t EXCEPT ![s.hole] = s.t[j]], hole |-> j, done |-> FALSE]
      ELSE [s EXCEPT !.done = TRUE]

\* The entry d slots behind slot i moves to the free slot if it may; an empty
\* slot ends the chain.
ShiftStep(i, s, d) ==
  LET n == Slots(s.t)
      j == (i + d) % n
      k == s.t[j].key
  IN  IF s.done \/ k = Null THEN [s EXCEPT !.done = TRUE]
      ELSE IF Distance(n, k, j) > Distance(n, k, s.hole)
      THEN [t |-> [s.t EXCEPT ![s.hole] = s.t[j]], hole |-> j, done |-> FALSE]
      ELSE s

\* The rest of entry_remove for the entry at slot i: walk up to m slots of the
\* chain behind it and empty the slot that is free in the end.
ShiftBack(t, i, m) ==
  LET walk[d \in 0..m] == IF d = 0 THEN [t |-> t, hole |-> i, done |-> FALSE]
                          ELSE LET s == walk[d - 1] IN ShiftStep(i, s, d)
      last == walk[m]
  IN  [last.t EXCEPT ![last.hole] = NoEntry]

\* rehash: the entries, in the order of their slots, put into a table of n slots.
Rehashed(t, n) ==
  LET new[i \in 0..Slots(t)] ==
        IF i = 0 THEN Blank(n)
        ELSE LET u == new[i - 1]
                 e == t[i - 1]
             IN  IF e.key = Null THEN u ELSE [u EXCEPT ![Find(u, e.key)] = e]
  IN  new[Slots(t)]

----------------------------------------------------------------------------
(* State changes that calls share.                                         *)

Init ==
  /\ hash = Null /\ table = Blank(0) /\ size = 0 /\ tableSizeInit = 0
  /\ owned = [k \in Key |-> 0]
  /\ block = 0 /\ announced = [block |-> 0, len |-> 0]
  /\ iter = [at |-> "none", pos |-> 0, temp |-> Null] /\ visited = {}
  /\ reserved = 0 /\ out = "none"

Ready   == hash # Null
Sane    == size <= Cardinality(Key)  \* bound: no put or removal after size wraps

\* A table in a new allocation, told to on_realloc as a number of pointers.
Reallocate(t) ==
  LET b == IF block = 1 THEN 2 ELSE 1
  IN  table' = t /\ block' = b /\ announced' = [block |-> b, len |-> 2 * Slots(t)]

\* A reset that does not call on_realloc.
ReallocateSilently(t) ==
  table' = t /\ block' = (IF block = 1 THEN 2 ELSE 1) /\ UNCHANGED announced

ReallocateForReset(t) == Reallocate(t)

InPlace(t) == table' = t /\ UNCHANGED blocks

\* --size of a size_t.
Less(n) == (n - 1) % (SizeMax + 1)

\* Keys that are left to nobody.
FreeKeysNot(n) == UNCHANGED owned

\* free_keys, for a map that counts n entries.
FreeKeys(n) ==
  owned' = IF OwnKeys /\ n # 0
           THEN [k \in Key |-> IF k \in Keys(table) THEN owned[k] - 1 ELSE owned[k]]
           ELSE owned

\* entry_remove of the entry at slot i.
RemoveEntry(i) ==
  /\ size' = Less(size)
  /\ owned' = IF OwnKeys THEN [owned EXCEPT ![table[i].key] = @ - 1] ELSE owned
  /\ InPlace(ShiftBack(table, i, Less(size)))

DropIterator == iter' = [at |-> "none", pos |-> 0, temp |-> Null] /\ visited' = {}

\* entry_get_populated of table t, of n entries, from slot i; seen were visited.
MoveTo(t, n, i, seen) ==
  LET next == {j \in Used(t) : j >= i}
  IN  IF n = 0 \/ next = {}
      THEN iter' = [at |-> "end", pos |-> 0, temp |-> Null] /\ visited' = seen
      ELSE LET j == Min(next)
           IN  /\ iter' = [at |-> "slot", pos |-> j, temp |-> t[j].key]
               /\ visited' = seen \cup {t[j].key}

----------------------------------------------------------------------------
(* The calls.                                                              *)

\* base_init, and the hook that set_on_realloc_func sets before the first put.
BaseInit(h) ==
  /\ ~Ready
  /\ hash' = h /\ tableSizeInit' = SizeDefault /\ size' = 0
  /\ out' = "none"
  /\ UNCHANGED <<table, owned, blocks, loop, reserved>>

Cleanup ==
  /\ Ready /\ FreeKeys(size)
  /\ table' = Blank(0) /\ block' = 0 /\ announced' = [block |-> 0, len |-> 0]
  /\ hash' = Null /\ tableSizeInit' = 0 /\ size' = 0 /\ reserved' = 0
  /\ DropIterator /\ out' = "none"

Reserve(c) ==
  /\ Ready /\ DropIterator
  /\ LET want == CalcTableSize(SizeMin, c)
     IN  \/ /\ want > Slots(table)
            /\ Reallocate(Rehashed(table, want))
            /\ tableSizeInit' = want /\ reserved' = c /\ out' = "ok"
         \/ /\ want > Slots(table) /\ "rehash" \in Failing
            /\ out' = "ENOMEM" /\ InPlace(table) /\ UNCHANGED <<tableSizeInit, reserved>>
         \/ /\ want <= Slots(table)
            /\ tableSizeInit' = want /\ reserved' = c /\ out' = "ok" /\ InPlace(table)
  /\ UNCHANGED <<hash, size, owned>>

\* A put that also rehashes when the table has just the size it needs.
GrowsAlways(n) == n >= Slots(table)

\* The preemptive rehash of put is due: n slots are needed.
Grows(n) == n > Slots(table)

\* The entry of put, in t: the outcome of the search and of key_dup.
Store(t, k, d, failed, change(_)) ==
  LET i == Find(t, k)
  IN  \/ /\ i = NoSlot
         /\ out' = (IF failed THEN "ENOMEM" ELSE "EADDRNOTAVAIL")
         /\ change(t) /\ UNCHANGED <<size, owned>>
      \/ /\ i # NoSlot /\ t[i].key = k
         /\ out' = "EEXIST"
         /\ change(t) /\ UNCHANGED <<size, owned>>
      \/ /\ i # NoSlot /\ t[i].key = Null /\ OwnKeys /\ "key_dup" \in Failing
         /\ out' = "ENOMEM"
         /\ change(t) /\ UNCHANGED <<size, owned>>
      \/ /\ i # NoSlot /\ t[i].key = Null
         /\ out' = "ok" /\ size' = size + 1
         /\ owned' = IF OwnKeys THEN [owned EXCEPT ![k] = @ + 1] ELSE owned
         /\ change([t EXCEPT ![i] = [key |-> k, data |-> d]])

Put(k, d) ==
  /\ Ready /\ Sane /\ DropIterator
  /\ LET need == CalcTableSize(tableSizeInit, size)
     IN  \/ ~Grows(need) /\ Store(table, k, d, FALSE, InPlace)
         \/ Grows(need) /\ Store(Rehashed(table, need), k, d, FALSE, Reallocate)
         \/ /\ Grows(need) /\ "rehash" \in Failing
            /\ Store(table, k, d, TRUE, InPlace)
  /\ UNCHANGED <<hash, tableSizeInit, reserved>>

\* put of a null key or of null data.
PutInvalid ==
  /\ Ready /\ out' = "EINVAL"
  /\ UNCHANGED <<hash, table, size, tableSizeInit, owned, blocks, loop, reserved>>

Get(k) ==
  /\ Ready
  /\ LET i == Lookup(table, k) IN out' = IF i = NoSlot THEN Null ELSE table[i].data
  /\ UNCHANGED <<hash, table, size, tableSizeInit, owned, blocks, loop, reserved>>

\* A loop of the "safe" kind may remove the key it stands on and go on.
Remove(k) ==
  /\ Ready /\ Sane
  /\ LET i == Lookup(table, k)
     IN  \/ i = NoSlot /\ out' = Null /\ InPlace(table) /\ UNCHANGED <<size, owned>>
         \/ i # NoSlot /\ out' = table[i].data /\ RemoveEntry(i)
  /\ IF iter.at = "slot" /\ iter.temp = k THEN UNCHANGED loop ELSE DropIterator
  /\ UNCHANGED <<hash, tableSizeInit, reserved>>

\* A clear that forgets the count.
ClearTableOnly ==
  /\ Ready /\ FreeKeys(size) /\ InPlace(Blank(Slots(table)))
  /\ DropIterator /\ out' = "none" /\ UNCHANGED <<hash, tableSizeInit, reserved, size>>

Clear ==
  /\ Ready /\ FreeKeys(size)
  /\ size' = 0 /\ InPlace(Blank(Slots(table)))
  /\ DropIterator /\ out' = "none" /\ UNCHANGED <<hash, tableSizeInit, reserved>>

Reset ==
  /\ Ready /\ FreeKeys(size) /\ size' = 0
  /\ \/ /\ Slots(table) # tableSizeInit
        /\ ReallocateForReset(Blank(tableSizeInit)) /\ out' = "ok"
     \/ /\ Slots(table) # tableSizeInit /\ "reset" \in Failing
        /\ out' = "ENOMEM" /\ InPlace(table)
     \/ /\ Slots(table) = tableSizeInit
        /\ InPlace(Blank(Slots(table))) /\ out' = "ok"
  /\ DropIterator /\ UNCHANGED <<hash, tableSizeInit, reserved>>

IterBegin ==
  /\ Ready /\ iter.at # "slot"
  /\ MoveTo(table, size, 0, {}) /\ out' = "none"
  /\ UNCHANGED <<hash, table, size, tableSizeInit, owned, blocks, reserved>>

\* The loop's step from an entry that is still in its slot.
IterNext ==
  /\ iter.at = "slot" /\ table[iter.pos].key = iter.temp
  /\ MoveTo(table, size, iter.pos + 1, visited) /\ out' = "none"
  /\ UNCHANGED <<hash, table, size, tableSizeInit, owned, blocks, reserved>>

\* A step of the "safe" loop that moves on after a removal too.
IterResetSkips ==
  /\ iter.at = "slot" /\ table[iter.pos].key # iter.temp
  /\ MoveTo(table, size, iter.pos + 1, visited) /\ out' = "none"
  /\ UNCHANGED <<hash, table, size, tableSizeInit, owned, blocks, reserved>>

\* The step of the "safe" loop whose body removed the entry.
IterReset ==
  /\ iter.at = "slot" /\ table[iter.pos].key # iter.temp
  /\ MoveTo(table, size, iter.pos, visited) /\ out' = "none"
  /\ UNCHANGED <<hash, table, size, tableSizeInit, owned, blocks, reserved>>

IterRemove ==
  /\ Sane /\ iter.at = "slot" /\ table[iter.pos].key = iter.temp
  /\ RemoveEntry(iter.pos) /\ MoveTo(table', size', iter.pos, visited) /\ out' = "none"
  /\ UNCHANGED <<hash, tableSizeInit, reserved>>

IterSetData(d) ==
  /\ iter.at = "slot" /\ table[iter.pos].key = iter.temp
  /\ InPlace([table EXCEPT ![iter.pos].data = d]) /\ out' = "ok"
  /\ UNCHANGED <<hash, size, tableSizeInit, owned, loop, reserved>>

Next ==
  \/ \E h \in [Key -> HashValues] : BaseInit(h)
  \/ Cleanup \/ Clear \/ Reset
  \/ \E c \in Capacities : Reserve(c)
  \/ \E k \in Key, d \in Data : Put(k, d)
  \/ PutInvalid
  \/ \E k \in Key : Get(k) \/ Remove(k)
  \/ IterBegin \/ IterNext \/ IterReset \/ IterRemove
  \/ \E d \in Data : IterSetData(d)

Spec == Init /\ [][Next]_vars

----------------------------------------------------------------------------
(* Properties.                                                             *)

TypeOK ==
  /\ hash \in [Key -> HashValues] \/ hash = Null
  /\ \E n \in {0} \cup Pow2 : DOMAIN table = 0..n - 1
  /\ \A i \in DOMAIN table : \/ table[i] = NoEntry
                             \/ table[i].key \in Key /\ table[i].data \in Data
  /\ size \in 0..Cardinality(Key) /\ tableSizeInit \in {0} \cup Pow2
  /\ owned \in [Key -> Int] /\ block \in 0..2 /\ announced \in [block : 0..2, len : Nat]
  /\ iter \in [at : {"none", "end"}, pos : {0}, temp : {Null}]
                \cup [at : {"slot"}, pos : DOMAIN table, temp : Key]
  /\ visited \subseteq Key /\ reserved \in {0} \cup Capacities

\* No search stops early: the slots from where a key hashes to up to where it is
\* are all populated, across removals, wrap-around and rehashing
\* (managed_object_hashmap.c:119-158, "keep the chain contiguous").
ChainContiguous ==
  \A i \in Used(table) :
    LET n == Slots(table)
        k == table[i].key
    IN  \A d \in 0..Distance(n, k, i) : table[Probe(n, k, d)].key # Null

\* No key occupies two slots, although put searches only up to the first free
\* slot and removal keeps moving entries (managed_object_hashmap.c:322-368).
UniqueKeys ==
  \A i, j \in Used(table) : table[i].key = table[j].key => i = j

\* The count is the number of populated slots: iteration, free_keys and growth
\* trust it (managed_object_hashmap.h:168, "Return the number of entries in the
\* hash map").
SizeIsPopulation == size = Cardinality(Used(table))

\* What every search and every count relies on: unbroken chains, no key twice and
\* a true count, whatever was removed, rehashed or refused.
TableSound == ChainContiguous /\ UniqueKeys /\ SizeIsPopulation

\* Every copied key is freed exactly once, when its entry goes: none leaks and
\* none in the table is dangling (managed_object_hashmap.c:130-133, 221-233).
KeysOwned ==
  OwnKeys => \A k \in Key : owned[k] = IF k \in Keys(table) THEN 1 ELSE 0

\* The memory the caller was last told of, and may scan for roots, is the memory
\* that holds the entries, and no other block that was allocated or freed on the
\* way (managed_object_hashmap.c:187-215, 268-276, 436-456).
AnnouncedIsLive == announced.block = block

\* An entry is a key and a data pointer of eight bytes each.
EntryBytes == 16

\* The length that goes with it is in bytes, as the declaration of the hook says
\* (managed_object_hashmap_base.h:25, "size_t length_in_bytes").
AnnouncedLengthIsInBytes == announced.len = EntryBytes * Slots(table)

\* A full loop misses no entry that is still there, even when it removes entries
\* and the chain behind them moves (managed_object_hashmap.h:345-347).
IterationComplete ==
  /\ iter.at = "end" => Keys(table) \subseteq visited
  /\ iter.at = "slot" =>
       \A i \in Used(table) : i < iter.pos => table[i].key \in visited

\* Up to the reserved capacity no put moves the table
\* (managed_object_hashmap.c:291-293, "no rehashes are required").
ReserveHolds ==
  [][reserved' = reserved /\ reserved > 0 /\ size' = size + 1 /\ size' <= reserved
       => block' = block]_vars

\* Seen through its slots, the map is the one that KeyMap describes: every call
\* returns what it must and changes no other key.
Contents ==
  [k \in Key |-> LET at == {i \in Used(table) : table[i].key = k}
                 IN  IF at = {} THEN Null ELSE table[CHOOSE i \in at : TRUE].data]

KM == INSTANCE KeyMap WITH map <- Contents

\* Probing, shifting and rehashing implement the abstract map
\* (managed_object_hashmap.h:176-260).
ImplementsKeyMap == KM!Spec

=============================================================================
