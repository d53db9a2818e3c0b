------------------------ MODULE MetadataTable_proofs ------------------------
(***************************************************************************)
(* Proofs about MetadataTable for every set of keys and values, every hash *)
(* function with odd steps, every size of table and every interleaving of  *)
(* collections and barrier hits with the calls.  Until a hit takes the     *)
(* entry that a call has chosen, searches end, no assertion fails, the     *)
(* counts are exact, keys and values leave together, and the table         *)
(* implements the weak map.  Tables with strong values know no such hit.   *)
(***************************************************************************)
EXTENDS MetadataTable, FiniteSetTheorems, WellFoundedInduction, TLAPS

----------------------------------------------------------------------------
(* Numbers.                                                                *)

\* A set of naturals has a least element.
LEMMA FirstExists ==
  ASSUME NEW S, S \subseteq Nat, S # {}
  PROVE  First(S) \in S /\ \A y \in S : First(S) <= y
<1> DEFINE T == {0..n : n \in S}
<1>1. T \subseteq FiniteSubsetsOf(Nat) /\ T # {}
  <2>1. \A n \in S : 0..n \in SUBSET Nat /\ IsFiniteSet(0..n)
    BY FS_Interval
  <2> QED BY <2>1 DEF FiniteSubsetsOf
<1>2. PICK I \in T : \A J \in T : ~(<<J, I>> \in StrictSubsetOrdering(Nat))
  <2> HIDE DEF T
  <2> QED BY <1>1, FS_StrictSubsetOrderingWellFounded, WFMin, Zenon
<1>3. PICK x \in S : I = 0..x
  OBVIOUS
<1>4. \A y \in S : x <= y
  <2> SUFFICES ASSUME NEW y \in S, ~(x <= y) PROVE FALSE
    OBVIOUS
  <2>1. 0..y \in SUBSET Nat /\ 0..x \in SUBSET Nat
    OBVIOUS
  <2>2. 0..y \subseteq 0..x /\ 0..y # 0..x
    <3>1. x \in Nat /\ y \in Nat /\ y < x
      OBVIOUS
    <3> QED BY <3>1
  <2>3. 0..y \in T
    OBVIOUS
  <2> QED BY <1>2, <1>3, <2>1, <2>2, <2>3 DEF StrictSubsetOrdering
<1> QED BY <1>4 DEF First

\* What a length must have for odd steps to visit every slot: an odd factor takes
\* no part in its divisibility.
Odd == {s \in Nat : s % 2 = 1}
OddCancels(n) ==
  \A s \in Odd : \A d, q \in Int : d * s = n * q => \E p \in Int : d = n * p

\* l *= 2 and table_size * 2 keep that.
LEMMA DoublingCancels ==
  ASSUME NEW n \in Nat, OddCancels(n)
  PROVE  OddCancels(2 * n)
<1> SUFFICES ASSUME NEW s \in Odd, NEW d \in Int, NEW q \in Int, d * s = (2 * n) * q
             PROVE  \E p \in Int : d = (2 * n) * p
  BY DEF OddCancels
<1>1. PICK a \in Int : s = 2 * a + 1
  <2>1. s = 2 * (s \div 2) + 1 /\ s \div 2 \in Int
    BY DEF Odd
  <2> QED BY <2>1
<1>2. d = 2 * (n * q - d * a)
  <2>1. d * s = 2 * (d * a) + d
    BY <1>1
  <2>2. (2 * n) * q = 2 * (n * q)
    OBVIOUS
  <2>3. d * a \in Int /\ n * q \in Int
    BY <1>1
  <2> QED BY <2>1, <2>2, <2>3
<1>3. PICK e \in Int : d = 2 * e
  <2>1. n * q - d * a \in Int
    BY <1>1
  <2> QED BY <1>2, <2>1
<1>4. e * s = n * q
  <2>1. 2 * (e * s) = 2 * (n * q)
    <3>1. d * s = 2 * (e * s)
      BY <1>3 DEF Odd
    <3> QED BY <3>1
  <2>2. e * s \in Int /\ n * q \in Int
    BY DEF Odd
  <2> QED BY <2>1, <2>2
<1>5. PICK p \in Int : e = n * p
  BY <1>4 DEF OddCancels
<1>6. d = (2 * n) * p
  BY <1>3, <1>5
<1> QED BY <1>6

LEMMA PowersCancel == \A n \in Powers : n \in Nat \ {0} /\ OddCancels(n)
<1>0. OddCancels(1)
  <2> SUFFICES ASSUME NEW d \in Int PROVE \E p \in Int : d = 1 * p
    BY DEF OddCancels
  <2>1. d = 1 * d
    OBVIOUS
  <2> QED BY <2>1
<1>1. OddCancels(2)
  <2>1. 2 * 1 = 2
    OBVIOUS
  <2> QED BY <1>0, <2>1, DoublingCancels
<1>2. OddCancels(4)
  BY <1>1, DoublingCancels, 2 * 2 = 4
<1>3. OddCancels(8)
  BY <1>2, DoublingCancels, 2 * 4 = 8
<1>4. OddCancels(16)
  BY <1>3, DoublingCancels, 2 * 8 = 16
<1>5. OddCancels(32)
  BY <1>4, DoublingCancels, 2 * 16 = 32
<1>6. OddCancels(64)
  BY <1>5, DoublingCancels, 2 * 32 = 64
<1>7. OddCancels(128)
  BY <1>6, DoublingCancels, 2 * 64 = 128
<1>8. OddCancels(256)
  BY <1>7, DoublingCancels, 2 * 128 = 256
<1>9. OddCancels(512)
  BY <1>8, DoublingCancels, 2 * 256 = 512
<1>10. OddCancels(1024)
  BY <1>9, DoublingCancels, 2 * 512 = 1024
<1> QED BY <1>0, <1>1, <1>2, <1>3, <1>4, <1>5, <1>6, <1>7, <1>8, <1>9, <1>10 DEF Powers

\* Two probes of one search are never in the same slot.
LEMMA StepsDiffer ==
  ASSUME NEW n \in Nat \ {0}, OddCancels(n), NEW h \in Nat, NEW s \in Odd,
         NEW i \in 0..n - 1, NEW j \in 0..n - 1, (h + i * s) % n = (h + j * s) % n
  PROVE  i = j
<1>1. s \in Nat /\ i \in Int /\ j \in Int
  BY DEF Odd
<1> DEFINE a == h + i * s
           b == h + j * s
<1>2. a \in Int /\ b \in Int /\ a % n = b % n
  BY <1>1
<1>3. /\ a = n * (a \div n) + (a % n) /\ b = n * (b \div n) + (b % n)
      /\ a \div n \in Int /\ b \div n \in Int /\ a % n \in Int
  <2> HIDE DEF a, b
  <2> QED BY <1>2
<1>4. PICK q \in Int : q = (a \div n) - (b \div n)
  BY <1>3
<1>5. a - b = n * q
  <2>1. n * (a \div n) - n * (b \div n) = n * q
    <3> HIDE DEF a, b
    <3> QED BY <1>3, <1>4
  <2>2. n * (a \div n) \in Int /\ n * (b \div n) \in Int /\ n * q \in Int
    BY <1>3, <1>4
  <2> HIDE DEF a, b
  <2> QED BY <2>1, <2>2, <1>2, <1>3
<1>6. (i - j) * s = n * q
  <2>1. (i - j) * s = i * s - j * s
    BY <1>1
  <2>2. i * s \in Int /\ j * s \in Int
    BY <1>1
  <2> QED BY <1>5, <2>1, <2>2
<1>7. PICK p \in Int : i - j = n * p
  <2>1. PICK d \in Int : d = i - j
    OBVIOUS
  <2>2. d * s = n * q
    BY <1>6, <2>1
  <2> QED BY <2>1, <2>2, <1>4 DEF OddCancels
<1>8. p = 0
  <2>1. CASE p >= 1
    <3>1. n * p >= n
      BY <2>1
    <3> QED BY <3>1, <1>7
  <2>2. CASE p <= -1
    <3>1. n * p <= -n
      BY <2>2
    <3> QED BY <3>1, <1>7
  <2> QED BY <2>1, <2>2
<1> QED BY <1>7, <1>8

----------------------------------------------------------------------------
(* Tables and searches.                                                    *)

\* A table of n slots.
Tables(n) ==
  [eq : BOOLEAN, wk : BOOLEAN, wv : BOOLEAN, length : {n},
   keys : [0..n - 1 -> SlotKey], values : [0..n - 1 -> SlotValue],
   used : Int, deleted : Int]

HashOK == home \in [Key -> HashValue] /\ class \in [Key -> Key]

\* Keys that a table takes for equal hash alike.
SameHash(eq) ==
  /\ eq => \A k \in Key : class[k] = k
  /\ ~eq => \A k \in Key : home[k] = home[class[k]]

\* A search for k meets slot i before any unused slot.
Reached(T, k, i) ==
  \E j \in DOMAIN T.keys :
    Slot(T, k, j) = i /\ \A m \in 0..j - 1 : T.keys[Slot(T, k, m)] # Unused

Chains(T) == \A i \in Present(T) : Reached(T, T.keys[i], i)

Unique(T) == \A i, j \in Present(T) : Cmp(T.keys[i], T.keys[j]) => i = j

Sides(T) == \A i \in DOMAIN T.keys : T.keys[i] \in Key <=> T.values[i] \in Object

Counts(T) ==
  T.used = Cardinality(Used(T)) /\ T.used - T.deleted = Cardinality(Present(T))

Absentee(T, k) == \A i \in Present(T) : ~Cmp(T.keys[i], k)

\* A table of n slots that satisfies all that does not depend on where keys hash.
Sound(T, n) ==
  /\ n \in Nat \ {0} /\ OddCancels(n) /\ T \in Tables(n)
  /\ Counts(T) /\ 2 * T.used <= n /\ Sides(T) /\ Unique(T)

LEMMA Markers ==
  /\ Unused \notin Object /\ Deleted \notin Object /\ Null \notin Object
  /\ Unused # Deleted /\ Key \subseteq Object /\ Value \subseteq Object
  /\ AnyHash \in HashValue /\ \A h \in HashValue : h[1] \in Nat /\ h[2] \in Odd
BY TableOK DEF Object, AnyHash, Odd

LEMMA TableFacts ==
  ASSUME NEW n \in Nat \ {0}, NEW T \in Tables(n)
  PROVE  /\ DOMAIN T.keys = 0..n - 1 /\ DOMAIN T.values = 0..n - 1 /\ T.length = n
         /\ T.eq \in BOOLEAN /\ T.wk \in BOOLEAN /\ T.wv \in BOOLEAN
         /\ T.used \in Int /\ T.deleted \in Int
         /\ Present(T) = {i \in 0..n - 1 : T.keys[i] \in Key} /\ Present(T) \subseteq Used(T)
         /\ Used(T) = {i \in 0..n - 1 : T.keys[i] # Unused}
         /\ IsFiniteSet(Used(T)) /\ Cardinality(Used(T)) \in Nat /\ Cardinality(Used(T)) <= n
         /\ IsFiniteSet(Present(T)) /\ Cardinality(Present(T)) \in Nat
         /\ Cardinality(Present(T)) <= Cardinality(Used(T))
         /\ \A i \in 0..n - 1 : /\ T.keys[i] \in Key \/ T.keys[i] = Unused \/ T.keys[i] = Deleted
                                /\ T.values[i] \in SlotValue
<1>1. /\ DOMAIN T.keys = 0..n - 1 /\ DOMAIN T.values = 0..n - 1 /\ T.length = n
      /\ T.eq \in BOOLEAN /\ T.wk \in BOOLEAN /\ T.wv \in BOOLEAN
      /\ T.used \in Int /\ T.deleted \in Int
      /\ \A i \in 0..n - 1 : T.keys[i] \in SlotKey /\ T.values[i] \in SlotValue
  BY DEF Tables
<1>2. /\ Present(T) = {i \in 0..n - 1 : T.keys[i] \in Key}
      /\ Used(T) = {i \in 0..n - 1 : T.keys[i] # Unused}
  BY <1>1 DEF Present, Used
<1>3. Present(T) \in SUBSET Used(T) /\ Used(T) \in SUBSET (0..n - 1)
  BY <1>2, Markers
<1>4. IsFiniteSet(0..n - 1) /\ Cardinality(0..n - 1) = n
  BY FS_Interval
<1>5. IsFiniteSet(Used(T)) /\ Cardinality(Used(T)) <= n
  BY <1>3, <1>4, FS_Subset
<1>6. IsFiniteSet(Present(T)) /\ Cardinality(Present(T)) <= Cardinality(Used(T))
  BY <1>3, <1>5, FS_Subset
<1> QED BY <1>1, <1>2, <1>3, <1>5, <1>6, FS_CardinalityType DEF SlotKey

LEMMA HashIs ==
  ASSUME HashOK, NEW k \in Key
  PROVE  Hash(k) = home[k] /\ Hash(k)[1] \in Nat /\ Hash(k)[2] \in Odd
BY Markers DEF HashOK, Hash

\* Keys are compared by their class.
LEMMA CmpIs ==
  ASSUME HashOK, NEW k \in Key
  PROVE  /\ \A x \in Key : Cmp(x, k) <=> class[x] = class[k]
         /\ ~Cmp(Unused, k) /\ ~Cmp(Deleted, k)
         /\ \A x : Cmp(x, k) => x \in Key
BY Markers DEF Cmp, HashOK

LEMMA EqualKeys ==
  ASSUME HashOK, NEW T, SameHash(T.eq), T.eq \in BOOLEAN, NEW k \in Key, NEW x \in Key, Cmp(x, k)
  PROVE  Hash(x) = Hash(k) /\ \A j : Slot(T, x, j) = Slot(T, k, j)
<1>1. class[x] = class[k]
  BY CmpIs
<1>2. home[x] = home[k]
  BY <1>1 DEF SameHash
<1> QED BY <1>2, HashIs DEF Slot

LEMMA SlotIs ==
  ASSUME HashOK, NEW n \in Nat \ {0}, NEW T, T.length = n, NEW k \in Key, NEW j \in Nat
  PROVE  Slot(T, k, j) \in 0..n - 1
<1> DEFINE a == Hash(k)[1] + j * Hash(k)[2]
<1>1. Hash(k)[1] \in Nat /\ Hash(k)[2] \in Nat
  BY HashIs DEF Odd
<1>2. a \in Nat
  BY <1>1
<1> HIDE DEF a
<1>3. a % n \in 0..n - 1
  BY <1>2
<1> QED BY <1>3 DEF Slot, a

\* Odd steps visit every slot of a table, so they meet an unused one.
LEMMA UnusedIsMet ==
  ASSUME HashOK, NEW n \in Nat \ {0}, NEW T \in Tables(n), OddCancels(n),
         Cardinality(Used(T)) < n, NEW k \in Key
  PROVE  \E j \in 0..n - 1 : T.keys[Slot(T, k, j)] = Unused
<1> SUFFICES ASSUME \A j \in 0..n - 1 : T.keys[Slot(T, k, j)] # Unused PROVE FALSE
  OBVIOUS
<1> DEFINE f == [j \in 0..n - 1 |-> Slot(T, k, j)]
<1>1. T.length = n /\ IsFiniteSet(Used(T)) /\ Used(T) = {i \in 0..n - 1 : T.keys[i] # Unused}
  BY TableFacts
<1>2. f \in [0..n - 1 -> Used(T)]
  <2>1. \A j \in 0..n - 1 : Slot(T, k, j) \in 0..n - 1
    BY <1>1, SlotIs
  <2> QED BY <1>1, <2>1
<1>3. IsFiniteSet(0..n - 1) /\ Cardinality(0..n - 1) = n
  BY FS_Interval
<1> HIDE DEF f
<1>4. PICK i, j \in 0..n - 1 : i # j /\ f[i] = f[j]
  <2>1. PICK S, U : S = 0..n - 1 /\ U = Used(T)
    BY Zenon
  <2>2. /\ IsFiniteSet(S) /\ IsFiniteSet(U) /\ Cardinality(U) < Cardinality(S)
        /\ f \in [S -> U]
    BY <1>1, <1>2, <1>3, <2>1
  <2>3. \E i, j \in S : i # j /\ f[i] = f[j]
    BY <2>2, FS_PigeonHole
  <2> QED BY <2>1, <2>3, Zenon
<1>5. Slot(T, k, i) = Slot(T, k, j)
  BY <1>4 DEF f
<1>6. Hash(k)[1] \in Nat /\ Hash(k)[2] \in Odd
  BY HashIs
<1>7. i = j
  BY <1>1, <1>5, <1>6, StepsDiffer DEF Slot
<1> QED BY <1>4, <1>7

\* buckets_find comes to the key or to an unused slot.
LEMMA SearchEnds ==
  ASSUME HashOK, NEW n \in Nat \ {0}, NEW T \in Tables(n), OddCancels(n),
         Cardinality(Used(T)) < n, NEW k \in Key
  PROVE  \E f \in 0..n - 1 :
           /\ BucketsFind(T, k) = Slot(T, k, f) /\ BucketsFind(T, k) \in 0..n - 1
           /\ \/ T.keys[BucketsFind(T, k)] = Unused
              \/ T.keys[BucketsFind(T, k)] \in Key /\ Cmp(T.keys[BucketsFind(T, k)], k)
           /\ \A m \in 0..f - 1 : T.keys[Slot(T, k, m)] # Unused
                                  /\ ~Cmp(T.keys[Slot(T, k, m)], k)
<1> DEFINE ends == {j \in DOMAIN T.keys : T.keys[Slot(T, k, j)] = Unused
                                          \/ Cmp(T.keys[Slot(T, k, j)], k)}
           f == First(ends)
<1>1. DOMAIN T.keys = 0..n - 1 /\ T.length = n
  BY TableFacts
<1>2. ends # {} /\ ends \subseteq Nat
  BY <1>1, UnusedIsMet
<1>3. f \in ends /\ \A j \in ends : f <= j
  <2> HIDE DEF ends
  <2> QED BY <1>2, FirstExists
<1>4. BucketsFind(T, k) = Slot(T, k, f)
  BY <1>2 DEF BucketsFind
<1> HIDE DEF f
<1>5. f \in 0..n - 1 /\ Slot(T, k, f) \in 0..n - 1
  BY <1>1, <1>3, SlotIs
<1>6. ASSUME NEW m \in 0..f - 1
      PROVE  T.keys[Slot(T, k, m)] # Unused /\ ~Cmp(T.keys[Slot(T, k, m)], k)
  <2>1. m \in DOMAIN T.keys /\ ~(f <= m)
    BY <1>1, <1>5
  <2> QED BY <1>3, <2>1
<1> QED BY <1>3, <1>4, <1>5, <1>6, CmpIs

\* A search finds the entry of a key that a chain reaches.
LEMMA SearchFinds ==
  ASSUME HashOK, NEW n \in Nat \ {0}, NEW T \in Tables(n), OddCancels(n), SameHash(T.eq),
         Cardinality(Used(T)) < n, NEW k \in Key, Unique(T),
         NEW i \in Present(T), Reached(T, T.keys[i], i), Cmp(T.keys[i], k)
  PROVE  BucketsFind(T, k) = i
<1>1. /\ DOMAIN T.keys = 0..n - 1 /\ T.length = n /\ T.eq \in BOOLEAN
      /\ Present(T) = {x \in 0..n - 1 : T.keys[x] \in Key}
  BY TableFacts
<1>2. PICK f \in 0..n - 1 :
           /\ BucketsFind(T, k) = Slot(T, k, f) /\ BucketsFind(T, k) \in 0..n - 1
           /\ \/ T.keys[BucketsFind(T, k)] = Unused
              \/ T.keys[BucketsFind(T, k)] \in Key /\ Cmp(T.keys[BucketsFind(T, k)], k)
           /\ \A m \in 0..f - 1 : T.keys[Slot(T, k, m)] # Unused
                                  /\ ~Cmp(T.keys[Slot(T, k, m)], k)
  BY SearchEnds
<1>3. T.keys[i] \in Key /\ \A j : Slot(T, T.keys[i], j) = Slot(T, k, j)
  BY <1>1, EqualKeys
<1>4. PICK j \in 0..n - 1 : Slot(T, k, j) = i /\ \A m \in 0..j - 1 : T.keys[Slot(T, k, m)] # Unused
  BY <1>1, <1>3 DEF Reached
<1>5. ~(j < f)
  <2> SUFFICES ASSUME j < f PROVE FALSE
    OBVIOUS
  <2>1. j \in 0..f - 1
    OBVIOUS
  <2> QED BY <1>2, <1>4, <2>1
<1>6. CASE f = j
  BY <1>2, <1>4, <1>6
<1>7. CASE f < j
  <2>1. f \in 0..j - 1
    BY <1>7
  <2>2. T.keys[BucketsFind(T, k)] \in Key /\ Cmp(T.keys[BucketsFind(T, k)], k)
    BY <1>2, <1>4, <2>1
  <2>3. Cmp(T.keys[BucketsFind(T, k)], T.keys[i])
    BY <2>2, <1>3, CmpIs
  <2>4. BucketsFind(T, k) \in Present(T)
    BY <1>1, <1>2, <2>2
  <2> QED BY <2>3, <2>4 DEF Unique
<1> QED BY <1>5, <1>6, <1>7

----------------------------------------------------------------------------
(* Changes to a table.                                                     *)

\* What identifies a table, whatever it holds.
SameKind(U, T) == U.eq = T.eq /\ U.wk = T.wk /\ U.wv = T.wv /\ U.length = T.length

\* A chain survives when no slot in it becomes unused.
LEMMA ChainStays ==
  ASSUME HashOK, NEW n \in Nat \ {0}, NEW T \in Tables(n), NEW U \in Tables(n),
         NEW k \in Key, NEW i, Reached(T, k, i),
         \A j \in 0..n - 1 : U.keys[j] = Unused => T.keys[j] = Unused
  PROVE  Reached(U, k, i)
<1>1. /\ DOMAIN T.keys = 0..n - 1 /\ DOMAIN U.keys = 0..n - 1 /\ T.length = n /\ U.length = n
  BY TableFacts
<1>2. \A m : Slot(U, k, m) = Slot(T, k, m)
  BY <1>1 DEF Slot
<1>3. PICK j \in 0..n - 1 : Slot(T, k, j) = i /\ \A m \in 0..j - 1 : T.keys[Slot(T, k, m)] # Unused
  BY <1>1 DEF Reached
<1>4. \A m \in 0..j - 1 : U.keys[Slot(U, k, m)] # Unused
  <2> SUFFICES ASSUME NEW m \in 0..j - 1 PROVE U.keys[Slot(T, k, m)] # Unused
    BY <1>2
  <2>1. m \in Nat
    OBVIOUS
  <2>2. Slot(T, k, m) \in 0..n - 1
    BY <1>1, <2>1, SlotIs
  <2> QED BY <2>2, <1>3
<1> QED BY <1>1, <1>2, <1>3, <1>4 DEF Reached

LEMMA PutIs ==
  ASSUME NEW n, NEW T \in Tables(n), NEW b \in 0..n - 1, NEW k \in Key, NEW v \in Object,
         T.keys[b] = Unused
  PROVE  /\ Put(T, b, k, v) \in Tables(n) /\ SameKind(Put(T, b, k, v), T)
         /\ Put(T, b, k, v).keys = [T.keys EXCEPT ![b] = k]
         /\ Put(T, b, k, v).values = [T.values EXCEPT ![b] = v]
         /\ Put(T, b, k, v).used = T.used + 1 /\ Put(T, b, k, v).deleted = T.deleted
<1> DEFINE U == [[T EXCEPT !.keys[b] = k, !.used = @ + 1] EXCEPT !.values[b] = v]
<1>1. Put(T, b, k, v) = U
  BY DEF Put, PutKey
<1>2. /\ U.keys = [T.keys EXCEPT ![b] = k] /\ U.values = [T.values EXCEPT ![b] = v]
      /\ U.used = T.used + 1 /\ U.deleted = T.deleted /\ SameKind(U, T)
  BY DEF Tables, SameKind
<1>3. U \in Tables(n)
  <2>1. [T.keys EXCEPT ![b] = k] \in [0..n - 1 -> SlotKey]
    BY DEF Tables, SlotKey
  <2>2. [T.values EXCEPT ![b] = v] \in [0..n - 1 -> SlotValue]
    BY DEF Tables, SlotValue
  <2>3. T.used + 1 \in Int
    BY DEF Tables
  <2> QED BY <2>1, <2>2, <2>3 DEF Tables
<1> QED BY <1>1, <1>2, <1>3

\* The new entry of a table with room for it.
LEMMA PutKeeps ==
  ASSUME HashOK, NEW n, NEW T, Sound(T, n), 2 * (T.used + 1) <= n,
         NEW b, NEW k \in Key, NEW v \in Object, b = BucketsFind(T, k), T.keys[b] = Unused,
         Absentee(T, k)
  PROVE  /\ Sound(Put(T, b, k, v), n) /\ SameKind(Put(T, b, k, v), T) /\ b \in 0..n - 1
         /\ Present(Put(T, b, k, v)) = Present(T) \cup {b} /\ b \notin Present(T)
         /\ Put(T, b, k, v).keys[b] = k /\ Put(T, b, k, v).values[b] = v
         /\ Put(T, b, k, v).used = T.used + 1
         /\ \A i \in Present(T) : /\ Put(T, b, k, v).keys[i] = T.keys[i]
                                  /\ Put(T, b, k, v).values[i] = T.values[i]
         /\ Chains(T) => Chains(Put(T, b, k, v))
<1> DEFINE U == Put(T, b, k, v)
<1>1. /\ n \in Nat \ {0} /\ OddCancels(n) /\ T \in Tables(n)
      /\ Counts(T) /\ Sides(T) /\ Unique(T)
  BY DEF Sound
<1>2. /\ DOMAIN T.keys = 0..n - 1 /\ T.length = n /\ T.used \in Int /\ T.deleted \in Int
      /\ Present(T) = {i \in 0..n - 1 : T.keys[i] \in Key}
      /\ Used(T) = {i \in 0..n - 1 : T.keys[i] # Unused}
      /\ IsFiniteSet(Used(T)) /\ Cardinality(Used(T)) \in Nat
      /\ IsFiniteSet(Present(T)) /\ Cardinality(Present(T)) \in Nat
  BY <1>1, TableFacts
<1>3. Cardinality(Used(T)) < n
  BY <1>1, <1>2 DEF Counts, Sound
<1>4. PICK f \in 0..n - 1 :
           /\ b = Slot(T, k, f) /\ b \in 0..n - 1
           /\ \A m \in 0..f - 1 : T.keys[Slot(T, k, m)] # Unused
  BY <1>1, <1>3, SearchEnds
<1>5. /\ U \in Tables(n) /\ SameKind(U, T)
      /\ U.keys = [T.keys EXCEPT ![b] = k] /\ U.values = [T.values EXCEPT ![b] = v]
      /\ U.used = T.used + 1 /\ U.deleted = T.deleted
  BY <1>1, <1>4, PutIs
<1> HIDE DEF U
<1>6. /\ U.keys[b] = k /\ U.values[b] = v
      /\ \A i \in 0..n - 1 : i # b => U.keys[i] = T.keys[i] /\ U.values[i] = T.values[i]
      /\ DOMAIN U.keys = 0..n - 1 /\ U.length = n
  BY <1>1, <1>4, <1>5 DEF Tables
<1>7. /\ Present(U) = Present(T) \cup {b} /\ Used(U) = Used(T) \cup {b}
      /\ b \notin Present(T) /\ b \notin Used(T)
  BY <1>2, <1>4, <1>6, Markers DEF Present, Used
<1>8. Counts(U)
  <2>1. /\ Cardinality(Present(U)) = Cardinality(Present(T)) + 1
        /\ Cardinality(Used(U)) = Cardinality(Used(T)) + 1
    BY <1>2, <1>7, FS_AddElement
  <2>2. T.used = Cardinality(Used(T)) /\ T.used - T.deleted = Cardinality(Present(T))
    BY <1>1 DEF Counts
  <2>3. U.used = T.used + 1 /\ U.deleted = T.deleted
    BY <1>5
  <2>4. U.used - U.deleted = (T.used - T.deleted) + 1
    BY <1>2, <2>3
  <2> QED BY <2>1, <2>2, <2>3, <2>4 DEF Counts
<1>9. Sides(U)
  BY <1>1, <1>2, <1>6, Markers DEF Sides
<1>10. Unique(U)
  <2> SUFFICES ASSUME NEW i \in Present(U), NEW j \in Present(U), Cmp(U.keys[i], U.keys[j])
               PROVE  i = j
    BY DEF Unique
  <2>1. \A x, y \in Key : Cmp(x, y) <=> Cmp(y, x)
    BY CmpIs
  <2>2. CASE i \in Present(T) /\ j \in Present(T)
    BY <1>1, <1>2, <1>6, <1>7, <2>2 DEF Unique
  <2>3. CASE i \in Present(T) /\ j = b
    BY <1>2, <1>6, <1>7, <2>3 DEF Absentee
  <2>4. CASE i = b /\ j \in Present(T)
    BY <1>2, <1>6, <1>7, <2>1, <2>4 DEF Absentee
  <2> QED BY <1>7, <2>2, <2>3, <2>4
<1>11. Sound(U, n)
  BY <1>1, <1>2, <1>5, <1>8, <1>9, <1>10 DEF Sound
<1>12. ASSUME Chains(T) PROVE Chains(U)
  <2> SUFFICES ASSUME NEW i \in Present(U) PROVE Reached(U, U.keys[i], i)
    BY DEF Chains
  <2>1. \A j \in 0..n - 1 : U.keys[j] = Unused => T.keys[j] = Unused
    BY <1>4, <1>6, Markers
  <2>2. CASE i \in Present(T)
    <3>1. Reached(T, T.keys[i], i) /\ T.keys[i] \in Key /\ U.keys[i] = T.keys[i]
      BY <1>2, <1>6, <1>7, <1>12, <2>2 DEF Chains
    <3> QED BY <1>1, <1>5, <2>1, <3>1, ChainStays
  <2>3. CASE i = b
    <3>1. Reached(T, k, b)
      BY <1>2, <1>4 DEF Reached
    <3>2. Reached(U, k, b)
      BY <1>1, <1>5, <2>1, <3>1, ChainStays
    <3> QED BY <1>6, <2>3, <3>2
  <2> QED BY <1>7, <2>2, <2>3
<1> QED BY <1>4, <1>5, <1>6, <1>7, <1>11, <1>12 DEF U, Present

\* U is T without the entries of the slots in G.
Erased(T, U, n, G) ==
  /\ U \in Tables(n) /\ SameKind(U, T) /\ U.used = T.used
  /\ U.deleted = T.deleted + Cardinality(G)
  /\ \A i \in 0..n - 1 :
       /\ i \in G => U.keys[i] = Deleted /\ U.values[i] \notin Object
       /\ i \notin G => U.keys[i] = T.keys[i] /\ U.values[i] = T.values[i]

\* Removal, by the program or by the collector.
LEMMA ErasureKeeps ==
  ASSUME HashOK, NEW n, NEW T, Sound(T, n), NEW U, NEW G \in SUBSET Present(T), Erased(T, U, n, G)
  PROVE  /\ Sound(U, n) /\ Present(U) = Present(T) \ G
         /\ \A i \in Present(U) : U.keys[i] = T.keys[i] /\ U.values[i] = T.values[i]
         /\ Chains(T) => Chains(U)
<1>1. /\ n \in Nat \ {0} /\ OddCancels(n) /\ T \in Tables(n) /\ U \in Tables(n)
      /\ Counts(T) /\ Sides(T) /\ Unique(T)
  BY DEF Sound, Erased
<1>2. /\ DOMAIN T.keys = 0..n - 1 /\ DOMAIN U.keys = 0..n - 1
      /\ T.used \in Int /\ T.deleted \in Int
      /\ Present(T) = {i \in 0..n - 1 : T.keys[i] \in Key}
      /\ Present(U) = {i \in 0..n - 1 : U.keys[i] \in Key}
      /\ Used(T) = {i \in 0..n - 1 : T.keys[i] # Unused}
      /\ Used(U) = {i \in 0..n - 1 : U.keys[i] # Unused}
      /\ IsFiniteSet(Present(T)) /\ Cardinality(Present(T)) \in Nat
  BY <1>1, TableFacts
<1>3. \A i \in 0..n - 1 :
       /\ i \in G => U.keys[i] = Deleted /\ U.values[i] \notin Object
       /\ i \notin G => U.keys[i] = T.keys[i] /\ U.values[i] = T.values[i]
  BY DEF Erased
<1>4. Present(U) = Present(T) \ G /\ Used(U) = Used(T)
  BY <1>2, <1>3, Markers
<1>5. Counts(U)
  <2>1. Present(T) \cap G = G /\ IsFiniteSet(G)
    BY <1>2, FS_Subset
  <2>2. Cardinality(Present(U)) = Cardinality(Present(T)) - Cardinality(G)
    BY <1>2, <1>4, <2>1, FS_Difference
  <2>3. Cardinality(G) \in Nat
    BY <2>1, FS_CardinalityType
  <2>4. U.used = T.used /\ U.deleted = T.deleted + Cardinality(G)
    BY DEF Erased
  <2>5. T.used = Cardinality(Used(T)) /\ T.used - T.deleted = Cardinality(Present(T))
    BY <1>1 DEF Counts
  <2>6. U.used - U.deleted = (T.used - T.deleted) - Cardinality(G)
    BY <1>2, <2>3, <2>4
  <2> QED BY <1>4, <2>2, <2>4, <2>5, <2>6 DEF Counts
<1>6. Sides(U)
  BY <1>1, <1>2, <1>3, Markers DEF Sides
<1>7. Unique(U)
  BY <1>1, <1>2, <1>3, <1>4 DEF Unique
<1>8. Sound(U, n)
  BY <1>1, <1>5, <1>6, <1>7 DEF Sound, Erased
<1>9. ASSUME Chains(T) PROVE Chains(U)
  <2> SUFFICES ASSUME NEW i \in Present(U) PROVE Reached(U, U.keys[i], i)
    BY DEF Chains
  <2>1. \A j \in 0..n - 1 : U.keys[j] = Unused => T.keys[j] = Unused
    BY <1>3, Markers
  <2>2. Reached(T, T.keys[i], i) /\ T.keys[i] \in Key /\ U.keys[i] = T.keys[i]
    BY <1>2, <1>3, <1>4, <1>9 DEF Chains
  <2> QED BY <1>1, <2>1, <2>2, ChainStays
<1> QED BY <1>2, <1>3, <1>4, <1>8, <1>9

LEMMA RemoveErases ==
  ASSUME HashOK, NEW n, NEW T, Sound(T, n), NEW b \in Present(T)
  PROVE  Erased(T, Remove(T, b), n, {b}) /\ SameKind(Remove(T, b), T)
<1> DEFINE U == Remove(T, b)
<1>1. n \in Nat \ {0} /\ T \in Tables(n) /\ b \in 0..n - 1
  BY TableFacts DEF Sound
<1>2. /\ U.keys = [T.keys EXCEPT ![b] = Deleted] /\ U.values = [T.values EXCEPT ![b] = Null]
      /\ U.used = T.used /\ U.deleted = T.deleted + 1 /\ SameKind(U, T)
  BY <1>1 DEF Tables, SameKind, Remove
<1>3. U \in Tables(n)
  <2>1. [T.keys EXCEPT ![b] = Deleted] \in [0..n - 1 -> SlotKey]
    BY <1>1 DEF Tables, SlotKey
  <2>2. [T.values EXCEPT ![b] = Null] \in [0..n - 1 -> SlotValue]
    BY <1>1 DEF Tables, SlotValue
  <2>3. T.deleted + 1 \in Int
    BY <1>1 DEF Tables
  <2>4. U = [T EXCEPT !.keys = [T.keys EXCEPT ![b] = Deleted],
                      !.values = [T.values EXCEPT ![b] = Null], !.deleted = T.deleted + 1]
    BY <1>1 DEF Tables, Remove
  <2> QED BY <1>1, <2>1, <2>2, <2>3, <2>4 DEF Tables
<1> HIDE DEF U
<1>4. Cardinality({b}) = 1
  BY FS_Singleton
<1>5. Erased(T, U, n, {b})
  BY <1>1, <1>2, <1>3, <1>4, Markers DEF Erased, Tables
<1> QED BY <1>2, <1>5 DEF U

\* The slots that a scan clears when the objects of dead are splatted.
Splatted(T, dead) ==
  {i \in DOMAIN T.keys : \/ T.wk /\ T.keys[i] \in dead
                         \/ T.wv /\ T.values[i] \in dead}

LEMMA SplatErases ==
  ASSUME HashOK, NEW n, NEW T, Sound(T, n), NEW dead \in SUBSET Object
  PROVE  /\ Splatted(T, dead) \in SUBSET Present(T)
         /\ Erased(T, Splat(T, dead), n, Splatted(T, dead))
         /\ SameKind(Splat(T, dead), T)
<1> DEFINE U == Splat(T, dead)
           G == Splatted(T, dead)
<1>1. /\ n \in Nat \ {0} /\ T \in Tables(n) /\ Sides(T)
      /\ DOMAIN T.keys = 0..n - 1 /\ DOMAIN T.values = 0..n - 1
      /\ Present(T) = {i \in 0..n - 1 : T.keys[i] \in Key}
      /\ \A i \in 0..n - 1 : T.keys[i] \in Key \/ T.keys[i] = Unused \/ T.keys[i] = Deleted
  BY TableFacts DEF Sound
<1>2. G \in SUBSET Present(T)
  BY <1>1, Markers DEF Splatted, Sides
<1>3. /\ U.keys = [i \in 0..n - 1 |-> IF i \in G THEN Deleted ELSE T.keys[i]]
      /\ U.values = [i \in 0..n - 1 |-> IF i \in G THEN Deleted ELSE T.values[i]]
      /\ U.used = T.used /\ U.deleted = T.deleted + Cardinality(G) /\ SameKind(U, T)
  BY <1>1 DEF Tables, SameKind, Splat, Splatted
<1>4. U.keys \in [0..n - 1 -> SlotKey] /\ U.values \in [0..n - 1 -> SlotValue]
  BY <1>1, <1>3 DEF Tables, SlotKey, SlotValue
<1>5. Cardinality(G) \in Nat
  <2>1. IsFiniteSet(Present(T))
    BY <1>1, TableFacts
  <2> QED BY <1>2, <2>1, FS_Subset, FS_CardinalityType
<1>6. U \in Tables(n)
  <2>1. U = [T EXCEPT !.keys = U.keys, !.values = U.values, !.deleted = U.deleted]
    BY <1>1 DEF Tables, Splat
  <2>2. U.deleted \in Int
    BY <1>1, <1>3, <1>5 DEF Tables
  <2> HIDE DEF U
  <2> QED BY <1>1, <1>4, <2>1, <2>2 DEF Tables
<1> HIDE DEF U, G
<1>7. Erased(T, U, n, G)
  BY <1>3, <1>6, Markers DEF Erased
<1> QED BY <1>2, <1>3, <1>7 DEF U, G

\* A new value for a key that is present.
LEMMA NewValueKeeps ==
  ASSUME HashOK, NEW n, NEW T, Sound(T, n), NEW b \in Present(T), NEW v \in Object
  PROVE  /\ Sound([T EXCEPT !.values[b] = v], n) /\ SameKind([T EXCEPT !.values[b] = v], T)
         /\ Present([T EXCEPT !.values[b] = v]) = Present(T)
         /\ [T EXCEPT !.values[b] = v].keys = T.keys
         /\ [T EXCEPT !.values[b] = v].values = [T.values EXCEPT ![b] = v]
         /\ Chains(T) => Chains([T EXCEPT !.values[b] = v])
<1> DEFINE U == [T EXCEPT !.values[b] = v]
<1>1. /\ n \in Nat \ {0} /\ T \in Tables(n) /\ b \in 0..n - 1 /\ OddCancels(n)
      /\ Counts(T) /\ Sides(T) /\ Unique(T) /\ DOMAIN T.keys = 0..n - 1 /\ T.keys[b] \in Key
      /\ Present(T) = {i \in 0..n - 1 : T.keys[i] \in Key}
  BY TableFacts DEF Sound
<1>2. /\ U.keys = T.keys /\ U.values = [T.values EXCEPT ![b] = v]
      /\ U.used = T.used /\ U.deleted = T.deleted /\ SameKind(U, T)
  BY <1>1 DEF Tables, SameKind
<1>3. U \in Tables(n)
  <2>1. [T.values EXCEPT ![b] = v] \in [0..n - 1 -> SlotValue]
    BY <1>1 DEF Tables, SlotValue
  <2> QED BY <1>1, <2>1 DEF Tables
<1> HIDE DEF U
<1>4. Present(U) = Present(T) /\ Used(U) = Used(T)
  BY <1>2 DEF Present, Used
<1>5. Counts(U) /\ Unique(U)
  BY <1>1, <1>2, <1>4 DEF Counts, Unique
<1>6. Sides(U)
  BY <1>1, <1>2 DEF Sides, Tables
<1>7. Sound(U, n)
  BY <1>1, <1>2, <1>3, <1>5, <1>6 DEF Sound
<1>8. Chains(T) => Chains(U)
  BY <1>2, <1>4 DEF Chains, Reached, Slot, SameKind
<1> QED BY <1>2, <1>4, <1>7, <1>8 DEF U

----------------------------------------------------------------------------
(* Rehashing.                                                              *)

Lds == [deps : SUBSET Key, moved : BOOLEAN, epoch : BOOLEAN]

\* A table keyed by address depends on the address of every key it holds.
Depends(T, l) == T.eq => \A i \in Present(T) : T.keys[i] \in l.deps

\* The keys among the first x slots.
Before(T, x) == {i \in Present(T) : i < x}

\* U holds the entries that T has in the slots of S.
HoldsOf(U, T, S) ==
  /\ \A i \in Present(U) : \E y \in S : T.keys[y] = U.keys[i] /\ T.values[y] = U.values[i]
  /\ \A y \in S : \E i \in Present(U) : T.keys[y] = U.keys[i] /\ T.values[y] = U.values[i]

\* `at` is the slot of the key that is looked for.
FoundAt(U, at, key) ==
  /\ key = Null => at = NotFound
  /\ at = NotFound => key = Null \/ Absentee(U, key)
  /\ at # NotFound => at \in Present(U) /\ Cmp(U.keys[at], key)

\* The copy of the first x slots of T to m slots.
Copied(T, c, x, m, key) ==
  /\ c.bad = "none" /\ Sound(c.new, m) /\ Chains(c.new)
  /\ c.new.eq = T.eq /\ c.new.wk = T.wk /\ c.new.wv = T.wv
  /\ c.new.used = Cardinality(Before(T, x)) /\ HoldsOf(c.new, T, Before(T, x))
  /\ FoundAt(c.new, c.at, key)
  /\ c.ld \in Lds /\ ~c.ld.moved /\ ~c.ld.epoch /\ Depends(c.new, c.ld)

StartOf(T, m) == [new |-> NewTable(m, T.eq, T.wk, T.wv), at |-> NotFound,
                  ld |-> NewLd, bad |-> "none"]

\* w[x] is the copy of the first x slots.
CopiedTo(w, T, m, key, n) ==
  w = [x \in 0..n |-> IF x = 0 THEN StartOf(T, m) ELSE CopySlot(T, w[x - 1], x - 1, key)]

\* The loop of table_rehash has a value after every slot.
LEMMA CopyExists ==
  ASSUME NEW T, NEW m, NEW key, NEW n \in Nat
  PROVE  \E w : CopiedTo(w, T, m, key, n)
<1> DEFINE Bad == {x \in 0..n : ~\E w : CopiedTo(w, T, m, key, x)}
<1>1. Bad = {}
  <2> SUFFICES ASSUME Bad # {} PROVE FALSE
    OBVIOUS
  <2> DEFINE b == First(Bad)
  <2>1. b \in Bad /\ \A x \in Bad : b <= x
    <3>1. Bad \subseteq Nat
      OBVIOUS
    <3> QED BY <3>1, FirstExists
  <2> HIDE DEF b
  <2>2. b \in Nat /\ b <= n /\ ~\E w : CopiedTo(w, T, m, key, b)
    BY <2>1
  <2>3. b # 0
    <3> DEFINE w == [x \in 0..0 |-> StartOf(T, m)]
    <3>1. CopiedTo(w, T, m, key, 0)
      BY DEF CopiedTo
    <3> QED BY <3>1, <2>2
  <2>4. PICK w : CopiedTo(w, T, m, key, b - 1)
    <3>1. b - 1 \in 0..n /\ ~(b <= b - 1)
      BY <2>2, <2>3
    <3>2. b - 1 \notin Bad
      BY <3>1, <2>1
    <3> QED BY <3>1, <3>2
  <2> DEFINE v == [x \in 0..b |-> IF x = b THEN CopySlot(T, w[b - 1], b - 1, key) ELSE w[x]]
             g == [x \in 0..b |-> IF x = 0 THEN StartOf(T, m)
                                  ELSE CopySlot(T, v[x - 1], x - 1, key)]
  <2>5. ASSUME NEW x \in 0..b PROVE v[x] = g[x]
    <3>1. CASE x = b
      <4>1. v[x - 1] = w[b - 1]
        BY <3>1, <2>2, <2>3
      <4> QED BY <4>1, <3>1, <2>2, <2>3
    <3>2. CASE x # b
      <4>1. x \in 0..b - 1 /\ v[x] = w[x]
        BY <3>2, <2>2
      <4>2. x # 0 => v[x - 1] = w[x - 1]
        BY <4>1, <2>2
      <4> QED BY <4>1, <4>2, <2>4 DEF CopiedTo
    <3> QED BY <3>1, <3>2
  <2>6. v = g
    BY <2>5
  <2>7. CopiedTo(v, T, m, key, b)
    BY <2>6 DEF CopiedTo
  <2> QED BY <2>2, <2>7
<1> QED BY <1>1

\* The outcome of table_rehash from its last copy.
Checked(T, all) ==
  IF all.bad # "none" THEN all
  ELSE IF T.used < T.deleted THEN [all EXCEPT !.bad = "size"]
  ELSE IF all.new.used # T.used - T.deleted THEN [all EXCEPT !.bad = "count"]
  ELSE all

LEMMA RehashedIs ==
  ASSUME NEW n \in Nat, NEW T, T.length = n, NEW m, NEW key
  PROVE  \E w : /\ w[0] = StartOf(T, m) /\ Rehashed(T, m, key) = Checked(T, w[n])
                /\ \A x \in 1..n : w[x] = CopySlot(T, w[x - 1], x - 1, key)
<1> DEFINE w == CHOOSE w : CopiedTo(w, T, m, key, n)
<1>1. CopiedTo(w, T, m, key, n)
  BY CopyExists
<1>2. Rehashed(T, m, key) = Checked(T, w[n])
  BY DEF Rehashed, CopiedTo, StartOf, Checked
<1> HIDE DEF w
<1> DEFINE g == [x \in 0..n |-> IF x = 0 THEN StartOf(T, m) ELSE CopySlot(T, w[x - 1], x - 1, key)]
<1>3. w = g
  BY <1>1 DEF CopiedTo
<1>4. g[0] = StartOf(T, m) /\ \A x \in 1..n : g[x] = CopySlot(T, w[x - 1], x - 1, key)
  OBVIOUS
<1> QED BY <1>2, <1>3, <1>4

\* make_buckets makes a table without entries.
LEMMA NewTableSound ==
  ASSUME NEW m \in Nat \ {0}, OddCancels(m), NEW eq \in BOOLEAN, NEW wk \in BOOLEAN,
         NEW wv \in BOOLEAN
  PROVE  /\ Sound(NewTable(m, eq, wk, wv), m) /\ Present(NewTable(m, eq, wk, wv)) = {}
         /\ Chains(NewTable(m, eq, wk, wv)) /\ NewTable(m, eq, wk, wv).used = 0
         /\ NewTable(m, eq, wk, wv).eq = eq /\ NewTable(m, eq, wk, wv).wk = wk
         /\ NewTable(m, eq, wk, wv).wv = wv /\ NewTable(m, eq, wk, wv).length = m
         /\ \A i \in 0..m - 1 : /\ NewTable(m, eq, wk, wv).keys[i] = Unused
                                /\ NewTable(m, eq, wk, wv).values[i] = Unused
<1> DEFINE U == NewTable(m, eq, wk, wv)
<1>1. U \in Tables(m)
  <2>1. Buckets(m) \in [0..m - 1 -> SlotKey] /\ Buckets(m) \in [0..m - 1 -> SlotValue]
    BY DEF Buckets, SlotKey, SlotValue
  <2> QED BY <2>1 DEF NewTable, Tables
<1>2. \A i \in 0..m - 1 : U.keys[i] = Unused /\ U.values[i] = Unused
  BY DEF NewTable, Buckets
<1>3. U.used = 0 /\ U.deleted = 0 /\ U.eq = eq /\ U.wk = wk /\ U.wv = wv /\ U.length = m
  BY DEF NewTable
<1> HIDE DEF U
<1>4. Present(U) = {} /\ Used(U) = {} /\ DOMAIN U.keys = 0..m - 1
  <2>1. /\ Present(U) = {i \in 0..m - 1 : U.keys[i] \in Key}
        /\ Used(U) = {i \in 0..m - 1 : U.keys[i] # Unused}
        /\ DOMAIN U.keys = 0..m - 1
    BY <1>1, TableFacts
  <2>2. \A i \in 0..m - 1 : U.keys[i] \notin Key /\ U.keys[i] = Unused
    BY <1>2, Markers
  <2> QED BY <2>1, <2>2, Zenon
<1>5. Counts(U) /\ Unique(U) /\ Sides(U) /\ Chains(U)
  BY <1>2, <1>3, <1>4, FS_EmptySet, Markers DEF Counts, Unique, Sides, Chains
<1>6. Sound(U, m)
  BY <1>1, <1>3, <1>5 DEF Sound
<1> QED BY <1>2, <1>3, <1>4, <1>5, <1>6 DEF U

LEMMA LdAddIs ==
  ASSUME NEW T, NEW l \in Lds, NEW k \in Key
  PROVE  /\ LdAdd(T, l, k) \in Lds /\ LdAdd(T, l, k).moved = l.moved
         /\ LdAdd(T, l, k).epoch = l.epoch
         /\ l.deps \subseteq LdAdd(T, l, k).deps
         /\ T.eq => k \in LdAdd(T, l, k).deps
BY DEF LdAdd, Lds

\* The number of keys in the first slots.
LEMMA BeforeCounts ==
  ASSUME NEW n, NEW T, Sound(T, n), NEW x \in 1..n
  PROVE  /\ T.keys[x - 1] \in Key =>
              /\ Before(T, x) = Before(T, x - 1) \cup {x - 1}
              /\ Cardinality(Before(T, x)) = Cardinality(Before(T, x - 1)) + 1
         /\ T.keys[x - 1] \notin Key => Before(T, x) = Before(T, x - 1)
         /\ Cardinality(Before(T, x - 1)) \in Nat
         /\ 2 * Cardinality(Before(T, x)) <= n
<1>1. /\ n \in Nat \ {0} /\ T \in Tables(n)
      /\ T.used = Cardinality(Used(T)) /\ 2 * T.used <= n
  BY DEF Sound, Counts
<1>2. /\ Present(T) = {i \in 0..n - 1 : T.keys[i] \in Key} /\ IsFiniteSet(Present(T))
      /\ Cardinality(Present(T)) <= Cardinality(Used(T)) /\ Cardinality(Used(T)) \in Nat
      /\ Cardinality(Present(T)) \in Nat
  BY <1>1, TableFacts
<1>3. /\ Before(T, x) \in SUBSET Present(T) /\ Before(T, x - 1) \in SUBSET Present(T)
  BY DEF Before
<1>4. /\ IsFiniteSet(Before(T, x - 1)) /\ IsFiniteSet(Before(T, x))
      /\ Cardinality(Before(T, x)) <= Cardinality(Present(T))
  BY <1>2, <1>3, FS_Subset
<1>5. Cardinality(Before(T, x)) \in Nat /\ Cardinality(Before(T, x - 1)) \in Nat
  BY <1>4, FS_CardinalityType
<1>6. T.keys[x - 1] \in Key => Before(T, x) = Before(T, x - 1) \cup {x - 1}
  BY <1>1, <1>2 DEF Before
<1>7. T.keys[x - 1] \notin Key => Before(T, x) = Before(T, x - 1)
  BY <1>1, <1>2 DEF Before
<1>8. x - 1 \notin Before(T, x - 1)
  BY <1>1 DEF Before
<1>9. T.keys[x - 1] \in Key => Cardinality(Before(T, x)) = Cardinality(Before(T, x - 1)) + 1
  BY <1>4, <1>6, <1>8, FS_AddElement
<1>10. 2 * Cardinality(Before(T, x)) <= n
  BY <1>1, <1>2, <1>4, <1>5
<1> QED BY <1>5, <1>6, <1>7, <1>9, <1>10

\* One more old slot.
LEMMA CopyKeeps ==
  ASSUME HashOK, NEW n, NEW T, Sound(T, n), NEW m \in Nat \ {0}, OddCancels(m), n <= m,
         NEW key \in Key \cup {Null}, NEW x \in 1..n, NEW c, Copied(T, c, x - 1, m, key)
  PROVE  Copied(T, CopySlot(T, c, x - 1, key), x, m, key)
<1> DEFINE y == x - 1
           k == T.keys[y]
           v == T.values[y]
           d == CopySlot(T, c, y, key)
           b == BucketsFind(c.new, k)
           U == Put(c.new, b, k, v)
<1> SUFFICES Copied(T, d, x, m, key)
  OBVIOUS
<1>1. /\ n \in Nat \ {0} /\ T \in Tables(n) /\ Sides(T) /\ Unique(T) /\ y \in 0..n - 1
      /\ DOMAIN T.keys = 0..n - 1
      /\ Present(T) = {i \in 0..n - 1 : T.keys[i] \in Key}
      /\ (k \in Key \/ k = Unused \/ k = Deleted)
  BY TableFacts DEF Sound
<1>2. /\ c.bad = "none" /\ Sound(c.new, m) /\ Chains(c.new) /\ c.new \in Tables(m)
      /\ c.new.eq = T.eq /\ c.new.wk = T.wk /\ c.new.wv = T.wv
      /\ c.new.used = Cardinality(Before(T, y)) /\ HoldsOf(c.new, T, Before(T, y))
      /\ FoundAt(c.new, c.at, key) /\ Counts(c.new)
      /\ c.ld \in Lds /\ ~c.ld.moved /\ ~c.ld.epoch /\ Depends(c.new, c.ld)
  BY DEF Copied, Sound
<1>3. CASE k \notin Key
  <2>1. Before(T, x) = Before(T, y)
    BY <1>3, BeforeCounts
  <2>2. d = c
    BY <1>1, <1>3 DEF CopySlot, IsFree
  <2> QED BY <1>2, <2>1, <2>2 DEF Copied
<1>4. CASE k \in Key
  <2>1. /\ Before(T, x) = Before(T, y) \cup {y} /\ 2 * Cardinality(Before(T, x)) <= n
        /\ Cardinality(Before(T, x)) = Cardinality(Before(T, y)) + 1
        /\ Cardinality(Before(T, y)) \in Nat
    BY <1>4, BeforeCounts
  <2>2. 2 * (c.new.used + 1) <= m
    BY <1>1, <1>2, <2>1
  <2>3. v \in Object
    BY <1>1, <1>4 DEF Sides
  <2>4. Absentee(c.new, k)
    <3> SUFFICES ASSUME NEW i \in Present(c.new), Cmp(c.new.keys[i], k) PROVE FALSE
      BY DEF Absentee
    <3>1. PICK z \in Before(T, y) : T.keys[z] = c.new.keys[i]
      BY <1>2 DEF HoldsOf
    <3>2. z \in Present(T) /\ y \in Present(T) /\ z # y
      BY <1>1, <1>4, <3>1 DEF Before
    <3> QED BY <1>1, <3>1, <3>2 DEF Unique
  <2>5. b \in 0..m - 1 /\ c.new.keys[b] = Unused
    <3>1. Cardinality(Used(c.new)) < m
      BY <1>2, <2>1, <2>2 DEF Counts
    <3>2. PICK f \in 0..m - 1 :
              /\ b = Slot(c.new, k, f) /\ b \in 0..m - 1
              /\ \/ c.new.keys[b] = Unused
                 \/ c.new.keys[b] \in Key /\ Cmp(c.new.keys[b], k)
      BY <1>2, <1>4, <3>1, SearchEnds
    <3>3. c.new.keys[b] \in Key => b \in Present(c.new)
      BY <1>2, <3>2, TableFacts
    <3> QED BY <2>4, <3>2, <3>3 DEF Absentee
  <2>6. d = [new |-> U, at |-> IF key # Null /\ Cmp(k, key) THEN b ELSE c.at,
             ld |-> LdAdd(T, c.ld, k), bad |-> "none"]
    <3>1. ~IsFree(k) /\ b # NotFound
      BY <1>4, <2>5, Markers DEF IsFree, NotFound
    <3> QED BY <1>2, <2>5, <3>1 DEF CopySlot
  <2>7. /\ Sound(U, m) /\ SameKind(U, c.new)
        /\ Present(U) = Present(c.new) \cup {b} /\ b \notin Present(c.new)
        /\ U.keys[b] = k /\ U.values[b] = v /\ U.used = c.new.used + 1
        /\ \A i \in Present(c.new) : U.keys[i] = c.new.keys[i] /\ U.values[i] = c.new.values[i]
        /\ Chains(c.new) => Chains(U)
    BY <1>2, <1>4, <2>2, <2>3, <2>4, <2>5, PutKeeps
  <2> HIDE DEF U, b, d
  <2>8. HoldsOf(U, T, Before(T, x))
    <3>1. ASSUME NEW i \in Present(U)
          PROVE  \E z \in Before(T, x) : T.keys[z] = U.keys[i] /\ T.values[z] = U.values[i]
      <4>1. CASE i = b
        BY <4>1, <2>1, <2>7
      <4>2. CASE i \in Present(c.new)
        <5>1. PICK z \in Before(T, y) : T.keys[z] = c.new.keys[i] /\ T.values[z] = c.new.values[i]
          BY <1>2, <4>2 DEF HoldsOf
        <5> QED BY <2>1, <2>7, <4>2, <5>1
      <4> QED BY <2>7, <4>1, <4>2
    <3>2. ASSUME NEW z \in Before(T, x)
          PROVE  \E i \in Present(U) : T.keys[z] = U.keys[i] /\ T.values[z] = U.values[i]
      <4>1. CASE z = y
        BY <4>1, <2>7
      <4>2. CASE z \in Before(T, y)
        <5>1. PICK i \in Present(c.new) : T.keys[z] = c.new.keys[i] /\ T.values[z] = c.new.values[i]
          BY <1>2, <4>2 DEF HoldsOf
        <5> QED BY <2>7, <5>1
      <4> QED BY <2>1, <4>1, <4>2
    <3> QED BY <3>1, <3>2 DEF HoldsOf
  <2>9. FoundAt(U, d.at, key)
    <3>1. b \in Nat /\ b # NotFound
      BY <1>2, <2>5, TableFacts DEF NotFound
    <3>2. CASE key # Null /\ Cmp(k, key)
      BY <2>6, <2>7, <3>1, <3>2 DEF FoundAt
    <3>3. CASE ~(key # Null /\ Cmp(k, key))
      <4>1. d.at = c.at
        BY <2>6, <3>3
      <4>2. c.at = NotFound => key = Null \/ Absentee(U, key)
        BY <1>2, <2>7, <3>3 DEF FoundAt, Absentee
      <4>3. c.at # NotFound => c.at \in Present(U) /\ Cmp(U.keys[c.at], key)
        BY <1>2, <2>7 DEF FoundAt
      <4> QED BY <1>2, <4>1, <4>2, <4>3 DEF FoundAt
    <3> QED BY <3>2, <3>3
  <2>10. d.ld \in Lds /\ ~d.ld.moved /\ ~d.ld.epoch /\ Depends(U, d.ld)
    <3>0. d.ld = LdAdd(T, c.ld, k) /\ c.ld \in Lds
      BY <1>2, <2>6
    <3>1. /\ d.ld \in Lds /\ ~d.ld.moved /\ ~d.ld.epoch
          /\ c.ld.deps \subseteq d.ld.deps /\ (T.eq => k \in d.ld.deps)
      <4> HIDE DEF k
      <4> DEFINE l == LdAdd(T, c.ld, k)
      <4>1. /\ l \in Lds /\ l.moved = c.ld.moved /\ l.epoch = c.ld.epoch
            /\ c.ld.deps \subseteq l.deps /\ (T.eq => k \in l.deps)
        <5> DEFINE e == c.ld
        <5>1. e \in Lds /\ k \in Key
          BY <1>4, <3>0
        <5> HIDE DEF e
        <5>2. /\ LdAdd(T, e, k) \in Lds /\ LdAdd(T, e, k).moved = e.moved
              /\ LdAdd(T, e, k).epoch = e.epoch /\ e.deps \subseteq LdAdd(T, e, k).deps
              /\ (T.eq => k \in LdAdd(T, e, k).deps)
          BY <5>1, LdAddIs
        <5> QED BY <5>2 DEF e
      <4> HIDE DEF l
      <4>2. d.ld = l
        BY <3>0 DEF l
      <4>3. ~l.moved /\ ~l.epoch
        BY <1>2, <4>1
      <4> QED BY <4>1, <4>2, <4>3
    <3>2. U.eq = T.eq
      BY <1>2, <2>7 DEF SameKind
    <3> QED BY <1>2, <2>7, <3>1, <3>2 DEF Depends
  <2>11. d.new = U /\ d.bad = "none"
    BY <2>6
  <2> QED BY <1>2, <2>1, <2>7, <2>8, <2>9, <2>10, <2>11 DEF Copied, SameKind
<1> QED BY <1>3, <1>4

\* No assertion of table_rehash fails, and the new buckets hold what the old held.
LEMMA RehashKeeps ==
  ASSUME HashOK, NEW n, NEW T, Sound(T, n), NEW m \in Nat \ {0}, OddCancels(m), n <= m,
         NEW key \in Key \cup {Null}, NEW r, r = Rehashed(T, m, key)
  PROVE  /\ r.bad = "none" /\ Sound(r.new, m) /\ Chains(r.new)
         /\ r.new.eq = T.eq /\ r.new.wk = T.wk /\ r.new.wv = T.wv
         /\ r.new.used = T.used - T.deleted /\ r.new.used \in Nat /\ 2 * r.new.used <= n
         /\ HoldsOf(r.new, T, Present(T)) /\ FoundAt(r.new, r.at, key)
         /\ r.ld \in Lds /\ ~r.ld.moved /\ ~r.ld.epoch /\ Depends(r.new, r.ld)
<1>1. /\ n \in Nat \ {0} /\ T \in Tables(n) /\ T.length = n /\ T.used \in Int /\ T.deleted \in Int
      /\ T.eq \in BOOLEAN /\ T.wk \in BOOLEAN /\ T.wv \in BOOLEAN
      /\ Present(T) = {i \in 0..n - 1 : T.keys[i] \in Key} /\ 2 * T.used <= n
      /\ Cardinality(Present(T)) <= Cardinality(Used(T)) /\ Cardinality(Present(T)) \in Nat
      /\ Cardinality(Used(T)) \in Nat
  BY TableFacts DEF Sound
<1>2. T.used = Cardinality(Used(T)) /\ T.used - T.deleted = Cardinality(Present(T))
  BY DEF Sound, Counts
<1>3. PICK w : /\ w[0] = StartOf(T, m) /\ r = Checked(T, w[n])
               /\ \A x \in 1..n : w[x] = CopySlot(T, w[x - 1], x - 1, key)
  BY <1>1, RehashedIs
<1> DEFINE Bad == {x \in 0..n : ~Copied(T, w[x], x, m, key)}
<1>4. Bad = {}
  <2> SUFFICES ASSUME Bad # {} PROVE FALSE
    OBVIOUS
  <2> DEFINE b == First(Bad)
  <2>1. b \in Bad /\ \A x \in Bad : b <= x
    <3>1. Bad \subseteq Nat
      OBVIOUS
    <3> QED BY <3>1, FirstExists
  <2> HIDE DEF b
  <2>2. b \in 0..n /\ ~Copied(T, w[b], b, m, key)
    BY <2>1
  <2>3. b # 0
    <3> SUFFICES Copied(T, w[0], 0, m, key)
      BY <2>2
    <3> DEFINE U == NewTable(m, T.eq, T.wk, T.wv)
    <3>1. /\ Sound(U, m) /\ Present(U) = {} /\ Chains(U) /\ U.used = 0
          /\ U.eq = T.eq /\ U.wk = T.wk /\ U.wv = T.wv
      BY <1>1, NewTableSound
    <3> HIDE DEF U
    <3>2. w[0].new = U /\ w[0].at = NotFound /\ w[0].ld = NewLd /\ w[0].bad = "none"
      BY <1>3 DEF StartOf, U
    <3>3. NewLd \in Lds /\ ~NewLd.moved /\ ~NewLd.epoch
      BY DEF NewLd, Lds
    <3>4. Before(T, 0) = {}
      BY <1>1 DEF Before
    <3>5. HoldsOf(U, T, Before(T, 0)) /\ FoundAt(U, NotFound, key) /\ Depends(U, NewLd)
      BY <3>1, <3>4 DEF HoldsOf, FoundAt, Absentee, Depends
    <3> QED BY <3>1, <3>2, <3>3, <3>4, <3>5, FS_EmptySet DEF Copied
  <2>4. b - 1 \in 0..n /\ ~(b <= b - 1) /\ b \in 1..n
    BY <1>1, <2>2, <2>3
  <2>5. Copied(T, w[b - 1], b - 1, m, key)
    BY <2>1, <2>4
  <2>6. w[b] = CopySlot(T, w[b - 1], b - 1, key)
    BY <1>3, <2>4
  <2> QED BY <2>2, <2>4, <2>5, <2>6, CopyKeeps
<1>5. Copied(T, w[n], n, m, key)
  <2>1. n \in 0..n /\ n \notin Bad
    BY <1>1, <1>4
  <2> QED BY <2>1
<1>6. Before(T, n) = Present(T)
  BY <1>1 DEF Before
<1>7. r = w[n]
  <2>1. ~(T.used < T.deleted)
    BY <1>1, <1>2
  <2> QED BY <1>2, <1>3, <1>5, <1>6, <2>1 DEF Checked, Copied
<1>8. T.used - T.deleted \in Nat /\ 2 * (T.used - T.deleted) <= n
  BY <1>1, <1>2
<1> QED BY <1>2, <1>5, <1>6, <1>7, <1>8 DEF Copied

----------------------------------------------------------------------------
(* The map that a table stands for.                                        *)

Vacant == [key |-> Null, value |-> Null]

\* Entry, of a table.
EntryOf(T, c) ==
  LET at == {i \in Present(T) : class[T.keys[i]] = c}
      i  == CHOOSE i \in at : TRUE
  IN  IF at = {} THEN Vacant ELSE [key |-> T.keys[i], value |-> T.values[i]]

MapOf(T) == [c \in Key |-> EntryOf(T, c)]

LEMMA MapIs ==
  ASSUME HashOK, NEW n, NEW T, Sound(T, n)
  PROVE  /\ \A i \in Present(T) :
              /\ class[T.keys[i]] \in Key /\ T.keys[i] \in Key /\ T.values[i] \in Object
              /\ MapOf(T)[class[T.keys[i]]] = [key |-> T.keys[i], value |-> T.values[i]]
              /\ MapOf(T)[class[T.keys[i]]] # Vacant
         /\ \A c \in Key : (\A i \in Present(T) : class[T.keys[i]] # c) => MapOf(T)[c] = Vacant
         /\ \A k \in Key : Absentee(T, k) <=> MapOf(T)[class[k]] = Vacant
<1>1. /\ DOMAIN T.keys = 0..n - 1 /\ Present(T) = {i \in 0..n - 1 : T.keys[i] \in Key}
      /\ Sides(T) /\ Unique(T)
  BY TableFacts DEF Sound
<1>2. \A i \in Present(T) : /\ class[T.keys[i]] \in Key /\ T.keys[i] \in Key
                            /\ T.values[i] \in Object
  BY <1>1 DEF Sides, HashOK
<1>3. ASSUME NEW i \in Present(T)
      PROVE  MapOf(T)[class[T.keys[i]]] = [key |-> T.keys[i], value |-> T.values[i]]
  <2> DEFINE at == {j \in Present(T) : class[T.keys[j]] = class[T.keys[i]]}
             c  == CHOOSE j \in at : TRUE
  <2>1. at = {i}
    <3>1. \A j \in at : Cmp(T.keys[j], T.keys[i])
      BY <1>2, CmpIs
    <3> QED BY <1>1, <3>1 DEF Unique
  <2>2. c = i
    BY <2>1
  <2>3. EntryOf(T, class[T.keys[i]]) = IF at = {} THEN Vacant
                                       ELSE [key |-> T.keys[c], value |-> T.values[c]]
    BY DEF EntryOf
  <2>4. at # {}
    BY <2>1
  <2> HIDE DEF c, at
  <2> QED BY <1>2, <2>2, <2>3, <2>4 DEF MapOf
<1>4. \A c \in Key : (\A i \in Present(T) : class[T.keys[i]] # c) => MapOf(T)[c] = Vacant
  <2> SUFFICES ASSUME NEW c \in Key, \A i \in Present(T) : class[T.keys[i]] # c
               PROVE  EntryOf(T, c) = Vacant
    BY DEF MapOf
  <2>1. {i \in Present(T) : class[T.keys[i]] = c} = {}
    OBVIOUS
  <2> QED BY <2>1 DEF EntryOf
<1>5. \A i \in Present(T) : MapOf(T)[class[T.keys[i]]] # Vacant
  <2> SUFFICES ASSUME NEW i \in Present(T) PROVE MapOf(T)[class[T.keys[i]]] # Vacant
    OBVIOUS
  <2> DEFINE e == [key |-> T.keys[i], value |-> T.values[i]]
  <2>1. e.key # Null
    BY <1>2, Markers
  <2>2. Vacant.key = Null
    BY DEF Vacant
  <2> HIDE DEF e
  <2>3. e # Vacant
    BY <2>1, <2>2
  <2> QED BY <1>3, <2>3 DEF e
<1>6. ASSUME NEW k \in Key PROVE Absentee(T, k) <=> MapOf(T)[class[k]] = Vacant
  <2>1. class[k] \in Key
    BY DEF HashOK
  <2>2. CASE Absentee(T, k)
    <3>1. \A i \in Present(T) : class[T.keys[i]] # class[k]
      BY <1>2, <2>2, CmpIs DEF Absentee
    <3> QED BY <1>4, <2>1, <2>2, <3>1
  <2>3. CASE ~Absentee(T, k)
    <3>1. PICK i \in Present(T) : class[T.keys[i]] = class[k]
      BY <1>2, <2>3, CmpIs DEF Absentee
    <3> QED BY <1>5, <2>3, <3>1
  <2> QED BY <2>2, <2>3
<1> QED BY <1>2, <1>3, <1>4, <1>5, <1>6

LEMMA MapIsFunction ==
  ASSUME NEW T
  PROVE  MapOf(T) = [c \in Key |-> MapOf(T)[c]]
BY DEF MapOf

\* Tables with the same entries stand for the same map.
LEMMA SameMap ==
  ASSUME HashOK, NEW n, NEW T, Sound(T, n), NEW m, NEW U, Sound(U, m),
         HoldsOf(U, T, Present(T))
  PROVE  MapOf(U) = MapOf(T)
<1>1. ASSUME NEW c \in Key PROVE MapOf(U)[c] = MapOf(T)[c]
  <2>1. CASE \E i \in Present(U) : class[U.keys[i]] = c
    <3>1. PICK i \in Present(U) : class[U.keys[i]] = c
      BY <2>1
    <3>2. PICK y \in Present(T) : T.keys[y] = U.keys[i] /\ T.values[y] = U.values[i]
      BY DEF HoldsOf
    <3>3. MapOf(U)[c] = [key |-> U.keys[i], value |-> U.values[i]]
      BY <3>1, MapIs
    <3>4. MapOf(T)[c] = [key |-> T.keys[y], value |-> T.values[y]]
      BY <3>1, <3>2, MapIs
    <3> QED BY <3>2, <3>3, <3>4
  <2>2. CASE \A i \in Present(U) : class[U.keys[i]] # c
    <3>1. \A y \in Present(T) : class[T.keys[y]] # c
      BY <2>2 DEF HoldsOf
    <3> QED BY <2>2, <3>1, MapIs
  <2> QED BY <2>1, <2>2
<1> QED BY <1>1, MapIsFunction

\* What storing v for k makes of the map M.
StoredIn(M, k, v) ==
  [M EXCEPT ![class[k]] = [key |-> IF M[class[k]] = Vacant THEN k ELSE M[class[k]].key,
                           value |-> v]]

\* One entry more, at slot b.
LEMMA PutMap ==
  ASSUME HashOK, NEW n, NEW T, Sound(T, n), NEW m, NEW U, Sound(U, m), NEW k \in Key,
         NEW v, NEW b, Present(U) = Present(T) \cup {b}, Absentee(T, k),
         U.keys[b] = k, U.values[b] = v,
         \A i \in Present(T) : U.keys[i] = T.keys[i] /\ U.values[i] = T.values[i]
  PROVE  MapOf(U) = StoredIn(MapOf(T), k, v)
<1>1. class[k] \in Key /\ b \in Present(U) /\ MapOf(T)[class[k]] = Vacant
  BY MapIs DEF HashOK
<1>2. MapOf(U)[class[k]] = [key |-> k, value |-> v]
  BY <1>1, MapIs
<1>3. ASSUME NEW c \in Key, c # class[k] PROVE MapOf(U)[c] = MapOf(T)[c]
  <2>1. CASE \E i \in Present(T) : class[T.keys[i]] = c
    <3>1. PICK i \in Present(T) : class[T.keys[i]] = c
      BY <2>1
    <3>2. i \in Present(U) /\ U.keys[i] = T.keys[i] /\ U.values[i] = T.values[i]
      OBVIOUS
    <3>3. MapOf(U)[c] = [key |-> U.keys[i], value |-> U.values[i]]
      BY <3>1, <3>2, MapIs
    <3>4. MapOf(T)[c] = [key |-> T.keys[i], value |-> T.values[i]]
      BY <3>1, MapIs
    <3> QED BY <3>2, <3>3, <3>4
  <2>2. CASE \A i \in Present(T) : class[T.keys[i]] # c
    <3>1. \A i \in Present(U) : class[U.keys[i]] # c
      BY <1>3, <2>2
    <3> QED BY <2>2, <3>1, MapIs
  <2> QED BY <2>1, <2>2
<1>4. StoredIn(MapOf(T), k, v) = [MapOf(T) EXCEPT ![class[k]] = [key |-> k, value |-> v]]
  BY <1>1 DEF StoredIn
<1>5. MapOf(U) = [c \in Key |-> IF c = class[k] THEN [key |-> k, value |-> v] ELSE MapOf(T)[c]]
  BY <1>2, <1>3, MapIsFunction
<1>6. MapOf(T) = [c \in Key |-> MapOf(T)[c]]
  BY MapIsFunction
<1> QED BY <1>1, <1>4, <1>5, <1>6

\* The entry at slot b has a new value.
LEMMA NewValueMap ==
  ASSUME HashOK, NEW n, NEW T, Sound(T, n), NEW m, NEW U, Sound(U, m), NEW k \in Key,
         NEW v, NEW b \in Present(T), Present(U) = Present(T), Cmp(T.keys[b], k),
         U.keys = T.keys, U.values = [T.values EXCEPT ![b] = v]
  PROVE  MapOf(U) = StoredIn(MapOf(T), k, v)
<1>1. /\ T.keys[b] \in Key /\ class[k] = class[T.keys[b]] /\ class[k] \in Key
      /\ Present(T) \subseteq DOMAIN T.values
  BY MapIs, CmpIs, TableFacts DEF HashOK, Sound
<1>2. /\ U.values[b] = v
      /\ \A i \in Present(T) : i # b => U.values[i] = T.values[i]
  BY <1>1
<1>3. /\ MapOf(T)[class[k]] = [key |-> T.keys[b], value |-> T.values[b]]
      /\ MapOf(T)[class[k]] # Vacant
      /\ MapOf(U)[class[k]] = [key |-> T.keys[b], value |-> v]
  BY <1>1, <1>2, MapIs
<1>4. ASSUME NEW c \in Key, c # class[k] PROVE MapOf(U)[c] = MapOf(T)[c]
  <2>1. CASE \E i \in Present(T) : class[T.keys[i]] = c
    <3>1. PICK i \in Present(T) : class[T.keys[i]] = c
      BY <2>1
    <3>2. i # b
      BY <1>1, <1>4, <3>1
    <3>3. MapOf(U)[c] = [key |-> U.keys[i], value |-> U.values[i]]
      <4>1. i \in Present(U) /\ class[U.keys[i]] = c
        BY <3>1
      <4>2. MapOf(U)[class[U.keys[i]]] = [key |-> U.keys[i], value |-> U.values[i]]
        BY ONLY HashOK, Sound(U, m), <4>1, MapIs
      <4> QED BY <4>1, <4>2
    <3>4. MapOf(T)[c] = [key |-> T.keys[i], value |-> T.values[i]]
      BY <3>1, MapIs
    <3> QED BY <1>2, <3>2, <3>3, <3>4
  <2>2. CASE \A i \in Present(T) : class[T.keys[i]] # c
    BY <2>2, MapIs
  <2> QED BY <2>1, <2>2
<1>5. StoredIn(MapOf(T), k, v) = [MapOf(T) EXCEPT ![class[k]] = [key |-> T.keys[b], value |-> v]]
  <2>1. MapOf(T)[class[k]].key = T.keys[b]
    BY <1>3
  <2> QED BY <1>3, <2>1 DEF StoredIn
<1>6. MapOf(U) = [c \in Key |-> IF c = class[k] THEN [key |-> T.keys[b], value |-> v]
                                ELSE MapOf(T)[c]]
  BY <1>3, <1>4, MapIsFunction
<1>7. MapOf(T) = [c \in Key |-> MapOf(T)[c]]
  BY MapIsFunction
<1> QED BY <1>1, <1>5, <1>6, <1>7

\* The entries of the slots in G are gone.
LEMMA ErasedMap ==
  ASSUME HashOK, NEW n, NEW T, Sound(T, n), NEW m, NEW U, Sound(U, m),
         NEW G \in SUBSET Present(T), Present(U) = Present(T) \ G,
         \A i \in Present(U) : U.keys[i] = T.keys[i] /\ U.values[i] = T.values[i]
  PROVE  MapOf(U) = [c \in Key |-> IF c \in {class[T.keys[i]] : i \in G} THEN Vacant
                                   ELSE MapOf(T)[c]]
<1> DEFINE C == {class[T.keys[i]] : i \in G}
<1>1. ASSUME NEW c \in Key PROVE MapOf(U)[c] = IF c \in C THEN Vacant ELSE MapOf(T)[c]
  <2>1. CASE c \in C
    <3>1. PICK g \in G : class[T.keys[g]] = c
      BY <2>1
    <3>2. ASSUME NEW i \in Present(U) PROVE class[U.keys[i]] # c
      <4>1. i \in Present(T) /\ i # g /\ g \in Present(T) /\ U.keys[i] = T.keys[i]
        OBVIOUS
      <4>2. ~Cmp(T.keys[i], T.keys[g])
        BY <4>1 DEF Sound, Unique
      <4>3. T.keys[i] \in Key /\ T.keys[g] \in Key
        BY <4>1, MapIs
      <4>4. class[T.keys[i]] # class[T.keys[g]]
        BY <4>2, <4>3, CmpIs
      <4> QED BY <3>1, <4>1, <4>4
    <3>3. MapOf(U)[c] = Vacant
      BY <3>2, MapIs
    <3> QED BY <2>1, <3>3
  <2>2. CASE c \notin C /\ \E i \in Present(T) : class[T.keys[i]] = c
    <3>1. PICK i \in Present(T) : class[T.keys[i]] = c
      BY <2>2
    <3>2. i \in Present(U) /\ U.keys[i] = T.keys[i] /\ U.values[i] = T.values[i]
      BY <2>2, <3>1
    <3>3. MapOf(U)[c] = [key |-> U.keys[i], value |-> U.values[i]]
      BY <3>1, <3>2, MapIs
    <3>4. MapOf(T)[c] = [key |-> T.keys[i], value |-> T.values[i]]
      BY <3>1, MapIs
    <3> QED BY <2>2, <3>2, <3>3, <3>4
  <2>3. CASE \A i \in Present(T) : class[T.keys[i]] # c
    <3>1. c \notin C /\ \A i \in Present(U) : class[U.keys[i]] # c
      BY <2>3
    <3> QED BY <2>3, <3>1, MapIs
  <2> QED BY <2>1, <2>2, <2>3
<1> HIDE DEF C
<1>2. MapOf(U) = [c \in Key |-> IF c \in C THEN Vacant ELSE MapOf(T)[c]]
  BY <1>1, MapIsFunction
<1> QED BY <1>2 DEF C

----------------------------------------------------------------------------
(* The inductive invariant.                                                *)

\* No slot refers to an object that is gone.
Alive(T, st) ==
  \A i \in DOMAIN T.keys : /\ T.keys[i] \in Object => st[T.keys[i]] # "none"
                           /\ T.values[i] \in Object => st[T.values[i]] # "none"

\* A table with its dependency: while no key that it depends on has moved, its
\* chains lead to every key.
GoodTable(T, l) ==
  /\ Sound(T, T.length) /\ T.length <= MaxLength
  /\ l \in Lds /\ Depends(T, l) /\ (~l.moved => Chains(T))

\* A call that waits in the allocations of its rehash: what it works on is held,
\* and it knows whether it looks for a key or for room.
CallOK(T, c, st) ==
  /\ c.key \in Key /\ st[c.key] = "held" /\ c.length \in Nat /\ c.length <= MaxLength
  /\ c.op \in {"ref", "delete", "internRef", "set", "internSet"}
  /\ c.op \in {"set", "internSet"} => c.value \in Object /\ st[c.value] = "held"
  /\ c.op = "internSet" => c.value = c.key /\ Absentee(T, c.key)
  /\ \/ c.for = Null /\ c.op \in {"set", "internSet"} /\ c.length = 2 * T.length
     \/ c.for = c.key /\ c.length = T.length

StatusOK == status \in [Object -> {"none", "held", "loose"}]

ControlInv ==
  /\ StatusOK /\ HashOK /\ fault = "none" /\ pc \in {"none", "idle", "alloc"}
  /\ pc # "none" => SameHash(tbl.eq)
  /\ pc = "none" => Present(tbl) = {} /\ out = Nothing

IInv ==
  /\ ControlInv /\ GoodTable(tbl, ld) /\ Alive(tbl, status)
  /\ pc = "alloc" => CallOK(tbl, call, status)

----------------------------------------------------------------------------
(* The procedures of the table.                                            *)

\* table_find: a search that does not trust moved addresses is right.
LEMMA LookupIs ==
  ASSUME HashOK, NEW T, NEW l, GoodTable(T, l), SameHash(T.eq), NEW k \in Key,
         NEW how \in Lookups(T, l, k)
  PROVE  /\ how \in {"found", "free", "stale"}
         /\ how = "found" => /\ BucketsFind(T, k) \in Present(T)
                             /\ Cmp(T.keys[BucketsFind(T, k)], k)
         /\ how = "free" => T.keys[BucketsFind(T, k)] = Unused /\ Absentee(T, k)
<1> DEFINE n == T.length
           b == BucketsFind(T, k)
<1>1. Sound(T, n) /\ l \in Lds /\ (~l.moved => Chains(T))
  BY DEF GoodTable
<1>2. /\ n \in Nat \ {0} /\ T \in Tables(n) /\ OddCancels(n) /\ Unique(T)
      /\ T.used = Cardinality(Used(T)) /\ 2 * T.used <= n
  BY <1>1 DEF Sound, Counts
<1>3. /\ Present(T) = {i \in 0..n - 1 : T.keys[i] \in Key} /\ Cardinality(Used(T)) \in Nat
      /\ DOMAIN T.keys = 0..n - 1
  BY <1>2, TableFacts
<1>4. Cardinality(Used(T)) < n
  BY <1>2, <1>3
<1>5. /\ b \in 0..n - 1
      /\ T.keys[b] = Unused \/ (T.keys[b] \in Key /\ Cmp(T.keys[b], k))
  BY <1>2, <1>4, SearchEnds
<1>6. b # NotFound
  BY <1>2, <1>5 DEF NotFound
<1> HIDE DEF b
<1>7. Lookups(T, l, k) = IF ~IsFree(T.keys[b]) THEN {"found"}
                         ELSE {IF stale THEN "stale" ELSE "free" : stale \in IsStale(l)}
  BY <1>6 DEF Lookups, b
<1>8. CASE T.keys[b] \in Key
  <2>1. ~IsFree(T.keys[b])
    BY <1>8, Markers DEF IsFree
  <2>2. how = "found"
    BY <1>7, <2>1
  <2>3. b \in Present(T) /\ Cmp(T.keys[b], k)
    BY <1>3, <1>5, <1>8, Markers
  <2> QED BY <2>2, <2>3 DEF b
<1>9. CASE T.keys[b] \notin Key
  <2>1. T.keys[b] = Unused /\ IsFree(T.keys[b])
    BY <1>5, <1>9 DEF IsFree
  <2>2. PICK stale \in IsStale(l) : how = IF stale THEN "stale" ELSE "free"
    BY <1>7, <2>1
  <2>3. how = "free" => ~l.moved
    BY <2>2 DEF IsStale
  <2>4. how = "free" => Absentee(T, k)
    <3> SUFFICES ASSUME how = "free", NEW i \in Present(T), Cmp(T.keys[i], k) PROVE FALSE
      BY DEF Absentee
    <3>1. Reached(T, T.keys[i], i)
      BY <1>1, <2>3 DEF Chains
    <3>2. b = i
      BY <1>2, <1>4, <3>1, SearchFinds DEF b
    <3> QED BY <1>3, <1>9, <3>2
  <2>5. how \in {"free", "stale"}
    BY <2>2
  <2> QED BY <2>1, <2>4, <2>5 DEF b
<1> QED BY <1>8, <1>9

LEMMA DependsMore ==
  ASSUME NEW T, NEW l, GoodTable(T, l), NEW k \in Key
  PROVE  /\ GoodTable(T, LdAdd(T, l, k)) /\ LdAdd(T, l, k).moved = l.moved
         /\ T.eq => k \in LdAdd(T, l, k).deps
<1>1. l \in Lds
  BY DEF GoodTable
<1>2. /\ LdAdd(T, l, k) \in Lds /\ LdAdd(T, l, k).moved = l.moved
      /\ l.deps \subseteq LdAdd(T, l, k).deps /\ (T.eq => k \in LdAdd(T, l, k).deps)
  BY <1>1, LdAddIs
<1> HIDE DEF LdAdd
<1>3. Depends(T, LdAdd(T, l, k))
  BY <1>2 DEF GoodTable, Depends
<1> QED BY <1>2, <1>3 DEF GoodTable

\* What a call makes of the map M, with its result.
Did(M, N, op, k, v, r) ==
  \/ op = "set" /\ v \in Object /\ N = StoredIn(M, k, v) /\ r = Null
  \/ op = "delete" /\ N = [M EXCEPT ![class[k]] = Vacant] /\ r = Null
  \/ op = "ref" /\ N = M /\ r = M[class[k]].value
  \/ op = "internRef" /\ N = M /\ M[class[k]] # Vacant /\ r = M[class[k]].value
  \/ op = "internSet" /\ M[class[k]] = Vacant /\ N = StoredIn(M, k, k) /\ r = k

\* Tables of one identity.
Same3(U, T) == U.eq = T.eq /\ U.wk = T.wk /\ U.wv = T.wv

\* A call on T returns, with the table as it must be.
Returns(T, M, k) ==
  \E U, l, op, v, r :
    /\ Leave(U, l, op, k, r) /\ GoodTable(U, l) /\ Same3(U, T) /\ Alive(U, status)
    /\ Did(M, MapOf(U), op, k, v, r) /\ r \in Object \cup {Null}

\* A call on T waits in a rehash, and the map is as it was.
Waits(T, M, k) ==
  \E U, l, op, v, length, for :
    /\ Rehash(U, l, op, k, v, length, for) /\ GoodTable(U, l) /\ Same3(U, T)
    /\ Alive(U, status) /\ MapOf(U) = M
    /\ CallOK(U, [op |-> op, key |-> k, value |-> v, length |-> length, for |-> for,
                  again |-> for = Null], status)

GoesOn(T, M, k) == Returns(T, M, k) \/ Waits(T, M, k)

----------------------------------------------------------------------------
(* A call, from where it stands to its result or to its next wait.          *)

LEMMA GoodTableIs ==
  ASSUME NEW T, NEW l, GoodTable(T, l)
  PROVE  /\ Sound(T, T.length) /\ T.length \in Nat \ {0} /\ T \in Tables(T.length)
         /\ T.length <= MaxLength /\ 2 * T.used <= T.length /\ OddCancels(T.length)
         /\ T.used \in Nat /\ T.deleted \in Int
         /\ T.eq \in BOOLEAN /\ DOMAIN T.keys = 0..T.length - 1
         /\ Present(T) = {i \in 0..T.length - 1 : T.keys[i] \in Key}
         /\ Present(T) \subseteq 0..T.length - 1
         /\ l \in Lds /\ Depends(T, l) /\ (~l.moved => Chains(T))
         /\ \A i \in Present(T) : T.keys[i] \in Key /\ T.values[i] \in Object
<1>1. /\ Sound(T, T.length) /\ T.length \in Nat \ {0} /\ T \in Tables(T.length)
      /\ T.length <= MaxLength /\ 2 * T.used <= T.length /\ OddCancels(T.length)
      /\ l \in Lds /\ Depends(T, l) /\ (~l.moved => Chains(T)) /\ Counts(T) /\ Sides(T)
  BY DEF GoodTable, Sound
<1>2. T.used = Cardinality(Used(T))
  BY <1>1 DEF Counts
<1> QED BY <1>1, <1>2, TableFacts DEF Sides

\* Three ways to make a table that is good again.
LEMMA AfterNewValue ==
  ASSUME HashOK, StatusOK, NEW T, NEW l, GoodTable(T, l), Alive(T, status), NEW k \in Key,
         NEW v \in Object, status[v] = "held", NEW b \in Present(T), Cmp(T.keys[b], k),
         NEW U, U = [T EXCEPT !.values[b] = v]
  PROVE  /\ GoodTable(U, l) /\ Same3(U, T) /\ Alive(U, status)
         /\ MapOf(U) = StoredIn(MapOf(T), k, v)
<1>0. PICK n : n = T.length
  OBVIOUS
<1>1. Sound(T, n)
  BY <1>0, GoodTableIs
<1>2. /\ Sound(U, n) /\ SameKind(U, T) /\ Present(U) = Present(T) /\ U.keys = T.keys
      /\ U.values = [T.values EXCEPT ![b] = v] /\ (Chains(T) => Chains(U))
  BY <1>1, NewValueKeeps
<1>3. T.length <= MaxLength /\ l \in Lds /\ Depends(T, l) /\ (~l.moved => Chains(T))
  BY GoodTableIs
<1>4. GoodTable(U, l)
  BY <1>0, <1>2, <1>3 DEF GoodTable, SameKind, Depends
<1>5. Alive(U, status)
  <2>1. DOMAIN T.values = DOMAIN T.keys
    BY GoodTableIs, TableFacts
  <2> QED BY <1>2, <2>1 DEF Alive
<1>6. MapOf(U) = StoredIn(MapOf(T), k, v)
  BY ONLY HashOK, <1>1, <1>2, k \in Key, b \in Present(T), Cmp(T.keys[b], k), NewValueMap
<1> QED BY <1>2, <1>4, <1>5, <1>6 DEF SameKind, Same3

LEMMA AfterPut ==
  ASSUME HashOK, StatusOK, NEW T, NEW l, GoodTable(T, l), Alive(T, status), NEW k \in Key,
         status[k] = "held", NEW v \in Object, status[v] = "held", T.eq => k \in l.deps,
         2 * (T.used + 1) <= T.length, NEW b, b = BucketsFind(T, k), T.keys[b] = Unused,
         Absentee(T, k), NEW U, U = Put(T, b, k, v)
  PROVE  /\ GoodTable(U, l) /\ Same3(U, T) /\ Alive(U, status)
         /\ MapOf(U) = StoredIn(MapOf(T), k, v)
<1>0. PICK n : n = T.length
  OBVIOUS
<1>1. Sound(T, n) /\ n \in Nat \ {0} /\ T \in Tables(n) /\ DOMAIN T.keys = 0..n - 1
  BY <1>0, GoodTableIs
<1>2. /\ Sound(U, n) /\ SameKind(U, T) /\ b \in 0..n - 1
      /\ Present(U) = Present(T) \cup {b} /\ U.keys[b] = k /\ U.values[b] = v
      /\ \A i \in Present(T) : U.keys[i] = T.keys[i] /\ U.values[i] = T.values[i]
      /\ Chains(T) => Chains(U)
  <2> DEFINE P == Put(T, b, k, v)
  <2>0. 2 * (T.used + 1) <= n /\ T.used \in Nat
    BY <1>0, GoodTableIs
  <2>1. Sound(T, n) /\ T.keys[b] = Unused
    BY <1>1
  <2>2. Put(T, b, k, v) = P
    OBVIOUS
  <2> HIDE DEF P
  <2>3. /\ Sound(P, n) /\ SameKind(P, T) /\ b \in 0..n - 1
        /\ Present(P) = Present(T) \cup {b} /\ P.keys[b] = k /\ P.values[b] = v
        /\ \A i \in Present(T) : P.keys[i] = T.keys[i] /\ P.values[i] = T.values[i]
        /\ Chains(T) => Chains(P)
    BY ONLY HashOK, <2>0, <2>1, <2>2, k \in Key, v \in Object, b = BucketsFind(T, k),
            Absentee(T, k), PutKeeps
  <2> QED BY <2>2, <2>3
<1>3. U.keys = [T.keys EXCEPT ![b] = k] /\ U.values = [T.values EXCEPT ![b] = v]
  BY <1>1, <1>2, PutIs
<1>4. T.length <= MaxLength /\ l \in Lds /\ Depends(T, l) /\ (~l.moved => Chains(T))
  BY GoodTableIs
<1>5. Depends(U, l)
  BY <1>2, <1>4 DEF Depends, SameKind
<1>6. GoodTable(U, l)
  BY <1>0, <1>2, <1>4, <1>5 DEF GoodTable, SameKind
<1>7. Alive(U, status)
  <2>1. DOMAIN T.values = 0..n - 1
    BY <1>1, TableFacts
  <2> QED BY <1>1, <1>2, <1>3, <2>1 DEF Alive
<1>8. MapOf(U) = StoredIn(MapOf(T), k, v)
  BY <1>1, <1>2, PutMap
<1> QED BY <1>2, <1>6, <1>7, <1>8 DEF SameKind, Same3

LEMMA AfterRemove ==
  ASSUME HashOK, NEW T, NEW l, GoodTable(T, l), Alive(T, status), NEW k \in Key,
         NEW b \in Present(T), Cmp(T.keys[b], k), NEW U, U = Remove(T, b)
  PROVE  /\ GoodTable(U, l) /\ Same3(U, T) /\ Alive(U, status)
         /\ MapOf(U) = [MapOf(T) EXCEPT ![class[k]] = Vacant]
<1>0. PICK n : n = T.length
  OBVIOUS
<1>1. /\ Sound(T, n) /\ n \in Nat \ {0} /\ T \in Tables(n) /\ DOMAIN T.keys = 0..n - 1
      /\ T.keys[b] \in Key
  BY <1>0, GoodTableIs
<1>2. Erased(T, U, n, {b}) /\ SameKind(U, T)
  BY <1>1, RemoveErases
<1>3. /\ Sound(U, n) /\ Present(U) = Present(T) \ {b} /\ (Chains(T) => Chains(U))
      /\ \A i \in Present(U) : U.keys[i] = T.keys[i] /\ U.values[i] = T.values[i]
  BY <1>1, <1>2, ErasureKeeps
<1>4. T.length <= MaxLength /\ l \in Lds /\ Depends(T, l) /\ (~l.moved => Chains(T))
  BY GoodTableIs
<1>5. Depends(U, l)
  BY <1>2, <1>3, <1>4 DEF Depends, SameKind
<1>6. GoodTable(U, l)
  BY <1>0, <1>2, <1>3, <1>4, <1>5 DEF GoodTable, SameKind
<1>7. Alive(U, status)
  <2>1. U \in Tables(n) /\ DOMAIN U.keys = 0..n - 1
    BY <1>1, <1>2, TableFacts DEF Erased
  <2>2. ASSUME NEW i \in 0..n - 1
        PROVE  /\ U.keys[i] \in Object => U.keys[i] = T.keys[i]
               /\ U.values[i] \in Object => U.values[i] = T.values[i]
    BY <1>2, Markers DEF Erased
  <2> QED BY <1>1, <2>1, <2>2 DEF Alive
<1>8. class[T.keys[b]] = class[k] /\ class[k] \in Key
  BY <1>1, CmpIs DEF HashOK
<1>9. MapOf(U) = [c \in Key |-> IF c \in {class[T.keys[i]] : i \in {b}} THEN Vacant
                                ELSE MapOf(T)[c]]
  <2> DEFINE G == {b}
  <2>1. G \in SUBSET Present(T) /\ Present(U) = Present(T) \ G
    BY <1>3
  <2> HIDE DEF G
  <2>2. MapOf(U) = [c \in Key |-> IF c \in {class[T.keys[i]] : i \in G} THEN Vacant
                                  ELSE MapOf(T)[c]]
    BY ONLY HashOK, <1>1, <1>3, <2>1, ErasedMap
  <2> QED BY <2>2 DEF G
<1>10. {class[T.keys[i]] : i \in {b}} = {class[k]}
  BY <1>8
<1>11. MapOf(U) = [c \in Key |-> IF c = class[k] THEN Vacant ELSE MapOf(T)[c]]
  BY <1>9, <1>10
<1>12. MapOf(T) = [c \in Key |-> MapOf(T)[c]]
  BY MapIsFunction
<1>13. MapOf(U) = [MapOf(T) EXCEPT ![class[k]] = Vacant]
  BY <1>8, <1>11, <1>12
<1> QED BY <1>2, <1>6, <1>7, <1>13 DEF SameKind, Same3

\* What a barrier hit splats when it misses slot b: values of a weak side, and none
\* that is held or is a key of the table.
Misses(T, b, dead) ==
  /\ dead \in SUBSET Object /\ (dead # {} => T.wv)
  /\ \A i \in DOMAIN T.keys : T.keys[i] \notin dead
  /\ \A o \in dead : status[o] # "held"
  /\ b \in DOMAIN T.values => T.values[b] \notin dead

\* Two tables of n slots with equal fields.
LEMMA SameTable ==
  ASSUME NEW n, NEW T \in Tables(n), NEW U \in Tables(n), U.eq = T.eq, U.wk = T.wk, U.wv = T.wv,
         U.keys = T.keys, U.values = T.values, U.used = T.used, U.deleted = T.deleted
  PROVE  U = T
<1>1. U.length = T.length
  BY DEF Tables
<1> QED BY <1>1 DEF Tables

\* A scan that splats nothing changes nothing.
LEMMA SplatNothing ==
  ASSUME HashOK, NEW n, NEW T, Sound(T, n)
  PROVE  Splat(T, {}) = T
<1> DEFINE none == {}
           U == Splat(T, none)
<1>1. T \in Tables(n) /\ n \in Nat \ {0} /\ DOMAIN T.keys = 0..n - 1 /\ T.deleted \in Int
  BY TableFacts DEF Sound
<1>2. none \in SUBSET Object /\ Splatted(T, none) = {}
  BY DEF Splatted
<1> HIDE DEF none
<1>3. Erased(T, U, n, {}) /\ SameKind(U, T)
  BY <1>2, SplatErases
<1> HIDE DEF U
<1>4. U \in Tables(n) /\ U.used = T.used /\ U.deleted = T.deleted + Cardinality({})
  BY <1>3 DEF Erased
<1>5. U.keys = T.keys /\ U.values = T.values
  BY <1>1, <1>3, <1>4 DEF Erased, Tables
<1>6. U.deleted = T.deleted
  BY <1>1, <1>4, FS_EmptySet
<1>7. U = T
  BY <1>1, <1>3, <1>4, <1>5, <1>6, SameTable DEF SameKind
<1> QED BY <1>7 DEF U, none

\* A hit that misses slot b leaves a good table, with what is in b.
LEMMA AfterHit ==
  ASSUME HashOK, NEW T, NEW l, GoodTable(T, l), Alive(T, status), NEW b, NEW dead,
         Misses(T, b, dead), NEW U, U = Splat(T, dead)
  PROVE  /\ GoodTable(U, l) /\ SameKind(U, T) /\ Alive(U, status) /\ U.used = T.used
         /\ Present(U) \subseteq Present(T) /\ (b \in Present(T) => b \in Present(U))
         /\ \A i \in Present(U) : U.keys[i] = T.keys[i] /\ U.values[i] = T.values[i]
         /\ \A i \in 0..T.length - 1 : U.keys[i] = Unused <=> T.keys[i] = Unused
<1>0. PICK n : n = T.length
  OBVIOUS
<1>1. /\ Sound(T, n) /\ n \in Nat \ {0} /\ T \in Tables(n) /\ DOMAIN T.keys = 0..n - 1
      /\ Present(T) \subseteq 0..n - 1 /\ T.length <= MaxLength
      /\ l \in Lds /\ Depends(T, l) /\ (~l.moved => Chains(T))
      /\ \A i \in Present(T) : T.keys[i] \in Key /\ T.values[i] \in Object
  BY <1>0, GoodTableIs
<1>2. DOMAIN T.values = 0..n - 1
  BY <1>1, TableFacts
<1>3. PICK G : G = Splatted(T, dead)
  OBVIOUS
<1>4. dead \in SUBSET Object
  BY DEF Misses
<1>5. G \in SUBSET Present(T) /\ Erased(T, U, n, G) /\ SameKind(U, T)
  BY <1>1, <1>3, <1>4, SplatErases
<1>6. /\ Sound(U, n) /\ Present(U) = Present(T) \ G
      /\ \A i \in Present(U) : U.keys[i] = T.keys[i] /\ U.values[i] = T.values[i]
      /\ Chains(T) => Chains(U)
  BY <1>1, <1>5, ErasureKeeps
<1>7. Depends(U, l)
  BY <1>1, <1>5, <1>6 DEF Depends, SameKind
<1>8. GoodTable(U, l)
  BY <1>0, <1>1, <1>5, <1>6, <1>7 DEF GoodTable, SameKind
<1>9. Alive(U, status)
  <2>1. U \in Tables(n) /\ DOMAIN U.keys = 0..n - 1
    BY <1>1, <1>5, TableFacts DEF Erased
  <2>2. ASSUME NEW i \in 0..n - 1
        PROVE  /\ U.keys[i] \in Object => U.keys[i] = T.keys[i]
               /\ U.values[i] \in Object => U.values[i] = T.values[i]
    BY <1>5, Markers DEF Erased
  <2> QED BY <1>1, <2>1, <2>2 DEF Alive
<1>10. b \in Present(T) => b \notin G
  BY <1>1, <1>2, <1>3 DEF Splatted, Misses
<1>11. \A i \in 0..n - 1 : U.keys[i] = Unused <=> T.keys[i] = Unused
  <2> SUFFICES ASSUME NEW i \in 0..n - 1 PROVE U.keys[i] = Unused <=> T.keys[i] = Unused
    OBVIOUS
  <2>1. CASE i \in G
    <3>1. U.keys[i] = Deleted /\ T.keys[i] \in Key
      BY <1>1, <1>5, <2>1 DEF Erased
    <3> QED BY <3>1, Markers
  <2>2. CASE i \notin G
    BY <1>5, <2>2 DEF Erased
  <2> QED BY <2>1, <2>2
<1>12. U.used = T.used
  BY <1>5 DEF Erased
<1> QED BY <1>0, <1>5, <1>6, <1>8, <1>9, <1>10, <1>11, <1>12

\* The search for an absent key ends where it ended before the hit.
LEMMA HitFindsSame ==
  ASSUME HashOK, NEW T, NEW l, GoodTable(T, l), NEW U, GoodTable(U, l), SameKind(U, T),
         NEW k \in Key, Absentee(T, k), Absentee(U, k),
         \A i \in 0..T.length - 1 : U.keys[i] = Unused <=> T.keys[i] = Unused
  PROVE  BucketsFind(U, k) = BucketsFind(T, k)
<1>0. PICK n : n = T.length
  OBVIOUS
<1>1. /\ n \in Nat \ {0} /\ T \in Tables(n) /\ OddCancels(n) /\ 2 * T.used <= n
      /\ T.used \in Nat /\ DOMAIN T.keys = 0..n - 1 /\ Sound(T, n)
      /\ Present(T) = {i \in 0..n - 1 : T.keys[i] \in Key}
  BY <1>0, GoodTableIs
<1>2. /\ U.length = n /\ U \in Tables(n) /\ DOMAIN U.keys = 0..n - 1
      /\ Present(U) = {i \in 0..n - 1 : U.keys[i] \in Key}
  BY <1>0, GoodTableIs DEF SameKind
<1>3. \A j : Slot(U, k, j) = Slot(T, k, j)
  BY <1>0, <1>2 DEF Slot
<1>4. \A j \in 0..n - 1 : Slot(T, k, j) \in 0..n - 1
  BY <1>0, <1>1, SlotIs
<1>5. ASSUME NEW i \in 0..n - 1 PROVE ~Cmp(T.keys[i], k) /\ ~Cmp(U.keys[i], k)
  BY <1>1, <1>2, CmpIs DEF Absentee
<1> DEFINE A == {j \in 0..n - 1 : T.keys[Slot(T, k, j)] = Unused \/ Cmp(T.keys[Slot(T, k, j)], k)}
           B == {j \in 0..n - 1 : U.keys[Slot(U, k, j)] = Unused \/ Cmp(U.keys[Slot(U, k, j)], k)}
<1>6. A = B
  BY <1>0, <1>3, <1>4, <1>5
<1>7. A # {}
  <2>1. T.used = Cardinality(Used(T))
    BY <1>1 DEF Sound, Counts
  <2>2. Cardinality(Used(T)) < n
    BY <1>1, <2>1
  <2> QED BY <1>1, <2>2, UnusedIsMet
<1>8. BucketsFind(T, k) = Slot(T, k, First(A))
  BY <1>1, <1>7 DEF BucketsFind
<1>9. BucketsFind(U, k) = Slot(U, k, First(B))
  BY <1>2, <1>6, <1>7 DEF BucketsFind
<1> HIDE DEF A, B
<1> QED BY <1>3, <1>6, <1>8, <1>9

\* Functions with equal values are equal.
LEMMA SameFunction ==
  ASSUME NEW A, NEW B, NEW f \in [A -> B], NEW g \in [A -> B], \A i \in A : f[i] = g[i]
  PROVE  f = g
OBVIOUS

\* A hit between the key and the value of a new entry comes to a hit before both.
LEMMA HitPut ==
  ASSUME HashOK, NEW T, NEW l, GoodTable(T, l), NEW k \in Key, NEW v \in Object,
         NEW b \in 0..T.length - 1, T.keys[b] = Unused, NEW dead, Misses(T, b, dead), k \notin dead
  PROVE  [Splat(PutKey(T, b, k), dead) EXCEPT !.values[b] = v] = Put(Splat(T, dead), b, k, v)
<1> DEFINE P == PutKey(T, b, k)
           S == Splat(P, dead)
           W == [S EXCEPT !.values[b] = v]
           U == Splat(T, dead)
<1>0. PICK n : n = T.length
  OBVIOUS
<1>1. /\ Sound(T, n) /\ n \in Nat \ {0} /\ T \in Tables(n) /\ DOMAIN T.keys = 0..n - 1
      /\ b \in 0..n - 1 /\ T.used \in Int /\ T.deleted \in Int
  BY <1>0, GoodTableIs
<1>2. /\ DOMAIN T.values = 0..n - 1 /\ Present(T) = {i \in 0..n - 1 : T.keys[i] \in Key}
      /\ T.eq \in BOOLEAN /\ T.wk \in BOOLEAN /\ T.wv \in BOOLEAN
  BY <1>1, TableFacts
<1>3. /\ P \in Tables(n) /\ P.keys = [T.keys EXCEPT ![b] = k] /\ P.values = T.values
      /\ P.used = T.used + 1 /\ P.deleted = T.deleted /\ SameKind(P, T)
  <2>1. P = [T EXCEPT !.keys[b] = k, !.used = @ + 1]
    BY DEF PutKey
  <2>2. [T.keys EXCEPT ![b] = k] \in [0..n - 1 -> SlotKey] /\ T.used + 1 \in Int
    BY <1>1 DEF Tables, SlotKey
  <2> HIDE DEF P
  <2> QED BY <1>1, <2>1, <2>2 DEF Tables, SameKind
<1>4. PICK G : G = Splatted(T, dead)
  OBVIOUS
<1>5. dead \in SUBSET Object
  BY DEF Misses
<1>6. G \in SUBSET Present(T) /\ Erased(T, U, n, G) /\ SameKind(U, T)
  BY <1>1, <1>4, <1>5, SplatErases
<1>7. Splatted(P, dead) = G
  <2> HIDE DEF P
  <2>1. P.wk = T.wk /\ P.wv = T.wv /\ DOMAIN P.keys = 0..n - 1
    BY <1>1, <1>3 DEF SameKind
  <2>2. \A i \in 0..n - 1 : T.keys[i] \notin dead /\ P.keys[i] \notin dead
    BY <1>1, <1>3 DEF Misses
  <2> QED BY <1>1, <1>3, <1>4, <2>1, <2>2 DEF Splatted
<1> HIDE DEF P
<1>8. Cardinality(G) \in Nat
  BY <1>1, <1>2, <1>6, TableFacts, FS_Subset, FS_CardinalityType
<1>9. b \notin G
  BY <1>2, <1>6, Markers
<1>10. /\ S.keys = [i \in 0..n - 1 |-> IF i \in G THEN Deleted ELSE P.keys[i]]
       /\ S.values = [i \in 0..n - 1 |-> IF i \in G THEN Deleted ELSE P.values[i]]
       /\ S.used = P.used /\ S.deleted = P.deleted + Cardinality(G) /\ SameKind(S, P)
  BY <1>2, <1>3, <1>7 DEF Tables, SameKind, Splat, Splatted
<1>11. S \in Tables(n)
  <2>1. S = [P EXCEPT !.keys = S.keys, !.values = S.values, !.deleted = S.deleted]
    BY <1>3 DEF Tables, Splat
  <2>2. S.deleted \in Int
    BY <1>1, <1>3, <1>8, <1>10
  <2>3. S.keys \in [0..n - 1 -> SlotKey] /\ S.values \in [0..n - 1 -> SlotValue]
    BY <1>1, <1>3, <1>10 DEF Tables, SlotKey, SlotValue
  <2> HIDE DEF S
  <2> QED BY <1>3, <2>1, <2>2, <2>3 DEF Tables
<1> HIDE DEF S
<1>12. /\ W.keys = S.keys /\ W.values = [S.values EXCEPT ![b] = v]
       /\ W.used = S.used /\ W.deleted = S.deleted /\ SameKind(W, S)
  BY <1>11 DEF Tables, SameKind
<1>13. W \in Tables(n)
  <2>1. [S.values EXCEPT ![b] = v] \in [0..n - 1 -> SlotValue]
    BY <1>11 DEF Tables, SlotValue
  <2> QED BY <1>11, <2>1 DEF Tables
<1> HIDE DEF W
<1>14. /\ U \in Tables(n) /\ U.keys[b] = Unused /\ U.used = T.used
       /\ U.deleted = T.deleted + Cardinality(G)
       /\ \A i \in 0..n - 1 : /\ U.keys[i] = IF i \in G THEN Deleted ELSE T.keys[i]
                              /\ U.values[i] = IF i \in G THEN Deleted ELSE T.values[i]
  <2>1. /\ U.keys = [i \in 0..n - 1 |-> IF i \in G THEN Deleted ELSE T.keys[i]]
        /\ U.values = [i \in 0..n - 1 |-> IF i \in G THEN Deleted ELSE T.values[i]]
    BY <1>1, <1>2, <1>4 DEF Tables, Splat, Splatted
  <2> HIDE DEF U
  <2> QED BY <1>1, <1>6, <1>9, <2>1 DEF Erased
<1> HIDE DEF U
<1>15. PICK Q : Q = Put(U, b, k, v)
  OBVIOUS
<1>16. /\ Q \in Tables(n) /\ SameKind(Q, U) /\ Q.keys = [U.keys EXCEPT ![b] = k]
       /\ Q.values = [U.values EXCEPT ![b] = v]
       /\ Q.used = U.used + 1 /\ Q.deleted = U.deleted
  BY <1>1, <1>14, <1>15, PutIs
<1>17. DOMAIN U.keys = 0..n - 1 /\ DOMAIN U.values = 0..n - 1
  BY <1>1, <1>14, TableFacts
<1>18. Q.keys = W.keys
  <2>1. \A i \in 0..n - 1 : /\ i = b => Q.keys[i] = k /\ W.keys[i] = k
                            /\ i # b => /\ Q.keys[i] = U.keys[i]
                                        /\ W.keys[i] = IF i \in G THEN Deleted ELSE T.keys[i]
    BY <1>1, <1>3, <1>9, <1>10, <1>12, <1>16, <1>17
  <2>2. \A i \in 0..n - 1 : Q.keys[i] = W.keys[i]
    BY <1>14, <2>1
  <2>3. PICK f, g, D : f = Q.keys /\ g = W.keys /\ D = 0..n - 1
    BY Zenon
  <2>4. f \in [D -> SlotKey] /\ g \in [D -> SlotKey]
    BY <1>13, <1>16, <2>3 DEF Tables
  <2>5. \A i \in D : f[i] = g[i]
    BY <2>2, <2>3
  <2>6. f = g
    BY ONLY <2>4, <2>5, SameFunction
  <2> QED BY <2>3, <2>6
<1>19. Q.values = W.values
  <2>1. \A i \in 0..n - 1 : /\ i = b => Q.values[i] = v /\ W.values[i] = v
                            /\ i # b => /\ Q.values[i] = U.values[i]
                                        /\ W.values[i] = IF i \in G THEN Deleted ELSE T.values[i]
    BY <1>1, <1>3, <1>9, <1>10, <1>12, <1>16, <1>17
  <2>2. \A i \in 0..n - 1 : Q.values[i] = W.values[i]
    BY <1>14, <2>1
  <2>3. PICK f, g, D : f = Q.values /\ g = W.values /\ D = 0..n - 1
    BY Zenon
  <2>4. f \in [D -> SlotValue] /\ g \in [D -> SlotValue]
    BY <1>13, <1>16, <2>3 DEF Tables
  <2>5. \A i \in D : f[i] = g[i]
    BY <2>2, <2>3
  <2>6. f = g
    BY ONLY <2>4, <2>5, SameFunction
  <2> QED BY <2>3, <2>6
<1>20. Q.used = W.used /\ Q.deleted = W.deleted
  BY <1>3, <1>10, <1>12, <1>14, <1>16
<1>21. Q.eq = W.eq /\ Q.wk = W.wk /\ Q.wv = W.wv
  BY <1>3, <1>6, <1>10, <1>12, <1>16 DEF SameKind
<1>22. W = Q
  BY <1>13, <1>16, <1>18, <1>19, <1>20, <1>21, SameTable
<1> QED BY <1>15, <1>22 DEF W, S, P, U

\* A table on which a call for k can work.
Ready(T, l, k) ==
  /\ HashOK /\ StatusOK /\ GoodTable(T, l) /\ SameHash(T.eq) /\ Alive(T, status)
  /\ k \in Key /\ status[k] = "held"

\* A call that stores v for k.
Storing(T, op, k, v) ==
  /\ op \in {"set", "internSet"} /\ v \in Object /\ status[v] = "held"
  /\ op = "internSet" => v = k /\ Absentee(T, k)

LEMMA StoreIsDone ==
  ASSUME NEW T, NEW l, NEW k, Ready(T, l, k), NEW op, NEW v, Storing(T, op, k, v),
         NEW U, MapOf(U) = StoredIn(MapOf(T), k, v)
  PROVE  /\ Did(MapOf(T), MapOf(U), op, k, v, Result(op, k))
         /\ Result(op, k) \in Object \cup {Null}
<1>1. k \in Key /\ HashOK /\ Sound(T, T.length)
  BY GoodTableIs DEF Ready
<1>2. Absentee(T, k) => MapOf(T)[class[k]] = Vacant
  BY <1>1, MapIs
<1>3. CASE op = "set"
  <2>1. Result(op, k) = Null
    BY <1>3 DEF Result
  <2> QED BY <1>3, <2>1 DEF Did, Storing
<1>4. CASE op = "internSet"
  <2>1. Result(op, k) = k /\ k \in Object /\ v = k /\ MapOf(T)[class[k]] = Vacant
    BY <1>1, <1>2, <1>4, Markers DEF Result, Storing
  <2> QED BY <1>4, <2>1 DEF Did
<1> QED BY <1>3, <1>4 DEF Storing

LEMMA RehashWaits ==
  ASSUME NEW T, NEW l, NEW k, Ready(T, l, k), NEW op, NEW v, NEW length, NEW for,
         op \in {"ref", "delete", "internRef"} \/ Storing(T, op, k, v),
         \/ for = Null /\ op \in {"set", "internSet"} /\ length = 2 * T.length
         \/ for = k /\ length = T.length,
         Rehash(T, l, op, k, v, length, for)
  PROVE  Waits(T, MapOf(T), k)
<1> DEFINE c == [op |-> op, key |-> k, value |-> v, length |-> length, for |-> for,
                 again |-> for = Null]
<1>1. T.length \in Nat \ {0}
  BY GoodTableIs DEF Ready
<1>2. length \in Nat /\ length <= MaxLength
  BY <1>1 DEF Rehash
<1>3. /\ c.op = op /\ c.key = k /\ c.value = v /\ c.length = length /\ c.for = for
  OBVIOUS
<1> HIDE DEF c
<1>4. /\ op \in {"ref", "delete", "internRef", "set", "internSet"}
      /\ op \in {"set", "internSet"} => v \in Object /\ status[v] = "held"
      /\ op = "internSet" => v = k /\ Absentee(T, k)
  BY DEF Storing
<1>5. CallOK(T, c, status)
  BY <1>2, <1>3, <1>4 DEF CallOK, Ready
<1>6. GoodTable(T, l) /\ Same3(T, T) /\ Alive(T, status) /\ MapOf(T) = MapOf(T)
  BY DEF Ready, Same3
<1> QED BY <1>5, <1>6 DEF Waits, c

\* What a call relies on survives a hit that misses its slot.
LEMMA HitReady ==
  ASSUME NEW T, NEW l, NEW k, Ready(T, l, k), NEW b, NEW dead, Misses(T, b, dead),
         NEW U, U = Splat(T, dead)
  PROVE  /\ Ready(U, l, k) /\ SameKind(U, T) /\ U.used = T.used /\ k \notin dead
         /\ Absentee(T, k) => Absentee(U, k)
         /\ \A op, v : Storing(T, op, k, v) => Storing(U, op, k, v)
<1>1. /\ GoodTable(U, l) /\ SameKind(U, T) /\ Alive(U, status) /\ U.used = T.used
      /\ Present(U) \subseteq Present(T)
      /\ \A i \in Present(U) : U.keys[i] = T.keys[i]
  BY AfterHit DEF Ready
<1>2. Ready(U, l, k)
  BY <1>1 DEF Ready, SameKind
<1>3. k \notin dead
  BY DEF Ready, Misses
<1>4. Absentee(T, k) => Absentee(U, k)
  BY <1>1 DEF Absentee
<1> QED BY <1>1, <1>2, <1>3, <1>4 DEF Storing

LEMMA TrySetGoesOn ==
  ASSUME NEW T, NEW l, NEW k, Ready(T, l, k), NEW op, NEW v, Storing(T, op, k, v),
         2 * (T.used + 1) <= T.length, NEW again, NEW dead, Misses(T, BucketsFind(T, k), dead),
         TrySet(T, dead, l, op, k, v, again), NEW S, S = Splat(T, dead)
  PROVE  GoesOn(S, MapOf(S), k)
<1>0. PICK l2 : l2 = LdAdd(T, l, k)
  OBVIOUS
<1>1. /\ HashOK /\ StatusOK /\ GoodTable(T, l) /\ SameHash(T.eq) /\ Alive(T, status)
      /\ k \in Key /\ status[k] = "held"
  BY DEF Ready
<1>2. GoodTable(T, l2) /\ (T.eq => k \in l2.deps) /\ Ready(T, l2, k)
  <2>1. GoodTable(T, l2) /\ (T.eq => k \in l2.deps)
    BY <1>0, <1>1, DependsMore
  <2> QED BY <1>1, <2>1 DEF Ready
<1>3. PICK b : b = BucketsFind(T, k)
  OBVIOUS
<1>4. PICK how \in Lookups(T, l2, k) :
        \/ /\ how = "found"
           /\ Leave([Splat(T, dead) EXCEPT !.values[b] = v], l2, op, k, Result(op, k))
        \/ /\ how = "free" /\ (T.keys[b] = Unused \/ T.deleted > 0)
           /\ Leave([Splat(PutKey(T, b, k), dead) EXCEPT !.values[b] = v], l2, op, k,
                    Result(op, k))
        \/ how = "free" /\ T.keys[b] # Unused
        \/ how = "stale" /\ dead = {} /\ Rehash(T, l2, op, k, v, T.length, k)
        \/ how = "missing"
  BY <1>0, <1>3 DEF TrySet
<1>5. /\ how \in {"found", "free", "stale"}
      /\ how = "found" => b \in Present(T) /\ Cmp(T.keys[b], k)
      /\ how = "free" => T.keys[b] = Unused /\ Absentee(T, k)
  BY <1>1, <1>2, <1>3, LookupIs
<1>6. v \in Object /\ status[v] = "held"
  BY DEF Storing
<1>7. /\ Ready(S, l2, k) /\ SameKind(S, T) /\ S.used = T.used /\ k \notin dead
      /\ Absentee(T, k) => Absentee(S, k)
      /\ Storing(S, op, k, v)
  BY <1>2, <1>3, HitReady
<1>8. /\ b \in Present(T) => b \in Present(S)
      /\ \A i \in Present(S) : S.keys[i] = T.keys[i]
      /\ \A i \in 0..T.length - 1 : S.keys[i] = Unused <=> T.keys[i] = Unused
  BY <1>1, <1>2, <1>3, AfterHit
<1>9. /\ GoodTable(S, l2) /\ Alive(S, status) /\ S.eq = T.eq /\ S.length = T.length
  BY <1>7 DEF Ready, SameKind
<1>10. CASE how = "found"
  <2>1. PICK U : U = [S EXCEPT !.values[b] = v]
    OBVIOUS
  <2>2. b \in Present(S) /\ Cmp(S.keys[b], k)
    BY <1>5, <1>8, <1>10
  <2>3. /\ GoodTable(U, l2) /\ Same3(U, S) /\ Alive(U, status)
        /\ MapOf(U) = StoredIn(MapOf(S), k, v)
    BY <1>1, <1>6, <1>9, <2>1, <2>2, AfterNewValue
  <2>4. /\ Did(MapOf(S), MapOf(U), op, k, v, Result(op, k))
        /\ Result(op, k) \in Object \cup {Null}
    BY <1>7, <2>3, StoreIsDone
  <2>5. Leave(U, l2, op, k, Result(op, k))
    BY <1>4, <1>10, <2>1
  <2> QED BY <2>3, <2>4, <2>5 DEF Returns, GoesOn
<1>11. CASE how = "free"
  <2>1. T.keys[b] = Unused /\ Absentee(T, k) /\ Absentee(S, k)
    BY <1>5, <1>7, <1>11
  <2>2. b \in 0..T.length - 1
    <3>1. /\ T.length \in Nat \ {0} /\ T \in Tables(T.length) /\ OddCancels(T.length)
          /\ 2 * T.used <= T.length /\ T.used \in Nat /\ Sound(T, T.length)
      BY <1>1, GoodTableIs
    <3>2. Cardinality(Used(T)) < T.length
      BY <3>1 DEF Sound, Counts
    <3> QED BY <1>1, <1>3, <3>1, <3>2, SearchEnds
  <2>3. b = BucketsFind(S, k) /\ S.keys[b] = Unused
    BY <1>1, <1>2, <1>3, <1>7, <1>8, <1>9, <2>1, <2>2, HitFindsSame
  <2>4. PICK U : U = Put(S, b, k, v)
    OBVIOUS
  <2>5. U = [Splat(PutKey(T, b, k), dead) EXCEPT !.values[b] = v]
    BY <1>1, <1>3, <1>6, <1>7, <2>1, <2>2, <2>4, HitPut
  <2>6. /\ GoodTable(U, l2) /\ Same3(U, S) /\ Alive(U, status)
        /\ MapOf(U) = StoredIn(MapOf(S), k, v)
    <3>1. 2 * (S.used + 1) <= S.length /\ (S.eq => k \in l2.deps)
      BY <1>2, <1>7, <1>9
    <3> QED BY <1>1, <1>6, <1>9, <2>1, <2>3, <2>4, <3>1, AfterPut
  <2>7. /\ Did(MapOf(S), MapOf(U), op, k, v, Result(op, k))
        /\ Result(op, k) \in Object \cup {Null}
    BY <1>7, <2>6, StoreIsDone
  <2>8. Leave(U, l2, op, k, Result(op, k))
    BY <1>4, <1>11, <2>1, <2>5
  <2> QED BY <2>6, <2>7, <2>8 DEF Returns, GoesOn
<1>12. CASE how = "stale"
  <2>1. Rehash(T, l2, op, k, v, T.length, k) /\ dead = {}
    BY <1>4, <1>12
  <2>2. S = T
    BY <1>1, <2>1, SplatNothing, GoodTableIs
  <2>3. Waits(T, MapOf(T), k)
    BY <1>2, <2>1, RehashWaits
  <2> QED BY <2>2, <2>3 DEF GoesOn
<1> QED BY <1>5, <1>10, <1>11, <1>12

LEMMA SetInGoesOn ==
  ASSUME NEW T, NEW l, NEW k, Ready(T, l, k), NEW op, NEW v, Storing(T, op, k, v),
         NEW dead, Misses(T, BucketsFind(T, k), dead), SetIn(T, dead, l, op, k, v),
         NEW S, S = Splat(T, dead)
  PROVE  GoesOn(S, MapOf(S), k)
<1>1. CASE Full(T)
  <2>1. /\ Rehash(T, l, op, k, v, 2 * T.length, Null) /\ op \in {"set", "internSet"}
        /\ dead = {}
    BY <1>1 DEF SetIn, Storing
  <2>2. Waits(T, MapOf(T), k)
    BY <2>1, RehashWaits
  <2>3. S = T
    BY <2>1, SplatNothing, GoodTableIs DEF Ready
  <2> QED BY <2>2, <2>3 DEF GoesOn
<1>2. CASE ~Full(T)
  <2>1. T.used \in Nat /\ T.length \in Nat
    BY GoodTableIs DEF Ready
  <2>2. 2 * (T.used + 1) <= T.length
    BY <1>2, <2>1 DEF Full, Tagged
  <2>3. TrySet(T, dead, l, op, k, v, FALSE)
    BY <1>2 DEF SetIn
  <2> QED BY <2>2, <2>3, TrySetGoesOn
<1> QED BY <1>1, <1>2

\* A call that has found the slot of its key.
LEMMA AtGoesOn ==
  ASSUME NEW T, NEW l, NEW k, Ready(T, l, k), NEW op, NEW b \in Present(T), Cmp(T.keys[b], k),
         At(T, l, op, k, b)
  PROVE  GoesOn(T, MapOf(T), k)
<1>1. /\ HashOK /\ StatusOK /\ GoodTable(T, l) /\ SameHash(T.eq) /\ Alive(T, status)
      /\ k \in Key /\ status[k] = "held" /\ Same3(T, T)
  BY DEF Ready, Same3
<1>2. Sound(T, T.length) /\ T.keys[b] \in Key /\ T.values[b] \in Object /\ T.values[b] # Null
  BY <1>1, GoodTableIs, Markers
<1>3. class[T.keys[b]] = class[k]
  BY <1>1, <1>2, CmpIs
<1>4. /\ MapOf(T)[class[k]] = [key |-> T.keys[b], value |-> T.values[b]]
      /\ MapOf(T)[class[k]] # Vacant
  BY <1>1, <1>2, <1>3, MapIs
<1>5. MapOf(T)[class[k]].value = T.values[b]
  BY <1>4
<1>6. CASE op \in {"ref", "internRef"} /\ Leave(T, l, op, k, T.values[b])
  <2>1. Did(MapOf(T), MapOf(T), op, k, Null, T.values[b])
    BY <1>4, <1>5, <1>6 DEF Did
  <2> QED BY <1>1, <1>2, <1>6, <2>1 DEF Returns, GoesOn
<1>7. CASE op = "delete" /\ Leave(Remove(T, b), l, op, k, Null)
  <2>1. PICK U : U = Remove(T, b)
    OBVIOUS
  <2>2. /\ GoodTable(U, l) /\ Same3(U, T) /\ Alive(U, status)
        /\ MapOf(U) = [MapOf(T) EXCEPT ![class[k]] = Vacant]
    BY <1>1, <2>1, AfterRemove
  <2>3. Did(MapOf(T), MapOf(U), op, k, Null, Null)
    BY <1>7, <2>2 DEF Did
  <2>4. Leave(U, l, op, k, Null)
    BY <1>7, <2>1
  <2> QED BY <2>2, <2>3, <2>4 DEF Returns, GoesOn
<1> QED BY <1>2, <1>6, <1>7 DEF At

\* A call that knows that its key is not in the table.
LEMMA AbsentGoesOn ==
  ASSUME NEW T, NEW l, NEW k, Ready(T, l, k), NEW op, Absentee(T, k),
         NEW dead, Misses(T, BucketsFind(T, k), dead), Absent(T, dead, l, op, k),
         NEW S, S = Splat(T, dead)
  PROVE  GoesOn(S, MapOf(S), k)
<1>1. /\ HashOK /\ StatusOK /\ GoodTable(T, l) /\ SameHash(T.eq) /\ Alive(T, status)
      /\ k \in Key /\ status[k] = "held" /\ Same3(T, T)
  BY DEF Ready, Same3
<1>2. Sound(T, T.length) /\ class[k] \in Key
  BY <1>1, GoodTableIs DEF HashOK
<1>3. MapOf(T)[class[k]] = Vacant
  BY <1>1, <1>2, MapIs
<1>4. CASE op \in {"ref", "delete"} /\ dead = {} /\ Leave(T, l, op, k, Null)
  <2>1. Vacant.value = Null
    BY DEF Vacant
  <2>2. MapOf(T) = [MapOf(T) EXCEPT ![class[k]] = Vacant]
    <3>1. MapOf(T) = [c \in Key |-> MapOf(T)[c]]
      BY MapIsFunction
    <3> QED BY <1>2, <1>3, <3>1
  <2>3. Did(MapOf(T), MapOf(T), op, k, Null, Null)
    BY <1>3, <1>4, <2>1, <2>2 DEF Did
  <2>4. S = T
    BY <1>1, <1>2, <1>4, SplatNothing
  <2>5. GoesOn(T, MapOf(T), k)
    BY <1>1, <1>4, <2>3 DEF Returns, GoesOn
  <2> QED BY <2>4, <2>5
<1>5. CASE op = "internRef" /\ SetIn(T, dead, l, "internSet", k, k)
  <2>1. Storing(T, "internSet", k, k)
    BY <1>1, Markers DEF Storing
  <2> QED BY <1>5, <2>1, SetInGoesOn
<1> QED BY <1>4, <1>5 DEF Absent

LEMMA SearchGoesOn ==
  ASSUME NEW k, NEW op, op \in {"ref", "delete", "internRef"}, Ready(tbl, ld, k),
         NEW dead, Misses(tbl, BucketsFind(tbl, k), dead), Search(op, k, dead),
         NEW S, S = Splat(tbl, dead)
  PROVE  GoesOn(S, MapOf(S), k)
<1>1. PICK b : b = BucketsFind(tbl, k)
  OBVIOUS
<1>2. PICK how \in Lookups(tbl, ld, k) :
        \/ how = "found" /\ At(S, ld, op, k, b)
        \/ how \in {"free", "missing"} /\ Absent(tbl, dead, ld, op, k)
        \/ how = "stale" /\ dead = {} /\ Rehash(tbl, ld, op, k, Null, tbl.length, k)
  BY <1>1 DEF Search
<1>3. /\ how \in {"found", "free", "stale"}
      /\ how = "found" => b \in Present(tbl) /\ Cmp(tbl.keys[b], k)
      /\ how = "free" => Absentee(tbl, k)
  BY <1>1, LookupIs DEF Ready
<1>4. CASE how = "found"
  <2>1. Ready(S, ld, k)
    BY <1>1, HitReady
  <2>2. b \in Present(S) /\ S.keys[b] = tbl.keys[b]
    BY <1>1, <1>3, <1>4, AfterHit DEF Ready
  <2> QED BY <1>2, <1>3, <1>4, <2>1, <2>2, AtGoesOn
<1>5. CASE how = "free"
  BY <1>2, <1>3, <1>5, AbsentGoesOn
<1>6. CASE how = "stale"
  <2>1. Waits(tbl, MapOf(tbl), k)
    BY <1>2, <1>6, RehashWaits
  <2>2. S = tbl
    BY <1>2, <1>6, SplatNothing, GoodTableIs DEF Ready
  <2> QED BY <2>1, <2>2 DEF GoesOn
<1> QED BY <1>3, <1>4, <1>5, <1>6

\* New buckets with the old entries serve as well as the old ones.
LEMMA GoesOnFrom ==
  ASSUME NEW T, NEW U, NEW k, Same3(U, T), MapOf(U) = MapOf(T), GoesOn(U, MapOf(U), k)
  PROVE  GoesOn(T, MapOf(T), k)
<1>1. \A W : Same3(W, U) => Same3(W, T)
  BY DEF Same3
<1>2. CASE Returns(U, MapOf(U), k)
  <2>1. PICK W, l, op, v, r :
          /\ Leave(W, l, op, k, r) /\ GoodTable(W, l) /\ Same3(W, U) /\ Alive(W, status)
          /\ Did(MapOf(U), MapOf(W), op, k, v, r) /\ r \in Object \cup {Null}
    BY <1>2 DEF Returns
  <2> QED BY <1>1, <2>1 DEF Returns, GoesOn
<1>3. CASE Waits(U, MapOf(U), k)
  <2>1. PICK W, l, op, v, length, for :
          /\ Rehash(W, l, op, k, v, length, for) /\ GoodTable(W, l) /\ Same3(W, U)
          /\ Alive(W, status) /\ MapOf(W) = MapOf(U)
          /\ CallOK(W, [op |-> op, key |-> k, value |-> v, length |-> length, for |-> for,
                        again |-> for = Null], status)
    BY <1>3 DEF Waits
  <2> QED BY <1>1, <2>1 DEF Waits, GoesOn
<1> QED BY <1>2, <1>3 DEF GoesOn

\* What a rehash makes of a good table.
LEMMA AfterRehash ==
  ASSUME HashOK, StatusOK, NEW T, NEW l, GoodTable(T, l), Alive(T, status),
         NEW m \in Nat \ {0}, m <= MaxLength, m = T.length \/ m = 2 * T.length,
         NEW key \in Key \cup {Null}, NEW r, r = Rehashed(T, m, key)
  PROVE  /\ r.bad = "none" /\ GoodTable(r.new, r.ld) /\ Same3(r.new, T) /\ Alive(r.new, status)
         /\ MapOf(r.new) = MapOf(T) /\ r.new.length = m /\ FoundAt(r.new, r.at, key)
         /\ m = 2 * T.length => 2 * (r.new.used + 1) <= m
<1>0. PICK n : n = T.length
  OBVIOUS
<1>1. Sound(T, n) /\ n \in Nat \ {0} /\ OddCancels(n)
  BY <1>0, GoodTableIs
<1>2. OddCancels(m) /\ n <= m
  BY <1>0, <1>1, DoublingCancels
<1>3. /\ r.bad = "none" /\ Sound(r.new, m) /\ Chains(r.new)
      /\ r.new.eq = T.eq /\ r.new.wk = T.wk /\ r.new.wv = T.wv
      /\ r.new.used = T.used - T.deleted /\ r.new.used \in Nat /\ 2 * r.new.used <= n
      /\ HoldsOf(r.new, T, Present(T)) /\ FoundAt(r.new, r.at, key)
      /\ r.ld \in Lds /\ ~r.ld.moved /\ ~r.ld.epoch /\ Depends(r.new, r.ld)
  BY <1>1, <1>2, RehashKeeps
<1>4. PICK U : U = r.new
  OBVIOUS
<1>5. /\ U \in Tables(m) /\ U.length = m /\ DOMAIN U.keys = 0..m - 1 /\ Sides(U)
      /\ Present(U) = {i \in 0..m - 1 : U.keys[i] \in Key}
      /\ \A i \in 0..m - 1 : U.keys[i] \in Key \/ U.keys[i] = Unused \/ U.keys[i] = Deleted
  BY <1>3, <1>4, TableFacts DEF Sound
<1>6. GoodTable(U, r.ld)
  BY <1>3, <1>4, <1>5 DEF GoodTable
<1>7. Alive(U, status)
  <2> SUFFICES ASSUME NEW i \in 0..m - 1
               PROVE  /\ U.keys[i] \in Object => status[U.keys[i]] # "none"
                      /\ U.values[i] \in Object => status[U.values[i]] # "none"
    BY <1>5 DEF Alive
  <2>1. CASE i \in Present(U)
    <3>1. PICK y \in Present(T) : T.keys[y] = U.keys[i] /\ T.values[y] = U.values[i]
      BY <1>3, <1>4, <2>1 DEF HoldsOf
    <3>2. y \in DOMAIN T.keys
      BY GoodTableIs
    <3> QED BY <3>1, <3>2 DEF Alive
  <2>2. CASE i \notin Present(U)
    <3>1. U.keys[i] \notin Key
      BY <1>5, <2>2
    <3> QED BY <1>5, <3>1, Markers DEF Sides
  <2> QED BY <2>1, <2>2
<1>8. MapOf(U) = MapOf(T)
  BY <1>1, <1>3, <1>4, SameMap
<1>9. m = 2 * T.length => 2 * (r.new.used + 1) <= m
  <2>1. PICK u \in Nat : u = r.new.used
    BY <1>3
  <2>2. 2 * u <= n
    BY <1>3, <2>1
  <2>3. m = 2 * n => 2 * (u + 1) <= m
    BY <1>1, <2>2
  <2> QED BY <1>0, <2>1, <2>3
<1> QED BY <1>3, <1>4, <1>5, <1>6, <1>7, <1>8, <1>9 DEF Same3

\* A hit that races with no call misses the slot that the call touches.
LEMMA DyingMisses ==
  ASSUME NEW b, NEW dead \in SUBSET Dying(tbl), Touch(b, dead), ~raced'
  PROVE  Misses(tbl, b, dead) /\ dead \in SUBSET Collectable
<1>1. \A o \in dead : /\ o \in Object /\ tbl.wv /\ status[o] = "loose"
                      /\ \A i \in DOMAIN tbl.keys : tbl.keys[i] # o
  BY DEF Dying
<1>2. b \in DOMAIN tbl.values => tbl.values[b] \notin dead
  BY DEF Touch
<1>3. \A o \in dead : status[o] # "held"
  BY <1>1
<1>4. dead # {} => tbl.wv
  BY <1>1
<1>5. dead \in SUBSET Object /\ \A i \in DOMAIN tbl.keys : tbl.keys[i] \notin dead
  BY <1>1
<1>6. dead \in SUBSET Collectable
  BY <1>1 DEF Collectable, InTable
<1> QED BY <1>2, <1>3, <1>4, <1>5, <1>6 DEF Misses

\* A rehash whose first key is not splatted reads the table after the hit.
LEMMA AsReadIs ==
  ASSUME HashOK, NEW T, NEW l, GoodTable(T, l), Alive(T, status), NEW dead,
         Misses(T, FirstCopied(T), dead), FirstCopied(T) = NotFound => dead = {}
  PROVE  AsRead(T, dead) = Splat(T, dead)
<1>0. PICK n : n = T.length
  OBVIOUS
<1>1. /\ n \in Nat \ {0} /\ Sound(T, n) /\ T \in Tables(n) /\ DOMAIN T.keys = 0..n - 1
      /\ Present(T) = {i \in 0..n - 1 : T.keys[i] \in Key}
  BY <1>0, GoodTableIs
<1>2. \A i \in 0..n - 1 : T.keys[i] \in Key \/ T.keys[i] = Unused \/ T.keys[i] = Deleted
  BY <1>1, TableFacts
<1>3. PICK b : b = FirstCopied(T)
  OBVIOUS
<1>4. CASE b = NotFound
  <2>1. AsRead(T, dead) = T /\ dead = {}
    BY <1>3, <1>4 DEF AsRead
  <2> QED BY <1>1, <2>1, SplatNothing
<1>5. CASE b # NotFound
  <2> DEFINE kept == {i \in DOMAIN T.keys : ~IsFree(T.keys[i])}
  <2>1. b = First(kept) /\ kept # {}
    BY <1>3, <1>5 DEF FirstCopied
  <2>2. kept \subseteq Nat
    BY <1>1
  <2>3. b \in kept
    <3> HIDE DEF kept
    <3> QED BY <2>1, <2>2, FirstExists
  <2>4. b \in Present(T)
    BY <1>1, <1>2, <2>3 DEF IsFree
  <2>5. PICK S : S = Splat(T, dead)
    OBVIOUS
  <2>6. GoodTable(S, l) /\ b \in Present(S) /\ S.keys[b] = T.keys[b]
    BY <1>3, <2>4, <2>5, AfterHit
  <2>7. S \in Tables(S.length)
    BY <2>6, GoodTableIs
  <2>8. [S EXCEPT !.keys[b] = T.keys[b]] = S
    BY <2>6, <2>7 DEF Tables
  <2>9. AsRead(T, dead) = [S EXCEPT !.keys[b] = T.keys[b]]
    BY <1>3, <1>5, <2>5 DEF AsRead
  <2> QED BY <2>5, <2>8, <2>9
<1> QED BY <1>4, <1>5

\* The end of table_rehash, and of the call that needed it or its next wait.
LEMMA RehashGoesOn ==
  ASSUME IInv, RehashReturns, ~raced'
  PROVE  \E dead \in SUBSET Collectable :
           GoesOn(Splat(tbl, dead), MapOf(Splat(tbl, dead)), call.key)
<1>1. /\ HashOK /\ StatusOK /\ GoodTable(tbl, ld) /\ Alive(tbl, status) /\ SameHash(tbl.eq)
      /\ CallOK(tbl, call, status)
  BY DEF IInv, ControlInv, RehashReturns
<1>2. PICK dead \in SUBSET Dying(tbl) :
        /\ FirstCopied(tbl) = NotFound => dead = {}
        /\ Touch(FirstCopied(tbl), dead)
        /\ RehashDone(Rehashed(AsRead(tbl, dead), call.length, call.for))
  BY DEF RehashReturns
<1>3. Misses(tbl, FirstCopied(tbl), dead) /\ dead \in SUBSET Collectable
  BY <1>2, DyingMisses
<1>4. PICK T : T = Splat(tbl, dead)
  OBVIOUS
<1>5. AsRead(tbl, dead) = T
  BY <1>1, <1>2, <1>3, <1>4, AsReadIs
<1>6. PICK r, k, op, v : /\ r = Rehashed(T, call.length, call.for)
                         /\ k = call.key /\ op = call.op /\ v = call.value
  OBVIOUS
<1>7. /\ k \in Key /\ status[k] = "held" /\ call.length \in Nat /\ call.length <= MaxLength
      /\ op \in {"ref", "delete", "internRef", "set", "internSet"}
      /\ op \in {"set", "internSet"} => v \in Object /\ status[v] = "held"
      /\ op = "internSet" => v = k /\ Absentee(tbl, k)
      /\ \/ call.for = Null /\ op \in {"set", "internSet"} /\ call.length = 2 * tbl.length
         \/ call.for = k /\ call.length = tbl.length
  BY <1>1, <1>6 DEF CallOK
<1>8. Ready(tbl, ld, k)
  BY <1>1, <1>7 DEF Ready
<1>9. /\ Ready(T, ld, k) /\ T.length = tbl.length /\ (Absentee(tbl, k) => Absentee(T, k))
  BY <1>3, <1>4, <1>8, HitReady DEF SameKind
<1>10. /\ HashOK /\ StatusOK /\ GoodTable(T, ld) /\ Alive(T, status) /\ SameHash(T.eq)
       /\ Sound(T, T.length) /\ T.length \in Nat \ {0}
  BY <1>9, GoodTableIs DEF Ready
<1>11. /\ r.bad = "none" /\ GoodTable(r.new, r.ld) /\ Same3(r.new, T) /\ Alive(r.new, status)
       /\ MapOf(r.new) = MapOf(T) /\ r.new.length = call.length
       /\ FoundAt(r.new, r.at, call.for)
       /\ call.length = 2 * T.length => 2 * (r.new.used + 1) <= call.length
  <2>1. call.length \in Nat \ {0} /\ (call.length = T.length \/ call.length = 2 * T.length)
    BY <1>7, <1>9, <1>10
  <2>2. call.for \in Key \cup {Null}
    BY <1>7
  <2> QED BY <1>6, <1>7, <1>10, <2>1, <2>2, AfterRehash
<1>12. PICK U, l : U = r.new /\ l = r.ld
  OBVIOUS
<1>13. Ready(U, l, k)
  BY <1>7, <1>10, <1>11, <1>12 DEF Ready, Same3
<1>14. Splat(U, {}) = U /\ \A b : Misses(U, b, {})
  <2>1. Sound(U, U.length)
    BY <1>11, <1>12, GoodTableIs
  <2> QED BY <1>10, <2>1, SplatNothing DEF Misses
<1>15. ASSUME op \in {"set", "internSet"} PROVE Storing(U, op, k, v)
  <2>1. Absentee(T, k) => Absentee(U, k)
    <3>1. Sound(U, U.length)
      BY <1>11, <1>12, GoodTableIs
    <3> QED BY <1>7, <1>10, <1>11, <1>12, <3>1, MapIs
  <2> QED BY <1>7, <1>9, <1>15, <2>1 DEF Storing
<1>16. SUFFICES GoesOn(U, MapOf(U), k)
  BY <1>3, <1>4, <1>6, <1>11, <1>12, GoesOnFrom
<1>17. RehashDone(r)
  BY <1>2, <1>5, <1>6
<1>18. CASE call.for = Null /\ TrySet(U, {}, l, op, k, v, call.again)
  <2>1. op \in {"set", "internSet"} /\ call.length = 2 * T.length
    BY <1>7, <1>9, <1>18, Markers
  <2>2. 2 * (U.used + 1) <= U.length
    BY <1>11, <1>12, <2>1
  <2>3. GoesOn(Splat(U, {}), MapOf(Splat(U, {})), k)
    BY <1>13, <1>14, <1>15, <1>18, <2>1, <2>2, TrySetGoesOn
  <2> QED BY <1>14, <2>3
<1>19. CASE call.for # Null /\ r.at # NotFound
  <2>1. r.at \in Present(U) /\ Cmp(U.keys[r.at], k)
    BY <1>7, <1>11, <1>12, <1>19 DEF FoundAt
  <2>2. CASE At(U, l, op, k, r.at)
    BY <1>13, <2>1, <2>2, AtGoesOn
  <2>3. CASE /\ op \in {"set", "internSet"}
             /\ Leave([U EXCEPT !.values[r.at] = v], l, op, k, Result(op, k))
    <3>1. PICK W : W = [U EXCEPT !.values[r.at] = v]
      OBVIOUS
    <3>2. /\ GoodTable(W, l) /\ Same3(W, U) /\ Alive(W, status)
          /\ MapOf(W) = StoredIn(MapOf(U), k, v)
      BY <1>7, <1>13, <2>1, <2>3, <3>1, AfterNewValue DEF Ready
    <3>3. /\ Did(MapOf(U), MapOf(W), op, k, v, Result(op, k))
          /\ Result(op, k) \in Object \cup {Null}
      BY <1>13, <1>15, <2>3, <3>2, StoreIsDone
    <3>4. Leave(W, l, op, k, Result(op, k))
      BY <2>3, <3>1
    <3> QED BY <3>2, <3>3, <3>4 DEF Returns, GoesOn
  <2>4. \/ At(U, l, op, k, r.at)
        \/ /\ op \in {"set", "internSet"}
           /\ Leave([U EXCEPT !.values[r.at] = v], l, op, k, Result(op, k))
    BY <1>6, <1>11, <1>12, <1>17, <1>19 DEF RehashDone
  <2> QED BY <2>2, <2>3, <2>4
<1>20. CASE call.for # Null /\ r.at = NotFound
  <2>1. Absentee(U, k)
    BY <1>7, <1>11, <1>12, <1>20 DEF FoundAt
  <2>2. CASE Absent(U, {}, l, op, k)
    <3>1. GoesOn(Splat(U, {}), MapOf(Splat(U, {})), k)
      BY <1>13, <1>14, <2>1, <2>2, AbsentGoesOn
    <3> QED BY <1>14, <3>1
  <2>3. CASE op \in {"set", "internSet"} /\ Rehash(U, l, op, k, v, 2 * U.length, Null)
    <3>1. Waits(U, MapOf(U), k)
      BY <1>13, <1>15, <2>3, RehashWaits
    <3> QED BY <3>1 DEF GoesOn
  <2>4. \/ Absent(U, {}, l, op, k)
        \/ op \in {"set", "internSet"} /\ Rehash(U, l, op, k, v, 2 * U.length, Null)
    BY <1>6, <1>11, <1>12, <1>17, <1>20 DEF RehashDone
  <2> QED BY <2>2, <2>3, <2>4
<1>21. \/ call.for = Null /\ TrySet(U, {}, l, op, k, v, call.again)
       \/ call.for # Null /\ r.at # NotFound
       \/ call.for # Null /\ r.at = NotFound
  BY <1>6, <1>11, <1>12, <1>17 DEF RehashDone
<1> QED BY <1>18, <1>19, <1>20, <1>21

----------------------------------------------------------------------------
(* The invariant in the next state.                                        *)

\* A table that is good now is good next, if the keys it holds hash as before.
LEMMA GoodNext ==
  ASSUME HashOK, class' = class, NEW T, NEW l, GoodTable(T, l), tbl' = T, ld' = l,
         \A i \in Present(T) : T.keys[i] \in Key => home'[T.keys[i]] = home[T.keys[i]]
  PROVE  GoodTable(tbl, ld)'
<1>1. PICK n \in Nat : n = T.length
  BY GoodTableIs
<1>2. Sound(T, n) /\ T.length <= MaxLength /\ l \in Lds /\ Depends(T, l) /\ (~l.moved => Chains(T))
  BY <1>1, GoodTableIs
<1>3. Unique(tbl)'
  BY <1>2 DEF Sound, Unique, Cmp, Present
<1>4. (Counts(tbl) /\ Sides(tbl) /\ Depends(tbl, ld))'
  BY <1>2 DEF Sound, Counts, Sides, Depends, Used, Present
<1>5. tbl.length' = n /\ ld' = l /\ tbl' = T
  BY <1>1
<1>6. (tbl \in Tables(tbl.length))'
  BY <1>2, <1>5 DEF Sound, Tables
<1>7. Sound(tbl, tbl.length)'
  BY <1>2, <1>3, <1>4, <1>5, <1>6 DEF Sound
<1>8. (~ld.moved => Chains(tbl))'
  <2> SUFFICES ASSUME ~l.moved, NEW i \in Present(T) PROVE Reached(tbl, T.keys[i], i)'
    BY <1>5 DEF Chains, Present
  <2>1. Reached(T, T.keys[i], i)
    BY <1>2 DEF Chains
  <2>2. T.keys[i] \in Key
    BY DEF Present
  <2>3. Hash(T.keys[i])' = Hash(T.keys[i])
    BY <2>2 DEF Hash
  <2>4. ASSUME NEW j PROVE Slot(tbl, T.keys[i], j)' = Slot(T, T.keys[i], j)
    BY <1>5, <2>3 DEF Slot
  <2> QED BY <1>5, <2>1, <2>4 DEF Reached
<1> QED BY <1>2, <1>4, <1>5, <1>7, <1>8 DEF GoodTable

\* How a call goes on, the invariant holds after it.
LEMMA GoesOnKeeps ==
  ASSUME IInv, pc # "none", NEW k \in Key, NEW T, Same3(T, tbl), NEW M, GoesOn(T, M, k)
  PROVE  IInv'
<1>0. \A U : Same3(U, T) => Same3(U, tbl)
  BY DEF Same3
<1>1. HashOK /\ StatusOK /\ SameHash(tbl.eq) /\ fault = "none"
  BY DEF IInv, ControlInv
<1>2. CASE Returns(T, M, k)
  <2>1. PICK U, l, op, v, r :
          /\ Leave(U, l, op, k, r) /\ GoodTable(U, l) /\ Same3(U, tbl) /\ Alive(U, status)
          /\ r \in Object \cup {Null}
    BY <1>0, <1>2 DEF Returns
  <2>2. /\ tbl' = U /\ ld' = l /\ pc' = "idle" /\ home' = home /\ class' = class
        /\ fault' = fault
        /\ status' = IF r \in Object THEN [status EXCEPT ![r] = "held"] ELSE status
    BY <2>1 DEF Leave
  <2>3. GoodTable(tbl, ld)'
    BY <1>1, <2>1, <2>2, GoodNext
  <2>4. StatusOK' /\ \A o \in Object : status[o] # "none" => status'[o] # "none"
    BY <1>1, <2>1, <2>2 DEF StatusOK
  <2>5. Alive(tbl, status)'
    BY <2>1, <2>2, <2>4 DEF Alive
  <2>6. ControlInv'
    BY <1>1, <2>1, <2>2, <2>4 DEF ControlInv, HashOK, SameHash, Same3
  <2> QED BY <2>2, <2>3, <2>5, <2>6 DEF IInv
<1>3. CASE Waits(T, M, k)
  <2>1. PICK U, l, op, v, length, for :
          /\ Rehash(U, l, op, k, v, length, for) /\ GoodTable(U, l) /\ Same3(U, tbl)
          /\ Alive(U, status)
          /\ CallOK(U, [op |-> op, key |-> k, value |-> v, length |-> length, for |-> for,
                        again |-> for = Null], status)
    BY <1>0, <1>3 DEF Waits
  <2>2. /\ tbl' = U /\ ld' = l /\ pc' = "alloc" /\ home' = home /\ class' = class
        /\ fault' = fault /\ status' = status
        /\ call' = [op |-> op, key |-> k, value |-> v, length |-> length, for |-> for,
                    again |-> for = Null]
    BY <2>1 DEF Rehash, objects
  <2>3. GoodTable(tbl, ld)'
    BY <1>1, <2>1, <2>2, GoodNext
  <2>4. Alive(tbl, status)'
    BY <2>1, <2>2 DEF Alive
  <2>5. CallOK(tbl, call, status)'
    BY <2>1, <2>2 DEF CallOK, Absentee, Cmp, Present
  <2>6. ControlInv'
    BY <1>1, <2>1, <2>2 DEF ControlInv, HashOK, SameHash, Same3, StatusOK
  <2> QED BY <2>3, <2>4, <2>5, <2>6 DEF IInv
<1> QED BY <1>2, <1>3 DEF GoesOn
----------------------------------------------------------------------------
(* The program and the collector.                                          *)

LEMMA MakeTableKeeps ==
  ASSUME IInv, NEW length \in Lengths, NEW eq \in BOOLEAN, NEW wk \in BOOLEAN,
         NEW wv \in BOOLEAN, MakeTable(length, eq, wk, wv)
  PROVE  IInv' /\ Present(tbl)' = {}
<1>1. HashOK /\ StatusOK /\ fault = "none"
  BY DEF IInv, ControlInv
<1>2. PICK m : m = RoundUp(length)
  OBVIOUS
<1>3. m \in Nat \ {0} /\ OddCancels(m) /\ m <= MaxLength
  <2> DEFINE S == {l \in Powers : l >= length}
  <2>1. /\ length \in Nat /\ Powers \subseteq Nat /\ MaxLength \in Nat
        /\ \E l \in Powers : length <= l /\ l <= MaxLength
    BY TableOK DEF Powers
  <2>2. PICK l \in S : l <= MaxLength
    BY <2>1
  <2>3. First(S) \in S /\ \A y \in S : First(S) <= y
    <3>1. S \subseteq Nat /\ S # {}
      BY <2>1, <2>2
    <3> HIDE DEF S
    <3> QED BY <3>1, FirstExists
  <2>4. m = First(S)
    BY <1>2 DEF RoundUp
  <2>5. m \in Powers /\ m <= l
    BY <2>2, <2>3, <2>4
  <2> QED BY <2>1, <2>2, <2>5, PowersCancel
<1>4. PICK U : U = NewTable(m, eq, wk, wv)
  OBVIOUS
<1>5. /\ Sound(U, m) /\ Present(U) = {} /\ U.eq = eq /\ U.length = m
      /\ \A i \in 0..m - 1 : U.keys[i] = Unused /\ U.values[i] = Unused
  BY <1>3, <1>4, NewTableSound
<1>6. /\ tbl' = U /\ ld' = NewLd /\ pc' = "idle" /\ status' = status /\ class' = class
      /\ fault' = fault /\ home' \in IF eq THEN {home} ELSE Contents
      /\ eq => \A k \in Key : class[k] = k
  BY <1>2, <1>4 DEF MakeTable
<1>7. NewLd \in Lds /\ Depends(U, NewLd)
  BY <1>5 DEF NewLd, Lds, Depends
<1>8. GoodTable(tbl, ld)'
  <2>1. Chains(U)
    BY <1>5 DEF Chains
  <2>2. GoodTable(U, NewLd)
    BY <1>3, <1>5, <1>7, <2>1 DEF GoodTable
  <2> QED BY <1>1, <1>5, <1>6, <2>2, GoodNext
<1>9. Alive(tbl, status)'
  <2>1. DOMAIN U.keys = 0..m - 1
    BY <1>5, TableFacts DEF Sound
  <2> QED BY <1>5, <1>6, <2>1, Markers DEF Alive
<1>10. HashOK' /\ SameHash(tbl.eq)'
  BY <1>1, <1>5, <1>6 DEF HashOK, SameHash, Contents
<1>11. ControlInv'
  BY <1>1, <1>6, <1>10 DEF ControlInv, StatusOK
<1> QED BY <1>5, <1>6, <1>8, <1>9, <1>11 DEF IInv, Present

LEMMA NewObjectKeeps ==
  ASSUME IInv, NEW o \in Object, NEW h \in HashValue, NewObject(o, h)
  PROVE  IInv'
<1>1. /\ HashOK /\ StatusOK /\ fault = "none" /\ SameHash(tbl.eq)
      /\ GoodTable(tbl, ld) /\ Alive(tbl, status)
  BY DEF IInv, ControlInv, NewObject
<1>2. /\ tbl' = tbl /\ ld' = ld /\ pc' = "idle" /\ class' = class /\ fault' = fault
      /\ status[o] = "none" /\ status' = [status EXCEPT ![o] = "held"]
      /\ home' = IF o \in Key /\ tbl.eq THEN [home EXCEPT ![o] = h] ELSE home
  BY DEF NewObject
<1>3. ASSUME NEW i \in Present(tbl) PROVE home'[tbl.keys[i]] = home[tbl.keys[i]]
  <2>1. tbl.keys[i] \in Key /\ tbl.keys[i] \in Object /\ i \in DOMAIN tbl.keys
    BY Markers DEF Present
  <2>2. tbl.keys[i] # o
    BY <1>1, <1>2, <2>1 DEF Alive
  <2> QED BY <1>1, <1>2, <2>1, <2>2 DEF HashOK
<1>4. GoodTable(tbl, ld)'
  BY <1>1, <1>2, <1>3, GoodNext
<1>5. Alive(tbl, status)' /\ StatusOK'
  BY <1>1, <1>2 DEF Alive, StatusOK
<1>6. HashOK' /\ SameHash(tbl.eq)'
  BY <1>1, <1>2, GoodTableIs DEF HashOK, SameHash
<1> QED BY <1>1, <1>2, <1>4, <1>5, <1>6 DEF IInv, ControlInv

LEMMA DropKeeps ==
  ASSUME IInv, NEW o \in Object, DropReference(o)
  PROVE  IInv'
<1>1. /\ HashOK /\ StatusOK /\ fault = "none" /\ SameHash(tbl.eq)
      /\ GoodTable(tbl, ld) /\ Alive(tbl, status)
  BY DEF IInv, ControlInv, DropReference
<1>2. /\ tbl' = tbl /\ ld' = ld /\ pc' = "idle" /\ class' = class /\ fault' = fault
      /\ status' = [status EXCEPT ![o] = "loose"] /\ home' = home
  BY DEF DropReference
<1>3. GoodTable(tbl, ld)'
  BY <1>1, <1>2, GoodNext
<1>4. Alive(tbl, status)' /\ StatusOK'
  BY <1>1, <1>2 DEF Alive, StatusOK
<1>5. HashOK' /\ SameHash(tbl.eq)'
  BY <1>1, <1>2 DEF HashOK, SameHash
<1> QED BY <1>1, <1>2, <1>3, <1>4, <1>5 DEF IInv, ControlInv

LEMMA StutterKeeps ==
  ASSUME IInv, UNCHANGED vars
  PROVE  IInv'
<1>1. /\ tbl' = tbl /\ ld' = ld /\ pc' = pc /\ class' = class /\ fault' = fault
      /\ status' = status /\ home' = home /\ call' = call /\ out' = out
  BY DEF vars
<1>2. GoodTable(tbl, ld)'
  BY <1>1, GoodNext DEF IInv, ControlInv
<1>3. Alive(tbl, status)' /\ (pc = "alloc" => CallOK(tbl, call, status))'
  BY <1>1 DEF IInv, Alive, CallOK, Absentee, Cmp, Present
<1>4. ControlInv'
  BY <1>1 DEF IInv, ControlInv, HashOK, StatusOK, SameHash, Present
<1> QED BY <1>2, <1>3, <1>4 DEF IInv
\* What a collection does: it splats dead objects out of the table and moves keys
\* that are alive.
LEMMA CollectIs ==
  ASSUME MpsCollects
  PROVE  \E dead \in SUBSET Collectable, moved \in SUBSET Key :
           /\ Collect(dead, moved) /\ moved \cap dead = {}
           /\ ~tbl.eq => moved = {}
<1>1. PICK dead \in SUBSET Collectable :
        \/ Collect(dead, {})
        \/ \E k \in {x \in Key \ dead : tbl.eq /\ status[x] # "none"} : Collect(dead, {k})
  BY DEF MpsCollects
<1>2. CASE Collect(dead, {})
  BY <1>2
<1>3. CASE \E k \in {x \in Key \ dead : tbl.eq /\ status[x] # "none"} : Collect(dead, {k})
  <2>1. PICK k \in Key \ dead : tbl.eq /\ Collect(dead, {k})
    BY <1>3
  <2> DEFINE moved == {k}
  <2>2. moved \in SUBSET Key /\ moved \cap dead = {} /\ Collect(dead, moved)
    BY <2>1
  <2> HIDE DEF moved
  <2> QED BY <2>1, <2>2
<1> QED BY <1>1, <1>2, <1>3

\* The table after a collection: nothing in it is dead.
LEMMA AfterSplat ==
  ASSUME IInv, NEW dead \in SUBSET Collectable, NEW U, U = Splat(tbl, dead)
  PROVE  /\ Splatted(tbl, dead) \in SUBSET Present(tbl)
         /\ Sound(U, tbl.length) /\ SameKind(U, tbl)
         /\ Present(U) = Present(tbl) \ Splatted(tbl, dead)
         /\ \A i \in Present(U) :
              /\ U.keys[i] = tbl.keys[i] /\ U.values[i] = tbl.values[i]
              /\ U.keys[i] \in Key \ dead /\ U.values[i] \in Object \ dead
         /\ Chains(tbl) => Chains(U)
<1>0. PICK n : n = tbl.length
  OBVIOUS
<1>1. HashOK /\ Sound(tbl, n) /\ DOMAIN tbl.keys = 0..n - 1 /\ Present(tbl) \subseteq 0..n - 1
  BY <1>0, GoodTableIs DEF IInv, ControlInv
<1>2. dead \in SUBSET Object
  BY DEF Collectable
<1>3. PICK G : G = Splatted(tbl, dead)
  OBVIOUS
<1>4. G \in SUBSET Present(tbl) /\ Erased(tbl, U, n, G) /\ SameKind(U, tbl)
  BY <1>1, <1>2, <1>3, SplatErases
<1>5. /\ Sound(U, n) /\ Present(U) = Present(tbl) \ G
      /\ \A i \in Present(U) : U.keys[i] = tbl.keys[i] /\ U.values[i] = tbl.values[i]
      /\ Chains(tbl) => Chains(U)
  BY <1>1, <1>4, ErasureKeeps
<1>6. ASSUME NEW i \in Present(U)
      PROVE  U.keys[i] \in Key \ dead /\ U.values[i] \in Object \ dead
  <2>1. i \in DOMAIN tbl.keys /\ i \in Present(tbl) /\ i \notin G
    BY <1>1, <1>5
  <2>2. tbl.keys[i] \in Key /\ tbl.values[i] \in Object
    BY <2>1, GoodTableIs DEF IInv
  <2>3. tbl.keys[i] \notin dead
    <3>1. tbl.wk => tbl.keys[i] \notin dead
      BY <1>3, <2>1 DEF Splatted
    <3>2. ~tbl.wk => tbl.keys[i] \notin dead
      BY <2>1 DEF Collectable, InTable
    <3> QED BY <3>1, <3>2
  <2>4. tbl.values[i] \notin dead
    <3>1. tbl.wv => tbl.values[i] \notin dead
      BY <1>3, <2>1 DEF Splatted
    <3>2. ~tbl.wv => tbl.values[i] \notin dead
      BY <2>1 DEF Collectable, InTable
    <3> QED BY <3>1, <3>2
  <2> QED BY <1>5, <2>2, <2>3, <2>4
<1> QED BY <1>0, <1>3, <1>4, <1>5, <1>6

LEMMA CollectKeeps ==
  ASSUME IInv, MpsCollects
  PROVE  IInv'
<1>1. PICK dead \in SUBSET Collectable, moved \in SUBSET Key :
           /\ Collect(dead, moved) /\ moved \cap dead = {}
           /\ ~tbl.eq => moved = {}
  BY CollectIs
<1>2. /\ HashOK /\ StatusOK /\ fault = "none" /\ SameHash(tbl.eq)
      /\ GoodTable(tbl, ld) /\ Alive(tbl, status) /\ pc \in {"idle", "alloc"}
      /\ tbl.eq \in BOOLEAN
  BY <1>1, GoodTableIs DEF IInv, ControlInv, Collect
<1>3. PICK U, l : /\ U = Splat(tbl, dead)
                  /\ l = [deps  |-> ld.deps \ dead,
                          moved |-> ld.moved \/ moved \cap ld.deps # {},
                          epoch |-> ld.epoch \/ moved # {}]
  OBVIOUS
<1>4. PICK h \in HashValue :
        /\ tbl' = U /\ ld' = l /\ pc' = pc /\ class' = class /\ fault' = fault /\ call' = call
        /\ status' = [o \in Object |-> IF o \in dead THEN "none" ELSE status[o]]
        /\ home' = [k \in Key |-> IF tbl.eq /\ k \in dead THEN AnyHash
                                  ELSE IF k \in moved THEN h ELSE home[k]]
  BY <1>1, <1>3 DEF Collect
<1>5. /\ Sound(U, tbl.length) /\ SameKind(U, tbl) /\ Present(U) \subseteq Present(tbl)
      /\ \A i \in Present(U) :
           /\ U.keys[i] = tbl.keys[i] /\ U.values[i] = tbl.values[i]
           /\ U.keys[i] \in Key \ dead /\ U.values[i] \in Object \ dead
      /\ Chains(tbl) => Chains(U)
  BY <1>3, AfterSplat
<1>6. /\ ld \in Lds /\ Depends(tbl, ld) /\ (~ld.moved => Chains(tbl)) /\ tbl.length <= MaxLength
  BY <1>2, GoodTableIs
<1>7. /\ l.deps = ld.deps \ dead /\ l.moved = (ld.moved \/ moved \cap ld.deps # {})
      /\ l \in Lds
  BY <1>3, <1>6 DEF Lds
<1>8. Depends(U, l)
  BY <1>5, <1>6, <1>7 DEF Depends, SameKind
<1>9. GoodTable(tbl, ld)'
  <2>1. CASE l.moved
    \* Nothing is claimed of the chains until the next rehash.
    <3>1. GoodTable(U, l)
      BY <1>5, <1>6, <1>7, <1>8, <2>1 DEF GoodTable, SameKind
    <3>2. (Sound(tbl, tbl.length) /\ Depends(tbl, ld))'
      <4>1. PICK n : n = U.length
        OBVIOUS
      <4>2. Sound(U, n) /\ Depends(U, l)
        BY <3>1, <4>1 DEF GoodTable
      <4>3. Unique(tbl)'
        BY <1>4, <4>2 DEF Sound, Unique, Cmp, Present
      <4>4. (Counts(tbl) /\ Sides(tbl) /\ Depends(tbl, ld))'
        BY <1>4, <4>2 DEF Sound, Counts, Sides, Depends, Used, Present
      <4>5. (tbl \in Tables(tbl.length))'
        BY <1>4, <4>1, <4>2 DEF Sound, Tables
      <4> QED BY <1>4, <4>1, <4>2, <4>3, <4>4, <4>5 DEF Sound
    <3> QED BY <1>4, <2>1, <3>1, <3>2 DEF GoodTable
  <2>2. CASE ~l.moved
    <3>1. ~ld.moved /\ moved \cap ld.deps = {}
      BY <1>7, <2>2
    <3>2. GoodTable(U, l)
      BY <1>5, <1>6, <1>7, <1>8, <3>1 DEF GoodTable, SameKind
    <3>3. ASSUME NEW i \in Present(U) PROVE home'[U.keys[i]] = home[U.keys[i]]
      <4>1. U.keys[i] \in Key /\ U.keys[i] \notin dead
        BY <1>5
      <4>2. tbl.eq => U.keys[i] \in ld.deps
        BY <1>5, <1>6 DEF Depends
      <4>3. U.keys[i] \notin moved
        BY <1>1, <3>1, <4>2
      <4> QED BY <1>4, <4>1, <4>3
    <3> QED BY <1>2, <1>4, <3>2, <3>3, GoodNext
  <2> QED BY <2>1, <2>2
<1>10. Alive(tbl, status)' /\ StatusOK'
  <2>1. ASSUME NEW i \in DOMAIN U.keys
        PROVE  /\ U.keys[i] \in Object => i \in Present(U)
               /\ U.values[i] \in Object => i \in Present(U)
    <3>1. PICK n : n = tbl.length
      OBVIOUS
    <3>2. /\ i \in 0..n - 1 /\ Present(U) = {x \in 0..n - 1 : U.keys[x] \in Key}
          /\ U.keys[i] \in Key \/ U.keys[i] = Unused \/ U.keys[i] = Deleted
      BY <1>5, <3>1, TableFacts DEF Sound
    <3>3. U.keys[i] \in Key <=> U.values[i] \in Object
      BY <1>5 DEF Sound, Sides
    <3> QED BY <3>2, <3>3, Markers
  <2>2. ASSUME NEW i \in DOMAIN U.keys
        PROVE  /\ U.keys[i] \in Object => status'[U.keys[i]] # "none"
               /\ U.values[i] \in Object => status'[U.values[i]] # "none"
    <3>1. CASE i \in Present(U)
      <4>1. /\ U.keys[i] \in Object \ dead /\ U.values[i] \in Object \ dead
            /\ U.keys[i] = tbl.keys[i] /\ U.values[i] = tbl.values[i] /\ i \in DOMAIN tbl.keys
        BY <1>5, <3>1, Markers DEF Present
      <4>2. status[U.keys[i]] # "none" /\ status[U.values[i]] # "none"
        BY <1>2, <4>1 DEF Alive
      <4> QED BY <1>4, <4>1, <4>2
    <3> QED BY <2>1, <3>1
  <2> QED BY <1>2, <1>4, <2>2 DEF Alive, StatusOK
<1>11. HashOK' /\ SameHash(tbl.eq)'
  <2>1. home' \in [Key -> HashValue]
    BY <1>2, <1>4, Markers DEF HashOK
  <2>2. ~tbl.eq => home' = home
    <3>1. home = [k \in Key |-> home[k]]
      BY <1>2 DEF HashOK
    <3> QED BY <1>1, <1>4, <3>1
  <2>3. U.eq = tbl.eq
    BY <1>5 DEF SameKind
  <2> QED BY <1>2, <1>4, <2>1, <2>2, <2>3 DEF HashOK, SameHash
<1>12. (pc = "alloc" => CallOK(tbl, call, status))'
  <2> SUFFICES ASSUME pc = "alloc" PROVE CallOK(tbl, call, status)'
    BY <1>4
  <2>1. CallOK(tbl, call, status)
    BY DEF IInv
  <2>2. ASSUME NEW o \in Object, status[o] = "held" PROVE status'[o] = "held"
    BY <1>4, <2>2 DEF Collectable
  <2>3. status'[call.key] = "held"
    BY <2>1, <2>2, Markers DEF CallOK
  <2>4. call.op \in {"set", "internSet"} => call.value \in Object /\ status'[call.value] = "held"
    BY <2>1, <2>2 DEF CallOK
  <2>5. Absentee(tbl, call.key) => Absentee(tbl, call.key)'
    <3> SUFFICES ASSUME Absentee(tbl, call.key), NEW i \in Present(U)
                 PROVE  ~Cmp(U.keys[i], call.key)'
      BY <1>4 DEF Absentee, Present
    <3>1. ~Cmp(U.keys[i], call.key)
      BY <1>5 DEF Absentee
    <3> QED BY <1>4, <3>1 DEF Cmp
  <2>6. U.length = tbl.length
    BY <1>5 DEF SameKind
  <2>7. tbl' = U /\ call' = call
    BY <1>4
  <2> QED BY <2>1, <2>3, <2>4, <2>5, <2>6, <2>7 DEF CallOK
<1> QED BY <1>2, <1>4, <1>9, <1>10, <1>11, <1>12 DEF IInv, ControlInv
----------------------------------------------------------------------------
(* The invariant holds.                                                    *)

LEMMA InitHolds == Init => IInv
<1> SUFFICES ASSUME Init PROVE IInv
  OBVIOUS
<1>1. /\ status = [o \in Object |-> "none"] /\ class \in [Key -> Key]
      /\ home = [k \in Key |-> AnyHash] /\ tbl = NewTable(1, TRUE, FALSE, FALSE) /\ ld = NewLd
      /\ pc = "none" /\ out = Nothing /\ fault = "none"
  BY DEF Init
<1>2. 1 \in Nat \ {0} /\ OddCancels(1) /\ 1 <= MaxLength
  BY PowersCancel, TableOK DEF Powers
<1>3. /\ Sound(tbl, 1) /\ Present(tbl) = {} /\ Chains(tbl) /\ tbl.length = 1
      /\ \A i \in 0..0 : tbl.keys[i] = Unused /\ tbl.values[i] = Unused
  <2>1. PICK m \in Nat \ {0} : m = 1
    OBVIOUS
  <2>2. PICK T : T = NewTable(m, TRUE, FALSE, FALSE)
    OBVIOUS
  <2>3. OddCancels(m)
    BY <1>2, <2>1
  <2>4. ASSUME NEW eq \in BOOLEAN, NEW no \in BOOLEAN, NEW W, W = NewTable(m, eq, no, no)
        PROVE  /\ Sound(W, m) /\ Present(W) = {} /\ Chains(W) /\ W.length = m
               /\ \A i \in 0..m - 1 : W.keys[i] = Unused /\ W.values[i] = Unused
    BY <2>3, <2>4, NewTableSound
  <2>5. /\ Sound(T, m) /\ Present(T) = {} /\ Chains(T) /\ T.length = m
        /\ \A i \in 0..m - 1 : T.keys[i] = Unused /\ T.values[i] = Unused
    BY ONLY <2>2, <2>4, Zenon
  <2>6. T = tbl /\ m - 1 = 0
    BY <1>1, <2>1, <2>2
  <2> QED BY <2>1, <2>5, <2>6
<1>4. NewLd \in Lds /\ Depends(tbl, NewLd)
  BY <1>3 DEF NewLd, Lds, Depends
<1>5. GoodTable(tbl, ld)
  BY <1>1, <1>2, <1>3, <1>4 DEF GoodTable
<1>6. Alive(tbl, status)
  <2>1. DOMAIN tbl.keys = 0..0
    BY <1>3, TableFacts DEF Sound
  <2> QED BY <1>3, <2>1, Markers DEF Alive
<1>7. HashOK /\ StatusOK
  BY <1>1, Markers DEF HashOK, StatusOK
<1> QED BY <1>1, <1>3, <1>5, <1>6, <1>7 DEF IInv, ControlInv

\* A call for k goes on from a table from which the collector may have taken
\* entries.
CallGoesOn(k) ==
  \E dead \in SUBSET Collectable : GoesOn(Splat(tbl, dead), MapOf(Splat(tbl, dead)), k)

LEMMA SearchesGoOn ==
  ASSUME IInv, NEW k \in Key, Idle(k), NEW op, op \in {"ref", "delete", "internRef"},
         Searches(op, k), ~raced'
  PROVE  CallGoesOn(k)
<1>1. Ready(tbl, ld, k)
  BY DEF IInv, ControlInv, Ready, Idle
<1>2. PICK dead \in SUBSET Dying(tbl) :
        Touch(BucketsFind(tbl, k), dead) /\ Search(op, k, dead)
  BY DEF Searches
<1>3. Misses(tbl, BucketsFind(tbl, k), dead) /\ dead \in SUBSET Collectable
  BY <1>2, DyingMisses
<1>4. GoesOn(Splat(tbl, dead), MapOf(Splat(tbl, dead)), k)
  BY <1>1, <1>2, <1>3, SearchGoesOn
<1> QED BY <1>3, <1>4 DEF CallGoesOn

LEMMA SetGoesOn ==
  ASSUME IInv, NEW k \in Key, NEW v \in Value, TableSet(k, v), ~raced'
  PROVE  CallGoesOn(k)
<1>1. Ready(tbl, ld, k)
  BY DEF IInv, ControlInv, Ready, Idle, TableSet
<1>2. PICK dead \in SUBSET Dying(tbl) :
        Touch(BucketsFind(tbl, k), dead) /\ SetIn(tbl, dead, ld, "set", k, v)
  BY DEF TableSet
<1>3. Misses(tbl, BucketsFind(tbl, k), dead) /\ dead \in SUBSET Collectable
  BY <1>2, DyingMisses
<1>4. Storing(tbl, "set", k, v)
  BY Markers DEF TableSet, Storing
<1>5. GoesOn(Splat(tbl, dead), MapOf(Splat(tbl, dead)), k)
  BY <1>1, <1>2, <1>3, <1>4, SetInGoesOn
<1> QED BY <1>3, <1>5 DEF CallGoesOn

\* Every call that races with no hit goes on as it should.
LEMMA CallsGoOn ==
  ASSUME IInv, Calls \/ RehashReturns, ~raced'
  PROVE  pc # "none" /\ \E k \in Key : CallGoesOn(k)
<1>1. ASSUME NEW k \in Key, TableRef(k) PROVE pc # "none" /\ CallGoesOn(k)
  BY <1>1, SearchesGoOn DEF TableRef, Idle
<1>2. ASSUME NEW k \in Key, TableDelete(k) PROVE pc # "none" /\ CallGoesOn(k)
  BY <1>2, SearchesGoOn DEF TableDelete, Idle
<1>3. ASSUME NEW k \in Key, Intern(k) PROVE pc # "none" /\ CallGoesOn(k)
  BY <1>3, SearchesGoOn DEF Intern, Idle
<1>4. ASSUME NEW k \in Key, NEW v \in Value, TableSet(k, v) PROVE pc # "none" /\ CallGoesOn(k)
  BY <1>4, SetGoesOn DEF TableSet, Idle
<1>5. CASE Calls
  BY <1>1, <1>2, <1>3, <1>4, <1>5 DEF Calls
<1>6. CASE RehashReturns
  <2>1. pc = "alloc" /\ call.key \in Key
    BY <1>6 DEF RehashReturns, IInv, CallOK
  <2> QED BY <1>6, <2>1, RehashGoesOn DEF CallGoesOn
<1> QED BY <1>5, <1>6

LEMMA CallKeeps ==
  ASSUME IInv, pc # "none", NEW k \in Key, CallGoesOn(k)
  PROVE  IInv'
<1>1. PICK dead \in SUBSET Collectable : GoesOn(Splat(tbl, dead), MapOf(Splat(tbl, dead)), k)
  BY DEF CallGoesOn
<1>2. PICK T : T = Splat(tbl, dead)
  OBVIOUS
<1>3. SameKind(T, tbl)
  BY <1>2, AfterSplat
<1> QED BY <1>1, <1>2, <1>3, GoesOnKeeps DEF SameKind, Same3

LEMMA NextKeeps ==
  ASSUME IInv, [Next]_vars, ~raced'
  PROVE  IInv'
<1>1. CASE \E length \in Lengths, eq, wk, wv \in BOOLEAN : MakeTable(length, eq, wk, wv)
  BY <1>1, MakeTableKeeps
<1>2. CASE Calls \/ RehashReturns
  BY <1>2, CallsGoOn, CallKeeps
<1>3. CASE MpsCollects
  BY <1>3, CollectKeeps
<1>4. CASE Environment
  BY <1>4, NewObjectKeeps, DropKeeps DEF Environment
<1>5. CASE Stopped \/ UNCHANGED vars
  BY <1>5, StutterKeeps DEF Stopped
<1> QED BY <1>1, <1>2, <1>3, <1>4, <1>5 DEF Next

\* Only a call can race, and what has raced has raced.
LEMMA RacedStays ==
  ASSUME raced \in BOOLEAN, [Next]_vars
  PROVE  /\ raced' \in BOOLEAN /\ (raced => raced')
         /\ raced' = raced \/ \E dead \in SUBSET Dying(tbl) : dead # {}
<1>1. CASE \E b, dead : dead \in SUBSET Dying(tbl) /\ Touch(b, dead)
  BY <1>1 DEF Touch
<1>2. ASSUME Calls \/ RehashReturns
      PROVE  \E b, dead : dead \in SUBSET Dying(tbl) /\ Touch(b, dead)
  <2>1. ASSUME NEW op, NEW k, Searches(op, k)
        PROVE  \E b, dead : dead \in SUBSET Dying(tbl) /\ Touch(b, dead)
    BY <2>1 DEF Searches
  <2>2. CASE RehashReturns
    BY <2>2 DEF RehashReturns
  <2>3. CASE Calls
    BY <2>1, <2>3 DEF Calls, TableRef, TableDelete, Intern, TableSet
  <2> QED BY <1>2, <2>2, <2>3
<1>3. CASE raced' = raced
  BY <1>3
<1>4. CASE ~(Calls \/ RehashReturns)
  <2>1. raced' = raced
    BY <1>4 DEF Next, MakeTable, MpsCollects, Collect, Environment, NewObject, DropReference,
                Stopped, vars
  <2> QED BY <1>3, <2>1
<1> QED BY <1>1, <1>2, <1>4

LEMMA InvariantGives ==
  ASSUME IInv, raced \in BOOLEAN, ~raced
  PROVE  TypeOK /\ AssertionsHold /\ SizeIsExact /\ SearchesEnd /\ SidesAgree /\ EntriesSound
<1>1. /\ HashOK /\ StatusOK /\ GoodTable(tbl, ld) /\ Alive(tbl, status)
      /\ fault = "none" /\ pc \in {"none", "idle", "alloc"}
  BY DEF IInv, ControlInv
<1>2. PICK n : n = tbl.length
  OBVIOUS
<1>3. /\ n \in Nat \ {0} /\ tbl \in Tables(n) /\ n <= MaxLength /\ Sound(tbl, n)
  BY <1>1, <1>2, GoodTableIs
<1>4. /\ tbl.used = Cardinality(Used(tbl)) /\ tbl.used - tbl.deleted = Cardinality(Present(tbl))
      /\ 2 * tbl.used <= n /\ Sides(tbl) /\ Unique(tbl)
  BY <1>3 DEF Sound, Counts
<1>5. /\ DOMAIN tbl.keys = 0..n - 1 /\ tbl.deleted \in Int
      /\ Cardinality(Present(tbl)) \in Nat /\ Cardinality(Used(tbl)) \in Nat
      /\ Cardinality(Present(tbl)) <= Cardinality(Used(tbl)) /\ Cardinality(Used(tbl)) <= n
  BY <1>3, TableFacts
<1>6. tbl.used \in 0..n /\ tbl.deleted \in 0..n
  <2>1. PICK u, p \in Nat : u = Cardinality(Used(tbl)) /\ p = Cardinality(Present(tbl))
    BY <1>5
  <2>2. PICK d \in Int : d = tbl.deleted
    BY <1>5
  <2>3. u - d = p /\ p <= u /\ u <= n
    BY <1>4, <1>5, <2>1, <2>2
  <2>4. d \in 0..n /\ u \in 0..n
    BY <1>3, <2>3
  <2> QED BY <1>4, <2>1, <2>2, <2>4
<1>7. TypeOK
  <2>1. tbl.keys \in [0..n - 1 -> SlotKey] /\ tbl.values \in [0..n - 1 -> SlotValue]
    BY <1>3 DEF Tables
  <2>2. tbl.deleted \in Nat /\ tbl.deleted <= n
    BY <1>3, <1>6
  <2>3. raced = FALSE
    OBVIOUS
  <2> QED BY <1>1, <1>2, <1>3, <1>5, <1>6, <2>1, <2>2, <2>3 DEF TypeOK, HashOK, StatusOK
<1>8. AssertionsHold /\ SizeIsExact /\ SearchesEnd /\ SidesAgree
  BY <1>1, <1>2, <1>4 DEF AssertionsHold, NoAssertionFails, SizeIsExact, SearchesEnd, SidesAgree,
                          SidesNeverPart, Sides
<1>9. EntriesSound
  BY <1>1, <1>4 DEF EntriesSound, NoDangling, UniqueKeys, Alive, Unique
<1> QED BY <1>7, <1>8, <1>9

\* The invariant, of runs in which no hit has taken the entry that a call had chosen.
Safe == raced \in BOOLEAN /\ (~raced => IInv)

LEMMA InvariantHolds == Spec => []Safe
<1>1. Init => Safe
  BY InitHolds DEF Init, Safe
<1>2. Safe /\ [Next]_vars => Safe'
  <2> SUFFICES ASSUME Safe, [Next]_vars PROVE Safe'
    OBVIOUS
  <2>1. raced' \in BOOLEAN /\ (raced => raced')
    BY RacedStays DEF Safe
  <2>2. ASSUME ~raced' PROVE IInv'
    <3>1. IInv
      BY <2>1, <2>2 DEF Safe
    <3> QED BY <2>2, <3>1, NextKeeps
  <2> QED BY <2>1, <2>2 DEF Safe
<1> QED BY <1>1, <1>2, PTL DEF Spec

LEMMA SafeGives ==
  ASSUME Safe
  PROVE  /\ AssertionsHold /\ SidesAgree
         /\ ~raced => TypeOK /\ SizeIsExact /\ SearchesEnd /\ EntriesSound
<1>1. CASE raced
  BY <1>1 DEF AssertionsHold, SidesAgree
<1>2. CASE ~raced
  BY <1>2, InvariantGives DEF Safe
<1> QED BY <1>1, <1>2

\* Until a barrier hit takes the entry of a call, slots, counts and statuses keep
\* their types, and no more slots are used or deleted than there are.
THEOREM TypeCorrect == Spec => [](~raced => TypeOK)
BY InvariantHolds, SafeGives, PTL

\* Whatever the collector splats between calls, in the allocations of a rehash and
\* at the first touch of the values, no AVER of the table fails, unless a hit took
\* the very entry that a call had chosen (metadata.h:532, 566, 567, 578, 627, 648).
THEOREM AssertionsNeverFail == Spec => []AssertionsHold
BY InvariantHolds, SafeGives, PTL

\* Calls and scans count every removal once, until a hit takes the entry of a call
\* (metadata.h:222-231).
THEOREM SizeStaysExact == Spec => [](~raced => SizeIsExact)
BY InvariantHolds, SafeGives, PTL

\* Half the slots of a table are always unused, so every search ends, with the same
\* exception (metadata.h:522, 635-639).
THEOREM SearchesAlwaysEnd == Spec => [](~raced => SearchesEnd)
BY InvariantHolds, SafeGives, PTL

\* Key and value leave the table together, unless a hit took the entry that a call
\* had chosen (metadata.h:226-231, 620-631).
THEOREM SidesAlwaysAgree == Spec => []SidesAgree
BY InvariantHolds, SafeGives, PTL

\* No slot refers to a reclaimed object, and no two slots hold equal keys, with the
\* same exception (metadata.h:220-232, 567-568).
THEOREM EntriesStaySound == Spec => [](~raced => EntriesSound)
BY InvariantHolds, SafeGives, PTL

\* In a table that holds its values strongly no hit takes an entry from a call: there
\* the assertions and the agreement of both sides hold without exception
\* (metadata.h:569, 611, 631).
THEOREM StrongValuesAreSafe ==
  Spec /\ [](~tbl.wv) => [](NoAssertionFails /\ SidesNeverPart)
<1>1. Init => ~raced
  BY DEF Init
<1>2. ~raced /\ ~tbl.wv /\ Safe /\ [Next]_vars => ~raced'
  <2> SUFFICES ASSUME ~raced, ~tbl.wv, Safe, [Next]_vars PROVE ~raced'
    OBVIOUS
  <2>1. \A dead \in SUBSET Dying(tbl) : dead = {}
    BY DEF Dying
  <2> QED BY <2>1, RacedStays DEF Safe
<1>3. ~raced /\ AssertionsHold /\ SidesAgree => NoAssertionFails /\ SidesNeverPart
  BY DEF AssertionsHold, SidesAgree
<1>4. Safe => AssertionsHold /\ SidesAgree
  BY SafeGives
<1> QED BY <1>1, <1>2, <1>3, <1>4, InvariantHolds, PTL DEF Spec

----------------------------------------------------------------------------
(* The weak map.                                                           *)

Held == {o \in Object : status[o] = "held"}
Weak == [key |-> tbl.wk, value |-> tbl.wv]

LEMMA MapHere == [c \in Key |-> Entry(c)] = MapOf(tbl)
BY DEF MapOf, Entry, EntryOf, Vacant

LEMMA MapNext ==
  ASSUME class' = class, NEW U, tbl' = U
  PROVE  [c \in Key |-> Entry(c)]' = MapOf(U)
<1>1. ASSUME NEW c \in Key PROVE Entry(c)' = EntryOf(U, c)
  BY DEF Entry, EntryOf, Present, Vacant
<1> QED BY <1>1 DEF MapOf

LEMMA EmptyMap ==
  ASSUME NEW T, Present(T) = {}
  PROVE  MapOf(T) = [c \in Key |-> Vacant]
BY DEF MapOf, EntryOf

\* What a collection takes from the table, the weak map may forget.
LEMMA SplatForgets ==
  ASSUME IInv, NEW dead \in SUBSET Collectable, NEW U, U = Splat(tbl, dead)
  PROVE  MapOf(U) \in WM!Forgotten
<1>2. PICK G : G = Splatted(tbl, dead)
  OBVIOUS
<1>4. PICK M, N : M = MapOf(tbl) /\ N = MapOf(U)
  OBVIOUS
<1>5. [c \in Key |-> Entry(c)] = M
  BY <1>4, MapHere
<1>6. /\ HashOK /\ Sound(tbl, tbl.length) /\ G \in SUBSET Present(tbl)
      /\ Sound(U, tbl.length) /\ Present(U) = Present(tbl) \ G
      /\ \A i \in Present(U) : U.keys[i] = tbl.keys[i] /\ U.values[i] = tbl.values[i]
  BY <1>2, AfterSplat, GoodTableIs DEF IInv, ControlInv
<1>7. PICK C : C = {class[tbl.keys[i]] : i \in G}
  OBVIOUS
<1>8. N = [c \in Key |-> IF c \in C THEN Vacant ELSE M[c]]
  BY <1>4, <1>6, <1>7, ErasedMap
<1>9. WM!NoEntry = Vacant
  BY DEF WM!NoEntry, Vacant
<1>10. ASSUME NEW c \in C PROVE c \in Key /\ WM!Forgettable(M[c])
  <2>1. PICK i \in G : c = class[tbl.keys[i]]
    BY <1>7
  <2>2. /\ M[c] = [key |-> tbl.keys[i], value |-> tbl.values[i]] /\ M[c] # Vacant /\ c \in Key
    BY <1>4, <1>6, <2>1, MapIs
  <2>3. M[c].key = tbl.keys[i] /\ M[c].value = tbl.values[i]
    BY <2>2
  <2>4. \/ tbl.wk /\ tbl.keys[i] \in dead
        \/ tbl.wv /\ tbl.values[i] \in dead
    BY <1>2 DEF Splatted
  <2>5. \A o \in dead : o \notin Held
    BY DEF Collectable, Held
  <2> QED BY <1>9, <2>2, <2>3, <2>4, <2>5 DEF WM!Forgettable, Held
<1>11. C \in SUBSET {c \in Key : WM!Forgettable(M[c])}
  BY <1>10
<1>12. N = [c \in Key |-> IF c \in C THEN WM!NoEntry ELSE M[c]]
  BY <1>8, <1>9
<1> QED BY <1>4, <1>5, <1>11, <1>12 DEF WM!Forgotten

\* What a returning call made of the map is a step of the weak map.
LEMMA ReturnsImplements ==
  ASSUME IInv, NEW k \in Key, NEW dead \in SUBSET Collectable, NEW T, T = Splat(tbl, dead),
         Returns(T, MapOf(T), k)
  PROVE  WM!Next
<1>0. Sound(T, tbl.length) /\ Same3(T, tbl) /\ HashOK /\ MapOf(T) \in WM!Forgotten
  BY AfterSplat, SplatForgets DEF SameKind, Same3, IInv, ControlInv
<1>1. PICK U, l, op, v, r :
          /\ Leave(U, l, op, k, r) /\ GoodTable(U, l) /\ Same3(U, T) /\ Alive(U, status)
          /\ Did(MapOf(T), MapOf(U), op, k, v, r) /\ r \in Object \cup {Null}
  BY DEF Returns
<1>2. /\ tbl' = U /\ class' = class
      /\ out' = [op |-> IF op \in {"internRef", "internSet"} THEN "intern" ELSE op,
                 key |-> k, result |-> r]
      /\ status' = IF r \in Object THEN [status EXCEPT ![r] = "held"] ELSE status
  BY <1>1 DEF Leave
<1>3. PICK M, N : M = MapOf(T) /\ N = MapOf(U)
  OBVIOUS
<1>4. [c \in Key |-> Entry(c)]' = N /\ M \in WM!Forgotten
  BY <1>0, <1>2, <1>3, MapNext
<1>5. WM!Same
  BY <1>0, <1>1, <1>2 DEF WM!Same, Same3
<1>6. out'.result = r
  BY <1>2
<1>7. /\ r = Null => Held' = Held
      /\ r # Null => Held' = Held \cup {r}
  BY <1>1, <1>2, Markers DEF Held, IInv, ControlInv, StatusOK
<1>8. WM!NoEntry = Vacant
  BY DEF WM!NoEntry, Vacant
<1>9. M[class[k]] # Vacant => M[class[k]].value \in Object /\ class[k] \in Key
  <2> SUFFICES ASSUME M[class[k]] # Vacant PROVE M[class[k]].value \in Object /\ class[k] \in Key
    OBVIOUS
  <2>1. class[k] \in Key
    BY <1>0 DEF HashOK
  <2>2. PICK i \in Present(T) : class[T.keys[i]] = class[k]
    BY <1>0, <1>3, <2>1, MapIs
  <2>3. M[class[k]] = [key |-> T.keys[i], value |-> T.values[i]] /\ T.values[i] \in Object
    BY <1>0, <1>3, <2>1, <2>2, MapIs
  <2> QED BY <2>1, <2>3
<1>10. CASE op = "set" /\ v \in Object /\ N = StoredIn(M, k, v) /\ r = Null
  <2>1. WM!Store(M, k, v)
    BY <1>4, <1>8, <1>10 DEF WM!Store, StoredIn
  <2>2. WM!Set(M, k, v)
    BY <1>2, <1>5, <1>7, <1>10, <2>1 DEF WM!Set, WM!Return, Held
  <2> QED BY <1>4, <1>10, <2>2 DEF WM!Next, WM!Calls
<1>11. CASE op = "delete" /\ N = [M EXCEPT ![class[k]] = Vacant] /\ r = Null
  <2>1. WM!Delete(M, k)
    BY <1>2, <1>4, <1>5, <1>7, <1>8, <1>11 DEF WM!Delete, WM!Return, Held
  <2> QED BY <1>4, <2>1 DEF WM!Next, WM!Calls
<1>12. CASE op = "ref" /\ N = M /\ r = M[class[k]].value
  <2>1. Held' = Held \cup ({r} \ {Null})
    BY <1>7
  <2>2. WM!Ref(M, k)
    BY <1>2, <1>4, <1>5, <1>6, <1>12, <2>1 DEF WM!Ref, WM!Return, Held
  <2> QED BY <1>4, <2>2 DEF WM!Next, WM!Calls
<1>13. CASE op = "internRef" /\ N = M /\ M[class[k]] # Vacant /\ r = M[class[k]].value
  <2>1. Held' = Held \cup {r}
    BY <1>7, <1>9, <1>13, Markers
  <2>2. WM!Intern(M, k)
    BY <1>2, <1>4, <1>5, <1>8, <1>13, <2>1 DEF WM!Intern, WM!Return, Held
  <2> QED BY <1>4, <2>2 DEF WM!Next, WM!Calls
<1>14. CASE op = "internSet" /\ M[class[k]] = Vacant /\ N = StoredIn(M, k, k) /\ r = k
  <2>1. Held' = Held \cup {k}
    BY <1>7, <1>14, Markers
  <2>2. WM!Store(M, k, k)
    BY <1>4, <1>8, <1>14 DEF WM!Store, StoredIn
  <2>3. WM!Intern(M, k)
    BY <1>2, <1>4, <1>5, <1>8, <1>14, <2>1, <2>2 DEF WM!Intern, WM!Return, Held
  <2> QED BY <1>4, <2>3 DEF WM!Next, WM!Calls
<1> QED BY <1>1, <1>3, <1>10, <1>11, <1>12, <1>13, <1>14 DEF Did

\* A step that neither returns nor forgets is one of the environment.
LEMMA SameMapIsEnvironment ==
  ASSUME out' = Nothing, NEW M, [c \in Key |-> Entry(c)] = M, [c \in Key |-> Entry(c)]' = M
  PROVE  WM!Next
BY DEF WM!Next, WM!Environment, WM!Nothing, Nothing

LEMMA CallImplements ==
  ASSUME IInv, NEW k \in Key, CallGoesOn(k)
  PROVE  WM!Next
<1>1. PICK dead \in SUBSET Collectable : GoesOn(Splat(tbl, dead), MapOf(Splat(tbl, dead)), k)
  BY DEF CallGoesOn
<1>2. PICK T : T = Splat(tbl, dead)
  OBVIOUS
<1>3. CASE Waits(T, MapOf(T), k)
  \* A call that waits may have lost entries to a hit.
  <2>1. PICK U, l, op, v, length, for :
          Rehash(U, l, op, k, v, length, for) /\ MapOf(U) = MapOf(T) /\ Same3(U, T)
    BY <1>3 DEF Waits
  <2>2. tbl' = U /\ class' = class /\ out' = Nothing /\ status' = status
    BY <2>1 DEF Rehash, objects
  <2>3. MapOf(T) \in WM!Forgotten /\ Same3(T, tbl)
    BY <1>2, SplatForgets, AfterSplat DEF SameKind, Same3
  <2>4. [c \in Key |-> Entry(c)]' = MapOf(T)
    BY <2>1, <2>2, MapNext
  <2>5. WM!Same
    BY <2>1, <2>2, <2>3 DEF WM!Same, Same3
  <2>6. WM!Forget(MapOf(T))
    BY <2>2, <2>4, <2>5 DEF WM!Forget, WM!Nothing, Nothing
  <2> QED BY <2>3, <2>6 DEF WM!Next
<1>4. CASE Returns(T, MapOf(T), k)
  BY <1>2, <1>4, ReturnsImplements
<1> QED BY <1>1, <1>2, <1>3, <1>4 DEF GoesOn

LEMMA CollectImplements ==
  ASSUME IInv, MpsCollects
  PROVE  WM!Next
<1>1. PICK dead \in SUBSET Collectable, moved \in SUBSET Key : Collect(dead, moved)
  BY CollectIs
<1>2. PICK U : U = Splat(tbl, dead)
  OBVIOUS
<1>3. /\ tbl' = U /\ class' = class /\ out' = Nothing
      /\ status' = [o \in Object |-> IF o \in dead THEN "none" ELSE status[o]]
  BY <1>1, <1>2 DEF Collect
<1>4. [c \in Key |-> Entry(c)]' = MapOf(U) /\ MapOf(U) \in WM!Forgotten
  BY <1>2, <1>3, MapNext, SplatForgets
<1>5. SameKind(U, tbl)
  BY <1>2, AfterSplat
<1>6. WM!Same
  BY <1>3, <1>5 DEF WM!Same, SameKind
<1>7. Held' = Held
  BY <1>3 DEF Held, Collectable
<1>8. WM!Forget(MapOf(U))
  BY <1>3, <1>4, <1>6, <1>7 DEF WM!Forget, WM!Nothing, Nothing, Held
<1> QED BY <1>4, <1>8 DEF WM!Next

LEMMA NextImplements ==
  ASSUME IInv, [Next]_vars, ~raced'
  PROVE  [WM!Next]_(WM!vars)
<1>1. CASE \E length \in Lengths, eq, wk, wv \in BOOLEAN : MakeTable(length, eq, wk, wv)
  <2>1. PICK length \in Lengths, eq \in BOOLEAN, wk \in BOOLEAN, wv \in BOOLEAN :
          MakeTable(length, eq, wk, wv)
    BY <1>1
  <2>2. /\ class' = class /\ out' = Nothing /\ Present(tbl) = {}
    BY <2>1 DEF MakeTable, IInv, ControlInv
  <2>3. PICK U : U = tbl'
    OBVIOUS
  <2>4. Present(U) = {}
    BY <2>1, <2>3, MakeTableKeeps DEF Present
  <2>5. MapOf(U) = MapOf(tbl)
    BY <2>2, <2>4, EmptyMap
  <2> QED BY <2>2, <2>3, <2>5, MapHere, MapNext, SameMapIsEnvironment
<1>2. CASE Calls \/ RehashReturns
  BY <1>2, CallsGoOn, CallImplements
<1>3. CASE MpsCollects
  BY <1>3, CollectImplements
<1>4. CASE Environment
  <2>1. tbl' = tbl /\ class' = class /\ out' = Nothing
    BY <1>4 DEF Environment, NewObject, DropReference
  <2> QED BY <2>1, MapHere, MapNext, SameMapIsEnvironment
<1>5. CASE Stopped \/ UNCHANGED vars
  BY <1>5 DEF Stopped, vars, WM!vars, Entry, Present
<1> QED BY <1>1, <1>2, <1>3, <1>4, <1>5 DEF Next

\* Probing, rehashing and splatting implement the weak map, up to a call from which a
\* hit takes its entry: a call finds the key it is given, also when that moved since
\* it was stored, and only entries that are weak in a side the program does not hold
\* are lost (metadata.h:585-589, 611, 631).
THEOREM WeakMapIsImplemented == Spec => ImplementsWeakMap
<1>1. Init => WM!Init
  <2> SUFFICES ASSUME Init PROVE WM!Init
    OBVIOUS
  <2>1. Present(tbl) = {} /\ out = Nothing
    BY InitHolds DEF Init, IInv, ControlInv
  <2>2. [c \in Key |-> Entry(c)] = [c \in Key |-> Vacant]
    BY <2>1, MapHere, EmptyMap
  <2> QED BY <2>1, <2>2 DEF WM!Init, WM!NoEntry, Vacant, WM!Nothing, Nothing
<1>2. Safe /\ [Next]_vars => [raced' \/ WM!Next]_(WM!vars)
  <2> SUFFICES ASSUME Safe, [Next]_vars, ~raced' PROVE [WM!Next]_(WM!vars)
    OBVIOUS
  <2>1. IInv
    BY RacedStays DEF Safe
  <2> QED BY <2>1, NextImplements
<1> QED BY <1>1, <1>2, InvariantHolds, PTL DEF Spec, ImplementsWeakMap, WM!vars
=============================================================================
