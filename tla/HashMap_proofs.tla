--------------------------- MODULE HashMap_proofs ---------------------------
(***************************************************************************)
(* Proofs about HashMap for every set of keys and data, every hash         *)
(* function and every capacity: chains stay unbroken through removal,      *)
(* wrap-around and growth, and with them the count, the keys, the          *)
(* iteration and the announced block.                                      *)
(***************************************************************************)
EXTENDS HashMap, FiniteSetTheorems, WellFoundedInduction, TLAPS

----------------------------------------------------------------------------
(* Numbers.                                                                *)

\* A set of naturals has a least element.
LEMMA MinExists ==
  ASSUME NEW S, S \subseteq Nat, S # {}
  PROVE  Min(S) \in S /\ \A y \in S : Min(S) <= y
<1> DEFINE T == {0..n : n \in S}
<1>1. T \subseteq FiniteSubsetsOf(Nat) /\ T # {}
  <2>1. \A n \in S : 0..n \in SUBSET Nat /\ IsFiniteSet(0..n)
    BY FS_Interval
  <2> QED BY <2>1 DEF FiniteSubsetsOf
<1>2. PICK I \in T : \A J \in T : ~(<<J, I>> \in StrictSubsetOrdering(Nat))
  <2> HIDE DEF T
  <2> QED BY <1>1, FS_StrictSubsetOrderingWellFounded, WFMin, Zenon
<1>3. PICK x \in S : I = 0..x
  OBVIOUS
<1>4. \A y \in S : x <= y
  <2> SUFFICES ASSUME NEW y \in S, ~(x <= y) PROVE FALSE
    OBVIOUS
  <2>1. 0..y \in SUBSET Nat /\ 0..x \in SUBSET Nat
    OBVIOUS
  <2>2. 0..y \subseteq 0..x /\ 0..y # 0..x
    <3>1. x \in Nat /\ y \in Nat /\ y < x
      OBVIOUS
    <3> QED BY <3>1
  <2>3. 0..y \in T
    OBVIOUS
  <2> QED BY <1>2, <1>3, <2>1, <2>2, <2>3 DEF StrictSubsetOrdering
<1> QED BY <1>4 DEF Min

\* A remainder is the only number below n that differs by a multiple of n.
LEMMA RemainderIs ==
  ASSUME NEW n \in Nat \ {0}, NEW q \in Int, NEW r \in 0..n - 1
  PROVE  (n * q + r) % n = r
<1> DEFINE a == n * q + r
<1>1. a \in Int /\ a \div n \in Int /\ a % n \in 0..n - 1
  OBVIOUS
<1>2. a = n * (a \div n) + (a % n)
  BY <1>1
<1>3. PICK p \in Int : p = (a \div n) - q
  OBVIOUS
<1>4. n * p = r - (a % n)
  <2>1. n * (a \div n) = n * p + n * q
    BY <1>1, <1>3
  <2> QED BY <2>1, <1>2, <1>1
<1>5. p = 0
  <2>1. CASE p >= 1
    <3>1. n * p >= n
      BY <2>1, <1>3
    <3> QED BY <3>1, <1>4, <1>1
  <2>2. CASE p <= -1
    <3>1. n * p <= -n
      BY <2>2, <1>3
    <3> QED BY <3>1, <1>4, <1>1
  <2> QED BY <2>1, <2>2, <1>3
<1> QED BY <1>5, <1>4, <1>1

\* Going round n slots from slot a: how far slot b is, and the slot d further on.
Gap(n, a, b)  == IF b >= a THEN b - a ELSE b - a + n
Go(n, a, d)   == IF a + d < n THEN a + d ELSE a + d - n

LEMMA GapIs ==
  ASSUME NEW n \in Nat \ {0}, NEW a \in 0..n - 1, NEW b \in 0..n - 1
  PROVE  /\ Gap(n, a, b) \in 0..n - 1 /\ Gap(n, a, a) = 0
         /\ Go(n, a, b) \in 0..n - 1 /\ Gap(n, a, Go(n, a, b)) = b
         /\ Go(n, a, Gap(n, a, b)) = b
BY DEF Gap, Go

LEMMA GapInjective ==
  ASSUME NEW n \in Nat \ {0}, NEW a \in 0..n - 1, NEW b \in 0..n - 1, NEW c \in 0..n - 1,
         Gap(n, a, b) = Gap(n, a, c)
  PROVE  b = c
BY DEF Gap

\* Adding and subtracting below n goes round once.
LEMMA GoesRound ==
  ASSUME NEW n \in Nat \ {0}, NEW a \in 0..n - 1, NEW b \in 0..n - 1
  PROVE  (a + b) % n = Go(n, a, b) /\ (b - a) % n = Gap(n, a, b)
BY DEF Gap, Go

\* The slot a key hashes to.
Home(n, k) == hash[k] % n

LEMMA ProbeGoes ==
  ASSUME NEW n \in Nat \ {0}, NEW k, hash[k] \in Nat, NEW i \in 0..n - 1
  PROVE  /\ Home(n, k) \in 0..n - 1
         /\ Probe(n, k, i) = Go(n, Home(n, k), i)
         /\ Distance(n, k, i) = Gap(n, Home(n, k), i)
<1> DEFINE h == hash[k]
           q == h \div n
           r == h % n
<1>1. h \in Nat /\ q \in Int /\ r \in 0..n - 1 /\ h = n * q + r
  OBVIOUS
<1> HIDE DEF h, q, r
<1>2. (h + i) % n = Go(n, r, i)
  <2>1. CASE r + i < n
    <3>1. r + i \in 0..n - 1 /\ h + i = n * q + (r + i)
      BY <2>1, <1>1
    <3> QED BY <3>1, <1>1, <2>1, RemainderIs DEF Go
  <2>2. CASE ~(r + i < n)
    <3>1. r + i - n \in 0..n - 1 /\ q + 1 \in Int
      BY <2>2, <1>1
    <3>2. h + i = n * (q + 1) + (r + i - n)
      <4>1. n * (q + 1) = n * q + n
        BY <1>1
      <4> QED BY <4>1, <1>1
    <3> QED BY <3>1, <3>2, <2>2, RemainderIs DEF Go
  <2> QED BY <2>1, <2>2
<1>3. (i - h) % n = Gap(n, r, i)
  <2>1. CASE i >= r
    <3>1. i - r \in 0..n - 1 /\ -q \in Int
      BY <2>1, <1>1
    <3>2. i - h = n * (-q) + (i - r)
      <4>1. n * (-q) = -(n * q)
        BY <1>1
      <4> QED BY <4>1, <1>1
    <3> QED BY <3>1, <3>2, <2>1, RemainderIs DEF Gap
  <2>2. CASE ~(i >= r)
    <3>1. i - r + n \in 0..n - 1 /\ -q - 1 \in Int
      BY <2>2, <1>1
    <3>2. i - h = n * (-q - 1) + (i - r + n)
      <4>1. n * (-q - 1) = -(n * q) - n
        BY <1>1
      <4> QED BY <4>1, <1>1
    <3> QED BY <3>1, <3>2, <2>2, RemainderIs DEF Gap
  <2> QED BY <2>1, <2>2
<1> QED BY <1>1, <1>2, <1>3 DEF Home, Probe, Distance, h, r

\* An arc that holds x and y and not what lies between them leads from y to x.
LEMMA ArcHolds ==
  ASSUME NEW n \in Nat \ {0}, NEW i \in 0..n - 1, NEW a \in 0..n - 1,
         NEW x \in 0..n - 1, NEW y \in 0..n - 1, NEW z \in 0..n - 1,
         Gap(n, i, x) <= Gap(n, i, y), Gap(n, i, y) <= Gap(n, i, z),
         Gap(n, a, x) <= Gap(n, a, z)
  PROVE  Gap(n, a, y) <= Gap(n, a, z)
BY DEF Gap

\* An arc that ends at x and holds z, behind x, holds all that lies behind z.
LEMMA ArcWraps ==
  ASSUME NEW n \in Nat \ {0}, NEW i \in 0..n - 1, NEW a \in 0..n - 1,
         NEW x \in 0..n - 1, NEW y \in 0..n - 1, NEW z \in 0..n - 1,
         Gap(n, i, x) < Gap(n, i, z), Gap(n, i, z) <= Gap(n, i, y),
         Gap(n, a, z) <= Gap(n, a, x)
  PROVE  Gap(n, a, y) <= Gap(n, a, x)
BY DEF Gap

----------------------------------------------------------------------------
(* Tables and searches.                                                    *)

Entry     == {NoEntry} \cup [key : Key, data : Data]
Tables(n) == [0..n - 1 -> Entry]

\* The probe sequence of the entry at slot i comes to i before it comes to x.
Avoids(t, n, i, x) ==
  Gap(n, Home(n, t[i].key), i) < Gap(n, Home(n, t[i].key), x)

\* ChainContiguous: no chain crosses an empty slot.
Linked(t, n) ==
  \A i \in Used(t), j \in 0..n - 1 : t[j].key = Null => Avoids(t, n, i, j)

\* A table that is full was filled through its last empty slot: one slot that
\* no other entry's chain crosses remains.
HasCut(t, n) ==
  n > 0 => \E e \in 0..n - 1 : \A i \in Used(t) \ {e} : Avoids(t, n, i, e)

NoTwice(t) == \A i, j \in Used(t) : t[i].key = t[j].key => i = j

\* What removal needs and every call keeps.
Good(t, n) == t \in Tables(n) /\ Linked(t, n) /\ HasCut(t, n) /\ NoTwice(t)

HashOK == hash \in [Key -> Nat]

LEMMA EntryFacts ==
  /\ NoEntry \in Entry /\ NoEntry.key = Null /\ NoEntry.data = Null
  /\ Null \notin Key /\ Null \notin Data
  /\ \A e \in Entry : \/ e = NoEntry /\ e.key = Null
                      \/ e.key \in Key /\ e.data \in Data /\ e.key # Null
  /\ \A k \in Key, d \in Data : [key |-> k, data |-> d] \in Entry
BY SizesOK DEF Entry, NoEntry

LEMMA TableFacts ==
  ASSUME NEW n \in Nat, NEW t \in Tables(n)
  PROVE  /\ DOMAIN t = 0..n - 1 /\ Slots(t) = n
         /\ Used(t) = {i \in 0..n - 1 : t[i].key # Null}
         /\ \A i \in 0..n - 1 : t[i] \in Entry
         /\ \A i \in Used(t) : i \in 0..n - 1 /\ t[i].key \in Key /\ t[i].data \in Data
         /\ IsFiniteSet(Used(t)) /\ Cardinality(Used(t)) \in 0..n
<1>1. DOMAIN t = 0..n - 1 /\ \A i \in 0..n - 1 : t[i] \in Entry
  BY DEF Tables
<1>2. IsFiniteSet(0..n - 1) /\ Cardinality(0..n - 1) = n
  BY FS_Interval
<1>3. Used(t) = {i \in 0..n - 1 : t[i].key # Null}
  BY <1>1 DEF Used
<1>4. IsFiniteSet(Used(t)) /\ Cardinality(Used(t)) <= n
  BY <1>2, <1>3, FS_Subset
<1>5. Cardinality(Used(t)) \in Nat
  BY <1>4, FS_CardinalityType
<1>6. \A i \in Used(t) : i \in 0..n - 1 /\ t[i].key \in Key /\ t[i].data \in Data
  BY <1>1, <1>3, EntryFacts
<1> QED BY <1>1, <1>2, <1>3, <1>4, <1>5, <1>6 DEF Slots

LEMMA BlankGood ==
  ASSUME NEW n \in Nat
  PROVE  Good(Blank(n), n) /\ Used(Blank(n)) = {} /\ Keys(Blank(n)) = {}
<1>1. Blank(n) \in Tables(n) /\ \A i \in 0..n - 1 : Blank(n)[i].key = Null
  BY EntryFacts DEF Blank, Tables
<1>2. Used(Blank(n)) = {}
  BY <1>1, TableFacts
<1>3. HasCut(Blank(n), n)
  BY <1>2 DEF HasCut
<1> QED BY <1>1, <1>2, <1>3 DEF Good, Linked, NoTwice, Keys

\* A search stops at the first slot of the probe sequence that holds k or is
\* empty, and gives up only when no slot of the table is either.
LEMMA FindIs ==
  ASSUME NEW n \in Nat, NEW t \in Tables(n), HashOK, NEW k \in Key
  PROVE  \/ /\ Find(t, k) = NoSlot
            /\ \A j \in 0..n - 1 : t[j].key # k /\ t[j].key # Null
         \/ /\ Find(t, k) \in 0..n - 1 /\ Find(t, k) # NoSlot
            /\ t[Find(t, k)].key \in {k, Null}
            /\ \A j \in 0..n - 1 :
                 t[j].key \in {k, Null}
                   => Gap(n, Home(n, k), Find(t, k)) <= Gap(n, Home(n, k), j)
<1> DEFINE Hits == {d \in 0..n - 1 : t[Probe(n, k, d)].key \in {k, Null}}
           h    == Home(n, k)
<1>1. Find(t, k) = IF Hits = {} THEN NoSlot ELSE Probe(n, k, Min(Hits))
  BY TableFacts DEF Find
<1>2. hash[k] \in Nat
  BY DEF HashOK
<1>3. \A j \in 0..n - 1 :
        /\ n \in Nat \ {0} /\ h \in 0..n - 1 /\ Gap(n, h, j) \in 0..n - 1
        /\ Probe(n, k, j) = Go(n, h, j) /\ Go(n, h, j) \in 0..n - 1
        /\ Gap(n, h, Go(n, h, j)) = j /\ Go(n, h, Gap(n, h, j)) = j
  <2> SUFFICES ASSUME NEW j \in 0..n - 1
               PROVE  /\ n \in Nat \ {0} /\ h \in 0..n - 1 /\ Gap(n, h, j) \in 0..n - 1
                      /\ Probe(n, k, j) = Go(n, h, j) /\ Go(n, h, j) \in 0..n - 1
                      /\ Gap(n, h, Go(n, h, j)) = j /\ Go(n, h, Gap(n, h, j)) = j
    OBVIOUS
  <2>1. n \in Nat \ {0}
    OBVIOUS
  <2>2. h \in 0..n - 1 /\ Probe(n, k, j) = Go(n, h, j)
    BY <2>1, <1>2, ProbeGoes
  <2> HIDE DEF h
  <2> QED BY <2>1, <2>2, GapIs
<1> HIDE DEF h
<1>4. \A j \in 0..n - 1 : t[j].key \in {k, Null} <=> Gap(n, h, j) \in Hits
  BY <1>3
<1>5. CASE Hits = {}
  BY <1>1, <1>4, <1>5
<1>6. CASE Hits # {}
  <2> DEFINE m == Min(Hits)
  <2>1. m \in Hits /\ \A d \in Hits : m <= d
    <3>1. Hits \subseteq Nat
      OBVIOUS
    <3> QED BY <3>1, <1>6, MinExists
  <2>2. Find(t, k) = Go(n, h, m) /\ t[Find(t, k)].key \in {k, Null}
    BY <1>1, <1>3, <1>6, <2>1
  <2> HIDE DEF m, Hits
  <2>3. m \in 0..n - 1
    BY <2>1 DEF Hits
  <2>4. Find(t, k) \in 0..n - 1 /\ Gap(n, h, Find(t, k)) = m
    BY <2>2, <2>3, <1>3
  <2>5. \A j \in 0..n - 1 : t[j].key \in {k, Null} => m <= Gap(n, h, j)
    BY <2>1, <1>4
  <2> QED BY <2>2, <2>4, <2>5 DEF h, NoSlot
<1> QED BY <1>5, <1>6

\* A search finds the entry of a key that is in the table, and otherwise an
\* empty slot or none.
LEMMA SearchFinds ==
  ASSUME NEW n \in Nat, NEW t, Good(t, n), HashOK, NEW k \in Key
  PROVE  /\ \A j \in Used(t) : t[j].key = k => Find(t, k) = j /\ Lookup(t, k) = j
         /\ k \notin Keys(t) =>
              /\ Lookup(t, k) = NoSlot
              /\ \/ Find(t, k) = NoSlot /\ Used(t) = 0..n - 1
                 \/ Find(t, k) \in (0..n - 1) \ Used(t) /\ t[Find(t, k)].key = Null
<1> DEFINE f == Find(t, k)
<1>1. t \in Tables(n) /\ Linked(t, n) /\ NoTwice(t)
  BY DEF Good
<1>2. /\ Used(t) = {i \in 0..n - 1 : t[i].key # Null}
      /\ \A i \in Used(t) : t[i].key \in Key
  BY <1>1, TableFacts
<1>3. \/ f = NoSlot /\ \A j \in 0..n - 1 : t[j].key # k /\ t[j].key # Null
      \/ /\ f \in 0..n - 1 /\ f # NoSlot /\ t[f].key \in {k, Null}
         /\ \A j \in 0..n - 1 :
              t[j].key \in {k, Null} => Gap(n, Home(n, k), f) <= Gap(n, Home(n, k), j)
  BY <1>1, FindIs
<1>4. k # Null
  BY EntryFacts
<1> HIDE DEF f
<1>5. ASSUME NEW j \in Used(t), t[j].key = k PROVE f = j
  <2>1. j \in 0..n - 1 /\ f \in 0..n - 1 /\ t[f].key \in {k, Null}
    BY <1>2, <1>3, <1>5
  <2>2. Gap(n, Home(n, k), f) <= Gap(n, Home(n, k), j)
    BY <1>3, <1>5, <2>1
  <2>3. CASE t[f].key = Null
    <3>1. Avoids(t, n, j, f)
      BY <1>1, <1>5, <2>1, <2>3 DEF Linked
    <3>2. n \in Nat \ {0} /\ hash[k] \in Nat
      BY <2>1 DEF HashOK
    <3>3. Home(n, k) \in 0..n - 1
      BY <3>2, <2>1, ProbeGoes
    <3>4. Gap(n, Home(n, k), f) \in Int /\ Gap(n, Home(n, k), j) \in Int
      BY <3>2, <3>3, <2>1, GapIs
    <3> QED BY <3>1, <3>4, <2>2, <1>5 DEF Avoids
  <2>4. CASE t[f].key = k
    BY <1>1, <1>2, <1>4, <1>5, <2>1, <2>4 DEF NoTwice
  <2> QED BY <2>1, <2>3, <2>4
<1>6. ASSUME k \notin Keys(t)
      PROVE  \/ f = NoSlot /\ Used(t) = 0..n - 1
             \/ f \in (0..n - 1) \ Used(t) /\ t[f].key = Null /\ f # NoSlot
  BY <1>2, <1>3, <1>4, <1>6 DEF Keys
<1> QED BY <1>2, <1>4, <1>5, <1>6 DEF Lookup, f, NoSlot

Inserted(t, x) == [t EXCEPT ![Find(t, x.key)] = x]

\* The free slot that a search found takes the new entry.
LEMMA InsertKeeps ==
  ASSUME NEW n \in Nat, NEW t, Good(t, n), HashOK, NEW x \in [key : Key, data : Data],
         x.key \notin Keys(t), Find(t, x.key) # NoSlot
  PROVE  /\ Good(Inserted(t, x), n) /\ Find(t, x.key) \in (0..n - 1) \ Used(t)
         /\ Used(Inserted(t, x)) = Used(t) \cup {Find(t, x.key)}
         /\ Keys(Inserted(t, x)) = Keys(t) \cup {x.key}
         /\ Inserted(t, x)[Find(t, x.key)] = x
         /\ \A j \in Used(t) : Inserted(t, x)[j] = t[j]
<1> DEFINE k == x.key
           f == Find(t, x.key)
           u == Inserted(t, x)
<1>0. u = [t EXCEPT ![f] = x] /\ f = Find(t, x.key) /\ f # NoSlot
  BY DEF Inserted
<1> HIDE DEF f, u
<1>1. /\ t \in Tables(n) /\ Linked(t, n) /\ NoTwice(t) /\ k \in Key
      /\ t \in [0..n - 1 -> Entry] /\ x \in Entry /\ k # Null
  BY EntryFacts DEF Good, Tables, Entry
<1>2. f \in (0..n - 1) \ Used(t) /\ t[f].key = Null
  BY <1>0, <1>1, SearchFinds
<1>3. /\ u \in Tables(n) /\ u[f] = x
      /\ \A j \in (0..n - 1) \ {f} : u[j] = t[j]
  BY <1>0, <1>1, <1>2 DEF Tables
<1>4. /\ Used(t) = {i \in 0..n - 1 : t[i].key # Null}
      /\ Used(u) = {i \in 0..n - 1 : u[i].key # Null}
  BY <1>1, <1>3, TableFacts
<1>5. Used(u) = Used(t) \cup {f}
  BY <1>1, <1>2, <1>3, <1>4
<1>6. \A j \in Used(t) : u[j] = t[j] /\ j # f /\ j \in 0..n - 1
  BY <1>2, <1>3, <1>4
<1> HIDE DEF k
<1>7. Keys(u) = Keys(t) \cup {k}
  <2>1. \A j \in Used(t) : u[j].key = t[j].key
    BY <1>6
  <2>2. u[f].key = k
    BY <1>3 DEF k
  <2>3. \A y : y \in Keys(u) <=> \E j \in Used(u) : u[j].key = y
    BY DEF Keys
  <2>4. \A y : y \in Keys(t) <=> \E j \in Used(t) : t[j].key = y
    BY DEF Keys
  <2>5. \A y : y \in Keys(u) <=> y \in Keys(t) \/ y = k
    <3> SUFFICES ASSUME NEW y PROVE y \in Keys(u) <=> y \in Keys(t) \/ y = k
      OBVIOUS
    <3>1. ASSUME y \in Keys(u) PROVE y \in Keys(t) \/ y = k
      <4>1. PICK j \in Used(u) : u[j].key = y
        BY <2>3, <3>1
      <4>2. j \in Used(t) \/ j = f
        BY <1>5
      <4> QED BY <4>1, <4>2, <2>1, <2>2, <2>4
    <3>2. ASSUME y \in Keys(t) PROVE y \in Keys(u)
      <4>1. PICK j \in Used(t) : t[j].key = y
        BY <2>4, <3>2
      <4> QED BY <4>1, <2>1, <2>3, <1>5
    <3>3. k \in Keys(u)
      BY <2>2, <2>3, <1>5
    <3> QED BY <3>1, <3>2, <3>3
  <2> QED BY <2>5
<1>8. NoTwice(u)
  <2> SUFFICES ASSUME NEW i \in Used(u), NEW j \in Used(u), u[i].key = u[j].key
               PROVE  i = j
    BY DEF NoTwice
  <2>1. u[f].key = k /\ \A y \in Used(t) : t[y].key # k /\ u[y] = t[y]
    BY <1>3, <1>6 DEF k, Keys
  <2>2. CASE i \in Used(t) /\ j \in Used(t)
    BY <2>1, <2>2, <1>1 DEF NoTwice
  <2>3. CASE i = f \/ j = f
    BY <2>1, <2>3, <1>5
  <2> QED BY <2>2, <2>3, <1>5
<1>9. ASSUME NEW i \in Used(t), NEW j \in 0..n - 1, t[j].key = Null
      PROVE  Avoids(u, n, i, j)
  BY <1>1, <1>6, <1>9 DEF Linked, Avoids
<1>10. HasCut(u, n)
  BY <1>2, <1>5, <1>9 DEF HasCut
<1>11. ASSUME NEW j \in 0..n - 1, t[j].key = Null, j # f
       PROVE  Avoids(u, n, f, j)
  <2>1. Gap(n, Home(n, k), f) <= Gap(n, Home(n, k), j)
    BY <1>0, <1>1, <1>2, <1>11, FindIs DEF k
  <2>2. n \in Nat \ {0} /\ hash[k] \in Nat
    BY <1>1, <1>2 DEF HashOK
  <2>3. Home(n, k) \in 0..n - 1
    BY <2>2, <1>2, ProbeGoes
  <2>4. Gap(n, Home(n, k), f) # Gap(n, Home(n, k), j)
    BY <2>2, <2>3, <1>2, <1>11, GapInjective
  <2>5. Gap(n, Home(n, k), f) \in Int /\ Gap(n, Home(n, k), j) \in Int
    BY <2>2, <2>3, <1>2, GapIs
  <2> QED BY <2>1, <2>4, <2>5, <1>3 DEF Avoids, k
<1>12. Linked(u, n)
  <2> SUFFICES ASSUME NEW i \in Used(u), NEW j \in 0..n - 1, u[j].key = Null
               PROVE  Avoids(u, n, i, j)
    BY DEF Linked
  <2>1. j # f /\ t[j].key = Null
    BY <1>1, <1>3 DEF k
  <2> QED BY <2>1, <1>5, <1>9, <1>11
<1> QED BY <1>2, <1>3, <1>5, <1>6, <1>7, <1>8, <1>10, <1>12 DEF Good, k, u, f

----------------------------------------------------------------------------
(* Removal.                                                                *)

\* w[d] is what the loop of entry_remove has after d of m steps.
IsWalk(w, t, i, m) ==
  w = [d \in 0..m |-> IF d = 0 THEN [t |-> t, hole |-> i, done |-> FALSE]
                      ELSE ShiftStep(i, w[d - 1], d)]

\* The loop has a value after every number of steps.
LEMMA WalkExists ==
  ASSUME NEW t, NEW i, NEW m \in Nat
  PROVE  \E w : IsWalk(w, t, i, m)
<1> DEFINE Is(w, x) == IsWalk(w, t, i, x)
           Bad == {x \in 0..m : ~\E w : Is(w, x)}
<1>1. Bad = {}
  <2> SUFFICES ASSUME Bad # {} PROVE FALSE
    OBVIOUS
  <2> DEFINE b == Min(Bad)
  <2>1. b \in Bad /\ \A x \in Bad : b <= x
    <3>1. Bad \subseteq Nat
      OBVIOUS
    <3> QED BY <3>1, MinExists
  <2> HIDE DEF b
  <2>2. b \in Nat /\ b <= m /\ ~\E w : Is(w, b)
    BY <2>1
  <2>3. b # 0
    <3> DEFINE w == [d \in 0..0 |-> [t |-> t, hole |-> i, done |-> FALSE]]
    <3>1. Is(w, 0)
      BY DEF IsWalk
    <3> QED BY <3>1, <2>2
  <2>4. PICK w : Is(w, b - 1)
    <3> HIDE DEF Is
    <3>1. b - 1 \in 0..m /\ ~(b <= b - 1)
      BY <2>2, <2>3
    <3>2. b - 1 \notin Bad
      BY <3>1, <2>1
    <3> QED BY <3>1, <3>2
  <2> DEFINE v == [d \in 0..b |-> IF d = b THEN ShiftStep(i, w[b - 1], b) ELSE w[d]]
  <2>5. \A d \in 0..b : v[d] = IF d = 0 THEN [t |-> t, hole |-> i, done |-> FALSE]
                               ELSE ShiftStep(i, v[d - 1], d)
    <3> SUFFICES ASSUME NEW d \in 0..b
                 PROVE  v[d] = IF d = 0 THEN [t |-> t, hole |-> i, done |-> FALSE]
                               ELSE ShiftStep(i, v[d - 1], d)
      OBVIOUS
    <3>1. CASE d = b
      <4>1. v[d - 1] = w[b - 1]
        BY <3>1, <2>2, <2>3
      <4> QED BY <4>1, <3>1, <2>2, <2>3
    <3>2. CASE d # b
      <4>1. d \in 0..b - 1 /\ v[d] = w[d]
        BY <3>2, <2>2
      <4>2. d # 0 => v[d - 1] = w[d - 1]
        BY <4>1, <2>2
      <4> QED BY <4>1, <4>2, <2>4 DEF IsWalk
    <3> QED BY <3>1, <3>2
  <2>6. Is(v, b)
    <3> DEFINE g == [d \in 0..b |-> IF d = 0 THEN [t |-> t, hole |-> i, done |-> FALSE]
                                    ELSE ShiftStep(i, v[d - 1], d)]
    <3>1. \A d \in 0..b : v[d] = g[d]
      BY <2>5
    <3> QED BY <3>1 DEF IsWalk
  <2> QED BY <2>2, <2>6
<1> QED BY <1>1

LEMMA ShiftBackIs ==
  ASSUME NEW t, NEW i, NEW m \in Nat
  PROVE  \E w : /\ w[0] = [t |-> t, hole |-> i, done |-> FALSE]
                /\ \A d \in 1..m : w[d] = ShiftStep(i, w[d - 1], d)
                /\ ShiftBack(t, i, m) = [w[m].t EXCEPT ![w[m].hole] = NoEntry]
<1> DEFINE w == CHOOSE w : IsWalk(w, t, i, m)
<1>1. IsWalk(w, t, i, m)
  BY WalkExists
<1>2. ShiftBack(t, i, m) = [w[m].t EXCEPT ![w[m].hole] = NoEntry]
  BY DEF ShiftBack, IsWalk
<1> HIDE DEF w
<1>3. w[0] = [t |-> t, hole |-> i, done |-> FALSE]
  BY <1>1 DEF IsWalk
<1>4. \A d \in 1..m : w[d] = ShiftStep(i, w[d - 1], d)
  <2> SUFFICES ASSUME NEW d \in 1..m PROVE w[d] = ShiftStep(i, w[d - 1], d)
    OBVIOUS
  <2> DEFINE g == [x \in 0..m |-> IF x = 0 THEN [t |-> t, hole |-> i, done |-> FALSE]
                                  ELSE ShiftStep(i, w[x - 1], x)]
  <2>1. w = g
    BY <1>1 DEF IsWalk
  <2>2. g[d] = ShiftStep(i, w[d - 1], d)
    OBVIOUS
  <2> QED BY <2>1, <2>2
<1> QED BY <1>2, <1>3, <1>4

Walks(n) == [t : Tables(n), hole : 0..n - 1, done : BOOLEAN]

\* After c slots behind slot i of t: the free slot is not behind e, no chain of an
\* entry that was passed crosses it, and the entries are those of t without the
\* one at i, none nearer to i than ...: an entry only moves towards i.
Passed(t, n, i, e, s, c) ==
  /\ Used(s.t) = Used(t) /\ s.hole \in Used(t)
  /\ Gap(n, i, s.hole) <= c /\ Gap(n, i, s.hole) <= Gap(n, i, e)
  /\ \A j \in Used(t) \ {s.hole} : Gap(n, i, j) <= c => Avoids(s.t, n, j, s.hole)
  /\ \A j \in 0..n - 1 : Gap(n, i, j) > c => s.t[j] = t[j]
  /\ \A j \in Used(t) \ {s.hole, e} : Avoids(s.t, n, j, e)
  /\ \A j \in Used(t) \ {s.hole}, x \in (0..n - 1) \ Used(t) : Avoids(s.t, n, j, x)
  /\ \A j \in Used(t) \ {s.hole} :
       \E y \in Used(t) \ {i} : t[y] = s.t[j] /\ Gap(n, i, j) <= Gap(n, i, y)
  /\ \A y \in Used(t) \ {i} : \E j \in Used(t) \ {s.hole} : s.t[j] = t[y]
  /\ \A j, x \in Used(t) \ {s.hole} : s.t[j].key = s.t[x].key => j = x

\* The slots a walk deals with and where their keys hash to.
LEMMA HomeIs ==
  ASSUME NEW n \in Nat \ {0}, NEW t \in Tables(n), HashOK, NEW j \in Used(t)
  PROVE  /\ j \in 0..n - 1 /\ Home(n, t[j].key) \in 0..n - 1
         /\ Distance(n, t[j].key, j) = Gap(n, Home(n, t[j].key), j)
         /\ \A x \in 0..n - 1 :
              /\ Distance(n, t[j].key, x) = Gap(n, Home(n, t[j].key), x)
              /\ Gap(n, Home(n, t[j].key), x) \in 0..n - 1
<1>1. j \in 0..n - 1 /\ t[j].key \in Key
  BY TableFacts
<1>2. hash[t[j].key] \in Nat
  BY <1>1 DEF HashOK
<1> DEFINE h == Home(n, t[j].key)
<1>3. h \in 0..n - 1 /\ \A x \in 0..n - 1 : Distance(n, t[j].key, x) = Gap(n, h, x)
  BY <1>1, <1>2, ProbeGoes
<1> HIDE DEF h
<1>4. \A x \in 0..n - 1 : Gap(n, h, x) \in 0..n - 1
  BY <1>3, GapIs
<1> QED BY <1>1, <1>3, <1>4 DEF h

\* An entry whose chain does not cross the free slot stays.
LEMMA PassStays ==
  ASSUME NEW n \in Nat \ {0}, NEW t \in Tables(n), HashOK, NEW i \in 0..n - 1,
         NEW e \in 0..n - 1, NEW s \in Walks(n), NEW c \in Nat, c + 1 < n,
         Passed(t, n, i, e, s, c), NEW j, j = Go(n, i, c + 1), j \in Used(t),
         ~(Distance(n, s.t[j].key, j) > Distance(n, s.t[j].key, s.hole))
  PROVE  Passed(t, n, i, e, s, c + 1)
<1>1. j \in 0..n - 1 /\ Gap(n, i, j) = c + 1 /\ s.hole \in 0..n - 1 /\ s.t \in Tables(n)
  <2>1. c + 1 \in 0..n - 1
    OBVIOUS
  <2> QED BY <2>1, GapIs DEF Walks
<1>2. \A x \in 0..n - 1 : Gap(n, i, x) \in 0..n - 1
  BY GapIs
<1>3. j \in Used(s.t) /\ s.hole # j
  BY <1>1 DEF Passed
<1>4. Avoids(s.t, n, j, s.hole)
  <2>1. /\ Home(n, s.t[j].key) \in 0..n - 1
        /\ Distance(n, s.t[j].key, j) = Gap(n, Home(n, s.t[j].key), j)
        /\ Distance(n, s.t[j].key, s.hole) = Gap(n, Home(n, s.t[j].key), s.hole)
        /\ Gap(n, Home(n, s.t[j].key), j) \in 0..n - 1
        /\ Gap(n, Home(n, s.t[j].key), s.hole) \in 0..n - 1
    BY <1>1, <1>3, HomeIs
  <2>2. Gap(n, Home(n, s.t[j].key), j) # Gap(n, Home(n, s.t[j].key), s.hole)
    BY <1>1, <1>3, <2>1, GapInjective
  <2> QED BY <2>1, <2>2 DEF Avoids
<1>5. ASSUME NEW x \in Used(t) \ {s.hole}, Gap(n, i, x) <= c + 1
      PROVE  Avoids(s.t, n, x, s.hole)
  <2>1. x \in 0..n - 1 /\ Gap(n, i, x) \in Int
    BY <1>2, TableFacts
  <2>2. CASE Gap(n, i, x) <= c
    BY <2>2 DEF Passed
  <2>3. CASE Gap(n, i, x) = c + 1
    <3>1. x = j
      BY <1>1, <2>1, <2>3, GapInjective
    <3> QED BY <3>1, <1>4
  <2> QED BY <2>1, <2>2, <2>3, <1>5
<1>6. \A x \in 0..n - 1 : Gap(n, i, x) > c + 1 => s.t[x] = t[x]
  <2>1. \A x \in 0..n - 1 : Gap(n, i, x) > c + 1 => Gap(n, i, x) > c
    BY <1>2
  <2> QED BY <2>1 DEF Passed
<1>7. Gap(n, i, s.hole) <= c + 1
  <2>1. Gap(n, i, s.hole) <= c /\ Gap(n, i, s.hole) \in Int
    BY <1>1, <1>2 DEF Passed
  <2> QED BY <2>1
<1> QED BY <1>5, <1>6, <1>7 DEF Passed

\* An entry whose chain crosses the free slot moves there and leaves its own.
LEMMA PassMoves ==
  ASSUME NEW n \in Nat \ {0}, NEW t \in Tables(n), HashOK, NEW i \in 0..n - 1,
         NEW e \in 0..n - 1, NEW s \in Walks(n), NEW c \in Nat, c + 1 < n,
         Passed(t, n, i, e, s, c), NEW j, j = Go(n, i, c + 1), j \in Used(t),
         Distance(n, s.t[j].key, j) > Distance(n, s.t[j].key, s.hole),
         NEW r, r = [t |-> [s.t EXCEPT ![s.hole] = s.t[j]], hole |-> j, done |-> FALSE]
  PROVE  Passed(t, n, i, e, r, c + 1) /\ r \in Walks(n)
<1> DEFINE h == s.hole
           hj == Home(n, s.t[j].key)
<1>1. /\ j \in 0..n - 1 /\ Gap(n, i, j) = c + 1 /\ h \in 0..n - 1 /\ s.t \in Tables(n)
      /\ c + 1 \in 0..n - 1
  <2>1. c + 1 \in 0..n - 1
    OBVIOUS
  <2> QED BY <2>1, GapIs DEF Walks
<1>2. \A x \in 0..n - 1 : Gap(n, i, x) \in 0..n - 1
  BY GapIs
<1>3. j \in Used(s.t) /\ h # j /\ Gap(n, i, h) <= c /\ h \in Used(t) /\ Used(s.t) = Used(t)
  BY <1>1 DEF Passed
<1>4. /\ hj \in 0..n - 1 /\ Gap(n, hj, h) < Gap(n, hj, j)
      /\ \A x \in 0..n - 1 : Gap(n, hj, x) \in 0..n - 1
  <2>1. /\ hj \in 0..n - 1 /\ Distance(n, s.t[j].key, j) = Gap(n, hj, j)
        /\ Distance(n, s.t[j].key, h) = Gap(n, hj, h)
        /\ Gap(n, hj, j) \in 0..n - 1 /\ Gap(n, hj, h) \in 0..n - 1
        /\ \A x \in 0..n - 1 : Gap(n, hj, x) \in 0..n - 1
    <3>1. PICK u : u = s.t
      BY Zenon
    <3>2. u \in Tables(n) /\ j \in Used(u)
      BY <1>1, <1>3, <3>1
    <3>3. /\ Home(n, u[j].key) \in 0..n - 1
          /\ Distance(n, u[j].key, j) = Gap(n, Home(n, u[j].key), j)
          /\ \A x \in 0..n - 1 : /\ Distance(n, u[j].key, x) = Gap(n, Home(n, u[j].key), x)
                                 /\ Gap(n, Home(n, u[j].key), x) \in 0..n - 1
      BY <3>2, HomeIs
    <3> QED BY <1>1, <3>1, <3>3, Zenon
  <2> QED BY <2>1
<1> HIDE DEF hj
<1>5. /\ r.hole = j /\ r.t \in Tables(n) /\ r.t[h] = s.t[j] /\ r.done = FALSE
      /\ \A x \in (0..n - 1) \ {h} : r.t[x] = s.t[x]
  <2>1. s.t[j] \in Entry
    BY <1>1, TableFacts
  <2> QED BY <2>1, <1>1 DEF Tables
<1>6. r \in Walks(n)
  BY <1>1, <1>5 DEF Walks
<1>7. Used(r.t) = Used(t)
  <2>1. Used(s.t) = {x \in 0..n - 1 : s.t[x].key # Null}
        /\ Used(r.t) = {x \in 0..n - 1 : r.t[x].key # Null}
    BY <1>1, <1>5, TableFacts
  <2>2. \A x \in 0..n - 1 : s.t[x].key # Null <=> r.t[x].key # Null
    BY <2>1, <1>3, <1>5
  <2> QED BY <2>1, <2>2, <1>3
<1>8. \A x \in Used(t) : x \in 0..n - 1 /\ Gap(n, i, x) \in 0..n - 1
  BY <1>2, TableFacts
\* the chain of the moved entry is part of what it was
<1>9. /\ \A x \in 0..n - 1 : Avoids(s.t, n, j, x) => Avoids(r.t, n, h, x)
      /\ Avoids(r.t, n, h, j)
  <2>1. \A x \in 0..n - 1 : Avoids(r.t, n, h, x) <=> Gap(n, hj, h) < Gap(n, hj, x)
    BY <1>5 DEF Avoids, hj
  <2>2. \A x \in 0..n - 1 : Avoids(s.t, n, j, x) <=> Gap(n, hj, j) < Gap(n, hj, x)
    BY DEF Avoids, hj
  <2> QED BY <2>1, <2>2, <1>1, <1>4
<1>10. \A x \in Used(t) \ {h} : \A y \in 0..n - 1 : Avoids(r.t, n, x, y) <=> Avoids(s.t, n, x, y)
  BY <1>5, <1>8 DEF Avoids
\* the walk has not gone beyond e
<1>11. Gap(n, i, j) <= Gap(n, i, e)
  <2> SUFFICES ASSUME Gap(n, i, j) > Gap(n, i, e) PROVE FALSE
    BY <1>1, <1>2
  <2>1. j # e
    BY <1>1, <1>2
  <2>2. Gap(n, hj, j) < Gap(n, hj, e)
    BY <2>1, <1>3 DEF Passed, Avoids, hj
  <2>3. Gap(n, i, h) <= Gap(n, i, e) /\ Gap(n, i, e) <= Gap(n, i, j)
    BY <1>1, <1>2 DEF Passed
  <2>4. Gap(n, hj, h) <= Gap(n, hj, j)
    BY <1>1, <1>4
  <2>5. Gap(n, hj, e) <= Gap(n, hj, j)
    <3>1. hj \in 0..n - 1 /\ h \in 0..n - 1 /\ j \in 0..n - 1
      BY <1>1, <1>4
    <3> HIDE DEF h
    <3> QED BY <3>1, <2>3, <2>4, ArcHolds
  <2> QED BY <2>2, <2>5, <1>1, <1>4
<1>12. ASSUME NEW x \in Used(t) \ {j}, Gap(n, i, x) <= c + 1 PROVE Avoids(r.t, n, x, j)
  <2>1. CASE x = h
    BY <2>1, <1>9
  <2>2. CASE x # h
    <3>1. Gap(n, i, x) < Gap(n, i, j)
      <4>1. Gap(n, i, x) # Gap(n, i, j)
        BY <1>1, <1>8, GapInjective
      <4> QED BY <4>1, <1>1, <1>8, <1>12
    <3>2. x # e
      BY <3>1, <1>1, <1>2, <1>11
    <3>3. Avoids(s.t, n, x, e)
      BY <2>2, <3>2 DEF Passed
    <3> DEFINE a == Home(n, s.t[x].key)
    <3>4. a \in 0..n - 1 /\ \A y \in 0..n - 1 : Gap(n, a, y) \in 0..n - 1
      BY <1>1, <1>3, HomeIs
    <3> HIDE DEF a
    <3>5. Gap(n, a, x) < Gap(n, a, e)
      BY <3>3 DEF Avoids, a
    <3>6. Gap(n, a, x) < Gap(n, a, j)
      <4> SUFFICES ASSUME Gap(n, a, j) <= Gap(n, a, x) PROVE FALSE
        BY <3>4, <1>1, <1>8
      <4>1. Gap(n, a, e) <= Gap(n, a, x)
        <5>1. a \in 0..n - 1 /\ x \in 0..n - 1 /\ j \in 0..n - 1
          BY <3>4, <1>1, <1>8
        <5> QED BY <5>1, <3>1, <1>11, ArcWraps
      <4> QED BY <4>1, <3>4, <3>5, <1>8
    <3>7. Avoids(s.t, n, x, j)
      BY <3>6 DEF Avoids, a
    <3> QED BY <3>7, <2>2, <1>1, <1>10
  <2> QED BY <2>1, <2>2
<1>13. \A x \in 0..n - 1 : Gap(n, i, x) > c + 1 => r.t[x] = t[x]
  <2> SUFFICES ASSUME NEW x \in 0..n - 1, Gap(n, i, x) > c + 1 PROVE r.t[x] = t[x]
    OBVIOUS
  <2>1. Gap(n, i, x) > c /\ x # h
    BY <1>2, <1>3
  <2> QED BY <2>1, <1>5 DEF Passed
<1>14. \A x \in Used(t) \ {j, e} : Avoids(r.t, n, x, e)
  <2> SUFFICES ASSUME NEW x \in Used(t) \ {j, e} PROVE Avoids(r.t, n, x, e)
    OBVIOUS
  <2>1. CASE x # h
    BY <2>1, <1>10 DEF Passed
  <2>2. CASE x = h /\ j = e
    BY <2>2, <1>9
  <2>3. CASE x = h /\ j # e
    BY <2>3, <1>3, <1>9 DEF Passed
  <2> QED BY <2>1, <2>2, <2>3
<1>15. \A x \in Used(t) \ {j}, y \in (0..n - 1) \ Used(t) : Avoids(r.t, n, x, y)
  <2> SUFFICES ASSUME NEW x \in Used(t) \ {j}, NEW y \in (0..n - 1) \ Used(t)
               PROVE  Avoids(r.t, n, x, y)
    OBVIOUS
  <2>1. CASE x # h
    BY <2>1, <1>10 DEF Passed
  <2>2. CASE x = h
    BY <2>2, <1>3, <1>9 DEF Passed
  <2> QED BY <2>1, <2>2
<1>16. \A x \in Used(t) \ {j} :
         \E y \in Used(t) \ {i} : t[y] = r.t[x] /\ Gap(n, i, x) <= Gap(n, i, y)
  <2> SUFFICES ASSUME NEW x \in Used(t) \ {j}
               PROVE  \E y \in Used(t) \ {i} : t[y] = r.t[x] /\ Gap(n, i, x) <= Gap(n, i, y)
    OBVIOUS
  <2>1. CASE x # h
    BY <2>1, <1>5, <1>8 DEF Passed
  <2>2. CASE x = h
    <3>1. PICK y \in Used(t) \ {i} : t[y] = s.t[j] /\ Gap(n, i, j) <= Gap(n, i, y)
      BY <1>3 DEF Passed
    <3>2. Gap(n, i, x) <= Gap(n, i, y)
      BY <3>1, <2>2, <1>1, <1>3, <1>8
    <3> QED BY <3>1, <3>2, <2>2, <1>5
  <2> QED BY <2>1, <2>2
<1>17. \A y \in Used(t) \ {i} : \E x \in Used(t) \ {j} : r.t[x] = t[y]
  <2> SUFFICES ASSUME NEW y \in Used(t) \ {i}
               PROVE  \E x \in Used(t) \ {j} : r.t[x] = t[y]
    OBVIOUS
  <2>1. PICK x \in Used(t) \ {h} : s.t[x] = t[y]
    BY DEF Passed
  <2>2. CASE x = j
    BY <2>1, <2>2, <1>3, <1>5
  <2>3. CASE x # j
    BY <2>1, <2>3, <1>5, <1>8
  <2> QED BY <2>2, <2>3
<1>18. \A x, y \in Used(t) \ {j} : r.t[x].key = r.t[y].key => x = y
  <2> SUFFICES ASSUME NEW x \in Used(t) \ {j}, NEW y \in Used(t) \ {j},
                      r.t[x].key = r.t[y].key
               PROVE  x = y
    OBVIOUS
  <2> DEFINE at(z) == IF z = h THEN j ELSE z
  <2>1. at(x) \in Used(t) \ {h} /\ at(y) \in Used(t) \ {h}
    BY <1>3
  <2>2. s.t[at(x)] = r.t[x] /\ s.t[at(y)] = r.t[y]
    BY <1>5, <1>8
  <2>3. at(x) = at(y)
    <3> HIDE DEF at
    <3> QED BY <2>1, <2>2 DEF Passed
  <2> QED BY <2>3
<1>19. Gap(n, i, r.hole) <= c + 1 /\ Gap(n, i, r.hole) <= Gap(n, i, e) /\ r.hole \in Used(t)
  BY <1>1, <1>2, <1>5, <1>11
<1> HIDE DEF h
<1> QED BY <1>5, <1>6, <1>7, <1>12, <1>13, <1>14, <1>15, <1>16, <1>17, <1>18, <1>19 DEF Passed

\* The walk after d steps: c slots were passed, and an empty slot ends it.
Walked(t, n, i, e, s, d) ==
  /\ s \in Walks(n)
  /\ \E c \in 0..d :
       /\ c < n /\ Passed(t, n, i, e, s, c)
       /\ \A x \in 0..c : Go(n, i, x) \in Used(t)
       /\ IF s.done THEN c + 1 < n /\ Go(n, i, c + 1) \notin Used(t) ELSE c = d

LEMMA WalkStarts ==
  ASSUME NEW n \in Nat, NEW t, Good(t, n), HashOK, NEW i \in Used(t),
         NEW e \in 0..n - 1, \A j \in Used(t) \ {e} : Avoids(t, n, j, e)
  PROVE  Walked(t, n, i, e, [t |-> t, hole |-> i, done |-> FALSE], 0)
<1> DEFINE s == [t |-> t, hole |-> i, done |-> FALSE]
<1>1. t \in Tables(n) /\ i \in 0..n - 1 /\ n \in Nat \ {0}
  BY TableFacts DEF Good
<1>2. /\ \A j \in 0..n - 1 : Gap(n, i, j) \in 0..n - 1 /\ (Gap(n, i, j) <= 0 => j = i)
      /\ Gap(n, i, i) = 0 /\ Go(n, i, 0) = i
  BY <1>1 DEF Gap, Go
<1>3. \A j \in Used(t) : j \in 0..n - 1 /\ t[j].key # Null
  BY <1>1, TableFacts
<1>4. s \in Walks(n) /\ s.t = t /\ s.hole = i /\ s.done = FALSE
  BY <1>1 DEF Walks
<1> HIDE DEF s
<1>5. \A j \in Used(t) \ {i} : t[j] = t[j] /\ Gap(n, i, j) <= Gap(n, i, j)
  BY <1>2, <1>3
<1>6. \A j \in Used(t), x \in (0..n - 1) \ Used(t) : Avoids(t, n, j, x)
  <2>1. \A x \in (0..n - 1) \ Used(t) : t[x].key = Null
    BY <1>1, TableFacts
  <2> QED BY <2>1 DEF Good, Linked
<1>7. Passed(t, n, i, e, s, 0)
  BY <1>2, <1>3, <1>4, <1>5, <1>6 DEF Passed, Good, NoTwice
<1>8. \A x \in 0..0 : Go(n, i, x) \in Used(t)
  BY <1>2
<1> QED BY <1>1, <1>4, <1>7, <1>8 DEF Walked, s

LEMMA WalkContinues ==
  ASSUME NEW n \in Nat, NEW t \in Tables(n), HashOK, NEW i \in Used(t),
         NEW e \in 0..n - 1, NEW d \in Nat \ {0}, d < n, NEW s,
         Walked(t, n, i, e, s, d - 1)
  PROVE  Walked(t, n, i, e, ShiftStep(i, s, d), d)
<1>1. PICK c \in 0..d - 1 :
        /\ c < n /\ Passed(t, n, i, e, s, c)
        /\ \A x \in 0..c : Go(n, i, x) \in Used(t)
        /\ IF s.done THEN c + 1 < n /\ Go(n, i, c + 1) \notin Used(t) ELSE c = d - 1
  BY DEF Walked
<1>2. /\ n \in Nat \ {0} /\ i \in 0..n - 1 /\ s \in Walks(n) /\ c \in Nat /\ d \in 0..n - 1
      /\ s.t \in Tables(n) /\ s.hole \in 0..n - 1 /\ s.done \in BOOLEAN /\ Used(s.t) = Used(t)
  BY <1>1, TableFacts DEF Walked, Walks, Passed
<1> DEFINE j == (i + d) % n
           k == s.t[j].key
           over == [s EXCEPT !.done = TRUE]
           moved == [t |-> [s.t EXCEPT ![s.hole] = s.t[j]], hole |-> j, done |-> FALSE]
<1>3. j = Go(n, i, d) /\ j \in 0..n - 1
  <2>1. (i + d) % n = Go(n, i, d)
    BY <1>2, GoesRound
  <2>2. Go(n, i, d) \in 0..n - 1
    BY <1>2, GapIs
  <2> QED BY <2>1, <2>2
<1>4. ShiftStep(i, s, d) = IF s.done \/ k = Null THEN over
                           ELSE IF Distance(n, k, j) > Distance(n, k, s.hole)
                           THEN moved ELSE s
  <2>1. Slots(s.t) = n
    BY <1>2, TableFacts
  <2> QED BY <2>1 DEF ShiftStep
<1> HIDE DEF j
<1>5. k = Null <=> j \notin Used(t)
  BY <1>2, <1>3, TableFacts
<1>6. over \in Walks(n) /\ over.done = TRUE /\ over.t = s.t /\ over.hole = s.hole
  BY <1>2 DEF Walks
<1>7. CASE s.done \/ k = Null
  <2>1. ShiftStep(i, s, d) = over
    BY <1>4, <1>7
  <2> HIDE DEF over, moved, k
  <2>2. Passed(t, n, i, e, over, c)
    BY <1>1, <1>6 DEF Passed
  <2>3. c + 1 < n /\ Go(n, i, c + 1) \notin Used(t)
    <3>1. CASE s.done
      BY <1>1, <3>1
    <3>2. CASE ~s.done /\ k = Null
      BY <1>1, <1>2, <1>3, <1>5, <3>2
    <3> QED BY <3>1, <3>2, <1>7
  <2>4. c \in 0..d
    BY <1>1
  <2> QED BY <2>1, <2>2, <2>3, <2>4, <1>1, <1>6 DEF Walked
<1>8. CASE ~(s.done \/ k = Null)
  <2>1. c = d - 1 /\ c + 1 = d /\ c + 1 < n /\ j \in Used(t) /\ s.done = FALSE
    BY <1>1, <1>2, <1>5, <1>8
  <2>2. \A x \in 0..c + 1 : Go(n, i, x) \in Used(t)
    BY <1>1, <1>3, <2>1
  <2>3. CASE Distance(n, k, j) > Distance(n, k, s.hole)
    <3>1. ShiftStep(i, s, d) = moved
      BY <1>4, <1>8, <2>3
    <3>2. Passed(t, n, i, e, moved, c + 1) /\ moved \in Walks(n)
      BY <1>1, <1>2, <1>3, <2>1, <2>3, PassMoves
    <3>3. moved.done = FALSE
      OBVIOUS
    <3> HIDE DEF moved
    <3> QED BY <3>1, <3>2, <3>3, <2>1, <2>2 DEF Walked
  <2>4. CASE ~(Distance(n, k, j) > Distance(n, k, s.hole))
    <3>1. ShiftStep(i, s, d) = s
      BY <1>4, <1>8, <2>4
    <3>2. Passed(t, n, i, e, s, c + 1)
      BY <1>1, <1>2, <1>3, <2>1, <2>4, PassStays
    <3> QED BY <3>1, <3>2, <1>2, <2>1, <2>2 DEF Walked
  <2> QED BY <2>3, <2>4
<1> QED BY <1>7, <1>8

\* A walk over as many slots as other entries leaves no chain across the free slot.
LEMMA WalkEnds ==
  ASSUME NEW n \in Nat, NEW t \in Tables(n), HashOK, NEW i \in Used(t),
         NEW e \in 0..n - 1, NEW s,
         Walked(t, n, i, e, s, Cardinality(Used(t)) - 1)
  PROVE  \A j \in Used(t) \ {s.hole} : Avoids(s.t, n, j, s.hole)
<1> DEFINE m == Cardinality(Used(t)) - 1
<1>1. PICK c \in 0..m :
        /\ c < n /\ Passed(t, n, i, e, s, c)
        /\ \A x \in 0..c : Go(n, i, x) \in Used(t)
        /\ IF s.done THEN c + 1 < n /\ Go(n, i, c + 1) \notin Used(t) ELSE c = m
  BY DEF Walked
<1>2. /\ n \in Nat \ {0} /\ i \in 0..n - 1 /\ s.t \in Tables(n) /\ s.hole \in 0..n - 1
      /\ Used(s.t) = Used(t) /\ IsFiniteSet(Used(t)) /\ Cardinality(Used(t)) \in Nat
      /\ \A j \in Used(t) : j \in 0..n - 1
  BY <1>1, TableFacts DEF Walked, Walks, Passed
<1> HIDE DEF m
<1>3. \A j \in 0..n - 1 : Gap(n, i, j) \in 0..n - 1
  BY <1>2, GapIs
<1> SUFFICES ASSUME NEW j \in Used(t) \ {s.hole} PROVE Avoids(s.t, n, j, s.hole)
  OBVIOUS
<1>4. CASE Gap(n, i, j) <= c
  BY <1>1, <1>4 DEF Passed
<1>5. CASE Gap(n, i, j) > c /\ s.done
  <2> DEFINE z == Go(n, i, c + 1)
             a == Home(n, s.t[j].key)
  <2>1. z \in (0..n - 1) \ Used(t) /\ Gap(n, i, z) = c + 1
    BY <1>1, <1>2, <1>5, GapIs
  <2>2. Avoids(s.t, n, j, z)
    BY <1>1, <2>1 DEF Passed
  <2>3. j \in 0..n - 1 /\ a \in 0..n - 1 /\ \A x \in 0..n - 1 : Gap(n, a, x) \in 0..n - 1
    BY <1>2, HomeIs
  <2> HIDE DEF a, z
  <2>4. Gap(n, a, j) < Gap(n, a, z)
    BY <2>2 DEF Avoids, a
  <2>5. Gap(n, i, s.hole) <= Gap(n, i, z) /\ Gap(n, i, z) <= Gap(n, i, j)
    BY <1>1, <1>2, <1>3, <1>5, <2>1, <2>3 DEF Passed
  <2>6. Gap(n, a, j) < Gap(n, a, s.hole)
    <3> SUFFICES ASSUME Gap(n, a, s.hole) <= Gap(n, a, j) PROVE FALSE
      BY <1>2, <2>3
    <3>1. Gap(n, a, z) <= Gap(n, a, j)
      BY <1>2, <2>1, <2>3, <2>5, ArcHolds
    <3> QED BY <3>1, <2>1, <2>3, <2>4
  <2> QED BY <2>6 DEF Avoids, a
<1>6. CASE Gap(n, i, j) > c /\ ~s.done
  <2> DEFINE f == [x \in 0..m |-> Go(n, i, x)]
  <2>1. c = m /\ m \in Nat /\ m < n /\ m + 1 = Cardinality(Used(t))
    BY <1>1, <1>2, <1>6 DEF m
  <2>2. \A x \in 0..m : f[x] \in Used(t) /\ Gap(n, i, f[x]) = x
    <3>1. \A x \in 0..m : x \in 0..n - 1
      BY <2>1
    <3>2. \A x \in 0..n - 1 : Gap(n, i, Go(n, i, x)) = x
      BY <1>2, GapIs
    <3>3. \A x \in 0..m : Go(n, i, x) \in Used(t)
      BY <1>1, <2>1
    <3> QED BY <3>1, <3>2, <3>3
  <2>3. f \in Injection(0..m, Used(t))
    BY <2>2 DEF Injection, IsInjective
  <2>4. IsFiniteSet(0..m) /\ Cardinality(0..m) = m + 1
    BY <2>1, FS_Interval
  <2>5. f \in Surjection(0..m, Used(t))
    <3> HIDE DEF f
    <3> QED BY <2>1, <2>3, <2>4, <1>2, FS_Injection
  <2>6. PICK x \in 0..m : f[x] = j
    BY <2>5 DEF Surjection
  <2>7. Gap(n, i, j) = x
    BY <2>2, <2>6
  <2> QED BY <2>1, <2>6, <2>7, <1>6
<1> QED BY <1>2, <1>3, <1>4, <1>5, <1>6, <1>1

\* entry_remove takes out the entry at slot i and nothing else, and keeps every
\* chain unbroken.
LEMMA RemovalKeeps ==
  ASSUME NEW n \in Nat, NEW t, Good(t, n), HashOK, NEW i \in Used(t),
         NEW r, r = ShiftBack(t, i, Cardinality(Used(t)) - 1)
  PROVE  /\ Good(r, n) /\ Cardinality(Used(r)) = Cardinality(Used(t)) - 1
         /\ \A j \in Used(r) :
              \E y \in Used(t) \ {i} : t[y] = r[j] /\ Gap(n, i, j) <= Gap(n, i, y)
         /\ \A y \in Used(t) \ {i} : \E j \in Used(r) : r[j] = t[y]
<1> DEFINE m == Cardinality(Used(t)) - 1
<1>1. /\ t \in Tables(n) /\ IsFiniteSet(Used(t)) /\ Cardinality(Used(t)) \in 0..n
      /\ i \in 0..n - 1 /\ n > 0
  BY TableFacts DEF Good
<1>2. m \in Nat /\ m < n
  <2>1. Cardinality(Used(t)) # 0
    BY <1>1, FS_EmptySet
  <2> QED BY <1>1, <2>1
<1> HIDE DEF m
<1>3. PICK e \in 0..n - 1 : \A j \in Used(t) \ {e} : Avoids(t, n, j, e)
  BY <1>1 DEF Good, HasCut
<1>4. PICK w : /\ w[0] = [t |-> t, hole |-> i, done |-> FALSE]
               /\ \A d \in 1..m : w[d] = ShiftStep(i, w[d - 1], d)
               /\ ShiftBack(t, i, m) = [w[m].t EXCEPT ![w[m].hole] = NoEntry]
  BY <1>2, ShiftBackIs
<1> DEFINE Bad == {d \in 0..m : ~Walked(t, n, i, e, w[d], d)}
<1>5. Bad = {}
  <2> SUFFICES ASSUME Bad # {} PROVE FALSE
    OBVIOUS
  <2> DEFINE b == Min(Bad)
  <2>1. b \in Bad /\ \A x \in Bad : b <= x
    <3>1. Bad \subseteq Nat
      OBVIOUS
    <3> QED BY <3>1, MinExists
  <2> HIDE DEF b
  <2>2. b \in 0..m /\ ~Walked(t, n, i, e, w[b], b)
    BY <2>1
  <2>3. b # 0
    BY <1>3, <1>4, <2>2, WalkStarts
  <2>4. b - 1 \in 0..m /\ ~(b <= b - 1) /\ b \in 1..m /\ b \in Nat \ {0} /\ b < n
    BY <1>2, <2>2, <2>3
  <2>5. Walked(t, n, i, e, w[b - 1], b - 1)
    BY <2>1, <2>4
  <2>6. w[b] = ShiftStep(i, w[b - 1], b)
    BY <1>4, <2>4
  <2>7. Walked(t, n, i, e, ShiftStep(i, w[b - 1], b), b)
    BY <1>1, <2>4, <2>5, WalkContinues
  <2> QED BY <2>2, <2>6, <2>7
<1> DEFINE s == w[m]
<1>6. Walked(t, n, i, e, s, m)
  <2>1. m \in 0..m /\ m \notin Bad
    BY <1>2, <1>5
  <2> QED BY <2>1
<1>7. r = [s.t EXCEPT ![s.hole] = NoEntry]
  BY <1>4 DEF m
<1> HIDE DEF s, Bad
<1>8. \A j \in Used(t) \ {s.hole} : Avoids(s.t, n, j, s.hole)
  BY <1>1, <1>6, WalkEnds DEF m
<1>9. PICK c \in 0..m : Passed(t, n, i, e, s, c)
  BY <1>6 DEF Walked
<1>10. s.t \in Tables(n) /\ s.hole \in 0..n - 1 /\ Used(s.t) = Used(t) /\ s.hole \in Used(t)
  BY <1>6, <1>9 DEF Walked, Walks, Passed
<1>11. /\ r \in Tables(n) /\ r[s.hole].key = Null
       /\ \A j \in (0..n - 1) \ {s.hole} : r[j] = s.t[j]
  BY <1>7, <1>10, EntryFacts DEF Tables
<1>12. Used(r) = Used(t) \ {s.hole}
  <2>1. PICK u, h : u = s.t /\ h = s.hole
    BY Zenon
  <2>2. u \in Tables(n) /\ r \in Tables(n)
    BY <1>10, <1>11, <2>1, Zenon
  <2>3. /\ Used(r) = {x \in 0..n - 1 : r[x].key # Null}
        /\ Used(u) = {x \in 0..n - 1 : u[x].key # Null}
    BY <2>2, TableFacts
  <2>4. r[h].key = Null /\ \A x \in (0..n - 1) \ {h} : r[x] = u[x]
    BY <1>11, <2>1, Zenon
  <2>5. Used(r) = Used(u) \ {h}
    BY <2>3, <2>4
  <2> QED BY <1>10, <2>1, <2>5, Zenon
<1>13. \A j \in Used(r) : j \in 0..n - 1 /\ j # s.hole /\ r[j] = s.t[j] /\ j \in Used(t) \ {s.hole}
  BY <1>11, <1>12, TableFacts
<1>14. Linked(r, n)
  <2> SUFFICES ASSUME NEW j \in Used(r), NEW x \in 0..n - 1, r[x].key = Null
               PROVE  Avoids(r, n, j, x)
    BY DEF Linked
  <2>1. x = s.hole \/ x \in (0..n - 1) \ Used(t)
    BY <1>11, <1>12, TableFacts
  <2>2. Avoids(s.t, n, j, x)
    BY <1>8, <1>9, <1>13, <2>1 DEF Passed
  <2> QED BY <2>2, <1>13 DEF Avoids
<1>15. HasCut(r, n)
  BY <1>10, <1>11, <1>14 DEF HasCut, Linked
<1>16. NoTwice(r)
  <2> SUFFICES ASSUME NEW j \in Used(r), NEW x \in Used(r), r[j].key = r[x].key
               PROVE  j = x
    BY DEF NoTwice
  <2>1. \A y, z \in Used(t) \ {s.hole} : s.t[y].key = s.t[z].key => y = z
    BY <1>9 DEF Passed
  <2> QED BY <2>1, <1>13
<1>17. Cardinality(Used(r)) = Cardinality(Used(t)) - 1
  BY <1>1, <1>10, <1>12, FS_RemoveElement
<1>18. \A j \in Used(r) :
         \E y \in Used(t) \ {i} : t[y] = r[j] /\ Gap(n, i, j) <= Gap(n, i, y)
  BY <1>9, <1>13 DEF Passed
<1>19. \A y \in Used(t) \ {i} : \E j \in Used(r) : r[j] = t[y]
  <2> SUFFICES ASSUME NEW y \in Used(t) \ {i} PROVE \E j \in Used(r) : r[j] = t[y]
    OBVIOUS
  <2>1. PICK j \in Used(t) \ {s.hole} : s.t[j] = t[y]
    BY <1>9 DEF Passed
  <2> QED BY <2>1, <1>12, <1>13
<1> QED BY <1>11, <1>14, <1>15, <1>16, <1>17, <1>18, <1>19 DEF Good

\* What a removal leaves, as keys.
LEMMA RemovalKeys ==
  ASSUME NEW n \in Nat, NEW t, Good(t, n), NEW i \in Used(t), NEW r,
         \A j \in Used(r) : \E y \in Used(t) \ {i} : t[y] = r[j],
         \A y \in Used(t) \ {i} : \E j \in Used(r) : r[j] = t[y]
  PROVE  Keys(r) = Keys(t) \ {t[i].key}
<1>1. \A y : y \in Keys(r) <=> \E j \in Used(r) : r[j].key = y
  BY DEF Keys
<1>2. \A y : y \in Keys(t) <=> \E j \in Used(t) : t[j].key = y
  BY DEF Keys
<1>3. \A j \in Used(t) \ {i} : t[j].key # t[i].key
  BY DEF Good, NoTwice
<1>4. \A y : y \in Keys(r) <=> \E j \in Used(t) \ {i} : t[j].key = y
  <2> SUFFICES ASSUME NEW y
               PROVE  y \in Keys(r) <=> \E j \in Used(t) \ {i} : t[j].key = y
    OBVIOUS
  <2>1. ASSUME y \in Keys(r) PROVE \E j \in Used(t) \ {i} : t[j].key = y
    <3>1. PICK x \in Used(r) : r[x].key = y
      BY <1>1, <2>1
    <3>2. PICK j \in Used(t) \ {i} : t[j] = r[x]
      OBVIOUS
    <3> QED BY <3>1, <3>2
  <2>2. ASSUME NEW j \in Used(t) \ {i}, t[j].key = y PROVE y \in Keys(r)
    <3>1. PICK x \in Used(r) : r[x] = t[j]
      OBVIOUS
    <3> QED BY <3>1, <2>2, <1>1
  <2> QED BY <2>1, <2>2
<1>5. \A y : y \in Keys(r) <=> y \in Keys(t) /\ y # t[i].key
  <2> SUFFICES ASSUME NEW y PROVE y \in Keys(r) <=> y \in Keys(t) /\ y # t[i].key
    OBVIOUS
  <2>1. ASSUME y \in Keys(r) PROVE y \in Keys(t) /\ y # t[i].key
    BY <2>1, <1>2, <1>3, <1>4
  <2>2. ASSUME y \in Keys(t), y # t[i].key PROVE y \in Keys(r)
    BY <2>2, <1>2, <1>4
  <2> QED BY <2>1, <2>2
<1> QED BY <1>5

----------------------------------------------------------------------------
(* Growth.                                                                 *)

\* One slot of t after another, with u the table so far.
Refill(t, u, i) ==
  IF t[i - 1].key = Null THEN u ELSE [u EXCEPT ![Find(u, t[i - 1].key)] = t[i - 1]]

\* new[i] is the table that rehash has filled from the first i slots of t.
FilledTo(new, t, n, x) ==
  new = [i \in 0..x |-> IF i = 0 THEN Blank(n) ELSE Refill(t, new[i - 1], i)]

\* The loop of rehash has a value after every slot.
LEMMA FillingExists ==
  ASSUME NEW t, NEW n, NEW m \in Nat
  PROVE  \E new : FilledTo(new, t, n, m)
<1> DEFINE Bad == {x \in 0..m : ~\E w : FilledTo(w, t, n, x)}
<1>1. Bad = {}
  <2> SUFFICES ASSUME Bad # {} PROVE FALSE
    OBVIOUS
  <2> DEFINE b == Min(Bad)
  <2>1. b \in Bad /\ \A x \in Bad : b <= x
    <3>1. Bad \subseteq Nat
      OBVIOUS
    <3> QED BY <3>1, MinExists
  <2> HIDE DEF b
  <2>2. b \in Nat /\ b <= m /\ ~\E w : FilledTo(w, t, n, b)
    BY <2>1
  <2>3. b # 0
    <3> DEFINE w == [i \in 0..0 |-> Blank(n)]
    <3>1. FilledTo(w, t, n, 0)
      BY DEF FilledTo
    <3> QED BY <3>1, <2>2
  <2>4. PICK w : FilledTo(w, t, n, b - 1)
    <3>1. b - 1 \in 0..m /\ ~(b <= b - 1)
      BY <2>2, <2>3
    <3>2. b - 1 \notin Bad
      BY <3>1, <2>1
    <3> QED BY <3>1, <3>2
  <2> DEFINE v == [i \in 0..b |-> IF i = b THEN Refill(t, w[b - 1], b) ELSE w[i]]
             g == [i \in 0..b |-> IF i = 0 THEN Blank(n) ELSE Refill(t, v[i - 1], i)]
  <2>5. ASSUME NEW i \in 0..b PROVE v[i] = g[i]
    <3>1. CASE i = b
      <4>1. v[i - 1] = w[b - 1]
        BY <3>1, <2>2, <2>3
      <4> QED BY <4>1, <3>1, <2>2, <2>3
    <3>2. CASE i # b
      <4>1. i \in 0..b - 1 /\ v[i] = w[i]
        BY <3>2, <2>2
      <4>2. i # 0 => v[i - 1] = w[i - 1]
        BY <4>1, <2>2
      <4> QED BY <4>1, <4>2, <2>4 DEF FilledTo
    <3> QED BY <3>1, <3>2
  <2>6. v = g
    BY <2>5
  <2>7. FilledTo(v, t, n, b)
    BY <2>6 DEF FilledTo
  <2> QED BY <2>2, <2>7
<1> QED BY <1>1

LEMMA RehashedIs ==
  ASSUME NEW t, NEW n, Slots(t) \in Nat
  PROVE  \E w : /\ w[0] = Blank(n) /\ Rehashed(t, n) = w[Slots(t)]
                /\ \A i \in 1..Slots(t) : w[i] = Refill(t, w[i - 1], i)
<1> DEFINE m == Slots(t)
           w == CHOOSE w : FilledTo(w, t, n, m)
<1>1. FilledTo(w, t, n, m)
  BY FillingExists
<1>2. Rehashed(t, n) = w[m]
  BY DEF Rehashed, FilledTo, Refill
<1> HIDE DEF w
<1> DEFINE g == [i \in 0..m |-> IF i = 0 THEN Blank(n) ELSE Refill(t, w[i - 1], i)]
<1>3. w = g
  BY <1>1 DEF FilledTo
<1> HIDE DEF m
<1>4. m \in Nat
  BY DEF m
<1>5. g[0] = Blank(n) /\ \A i \in 1..m : g[i] = Refill(t, w[i - 1], i)
  BY <1>4
<1> QED BY <1>2, <1>3, <1>5 DEF m

\* u holds the entries of the slots of t below x.
Filled(t, n, u, x) ==
  /\ Good(u, n) /\ Cardinality(Used(u)) <= x
  /\ \A j \in Used(u) : \E y \in Used(t) : y < x /\ t[y] = u[j]
  /\ \A y \in Used(t) : y < x => \E j \in Used(u) : u[j] = t[y]

LEMMA RefillKeeps ==
  ASSUME NEW m \in Nat, NEW t, Good(t, m), HashOK, NEW n \in Nat, m <= n,
         NEW i \in 1..m, NEW u, Filled(t, n, u, i - 1)
  PROVE  Filled(t, n, Refill(t, u, i), i)
<1>1. /\ t \in Tables(m) /\ i - 1 \in 0..m - 1
      /\ Used(t) = {y \in 0..m - 1 : t[y].key # Null} /\ t[i - 1] \in Entry
  BY TableFacts DEF Good
<1>2. /\ Good(u, n) /\ u \in Tables(n) /\ IsFiniteSet(Used(u)) /\ Cardinality(Used(u)) \in Nat
      /\ Cardinality(Used(u)) <= i - 1
  BY TableFacts DEF Filled, Good
<1>3. \A y \in Used(t) : y \in Int /\ (y < i <=> y < i - 1 \/ y = i - 1)
  BY <1>1
<1>4. CASE t[i - 1].key = Null
  <2>1. i - 1 \notin Used(t) /\ Refill(t, u, i) = u
    BY <1>1, <1>4 DEF Refill
  <2>2. \A y \in Used(t) : y < i <=> y < i - 1
    BY <1>3, <2>1
  <2> QED BY <1>2, <2>1, <2>2 DEF Filled
<1>5. CASE t[i - 1].key # Null
  <2> DEFINE x == t[i - 1]
             f == Find(u, x.key)
             v == Inserted(u, x)
  <2>1. i - 1 \in Used(t) /\ Refill(t, u, i) = v
    BY <1>1, <1>5 DEF Refill, Inserted
  <2>2. x \in [key : Key, data : Data] /\ x.key \in Key
    BY <1>1, <1>5, EntryFacts DEF Entry
  <2>3. x.key \notin Keys(u)
    <3> SUFFICES ASSUME x.key \in Keys(u) PROVE FALSE
      OBVIOUS
    <3>1. PICK j \in Used(u) : u[j].key = x.key
      BY DEF Keys
    <3>2. PICK y \in Used(t) : y < i - 1 /\ t[y] = u[j]
      BY DEF Filled
    <3>3. y = i - 1
      BY <3>1, <3>2, <2>1 DEF Good, NoTwice
    <3> QED BY <3>2, <3>3, <1>3
  <2>4. f # NoSlot
    <3> SUFFICES ASSUME f = NoSlot PROVE FALSE
      OBVIOUS
    <3>1. Used(u) = 0..n - 1
      <4>1. NoSlot \notin 0..n - 1
        BY DEF NoSlot
      <4> QED BY <4>1, <1>2, <2>2, <2>3, SearchFinds
    <3>2. Cardinality(Used(u)) = n
      BY <3>1, FS_Interval
    <3> QED BY <3>2, <1>2
  <2> HIDE DEF x, f, v
  <2>5. /\ Good(v, n) /\ Used(v) = Used(u) \cup {f} /\ f \notin Used(u)
        /\ v[f] = x /\ \A j \in Used(u) : v[j] = u[j]
    BY <1>2, <2>2, <2>3, <2>4, InsertKeeps DEF f, v
  <2>6. Cardinality(Used(v)) <= i
    <3>1. Cardinality(Used(v)) = Cardinality(Used(u)) + 1
      BY <1>2, <2>5, FS_AddElement
    <3> QED BY <3>1, <1>2
  <2>7. ASSUME NEW j \in Used(v) PROVE \E y \in Used(t) : y < i /\ t[y] = v[j]
    <3>1. CASE j = f
      BY <3>1, <2>1, <2>5, <1>3 DEF x
    <3>2. CASE j # f
      <4>1. PICK y \in Used(t) : y < i - 1 /\ t[y] = u[j]
        BY <3>2, <2>5 DEF Filled
      <4> QED BY <4>1, <3>2, <2>5, <1>3
    <3> QED BY <3>1, <3>2
  <2>8. ASSUME NEW y \in Used(t), y < i PROVE \E j \in Used(v) : v[j] = t[y]
    <3>1. CASE y = i - 1
      BY <3>1, <2>5 DEF x
    <3>2. CASE y # i - 1
      <4>1. PICK j \in Used(u) : u[j] = t[y]
        BY <3>2, <2>8, <1>3 DEF Filled
      <4> QED BY <4>1, <2>5
    <3> QED BY <3>1, <3>2
  <2> QED BY <2>1, <2>5, <2>6, <2>7, <2>8 DEF Filled
<1> QED BY <1>4, <1>5

\* A table has as many used slots as keys, and no more than there are keys.
LEMMA UsedIsKeys ==
  ASSUME NEW n \in Nat, NEW t, Good(t, n)
  PROVE  /\ Keys(t) \subseteq Key /\ IsFiniteSet(Keys(t))
         /\ Cardinality(Used(t)) = Cardinality(Keys(t))
         /\ Cardinality(Used(t)) \in 0..Cardinality(Key) /\ Cardinality(Key) \in Nat
<1> DEFINE f == [i \in Used(t) |-> t[i].key]
<1>1. IsFiniteSet(Used(t)) /\ \A i \in Used(t) : t[i].key \in Key
  BY TableFacts DEF Good
<1>2. f \in Bijection(Used(t), Keys(t))
  BY DEF Bijection, Injection, Surjection, IsInjective, Keys, Good, NoTwice
<1>3. IsFiniteSet(Keys(t)) /\ Cardinality(Keys(t)) = Cardinality(Used(t))
  BY <1>1, <1>2, FS_Bijection DEF ExistsBijection
<1>4. Keys(t) \subseteq Key
  BY <1>1 DEF Keys
<1>5. Cardinality(Keys(t)) <= Cardinality(Key)
  BY <1>4, FS_Subset, SizesOK
<1>6. Cardinality(Key) \in Nat /\ Cardinality(Keys(t)) \in Nat
  BY <1>3, FS_CardinalityType, SizesOK
<1> QED BY <1>3, <1>4, <1>5, <1>6

\* Tables with the same entries have the same keys.
LEMMA SameKeys ==
  ASSUME NEW t, NEW r,
         \A j \in Used(r) : \E y \in Used(t) : t[y] = r[j],
         \A y \in Used(t) : \E j \in Used(r) : r[j] = t[y]
  PROVE  Keys(r) = Keys(t)
<1>1. ASSUME NEW y \in Keys(r) PROVE y \in Keys(t)
  <2>1. PICK j \in Used(r) : r[j].key = y
    BY DEF Keys
  <2>2. PICK x \in Used(t) : t[x] = r[j]
    OBVIOUS
  <2> QED BY <2>1, <2>2 DEF Keys
<1>2. ASSUME NEW y \in Keys(t) PROVE y \in Keys(r)
  <2>1. PICK j \in Used(t) : t[j].key = y
    BY DEF Keys
  <2>2. PICK x \in Used(r) : r[x] = t[j]
    OBVIOUS
  <2> QED BY <2>1, <2>2 DEF Keys
<1> QED BY <1>1, <1>2

\* rehash keeps every entry, and the new table is as good as the old one.
LEMMA RehashKeeps ==
  ASSUME NEW m \in Nat, NEW t, Good(t, m), HashOK, NEW n \in Nat, m <= n,
         NEW r, r = Rehashed(t, n)
  PROVE  /\ Good(r, n) /\ Keys(r) = Keys(t)
         /\ Cardinality(Used(r)) = Cardinality(Used(t))
         /\ \A j \in Used(r) : \E y \in Used(t) : t[y] = r[j]
         /\ \A y \in Used(t) : \E j \in Used(r) : r[j] = t[y]
<1>1. t \in Tables(m) /\ Slots(t) = m /\ \A y \in Used(t) : y < m /\ ~(y < 0)
  BY TableFacts DEF Good
<1>2. PICK w : /\ w[0] = Blank(n) /\ Rehashed(t, n) = w[m]
               /\ \A i \in 1..m : w[i] = Refill(t, w[i - 1], i)
  BY <1>1, RehashedIs
<1> DEFINE Bad == {x \in 0..m : ~Filled(t, n, w[x], x)}
<1>3. Bad = {}
  <2> SUFFICES ASSUME Bad # {} PROVE FALSE
    OBVIOUS
  <2> DEFINE b == Min(Bad)
  <2>1. b \in Bad /\ \A x \in Bad : b <= x
    <3>1. Bad \subseteq Nat
      OBVIOUS
    <3> QED BY <3>1, MinExists
  <2> HIDE DEF b
  <2>2. b \in 0..m /\ ~Filled(t, n, w[b], b)
    BY <2>1
  <2>3. b # 0
    <3>1. Good(w[0], n) /\ Used(w[0]) = {} /\ Cardinality(Used(w[0])) = 0
      BY <1>2, BlankGood, FS_EmptySet
    <3>2. Filled(t, n, w[0], 0)
      BY <3>1, <1>1 DEF Filled
    <3> QED BY <3>2, <2>2
  <2>4. b - 1 \in 0..m /\ ~(b <= b - 1) /\ b \in 1..m
    BY <2>2, <2>3
  <2>5. Filled(t, n, w[b - 1], b - 1)
    BY <2>1, <2>4
  <2>6. w[b] = Refill(t, w[b - 1], b)
    BY <1>2, <2>4
  <2> QED BY <2>2, <2>4, <2>5, <2>6, RefillKeeps
<1>4. Filled(t, n, r, m)
  <2>1. m \in 0..m /\ m \notin Bad
    BY <1>3
  <2> QED BY <2>1, <1>2
<1>5. /\ Good(r, n)
      /\ \A j \in Used(r) : \E y \in Used(t) : t[y] = r[j]
      /\ \A y \in Used(t) : \E j \in Used(r) : r[j] = t[y]
  BY <1>1, <1>4 DEF Filled
<1>6. Keys(r) = Keys(t)
  BY <1>5, SameKeys
<1> QED BY <1>5, <1>6, UsedIsKeys

----------------------------------------------------------------------------
(* The inductive invariant.                                                *)

\* The hypothesis of what follows: calloc() does not fail in reset.  Where it
\* does, size is 0 while the entries stay.
ResetSucceeds == "reset" \notin Failing

Sizes == {0} \cup Pow2

HashInv == (hash \in [Key -> HashValues] \/ hash = Null) /\ (~Ready => table = Blank(0))

TableInv == \E n \in Sizes : Good(table, n)

CountInv == size = Cardinality(Used(table))

SizeInv == tableSizeInit \in Sizes /\ (Ready => tableSizeInit \in Pow2 /\ tableSizeInit >= SizeMin)

BlockInv == block \in 0..2 /\ announced = [block |-> block, len |-> 2 * Slots(table)]

OwnOK(t, o) ==
  o \in [Key -> Int] /\ (OwnKeys => \A k \in Key : o[k] = IF k \in Keys(t) THEN 1 ELSE 0)

\* The iterator stands on its entry, or its entry was removed, and what lies
\* behind it was visited.
IterOK(t, it, seen) ==
  /\ it \in [at : {"none", "end"}, pos : {0}, temp : {Null}]
             \cup [at : {"slot"}, pos : DOMAIN t, temp : Key]
  /\ seen \subseteq Key
  /\ it.at = "end" => Keys(t) \subseteq seen
  /\ it.at = "slot" =>
       /\ \A i \in Used(t) : i < it.pos => t[i].key \in seen
       /\ it.temp \in seen /\ (t[it.pos].key = it.temp \/ it.temp \notin Keys(t))

ReserveInv ==
  /\ reserved \in {0} \cup Capacities /\ (~Ready => reserved = 0)
  /\ reserved > 0 => /\ Slots(table) >= tableSizeInit
                     /\ tableSizeInit >= reserved + reserved \div 3

IInv ==
  /\ HashInv /\ TableInv /\ CountInv /\ SizeInv /\ BlockInv
  /\ OwnOK(table, owned) /\ IterOK(table, iter, visited) /\ ReserveInv

LEMMA SizesFacts ==
  /\ Pow2 \subseteq Nat /\ Sizes \subseteq Nat
  /\ SizeMin \in Nat /\ SizeMin >= 4 /\ SizeDefault \in Pow2 /\ SizeDefault >= SizeMin
  /\ Capacities \subseteq Nat /\ HashValues \subseteq Nat /\ SizeMax \in Nat
  /\ Cardinality(Key) \in Nat /\ SizeMax > Cardinality(Key)
<1>1. \A n \in 0..30 : 2^n \in Nat
  <2>1. /\ 2^0 \in Nat /\ 2^1 \in Nat /\ 2^2 \in Nat /\ 2^3 \in Nat /\ 2^4 \in Nat
        /\ 2^5 \in Nat /\ 2^6 \in Nat /\ 2^7 \in Nat /\ 2^8 \in Nat /\ 2^9 \in Nat
        /\ 2^10 \in Nat /\ 2^11 \in Nat /\ 2^12 \in Nat /\ 2^13 \in Nat /\ 2^14 \in Nat
        /\ 2^15 \in Nat /\ 2^16 \in Nat /\ 2^17 \in Nat /\ 2^18 \in Nat /\ 2^19 \in Nat
        /\ 2^20 \in Nat /\ 2^21 \in Nat /\ 2^22 \in Nat /\ 2^23 \in Nat /\ 2^24 \in Nat
        /\ 2^25 \in Nat /\ 2^26 \in Nat /\ 2^27 \in Nat /\ 2^28 \in Nat /\ 2^29 \in Nat
        /\ 2^30 \in Nat
    OBVIOUS
  <2>2. \A n \in 0..30 :
          \/ n = 0 \/ n = 1 \/ n = 2 \/ n = 3 \/ n = 4 \/ n = 5 \/ n = 6 \/ n = 7 \/ n = 8
          \/ n = 9 \/ n = 10 \/ n = 11 \/ n = 12 \/ n = 13 \/ n = 14 \/ n = 15 \/ n = 16
          \/ n = 17 \/ n = 18 \/ n = 19 \/ n = 20 \/ n = 21 \/ n = 22 \/ n = 23 \/ n = 24
          \/ n = 25 \/ n = 26 \/ n = 27 \/ n = 28 \/ n = 29 \/ n = 30
    OBVIOUS
  <2> QED BY <2>1, <2>2, Zenon
<1>2. Pow2 \subseteq Nat
  BY <1>1 DEF Pow2
<1> QED BY <1>2, SizesOK, FS_CardinalityType DEF Sizes

\* A size that was calculated is a power of two with room for n entries.
LEMMA CalcTableSizeIs ==
  ASSUME NEW a \in Pow2, a >= 4, NEW n \in Nat, n + n \div 3 <= 2^30
  PROVE  /\ CalcTableSize(a, n) \in Pow2 /\ CalcTableSize(a, n) \in Nat
         /\ CalcTableSize(a, n) >= a /\ CalcTableSize(a, n) >= n + n \div 3
         /\ n + n \div 3 < a => CalcTableSize(a, n) = a
<1> DEFINE m == n + n \div 3
           fits(p) == p >= m /\ p < 2 * m
<1>1. m \in Nat /\ m <= 2^30 /\ a \in Nat
  BY SizesFacts
<1>2. CalcTableSize(a, n) = IF m < a THEN a ELSE CHOOSE p \in Pow2 : fits(p)
  BY DEF CalcTableSize
<1> HIDE DEF m
<1>3. CASE m < a
  BY <1>1, <1>2, <1>3, SizesFacts DEF m
<1>4. CASE ~(m < a)
  <2>1. m >= 4
    BY <1>1, <1>4
  <2>2. \/ fits(2^0) \/ fits(2^1) \/ fits(2^2) \/ fits(2^3) \/ fits(2^4) \/ fits(2^5)
        \/ fits(2^6) \/ fits(2^7) \/ fits(2^8) \/ fits(2^9) \/ fits(2^10) \/ fits(2^11)
        \/ fits(2^12) \/ fits(2^13) \/ fits(2^14) \/ fits(2^15) \/ fits(2^16) \/ fits(2^17)
        \/ fits(2^18) \/ fits(2^19) \/ fits(2^20) \/ fits(2^21) \/ fits(2^22) \/ fits(2^23)
        \/ fits(2^24) \/ fits(2^25) \/ fits(2^26) \/ fits(2^27) \/ fits(2^28) \/ fits(2^29)
        \/ fits(2^30)
    BY <1>1, <2>1
  <2> HIDE DEF fits
  <2>3. \A x \in 0..30 : fits(2^x) => \E p \in Pow2 : fits(p)
    BY DEF Pow2
  <2>4. \E p \in Pow2 : fits(p)
    BY <2>2, <2>3
  <2>5. CalcTableSize(a, n) \in Pow2 /\ fits(CalcTableSize(a, n))
    BY <1>2, <1>4, <2>4
  <2>6. CalcTableSize(a, n) \in Nat /\ CalcTableSize(a, n) >= m
    BY <2>5, SizesFacts DEF fits
  <2>7. CalcTableSize(a, n) >= a
    BY <1>1, <1>4, <2>6
  <2> QED BY <1>4, <2>5, <2>6, <2>7 DEF m
<1> QED BY <1>3, <1>4

\* Every state: what the parts of the invariant say of the table.
LEMMA StateFacts ==
  ASSUME IInv
  PROVE  /\ Ready => HashOK
         /\ \E n \in Sizes : /\ n \in Nat /\ Good(table, n) /\ table \in Tables(n)
                             /\ Slots(table) = n /\ DOMAIN table = 0..n - 1
         /\ size \in 0..Cardinality(Key) /\ IsFiniteSet(Used(table))
         /\ size = 0 <=> Used(table) = {}
         /\ Keys(table) \subseteq Key
<1>1. Ready => HashOK
  BY SizesFacts DEF IInv, HashInv, Ready, HashOK
<1>2. PICK n \in Sizes : Good(table, n)
  BY DEF IInv, TableInv
<1>3. n \in Nat /\ table \in Tables(n)
  BY <1>2, SizesFacts DEF Good
<1>4. size \in 0..Cardinality(Key) /\ Keys(table) \subseteq Key
  BY <1>2, <1>3, UsedIsKeys DEF IInv, CountInv
<1>5. IsFiniteSet(Used(table)) /\ (size = 0 <=> Used(table) = {})
  BY <1>3, TableFacts, FS_EmptySet DEF IInv, CountInv
<1>6. Slots(table) = n /\ DOMAIN table = 0..n - 1
  BY <1>3, TableFacts
<1> QED BY <1>1, <1>2, <1>3, <1>4, <1>5, <1>6

\* A table that is good under the same hash function is good in the next state.
LEMMA GoodNext ==
  ASSUME hash' = hash, NEW n \in Sizes, Good(table', n)
  PROVE  TableInv'
BY DEF TableInv, Good, Linked, HasCut, NoTwice, Avoids, Home, Used, Tables, Gap

\* An empty table is good under any hash function.
LEMMA BlankNext ==
  ASSUME NEW n \in Sizes, table' = Blank(n)
  PROVE  TableInv' /\ Used(table') = {} /\ Keys(table') = {} /\ Cardinality(Used(table')) = 0
         /\ Slots(table') = n
<1>1. n \in Nat
  BY SizesFacts
<1>2. Good(Blank(n), n) /\ Used(Blank(n)) = {} /\ Keys(Blank(n)) = {} /\ Slots(Blank(n)) = n
  BY <1>1, BlankGood, TableFacts DEF Good
<1>3. Used(table') = {} /\ table' \in Tables(n)
  BY <1>2 DEF Good
<1>4. TableInv'
  <2>1. (Linked(table, n) /\ NoTwice(table))'
    BY <1>3 DEF Linked, NoTwice
  <2>2. HasCut(table, n)'
    <3>1. n > 0 => 0 \in 0..n - 1
      BY <1>1
    <3> QED BY <3>1, <1>3 DEF HasCut
  <2> QED BY <2>1, <2>2, <1>3 DEF TableInv, Good
<1> QED BY <1>2, <1>4, FS_EmptySet

LEMMA IterTypes ==
  ASSUME NEW t, NEW it, NEW seen, IterOK(t, it, seen)
  PROVE  /\ it.at \in {"none", "end", "slot"}
         /\ it.at = "slot" => it.pos \in DOMAIN t /\ it.temp \in Key
         /\ it.at # "slot" => it.temp = Null /\ it.pos = 0
BY DEF IterOK

LEMMA IterDropped ==
  ASSUME DropIterator, NEW t
  PROVE  IterOK(t, iter', visited')
BY DEF DropIterator, IterOK

\* The iterator comes to the next entry at or behind slot i, or to the end.
LEMMA MoveToKeeps ==
  ASSUME NEW n \in Nat, NEW t, Good(t, n), NEW i \in Nat, NEW seen \in SUBSET Key,
         \A j \in Used(t) : j < i => t[j].key \in seen,
         MoveTo(t, Cardinality(Used(t)), i, seen)
  PROVE  IterOK(t, iter', visited')
<1> DEFINE next == {j \in Used(t) : j >= i}
<1>1. /\ IsFiniteSet(Used(t)) /\ DOMAIN t = 0..n - 1
      /\ \A j \in Used(t) : j \in 0..n - 1 /\ t[j].key \in Key
  BY TableFacts DEF Good
<1>2. next \subseteq Nat
  BY <1>1
<1>3. CASE Cardinality(Used(t)) = 0 \/ next = {}
  <2>1. iter' = [at |-> "end", pos |-> 0, temp |-> Null] /\ visited' = seen
    BY <1>3 DEF MoveTo
  <2>2. \A j \in Used(t) : j < i
    <3>1. CASE Cardinality(Used(t)) = 0
      BY <3>1, <1>1, FS_EmptySet
    <3>2. CASE next = {}
      BY <3>2, <1>1
    <3> QED BY <1>3, <3>1, <3>2
  <2>3. Keys(t) \subseteq seen
    BY <2>2 DEF Keys
  <2> QED BY <2>1, <2>3 DEF IterOK
<1>4. CASE ~(Cardinality(Used(t)) = 0 \/ next = {})
  <2> DEFINE j == Min(next)
  <2>1. j \in next /\ \A x \in next : j <= x
    BY <1>2, <1>4, MinExists
  <2>2. /\ iter' = [at |-> "slot", pos |-> j, temp |-> t[j].key]
        /\ visited' = seen \cup {t[j].key}
    BY <1>4 DEF MoveTo
  <2> HIDE DEF j
  <2>3. j \in Used(t) /\ j \in DOMAIN t /\ t[j].key \in Key
    BY <1>1, <2>1
  <2>4. \A x \in Used(t) : x < j => t[x].key \in seen
    <3> SUFFICES ASSUME NEW x \in Used(t), x < j PROVE t[x].key \in seen
      OBVIOUS
    <3>1. ~(x >= i)
      BY <1>1, <2>1, <2>3
    <3> QED BY <3>1, <1>1
  <2> QED BY <2>2, <2>3, <2>4 DEF IterOK
<1> QED BY <1>3, <1>4

----------------------------------------------------------------------------
(* Every call keeps the invariant.                                         *)

\* The calls that leave the table, the count and the keys alone.
LEMMA TableKept ==
  ASSUME IInv, UNCHANGED <<hash, table, size, owned, blocks>>
  PROVE  /\ HashInv' /\ TableInv' /\ CountInv' /\ BlockInv'
         /\ OwnOK(table', owned') /\ Slots(table') = Slots(table)
<1>1. PICK n \in Sizes : Good(table', n)
  BY DEF IInv, TableInv
<1>2. TableInv'
  BY <1>1, GoodNext
<1>3. HashInv' /\ CountInv' /\ BlockInv' /\ OwnOK(table', owned')
  BY DEF IInv, HashInv, Ready, CountInv, BlockInv, blocks
<1> QED BY <1>2, <1>3

LEMMA Assembled ==
  ASSUME HashInv', TableInv', CountInv', SizeInv', BlockInv', ReserveInv',
         OwnOK(table', owned'), IterOK(table', iter', visited')
  PROVE  IInv'
BY DEF IInv

\* free_keys leaves no copy of a key.
LEMMA FreeKeysKeeps ==
  ASSUME IInv, FreeKeys(size), NEW t, Keys(t) = {}
  PROVE  OwnOK(t, owned')
<1>1. owned \in [Key -> Int] /\ OwnOK(table, owned)
  BY DEF IInv, OwnOK
<1>2. CASE OwnKeys /\ size # 0
  <2>1. owned' = [k \in Key |-> IF k \in Keys(table) THEN owned[k] - 1 ELSE owned[k]]
    BY <1>2 DEF FreeKeys
  <2>2. \A k \in Key : owned[k] = IF k \in Keys(table) THEN 1 ELSE 0
    BY <1>1, <1>2 DEF OwnOK
  <2>3. owned' \in [Key -> Int] /\ \A k \in Key : owned'[k] = 0
    BY <1>1, <2>1, <2>2
  <2> QED BY <2>3 DEF OwnOK
<1>3. CASE ~(OwnKeys /\ size # 0)
  <2>1. owned' = owned
    BY <1>3 DEF FreeKeys
  <2>2. OwnKeys => Keys(table) = {}
    BY <1>3, StateFacts DEF Keys
  <2> QED BY <1>1, <2>1, <2>2 DEF OwnOK
<1> QED BY <1>2, <1>3

\* entry_remove of the entry at slot i.
LEMMA RemoveEntryKeeps ==
  ASSUME IInv, Ready, NEW n \in Sizes, Good(table, n), NEW i \in Used(table),
         RemoveEntry(i), hash' = hash
  PROVE  /\ TableInv' /\ CountInv' /\ BlockInv' /\ OwnOK(table', owned')
         /\ Good(table', n) /\ Slots(table') = n /\ DOMAIN table' = DOMAIN table
         /\ Keys(table') = Keys(table) \ {table[i].key}
         /\ \A j \in Used(table') :
              \E y \in Used(table) \ {i} : table[y] = table'[j] /\ Gap(n, i, j) <= Gap(n, i, y)
         /\ \A y \in Used(table) \ {i} : \E j \in Used(table') : table'[j] = table[y]
<1>1. /\ n \in Nat /\ HashOK /\ size \in 0..Cardinality(Key) /\ size = Cardinality(Used(table))
      /\ size # 0 /\ Slots(table) = n /\ DOMAIN table = 0..n - 1 /\ table[i].key \in Key
      /\ SizeMax \in Nat /\ SizeMax > Cardinality(Key) /\ Cardinality(Key) \in Nat
  BY StateFacts, SizesFacts, TableFacts DEF IInv, CountInv, Good
<1>2. Less(size) = size - 1
  BY <1>1 DEF Less
<1>3. table' = ShiftBack(table, i, Cardinality(Used(table)) - 1) /\ size' = size - 1
  BY <1>1, <1>2 DEF RemoveEntry, InPlace
<1>4. /\ Good(table', n) /\ Cardinality(Used(table')) = Cardinality(Used(table)) - 1
      /\ \A j \in Used(table') :
              \E y \in Used(table) \ {i} : table[y] = table'[j] /\ Gap(n, i, j) <= Gap(n, i, y)
      /\ \A y \in Used(table) \ {i} : \E j \in Used(table') : table'[j] = table[y]
  BY <1>1, <1>3, RemovalKeeps
<1>5. Keys(table') = Keys(table) \ {table[i].key}
  BY <1>1, <1>4, RemovalKeys
<1>6. Slots(table') = n /\ DOMAIN table' = DOMAIN table
  BY <1>1, <1>4, TableFacts DEF Good
<1>7. TableInv' /\ CountInv'
  BY <1>1, <1>3, <1>4, GoodNext DEF CountInv
<1>8. BlockInv'
  BY <1>1, <1>6 DEF IInv, BlockInv, RemoveEntry, InPlace, blocks
<1>9. OwnOK(table', owned')
  <2>1. owned \in [Key -> Int] /\ OwnOK(table, owned) /\ table[i].key \in Keys(table)
    BY DEF IInv, OwnOK, Keys
  <2>2. CASE OwnKeys
    <3>1. owned' = [owned EXCEPT ![table[i].key] = owned[table[i].key] - 1]
      BY <2>2 DEF RemoveEntry
    <3>2. \A k \in Key : owned[k] = IF k \in Keys(table) THEN 1 ELSE 0
      BY <2>1, <2>2 DEF OwnOK
    <3> QED BY <1>1, <1>5, <2>1, <3>1, <3>2 DEF OwnOK
  <2>3. CASE ~OwnKeys
    BY <2>1, <2>3 DEF RemoveEntry, OwnOK
  <2> QED BY <2>2, <2>3
<1> QED BY <1>4, <1>5, <1>6, <1>7, <1>8, <1>9

\* The outcomes of a put that searched in t and leaves u.
Stored(t, k, d, u) ==
  \/ u = t /\ size' = size /\ owned' = owned
  \/ /\ Find(t, k) # NoSlot /\ t[Find(t, k)].key = Null
     /\ size' = size + 1 /\ u = Inserted(t, [key |-> k, data |-> d])
     /\ owned' = IF OwnKeys THEN [owned EXCEPT ![k] = owned[k] + 1] ELSE owned

LEMMA StoredKeeps ==
  ASSUME IInv, Ready, NEW n \in Sizes, NEW t, Good(t, n), Keys(t) = Keys(table),
         Cardinality(Used(t)) = size, NEW k \in Key, NEW d \in Data, NEW u, Stored(t, k, d, u)
  PROVE  Good(u, n) /\ size' = Cardinality(Used(u)) /\ OwnOK(u, owned') /\ Slots(u) = n
<1>1. n \in Nat /\ HashOK /\ owned \in [Key -> Int] /\ OwnOK(table, owned)
  BY StateFacts, SizesFacts DEF IInv, OwnOK
<1>2. CASE u = t /\ size' = size /\ owned' = owned
  BY <1>1, <1>2, TableFacts DEF OwnOK, Good
<1>3. CASE /\ Find(t, k) # NoSlot /\ t[Find(t, k)].key = Null
           /\ size' = size + 1 /\ u = Inserted(t, [key |-> k, data |-> d])
           /\ owned' = IF OwnKeys THEN [owned EXCEPT ![k] = owned[k] + 1] ELSE owned
  <2> DEFINE x == [key |-> k, data |-> d]
  <2>1. x \in [key : Key, data : Data] /\ x.key = k
    OBVIOUS
  <2>2. k \notin Keys(t)
    <3> SUFFICES ASSUME k \in Keys(t) PROVE FALSE
      OBVIOUS
    <3>1. PICK j \in Used(t) : t[j].key = k
      BY DEF Keys
    <3>2. Find(t, k) = j
      BY <1>1, <3>1, SearchFinds
    <3> QED BY <1>3, <3>1, <3>2, EntryFacts
  <2> HIDE DEF x
  <2>3. /\ Good(Inserted(t, x), n) /\ Find(t, x.key) \in (0..n - 1) \ Used(t)
        /\ Used(Inserted(t, x)) = Used(t) \cup {Find(t, x.key)}
        /\ Keys(Inserted(t, x)) = Keys(t) \cup {x.key}
    BY <1>1, <1>3, <2>1, <2>2, InsertKeeps
  <2>4. u = Inserted(t, x)
    BY <1>3 DEF x
  <2>5. IsFiniteSet(Used(t))
    BY <1>1, TableFacts DEF Good
  <2>6. size' = Cardinality(Used(u))
    BY <1>3, <2>3, <2>4, <2>5, FS_AddElement
  <2>7. Keys(u) = Keys(t) \cup {k}
    BY <2>1, <2>3, <2>4
  <2>8. OwnOK(u, owned')
    <3>1. CASE OwnKeys
      <4>1. \A y \in Key : owned[y] = IF y \in Keys(t) THEN 1 ELSE 0
        BY <1>1, <3>1 DEF OwnOK
      <4>2. owned' = [owned EXCEPT ![k] = owned[k] + 1]
        BY <1>3, <3>1
      <4> QED BY <1>1, <2>2, <2>7, <4>1, <4>2 DEF OwnOK
    <3>2. CASE ~OwnKeys
      BY <1>1, <1>3, <3>2 DEF OwnOK
    <3> QED BY <3>1, <3>2
  <2> QED BY <1>1, <2>3, <2>4, <2>6, <2>8, TableFacts DEF Good
<1> QED BY <1>2, <1>3 DEF Stored

LEMMA BaseInitKeeps ==
  ASSUME IInv, NEW h \in [Key -> HashValues], BaseInit(h)
  PROVE  IInv'
<1>1. /\ ~Ready /\ table = Blank(0) /\ table' = Blank(0) /\ table' = table /\ hash' = h
      /\ tableSizeInit' = SizeDefault /\ size' = 0
      /\ UNCHANGED <<owned, block, announced, iter, visited, reserved>>
  BY DEF BaseInit, IInv, HashInv, blocks, loop
<1>2. TableInv' /\ CountInv'
  <2>1. 0 \in Sizes
    BY DEF Sizes
  <2> QED BY <1>1, <2>1, BlankNext DEF CountInv
<1>3. HashInv' /\ BlockInv' /\ OwnOK(table', owned') /\ IterOK(table', iter', visited')
  BY <1>1 DEF IInv, HashInv, BlockInv
<1>4. SizeInv' /\ ReserveInv'
  <2>1. reserved = 0
    BY <1>1 DEF IInv, ReserveInv
  <2> QED BY <1>1, <2>1, SizesFacts DEF SizeInv, ReserveInv, Sizes
<1> QED BY <1>2, <1>3, <1>4, Assembled

\* Calls that empty the table and keep the hash function.
LEMMA EmptiedKeeps ==
  ASSUME IInv, Ready, FreeKeys(size), size' = 0, hash' = hash, NEW n \in Sizes,
         table' = Blank(n), DropIterator
  PROVE  /\ HashInv' /\ TableInv' /\ CountInv' /\ Slots(table') = n
         /\ OwnOK(table', owned') /\ IterOK(table', iter', visited')
<1>1. TableInv' /\ CountInv' /\ Slots(table') = n /\ Keys(table') = {}
  BY BlankNext DEF CountInv
<1>2. OwnOK(table', owned') /\ IterOK(table', iter', visited')
  BY <1>1, FreeKeysKeeps, IterDropped
<1>3. HashInv'
  BY DEF IInv, HashInv, Ready
<1> QED BY <1>1, <1>2, <1>3

LEMMA CleanupKeeps ==
  ASSUME IInv, Cleanup
  PROVE  IInv'
<1>1. /\ Ready /\ FreeKeys(size) /\ table' = Blank(0) /\ block' = 0
      /\ announced' = [block |-> 0, len |-> 0] /\ hash' = Null /\ tableSizeInit' = 0
      /\ size' = 0 /\ reserved' = 0 /\ DropIterator
  BY DEF Cleanup
<1>2. 0 \in Sizes
  BY DEF Sizes
<1>3. TableInv' /\ CountInv' /\ Slots(table') = 0 /\ Keys(table') = {}
  BY <1>1, <1>2, BlankNext DEF CountInv
<1>4. OwnOK(table', owned') /\ IterOK(table', iter', visited')
  BY <1>1, <1>3, FreeKeysKeeps, IterDropped
<1>5. HashInv' /\ SizeInv' /\ BlockInv' /\ ReserveInv'
  BY <1>1, <1>2, <1>3 DEF HashInv, SizeInv, BlockInv, ReserveInv, Ready
<1> QED BY <1>3, <1>4, <1>5, Assembled

LEMMA ClearKeeps ==
  ASSUME IInv, Clear
  PROVE  IInv'
<1>1. PICK n \in Sizes : n \in Nat /\ Slots(table) = n
  BY StateFacts
<1>2. /\ Ready /\ FreeKeys(size) /\ table' = Blank(n) /\ size' = 0 /\ DropIterator
      /\ UNCHANGED <<hash, tableSizeInit, reserved, block, announced>>
  BY <1>1 DEF Clear, InPlace, blocks
<1>3. /\ HashInv' /\ TableInv' /\ CountInv' /\ Slots(table') = n
      /\ OwnOK(table', owned') /\ IterOK(table', iter', visited')
  BY <1>2, EmptiedKeeps
<1>4. SizeInv' /\ BlockInv' /\ ReserveInv'
  BY <1>1, <1>2, <1>3 DEF IInv, SizeInv, BlockInv, ReserveInv, Ready
<1> QED BY <1>3, <1>4, Assembled

LEMMA ResetKeeps ==
  ASSUME IInv, ResetSucceeds, Reset
  PROVE  IInv'
<1>1. PICK n \in Sizes : n \in Nat /\ Slots(table) = n
  BY StateFacts
<1>2. /\ Ready /\ FreeKeys(size) /\ size' = 0 /\ DropIterator
      /\ UNCHANGED <<hash, tableSizeInit, reserved>>
  BY DEF Reset
<1>3. tableSizeInit \in Sizes /\ tableSizeInit \in Nat
  BY SizesFacts DEF IInv, SizeInv
<1>4. CASE Slots(table) # tableSizeInit /\ Reallocate(Blank(tableSizeInit))
  <2>1. table' = Blank(tableSizeInit)
    BY <1>4 DEF Reallocate
  <2>2. /\ HashInv' /\ TableInv' /\ CountInv' /\ Slots(table') = tableSizeInit
        /\ OwnOK(table', owned') /\ IterOK(table', iter', visited')
    BY <1>2, <1>3, <2>1, EmptiedKeeps
  <2>3. BlockInv'
    <3>1. Slots(Blank(tableSizeInit)) = tableSizeInit
      BY <2>1, <2>2
    <3> QED BY <1>4, <2>2, <3>1 DEF BlockInv, Reallocate
  <2>4. SizeInv' /\ ReserveInv'
    BY <1>2, <1>3, <2>2 DEF IInv, SizeInv, ReserveInv, Ready
  <2> QED BY <2>2, <2>3, <2>4, Assembled
<1>5. CASE Slots(table) = tableSizeInit /\ InPlace(Blank(Slots(table)))
  <2>1. table' = Blank(n) /\ UNCHANGED <<block, announced>>
    BY <1>1, <1>5 DEF InPlace, blocks
  <2>2. /\ HashInv' /\ TableInv' /\ CountInv' /\ Slots(table') = n
        /\ OwnOK(table', owned') /\ IterOK(table', iter', visited')
    BY <1>2, <2>1, EmptiedKeeps
  <2>3. SizeInv' /\ BlockInv' /\ ReserveInv'
    BY <1>1, <1>2, <1>5, <2>1, <2>2 DEF IInv, SizeInv, BlockInv, ReserveInv, Ready
  <2> QED BY <2>2, <2>3, Assembled
<1> QED BY <1>4, <1>5 DEF Reset, ResetSucceeds, ReallocateForReset

\* A rehash into a table of n slots, or none at all.
LEMMA ReserveKeeps ==
  ASSUME IInv, NEW c \in Capacities, Reserve(c)
  PROVE  IInv'
<1> DEFINE want == CalcTableSize(SizeMin, c)
<1>1. PICK m \in Sizes : /\ m \in Nat /\ Good(table, m) /\ Slots(table) = m
  BY StateFacts
<1>2. Ready /\ DropIterator /\ UNCHANGED <<hash, size, owned>> /\ HashOK
  BY StateFacts DEF Reserve
<1>3. /\ want \in Pow2 /\ want \in Nat /\ want >= SizeMin /\ want >= c + c \div 3
      /\ want \in Sizes /\ c \in Nat
  <2>1. /\ SizeMin \in Pow2 /\ SizeMin >= 4 /\ c \in Nat /\ c + c \div 3 <= 2^30
    BY SizesOK
  <2> QED BY <2>1, CalcTableSizeIs DEF Sizes
<1> HIDE DEF want
<1>4. SizeInv /\ ReserveInv /\ BlockInv /\ HashInv /\ CountInv /\ OwnOK(table, owned)
  BY DEF IInv
<1>5. IterOK(table', iter', visited')
  BY <1>2, IterDropped
<1>6. CASE /\ want > Slots(table) /\ Reallocate(Rehashed(table, want))
           /\ tableSizeInit' = want /\ reserved' = c
  <2>1. table' = Rehashed(table, want) /\ m <= want
    BY <1>1, <1>3, <1>6 DEF Reallocate
  <2>2. /\ Good(table', want) /\ Keys(table') = Keys(table)
        /\ Cardinality(Used(table')) = Cardinality(Used(table))
    BY <1>1, <1>2, <1>3, <2>1, RehashKeeps
  <2>3. Slots(table') = want
    BY <1>3, <2>2, TableFacts DEF Good
  <2>4. TableInv'
    BY <1>2, <1>3, <2>2, GoodNext
  <2>5. CountInv' /\ OwnOK(table', owned') /\ HashInv'
    BY <1>2, <1>4, <2>2 DEF CountInv, OwnOK, HashInv, Ready
  <2>6. BlockInv'
    <3>1. Slots(Rehashed(table, want)) = want
      BY <2>1, <2>3
    <3> QED BY <1>6, <2>3, <3>1 DEF BlockInv, Reallocate
  <2>7. SizeInv' /\ ReserveInv'
    BY <1>2, <1>3, <1>4, <1>6, <2>3 DEF SizeInv, ReserveInv, Ready
  <2> QED BY <1>5, <2>4, <2>5, <2>6, <2>7, Assembled
<1>7. CASE InPlace(table) /\ UNCHANGED <<tableSizeInit, reserved>>
  <2>1. UNCHANGED <<hash, table, size, owned, blocks>>
    BY <1>2, <1>7 DEF InPlace
  <2>2. SizeInv' /\ ReserveInv'
    BY <1>2, <1>4, <1>7, <2>1, TableKept DEF SizeInv, ReserveInv, Ready
  <2> QED BY <1>5, <2>1, <2>2, TableKept, Assembled
<1>8. CASE /\ want <= Slots(table) /\ InPlace(table)
           /\ tableSizeInit' = want /\ reserved' = c
  <2>1. UNCHANGED <<hash, table, size, owned, blocks>>
    BY <1>2, <1>8 DEF InPlace
  <2>2. SizeInv' /\ ReserveInv'
    BY <1>1, <1>2, <1>3, <1>4, <1>8, <2>1, TableKept DEF SizeInv, ReserveInv, Ready
  <2> QED BY <1>5, <2>1, <2>2, TableKept, Assembled
<1> QED BY <1>6, <1>7, <1>8 DEF Reserve, want

\* A put ends in one of four ways, whichever table it searches.
LEMMA StoreIsStored ==
  ASSUME NEW t, NEW k \in Key, NEW d \in Data, NEW failed \in BOOLEAN
  PROVE  /\ Store(t, k, d, failed, InPlace)
              => \E u : InPlace(u) /\ Stored(t, k, d, u)
         /\ Store(t, k, d, failed, Reallocate)
              => \E u : Reallocate(u) /\ Stored(t, k, d, u)
<1>1. ASSUME Store(t, k, d, failed, InPlace) PROVE \E u : InPlace(u) /\ Stored(t, k, d, u)
  BY <1>1 DEF Store, Stored, Inserted
<1>2. ASSUME Store(t, k, d, failed, Reallocate) PROVE \E u : Reallocate(u) /\ Stored(t, k, d, u)
  BY <1>2 DEF Store, Stored, Inserted
<1> QED BY <1>1, <1>2

LEMMA PutKeeps ==
  ASSUME IInv, NEW k \in Key, NEW d \in Data, Put(k, d)
  PROVE  IInv'
<1> DEFINE need == CalcTableSize(tableSizeInit, size)
<1>1. PICK m \in Sizes : /\ m \in Nat /\ Good(table, m) /\ Slots(table) = m
  BY StateFacts
<1>2. Ready /\ DropIterator /\ UNCHANGED <<hash, tableSizeInit, reserved>> /\ HashOK
  BY StateFacts DEF Put
<1>3. need \in Sizes /\ need \in Nat /\ need >= tableSizeInit
  <2>1. tableSizeInit \in Pow2 /\ tableSizeInit >= 4
    BY <1>2, SizesFacts DEF IInv, SizeInv
  <2>2. size \in Nat /\ size + size \div 3 <= 2^30
    <3>1. size \in Nat /\ Cardinality(Key) \in Nat /\ size <= Cardinality(Key)
      BY StateFacts, SizesFacts
    <3>2. Cardinality(Key) + Cardinality(Key) \div 3 <= 2^30
      BY SizesOK
    <3>3. size + size \div 3 <= Cardinality(Key) + Cardinality(Key) \div 3
      BY <3>1
    <3> QED BY <3>1, <3>2, <3>3
  <2> QED BY <2>1, <2>2, CalcTableSizeIs DEF Sizes
<1> HIDE DEF need
<1>4. SizeInv /\ ReserveInv /\ BlockInv /\ HashInv /\ CountInv
  BY DEF IInv
<1>5. IterOK(table', iter', visited')
  BY <1>2, IterDropped
<1>6. \/ \E u : InPlace(u) /\ Stored(table, k, d, u)
      \/ Grows(need) /\ \E u : Reallocate(u) /\ Stored(Rehashed(table, need), k, d, u)
  BY StoreIsStored DEF Put, need
<1>7. CASE \E u : InPlace(u) /\ Stored(table, k, d, u)
  <2>1. PICK u : InPlace(u) /\ Stored(table, k, d, u)
    BY <1>7
  <2>2. /\ Good(table', m) /\ size' = Cardinality(Used(table')) /\ OwnOK(table', owned')
        /\ Slots(table') = m
    BY <1>1, <1>2, <1>4, <2>1, StoredKeeps DEF InPlace, CountInv
  <2>3. TableInv' /\ CountInv'
    BY <1>1, <1>2, <2>2, GoodNext DEF CountInv
  <2>4. HashInv' /\ SizeInv' /\ BlockInv' /\ ReserveInv'
    BY <1>1, <1>2, <1>4, <2>1, <2>2
       DEF InPlace, blocks, HashInv, SizeInv, BlockInv, ReserveInv, Ready
  <2> QED BY <1>5, <2>2, <2>3, <2>4, Assembled
<1>8. CASE Grows(need) /\ \E u : Reallocate(u) /\ Stored(Rehashed(table, need), k, d, u)
  <2>1. PICK u : Reallocate(u) /\ Stored(Rehashed(table, need), k, d, u)
    BY <1>8
  <2>2. m <= need /\ table' = u
    BY <1>1, <1>3, <1>8, <2>1 DEF Grows, Reallocate
  <2> DEFINE r == Rehashed(table, need)
  <2>3. Good(r, need) /\ Keys(r) = Keys(table) /\ Cardinality(Used(r)) = size
    BY <1>1, <1>2, <1>3, <1>4, <2>2, RehashKeeps DEF CountInv
  <2> HIDE DEF r
  <2>4. Stored(r, k, d, table')
    BY <2>1, <2>2 DEF r
  <2>5. /\ Good(table', need) /\ size' = Cardinality(Used(table')) /\ OwnOK(table', owned')
        /\ Slots(table') = need
    BY <1>2, <1>3, <2>3, <2>4, StoredKeeps
  <2>6. TableInv' /\ CountInv'
    BY <1>2, <1>3, <2>5, GoodNext DEF CountInv
  <2>7. BlockInv'
    BY <2>1, <2>2, <2>5 DEF Reallocate, BlockInv
  <2>8. HashInv' /\ SizeInv' /\ ReserveInv'
    BY <1>1, <1>2, <1>3, <1>4, <2>5 DEF HashInv, SizeInv, ReserveInv, Ready
  <2> QED BY <1>5, <2>5, <2>6, <2>7, <2>8, Assembled
<1> QED BY <1>6, <1>7, <1>8

\* Calls that change neither the table nor the iterator.
LEMMA NothingKeeps ==
  ASSUME IInv, UNCHANGED <<hash, table, size, tableSizeInit, owned, blocks, loop, reserved>>
  PROVE  IInv'
<1>1. SizeInv' /\ ReserveInv' /\ IterOK(table', iter', visited')
  BY DEF IInv, SizeInv, ReserveInv, Ready, loop
<1> QED BY <1>1, TableKept, Assembled

\* Moves of the iterator over a table that stays.
LEMMA MovesKeep ==
  ASSUME IInv, UNCHANGED <<hash, table, size, tableSizeInit, owned, blocks, reserved>>,
         NEW i \in Nat, NEW seen \in SUBSET Key,
         \A j \in Used(table) : j < i => table[j].key \in seen,
         MoveTo(table, size, i, seen)
  PROVE  IInv'
<1>1. SizeInv' /\ ReserveInv'
  BY DEF IInv, SizeInv, ReserveInv, Ready
<1>2. PICK n \in Sizes : n \in Nat /\ Good(table, n)
  BY StateFacts
<1>3. IterOK(table, iter', visited')
  BY <1>2, MoveToKeeps DEF IInv, CountInv
<1> QED BY <1>1, <1>3, TableKept, Assembled

LEMMA IterMovesKeep ==
  ASSUME IInv, IterBegin \/ IterNext \/ IterReset
  PROVE  IInv'
<1>1. /\ IterOK(table, iter, visited)
      /\ \A j \in Used(table) : j \in Nat
  BY StateFacts, TableFacts DEF IInv
<1>2. CASE IterBegin
  <2>1. \A j \in Used(table) : ~(j < 0)
    BY <1>1
  <2> QED BY <1>2, <2>1, MovesKeep DEF IterBegin
<1>3. CASE IterNext
  <2>1. iter.pos \in DOMAIN table /\ iter.temp \in visited /\ visited \in SUBSET Key
    BY <1>1, <1>3, IterTypes DEF IterNext, IterOK
  <2>2. iter.pos \in Nat
    BY <2>1, StateFacts
  <2>3. \A j \in Used(table) : j < iter.pos + 1 => table[j].key \in visited
    <3> SUFFICES ASSUME NEW j \in Used(table), j < iter.pos + 1 PROVE table[j].key \in visited
      OBVIOUS
    <3>1. CASE j = iter.pos
      BY <3>1, <1>3, <2>1 DEF IterNext
    <3>2. CASE j # iter.pos
      <4>1. j < iter.pos
        BY <3>2, <1>1, <2>2
      <4> QED BY <4>1, <1>1, <1>3 DEF IterNext, IterOK
    <3> QED BY <3>1, <3>2
  <2> QED BY <1>3, <2>1, <2>2, <2>3, MovesKeep DEF IterNext
<1>4. CASE IterReset
  <2>1. iter.pos \in DOMAIN table /\ visited \in SUBSET Key
    BY <1>1, <1>4, IterTypes DEF IterReset, IterOK
  <2>2. iter.pos \in Nat
    BY <2>1, StateFacts
  <2>3. \A j \in Used(table) : j < iter.pos => table[j].key \in visited
    BY <1>1, <1>4 DEF IterReset, IterOK
  <2> QED BY <1>4, <2>1, <2>2, <2>3, MovesKeep DEF IterReset
<1> QED BY <1>2, <1>3, <1>4

\* What lies behind the iterator stays behind it when the entry it stands on goes.
LEMMA BehindStaysBehind ==
  ASSUME NEW n \in Nat, NEW t, t \in Tables(n), NEW r, r \in Tables(n), NEW i \in Used(t),
         NEW seen, \A j \in Used(t) : j < i => t[j].key \in seen,
         \A j \in Used(r) :
            \E y \in Used(t) \ {i} : t[y] = r[j] /\ Gap(n, i, j) <= Gap(n, i, y)
  PROVE  \A j \in Used(r) : j < i => r[j].key \in seen
<1> SUFFICES ASSUME NEW j \in Used(r), j < i PROVE r[j].key \in seen
  OBVIOUS
<1>1. PICK y \in Used(t) \ {i} : t[y] = r[j] /\ Gap(n, i, j) <= Gap(n, i, y)
  OBVIOUS
<1>2. i \in 0..n - 1 /\ y \in 0..n - 1 /\ j \in 0..n - 1
  BY TableFacts
<1>3. y < i
  BY <1>1, <1>2 DEF Gap
<1> QED BY <1>1, <1>3

LEMMA RemoveKeeps ==
  ASSUME IInv, NEW k \in Key, Remove(k)
  PROVE  IInv'
<1> DEFINE i == Lookup(table, k)
<1>1. PICK n \in Sizes : n \in Nat /\ Good(table, n) /\ table \in Tables(n) /\ Slots(table) = n
  BY StateFacts
<1>2. Ready /\ HashOK /\ UNCHANGED <<hash, tableSizeInit, reserved>>
  BY StateFacts DEF Remove
<1>3. IterOK(table, iter, visited)
  BY DEF IInv
<1>4. CASE i = NoSlot
  <2>1. UNCHANGED <<hash, table, size, tableSizeInit, owned, blocks, reserved>>
    <3>1. i = NoSlot => ~(i # NoSlot)
      OBVIOUS
    <3> QED BY <1>2, <1>4, <3>1 DEF Remove, InPlace, blocks
  <2>2. CASE iter.at = "slot" /\ iter.temp = k
    <3>1. UNCHANGED loop
      BY <2>2 DEF Remove
    <3> QED BY <2>1, <3>1, NothingKeeps
  <2>3. CASE ~(iter.at = "slot" /\ iter.temp = k)
    <3>1. DropIterator
      BY <2>3 DEF Remove
    <3>2. SizeInv' /\ ReserveInv'
      BY <1>2, <2>1 DEF IInv, SizeInv, ReserveInv, Ready
    <3> QED BY <2>1, <3>1, <3>2, TableKept, IterDropped, Assembled
  <2> QED BY <2>2, <2>3
<1>5. CASE i # NoSlot
  <2>1. RemoveEntry(i)
    BY <1>5 DEF Remove
  <2>2. i \in Used(table) /\ table[i].key = k
    <3>1. k \in Keys(table)
      BY <1>1, <1>2, <1>5, SearchFinds
    <3>2. PICK j \in Used(table) : table[j].key = k
      BY <3>1 DEF Keys
    <3> QED BY <3>2, <1>1, <1>2, SearchFinds
  <2> HIDE DEF i
  <2>3. /\ TableInv' /\ CountInv' /\ BlockInv' /\ OwnOK(table', owned')
        /\ Good(table', n) /\ Slots(table') = n /\ DOMAIN table' = DOMAIN table
        /\ Keys(table') = Keys(table) \ {table[i].key}
        /\ \A j \in Used(table') :
             \E y \in Used(table) \ {i} : table[y] = table'[j] /\ Gap(n, i, j) <= Gap(n, i, y)
    BY <1>1, <1>2, <2>1, <2>2, RemoveEntryKeeps
  <2>4. HashInv' /\ SizeInv' /\ ReserveInv'
    BY <1>1, <1>2, <2>3 DEF IInv, HashInv, SizeInv, ReserveInv, Ready
  <2>5. IterOK(table', iter', visited')
    <3>1. CASE iter.at = "slot" /\ iter.temp = k
      <4>1. iter' = iter /\ visited' = visited
        BY <3>1 DEF Remove, loop
      <4>2. iter.pos = i
        <5>1. k \in Keys(table)
          BY <2>2 DEF Keys
        <5>2. iter.pos \in DOMAIN table /\ table[iter.pos].key = k
          BY <3>1, <5>1, <1>3, IterTypes DEF IterOK
        <5>3. iter.pos \in Used(table)
          BY <5>2, EntryFacts DEF Used
        <5> QED BY <5>2, <5>3, <2>2, <1>1 DEF Good, NoTwice
      <4>3. \A j \in Used(table) : j < i => table[j].key \in visited
        BY <3>1, <4>2, <1>3 DEF IterOK
      <4>4. \A j \in Used(table') : j < i => table'[j].key \in visited
        BY <1>1, <2>2, <2>3, <4>3, BehindStaysBehind DEF Good
      <4>5. k \notin Keys(table')
        BY <2>2, <2>3
      <4> QED BY <1>3, <2>3, <3>1, <4>1, <4>2, <4>4, <4>5 DEF IterOK
    <3>2. CASE ~(iter.at = "slot" /\ iter.temp = k)
      BY <3>2, IterDropped DEF Remove
    <3> QED BY <3>1, <3>2
  <2> QED BY <2>3, <2>4, <2>5, Assembled
<1> QED BY <1>4, <1>5

LEMMA IterRemoveKeeps ==
  ASSUME IInv, IterRemove
  PROVE  IInv'
<1> DEFINE i == iter.pos
<1>1. PICK n \in Sizes : n \in Nat /\ Good(table, n) /\ table \in Tables(n) /\ DOMAIN table = 0..n - 1
                         /\ Slots(table) = n
  BY StateFacts
<1>2. /\ IterOK(table, iter, visited) /\ iter.at = "slot" /\ table[i].key = iter.temp
      /\ RemoveEntry(i) /\ MoveTo(table', size', i, visited)
      /\ UNCHANGED <<hash, tableSizeInit, reserved>>
  BY DEF IInv, IterRemove
<1>3. i \in Used(table) /\ i \in Nat /\ visited \in SUBSET Key
  <2>1. i \in DOMAIN table /\ iter.temp \in Key /\ visited \subseteq Key
    BY <1>2, IterTypes DEF IterOK
  <2> QED BY <1>1, <1>2, <2>1, EntryFacts DEF Used
<1>4. Ready
  <2> SUFFICES ASSUME ~Ready PROVE FALSE
    OBVIOUS
  <2>1. table = Blank(0)
    BY DEF IInv, HashInv
  <2>2. Used(Blank(0)) = {}
    BY BlankGood
  <2> QED BY <1>3, <2>1, <2>2
<1> HIDE DEF i
<1>5. /\ TableInv' /\ CountInv' /\ BlockInv' /\ OwnOK(table', owned')
      /\ Good(table', n) /\ Slots(table') = n
      /\ \A j \in Used(table') :
           \E y \in Used(table) \ {i} : table[y] = table'[j] /\ Gap(n, i, j) <= Gap(n, i, y)
  BY <1>1, <1>2, <1>3, <1>4, RemoveEntryKeeps
<1>6. \A j \in Used(table) : j < i => table[j].key \in visited
  BY <1>2 DEF IterOK, i
<1>7. \A j \in Used(table') : j < i => table'[j].key \in visited
  BY <1>1, <1>3, <1>5, <1>6, BehindStaysBehind DEF Good
<1>8. IterOK(table', iter', visited')
  BY <1>1, <1>2, <1>3, <1>5, <1>7, MoveToKeeps DEF CountInv
<1>9. HashInv' /\ SizeInv' /\ ReserveInv'
  BY <1>1, <1>2, <1>4, <1>5 DEF IInv, HashInv, SizeInv, ReserveInv, Ready
<1> QED BY <1>5, <1>8, <1>9, Assembled

LEMMA IterSetDataKeeps ==
  ASSUME IInv, NEW d \in Data, IterSetData(d)
  PROVE  IInv'
<1> DEFINE i == iter.pos
<1>1. PICK n \in Sizes : n \in Nat /\ Good(table, n) /\ table \in Tables(n) /\ DOMAIN table = 0..n - 1
                         /\ Slots(table) = n
  BY StateFacts
<1>2. /\ IterOK(table, iter, visited) /\ iter.at = "slot" /\ table[i].key = iter.temp
      /\ table' = [table EXCEPT ![i].data = d]
      /\ UNCHANGED <<hash, size, tableSizeInit, owned, iter, visited, reserved, block, announced>>
  BY DEF IInv, IterSetData, InPlace, blocks, loop
<1>3. i \in 0..n - 1 /\ iter.temp \in Key /\ i \in Used(table)
  <2>1. i \in DOMAIN table /\ iter.temp \in Key
    BY <1>2, IterTypes
  <2> QED BY <1>1, <1>2, <2>1, EntryFacts DEF Used
<1> HIDE DEF i
<1>4. /\ table' \in Tables(n) /\ DOMAIN table' = 0..n - 1
      /\ \A j \in 0..n - 1 : table'[j].key = table[j].key
  <2>1. table[i] \in [key : Key, data : Data]
    <3>1. table[i] \in Entry
      BY <1>1, <1>3, TableFacts
    <3> QED BY <3>1, <1>2, <1>3, EntryFacts DEF Entry
  <2> DEFINE x == [table[i] EXCEPT !.data = d]
  <2>2. x \in [key : Key, data : Data] /\ x.key = table[i].key
    BY <2>1
  <2>3. table' = [table EXCEPT ![i] = x]
    BY <1>2
  <2> HIDE DEF x
  <2>4. x \in Entry
    BY <2>2 DEF Entry
  <2> QED BY <1>1, <1>3, <2>2, <2>3, <2>4 DEF Tables
<1>5. Used(table') = Used(table) /\ Keys(table') = Keys(table)
  <2>1. Used(table') = Used(table)
    BY <1>1, <1>4 DEF Used
  <2>2. \A j \in Used(table) : table'[j].key = table[j].key
    BY <1>1, <1>4 DEF Used
  <2> QED BY <2>1, <2>2 DEF Keys
<1>6. Good(table', n)
  <2>1. \A j \in Used(table) : j \in 0..n - 1
    BY <1>1, TableFacts
  <2>2. \A j \in Used(table), x \in 0..n - 1 : Avoids(table', n, j, x) <=> Avoids(table, n, j, x)
    BY <1>4, <2>1 DEF Avoids
  <2>3. Linked(table', n)
    BY <1>1, <1>4, <1>5, <2>2 DEF Good, Linked
  <2>4. HasCut(table', n)
    <3> SUFFICES ASSUME n > 0
                 PROVE  \E e \in 0..n - 1 : \A j \in Used(table) \ {e} : Avoids(table', n, j, e)
      BY <1>5 DEF HasCut
    <3>1. PICK e \in 0..n - 1 : \A j \in Used(table) \ {e} : Avoids(table, n, j, e)
      BY <1>1 DEF Good, HasCut
    <3> QED BY <3>1, <2>2
  <2>5. NoTwice(table')
    BY <1>1, <1>4, <1>5, <2>1 DEF Good, NoTwice
  <2> QED BY <1>4, <2>3, <2>4, <2>5 DEF Good
<1>7. TableInv' /\ CountInv'
  BY <1>2, <1>5, <1>6, GoodNext DEF IInv, CountInv
<1>8. OwnOK(table', owned')
  BY <1>2, <1>5 DEF IInv, OwnOK
<1>9. Ready /\ Slots(table') = n
  <2>1. Slots(table') = n
    BY <1>1, <1>4, TableFacts
  <2>2. Used(Blank(0)) = {}
    BY BlankGood
  <2> QED BY <1>3, <2>1, <2>2 DEF IInv, HashInv
<1>10. HashInv' /\ SizeInv' /\ ReserveInv' /\ BlockInv'
  BY <1>1, <1>2, <1>9 DEF IInv, HashInv, SizeInv, ReserveInv, BlockInv, Ready
<1>11. IterOK(table', iter', visited')
  <2>1. \A j \in Used(table) : table'[j].key = table[j].key /\ j \in 0..n - 1
    BY <1>1, <1>4, TableFacts
  <2>2. table'[i].key = table[i].key
    BY <1>3, <1>4
  <2>3. DOMAIN table' = DOMAIN table /\ iter' = iter /\ visited' = visited /\ iter.pos = i
    BY <1>1, <1>2, <1>4 DEF i
  <2>4. \A j \in Used(table') : j < iter.pos => table'[j].key \in visited
    BY <1>2, <1>5, <2>1 DEF IterOK
  <2>5. iter.temp \in visited /\ table'[iter.pos].key = iter.temp
    BY <1>2, <2>2, <2>3 DEF IterOK
  <2>6. iter \in [at : {"none", "end"}, pos : {0}, temp : {Null}]
                 \cup [at : {"slot"}, pos : DOMAIN table, temp : Key] /\ visited \subseteq Key
    BY <1>2 DEF IterOK
  <2> QED BY <1>2, <2>3, <2>4, <2>5, <2>6 DEF IterOK
<1> QED BY <1>7, <1>8, <1>10, <1>11, Assembled

----------------------------------------------------------------------------
(* The theorems about the table.                                           *)

LEMMA InitHolds == Init => IInv
<1> SUFFICES ASSUME Init PROVE IInv
  OBVIOUS
<1>1. 0 \in Sizes /\ 0 \in Nat
  BY DEF Sizes
<1>2. Good(Blank(0), 0) /\ Used(Blank(0)) = {} /\ Keys(Blank(0)) = {}
  BY <1>1, BlankGood
<1>3. Slots(Blank(0)) = 0
  BY <1>1, <1>2, TableFacts DEF Good
<1>4. HashInv /\ TableInv /\ SizeInv /\ BlockInv /\ ReserveInv
  BY <1>1, <1>2, <1>3 DEF Init, HashInv, TableInv, SizeInv, BlockInv, ReserveInv, Ready
<1>5. CountInv
  BY <1>2, FS_EmptySet DEF Init, CountInv
<1>6. OwnOK(table, owned) /\ IterOK(table, iter, visited)
  BY <1>2 DEF Init, OwnOK, IterOK
<1> QED BY <1>4, <1>5, <1>6 DEF IInv

LEMMA NextKeeps ==
  ASSUME ResetSucceeds, IInv, [Next]_vars
  PROVE  IInv'
<1>1. ASSUME NEW h \in [Key -> HashValues], BaseInit(h) PROVE IInv'
  BY <1>1, BaseInitKeeps
<1>2. CASE Cleanup \/ Clear \/ Reset
  BY <1>2, CleanupKeeps, ClearKeeps, ResetKeeps
<1>3. ASSUME NEW c \in Capacities, Reserve(c) PROVE IInv'
  BY <1>3, ReserveKeeps
<1>4. ASSUME NEW k \in Key, NEW d \in Data, Put(k, d) PROVE IInv'
  BY <1>4, PutKeeps
<1>5. CASE PutInvalid
  BY <1>5, NothingKeeps DEF PutInvalid
<1>6. ASSUME NEW k \in Key, Get(k) PROVE IInv'
  BY <1>6, NothingKeeps DEF Get
<1>7. ASSUME NEW k \in Key, Remove(k) PROVE IInv'
  BY <1>7, RemoveKeeps
<1>8. CASE IterBegin \/ IterNext \/ IterReset
  BY <1>8, IterMovesKeep
<1>9. CASE IterRemove
  BY <1>9, IterRemoveKeeps
<1>10. ASSUME NEW d \in Data, IterSetData(d) PROVE IInv'
  BY <1>10, IterSetDataKeeps
<1>11. CASE UNCHANGED vars
  BY <1>11, NothingKeeps DEF vars, blocks, loop
<1> QED BY <1>1, <1>2, <1>3, <1>4, <1>5, <1>6, <1>7, <1>8, <1>9, <1>10, <1>11 DEF Next

\* The parts of the invariant are what the runs check.
LEMMA InvariantGives ==
  ASSUME IInv
  PROVE  TypeOK /\ TableSound /\ KeysOwned /\ AnnouncedIsLive /\ IterationComplete
<1>1. PICK n \in Sizes : /\ n \in Nat /\ Good(table, n) /\ table \in Tables(n)
                         /\ Slots(table) = n /\ DOMAIN table = 0..n - 1
  BY StateFacts
<1>2. TypeOK
  <2>1. \A i \in DOMAIN table : \/ table[i] = NoEntry
                                \/ table[i].key \in Key /\ table[i].data \in Data
    BY <1>1, TableFacts, EntryFacts
  <2>2. announced \in [block : 0..2, len : Nat] /\ block \in 0..2
    BY <1>1 DEF IInv, BlockInv
  <2>3. size \in 0..Cardinality(Key)
    BY StateFacts
  <2>4. /\ iter \in [at : {"none", "end"}, pos : {0}, temp : {Null}]
                \cup [at : {"slot"}, pos : DOMAIN table, temp : Key]
        /\ visited \subseteq Key
    BY DEF IInv, IterOK
  <2>5. owned \in [Key -> Int] /\ (hash \in [Key -> HashValues] \/ hash = Null)
        /\ tableSizeInit \in Sizes /\ reserved \in {0} \cup Capacities
    BY DEF IInv, OwnOK, HashInv, SizeInv, ReserveInv
  <2> QED BY <1>1, <2>1, <2>2, <2>3, <2>4, <2>5 DEF TypeOK, Sizes
<1>3. ChainContiguous
  <2> SUFFICES ASSUME NEW i \in Used(table), NEW d \in 0..Distance(n, table[i].key, i)
               PROVE  table[Probe(n, table[i].key, d)].key # Null
    BY <1>1 DEF ChainContiguous
  <2> DEFINE k == table[i].key
             h == Home(n, k)
             j == Probe(n, k, d)
  <2>1. i \in 0..n - 1 /\ n \in Nat \ {0} /\ k \in Key
    BY <1>1, TableFacts
  <2>2. HashOK
    <3>1. Used(Blank(0)) = {}
      BY BlankGood
    <3> QED BY <3>1, StateFacts DEF IInv, HashInv
  <2>3. hash[k] \in Nat
    BY <2>1, <2>2 DEF HashOK
  <2>4. h \in 0..n - 1 /\ Distance(n, k, i) = Gap(n, h, i) /\ Gap(n, h, i) \in 0..n - 1
    <3>1. PICK u : u = table
      BY Zenon
    <3>2. u \in Tables(n) /\ i \in Used(u)
      BY <1>1, <3>1, Zenon
    <3>3. /\ Home(n, u[i].key) \in 0..n - 1 /\ i \in 0..n - 1
          /\ Distance(n, u[i].key, i) = Gap(n, Home(n, u[i].key), i)
          /\ \A x \in 0..n - 1 : Gap(n, Home(n, u[i].key), x) \in 0..n - 1
      BY <2>1, <2>2, <3>2, HomeIs, Zenon
    <3> QED BY <3>1, <3>3, Zenon
  <2>5. d \in 0..n - 1 /\ d <= Gap(n, h, i)
    <3>1. d \in 0..Gap(n, h, i)
      BY <2>4
    <3> HIDE DEF h
    <3> QED BY <3>1, <2>1, <2>4
  <2>6. j = Go(n, h, d)
    BY <2>1, <2>3, <2>5, ProbeGoes
  <2> HIDE DEF h
  <2>7. j \in 0..n - 1 /\ Gap(n, h, j) = d
    BY <2>1, <2>4, <2>5, <2>6, GapIs
  <2>8. ~Avoids(table, n, i, j)
    BY <2>4, <2>5, <2>7 DEF Avoids, h
  <2> QED BY <1>1, <2>7, <2>8 DEF Good, Linked
<1>4. UniqueKeys /\ SizeIsPopulation
  BY <1>1 DEF IInv, CountInv, Good, NoTwice, UniqueKeys, SizeIsPopulation
<1>5. AnnouncedIsLive
  BY DEF IInv, BlockInv, AnnouncedIsLive
<1>6. KeysOwned /\ IterationComplete
  BY DEF IInv, OwnOK, IterOK, KeysOwned, IterationComplete
<1> QED BY <1>2, <1>3, <1>4, <1>5, <1>6 DEF TableSound

LEMMA InvariantHolds == ASSUME ResetSucceeds PROVE Spec => []IInv
<1>1. Init => IInv
  BY InitHolds
<1>2. IInv /\ [Next]_vars => IInv'
  BY NextKeeps
<1> QED BY <1>1, <1>2, PTL DEF Spec


\* Every variable keeps the type its users expect, size_t included: the count
\* never wraps and the iterator never leaves the table.
THEOREM TypeCorrect == ASSUME ResetSucceeds PROVE Spec => []TypeOK
BY InvariantHolds, InvariantGives, PTL

\* For every hash function and every sequence of calls, no search stops early, no
\* key is stored twice and the count is true (managed_object_hashmap.c:119-158).
THEOREM TableStaysSound == ASSUME ResetSucceeds PROVE Spec => []TableSound
BY InvariantHolds, InvariantGives, PTL

\* Every copy of a key is freed once, when its entry goes
\* (managed_object_hashmap.c:130-133, 221-233).
THEOREM KeysStayOwned == ASSUME ResetSucceeds PROVE Spec => []KeysOwned
BY InvariantHolds, InvariantGives, PTL

\* The block the caller was told of is the one that holds the entries
\* (managed_object_hashmap.c:187-215, 268-276, 436-456).
THEOREM AnnouncedStaysLive == ASSUME ResetSucceeds PROVE Spec => []AnnouncedIsLive
BY InvariantHolds, InvariantGives, PTL

\* A loop that removes entries as it goes misses none
\* (managed_object_hashmap.h:345-347).
THEOREM IterationIsComplete == ASSUME ResetSucceeds PROVE Spec => []IterationComplete
BY InvariantHolds, InvariantGives, PTL

----------------------------------------------------------------------------
(* Reserve, and the abstract map.                                          *)

LEMMA ReservedPut ==
  ASSUME IInv, [Next]_vars, reserved' = reserved, reserved > 0, size' = size + 1,
         size' <= reserved
  PROVE  block' = block
<1>1. /\ size \in Nat /\ reserved \in Nat /\ tableSizeInit \in Nat /\ Slots(table) \in Nat
  BY StateFacts, SizesFacts DEF IInv, SizeInv, ReserveInv
<1>2. size' # 0 /\ size' # size
  BY <1>1
<1>3. ASSUME NEW k \in Key, NEW d \in Data, Put(k, d) PROVE block' = block
  <2> DEFINE need == CalcTableSize(tableSizeInit, size)
  <2>1. /\ tableSizeInit >= reserved + reserved \div 3 /\ tableSizeInit <= Slots(table)
        /\ tableSizeInit \in Pow2 /\ tableSizeInit >= 4
    BY <1>3, SizesFacts DEF IInv, ReserveInv, SizeInv, Put
  <2>2. size + size \div 3 < reserved + reserved \div 3
    BY <1>1
  <2>3. size + size \div 3 <= 2^30
    <3>1. Cardinality(Key) \in Nat /\ size <= Cardinality(Key)
      BY StateFacts, SizesFacts
    <3>2. Cardinality(Key) + Cardinality(Key) \div 3 <= 2^30
      BY SizesOK
    <3>3. size + size \div 3 <= Cardinality(Key) + Cardinality(Key) \div 3
      BY <1>1, <3>1
    <3> QED BY <1>1, <3>1, <3>2, <3>3
  <2>4. need = tableSizeInit
    <3>1. size + size \div 3 < tableSizeInit
      BY <1>1, <2>1, <2>2
    <3> QED BY <1>1, <2>1, <2>3, <3>1, CalcTableSizeIs
  <2> HIDE DEF need
  <2>5. ~Grows(need)
    BY <1>1, <2>1, <2>4 DEF Grows
  <2>6. PICK u : InPlace(u)
    BY <1>3, <2>5, StoreIsStored DEF Put, need
  <2> QED BY <2>6 DEF InPlace, blocks
<1>4. CASE UNCHANGED vars
  BY <1>2, <1>4 DEF vars
<1> QED BY <1>2, <1>3, <1>4
     DEF Next, BaseInit, Cleanup, Clear, Reset, Reserve, PutInvalid, Get, Remove, InPlace, blocks,
         IterBegin, IterNext, IterReset, IterRemove, IterSetData, RemoveEntry

\* Up to the reserved capacity no put moves the table
\* (managed_object_hashmap.c:291-293, "no rehashes are required").
THEOREM ReservationsHold == ASSUME ResetSucceeds PROVE Spec => ReserveHolds
<1>1. IInv /\ [Next]_vars
        => [reserved' = reserved /\ reserved > 0 /\ size' = size + 1 /\ size' <= reserved
              => block' = block]_vars
  BY ReservedPut
<1> QED BY <1>1, InvariantHolds, PTL DEF Spec, ReserveHolds

\* Contents, of a table.
ContentsOf(t) ==
  [k \in Key |-> LET at == {i \in Used(t) : t[i].key = k}
                 IN  IF at = {} THEN Null ELSE t[CHOOSE i \in at : TRUE].data]

LEMMA ContentsIs ==
  ASSUME NEW n \in Nat, NEW t, Good(t, n)
  PROVE  /\ ContentsOf(t) \in [Key -> Data \cup {Null}]
         /\ \A i \in Used(t) : ContentsOf(t)[t[i].key] = t[i].data
         /\ \A k \in Key : k \notin Keys(t) => ContentsOf(t)[k] = Null
         /\ \A k \in Key : k \in Keys(t) => ContentsOf(t)[k] \in Data /\ ContentsOf(t)[k] # Null
<1>1. \A i \in Used(t) : t[i].key \in Key /\ t[i].data \in Data /\ t[i].data # Null
  BY TableFacts, EntryFacts DEF Good
<1> DEFINE at(k) == {i \in Used(t) : t[i].key = k}
           the(k) == CHOOSE i \in at(k) : TRUE
<1>2. \A k \in Key : ContentsOf(t)[k] = IF at(k) = {} THEN Null ELSE t[the(k)].data
  BY DEF ContentsOf
<1>3. \A k \in Key : at(k) # {} => the(k) \in at(k)
  OBVIOUS
<1>4. ASSUME NEW i \in Used(t) PROVE ContentsOf(t)[t[i].key] = t[i].data
  <2> DEFINE k == t[i].key
  <2>1. k \in Key /\ at(k) # {}
    BY <1>1
  <2>2. the(k) \in Used(t) /\ t[the(k)].key = k
    BY <1>3, <2>1
  <2> HIDE DEF the
  <2>3. the(k) = i
    BY <2>2 DEF Good, NoTwice
  <2> QED BY <1>2, <2>1, <2>3
<1>5. ASSUME NEW k \in Key, k \notin Keys(t) PROVE ContentsOf(t)[k] = Null
  <2>1. at(k) = {}
    BY <1>5 DEF Keys
  <2> QED BY <1>2, <2>1
<1>6. ASSUME NEW k \in Key, k \in Keys(t)
      PROVE  ContentsOf(t)[k] \in Data /\ ContentsOf(t)[k] # Null
  <2>1. PICK i \in Used(t) : t[i].key = k
    BY <1>6 DEF Keys
  <2> QED BY <1>1, <1>4, <2>1
<1> HIDE DEF at, the
<1>7. \A k \in Key : ContentsOf(t)[k] \in Data \cup {Null}
  BY <1>5, <1>6
<1>8. ContentsOf(t) = [k \in Key |-> ContentsOf(t)[k]]
  BY DEF ContentsOf
<1>9. ContentsOf(t) \in [Key -> Data \cup {Null}]
  BY <1>7, <1>8
<1> QED BY <1>4, <1>5, <1>6, <1>9

\* Tables that agree on every key have the same contents.
LEMMA SameContents ==
  ASSUME NEW n \in Nat, NEW m \in Nat, NEW t, NEW r, Good(t, m), Good(r, n),
         \A j \in Used(r) : \E y \in Used(t) : t[y] = r[j],
         \A y \in Used(t) : \E j \in Used(r) : r[j] = t[y]
  PROVE  ContentsOf(r) = ContentsOf(t)
<1>1. Keys(r) = Keys(t)
  BY SameKeys
<1>2. ASSUME NEW k \in Key PROVE ContentsOf(r)[k] = ContentsOf(t)[k]
  <2>1. CASE k \in Keys(t)
    <3>1. PICK j \in Used(r) : r[j].key = k
      BY <2>1, <1>1 DEF Keys
    <3>2. PICK y \in Used(t) : t[y] = r[j]
      OBVIOUS
    <3>3. ContentsOf(r)[k] = r[j].data
      BY <3>1, ContentsIs
    <3>4. ContentsOf(t)[k] = t[y].data
      BY <3>1, <3>2, ContentsIs
    <3> QED BY <3>2, <3>3, <3>4
  <2>2. CASE k \notin Keys(t)
    BY <2>2, <1>1, ContentsIs
  <2> QED BY <2>1, <2>2
<1>3. ContentsOf(r) \in [Key -> Data \cup {Null}] /\ ContentsOf(t) \in [Key -> Data \cup {Null}]
  BY ContentsIs
<1> QED BY <1>2, <1>3

LEMMA RemovedContents ==
  ASSUME NEW n \in Nat, NEW t, NEW r, Good(t, n), Good(r, n), NEW i \in Used(t),
         Keys(r) = Keys(t) \ {t[i].key},
         \A j \in Used(r) : \E y \in Used(t) \ {i} : t[y] = r[j]
  PROVE  ContentsOf(r) = [ContentsOf(t) EXCEPT ![t[i].key] = Null]
<1>1. ASSUME NEW k \in Key, k # t[i].key PROVE ContentsOf(r)[k] = ContentsOf(t)[k]
  <2>1. CASE k \in Keys(t)
    <3>1. PICK j \in Used(r) : r[j].key = k
      BY <1>1, <2>1 DEF Keys
    <3>2. PICK y \in Used(t) : t[y] = r[j]
      OBVIOUS
    <3>3. ContentsOf(r)[k] = r[j].data
      BY <3>1, ContentsIs
    <3>4. ContentsOf(t)[k] = t[y].data
      BY <3>1, <3>2, ContentsIs
    <3> QED BY <3>2, <3>3, <3>4
  <2>2. CASE k \notin Keys(t)
    BY <2>2, ContentsIs
  <2> QED BY <2>1, <2>2
<1>2. t[i].key \in Key
  BY TableFacts DEF Good
<1>3. ContentsOf(r)[t[i].key] = Null
  BY <1>2, ContentsIs
<1>4. ContentsOf(r) \in [Key -> Data \cup {Null}] /\ ContentsOf(t) \in [Key -> Data \cup {Null}]
  BY ContentsIs
<1> QED BY <1>1, <1>2, <1>3, <1>4

\* A table that has one entry more, or the data of one entry changed.
LEMMA ChangedContents ==
  ASSUME NEW n \in Nat, NEW t, NEW u, Good(t, n), Good(u, n), NEW f \in Used(u),
         \A j \in Used(u) \ {f} : j \in Used(t) /\ u[j] = t[j],
         \A j \in Used(t) : j \in Used(u) /\ u[j].key = t[j].key
  PROVE  ContentsOf(u) = [ContentsOf(t) EXCEPT ![u[f].key] = u[f].data]
<1>1. u[f].key \in Key
  BY TableFacts DEF Good
<1>2. ASSUME NEW k \in Key, k # u[f].key PROVE ContentsOf(u)[k] = ContentsOf(t)[k]
  <2>1. CASE \E j \in Used(u) : u[j].key = k
    <3>1. PICK j \in Used(u) : u[j].key = k
      BY <2>1
    <3>2. j \in Used(t) /\ u[j] = t[j]
      BY <1>2, <3>1
    <3>3. ContentsOf(u)[k] = u[j].data
      BY <3>1, ContentsIs
    <3>4. ContentsOf(t)[k] = t[j].data
      BY <3>1, <3>2, ContentsIs
    <3> QED BY <3>2, <3>3, <3>4
  <2>2. CASE ~\E j \in Used(u) : u[j].key = k
    <3>1. k \notin Keys(u) /\ k \notin Keys(t)
      BY <2>2 DEF Keys
    <3> QED BY <3>1, ContentsIs
  <2> QED BY <2>1, <2>2
<1>3. ContentsOf(u)[u[f].key] = u[f].data
  BY ContentsIs
<1>4. ContentsOf(u) \in [Key -> Data \cup {Null}] /\ ContentsOf(t) \in [Key -> Data \cup {Null}]
  BY ContentsIs
<1> QED BY <1>1, <1>2, <1>3, <1>4

\* What a put does to the table it searched, with what it returns.
StoredAs(t, k, d, failed, u) ==
  \/ Find(t, k) = NoSlot /\ out' = (IF failed THEN "ENOMEM" ELSE "EADDRNOTAVAIL") /\ u = t
  \/ Find(t, k) # NoSlot /\ t[Find(t, k)].key = k /\ out' = "EEXIST" /\ u = t
  \/ Find(t, k) # NoSlot /\ t[Find(t, k)].key = Null /\ out' = "ENOMEM" /\ u = t
  \/ /\ Find(t, k) # NoSlot /\ t[Find(t, k)].key = Null /\ out' = "ok"
     /\ u = Inserted(t, [key |-> k, data |-> d])

LEMMA StoreAsStored ==
  ASSUME NEW t, NEW k \in Key, NEW d \in Data, NEW failed \in BOOLEAN
  PROVE  /\ Store(t, k, d, failed, InPlace) => StoredAs(t, k, d, failed, table')
         /\ Store(t, k, d, failed, Reallocate) => StoredAs(t, k, d, failed, table')
<1>1. ASSUME Store(t, k, d, failed, InPlace) PROVE StoredAs(t, k, d, failed, table')
  BY <1>1 DEF Store, StoredAs, Inserted, InPlace
<1>2. ASSUME Store(t, k, d, failed, Reallocate) PROVE StoredAs(t, k, d, failed, table')
  BY <1>2 DEF Store, StoredAs, Inserted, Reallocate
<1> QED BY <1>1, <1>2

\* A put into a table with room, or one that reports that memory ran out, is a put
\* of the abstract map.
LEMMA StoredImplements ==
  ASSUME NEW n \in Nat, NEW t, Good(t, n), HashOK, NEW k \in Key, NEW d \in Data,
         NEW failed \in BOOLEAN, StoredAs(t, k, d, failed, table'),
         failed \/ Cardinality(Used(t)) < n
  PROVE  \/ ContentsOf(t)[k] = Null /\ out' = "ok"
            /\ ContentsOf(table') = [ContentsOf(t) EXCEPT ![k] = d]
         \/ ContentsOf(t)[k] # Null /\ out' = "EEXIST" /\ ContentsOf(table') = ContentsOf(t)
         \/ ContentsOf(t)[k] = Null /\ out' = "ENOMEM" /\ ContentsOf(table') = ContentsOf(t)
<1>1. /\ k \in Keys(t) => \E j \in Used(t) : t[j].key = k /\ Find(t, k) = j
      /\ k \notin Keys(t) => \/ Find(t, k) = NoSlot /\ Used(t) = 0..n - 1
                             \/ t[Find(t, k)].key = Null
  BY SearchFinds DEF Keys
<1>2. k # Null /\ \A j \in Used(t) : j # NoSlot /\ t[j].key # Null
  <2>1. \A j \in Used(t) : j \in 0..n - 1 /\ t[j].key \in Key
    BY TableFacts DEF Good
  <2> QED BY <2>1, EntryFacts DEF NoSlot
<1>3. /\ k \in Keys(t) => ContentsOf(t)[k] # Null
      /\ k \notin Keys(t) => ContentsOf(t)[k] = Null
  BY ContentsIs
<1>4. CASE Find(t, k) = NoSlot /\ out' = (IF failed THEN "ENOMEM" ELSE "EADDRNOTAVAIL") /\ table' = t
  <2>1. k \notin Keys(t)
    BY <1>1, <1>2, <1>4
  <2>2. failed
    <3> SUFFICES ASSUME ~failed PROVE FALSE
      OBVIOUS
    <3>1. \A j \in 0..n - 1 : t[j].key # Null
      <4>1. t \in Tables(n)
        BY DEF Good
      <4> QED BY <4>1, <1>4, FindIs, EntryFacts DEF NoSlot
    <3>2. Used(t) = 0..n - 1
      <4>1. t \in Tables(n)
        BY DEF Good
      <4>2. Used(t) = {j \in 0..n - 1 : t[j].key # Null}
        BY <4>1, TableFacts
      <4> QED BY <3>1, <4>2, Zenon
    <3>3. Cardinality(0..n - 1) = n
      BY FS_Interval
    <3>4. Cardinality(Used(t)) = n
      BY <3>2, <3>3, Zenon
    <3> QED BY <3>4
  <2> QED BY <1>3, <1>4, <2>1, <2>2
<1>5. CASE t[Find(t, k)].key = k /\ out' = "EEXIST" /\ table' = t /\ Find(t, k) # NoSlot
  <2>1. k \in Keys(t)
    BY <1>1, <1>2, <1>5
  <2> QED BY <1>3, <1>5, <2>1
<1>6. CASE t[Find(t, k)].key = Null /\ out' = "ENOMEM" /\ table' = t
  <2>1. k \notin Keys(t)
    BY <1>1, <1>2, <1>6
  <2> QED BY <1>3, <1>6, <2>1
<1>7. CASE /\ Find(t, k) # NoSlot /\ t[Find(t, k)].key = Null /\ out' = "ok"
           /\ table' = Inserted(t, [key |-> k, data |-> d])
  <2> DEFINE x == [key |-> k, data |-> d]
             f == Find(t, k)
  <2>1. k \notin Keys(t)
    BY <1>1, <1>2, <1>7
  <2>2. x \in [key : Key, data : Data] /\ x.key = k /\ x.data = d
    OBVIOUS
  <2> HIDE DEF x
  <2>3. table' = Inserted(t, x)
    BY <1>7 DEF x
  <2>4. /\ Good(table', n) /\ f \in (0..n - 1) \ Used(t)
        /\ Used(table') = Used(t) \cup {f}
        /\ table'[f] = x /\ \A j \in Used(t) : table'[j] = t[j]
    BY <1>7, <2>1, <2>2, <2>3, InsertKeeps
  <2> HIDE DEF f
  <2>5. ContentsOf(table') = [ContentsOf(t) EXCEPT ![table'[f].key] = table'[f].data]
    <3>1. f \in Used(table') /\ \A j \in Used(table') \ {f} : j \in Used(t) /\ table'[j] = t[j]
      BY <2>4
    <3>2. \A j \in Used(t) : j \in Used(table') /\ table'[j].key = t[j].key
      BY <2>4
    <3> QED BY <2>4, <3>1, <3>2, ChangedContents
  <2> QED BY <1>3, <1>7, <2>1, <2>2, <2>4, <2>5
<1> QED BY <1>4, <1>5, <1>6, <1>7 DEF StoredAs

LEMMA PutImplements ==
  ASSUME IInv, NEW k \in Key, NEW d \in Data, Put(k, d)
  PROVE  \/ ContentsOf(table)[k] = Null /\ out' = "ok"
            /\ ContentsOf(table') = [ContentsOf(table) EXCEPT ![k] = d]
         \/ ContentsOf(table)[k] # Null /\ out' = "EEXIST" /\ ContentsOf(table') = ContentsOf(table)
         \/ ContentsOf(table)[k] = Null /\ out' = "ENOMEM" /\ ContentsOf(table') = ContentsOf(table)
<1> DEFINE need == CalcTableSize(tableSizeInit, size)
           r    == Rehashed(table, need)
<1>1. PICK m \in Sizes : /\ m \in Nat /\ Good(table, m) /\ Slots(table) = m
  BY StateFacts
<1>2. /\ Ready /\ HashOK /\ size \in Nat /\ size <= m /\ size = Cardinality(Used(table))
      /\ size <= Cardinality(Key) /\ Cardinality(Key) \in Nat
  BY <1>1, StateFacts, SizesFacts, TableFacts DEF Put, Good, IInv, CountInv
<1>3. need \in Nat /\ need >= tableSizeInit /\ tableSizeInit \in Nat /\ tableSizeInit >= 4
      /\ need >= size + size \div 3
  <2>1. tableSizeInit \in Pow2 /\ tableSizeInit >= 4
    BY <1>2, SizesFacts DEF IInv, SizeInv
  <2>2. size + size \div 3 <= 2^30
    <3>1. Cardinality(Key) + Cardinality(Key) \div 3 <= 2^30
      BY SizesOK
    <3>2. size + size \div 3 <= Cardinality(Key) + Cardinality(Key) \div 3
      BY <1>2
    <3> QED BY <1>2, <3>1, <3>2
  <2> QED BY <1>2, <2>1, <2>2, CalcTableSizeIs, SizesFacts
<1>4. \/ ~Grows(need) /\ StoredAs(table, k, d, FALSE, table')
      \/ Grows(need) /\ StoredAs(r, k, d, FALSE, table')
      \/ Grows(need) /\ StoredAs(table, k, d, TRUE, table')
  BY StoreAsStored DEF Put
<1> HIDE DEF need
<1>5. CASE ~Grows(need) /\ StoredAs(table, k, d, FALSE, table')
  <2>1. Cardinality(Used(table)) < m
    <3>1. need <= m
      BY <1>1, <1>3, <1>5 DEF Grows
    <3> QED BY <1>1, <1>2, <1>3, <3>1
  <2> QED BY <1>1, <1>2, <1>5, <2>1, StoredImplements
<1>6. CASE Grows(need) /\ StoredAs(r, k, d, FALSE, table')
  <2>1. m < need
    BY <1>1, <1>6 DEF Grows
  <2>2. /\ Good(r, need) /\ Cardinality(Used(r)) = size
        /\ \A j \in Used(r) : \E y \in Used(table) : table[y] = r[j]
        /\ \A y \in Used(table) : \E j \in Used(r) : r[j] = table[y]
    BY <1>1, <1>2, <1>3, <2>1, RehashKeeps
  <2>5. StoredAs(r, k, d, FALSE, table')
    BY <1>6
  <2> HIDE DEF r
  <2>3. ContentsOf(r) = ContentsOf(table)
    BY <1>1, <1>3, <2>2, SameContents
  <2>4. Cardinality(Used(r)) < need
    BY <1>1, <1>2, <1>3, <2>1, <2>2
  <2>6. \/ ContentsOf(r)[k] = Null /\ out' = "ok"
           /\ ContentsOf(table') = [ContentsOf(r) EXCEPT ![k] = d]
        \/ ContentsOf(r)[k] # Null /\ out' = "EEXIST" /\ ContentsOf(table') = ContentsOf(r)
        \/ ContentsOf(r)[k] = Null /\ out' = "ENOMEM" /\ ContentsOf(table') = ContentsOf(r)
    BY <1>2, <1>3, <2>2, <2>4, <2>5, StoredImplements
  <2> QED BY <2>3, <2>6
<1>7. CASE Grows(need) /\ StoredAs(table, k, d, TRUE, table')
  BY <1>1, <1>2, <1>7, StoredImplements
<1> QED BY <1>4, <1>5, <1>6, <1>7


----------------------------------------------------------------------------
(* The refinement of KeyMap.                                               *)

LEMMA ContentsHere == Contents = ContentsOf(table) /\ Contents' = ContentsOf(table')
BY DEF Contents, ContentsOf, Used

LEMMA BlankContents ==
  ASSUME NEW n \in Nat
  PROVE  ContentsOf(Blank(n)) = KM!Empty
<1>1. Good(Blank(n), n) /\ Keys(Blank(n)) = {}
  BY BlankGood
<1>2. /\ ContentsOf(Blank(n)) \in [Key -> Data \cup {Null}]
      /\ \A k \in Key : ContentsOf(Blank(n))[k] = Null
  BY <1>1, ContentsIs
<1> QED BY <1>2 DEF KM!Empty

\* A call that leaves the table alone leaves the map alone.
LEMMA TableSame ==
  ASSUME table' = table
  PROVE  Contents' = Contents
BY ContentsHere

LEMMA EmptyingImplements ==
  ASSUME IInv, NEW h, BaseInit(h) \/ Cleanup \/ Clear
  PROVE  KM!Clear
<1>1. out' = "none"
  BY DEF BaseInit, Cleanup, Clear
<1>2. \E n \in Nat : table' = Blank(n)
  <2>1. CASE BaseInit(h)
    <3>1. table' = Blank(0)
      BY <2>1 DEF BaseInit, IInv, HashInv
    <3> QED BY <3>1
  <2>2. CASE Cleanup
    BY <2>2 DEF Cleanup
  <2>3. CASE Clear
    <3>1. Slots(table) \in Nat
      BY StateFacts
    <3> QED BY <2>3, <3>1 DEF Clear, InPlace
  <2> QED BY <2>1, <2>2, <2>3
<1>3. Contents' = KM!Empty
  BY <1>2, BlankContents, ContentsHere
<1> QED BY <1>1, <1>3 DEF KM!Clear

LEMMA ResetImplements ==
  ASSUME IInv, ResetSucceeds, Reset
  PROVE  KM!Reset
<1>1. Slots(table) \in Nat /\ tableSizeInit \in Nat
  BY StateFacts, SizesFacts DEF IInv, SizeInv
<1>2. out' = "ok" /\ \E n \in Nat : table' = Blank(n)
  BY <1>1 DEF Reset, ResetSucceeds, ReallocateForReset, Reallocate, InPlace
<1>3. Contents' = KM!Empty
  BY <1>2, BlankContents, ContentsHere
<1> QED BY <1>2, <1>3 DEF KM!Reset

LEMMA ReserveImplements ==
  ASSUME IInv, NEW c \in Capacities, Reserve(c)
  PROVE  KM!Reserve
<1> DEFINE want == CalcTableSize(SizeMin, c)
<1>1. PICK m \in Sizes : /\ m \in Nat /\ Good(table, m) /\ Slots(table) = m
  BY StateFacts
<1>2. Ready /\ HashOK /\ out' \in {"ok", "ENOMEM"}
  BY StateFacts DEF Reserve
<1>3. want \in Nat
  <2>1. SizeMin \in Pow2 /\ SizeMin >= 4 /\ c \in Nat /\ c + c \div 3 <= 2^30
    BY SizesOK
  <2> QED BY <2>1, CalcTableSizeIs DEF Sizes
<1>4. \/ want > Slots(table) /\ table' = Rehashed(table, want)
      \/ table' = table
  BY DEF Reserve, Reallocate, InPlace
<1> HIDE DEF want
<1>5. CASE want > Slots(table) /\ table' = Rehashed(table, want)
  <2>1. /\ Good(table', want)
        /\ \A j \in Used(table') : \E y \in Used(table) : table[y] = table'[j]
        /\ \A y \in Used(table) : \E j \in Used(table') : table'[j] = table[y]
    BY <1>1, <1>2, <1>3, <1>5, RehashKeeps
  <2>2. ContentsOf(table') = ContentsOf(table)
    BY <1>1, <1>3, <2>1, SameContents
  <2> QED BY <1>2, <2>2, ContentsHere DEF KM!Reserve
<1>6. CASE table' = table
  BY <1>2, <1>6, TableSame DEF KM!Reserve
<1> QED BY <1>4, <1>5, <1>6

LEMMA LookupReads ==
  ASSUME NEW n \in Nat, Good(table, n), HashOK, NEW k \in Key
  PROVE  /\ Lookup(table, k) = NoSlot => ContentsOf(table)[k] = Null
         /\ Lookup(table, k) # NoSlot =>
              /\ Lookup(table, k) \in Used(table) /\ table[Lookup(table, k)].key = k
              /\ ContentsOf(table)[k] = table[Lookup(table, k)].data
<1>1. CASE k \in Keys(table)
  <2>1. PICK j \in Used(table) : table[j].key = k
    BY <1>1 DEF Keys
  <2>2. Lookup(table, k) = j /\ j \in Nat
    BY <2>1, SearchFinds, TableFacts DEF Good
  <2>3. ContentsOf(table)[k] = table[j].data
    BY <2>1, ContentsIs
  <2> QED BY <2>1, <2>2, <2>3 DEF NoSlot
<1>2. CASE k \notin Keys(table)
  BY <1>2, SearchFinds, ContentsIs
<1> QED BY <1>1, <1>2

LEMMA RemoveEntryContents ==
  ASSUME IInv, Ready, NEW n \in Sizes, Good(table, n), NEW i \in Used(table),
         RemoveEntry(i), hash' = hash
  PROVE  ContentsOf(table') = [ContentsOf(table) EXCEPT ![table[i].key] = Null]
<1>1. /\ Good(table', n) /\ Keys(table') = Keys(table) \ {table[i].key}
      /\ \A j \in Used(table') : \E y \in Used(table) \ {i} : table[y] = table'[j]
  BY RemoveEntryKeeps
<1>2. n \in Nat
  BY SizesFacts
<1> QED BY <1>1, <1>2, RemovedContents

LEMMA GetImplements ==
  ASSUME IInv, NEW k \in Key, Get(k)
  PROVE  KM!Get(k)
<1>1. PICK n \in Sizes : n \in Nat /\ Good(table, n) /\ Slots(table) = n
  BY StateFacts
<1>2. HashOK /\ table' = table
  BY StateFacts DEF Get
<1>3. out' = IF Lookup(table, k) = NoSlot THEN Null ELSE table[Lookup(table, k)].data
  BY DEF Get
<1>4. out' = ContentsOf(table)[k]
  BY <1>1, <1>2, <1>3, LookupReads
<1> QED BY <1>2, <1>4, ContentsHere, TableSame DEF KM!Get

LEMMA RemoveImplements ==
  ASSUME IInv, NEW k \in Key, Remove(k)
  PROVE  KM!Remove(k)
<1> DEFINE i == Lookup(table, k)
<1>1. PICK n \in Sizes : n \in Nat /\ Good(table, n) /\ Slots(table) = n
  BY StateFacts
<1>2. Ready /\ HashOK /\ hash' = hash
  BY StateFacts DEF Remove
<1>3. /\ i = NoSlot => ContentsOf(table)[k] = Null
      /\ i # NoSlot => /\ i \in Used(table) /\ table[i].key = k
                       /\ ContentsOf(table)[k] = table[i].data
  BY <1>1, <1>2, LookupReads
<1>4. \/ i = NoSlot /\ out' = Null /\ table' = table
      \/ i # NoSlot /\ out' = table[i].data /\ RemoveEntry(i)
  BY DEF Remove, InPlace
<1> HIDE DEF i
<1>5. ContentsOf(table) \in [Key -> Data \cup {Null}]
  BY <1>1, ContentsIs
<1>6. out' = ContentsOf(table)[k] /\ ContentsOf(table') = [ContentsOf(table) EXCEPT ![k] = Null]
  <2>1. CASE i = NoSlot
    <3>1. out' = Null /\ table' = table /\ ContentsOf(table)[k] = Null
      BY <1>3, <1>4, <2>1
    <3> QED BY <3>1, <1>5
  <2>2. CASE i # NoSlot
    <3>1. RemoveEntry(i) /\ i \in Used(table) /\ table[i].key = k
      BY <1>3, <1>4, <2>2
    <3>2. ContentsOf(table') = [ContentsOf(table) EXCEPT ![k] = Null]
      BY <1>1, <1>2, <3>1, RemoveEntryContents
    <3> QED BY <1>3, <1>4, <2>2, <3>2
  <2> QED BY <2>1, <2>2
<1> QED BY <1>6, ContentsHere DEF KM!Remove

\* An iterator whose entry is still in its slot stands on that entry.
LEMMA IterStands ==
  ASSUME IInv, iter.at = "slot", table[iter.pos].key = iter.temp
  PROVE  iter.pos \in Used(table) /\ iter.temp \in Key /\ Ready
<1>1. iter.pos \in DOMAIN table /\ iter.temp \in Key
  BY IterTypes DEF IInv
<1>2. iter.pos \in Used(table)
  BY <1>1, EntryFacts DEF Used
<1>3. Ready
  <2> SUFFICES ASSUME ~Ready PROVE FALSE
    OBVIOUS
  <2>1. table = Blank(0)
    BY DEF IInv, HashInv
  <2>2. Used(Blank(0)) = {}
    BY BlankGood
  <2> QED BY <1>2, <2>1, <2>2
<1> QED BY <1>1, <1>2, <1>3

LEMMA IterRemoveImplements ==
  ASSUME IInv, IterRemove
  PROVE  \E k \in Key : KM!IterRemove(k)
<1> DEFINE i == iter.pos
           k == table[i].key
<1>1. PICK n \in Sizes : n \in Nat /\ Good(table, n)
  BY StateFacts
<1>2. RemoveEntry(i) /\ out' = "none" /\ hash' = hash
  BY DEF IterRemove
<1>3. i \in Used(table) /\ k \in Key /\ Ready
  BY IterStands DEF IterRemove
<1> HIDE DEF i
<1>4. ContentsOf(table') = [ContentsOf(table) EXCEPT ![k] = Null]
  BY <1>1, <1>2, <1>3, RemoveEntryContents
<1>5. ContentsOf(table)[k] # Null
  <2>1. k \in Keys(table)
    BY <1>3 DEF Keys
  <2> QED BY <1>1, <1>3, <2>1, ContentsIs
<1>6. KM!IterRemove(k)
  BY <1>2, <1>4, <1>5, ContentsHere DEF KM!IterRemove
<1> QED BY <1>3, <1>6

LEMMA IterSetDataImplements ==
  ASSUME IInv, NEW d \in Data, IterSetData(d)
  PROVE  \E k \in Key : KM!IterSetData(k, d)
<1> DEFINE i == iter.pos
           k == table[i].key
<1>1. PICK n \in Sizes : n \in Nat /\ Good(table, n) /\ table \in Tables(n) /\ DOMAIN table = 0..n - 1
  BY StateFacts
<1>2. table' = [table EXCEPT ![i].data = d] /\ out' = "ok" /\ hash' = hash
  BY DEF IterSetData, InPlace
<1>3. i \in Used(table) /\ k \in Key
  BY IterStands DEF IterSetData
<1> HIDE DEF i
<1>4. i \in 0..n - 1 /\ table[i] \in [key : Key, data : Data]
  BY <1>1, <1>3, EntryFacts, TableFacts DEF Entry, Used
<1>5. /\ DOMAIN table' = DOMAIN table /\ table'[i] = [key |-> k, data |-> d]
      /\ \A j \in DOMAIN table : j # i => table'[j] = table[j]
  BY <1>1, <1>2, <1>4
<1>6. Used(table') = Used(table) /\ \A j \in Used(table) : table'[j].key = table[j].key
  BY <1>3, <1>5 DEF Used
<1>7. PICK m \in Sizes : m \in Nat /\ Good(table', m)
  <2>1. IInv'
    BY IterSetDataKeeps
  <2>2. TableInv'
    BY <2>1 DEF IInv
  <2>3. \E m \in Sizes : Good(table, m)'
    BY <2>2 DEF TableInv, Sizes, Pow2
  <2>4. \E m \in Sizes : Good(table', m)
    BY <1>2, <2>3 DEF Good, Linked, HasCut, NoTwice, Avoids, Home, Used, Tables, Gap
  <2> QED BY <2>4, SizesFacts
<1>8. m = n
  <2>1. Slots(table') = m /\ Slots(table) = n
    BY <1>1, <1>7, TableFacts DEF Good
  <2> QED BY <2>1, <1>5 DEF Slots
<1>9. ContentsOf(table') = [ContentsOf(table) EXCEPT ![table'[i].key] = table'[i].data]
  <2>1. Good(table', n)
    BY <1>7, <1>8
  <2>2. i \in Used(table') /\ \A j \in Used(table') \ {i} : j \in Used(table) /\ table'[j] = table[j]
    BY <1>3, <1>5, <1>6 DEF Used
  <2> QED BY <1>1, <1>6, <2>1, <2>2, ChangedContents
<1>10. ContentsOf(table)[k] # Null
  <2>1. k \in Keys(table)
    BY <1>3 DEF Keys
  <2> QED BY <1>1, <1>3, <2>1, ContentsIs
<1>11. KM!IterSetData(k, d)
  BY <1>2, <1>5, <1>9, <1>10, ContentsHere DEF KM!IterSetData
<1> QED BY <1>3, <1>11

LEMMA NextImplements ==
  ASSUME ResetSucceeds, IInv, [Next]_vars
  PROVE  [KM!Next]_<<Contents, out>>
<1>1. ASSUME NEW h \in [Key -> HashValues], BaseInit(h) PROVE KM!Next
  BY <1>1, EmptyingImplements DEF KM!Next
<1>2. CASE Cleanup \/ Clear
  BY <1>2, EmptyingImplements DEF KM!Next
<1>3. CASE Reset
  BY <1>3, ResetImplements DEF KM!Next
<1>4. ASSUME NEW c \in Capacities, Reserve(c) PROVE KM!Next
  BY <1>4, ReserveImplements DEF KM!Next
<1>5. ASSUME NEW k \in Key, NEW d \in Data, Put(k, d) PROVE KM!Next
  <2>1. KM!Put(k, d)
    BY <1>5, PutImplements, ContentsHere DEF KM!Put
  <2> QED BY <2>1 DEF KM!Next
<1>6. CASE PutInvalid
  BY <1>6, TableSame DEF PutInvalid, KM!PutInvalid, KM!Next
<1>7. ASSUME NEW k \in Key, Get(k) PROVE KM!Next
  BY <1>7, GetImplements DEF KM!Next
<1>8. ASSUME NEW k \in Key, Remove(k) PROVE KM!Next
  BY <1>8, RemoveImplements DEF KM!Next
<1>9. CASE IterBegin \/ IterNext \/ IterReset
  <2>1. table' = table /\ out' = "none"
    BY <1>9 DEF IterBegin, IterNext, IterReset
  <2> QED BY <2>1, TableSame DEF KM!Iterate, KM!Next
<1>10. CASE IterRemove
  BY <1>10, IterRemoveImplements DEF KM!Next
<1>11. ASSUME NEW d \in Data, IterSetData(d) PROVE KM!Next
  BY <1>11, IterSetDataImplements DEF KM!Next
<1>12. CASE UNCHANGED vars
  <2>1. table' = table /\ out' = out
    BY <1>12 DEF vars
  <2> QED BY <2>1, TableSame
<1> QED BY <1>1, <1>2, <1>3, <1>4, <1>5, <1>6, <1>7, <1>8, <1>9, <1>10, <1>11, <1>12 DEF Next

\* Probing, shifting and rehashing implement the abstract map: every call returns
\* what it must and changes no other key (managed_object_hashmap.h:176-260).
THEOREM MapIsImplemented == ASSUME ResetSucceeds PROVE Spec => ImplementsKeyMap
<1>1. Init => KM!Init
  <2> SUFFICES ASSUME Init PROVE KM!Init
    OBVIOUS
  <2>1. table = Blank(0) /\ out = "none"
    BY DEF Init
  <2>2. Contents = KM!Empty
    BY <2>1, BlankContents, ContentsHere
  <2> QED BY <2>1, <2>2 DEF KM!Init
<1>2. IInv /\ [Next]_vars => [KM!Next]_<<Contents, out>>
  BY NextImplements
<1> QED BY <1>1, <1>2, InvariantHolds, PTL DEF Spec, ImplementsKeyMap, KM!Spec
=============================================================================
