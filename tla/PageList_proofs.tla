-------------------------- MODULE PageList_proofs --------------------------
(***************************************************************************)
(* Proofs about PageList for every set of values, page size and number of  *)
(* pages: the caches of a page are right, and positions resolve until a    *)
(* page in front of another one is dropped.                                *)
(***************************************************************************)
EXTENDS PageList, FiniteSetTheorems, SequenceTheorems, WellFoundedInduction, TLAPS

----------------------------------------------------------------------------
(* Numbers.                                                                *)

\* A set of naturals has a least element: the intervals up to its elements,
\* ordered by inclusion, have a minimal one.
LEMMA MinExists ==
  ASSUME NEW S, S \subseteq Nat, S # {}
  PROVE  Min(S) \in S /\ \A y \in S : Min(S) <= y
<1> DEFINE T == {0..n : n \in S}
<1>1. T \subseteq FiniteSubsetsOf(Nat) /\ T # {}
  <2>1. \A n \in S : 0..n \in SUBSET Nat /\ IsFiniteSet(0..n)
    BY FS_Interval
  <2> QED BY <2>1 DEF FiniteSubsetsOf
<1>2. PICK I \in T : \A J \in T : ~(<<J, I>> \in StrictSubsetOrdering(Nat))
  <2> HIDE DEF T
  <2> QED BY <1>1, FS_StrictSubsetOrderingWellFounded, WFMin, Zenon
<1>3. PICK x \in S : I = 0..x
  OBVIOUS
<1>4. \A y \in S : x <= y
  <2> SUFFICES ASSUME NEW y \in S, ~(x <= y) PROVE FALSE
    OBVIOUS
  <2>1. 0..y \in SUBSET Nat /\ 0..x \in SUBSET Nat
    OBVIOUS
  <2>2. 0..y \subseteq 0..x /\ 0..y # 0..x
    <3>1. x \in Nat /\ y \in Nat /\ y < x
      OBVIOUS
    <3> QED BY <3>1
  <2>3. 0..y \in T
    OBVIOUS
  <2> QED BY <1>2, <1>3, <2>1, <2>2, <2>3 DEF StrictSubsetOrdering
<1> QED BY <1>4 DEF Min

\* The position of slot i of page k leads back to both.
LEMMA IndexLeadsBack ==
  ASSUME NEW k \in Nat \ {0}, NEW i \in Slot
  PROVE  Index(k, i) \in Nat /\ Chunk(Index(k, i)) = k /\ Subindex(Index(k, i)) = i
BY PagesOK DEF Index, Chunk, Subindex, Slot

\* Every position is in a slot of some page.
LEMMA PositionInPage ==
  ASSUME NEW x \in Nat
  PROVE  Chunk(x) \in Nat \ {0} /\ Subindex(x) \in Slot
BY PagesOK DEF Chunk, Subindex, Slot

----------------------------------------------------------------------------
(* Pages.                                                                  *)

\* A page has PageSize slots, so the number of its set slots is a number.
LEMMA SlotsFinite ==
  /\ IsFiniteSet(Slot) /\ Cardinality(Slot) = PageSize
  /\ \A p : IsFiniteSet(SetSlots(p)) /\ Cardinality(SetSlots(p)) \in 0..PageSize
<1>1. IsFiniteSet(Slot) /\ Cardinality(Slot) = PageSize
  BY FS_Interval, PagesOK DEF Slot
<1>2. ASSUME NEW p
      PROVE  IsFiniteSet(SetSlots(p)) /\ Cardinality(SetSlots(p)) \in 0..PageSize
  <2>1. SetSlots(p) \in SUBSET Slot
    BY DEF SetSlots
  <2>2. IsFiniteSet(SetSlots(p)) /\ Cardinality(SetSlots(p)) <= PageSize
    BY <1>1, <2>1, FS_Subset
  <2> QED BY <2>2, FS_CardinalityType, PagesOK
<1> QED BY <1>1, <1>2

\* A new page has its caches right.
LEMMA NewPageType ==
  NewPage \in Page /\ Consistent(NewPage, Cardinality(SetSlots(NewPage)))
<1>1. SetSlots(NewPage) = {}
  BY DEF SetSlots, NewPage
<1>2. NewPage \in Page
  BY PagesOK DEF NewPage, Page
<1> QED BY <1>1, <1>2, FS_EmptySet, PagesOK DEF NewPage, Consistent

\* set() on a page that is not full takes a free slot and keeps the caches right.
LEMMA PutType ==
  ASSUME NEW p \in Page, NEW v \in Value,
         Consistent(p, Cardinality(SetSlots(p))), ~p.full
  PROVE  LET i == FreeSlot(p)
             q == PagePut(p, i, v)
         IN  /\ i \in Slot /\ i # Failed /\ p.slots[i] = Null
             /\ q \in Page /\ q.slots = [p.slots EXCEPT ![i] = v] /\ ~q.empty
             /\ Consistent(q, Cardinality(SetSlots(q)))
<1> DEFINE i == FreeSlot(p)
           q == PagePut(p, i, v)
           n == Cardinality(SetSlots(p))
<1>1. n \in 0..PageSize /\ n # PageSize /\ p.used = n
  BY SlotsFinite DEF Consistent, Page
<1>2. SetSlots(p) # Slot
  BY <1>1, SlotsFinite
<1>3. i \in Slot /\ i \notin SetSlots(p)
  <2>1. Slot \ SetSlots(p) \subseteq Nat /\ Slot \ SetSlots(p) # {}
    BY <1>2, PagesOK DEF Slot, SetSlots
  <2> QED BY <1>2, <2>1, MinExists DEF FreeSlot
<1>4. i # Failed /\ p.slots[i] = Null
  BY <1>3, PagesOK DEF Slot, Failed, SetSlots
<1> HIDE DEF i
<1>5. q.slots = [p.slots EXCEPT ![i] = v] /\ q.used = n + 1 /\ q.empty = FALSE
  BY <1>1 DEF PagePut
<1>5a. q.full \in BOOLEAN /\ (q.full <=> n + 1 = PageSize)
  <2>1. CASE n + 1 = PageSize
    <3>1. q.full = TRUE
      BY <1>1, <2>1 DEF PagePut
    <3> QED BY <2>1, <3>1
  <2>2. CASE n + 1 # PageSize
    <3>1. q.full = p.full
      BY <1>1, <2>2 DEF PagePut
    <3>2. p.full \in BOOLEAN
      BY DEF Page
    <3> QED BY <2>2, <3>1, <3>2
  <2> QED BY <2>1, <2>2
<1>6. q \in Page
  <2>1. n + 1 \in 0..PageSize
    BY <1>1, PagesOK
  <2>2. [p.slots EXCEPT ![i] = v] \in [Slot -> Value \cup {Null}]
    BY <1>3 DEF Page
  <2>3. q = [slots |-> q.slots, used |-> q.used, empty |-> q.empty, full |-> q.full]
    BY DEF PagePut
  <2> HIDE DEF q
  <2> QED BY <1>5, <1>5a, <2>1, <2>2, <2>3 DEF Page
<1>7. SetSlots(q) = SetSlots(p) \cup {i}
  BY <1>3, <1>5, PagesOK DEF SetSlots, Page
<1>8. Cardinality(SetSlots(q)) = n + 1
  BY <1>3, <1>7, SlotsFinite, FS_AddElement
<1>9. Consistent(q, Cardinality(SetSlots(q)))
  BY <1>1, <1>5, <1>5a, <1>8 DEF Consistent
<1> QED BY <1>3, <1>4, <1>5, <1>6, <1>9 DEF i

\* unset() of a set slot clears that one only, keeps the caches right, and leaves
\* the page empty exactly if no other slot is set.
LEMMA ClearType ==
  ASSUME NEW p \in Page, NEW i \in Slot, p.slots[i] # Null,
         Consistent(p, Cardinality(SetSlots(p)))
  PROVE  LET q == PageClear(p, i)
         IN  /\ q \in Page /\ q.slots = [p.slots EXCEPT ![i] = Null]
             /\ Consistent(q, Cardinality(SetSlots(q)))
             /\ q.empty <=> \A j \in Slot : j # i => p.slots[j] = Null
<1> DEFINE q == PageClear(p, i)
           n == Cardinality(SetSlots(p))
<1>1. n \in 1..PageSize /\ p.used = n /\ i \in SetSlots(p)
  <2>1. i \in SetSlots(p)
    BY DEF SetSlots
  <2>2. n # 0
    BY <2>1, SlotsFinite, FS_EmptySet
  <2> QED BY <2>1, <2>2, SlotsFinite, PagesOK DEF Consistent
<1>2. q.slots = [p.slots EXCEPT ![i] = Null] /\ q.used = n - 1 /\ q.full = FALSE
  BY <1>1 DEF PageClear, Page
<1>3. q.empty \in BOOLEAN /\ (q.empty <=> n - 1 = 0)
  <2>1. q.empty = (p.used - 1 = 0)
    BY Zenon DEF PageClear, Page
  <2>2. q.empty \in BOOLEAN /\ (q.empty <=> p.used - 1 = 0)
    BY <2>1, Zenon
  <2> QED BY <1>1, <2>2
<1>4. q \in Page
  <2>1. n - 1 \in 0..PageSize
    BY <1>1, PagesOK
  <2>2. [p.slots EXCEPT ![i] = Null] \in [Slot -> Value \cup {Null}]
    BY DEF Page
  <2>3. q = [slots |-> q.slots, used |-> q.used, empty |-> q.empty, full |-> q.full]
    BY DEF PageClear, Page
  <2> HIDE DEF q
  <2> QED BY <1>2, <1>3, <2>1, <2>2, <2>3 DEF Page
<1>5. SetSlots(q) = SetSlots(p) \ {i}
  BY <1>2 DEF SetSlots, Page
<1>6. Cardinality(SetSlots(q)) = n - 1
  BY <1>1, <1>5, SlotsFinite, FS_RemoveElement
<1>7. Consistent(q, Cardinality(SetSlots(q)))
  BY <1>1, <1>2, <1>3, <1>6, PagesOK DEF Consistent
<1>8. q.empty <=> \A j \in Slot : j # i => p.slots[j] = Null
  <2>1. q.empty <=> SetSlots(q) = {}
    BY <1>3, <1>6, SlotsFinite, FS_EmptySet
  <2> QED BY <1>5, <2>1 DEF SetSlots
<1> QED BY <1>2, <1>4, <1>7, <1>8

\* Dropping page k moves the pages behind it one place forward.
LEMMA DropPage ==
  ASSUME NEW s \in Seq(Page), NEW k \in 1..Len(s)
  PROVE  LET r == RemoveAt(s, k)
         IN  /\ r \in Seq(Page) /\ Len(r) = Len(s) - 1
             /\ \A j \in 1..Len(r) : r[j] = IF j < k THEN s[j] ELSE s[j + 1]
<1> DEFINE a == SubSeq(s, 1, k - 1)
           b == SubSeq(s, k + 1, Len(s))
<1>1. a \in Seq(Page) /\ Len(a) = k - 1 /\ \A j \in 1..k - 1 : a[j] = s[j]
  OBVIOUS
<1>2. b \in Seq(Page) /\ Len(b) = Len(s) - k /\ \A j \in 1..Len(s) - k : b[j] = s[j + k]
  OBVIOUS
<1> HIDE DEF a, b
<1>3. RemoveAt(s, k) = a \o b
  BY DEF RemoveAt, a, b
<1>4. /\ a \o b \in Seq(Page) /\ Len(a \o b) = Len(s) - 1
      /\ \A j \in 1..Len(s) - 1 :
           (a \o b)[j] = IF j <= k - 1 THEN a[j] ELSE b[j - (k - 1)]
  BY <1>1, <1>2, ConcatProperties
<1>5. \A j \in 1..Len(s) - 1 : (a \o b)[j] = IF j < k THEN s[j] ELSE s[j + 1]
  <2> SUFFICES ASSUME NEW j \in 1..Len(s) - 1
               PROVE  (a \o b)[j] = IF j < k THEN s[j] ELSE s[j + 1]
    OBVIOUS
  <2>1. CASE j < k
    BY <1>1, <1>4, <2>1
  <2>2. CASE ~(j < k)
    <3>1. j - (k - 1) \in 1..Len(s) - k /\ j - (k - 1) + k = j + 1
      BY <2>2
    <3> QED BY <1>2, <1>4, <2>2, <3>1
  <2> QED BY <2>1, <2>2
<1> QED BY <1>3, <1>4, <1>5

----------------------------------------------------------------------------
(* The invariant.                                                          *)

\* set() always finds a slot, because the page it takes is not full.
Inductive ==
  TypeOK /\ PagesConsistent /\ PositionsResolve /\ \A v \in Value : at[v] # Failed

\* The empty list satisfies the invariant.
LEMMA InitInductive == Init => Inductive
<1> SUFFICES ASSUME Init PROVE Inductive
  OBVIOUS
<1>1. TypeOK
  <2>1. pages \in Seq(Page) /\ at \in [Value -> {None, Failed} \cup Nat]
    BY DEF Init
  <2>2. pc \in {"run", "gone", "assert", "range"} /\ shifted \in BOOLEAN
    BY DEF Init
  <2> QED BY <2>1, <2>2 DEF TypeOK
<1>2. PagesConsistent
  BY DEF Init, PagesConsistent
<1>3. PositionsResolve /\ \A v \in Value : at[v] # Failed
  BY DEF Init, PositionsResolve, None, Failed
<1> QED BY <1>1, <1>2, <1>3 DEF Inductive

\* set() keeps the invariant: one slot of one page changes, and it was free.
LEMMA SetInductive ==
  ASSUME Inductive, NEW v \in Value, Set(v)
  PROVE  Inductive'
<1> DEFINE open == {k \in DOMAIN pages : ~pages[k].full}
           k    == IF open = {} THEN Len(pages) + 1 ELSE Min(open)
           p    == IF open = {} THEN NewPage ELSE pages[k]
           i    == FreeSlot(p)
           q    == PagePut(p, i, v)
<1>1. pages \in Seq(Page) /\ at \in [Value -> {None, Failed} \cup Nat]
  BY DEF Inductive, TypeOK
<1>2. open # {} => k \in open
  <2>1. open \subseteq Nat
    BY <1>1
  <2> QED BY <2>1, MinExists
<1>3. /\ p \in Page /\ Consistent(p, Cardinality(SetSlots(p))) /\ ~p.full
      /\ k \in Nat \ {0} /\ (k \in DOMAIN pages => p = pages[k])
  <2>1. CASE open = {}
    <3>1. p = NewPage /\ k = Len(pages) + 1
      BY <2>1
    <3>2. ~NewPage.full
      BY DEF NewPage
    <3> QED BY <1>1, <3>1, <3>2, NewPageType
  <2>2. CASE open # {}
    <3>1. p = pages[k] /\ k \in DOMAIN pages /\ ~pages[k].full
      BY <1>2, <2>2
    <3> HIDE DEF k
    <3> QED BY <1>1, <3>1 DEF Inductive, PagesConsistent
  <2> QED BY <2>1, <2>2
<1>4. /\ i \in Slot /\ i # Failed /\ p.slots[i] = Null
      /\ q \in Page /\ q.slots = [p.slots EXCEPT ![i] = v] /\ ~q.empty
      /\ Consistent(q, Cardinality(SetSlots(q)))
  <2> HIDE DEF p
  <2> QED BY <1>3, PutType
<1>5. /\ pages' = IF open = {} THEN Append(pages, q) ELSE [pages EXCEPT ![k] = q]
      /\ at' = [at EXCEPT ![v] = Index(k, i)]
      /\ UNCHANGED <<pc, shifted>> /\ pc = "run" /\ at[v] = None
  BY <1>4 DEF Set
<1>6. /\ pages' \in Seq(Page) /\ DOMAIN pages' = DOMAIN pages \cup {k}
      /\ pages'[k] = q /\ \A j \in DOMAIN pages : j # k => pages'[j] = pages[j]
  <2>1. CASE open = {}
    <3>1. pages' = Append(pages, q) /\ k = Len(pages) + 1
      BY <1>5, <2>1
    <3> HIDE DEF k, q
    <3>2. pages' \in Seq(Page) /\ Len(pages') = Len(pages) + 1
      BY <1>1, <1>4, <3>1, AppendProperties
    <3>3. pages'[k] = q /\ \A j \in 1..Len(pages) : pages'[j] = pages[j]
      BY <1>1, <1>4, <3>1, AppendProperties
    <3> QED BY <1>1, <3>1, <3>2, <3>3
  <2>2. CASE open # {}
    <3>1. pages' = [pages EXCEPT ![k] = q] /\ k \in DOMAIN pages
      BY <1>2, <1>5, <2>2
    <3> HIDE DEF open, k, p, i, q
    <3>2. pages' \in Seq(Page) /\ DOMAIN pages' = DOMAIN pages
      BY <1>1, <1>4, <3>1
    <3>3. pages'[k] = q /\ \A j \in DOMAIN pages : j # k => pages'[j] = pages[j]
      BY <1>1, <3>1
    <3> QED BY <3>1, <3>2, <3>3
  <2> QED BY <2>1, <2>2
<1>7. Index(k, i) \in Nat /\ Chunk(Index(k, i)) = k /\ Subindex(Index(k, i)) = i
  <2> HIDE DEF k, i
  <2> QED BY <1>3, <1>4, IndexLeadsBack
<1> HIDE DEF open, k, p, i, q
<1>8. TypeOK'
  <2>1. at' \in [Value -> {None, Failed} \cup Nat]
    BY <1>1, <1>5, <1>7
  <2> QED BY <1>5, <1>6, <2>1 DEF Inductive, TypeOK
<1>9. PagesConsistent'
  <2> SUFFICES ASSUME NEW j \in DOMAIN pages'
               PROVE  Consistent(pages'[j], Cardinality(SetSlots(pages'[j]))) /\ ~pages'[j].empty
    BY DEF PagesConsistent
  <2>1. CASE j = k
    BY <1>4, <1>6, <2>1
  <2>2. CASE j # k
    BY <1>6, <2>2 DEF Inductive, PagesConsistent
  <2> QED BY <2>1, <2>2
<1>10. \A w \in Value : at'[w] # Failed
  BY <1>1, <1>5, <1>7 DEF Inductive, Failed
<1>11. PositionsResolve'
  <2> SUFFICES ASSUME ~shifted', NEW w \in Value, at'[w] # None
               PROVE  /\ Chunk(at'[w]) \in DOMAIN pages'
                      /\ pages'[Chunk(at'[w])].slots[Subindex(at'[w])] = w
    BY <1>5, <1>10 DEF PositionsResolve
  <2>1. CASE w = v
    <3>1. at'[w] = Index(k, i)
      BY <1>1, <1>5, <2>1
    <3>2. q.slots[i] = v
      BY <1>3, <1>4 DEF Page
    <3> QED BY <1>6, <1>7, <2>1, <3>1, <3>2
  <2>2. CASE w # v
    <3>1. at'[w] = at[w] /\ at[w] \in Nat
      BY <1>1, <1>5, <2>2 DEF Inductive
    <3>2. /\ Chunk(at[w]) \in DOMAIN pages /\ Subindex(at[w]) \in Slot
          /\ pages[Chunk(at[w])].slots[Subindex(at[w])] = w
      BY <1>5, <3>1, PositionInPage DEF Inductive, PositionsResolve
    <3>3. CASE Chunk(at[w]) # k
      BY <1>6, <3>1, <3>2, <3>3
    <3>4. CASE Chunk(at[w]) = k
      <4>1. p = pages[k] /\ p.slots[Subindex(at[w])] = w /\ w # Null
        BY <1>3, <3>2, <3>4, PagesOK
      <4>2. q.slots[Subindex(at[w])] = w
        BY <1>3, <1>4, <3>2, <4>1 DEF Page
      <4> QED BY <1>6, <3>1, <3>4, <4>2
    <3> QED BY <3>3, <3>4
  <2> QED BY <2>1, <2>2
<1> QED BY <1>8, <1>9, <1>10, <1>11 DEF Inductive

\* unset() keeps the invariant: a slot of one page is cleared and only a page
\* whose other slots are free is dropped, in place of the last or with `shifted`.
LEMMA UnsetInductive ==
  ASSUME Inductive, NEW v \in Value, Unset(v)
  PROVE  Inductive'
<1> DEFINE k == Chunk(at[v])
           i == Subindex(at[v])
           q == PageClear(pages[k], i)
<1>1. pages \in Seq(Page) /\ at \in [Value -> {None, Failed} \cup Nat]
  BY DEF Inductive, TypeOK
<1>2. /\ at[v] \in Nat /\ k \in Nat \ {0} /\ i \in Slot /\ pc = "run"
      /\ at' = [at EXCEPT ![v] = None]
  BY <1>1, PositionInPage DEF Inductive, Unset
<1>3. /\ at' \in [Value -> {None, Failed} \cup Nat]
      /\ \A w \in Value : at'[w] # Failed
      /\ \A w \in Value : at'[w] # None => w # v /\ at'[w] = at[w] /\ at[w] \in Nat
  BY <1>1, <1>2 DEF Inductive, None, Failed
<1>4. ~shifted => k \in DOMAIN pages /\ pages[k].slots[i] = v
  BY <1>2 DEF Inductive, PositionsResolve, Unset
<1>5. ASSUME pc' \in {"range", "assert"}, UNCHANGED <<pages, shifted>>, shifted
      PROVE  Inductive'
  BY <1>3, <1>5 DEF Inductive, TypeOK, PagesConsistent, PositionsResolve
<1>6. ASSUME k \in DOMAIN pages, pages[k].slots[i] # Null,
             pages' = IF q.empty THEN RemoveAt(pages, k) ELSE [pages EXCEPT ![k] = q],
             shifted' = (shifted \/ (q.empty /\ k < Len(pages))), UNCHANGED pc
      PROVE  Inductive'
  <2>1. /\ pages[k] \in Page /\ q \in Page
        /\ q.slots = [pages[k].slots EXCEPT ![i] = Null]
        /\ Consistent(q, Cardinality(SetSlots(q)))
        /\ q.empty <=> \A j \in Slot : j # i => pages[k].slots[j] = Null
    <3>1. PICK p : p = pages[k]
      BY Zenon
    <3>2. p \in Page /\ Consistent(p, Cardinality(SetSlots(p)))
      BY <1>1, <1>6, <3>1 DEF Inductive, PagesConsistent
    <3>3. p.slots[i] # Null /\ i \in Slot /\ q = PageClear(p, i)
      BY <1>2, <1>6, <3>1, Zenon
    <3> HIDE DEF q, i, k
    <3>4. /\ PageClear(p, i) \in Page /\ PageClear(p, i).slots = [p.slots EXCEPT ![i] = Null]
          /\ Consistent(PageClear(p, i), Cardinality(SetSlots(PageClear(p, i))))
          /\ PageClear(p, i).empty <=> \A j \in Slot : j # i => p.slots[j] = Null
      BY <3>2, <3>3, ClearType, Zenon
    <3> QED BY <3>1, <3>2, <3>3, <3>4, Zenon
  <2>2. \A w \in Value : at'[w] # None /\ ~shifted =>
          /\ Chunk(at[w]) \in DOMAIN pages /\ Subindex(at[w]) \in Slot
          /\ pages[Chunk(at[w])].slots[Subindex(at[w])] = w
          /\ Chunk(at[w]) = k => Subindex(at[w]) # i
    BY <1>3, <1>4, PositionInPage DEF Inductive, PositionsResolve
  <2> HIDE DEF k, i, q
  <2>3. CASE q.empty
    <3>1. /\ pages' \in Seq(Page) /\ Len(pages') = Len(pages) - 1
          /\ \A j \in 1..Len(pages') : pages'[j] = IF j < k THEN pages[j] ELSE pages[j + 1]
      <4>1. pages' = RemoveAt(pages, k) /\ k \in 1..Len(pages)
        BY <1>1, <1>6, <2>3
      <4> QED BY <1>1, <4>1, DropPage
    <3>2. TypeOK'
      <4>1. shifted' \in BOOLEAN
        BY <1>6
      <4> QED BY <1>3, <1>6, <3>1, <4>1 DEF Inductive, TypeOK
    <3>3. PagesConsistent'
      <4> SUFFICES ASSUME NEW j \in 1..Len(pages')
                   PROVE  Consistent(pages'[j], Cardinality(SetSlots(pages'[j])))
                          /\ ~pages'[j].empty
        BY <3>1 DEF PagesConsistent
      <4>1. PICK m \in DOMAIN pages : pages'[j] = pages[m]
        BY <1>1, <3>1
      <4> QED BY <4>1 DEF Inductive, PagesConsistent
    <3>4. PositionsResolve'
      <4> SUFFICES ASSUME ~shifted'
                   PROVE  /\ pc' \in {"run", "gone"}
                          /\ \A w \in Value : at'[w] # None =>
                               /\ Chunk(at'[w]) \in DOMAIN pages'
                               /\ pages'[Chunk(at'[w])].slots[Subindex(at'[w])] = w
        BY <1>3 DEF PositionsResolve
      <4>1. ~shifted /\ k = Len(pages)
        <5>1. ~shifted /\ ~(k < Len(pages))
          BY <1>6, <2>3, Zenon
        <5> QED BY <1>1, <1>6, <5>1
      <4>2. ASSUME NEW w \in Value, at'[w] # None
            PROVE  Chunk(at[w]) \in DOMAIN pages /\ Chunk(at[w]) # k
        <5> SUFFICES ASSUME Chunk(at[w]) = k PROVE FALSE
          BY <2>2, <4>1, <4>2
        <5>1. pages[k].slots[Subindex(at[w])] = w /\ Subindex(at[w]) # i
              /\ Subindex(at[w]) \in Slot
          BY <2>2, <4>1, <4>2
        <5> QED BY <2>1, <2>3, <5>1, PagesOK
      <4>3. ASSUME NEW w \in Value, at'[w] # None
            PROVE  /\ Chunk(at'[w]) \in DOMAIN pages'
                   /\ pages'[Chunk(at'[w])].slots[Subindex(at'[w])] = w
        <5>1. Chunk(at[w]) \in 1..Len(pages) - 1 /\ at'[w] = at[w]
          BY <1>1, <1>3, <4>1, <4>2, <4>3
        <5>2. pages'[Chunk(at[w])] = pages[Chunk(at[w])]
          BY <3>1, <4>1, <5>1
        <5> QED BY <2>2, <3>1, <4>1, <4>3, <5>1, <5>2
      <4> QED BY <1>2, <1>6, <4>3
    <3> QED BY <1>3, <3>2, <3>3, <3>4 DEF Inductive
  <2>4. CASE ~q.empty
    <3>1. pages' = [pages EXCEPT ![k] = q] /\ shifted' = shifted
      <4>1. shifted \in BOOLEAN
        BY DEF Inductive, TypeOK
      <4> QED BY <1>6, <2>4, <4>1
    <3>2. pages' \in Seq(Page) /\ DOMAIN pages' = DOMAIN pages /\ pages'[k] = q
          /\ \A j \in DOMAIN pages : j # k => pages'[j] = pages[j]
      BY <1>1, <1>6, <2>1, <3>1
    <3>3. TypeOK'
      BY <1>3, <1>6, <3>1, <3>2 DEF Inductive, TypeOK
    <3>4. PagesConsistent'
      <4> SUFFICES ASSUME NEW j \in DOMAIN pages'
                   PROVE  Consistent(pages'[j], Cardinality(SetSlots(pages'[j])))
                          /\ ~pages'[j].empty
        BY DEF PagesConsistent
      <4>1. CASE j = k
        BY <2>1, <2>4, <3>2, <4>1
      <4>2. CASE j # k
        BY <3>2, <4>2 DEF Inductive, PagesConsistent
      <4> QED BY <4>1, <4>2
    <3>5. PositionsResolve'
      <4> SUFFICES ASSUME ~shifted, NEW w \in Value, at'[w] # None
                   PROVE  /\ Chunk(at'[w]) \in DOMAIN pages'
                          /\ pages'[Chunk(at'[w])].slots[Subindex(at'[w])] = w
        BY <1>2, <1>3, <1>6, <3>1 DEF PositionsResolve
      <4>1. /\ at'[w] = at[w] /\ Chunk(at[w]) \in DOMAIN pages /\ Subindex(at[w]) \in Slot
            /\ pages[Chunk(at[w])].slots[Subindex(at[w])] = w
            /\ Chunk(at[w]) = k => Subindex(at[w]) # i
        BY <1>3, <2>2
      <4>2. CASE Chunk(at[w]) = k
        <5>1. q.slots[Subindex(at[w])] = w
          BY <2>1, <4>1, <4>2 DEF Page
        <5> QED BY <3>2, <4>1, <4>2, <5>1
      <4>3. CASE Chunk(at[w]) # k
        BY <3>2, <4>1, <4>3
      <4> QED BY <4>2, <4>3
    <3> QED BY <1>3, <3>3, <3>4, <3>5 DEF Inductive
  <2> QED BY <2>3, <2>4
<1>7. \/ k \notin DOMAIN pages /\ pc' = "range" /\ UNCHANGED <<pages, shifted>>
      \/ k \in DOMAIN pages /\ pages[k].slots[i] = Null /\ pc' = "assert"
         /\ UNCHANGED <<pages, shifted>>
      \/ /\ k \in DOMAIN pages /\ pages[k].slots[i] # Null
         /\ pages' = IF q.empty THEN RemoveAt(pages, k) ELSE [pages EXCEPT ![k] = q]
         /\ shifted' = (shifted \/ (q.empty /\ k < Len(pages))) /\ UNCHANGED pc
  BY DEF Unset
<1>8. v # Null
  BY PagesOK
<1> QED BY <1>4, <1>5, <1>6, <1>7, <1>8

----------------------------------------------------------------------------
(* The theorems.                                                           *)

\* The invariant holds in every reachable state.
THEOREM PageListInductive == Spec => []Inductive
<1>1. Inductive /\ [Next]_vars => Inductive'
  <2> SUFFICES ASSUME Inductive, [Next]_vars PROVE Inductive'
    OBVIOUS
  <2>1. ASSUME NEW v \in Value, Set(v) PROVE Inductive'
    BY <2>1, SetInductive
  <2>2. ASSUME NEW v \in Value, Unset(v) PROVE Inductive'
    BY <2>2, UnsetInductive
  <2>3. CASE Destroy
    <3>1. pages' = <<>> /\ pc' = "gone" /\ at' = [w \in Value |-> None] /\ shifted' = shifted
      BY <2>3 DEF Destroy
    <3>2. TypeOK'
      <4>1. pages' \in Seq(Page) /\ at' \in [Value -> {None, Failed} \cup Nat]
        BY <3>1
      <4> QED BY <3>1, <4>1 DEF Inductive, TypeOK
    <3> QED BY <3>1, <3>2 DEF Inductive, PagesConsistent, PositionsResolve, None, Failed
  <2>4. CASE UNCHANGED vars
    BY <2>4 DEF vars, Inductive, TypeOK, PagesConsistent, PositionsResolve
  <2> QED BY <2>1, <2>2, <2>3, <2>4 DEF Next, Stopped
<1> QED BY InitInductive, <1>1, PTL DEF Spec

\* The type invariant of the page list.
THEOREM PageListTypeCorrect == Spec => []TypeOK
<1>1. Inductive => TypeOK
  BY DEF Inductive
<1> QED BY PageListInductive, <1>1, PTL

\* The cached used_, full_ and empty_ of every page in the list agree with its
\* slots, so set() never searches a page without a free slot.
THEOREM CachesAgree == Spec => []PagesConsistent
<1>1. Inductive => PagesConsistent
  BY DEF Inductive
<1> QED BY PageListInductive, <1>1, PTL

\* Until a page in front of another one is dropped, every position that set()
\* returned leads to its value and unset() of it succeeds.
THEOREM PositionsValid == Spec => []PositionsResolve
<1>1. Inductive => PositionsResolve
  BY DEF Inductive
<1> QED BY PageListInductive, <1>1, PTL

=============================================================================
