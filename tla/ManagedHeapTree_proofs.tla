------------------------ MODULE ManagedHeapTree_proofs ------------------------
(***************************************************************************)
(* The collector is correct for clients that own their objects in trees:   *)
(* they make objects, push values, make objects members of others and      *)
(* destroy them, but share no Memory, take no object apart by hand and do  *)
(* not call back from a destructor (Uses \subseteq {"byRef"}).  For every  *)
(* set of objects, payloads, heaps and memories and every dealloc_limit,   *)
(* nothing is used after its deletion or deleted twice, an object in scope *)
(* keeps all it has, and a collection reclaims all that is dead.           *)
(***************************************************************************)
EXTENDS ManagedHeapColor_proofs

----------------------------------------------------------------------------
(* What a Memory stores.                                                   *)

Stored(M) == {M.slots[k].ptr : k \in 1..M.size}

\* Heaps and payloads only, each once.
Tidy(M) ==
  /\ Sized(M)
  /\ \A k \in 1..M.size : M.slots[k].ptr \in Heap \cup Payload
  /\ \A j, k \in 1..M.size : M.slots[j].ptr = M.slots[k].ptr => j = k

\* An entry's kind follows from what it points to.
LEMMA TidyKinds ==
  ASSUME NEW M, Tidy(M), NEW k \in 1..M.size
  PROVE  /\ M.slots[k] \in Entry /\ M.slots[k].ptr \in Stored(M)
         /\ M.slots[k].ptr # Null
         /\ M.slots[k].ref <=> M.slots[k].ptr \in Heap
         /\ IsHeapRef(M.slots[k]) <=> M.slots[k].ptr \in Heap
         /\ ~IsHeapRef(M.slots[k]) => M.slots[k].ptr \in Payload /\ ~M.slots[k].ref
<1>1. M.slots[k] \in Entry /\ M.slots[k].ptr \in Heap \cup Payload
  BY SizedFacts DEF Tidy
<1>2. PICK e : e = M.slots[k]
  BY Zenon
<1>3. /\ e.ptr # Null /\ (e.ref <=> e.ptr \in Heap)
      /\ ~e.ref => e.ptr \in Payload
  BY <1>1, <1>2, DistinctIds DEF Entry
<1>4. e.ptr \in Stored(M)
  BY <1>2 DEF Stored
<1> QED BY <1>1, <1>2, <1>3, <1>4 DEF IsHeapRef

LEMMA StoredSame ==
  ASSUME NEW M, NEW N, N.slots = M.slots, N.size = M.size
  PROVE  Stored(N) = Stored(M) /\ (Tidy(M) /\ N \in Memory => Tidy(N))
BY DEF Stored, Tidy, Sized

LEMMA EmptyTidy ==
  ASSUME NEW M, M = NoMemory \/ M = NewMemory
  PROVE  Tidy(M) /\ Stored(M) = {} /\ M.keep = FALSE /\ M.color = "GRAY"
<1>1. PICK st \in {"unused", "live"} :
        M = [st |-> st, slots |-> <<>>, size |-> 0, indexes |-> <<>>,
             color |-> "GRAY", seen |-> FALSE, keep |-> FALSE]
  BY DEF NoMemory, NewMemory
<1>2. <<>> \in Seq(Entry) /\ <<>> \in Seq(Nat)
  OBVIOUS
<1>3. M \in Memory
  BY <1>1, <1>2 DEF Memory
<1>4. /\ M.slots = <<>> /\ M.size = 0 /\ M.color = "GRAY" /\ M.keep = FALSE
      /\ Len(<<>>) = 0 /\ 1..0 = {} /\ 0 <= 0
  BY <1>1
<1> QED BY <1>3, <1>4 DEF Tidy, Stored, Sized

LEMMA EmptyStored ==
  ASSUME NEW M, Sized(M)
  PROVE  Stored(M) = {} <=> M.size = 0
<1>1. M.size \in Nat
  BY SizedFacts
<1>2. M.size # 0 => M.slots[1].ptr \in Stored(M)
  BY <1>1 DEF Stored
<1>3. M.size = 0 => 1..M.size = {}
  OBVIOUS
<1> QED BY <1>2, <1>3 DEF Stored

\* push adds one.
LEMMA PushTidy ==
  ASSUME NEW M, Tidy(M), NEW p, NEW r, p \notin Stored(M),
         (p \in Heap /\ r = TRUE) \/ (p \in Payload /\ r = FALSE)
  PROVE  /\ Tidy(PushEntry(M, p, r)) /\ SameButVectors(M, PushEntry(M, p, r))
         /\ Stored(PushEntry(M, p, r)) = Stored(M) \cup {p}
<1>1. PICK N, e : N = PushEntry(M, p, r) /\ e = [index |-> M.size, ptr |-> p, ref |-> r]
  BY Zenon
<1>2. /\ M.slots \in Seq(Entry) /\ M.size \in Nat /\ M.size <= Len(M.slots) /\ Sized(M)
      /\ M \in Memory
  BY SizedFacts DEF Tidy
<1>3. e \in Entry /\ e.ptr = p
  BY <1>1, <1>2 DEF Entry
<1>4. Sized(N) /\ SameButVectors(M, N)
  BY <1>1, <1>2, <1>3, PushEntryType
<1>5. PICK s : s = IF M.size < Len(M.slots) THEN [M.slots EXCEPT ![M.size + 1] = e]
                   ELSE Append(M.slots, e)
  BY Zenon
<1>6. N.slots = s /\ N.size = M.size + 1
  <2>1. N = [M EXCEPT !.slots = s, !.size = M.size + 1, !.indexes = Append(M.indexes, M.size)]
    BY <1>1, <1>5, Zenon DEF PushEntry
  <2> QED BY <1>2, <2>1 DEF Memory
<1>7. s[M.size + 1] = e /\ \A k \in 1..M.size : s[k] = M.slots[k]
  <2>1. PICK q, z : q = M.slots /\ z = M.size
    BY Zenon
  <2>2. q \in Seq(Entry) /\ z \in Nat /\ z <= Len(q)
    BY <1>2, <2>1, Zenon
  <2>3. CASE z < Len(q)
    <3>1. s = [q EXCEPT ![z + 1] = e]
      BY <1>5, <2>1, <2>3, Zenon
    <3> QED BY <2>1, <2>2, <2>3, <3>1
  <2>4. CASE ~(z < Len(q))
    <3>1. s = Append(q, e) /\ z = Len(q)
      BY <1>5, <2>1, <2>2, <2>4
    <3> QED BY <2>1, <2>2, <3>1
  <2> QED BY <2>3, <2>4
<1>8. \A k \in 1..N.size : k \in 1..M.size \/ k = M.size + 1
  BY <1>2, <1>6
<1>9. M.size + 1 \in 1..N.size /\ \A k \in 1..M.size : k \in 1..N.size /\ k # M.size + 1
  BY <1>2, <1>6
<1>10. \A k \in 1..M.size : M.slots[k].ptr \in Stored(M) /\ M.slots[k].ptr # p
  BY DEF Stored
<1>11. Stored(N) = Stored(M) \cup {p}
  <2>1. \A k \in 1..N.size : N.slots[k].ptr \in Stored(M) \cup {p}
    BY <1>3, <1>6, <1>7, <1>8, <1>10
  <2>2. p \in Stored(N)
    BY <1>3, <1>6, <1>7, <1>9 DEF Stored
  <2>3. \A k \in 1..M.size : M.slots[k].ptr \in Stored(N)
    BY <1>6, <1>7, <1>9 DEF Stored
  <2> QED BY <2>1, <2>2, <2>3 DEF Stored
<1>12. \A k \in 1..N.size : N.slots[k].ptr \in Heap \cup Payload
  BY <1>3, <1>6, <1>7, <1>8 DEF Tidy
<1>13. ASSUME NEW j \in 1..N.size, NEW k \in 1..N.size, N.slots[j].ptr = N.slots[k].ptr
       PROVE  j = k
  BY <1>3, <1>6, <1>7, <1>8, <1>10, <1>13 DEF Tidy
<1> QED BY <1>1, <1>4, <1>11, <1>12, <1>13 DEF Tidy

\* erase removes one; a change of what the erased slot held does not matter.
LEMMA EraseTidy ==
  ASSUME NEW M, Tidy(M), NEW p \in 1..M.size,
         NEW A, Sized(A), SameButVectors(M, A), A.size = M.size,
         \A k \in 1..M.size : k # p => A.slots[k] = M.slots[k],
         NEW N, N = EraseSlot(A, p)
  PROVE  /\ Tidy(N) /\ SameButVectors(M, N) /\ N.size = M.size - 1
         /\ \A k \in 1..N.size : N.slots[k] = IF k < p THEN M.slots[k] ELSE M.slots[k + 1]
         /\ Stored(N) = Stored(M) \ {M.slots[p].ptr}
<1>1. /\ A.slots \in Seq(Entry) /\ M.size \in Nat /\ M.size <= Len(A.slots) /\ A \in Memory
      /\ p \in Nat /\ M.size > 0
  BY SizedFacts
<1>2. Sized(N) /\ SameButVectors(M, N) /\ N.size = M.size - 1
  BY <1>1, EraseSlotType DEF SameButVectors
<1>3. PICK T : T = [k \in DOMAIN A.slots |->
                     IF p <= k /\ k < A.size THEN A.slots[k + 1] ELSE A.slots[k]]
  BY Zenon
<1>4. N.slots = T
  <2>1. N = [A EXCEPT !.slots = T, !.size = A.size - 1]
    BY <1>3, Zenon DEF EraseSlot
  <2> QED BY <1>1, <2>1 DEF Memory
<1>5. ASSUME NEW k \in 1..M.size - 1
      PROVE  N.slots[k] = IF k < p THEN M.slots[k] ELSE M.slots[k + 1]
  <2>1. k \in DOMAIN A.slots /\ k \in 1..M.size /\ k + 1 \in 1..M.size /\ k < M.size
    BY <1>1
  <2>2. T[k] = IF p <= k THEN A.slots[k + 1] ELSE A.slots[k]
    BY <1>3, <2>1
  <2>3. CASE k < p
    <3>1. ~(p <= k) /\ k # p
      BY <1>1, <2>1, <2>3
    <3> QED BY <1>4, <2>1, <2>2, <2>3, <3>1
  <2>4. CASE ~(k < p)
    <3>1. p <= k /\ k + 1 # p
      BY <1>1, <2>1, <2>4
    <3> QED BY <1>4, <2>1, <2>2, <2>4, <3>1
  <2> QED BY <2>3, <2>4
<1>6. \A k \in 1..N.size : N.slots[k] = IF k < p THEN M.slots[k] ELSE M.slots[k + 1]
  BY <1>2, <1>5
<1>7. \A k \in 1..N.size : \E i \in 1..M.size :
        i # p /\ N.slots[k] = M.slots[i] /\ i = IF k < p THEN k ELSE k + 1
  <2> SUFFICES ASSUME NEW k \in 1..N.size
               PROVE  \E i \in 1..M.size :
                        i # p /\ N.slots[k] = M.slots[i] /\ i = IF k < p THEN k ELSE k + 1
    OBVIOUS
  <2>1. k \in Nat /\ k <= M.size - 1 /\ k >= 1
    BY <1>1, <1>2
  <2>2. CASE k < p
    <3>1. k \in 1..M.size /\ k # p /\ N.slots[k] = M.slots[k]
      BY <1>1, <1>6, <2>1, <2>2
    <3> QED BY <2>2, <3>1
  <2>3. CASE ~(k < p)
    <3>1. k + 1 \in 1..M.size /\ k + 1 # p /\ N.slots[k] = M.slots[k + 1]
      BY <1>1, <1>6, <2>1, <2>3
    <3> QED BY <2>3, <3>1
  <2> QED BY <2>2, <2>3
<1>8. \A i \in 1..M.size : i # p => \E k \in 1..N.size : N.slots[k] = M.slots[i]
  <2> SUFFICES ASSUME NEW i \in 1..M.size, i # p
               PROVE  \E k \in 1..N.size : N.slots[k] = M.slots[i]
    OBVIOUS
  <2>1. CASE i < p
    <3>1. i \in 1..N.size /\ N.slots[i] = M.slots[i]
      BY <1>1, <1>2, <1>6, <2>1
    <3> QED BY <3>1
  <2>2. CASE i > p
    <3>1. i - 1 \in 1..N.size /\ ~(i - 1 < p) /\ i - 1 + 1 = i
      BY <1>1, <1>2, <2>2
    <3>2. N.slots[i - 1] = M.slots[i - 1 + 1]
      BY <1>6, <3>1
    <3> QED BY <3>1, <3>2
  <2> QED BY <1>1, <2>1, <2>2
<1>9. \A k \in 1..N.size : N.slots[k].ptr \in Heap \cup Payload
  BY <1>7 DEF Tidy
<1>10. ASSUME NEW j \in 1..N.size, NEW k \in 1..N.size, N.slots[j].ptr = N.slots[k].ptr
       PROVE  j = k
  <2>1. PICK a \in 1..M.size : N.slots[j] = M.slots[a] /\ a = IF j < p THEN j ELSE j + 1
    BY <1>7
  <2>2. PICK b \in 1..M.size : N.slots[k] = M.slots[b] /\ b = IF k < p THEN k ELSE k + 1
    BY <1>7
  <2>3. a = b
    BY <1>10, <2>1, <2>2 DEF Tidy
  <2>4. j \in Nat /\ k \in Nat
    BY <1>2
  <2> QED BY <1>1, <2>1, <2>2, <2>3, <2>4
<1>11. Stored(N) = Stored(M) \ {M.slots[p].ptr}
  <2>1. ASSUME NEW k \in 1..N.size
        PROVE  N.slots[k].ptr \in Stored(M) /\ N.slots[k].ptr # M.slots[p].ptr
    <3>1. PICK i \in 1..M.size : i # p /\ N.slots[k] = M.slots[i]
      BY <1>7
    <3> QED BY <3>1 DEF Tidy, Stored
  <2>2. ASSUME NEW i \in 1..M.size, M.slots[i].ptr # M.slots[p].ptr
        PROVE  M.slots[i].ptr \in Stored(N)
    <3>1. PICK k \in 1..N.size : N.slots[k] = M.slots[i]
      BY <1>8, <2>2
    <3> QED BY <3>1 DEF Stored
  <2> QED BY <2>1, <2>2 DEF Stored
<1> QED BY <1>2, <1>6, <1>9, <1>10, <1>11 DEF Tidy

\* do_sweep removes the entry that it queues.
LEMMA RemoveTidy ==
  ASSUME NEW M, Tidy(M), NEW p \in 1..M.size, NEW N, N = RemoveEntry(M, p)
  PROVE  /\ Tidy(N) /\ SameButVectors(M, N) /\ N.size = M.size - 1
         /\ \A k \in 1..N.size : N.slots[k] = IF k < p THEN M.slots[k] ELSE M.slots[k + 1]
         /\ Stored(N) = Stored(M) \ {M.slots[p].ptr}
<1>1. PICK x : x = M.slots[p].index
  BY Zenon
<1>2. PICK A : A = EraseIndex(M, x)
  BY Zenon
<1>3. PICK B : B = [A EXCEPT !.slots[p].ptr = Null]
  BY Zenon
<1>4. /\ Sized(A) /\ A.slots = M.slots /\ A.size = M.size /\ SameButVectors(M, A)
      /\ Sized(M)
  BY <1>2, EraseIndexType DEF Tidy
<1>5. p \in 1..Len(A.slots) /\ A.slots \in Seq(Entry) /\ A \in Memory
  <2>1. /\ A.slots \in Seq(Entry) /\ A.size \in Nat /\ A.size <= Len(A.slots)
        /\ A \in Memory
    BY <1>4, SizedFacts, Zenon
  <2> QED BY <1>4, <2>1
<1>6. Sized(B) /\ SameButVectors(A, B) /\ B.size = A.size
  BY <1>3, <1>4, <1>5, ClearPtrType
<1>7. \A k \in 1..M.size : k # p => B.slots[k] = M.slots[k]
  <2>1. PICK T : T = [A.slots EXCEPT ![p].ptr = Null]
    BY Zenon
  <2>2. B = [A EXCEPT !.slots = T]
    BY <1>3, <1>5, <2>1 DEF Memory
  <2>3. B.slots = T
    BY <1>5, <2>2 DEF Memory
  <2>4. \A k \in 1..Len(A.slots) : k # p => T[k] = A.slots[k]
    BY <1>5, <2>1
  <2>5. M.size \in Nat /\ M.size <= Len(A.slots) /\ Len(A.slots) \in Nat
    BY <1>4, <1>5, SizedFacts
  <2>6. \A k \in 1..M.size : k \in 1..Len(A.slots)
    BY <2>5
  <2> QED BY <1>4, <2>3, <2>4, <2>6
<1>8. N = EraseSlot(B, p)
  BY <1>1, <1>2, <1>3, Zenon DEF RemoveEntry
<1>9. SameButVectors(M, B) /\ B.size = M.size
  BY <1>4, <1>6 DEF SameButVectors
<1> QED BY <1>6, <1>7, <1>8, <1>9, EraseTidy

\* byRef takes a heap off the root list.
LEMMA UnrootTidy ==
  ASSUME NEW M, Tidy(M), NEW h \in Heap, NEW N, N = Unroot(M, h)
  PROVE  Tidy(N) /\ SameButVectors(M, N) /\ Stored(N) = Stored(M) \ {h}
<1> DEFINE S == {k \in 1..M.size : M.slots[k].ref /\ M.slots[k].ptr = h}
           at == LastOf(S)
<1>1. M.size \in Nat /\ Sized(M)
  BY SizedFacts DEF Tidy
<1>2. \A k \in 1..M.size : M.slots[k].ptr = h => M.slots[k].ref
  BY TidyKinds
<1>3. CASE at = {}
  <2>1. S = {}
    BY <1>1, <1>3, LastExists
  <2>2. h \notin Stored(M)
    BY <1>2, <2>1 DEF Stored
  <2>3. N = M
    BY <1>3 DEF Unroot
  <2> QED BY <2>2, <2>3 DEF SameButVectors
<1>4. CASE at # {}
  <2>1. PICK p : p = The(at)
    BY Zenon
  <2>2. p \in 1..M.size /\ M.slots[p].ptr = h
    BY <1>4, <2>1 DEF The, LastOf
  <2>3. PICK A : A = EraseIndex(M, M.slots[p].index)
    BY Zenon
  <2>4. N = EraseSlot(A, p)
    BY <1>4, <2>1, <2>3 DEF Unroot
  <2>5. Sized(A) /\ A.slots = M.slots /\ A.size = M.size /\ SameButVectors(M, A)
    BY <1>1, <2>3, EraseIndexType
  <2>6. \A k \in 1..M.size : k # p => A.slots[k] = M.slots[k]
    BY <2>5
  <2>7. Tidy(N) /\ SameButVectors(M, N) /\ Stored(N) = Stored(M) \ {M.slots[p].ptr}
    BY <2>2, <2>4, <2>5, <2>6, EraseTidy
  <2> QED BY <2>2, <2>7
<1> QED BY <1>3, <1>4

----------------------------------------------------------------------------
(* The invariant.  It looks at the objects O, the payloads P, the heaps H, *)
(* the lifetime T of every Memory and the set S of what each one stores,   *)
(* the set B of heaps and payloads that sweep_() has queued and the set D  *)
(* of memories that it has.                                                *)

Life(F)    == [m \in AllMem |-> F[m].st]
Store(F)   == [m \in AllMem |-> Stored(F[m])]
AllTidy(F) == \A m \in AllMem : Tidy(F[m])

Listed(a) == {a.list[j].ptr : j \in 1..Len(a.list)}
Binned(A) == {b \in Heap \cup Payload : A # <<>> /\ b \in Listed(A[1])}
Once(a)   == /\ \A i, j \in 1..Len(a.list) : a.list[i].ptr = a.list[j].ptr => i = j
             /\ \A i, j \in 1..Len(a.mlist) : a.mlist[i] = a.mlist[j] => i = j
             /\ Listed(a) \subseteq Heap \cup Payload

Typed(O, P, H) == GoodObj(O, H) /\ GoodHeap(H) /\ P \in [Payload -> PayloadT]

Known(O, x) == O[x].st # "none"
Used(H, h)  == H[h].st # "unused"
Dead(H, m)  == \A g \in Heap : Used(H, g) /\ H[g].mem = m => H[g].deallocated

\* The Memory that refers to the heap of x: its owner's or the root's.
Place(O, H, x) == IF O[x].parent = Null THEN RootMem ELSE H[O[O[x].parent].heap].mem

\* Every object has a heap of its own, and every heap a Memory of its own.
Scoped(O)        == \A x \in Obj : O[x].st \in {"none", "live", "gone"}
OneOwner(O)      == \A x, y \in Obj : Known(O, x) /\ Known(O, y) /\ O[x].heap = O[y].heap => x = y
HasOwner(O, H)   == \A h \in Heap : Used(H, h) => \E x \in Obj : Known(O, x) /\ O[x].heap = h
OneHeap(H)       == \A g, h \in AllHeap : Used(H, g) /\ Used(H, h) /\ H[g].mem = H[h].mem => g = h
MemInUse(H, T)   == \A h \in Heap : Used(H, h) => T[H[h].mem] # "unused"
HasHeap(H, T)    == \A m \in Mem : T[m] # "unused" => \E h \in Heap : Used(H, h) /\ H[h].mem = m
Ended(O, H)      ==
  /\ \A x \in Obj : Known(O, x) => (H[O[x].heap].deallocated <=> O[x].st = "gone")
  /\ H[Root].deallocated => \A x \in Obj : O[x].st # "live"

\* Members end before what contains them, and nothing contains itself.
Members(O) ==
  \A x \in Obj : O[x].parent # Null =>
    /\ Known(O, x) /\ O[x].parent \in Obj /\ Known(O, O[x].parent)
    /\ O[O[x].parent].st = "gone" => O[x].st = "gone"
Ranks(O, R, n) ==
  /\ n \in Nat /\ R \in [Obj -> 0..n]
  /\ \A x \in Obj : O[x].parent # Null => R[x] < R[O[x].parent]
Ranked(O) == \E R, n : Ranks(O, R, n)

\* What a Memory stores is allocated, is in its place and is not queued, and
\* what is allocated is stored or queued.
HeapsStored(O, H, S, B) ==
  \A m \in AllMem, h \in Heap : h \in S[m] =>
    /\ H[h].st = "live" /\ h \notin B
    /\ \E x \in Obj : Known(O, x) /\ O[x].heap = h /\ Place(O, H, x) = m
ValuesStored(P, S, B) ==
  \A m \in AllMem, p \in Payload : p \in S[m] => P[p].st = "held" /\ P[p].mem = m /\ p \notin B
HeapsHeld(O, H, S, B) ==
  \A x \in Obj : Known(O, x) /\ H[O[x].heap].st = "live" =>
    O[x].heap \in B \/ O[x].heap \in S[Place(O, H, x)]
ValuesHeld(P, S, B) ==
  \A p \in Payload : P[p].st = "held" => p \in B \/ p \in S[P[p].mem]

\* What is queued is allocated and dead; a queued Memory is empty and its heap
\* is freed first.
BinDead(P, H, B, D) ==
  \A b \in B : \/ b \in Heap /\ H[b].st = "live" /\ H[b].deallocated /\ H[b].mem \in D
               \/ b \in Payload /\ P[b].st = "held" /\ Dead(H, P[b].mem)
DoomedDead(H, T, B, D) ==
  \A m \in D : /\ m \in Mem /\ T[m] = "live"
               /\ \A g \in Heap : Used(H, g) /\ H[g].mem = m => g \in B \/ H[g].st = "freed"
Emptied(T, S, D) == \A m \in AllMem : m \in D \/ T[m] # "live" => S[m] = {}
HeapLives(H, T, D) ==
  \A h \in Heap :
    /\ H[h].st = "live" => T[H[h].mem] = "live"
    /\ H[h].st = "freed" => H[h].deallocated /\ (T[H[h].mem] = "freed" \/ H[h].mem \in D)
ValueLives(P, H, T) ==
  \A p \in Payload : /\ P[p].st = "new" => P[p].mem = Null
                     /\ P[p].st # "new" => P[p].mem \in Mem /\ T[P[p].mem] # "unused"
                     /\ P[p].st = "destroyed" => Dead(H, P[p].mem)

Owned(O, H, T) ==
  /\ Scoped(O) /\ OneOwner(O) /\ HasOwner(O, H) /\ OneHeap(H) /\ MemInUse(H, T) /\ HasHeap(H, T)
  /\ Ended(O, H) /\ Members(O) /\ Ranked(O)
Placed(O, P, H, S, B) ==
  /\ HeapsStored(O, H, S, B) /\ ValuesStored(P, S, B)
  /\ HeapsHeld(O, H, S, B) /\ ValuesHeld(P, S, B)
Reclaimed(P, H, T, S, B, D) ==
  /\ BinDead(P, H, B, D) /\ DoomedDead(H, T, B, D) /\ Emptied(T, S, D)
  /\ HeapLives(H, T, D) /\ ValueLives(P, H, T)
Data(O, P, H, T, S, B, D) ==
  Owned(O, H, T) /\ Placed(O, P, H, S, B) /\ Reclaimed(P, H, T, S, B, D)

----------------------------------------------------------------------------
(* What the program does, seen this way.                                   *)

\* An object and its heap.
LEMMA KnownHeap ==
  ASSUME NEW O, NEW P, NEW H, Typed(O, P, H), NEW x \in Obj, Known(O, x)
  PROVE  /\ O[x].heap \in Heap /\ O[x].heap \in AllHeap /\ O[x].heap # Root
         /\ Used(H, O[x].heap) /\ H[O[x].heap].mem \in Mem /\ H[O[x].heap].mem \in AllMem
<1>1. O[x].heap \in Heap /\ H[O[x].heap].st # "unused"
  BY DEF Typed, GoodObj, Known
<1>2. H[O[x].heap].mem \in Mem
  BY <1>1 DEF Typed, GoodHeap
<1> QED BY <1>1, <1>2, DistinctIds DEF Used, AllHeap, AllMem

\* A heap and its Memory.
LEMMA UsedMem ==
  ASSUME NEW O, NEW P, NEW H, Typed(O, P, H), NEW h \in Heap, Used(H, h)
  PROVE  /\ H[h].mem \in Mem /\ H[h].mem \in AllMem /\ H[h].mem # RootMem
         /\ h \in AllHeap /\ h # Root /\ H[h] \in HeapT
<1>1. H[h].mem \in Mem
  BY DEF Typed, GoodHeap, Used
<1>2. h \in AllHeap /\ h # Root
  BY DistinctIds DEF AllHeap
<1>3. H[h] \in HeapT
  BY <1>2 DEF Typed, GoodHeap
<1> QED BY <1>1, <1>2, <1>3, DistinctIds DEF AllMem

\* The place of an object's heap.
LEMMA PlaceType ==
  ASSUME NEW O, NEW P, NEW H, Typed(O, P, H), Members(O), NEW x \in Obj, Known(O, x)
  PROVE  /\ Place(O, H, x) \in AllMem
         /\ O[x].parent = Null => Place(O, H, x) = RootMem
         /\ O[x].parent # Null =>
              /\ O[x].parent \in Obj /\ Known(O, O[x].parent)
              /\ Place(O, H, x) = H[O[O[x].parent].heap].mem /\ Place(O, H, x) \in Mem
<1>1. CASE O[x].parent = Null
  BY <1>1 DEF Place, AllMem
<1>2. CASE O[x].parent # Null
  <2>1. O[x].parent \in Obj /\ Known(O, O[x].parent)
    BY <1>2 DEF Members
  <2>2. H[O[O[x].parent].heap].mem \in Mem /\ H[O[O[x].parent].heap].mem \in AllMem
    BY <2>1, KnownHeap
  <2> QED BY <1>2, <2>1, <2>2 DEF Place
<1> QED BY <1>1, <1>2

\* A heap that is stored, and its owner.
LEMMA StoredOwner ==
  ASSUME NEW O, NEW H, NEW S, NEW B, HeapsStored(O, H, S, B), OneOwner(O),
         NEW m \in AllMem, NEW h \in Heap, h \in S[m],
         NEW x \in Obj, Known(O, x), O[x].heap = h
  PROVE  Place(O, H, x) = m /\ H[h].st = "live" /\ h \notin B
<1>1. PICK y \in Obj : Known(O, y) /\ O[y].heap = h /\ Place(O, H, y) = m
  BY DEF HeapsStored
<1>2. y = x
  BY <1>1 DEF OneOwner
<1> QED BY <1>1, <1>2 DEF HeapsStored

\* The constructor.
Made(O, H, T, S, Q, G, U, V, x, h, m) ==
  /\ ~H[Root].deallocated /\ T[RootMem] = "live"
  /\ O[x].st = "none" /\ H[h].st = "unused" /\ T[m] = "unused"
  /\ Q[x].st = "live" /\ Q[x].heap = h /\ Q[x].parent = Null
  /\ \A y \in Obj : y # x => Q[y] = O[y]
  /\ G[h].st = "live" /\ G[h].mem = m /\ G[h].deallocated = FALSE
  /\ \A g \in AllHeap : g # h => G[g] = H[g]
  /\ U[m] = "live" /\ \A n \in AllMem : n # m => U[n] = T[n]
  /\ V[RootMem] = S[RootMem] \cup {h} /\ \A n \in AllMem : n # RootMem => V[n] = S[n]

LEMMA NewView ==
  ASSUME NEW O, NEW P, NEW H, NEW T, NEW S, Typed(O, P, H), Data(O, P, H, T, S, {}, {}),
         NEW Q, NEW G, NEW U, NEW V, NEW x \in Obj, NEW h \in Heap, NEW m \in Mem,
         Made(O, H, T, S, Q, G, U, V, x, h, m)
  PROVE  Data(Q, P, G, U, V, {}, {})
<1> USE DEF Made
<1>0. Owned(O, H, T) /\ Placed(O, P, H, S, {}) /\ Reclaimed(P, H, T, S, {}, {})
  BY DEF Data
<1>1. \A y \in Obj : Known(O, y) => y # x /\ Known(Q, y) /\ Q[y] = O[y] /\ O[y].heap # h
  BY KnownHeap DEF Known, Used
<1>2. \A y \in Obj : Known(Q, y) => y = x \/ (y # x /\ Known(O, y))
  BY DEF Known
<1>3. /\ h \in AllHeap /\ Root \in AllHeap /\ h # Root /\ m # RootMem /\ m \in AllMem
      /\ RootMem \in AllMem
  BY DistinctIds DEF AllHeap, AllMem
<1>4. \A g \in Heap : g \in AllHeap
  BY DEF AllHeap
<1>5. \A g \in AllHeap : Used(H, g) => g # h /\ Used(G, g) /\ G[g] = H[g]
  BY DEF Used
<1>6. \A g \in AllHeap : Used(G, g) => g = h \/ (g # h /\ Used(H, g))
  BY DEF Used
<1>7. \A g \in Heap : Used(H, g) => H[g].mem \in Mem /\ H[g].mem \in AllMem /\ H[g].mem # m
  <2>1. MemInUse(H, T)
    BY <1>0 DEF Owned
  <2> QED BY <2>1, UsedMem DEF MemInUse
<1>8. Used(G, h) /\ Known(Q, x) /\ H[Root].mem = RootMem
  BY DEF Used, Known, Typed, GoodHeap
<1>9. Scoped(Q) /\ OneOwner(Q) /\ HasOwner(Q, G)
  <2>1. Scoped(O) /\ OneOwner(O) /\ HasOwner(O, H)
    BY <1>0 DEF Owned
  <2>2. Scoped(Q)
    BY <2>1 DEF Scoped
  <2>3. OneOwner(Q)
    BY <1>1, <1>2, <2>1 DEF OneOwner
  <2>4. HasOwner(Q, G)
    BY <1>1, <1>4, <1>6, <1>8, <2>1 DEF HasOwner
  <2> QED BY <2>2, <2>3, <2>4
<1>10. OneHeap(G) /\ MemInUse(G, U) /\ HasHeap(G, U)
  <2>1. OneHeap(H) /\ MemInUse(H, T) /\ HasHeap(H, T)
    BY <1>0 DEF Owned
  <2>2. \A g \in AllHeap : Used(H, g) => H[g].mem # m
    BY <1>3, <1>7, <1>8 DEF AllHeap
  <2>3. OneHeap(G)
    BY <1>5, <1>6, <2>1, <2>2 DEF OneHeap
  <2>4. MemInUse(G, U)
    BY <1>4, <1>5, <1>6, <1>7, <2>1 DEF MemInUse
  <2>5. HasHeap(G, U)
    BY <1>4, <1>5, <1>8, <2>1 DEF HasHeap, AllMem
  <2> QED BY <2>3, <2>4, <2>5
<1>11. Ended(Q, G) /\ Members(Q) /\ Ranked(Q)
  <2>1. Ended(O, H) /\ Members(O) /\ Ranked(O)
    BY <1>0 DEF Owned
  <2>2. Ended(Q, G)
    <3>1. \A y \in Obj : Known(O, y) => O[y].heap \in AllHeap
      BY KnownHeap
    <3>2. \A y \in Obj : Known(Q, y) => (G[Q[y].heap].deallocated <=> Q[y].st = "gone")
      BY <1>1, <1>2, <2>1, <3>1 DEF Ended
    <3> QED BY <1>3, <3>2 DEF Ended
  <2>3. \A y \in Obj : Q[y].parent # Null => y # x /\ Q[y] = O[y] /\ O[y].parent # Null
    OBVIOUS
  <2>4. Members(Q)
    BY <1>1, <2>1, <2>3 DEF Members
  <2>5. Ranked(Q)
    <3>1. PICK R, n : Ranks(O, R, n)
      BY <2>1 DEF Ranked
    <3>2. Ranks(Q, R, n)
      <4>1. \A y \in Obj : Q[y].parent # Null => R[y] < R[Q[y].parent]
        BY <2>3, <3>1 DEF Ranks
      <4> QED BY <3>1, <4>1 DEF Ranks
    <3> QED BY <3>2 DEF Ranked
  <2> QED BY <2>2, <2>4, <2>5
<1>12. \A y \in Obj : Known(O, y) => Place(Q, G, y) = Place(O, H, y)
  <2> SUFFICES ASSUME NEW y \in Obj, Known(O, y) PROVE Place(Q, G, y) = Place(O, H, y)
    OBVIOUS
  <2>1. Q[y] = O[y] /\ Members(O)
    BY <1>0, <1>1 DEF Owned
  <2>2. CASE O[y].parent = Null
    BY <2>1, <2>2 DEF Place
  <2>3. CASE O[y].parent # Null
    <3>1. O[y].parent \in Obj /\ Known(O, O[y].parent)
      BY <2>1, <2>3 DEF Members
    <3>2. Q[O[y].parent] = O[O[y].parent] /\ G[O[O[y].parent].heap] = H[O[O[y].parent].heap]
      BY <1>1, <1>5, <3>1, KnownHeap
    <3> QED BY <2>1, <2>3, <3>2 DEF Place
  <2> QED BY <2>2, <2>3
<1>13. HeapsStored(Q, G, V, {}) /\ ValuesStored(P, V, {}) /\ HeapsHeld(Q, G, V, {}) /\ ValuesHeld(P, V, {})
  <2>1. /\ HeapsStored(O, H, S, {}) /\ ValuesStored(P, S, {}) /\ HeapsHeld(O, H, S, {})
        /\ ValuesHeld(P, S, {})
    BY <1>0 DEF Placed
  <2>2. \A n \in AllMem : \A g : g \in V[n] => g \in S[n] \/ (n = RootMem /\ g = h)
    OBVIOUS
  <2>3. \A n \in AllMem : S[n] \subseteq V[n]
    OBVIOUS
  <2>4. HeapsStored(Q, G, V, {})
    <3> SUFFICES ASSUME NEW n \in AllMem, NEW g \in Heap, g \in V[n]
                 PROVE  /\ G[g].st = "live"
                        /\ \E y \in Obj : Known(Q, y) /\ Q[y].heap = g /\ Place(Q, G, y) = n
      BY DEF HeapsStored
    <3>1. CASE g \in S[n]
      <4>1. /\ H[g].st = "live"
            /\ \E y \in Obj : Known(O, y) /\ O[y].heap = g /\ Place(O, H, y) = n
        BY <2>1, <3>1 DEF HeapsStored
      <4>2. g # h
        BY <4>1
      <4> QED BY <1>1, <1>4, <1>12, <4>1, <4>2
    <3>2. CASE n = RootMem /\ g = h
      BY <1>8, <3>2 DEF Place
    <3> QED BY <2>2, <3>1, <3>2
  <2>5. ValuesStored(P, V, {})
    <3>1. h \notin Payload
      BY DistinctIds
    <3> QED BY <2>1, <2>2, <3>1 DEF ValuesStored
  <2>6. HeapsHeld(Q, G, V, {})
    <3> SUFFICES ASSUME NEW y \in Obj, Known(Q, y), G[Q[y].heap].st = "live"
                 PROVE  Q[y].heap \in V[Place(Q, G, y)]
      BY DEF HeapsHeld
    <3>1. CASE y = x
      BY <3>1 DEF Place
    <3>2. CASE y # x
      <4>1. Known(O, y) /\ Q[y] = O[y] /\ Place(O, H, y) \in AllMem
        BY <1>0, <1>2, <3>2, PlaceType DEF Owned
      <4>2. H[O[y].heap].st = "live"
        BY <1>1, <4>1, KnownHeap
      <4>3. O[y].heap \in S[Place(O, H, y)]
        BY <2>1, <4>1, <4>2 DEF HeapsHeld
      <4> QED BY <1>12, <2>3, <4>1, <4>3
    <3> QED BY <3>1, <3>2
  <2>7. ValuesHeld(P, V, {})
    <3>1. ValueLives(P, H, T)
      BY <1>0 DEF Reclaimed
    <3> QED BY <2>1, <2>3, <3>1 DEF ValuesHeld, ValueLives, AllMem
  <2> QED BY <2>4, <2>5, <2>6, <2>7
<1>14. Emptied(U, V, {}) /\ HeapLives(G, U, {}) /\ ValueLives(P, G, U)
  <2>1. Emptied(T, S, {}) /\ HeapLives(H, T, {}) /\ ValueLives(P, H, T)
    BY <1>0 DEF Reclaimed
  <2>2. Emptied(U, V, {})
    BY <1>3, <2>1 DEF Emptied
  <2>3. HeapLives(G, U, {})
    <3> SUFFICES ASSUME NEW g \in Heap
                 PROVE  /\ G[g].st = "live" => U[G[g].mem] = "live"
                        /\ G[g].st = "freed" => G[g].deallocated /\ U[G[g].mem] = "freed"
      BY DEF HeapLives
    <3>1. CASE g = h
      BY <3>1
    <3>2. CASE g # h
      <4>1. G[g] = H[g]
        BY <1>4, <3>2
      <4>2. H[g].st \in {"live", "freed"} => H[g].mem \in AllMem /\ H[g].mem # m
        BY <1>7 DEF Used
      <4> QED BY <2>1, <4>1, <4>2 DEF HeapLives
    <3> QED BY <3>1, <3>2
  <2>4. ValueLives(P, G, U)
    <3>1. ASSUME NEW n, Dead(H, n), n # m PROVE Dead(G, n)
      BY <1>4, <1>5, <1>6, <3>1 DEF Dead
    <3>2. \A p \in Payload : P[p].st # "new" =>
            P[p].mem \in Mem /\ P[p].mem # m /\ U[P[p].mem] # "unused"
      BY <2>1 DEF ValueLives, AllMem
    <3> QED BY <2>1, <3>1, <3>2 DEF ValueLives
  <2> QED BY <2>2, <2>3, <2>4
<1> QED BY <1>9, <1>10, <1>11, <1>13, <1>14 DEF Data, Owned, Placed, Reclaimed, BinDead, DoomedDead

\* The end of an object: its heap is deallocated, and its members have ended.
Over(O, H, Q, G, x, h) ==
  /\ O[x].st = "live" /\ \A c \in Obj : O[c].parent = x => O[c].st # "live"
  /\ h = O[x].heap
  /\ Q[x].st = "gone" /\ Q[x].heap = h /\ Q[x].parent = O[x].parent
  /\ \A y \in Obj : y # x => Q[y] = O[y]
  /\ G[h].st = H[h].st /\ G[h].mem = H[h].mem /\ G[h].deallocated = TRUE
  /\ \A g \in AllHeap : g # h => G[g] = H[g]

LEMMA EndView ==
  ASSUME NEW O, NEW P, NEW H, NEW T, NEW S, NEW B, NEW D,
         Typed(O, P, H), Data(O, P, H, T, S, B, D), NEW Q, NEW G,
         NEW x \in Obj, NEW h, Over(O, H, Q, G, x, h)
  PROVE  Data(Q, P, G, T, S, B, D)
<1> USE DEF Over
<1>0. Owned(O, H, T) /\ Placed(O, P, H, S, B) /\ Reclaimed(P, H, T, S, B, D)
  BY DEF Data
<1>1. \A y \in Obj : /\ Known(Q, y) <=> Known(O, y)
                     /\ Q[y].heap = O[y].heap /\ Q[y].parent = O[y].parent
  BY DEF Known
<1>2. \A g \in AllHeap : G[g].st = H[g].st /\ G[g].mem = H[g].mem /\ (Used(G, g) <=> Used(H, g))
  BY DEF Used
<1>3. Known(O, x) /\ h \in Heap /\ h # Root /\ Root \in AllHeap
  BY KnownHeap, DistinctIds DEF Known, AllHeap
<1>4. \A g \in Heap : g \in AllHeap
  BY DEF AllHeap
<1>5. \A y \in Obj : Known(O, y) => O[y].heap \in AllHeap
  BY KnownHeap
<1>6. \A y \in Obj : Known(O, y) /\ y # x => O[y].heap # h
  BY <1>0, <1>3 DEF Owned, OneOwner
<1>7. Scoped(Q) /\ OneOwner(Q) /\ HasOwner(Q, G)
  <2>1. Scoped(O) /\ OneOwner(O) /\ HasOwner(O, H)
    BY <1>0 DEF Owned
  <2> QED BY <1>1, <1>2, <1>4, <2>1 DEF Scoped, OneOwner, HasOwner
<1>8. OneHeap(G) /\ MemInUse(G, T) /\ HasHeap(G, T)
  <2>1. OneHeap(H) /\ MemInUse(H, T) /\ HasHeap(H, T)
    BY <1>0 DEF Owned
  <2> QED BY <1>2, <1>4, <2>1 DEF OneHeap, MemInUse, HasHeap
<1>9. Ended(Q, G) /\ Members(Q) /\ Ranked(Q)
  <2>1. Ended(O, H) /\ Members(O) /\ Ranked(O)
    BY <1>0 DEF Owned
  <2>2. Ended(Q, G)
    <3>1. ASSUME NEW y \in Obj, Known(Q, y)
          PROVE  G[Q[y].heap].deallocated <=> Q[y].st = "gone"
      BY <1>1, <1>5, <1>6, <2>1, <3>1 DEF Ended
    <3> QED BY <1>3, <2>1, <3>1 DEF Ended
  <2>3. Members(Q)
    <3>1. \A y \in Obj : O[y].parent # Null => /\ Known(O, y) /\ O[y].parent \in Obj
                                               /\ Known(O, O[y].parent)
                                               /\ O[O[y].parent].st = "gone" => O[y].st = "gone"
      BY <2>1 DEF Members
    <3>2. \A y \in Obj : Known(O, y) => O[y].st \in {"live", "gone"}
      BY <1>0 DEF Owned, Scoped, Known
    <3> QED BY <1>1, <3>1, <3>2 DEF Members
  <2>4. Ranked(Q)
    <3>1. PICK R, n : Ranks(O, R, n)
      BY <2>1 DEF Ranked
    <3>2. Ranks(Q, R, n)
      BY <1>1, <3>1 DEF Ranks
    <3> QED BY <3>2 DEF Ranked
  <2> QED BY <2>2, <2>3, <2>4
<1>10. \A y \in Obj : Known(O, y) => Place(Q, G, y) = Place(O, H, y)
  <2> SUFFICES ASSUME NEW y \in Obj, Known(O, y) PROVE Place(Q, G, y) = Place(O, H, y)
    OBVIOUS
  <2>1. CASE O[y].parent = Null
    BY <1>1, <2>1 DEF Place
  <2>2. CASE O[y].parent # Null
    <3>1. O[y].parent \in Obj /\ Known(O, O[y].parent)
      BY <1>0, <2>2 DEF Members, Owned
    <3> QED BY <1>1, <1>2, <1>5, <2>2, <3>1 DEF Place
  <2> QED BY <2>1, <2>2
<1>11. Placed(Q, P, G, S, B)
  <2>1. /\ HeapsStored(O, H, S, B) /\ ValuesStored(P, S, B) /\ HeapsHeld(O, H, S, B)
        /\ ValuesHeld(P, S, B)
    BY <1>0 DEF Placed
  <2>2. HeapsStored(Q, G, S, B)
    BY <1>1, <1>2, <1>4, <1>10, <2>1 DEF HeapsStored
  <2>3. HeapsHeld(Q, G, S, B)
    BY <1>1, <1>2, <1>5, <1>10, <2>1 DEF HeapsHeld
  <2> QED BY <2>1, <2>2, <2>3 DEF Placed
<1>12. Reclaimed(P, G, T, S, B, D)
  <2>1. /\ BinDead(P, H, B, D) /\ DoomedDead(H, T, B, D) /\ Emptied(T, S, D)
        /\ HeapLives(H, T, D) /\ ValueLives(P, H, T)
    BY <1>0 DEF Reclaimed
  <2>2. \A g \in AllHeap : H[g].deallocated => G[g].deallocated
    OBVIOUS
  <2>3. \A n : Dead(H, n) => Dead(G, n)
    BY <1>2, <1>4, <2>2 DEF Dead
  <2>4. BinDead(P, G, B, D)
    BY <1>2, <1>4, <2>1, <2>2, <2>3 DEF BinDead
  <2>5. DoomedDead(G, T, B, D) /\ HeapLives(G, T, D)
    BY <1>2, <1>4, <2>1, <2>2 DEF DoomedDead, HeapLives
  <2>6. ValueLives(P, G, T)
    BY <2>1, <2>3 DEF ValueLives
  <2> QED BY <2>1, <2>4, <2>5, <2>6 DEF Reclaimed
<1> QED BY <1>7, <1>8, <1>9, <1>11, <1>12 DEF Data, Owned

\* byRef: the heap of a member moves from the root list to its owner's Memory.
Joined(O, H, T, S, Q, V, x, c, m, h) ==
  /\ x # c /\ O[x].st = "live" /\ O[c].st = "live" /\ O[x].parent = Null /\ O[c].parent = Null
  /\ m = H[O[x].heap].mem /\ h = O[c].heap /\ T[m] = "live" /\ H[h].st = "live"
  /\ Q[c].st = O[c].st /\ Q[c].heap = h /\ Q[c].parent = x
  /\ \A y \in Obj : y # c => Q[y] = O[y]
  /\ V[m] = S[m] \cup {h} /\ V[RootMem] = S[RootMem] \ {h}
  /\ \A n \in AllMem : n # m /\ n # RootMem => V[n] = S[n]

LEMMA RefView ==
  ASSUME NEW O, NEW P, NEW H, NEW T, NEW S, Typed(O, P, H), Data(O, P, H, T, S, {}, {}),
         NEW Q, NEW V, NEW x \in Obj, NEW c \in Obj, NEW m, NEW h,
         Joined(O, H, T, S, Q, V, x, c, m, h)
  PROVE  Data(Q, P, H, T, V, {}, {})
<1> USE DEF Joined
<1>0. Owned(O, H, T) /\ Placed(O, P, H, S, {}) /\ Reclaimed(P, H, T, S, {}, {})
  BY DEF Data
<1>1. \A y \in Obj : Q[y].st = O[y].st /\ Q[y].heap = O[y].heap /\ (Known(Q, y) <=> Known(O, y))
  BY DEF Known
<1>2. Known(O, x) /\ Known(O, c) /\ x # Null
  BY DistinctIds DEF Known
<1>3. h \in Heap /\ m \in Mem /\ m \in AllMem /\ m # RootMem /\ RootMem \in AllMem
  BY <1>2, KnownHeap, DistinctIds DEF AllMem
<1>4. Scoped(Q) /\ OneOwner(Q) /\ HasOwner(Q, H) /\ Ended(Q, H)
  BY <1>0, <1>1 DEF Owned, Scoped, OneOwner, HasOwner, Ended
<1>5. Members(Q)
  <2>1. Members(O)
    BY <1>0 DEF Owned
  <2> SUFFICES ASSUME NEW y \in Obj, Q[y].parent # Null
               PROVE  /\ Known(Q, y) /\ Q[y].parent \in Obj /\ Known(Q, Q[y].parent)
                      /\ Q[Q[y].parent].st = "gone" => Q[y].st = "gone"
    BY DEF Members
  <2>2. CASE y = c
    BY <1>1, <1>2, <2>2
  <2>3. CASE y # c
    BY <1>1, <2>1, <2>3 DEF Members
  <2> QED BY <2>2, <2>3
<1>6. Ranked(Q)
  <2>1. PICK R, n : Ranks(O, R, n)
    BY <1>0 DEF Owned, Ranked
  <2> DEFINE F == [R EXCEPT ![x] = n + 1]
  <2>2. n \in Nat /\ n + 1 \in Nat /\ R \in [Obj -> 0..n]
    BY <2>1 DEF Ranks
  <2>3. \A y \in Obj : R[y] \in Nat /\ R[y] < n + 1
    <3>1. \A k \in 0..n : k \in Nat /\ k < n + 1
      BY <2>2
    <3> QED BY <2>2, <3>1, Zenon
  <2>4. F \in [Obj -> 0..n + 1] /\ \A y \in Obj : F[y] = IF y = x THEN n + 1 ELSE R[y]
    <3>1. DOMAIN F = Obj /\ \A y \in Obj : F[y] = IF y = x THEN n + 1 ELSE R[y]
      BY <2>2
    <3>2. n + 1 \in 0..n + 1 /\ \A k \in Nat : k < n + 1 => k \in 0..n + 1
      BY <2>2
    <3>3. \A y \in Obj : F[y] \in 0..n + 1
      BY <2>3, <3>1, <3>2, Zenon
    <3>4. F = [y \in Obj |-> F[y]]
      BY <3>1
    <3> HIDE DEF F
    <3> QED BY <3>1, <3>3, <3>4, Zenon
  <2> HIDE DEF F
  <2>5. ASSUME NEW y \in Obj, Q[y].parent # Null PROVE F[y] < F[Q[y].parent]
    <3>1. CASE y = c
      <4>1. F[y] = R[y] /\ F[Q[y].parent] = n + 1
        BY <2>4, <3>1
      <4> QED BY <2>3, <4>1
    <3>2. CASE y # c
      <4>1. y # x /\ Q[y].parent = O[y].parent /\ O[y].parent # Null
        BY <2>5, <3>2
      <4>2. O[y].parent \in Obj /\ R[y] < R[O[y].parent]
        BY <1>0, <2>1, <4>1 DEF Owned, Members, Ranks
      <4>3. F[y] = R[y] /\ F[Q[y].parent] \in {n + 1, R[O[y].parent]}
        BY <2>4, <4>1, <4>2
      <4> QED BY <2>3, <4>2, <4>3
    <3> QED BY <3>1, <3>2
  <2>6. Ranks(Q, F, n + 1)
    BY <2>2, <2>4, <2>5 DEF Ranks
  <2> QED BY <2>6 DEF Ranked
<1>7. /\ Place(Q, H, c) = m /\ Place(O, H, c) = RootMem
      /\ \A y \in Obj : Known(O, y) /\ y # c => Place(Q, H, y) = Place(O, H, y)
  <2>1. Place(Q, H, c) = m
    BY <1>1, <1>2 DEF Place
  <2>2. Place(O, H, c) = RootMem
    BY DEF Place
  <2>3. ASSUME NEW y \in Obj, Known(O, y), y # c PROVE Place(Q, H, y) = Place(O, H, y)
    <3>1. CASE O[y].parent = Null
      BY <2>3, <3>1 DEF Place
    <3>2. CASE O[y].parent # Null
      <4>1. O[y].parent \in Obj
        BY <1>0, <3>2 DEF Owned, Members
      <4> QED BY <1>1, <2>3, <3>2, <4>1 DEF Place
    <3> QED BY <3>1, <3>2
  <2> QED BY <2>1, <2>2, <2>3
<1>8. Placed(Q, P, H, V, {})
  <2>1. /\ HeapsStored(O, H, S, {}) /\ ValuesStored(P, S, {}) /\ HeapsHeld(O, H, S, {})
        /\ ValuesHeld(P, S, {}) /\ OneOwner(O)
    BY <1>0 DEF Placed, Owned
  <2>2. \A n \in AllMem : \A g : g \in V[n] => (g \in S[n] /\ (n = RootMem => g # h)) \/ (n = m /\ g = h)
    BY <1>3
  <2>3. \A n \in AllMem : \A g : g \in S[n] /\ g # h => g \in V[n]
    BY <1>3
  <2>4. HeapsStored(Q, H, V, {})
    <3> SUFFICES ASSUME NEW n \in AllMem, NEW g \in Heap, g \in V[n]
                 PROVE  /\ H[g].st = "live"
                        /\ \E y \in Obj : Known(Q, y) /\ Q[y].heap = g /\ Place(Q, H, y) = n
      BY DEF HeapsStored
    <3>1. CASE g \in S[n] /\ (n = RootMem => g # h)
      <4>1. PICK y \in Obj : Known(O, y) /\ O[y].heap = g /\ Place(O, H, y) = n /\ H[g].st = "live"
        BY <2>1, <3>1 DEF HeapsStored
      <4>2. y # c
        BY <1>7, <3>1, <4>1
      <4> QED BY <1>1, <1>7, <4>1, <4>2
    <3>2. CASE n = m /\ g = h
      BY <1>1, <1>2, <1>7, <3>2
    <3> QED BY <2>2, <3>1, <3>2
  <2>5. ValuesStored(P, V, {}) /\ ValuesHeld(P, V, {})
    <3>1. \A p \in Payload : p # h
      BY <1>3, DistinctIds
    <3>2. ValueLives(P, H, T)
      BY <1>0 DEF Reclaimed
    <3> QED BY <2>1, <2>2, <2>3, <3>1, <3>2 DEF ValuesStored, ValuesHeld, ValueLives, AllMem
  <2>6. HeapsHeld(Q, H, V, {})
    <3> SUFFICES ASSUME NEW y \in Obj, Known(Q, y), H[Q[y].heap].st = "live"
                 PROVE  Q[y].heap \in V[Place(Q, H, y)]
      BY DEF HeapsHeld
    <3>1. CASE y = c
      BY <1>1, <1>7, <3>1
    <3>2. CASE y # c
      <4>1. Known(O, y) /\ Q[y].heap = O[y].heap /\ O[y].heap # h
        BY <1>1, <1>2, <2>1, <3>2 DEF OneOwner
      <4>2. Place(O, H, y) \in AllMem
        BY <1>0, <4>1, PlaceType DEF Owned
      <4>3. O[y].heap \in S[Place(O, H, y)]
        BY <2>1, <4>1 DEF HeapsHeld
      <4> QED BY <1>7, <2>3, <3>2, <4>1, <4>2, <4>3
    <3> QED BY <3>1, <3>2
  <2> QED BY <2>4, <2>5, <2>6 DEF Placed
<1>9. Emptied(T, V, {})
  <2>1. Emptied(T, S, {})
    BY <1>0 DEF Reclaimed
  <2>2. \A n \in AllMem : n # m => V[n] \subseteq S[n]
    BY <1>3
  <2> QED BY <1>3, <2>1, <2>2 DEF Emptied
<1> QED BY <1>0, <1>4, <1>5, <1>6, <1>8, <1>9 DEF Data, Owned, Reclaimed

\* push_value: a new payload, in the Memory of an object.
Given(P, T, S, I, V, p, m) ==
  /\ T[m] = "live" /\ P[p].st = "new"
  /\ I[p].st = "held" /\ I[p].mem = m /\ \A q \in Payload : q # p => I[q] = P[q]
  /\ V[m] = S[m] \cup {p} /\ \A n \in AllMem : n # m => V[n] = S[n]

LEMMA HoldView ==
  ASSUME NEW O, NEW P, NEW H, NEW T, NEW S, Typed(O, P, H), Data(O, P, H, T, S, {}, {}),
         NEW I, NEW V, NEW p \in Payload, NEW m \in Mem, Given(P, T, S, I, V, p, m)
  PROVE  Data(O, I, H, T, V, {}, {})
<1> USE DEF Given
<1>0. Owned(O, H, T) /\ Placed(O, P, H, S, {}) /\ Reclaimed(P, H, T, S, {}, {})
  BY DEF Data
<1>1. m \in AllMem /\ p \notin Heap
  BY DistinctIds DEF AllMem
<1>2. \A n \in AllMem : \A g : g \in V[n] <=> g \in S[n] \/ (n = m /\ g = p)
  BY <1>1
<1>3. /\ HeapsStored(O, H, S, {}) /\ ValuesStored(P, S, {}) /\ HeapsHeld(O, H, S, {})
      /\ ValuesHeld(P, S, {})
  BY <1>0 DEF Placed
<1>4. HeapsStored(O, H, V, {})
  BY <1>1, <1>2, <1>3 DEF HeapsStored
<1>5. HeapsHeld(O, H, V, {})
  <2>1. \A x \in Obj : Known(O, x) => Place(O, H, x) \in AllMem
    BY <1>0, PlaceType DEF Owned
  <2> QED BY <1>2, <1>3, <2>1 DEF HeapsHeld
<1>6. ValuesStored(I, V, {})
  <2>1. \A n \in AllMem : p \notin S[n]
    BY <1>3 DEF ValuesStored
  <2> QED BY <1>2, <1>3, <2>1 DEF ValuesStored
<1>7. ValuesHeld(I, V, {}) /\ ValueLives(I, H, T)
  <2>1. ValueLives(P, H, T)
    BY <1>0 DEF Reclaimed
  <2>2. ValueLives(I, H, T)
    BY <2>1 DEF ValueLives
  <2> QED BY <1>1, <1>2, <1>3, <2>1, <2>2 DEF ValuesHeld, ValueLives, AllMem
<1>8. Emptied(T, V, {})
  BY <1>0, <1>1, <1>2 DEF Emptied, Reclaimed
<1> QED BY <1>0, <1>4, <1>5, <1>6, <1>7, <1>8 DEF Data, Placed, Reclaimed, BinDead

\* The end of the root list.
LEMMA CloseView ==
  ASSUME NEW O, NEW P, NEW H, NEW T, NEW S, NEW B, NEW D,
         Data(O, P, H, T, S, B, D), NEW G,
         \A x \in Obj : O[x].st # "live" /\ (Known(O, x) => O[x].heap \in Heap),
         G[Root].st = H[Root].st, G[Root].mem = H[Root].mem,
         \A h \in Heap : G[h] = H[h]
  PROVE  Data(O, P, G, T, S, B, D)
<1>0. Owned(O, H, T) /\ Placed(O, P, H, S, B) /\ Reclaimed(P, H, T, S, B, D)
  BY DEF Data
<1>1. \A g \in AllHeap : G[g].mem = H[g].mem /\ (Used(G, g) <=> Used(H, g))
  BY DEF Used, AllHeap
<1>2. \A x \in Obj : Known(O, x) => Place(O, G, x) = Place(O, H, x)
  <2>1. Members(O)
    BY <1>0 DEF Owned
  <2> QED BY <2>1 DEF Members, Place
<1>3. \A n : Dead(H, n) => Dead(G, n)
  BY DEF Dead, Used
<1>4. Owned(O, G, T)
  <2>1. HasOwner(O, G) /\ MemInUse(G, T) /\ HasHeap(G, T)
    BY <1>0 DEF Owned, HasOwner, MemInUse, HasHeap, Used
  <2>2. OneHeap(G)
    BY <1>0, <1>1 DEF Owned, OneHeap
  <2>3. Ended(O, G)
    BY <1>0 DEF Owned, Ended
  <2> QED BY <1>0, <2>1, <2>2, <2>3 DEF Owned
<1>5. Placed(O, P, G, S, B)
  <2>1. HeapsStored(O, G, S, B)
    BY <1>0, <1>2 DEF Placed, HeapsStored
  <2>2. HeapsHeld(O, G, S, B)
    BY <1>0, <1>2 DEF Placed, HeapsHeld
  <2> QED BY <1>0, <2>1, <2>2 DEF Placed
<1>6. Reclaimed(P, G, T, S, B, D)
  <2>1. BinDead(P, G, B, D)
    BY <1>0, <1>3 DEF Reclaimed, BinDead
  <2>2. DoomedDead(G, T, B, D) /\ HeapLives(G, T, D)
    BY <1>0 DEF Reclaimed, DoomedDead, HeapLives, Used
  <2>3. ValueLives(P, G, T)
    BY <1>0, <1>3 DEF Reclaimed, ValueLives
  <2> QED BY <1>0, <2>1, <2>2, <2>3 DEF Reclaimed
<1> QED BY <1>4, <1>5, <1>6 DEF Data

LEMMA CloseMemView ==
  ASSUME NEW O, NEW P, NEW H, NEW T, NEW S, NEW B, NEW D,
         Typed(O, P, H), Data(O, P, H, T, S, B, D), NEW U, S[RootMem] = {},
         \A m \in Mem : U[m] = T[m]
  PROVE  Data(O, P, H, U, S, B, D)
<1>0. Owned(O, H, T) /\ Placed(O, P, H, S, B) /\ Reclaimed(P, H, T, S, B, D)
  BY DEF Data
<1>1. \A h \in Heap : Used(H, h) => H[h].mem \in Mem
  BY UsedMem
<1>2. MemInUse(H, U) /\ HasHeap(H, U)
  BY <1>0, <1>1 DEF Owned, MemInUse, HasHeap
<1>3. DoomedDead(H, U, B, D) /\ Emptied(U, S, D) /\ ValueLives(P, H, U)
  BY <1>0 DEF Reclaimed, DoomedDead, Emptied, ValueLives, AllMem
<1>4. HeapLives(H, U, D)
  BY <1>0, <1>1 DEF Reclaimed, HeapLives, Used
<1> QED BY <1>0, <1>2, <1>3, <1>4 DEF Data, Owned, Reclaimed

\* do_sweep queues a payload of a Memory whose heap is deallocated.
LEMMA TakeValueView ==
  ASSUME NEW O, NEW P, NEW H, NEW T, NEW S, NEW B, NEW D,
         Typed(O, P, H), Data(O, P, H, T, S, B, D), NEW V, NEW C,
         NEW m \in AllMem, NEW p \in Payload, p \in S[m], Dead(H, m),
         V[m] = S[m] \ {p}, \A n \in AllMem : n # m => V[n] = S[n], C = B \cup {p}
  PROVE  Data(O, P, H, T, V, C, D)
<1>0. Owned(O, H, T) /\ Placed(O, P, H, S, B) /\ Reclaimed(P, H, T, S, B, D)
  BY DEF Data
<1>1. /\ HeapsStored(O, H, S, B) /\ ValuesStored(P, S, B) /\ HeapsHeld(O, H, S, B)
      /\ ValuesHeld(P, S, B)
  BY <1>0 DEF Placed
<1>2. p \notin Heap /\ P[p].st = "held" /\ P[p].mem = m
  BY <1>1, DistinctIds DEF ValuesStored
<1>3. \A n \in AllMem : \A g : g \in V[n] <=> g \in S[n] /\ ~(n = m /\ g = p)
  OBVIOUS
<1>4. HeapsStored(O, H, V, C)
  BY <1>1, <1>2, <1>3 DEF HeapsStored
<1>5. ValuesStored(P, V, C)
  BY <1>1, <1>2, <1>3 DEF ValuesStored
<1>6. HeapsHeld(O, H, V, C)
  <2>1. \A x \in Obj : Known(O, x) => Place(O, H, x) \in AllMem /\ O[x].heap # p
    BY <1>0, <1>2, PlaceType, KnownHeap DEF Owned
  <2> QED BY <1>1, <1>3, <2>1 DEF HeapsHeld
<1>7. ValuesHeld(P, V, C)
  <2>1. ValueLives(P, H, T)
    BY <1>0 DEF Reclaimed
  <2> QED BY <1>1, <1>2, <1>3, <2>1 DEF ValuesHeld, ValueLives, AllMem
<1>8. BinDead(P, H, C, D) /\ DoomedDead(H, T, C, D) /\ Emptied(T, V, D)
  BY <1>0, <1>2, <1>3 DEF Reclaimed, BinDead, DoomedDead, Emptied
<1> QED BY <1>0, <1>4, <1>5, <1>6, <1>7, <1>8 DEF Data, Placed, Reclaimed

\* do_sweep queues a deallocated heap, and its Memory, which is empty.
HeapTaken(H, S, B, D, V, C, E, m, h) ==
  /\ h \in S[m] /\ H[h].deallocated /\ S[H[h].mem] = {}
  /\ V[m] = S[m] \ {h} /\ \A n \in AllMem : n # m => V[n] = S[n]
  /\ C = B \cup {h} /\ E = D \cup {H[h].mem}

LEMMA TakeHeapView ==
  ASSUME NEW O, NEW P, NEW H, NEW T, NEW S, NEW B, NEW D,
         Typed(O, P, H), Data(O, P, H, T, S, B, D), NEW V, NEW C, NEW E,
         NEW m \in AllMem, NEW h \in Heap, HeapTaken(H, S, B, D, V, C, E, m, h)
  PROVE  Data(O, P, H, T, V, C, E)
<1> USE DEF HeapTaken
<1>0. Owned(O, H, T) /\ Placed(O, P, H, S, B) /\ Reclaimed(P, H, T, S, B, D)
  BY DEF Data
<1>1. /\ HeapsStored(O, H, S, B) /\ ValuesStored(P, S, B) /\ HeapsHeld(O, H, S, B)
      /\ ValuesHeld(P, S, B)
  BY <1>0 DEF Placed
<1>2. h \notin Payload /\ H[h].st = "live" /\ Used(H, h) /\ H[h].mem \in Mem /\ H[h].mem \in AllMem
  <2>1. h \notin Payload /\ H[h].st = "live"
    BY <1>1, DistinctIds DEF HeapsStored
  <2>2. Used(H, h)
    BY <2>1 DEF Used
  <2> QED BY <2>1, <2>2, UsedMem
<1>3. \A n \in AllMem : \A g : g \in V[n] <=> g \in S[n] /\ ~(n = m /\ g = h)
  OBVIOUS
<1>4. HeapsStored(O, H, V, C)
  <2> SUFFICES ASSUME NEW n \in AllMem, NEW g \in Heap, g \in V[n]
               PROVE  /\ H[g].st = "live" /\ g \notin C
                      /\ \E x \in Obj : Known(O, x) /\ O[x].heap = g /\ Place(O, H, x) = n
    BY DEF HeapsStored
  <2>1. /\ H[g].st = "live" /\ g \notin B
        /\ \E x \in Obj : Known(O, x) /\ O[x].heap = g /\ Place(O, H, x) = n
    BY <1>1, <1>3 DEF HeapsStored
  <2>2. ASSUME g = h PROVE FALSE
    <3>1. PICK x \in Obj : Known(O, x) /\ O[x].heap = h /\ Place(O, H, x) = m
      BY <1>1 DEF HeapsStored
    <3>2. Place(O, H, x) = n
      BY <1>0, <1>1, <1>3, <2>2, <3>1, StoredOwner DEF Owned
    <3> QED BY <1>3, <2>2, <3>1, <3>2
  <2> QED BY <2>1, <2>2
<1>5. ValuesStored(P, V, C)
  BY <1>1, <1>2, <1>3 DEF ValuesStored
<1>6. HeapsHeld(O, H, V, C)
  <2>1. \A x \in Obj : Known(O, x) => Place(O, H, x) \in AllMem
    BY <1>0, PlaceType DEF Owned
  <2> QED BY <1>1, <1>3, <2>1 DEF HeapsHeld
<1>7. ValuesHeld(P, V, C)
  <2>1. ValueLives(P, H, T)
    BY <1>0 DEF Reclaimed
  <2> QED BY <1>1, <1>2, <1>3, <2>1 DEF ValuesHeld, ValueLives, AllMem
<1>8. BinDead(P, H, C, E)
  BY <1>0, <1>2 DEF Reclaimed, BinDead
<1>9. T[H[h].mem] = "live"
  BY <1>0, <1>2 DEF Reclaimed, HeapLives
<1>10. DoomedDead(H, T, C, E)
  <2>1. \A g \in Heap : Used(H, g) /\ H[g].mem = H[h].mem => g = h
    BY <1>0, <1>2 DEF Owned, OneHeap, AllHeap
  <2> QED BY <1>0, <1>2, <1>9, <2>1 DEF Reclaimed, DoomedDead
<1>11. Emptied(T, V, E) /\ HeapLives(H, T, E)
  <2>1. \A n \in AllMem : V[n] \subseteq S[n]
    BY <1>3
  <2> QED BY <1>0, <2>1 DEF Reclaimed, Emptied, HeapLives
<1> QED BY <1>0, <1>4, <1>5, <1>6, <1>7, <1>8, <1>10, <1>11 DEF Data, Placed, Reclaimed

\* The destructor of a queued heap, of a queued payload, and of a queued Memory.
LEMMA FreeHeapView ==
  ASSUME NEW O, NEW P, NEW H, NEW T, NEW S, NEW B, NEW D,
         Typed(O, P, H), Data(O, P, H, T, S, B, D), NEW G, NEW C,
         NEW h \in Heap, h \in B, C = B \ {h},
         G[h].st = "freed", G[h].mem = H[h].mem, G[h].deallocated = H[h].deallocated,
         \A g \in AllHeap : g # h => G[g] = H[g]
  PROVE  Data(O, P, G, T, S, C, D)
<1>0. Owned(O, H, T) /\ Placed(O, P, H, S, B) /\ Reclaimed(P, H, T, S, B, D)
  BY DEF Data
<1>1. h \notin Payload /\ H[h].st = "live" /\ H[h].deallocated /\ H[h].mem \in D
  BY <1>0, DistinctIds DEF Reclaimed, BinDead
<1>2. \A g \in AllHeap : /\ G[g].mem = H[g].mem /\ G[g].deallocated = H[g].deallocated
                         /\ Used(G, g) <=> Used(H, g)
                         /\ G[g].st = IF g = h THEN "freed" ELSE H[g].st
  BY <1>1 DEF Used
<1>3. \A g \in Heap : g \in AllHeap
  BY DEF AllHeap
<1>4. \A x \in Obj : Known(O, x) => O[x].heap \in AllHeap
  BY KnownHeap
<1>5. \A x \in Obj : Known(O, x) => Place(O, G, x) = Place(O, H, x)
  <2>1. Members(O)
    BY <1>0 DEF Owned
  <2> QED BY <1>2, <1>4, <2>1 DEF Members, Place
<1>6. \A n : Dead(H, n) => Dead(G, n)
  BY <1>2, <1>3 DEF Dead
<1>7. Owned(O, G, T)
  <2>1. HasOwner(O, G) /\ MemInUse(G, T) /\ HasHeap(G, T) /\ OneHeap(G)
    BY <1>0, <1>2, <1>3 DEF Owned, HasOwner, MemInUse, HasHeap, OneHeap
  <2>2. Ended(O, G)
    BY <1>0, <1>2, <1>4 DEF Owned, Ended, AllHeap
  <2> QED BY <1>0, <2>1, <2>2 DEF Owned
<1>8. Placed(O, P, G, S, C)
  <2>1. /\ HeapsStored(O, H, S, B) /\ ValuesStored(P, S, B) /\ HeapsHeld(O, H, S, B)
        /\ ValuesHeld(P, S, B)
    BY <1>0 DEF Placed
  <2>2. HeapsStored(O, G, S, C)
    <3> SUFFICES ASSUME NEW n \in AllMem, NEW g \in Heap, g \in S[n]
                 PROVE  /\ G[g].st = "live" /\ g \notin C
                        /\ \E x \in Obj : Known(O, x) /\ O[x].heap = g /\ Place(O, G, x) = n
      BY DEF HeapsStored
    <3>1. /\ H[g].st = "live" /\ g \notin B
          /\ \E x \in Obj : Known(O, x) /\ O[x].heap = g /\ Place(O, H, x) = n
      BY <2>1 DEF HeapsStored
    <3> QED BY <1>2, <1>3, <1>5, <3>1
  <2>3. HeapsHeld(O, G, S, C)
    BY <1>2, <1>4, <1>5, <2>1 DEF HeapsHeld
  <2>4. ValuesStored(P, S, C) /\ ValuesHeld(P, S, C)
    BY <1>1, <2>1 DEF ValuesStored, ValuesHeld
  <2> QED BY <2>2, <2>3, <2>4 DEF Placed
<1>9. Reclaimed(P, G, T, S, C, D)
  <2>1. /\ BinDead(P, H, B, D) /\ DoomedDead(H, T, B, D) /\ Emptied(T, S, D)
        /\ HeapLives(H, T, D) /\ ValueLives(P, H, T)
    BY <1>0 DEF Reclaimed
  <2>2. BinDead(P, G, C, D)
    BY <1>2, <1>3, <1>6, <2>1 DEF BinDead
  <2>3. DoomedDead(G, T, C, D)
    BY <1>2, <1>3, <2>1 DEF DoomedDead
  <2>4. HeapLives(G, T, D)
    BY <1>1, <1>2, <1>3, <2>1 DEF HeapLives
  <2>5. ValueLives(P, G, T)
    BY <1>6, <2>1 DEF ValueLives
  <2> QED BY <2>1, <2>2, <2>3, <2>4, <2>5 DEF Reclaimed
<1> QED BY <1>7, <1>8, <1>9 DEF Data

LEMMA FreeValueView ==
  ASSUME NEW O, NEW P, NEW H, NEW T, NEW S, NEW B, NEW D,
         Typed(O, P, H), Data(O, P, H, T, S, B, D), NEW I, NEW C,
         NEW p \in Payload, p \in B, C = B \ {p},
         I[p].st = "destroyed", I[p].mem = P[p].mem, \A q \in Payload : q # p => I[q] = P[q]
  PROVE  Data(O, I, H, T, S, C, D)
<1>0. Owned(O, H, T) /\ Placed(O, P, H, S, B) /\ Reclaimed(P, H, T, S, B, D)
  BY DEF Data
<1>1. p \notin Heap /\ P[p].st = "held" /\ Dead(H, P[p].mem)
  BY <1>0, DistinctIds DEF Reclaimed, BinDead
<1>2. Placed(O, I, H, S, C)
  <2>1. /\ HeapsStored(O, H, S, B) /\ ValuesStored(P, S, B) /\ HeapsHeld(O, H, S, B)
        /\ ValuesHeld(P, S, B)
    BY <1>0 DEF Placed
  <2>2. HeapsStored(O, H, S, C)
    BY <2>1 DEF HeapsStored
  <2>3. HeapsHeld(O, H, S, C)
    <3>1. \A x \in Obj : Known(O, x) => O[x].heap # p
      BY <1>1, KnownHeap
    <3> QED BY <2>1, <3>1 DEF HeapsHeld
  <2>4. ValuesStored(I, S, C) /\ ValuesHeld(I, S, C)
    BY <1>1, <2>1 DEF ValuesStored, ValuesHeld
  <2> QED BY <2>2, <2>3, <2>4 DEF Placed
<1>3. Reclaimed(I, H, T, S, C, D)
  <2>1. /\ BinDead(P, H, B, D) /\ DoomedDead(H, T, B, D) /\ Emptied(T, S, D)
        /\ HeapLives(H, T, D) /\ ValueLives(P, H, T)
    BY <1>0 DEF Reclaimed
  <2>2. BinDead(I, H, C, D)
    BY <2>1 DEF BinDead
  <2>3. DoomedDead(H, T, C, D)
    BY <1>1, <2>1 DEF DoomedDead
  <2>4. ValueLives(I, H, T)
    BY <1>1, <2>1 DEF ValueLives
  <2> QED BY <2>1, <2>2, <2>3, <2>4 DEF Reclaimed
<1> QED BY <1>0, <1>2, <1>3 DEF Data

LEMMA FreeMemView ==
  ASSUME NEW O, NEW P, NEW H, NEW T, NEW S, NEW D,
         Typed(O, P, H), Data(O, P, H, T, S, {}, D), NEW U, NEW E,
         NEW m \in D, E = D \ {m}, U[m] = "freed", \A n \in AllMem : n # m => U[n] = T[n]
  PROVE  Data(O, P, H, U, S, {}, E)
<1>0. Owned(O, H, T) /\ Placed(O, P, H, S, {}) /\ Reclaimed(P, H, T, S, {}, D)
  BY DEF Data
<1>1. /\ BinDead(P, H, {}, D) /\ DoomedDead(H, T, {}, D) /\ Emptied(T, S, D)
      /\ HeapLives(H, T, D) /\ ValueLives(P, H, T)
  BY <1>0 DEF Reclaimed
<1>2. /\ m \in Mem /\ T[m] = "live" /\ S[m] = {}
      /\ \A g \in Heap : Used(H, g) /\ H[g].mem = m => H[g].st = "freed"
  BY <1>1 DEF DoomedDead, Emptied, AllMem
<1>3. \A g \in Heap : Used(H, g) => H[g].mem \in AllMem
  BY UsedMem
<1>4. MemInUse(H, U) /\ HasHeap(H, U)
  BY <1>0, <1>2, <1>3 DEF Owned, MemInUse, HasHeap, AllMem
<1>5. DoomedDead(H, U, {}, E) /\ Emptied(U, S, E) /\ BinDead(P, H, {}, E)
  BY <1>1, <1>2 DEF DoomedDead, Emptied, BinDead, AllMem
<1>6. HeapLives(H, U, E)
  BY <1>1, <1>2, <1>3 DEF HeapLives, Used
<1>7. ValueLives(P, H, U)
  BY <1>1, <1>2 DEF ValueLives, AllMem
<1> QED BY <1>0, <1>4, <1>5, <1>6, <1>7 DEF Data, Owned, Reclaimed

\* Among some heaps in use, one is referred to by the root list or by a heap that
\* is not one of them: objects do not contain themselves.
LEMMA Reached ==
  ASSUME NEW O, NEW P, NEW H, NEW T, NEW S, Typed(O, P, H), Data(O, P, H, T, S, {}, {}),
         NEW W, W \subseteq Heap, W # {}, \A h \in W : H[h].st = "live"
  PROVE  \E h \in W : \/ h \in S[RootMem]
                      \/ \E g \in Heap : g \notin W /\ H[g].st = "live" /\ h \in S[H[g].mem]
<1>0. Owned(O, H, T) /\ Placed(O, P, H, S, {}) /\ Reclaimed(P, H, T, S, {}, {})
  BY DEF Data
<1>1. PICK R, n : Ranks(O, R, n)
  BY <1>0 DEF Owned, Ranked
<1>2. n \in Nat /\ \A x \in Obj : R[x] \in 0..n
  BY <1>1 DEF Ranks
<1> DEFINE X == {x \in Obj : Known(O, x) /\ O[x].heap \in W}
           Y == {R[x] + 1 : x \in X}
<1>3. X # {}
  BY <1>0 DEF Owned, HasOwner, Used
<1>4. Y # {} /\ Y \subseteq 1..n + 1 /\ n + 1 \in Nat
  <2>1. \A k \in 0..n : k + 1 \in 1..n + 1
    BY <1>2
  <2>2. \A x \in X : R[x] + 1 \in 1..n + 1
    BY <1>2, <2>1
  <2> QED BY <1>2, <1>3, <2>2
<1>5. LastOf(Y) # {}
  <2> HIDE DEF Y
  <2> QED BY <1>4, LastExists
<1>6. PICK k \in Y : \A j \in Y : j <= k
  BY <1>5 DEF LastOf
<1>7. PICK x \in X : k = R[x] + 1
  BY <1>6
<1>8. PICK h : h = O[x].heap
  BY Zenon
<1>9. /\ x \in Obj /\ Known(O, x) /\ h \in W /\ h \in Heap /\ H[h].st = "live" /\ h \in S[Place(O, H, x)]
      /\ Members(O) /\ Place(O, H, x) \in AllMem
  <2>1. x \in Obj /\ Known(O, x) /\ h \in W /\ Members(O) /\ HeapsHeld(O, H, S, {})
    BY <1>0, <1>7, <1>8 DEF Owned, Placed
  <2>2. Place(O, H, x) \in AllMem
    BY <2>1, PlaceType
  <2> QED BY <1>8, <2>1, <2>2 DEF HeapsHeld
<1>10. CASE O[x].parent = Null
  <2>1. h \in S[RootMem]
    BY <1>9, <1>10, PlaceType
  <2> QED BY <1>9, <2>1
<1>11. CASE O[x].parent # Null
  <2>1. PICK y, g : y = O[x].parent /\ g = O[y].heap
    BY Zenon
  <2>2. /\ y \in Obj /\ Known(O, y) /\ Place(O, H, x) = H[g].mem
        /\ g \in Heap /\ Used(H, g)
    BY <1>9, <1>11, <2>1, PlaceType, KnownHeap
  <2>3. T[H[g].mem] = "live"
    BY <1>0, <1>9, <2>2 DEF Reclaimed, Emptied
  <2>4. H[g].st = "live"
    <3>1. H[g].st # "freed"
      BY <1>0, <2>2, <2>3 DEF Reclaimed, HeapLives
    <3>2. H[g] \in HeapT
      BY <2>2, UsedMem
    <3> QED BY <2>2, <3>1, <3>2 DEF HeapT, Used
  <2>5. R[x] < R[y]
    BY <1>1, <1>9, <1>11, <2>1 DEF Ranks
  <2>6. g \notin W
    <3> SUFFICES ASSUME g \in W PROVE FALSE
      OBVIOUS
    <3>1. y \in X
      BY <2>1, <2>2
    <3>2. R[y] + 1 <= R[x] + 1
      BY <1>6, <1>7, <3>1
    <3>3. R[x] \in Nat /\ R[y] \in Nat
      BY <1>2, <1>9, <2>2
    <3> QED BY <2>5, <3>2, <3>3
  <2> QED BY <1>9, <2>2, <2>4, <2>6
<1> QED BY <1>10, <1>11

----------------------------------------------------------------------------
(* The invariant of the state.                                             *)

TreeData ==
  /\ AllTidy(mem)
  /\ Data(obj, payload, heap, Life(mem), Store(mem), Binned(acts), Doomed(acts))

\* No nesting, nothing queued before the sweep, and the root list lasts.
TreeControl ==
  /\ pc \notin {"fault", "callback"} /\ Len(acts) <= 1 /\ (pc # "destroy" => inside = FALSE)
  /\ acts # <<>> => Once(acts[1])
  /\ pc \notin {"sweep", "destroy"} => Binned(acts) = {} /\ Doomed(acts) = {}
  /\ pc # "exited" => mem[RootMem].st = "live"

Shade(H, F, h) == F[H[h].mem].color
Child(H, F, g, j) == F[H[g].mem].slots[j].ptr

\* mark() paints a heap by whether it is deallocated, and what it has painted has
\* painted children, but for the entries that an activation has not passed.
Marked(H, F, s) ==
  /\ \A g \in AllHeap : H[g].st = "live" =>
       Shade(H, F, g) = "GRAY" \/ (Shade(H, F, g) = "WHITE" <=> H[g].deallocated)
  /\ Shade(H, F, Root) = "GRAY" => s = <<Frame(Root)>>
  /\ \A g \in AllHeap : H[g].st = "live" /\ Shade(H, F, g) # "GRAY" =>
       \A j \in 1..F[H[g].mem].size : Child(H, F, g, j) \in Heap =>
         \/ Shade(H, F, Child(H, F, g, j)) # "GRAY"
         \/ s # <<>> /\ s[Len(s)].ph = "enter" /\ s[Len(s)].h = Child(H, F, g, j)
         \/ \E k \in 1..Len(s) : s[k].ph = "scan" /\ s[k].h = g /\ s[k].i <= j

\* do_sweep() empties what is WHITE, and only that.
Swept(H, F, s) ==
  /\ \A g \in AllHeap : H[g].st = "live" => (Shade(H, F, g) = "WHITE" <=> H[g].deallocated)
  /\ \A k \in 1..Len(s) : s[k].ph # "enter" /\ Shade(H, F, s[k].h) = "WHITE" =>
       s[k].i = F[H[s[k].h].mem].size
  /\ s # <<>> /\ s[Len(s)].ph \in {"back", "drain"} =>
       LET h == Child(H, F, s[Len(s)].h, s[Len(s)].i)
       IN  Shade(H, F, h) = "WHITE" => F[H[h].mem].size = 0

\* Between collections, at the end of one, and at the end of the program.
Rested ==
  /\ ~heap[Root].deallocated
  /\ DeallocLimit # 0 =>
       /\ deallocCount < DeallocLimit
       /\ deallocCount = 0 => \A h \in Heap : heap[h].st = "live" => ~heap[h].deallocated
Cleared == \A h \in Heap : heap[h].st = "live" /\ h \notin Binned(acts) => ~heap[h].deallocated
Closed  == /\ heap[Root].deallocated /\ mem[RootMem].st # "live"
           /\ \A h \in Heap : heap[h].st # "live"

TreePhase ==
  /\ pc = "mark" => Marked(heap, mem, stack)
  /\ pc = "sweep" => Swept(heap, mem, stack)
  /\ pc = "destroy" => Cleared
  /\ pc = "run" => Rested
  /\ pc = "exited" => Closed

Tree == TreeData /\ TreeControl /\ TreePhase

\* What every client keeps.
Strong == Inductive /\ AllMatched(mem) /\ Colors

\* The data of the state.
LEMMA TreeFacts ==
  ASSUME Strong, Tree
  PROVE  /\ Typed(obj, payload, heap) /\ GoodMem(mem) /\ AllTidy(mem)
         /\ Data(obj, payload, heap, Life(mem), Store(mem), Binned(acts), Doomed(acts))
         /\ \A m \in AllMem : /\ Life(mem)[m] = mem[m].st /\ Store(mem)[m] = Stored(mem[m])
                              /\ Tidy(mem[m]) /\ Sized(mem[m]) /\ mem[m] \in Memory
         /\ RootMem \in AllMem /\ Root \in AllHeap /\ heap[Root].mem = RootMem /\ heap[Root].st = "live"
<1>1. Typed(obj, payload, heap) /\ GoodMem(mem)
  BY DEF Strong, Inductive, GoodData, Typed
<1>2. AllTidy(mem) /\ Data(obj, payload, heap, Life(mem), Store(mem), Binned(acts), Doomed(acts))
  BY DEF Tree, TreeData
<1>3. \A m \in AllMem : Life(mem)[m] = mem[m].st /\ Store(mem)[m] = Stored(mem[m])
  BY DEF Life, Store
<1>4. \A m \in AllMem : Tidy(mem[m]) /\ Sized(mem[m]) /\ mem[m] \in Memory
  BY <1>2 DEF AllTidy, Tidy, Sized
<1>5. RootMem \in AllMem /\ Root \in AllHeap
  BY DEF AllMem, AllHeap
<1>6. heap[Root].mem = RootMem /\ heap[Root].st = "live"
  BY <1>1 DEF Typed, GoodHeap
<1> QED BY <1>1, <1>2, <1>3, <1>4, <1>5, <1>6

\* A step that moves no entry, and queues nothing.
LEMMA SameView ==
  ASSUME Strong, Tree, GoodMem(mem'),
         obj' = obj, payload' = payload, heap' = heap, acts' = acts,
         \A m \in AllMem : /\ mem'[m].st = mem[m].st
                           /\ mem'[m].slots = mem[m].slots /\ mem'[m].size = mem[m].size
  PROVE  TreeData'
<1>1. Life(mem') = Life(mem)
  BY DEF Life
<1>2. \A m \in AllMem : Stored(mem'[m]) = Stored(mem[m])
  BY StoredSame
<1>3. Store(mem') = Store(mem)
  BY <1>2 DEF Store
<1>4. AllTidy(mem')
  <2> SUFFICES ASSUME NEW m \in AllMem PROVE Tidy(mem'[m])
    BY DEF AllTidy
  <2>1. Tidy(mem[m]) /\ mem'[m] \in Memory
    BY TreeFacts DEF GoodMem
  <2> QED BY <2>1, StoredSame
<1> QED BY <1>1, <1>3, <1>4, TreeFacts DEF TreeData

----------------------------------------------------------------------------
(* The client's calls.                                                     *)

LEMMA RunFacts ==
  ASSUME Strong, Tree, pc = "run"
  PROVE  /\ acts = <<>> /\ stack = <<>> /\ inside = FALSE /\ Binned(acts) = {} /\ Doomed(acts) = {}
         /\ Data(obj, payload, heap, Life(mem), Store(mem), {}, {})
         /\ mem[RootMem].st = "live" /\ mem[RootMem].seen = FALSE /\ Rested
         /\ \A g \in AllHeap : heap[g].st = "live" =>
              /\ heap[g].mem \in AllMem /\ mem[heap[g].mem].st = "live"
              /\ mem[heap[g].mem].color = "GRAY"
<1>1. acts = <<>> /\ stack = <<>>
  BY DEF Strong, Inductive, GoodControl
<1>2. /\ inside = FALSE /\ Binned(acts) = {} /\ Doomed(acts) = {} /\ mem[RootMem].st = "live"
  BY DEF Tree, TreeControl
<1>3. Data(obj, payload, heap, Life(mem), Store(mem), {}, {}) /\ Rested
  BY <1>2, TreeFacts DEF Tree, TreePhase
<1>4. mem[RootMem].seen = FALSE
  <2>1. RootMem \in AllMem /\ SeenIsOnStack
    BY DEF Strong, Inductive, AllMem
  <2> QED BY <2>1 DEF SeenIsOnStack
<1>5. ASSUME NEW g \in AllHeap, heap[g].st = "live"
      PROVE  /\ heap[g].mem \in AllMem /\ mem[heap[g].mem].st = "live"
             /\ mem[heap[g].mem].color = "GRAY"
  <2>1. AllGray
    BY ColorsImply DEF Strong
  <2>2. CASE g = Root
    BY <1>2, <2>1, <2>2, TreeFacts DEF AllGray
  <2>3. CASE g # Root
    <3>1. g \in Heap /\ Used(heap, g)
      BY <1>5, <2>3 DEF AllHeap, Used
    <3>2. heap[g].mem \in AllMem
      BY <3>1, UsedMem, TreeFacts
    <3>3. HeapLives(heap, Life(mem), {})
      BY <1>3 DEF Data, Reclaimed
    <3>4. mem[heap[g].mem].st = "live"
      BY <1>5, <3>1, <3>2, <3>3, TreeFacts DEF HeapLives
    <3> QED BY <2>1, <3>2, <3>4 DEF AllGray
  <2> QED BY <2>2, <2>3
<1> QED BY <1>1, <1>2, <1>3, <1>4, <1>5

LEMMA NothingQueued == Binned(<<>>) = {} /\ Doomed(<<>>) = {}
BY DoomedInitially DEF Binned

\* A call that starts no collection.
LEMMA RestTree ==
  ASSUME Strong, Tree, pc = "run", UNCHANGED control, AllTidy(mem'),
         Data(obj', payload', heap', Life(mem'), Store(mem'), {}, {}),
         mem'[RootMem].st = "live", Rested'
  PROVE  Tree'
<1>1. acts' = <<>> /\ stack' = <<>> /\ inside' = FALSE /\ pc' = "run"
  BY RunFacts DEF control
<1>2. Binned(acts') = {} /\ Doomed(acts') = {}
  BY <1>1, NothingQueued
<1>3. TreeData'
  BY <1>2 DEF TreeData
<1>4. TreeControl'
  BY <1>1, <1>2 DEF TreeControl
<1>5. TreePhase'
  BY <1>1 DEF TreePhase
<1> QED BY <1>3, <1>4, <1>5 DEF Tree

\* A call that starts one.
LEMMA BeginTree ==
  ASSUME Strong, Tree, pc = "run", mem' = mem, mem[RootMem].size # 0, BeginCollect(mem),
         Data(obj', payload', heap', Life(mem), Store(mem), {}, {}),
         \A g \in AllHeap : heap'[g].st = heap[g].st /\ heap'[g].mem = heap[g].mem
  PROVE  Tree'
<1> DEFINE a == [list |-> <<>>, mlist |-> <<>>]
<1>1. /\ pc' = "mark" /\ stack' = <<Frame(Root)>> /\ acts' = Append(acts, a) /\ inside' = FALSE
  BY RunFacts DEF BeginCollect
<1>2. acts' = <<a>> /\ Len(acts') = 1
  BY <1>1, RunFacts
<1>3. a.list = <<>> /\ a.mlist = <<>> /\ Listed(a) = {}
  BY DEF Listed
<1>4. Once(a)
  BY <1>3 DEF Once
<1>5. acts'[1] = a /\ acts' # <<>>
  BY <1>2
<1>6. Binned(acts') = {}
  BY <1>3, <1>5 DEF Binned
<1>7. Doomed(acts') = {}
  BY <1>2, <1>3, <1>5 DEF Doomed, Queued
<1>8. TreeData'
  BY <1>6, <1>7, TreeFacts DEF TreeData
<1>9. TreeControl'
  BY <1>1, <1>2, <1>4, <1>5, <1>6, <1>7, RunFacts DEF TreeControl
<1>10. \A g \in AllHeap : heap'[g].st = "live" => Shade(heap', mem', g) = "GRAY"
  BY RunFacts DEF Shade
<1>11. Marked(heap', mem', stack')
  BY <1>1, <1>10 DEF Marked
<1>12. TreePhase'
  BY <1>1, <1>11 DEF TreePhase
<1> QED BY <1>8, <1>9, <1>12 DEF Tree

\* The root list refers to something as long as a heap is left.
LEMMA RootNotEmpty ==
  ASSUME Strong, Tree, pc = "run", NEW h \in Heap, heap[h].st = "live"
  PROVE  mem[RootMem].size # 0
<1> DEFINE W == {g \in Heap : heap[g].st = "live"}
<1>1. W # {} /\ W \subseteq Heap /\ \A g \in W : heap[g].st = "live"
  OBVIOUS
<1>2. \A g \in Heap : heap[g].st = "live" => g \in W
  OBVIOUS
<1> HIDE DEF W
<1>3. Typed(obj, payload, heap) /\ Data(obj, payload, heap, Life(mem), Store(mem), {}, {})
  BY RunFacts, TreeFacts
<1>4. PICK g \in W : \/ g \in Store(mem)[RootMem]
                     \/ \E f \in Heap : f \notin W /\ heap[f].st = "live" /\ g \in Store(mem)[heap[f].mem]
  BY <1>1, <1>3, Reached
<1>5. g \in Stored(mem[RootMem]) /\ Sized(mem[RootMem])
  BY <1>2, <1>4, TreeFacts
<1> QED BY <1>5, EmptyStored

LEMMA NewTree ==
  ASSUME Strong, Strong', Tree, NEW o \in Obj, New(o), Uses \subseteq {"byRef"}
  PROVE  Tree'
<1>1. pc = "run"
  BY DEF New, ClientRuns, Tree, TreeControl
<1>2. PICK h, m : h = Fresh(heap) /\ m = Fresh(mem)
  BY Zenon
<1>3. /\ obj' = [obj EXCEPT ![o] = [st |-> "live", heap |-> h, parent |-> Null]]
      /\ heap' = [heap EXCEPT ![h] = [st |-> "live", mem |-> m, deallocated |-> FALSE]]
      /\ mem' = [mem EXCEPT ![m] = NewMemory, ![RootMem] = PushEntry(@, h, TRUE)]
      /\ UNCHANGED <<payload, deallocCount, control>> /\ obj[o].st = "none"
      /\ Unused(heap) # {} /\ Unused(mem) # {}
  BY <1>2 DEF New
<1>4. GoodHeap(heap) /\ GoodMem(mem) /\ GoodObj(obj, heap)
  BY DEF Strong, Inductive, GoodData
<1>5. h \in Heap /\ heap[h].st = "unused" /\ m \in Mem /\ mem[m].st = "unused"
  BY <1>2, <1>3, <1>4, FreshHeap, FreshMem
<1>6. m # RootMem /\ m \in AllMem /\ h # Root /\ h \in AllHeap
  BY <1>5, DistinctIds DEF AllMem, AllHeap
<1>7. Data(obj, payload, heap, Life(mem), Store(mem), {}, {}) /\ Rested /\ mem[RootMem].st = "live"
  BY <1>1, RunFacts
<1>8. h \notin Stored(mem[RootMem])
  BY <1>5, <1>7, TreeFacts DEF Data, Placed, HeapsStored
<1>9. /\ mem'[m] = NewMemory /\ mem'[RootMem] = PushEntry(mem[RootMem], h, TRUE)
      /\ \A n \in AllMem : n # m /\ n # RootMem => mem'[n] = mem[n]
  BY <1>3, <1>4, <1>6, TreeFacts DEF GoodMem
<1>10. /\ Tidy(mem'[RootMem]) /\ SameButVectors(mem[RootMem], mem'[RootMem])
       /\ Stored(mem'[RootMem]) = Stored(mem[RootMem]) \cup {h}
  <2>1. Tidy(mem[RootMem])
    BY TreeFacts
  <2>2. PICK M, N : M = mem[RootMem] /\ N = mem'[RootMem]
    BY Zenon
  <2>3. /\ Tidy(PushEntry(M, h, TRUE)) /\ SameButVectors(M, PushEntry(M, h, TRUE))
        /\ Stored(PushEntry(M, h, TRUE)) = Stored(M) \cup {h}
    BY <1>5, <1>8, <2>1, <2>2, PushTidy
  <2> QED BY <1>9, <2>2, <2>3
<1>11. Tidy(mem'[m]) /\ Stored(mem'[m]) = {} /\ mem'[m].st = "live"
  <2>1. NewMemory.st = "live"
    BY DEF NewMemory, NoMemory
  <2> QED BY <1>9, <2>1, EmptyTidy
<1>12. AllTidy(mem')
  BY <1>9, <1>10, <1>11, TreeFacts DEF AllTidy
<1>13. PICK U, V : U = Life(mem') /\ V = Store(mem')
  BY Zenon
<1>14. \A n \in AllMem : U[n] = mem'[n].st /\ V[n] = Stored(mem'[n])
  BY <1>13 DEF Life, Store
<1>15. /\ U[m] = "live" /\ \A n \in AllMem : n # m => U[n] = Life(mem)[n]
  <2>1. \A n \in AllMem : Life(mem)[n] = mem[n].st
    BY DEF Life
  <2>2. mem'[RootMem].st = mem[RootMem].st
    BY <1>10 DEF SameButVectors
  <2>3. \A n \in AllMem : n # m => mem'[n].st = mem[n].st
    BY <1>9, <2>2
  <2> QED BY <1>6, <1>11, <1>14, <2>1, <2>3
<1>16. /\ V[RootMem] = Store(mem)[RootMem] \cup {h}
       /\ \A n \in AllMem : n # RootMem => V[n] = Store(mem)[n]
  <2>1. \A n \in AllMem : Life(mem)[n] = mem[n].st /\ Store(mem)[n] = Stored(mem[n])
    BY DEF Life, Store
  <2>2. Emptied(Life(mem), Store(mem), {})
    BY <1>7 DEF Data, Reclaimed
  <2>3. Store(mem)[m] = {}
    BY <1>5, <1>6, <2>1, <2>2 DEF Emptied
  <2>4. RootMem \in AllMem
    BY DEF AllMem
  <2>5. V[m] = Store(mem)[m]
    BY <1>6, <1>11, <1>14, <2>3
  <2>6. V[RootMem] = Store(mem)[RootMem] \cup {h}
    BY <1>10, <1>14, <2>1, <2>4
  <2>7. \A n \in AllMem : n # m /\ n # RootMem => V[n] = Store(mem)[n]
    BY <1>9, <1>14, <2>1
  <2> QED BY <2>5, <2>6, <2>7
<1>17. PICK Q, G : Q = obj' /\ G = heap'
  BY Zenon
<1>18. /\ Q[o].st = "live" /\ Q[o].heap = h /\ Q[o].parent = Null
       /\ \A y \in Obj : y # o => Q[y] = obj[y]
  BY <1>3, <1>4, <1>17 DEF GoodObj
<1>19. /\ G[h].st = "live" /\ G[h].mem = m /\ G[h].deallocated = FALSE
       /\ \A g \in AllHeap : g # h => G[g] = heap[g]
  BY <1>3, <1>4, <1>6, <1>17 DEF GoodHeap
<1>20. Data(Q, payload, G, U, V, {}, {})
  <2>1. ~heap[Root].deallocated
    BY <1>7 DEF Rested
  <2>2. Typed(obj, payload, heap) /\ Life(mem)[RootMem] = "live" /\ Life(mem)[m] = "unused"
    BY <1>5, <1>6, <1>7, TreeFacts
  <2>3. PICK F, I : F = Life(mem) /\ I = Store(mem)
    BY Zenon
  <2>4. Data(obj, payload, heap, F, I, {}, {}) /\ F[RootMem] = "live" /\ F[m] = "unused"
    BY <1>7, <2>2, <2>3, Zenon
  <2>5. /\ U[m] = "live" /\ \A n \in AllMem : n # m => U[n] = F[n]
        /\ V[RootMem] = I[RootMem] \cup {h} /\ \A n \in AllMem : n # RootMem => V[n] = I[n]
    BY <1>15, <1>16, <2>3, Zenon
  <2>6. obj[o].st = "none"
    BY <1>3
  <2>7. Made(obj, heap, F, I, Q, G, U, V, o, h, m)
    BY <1>5, <1>18, <1>19, <2>1, <2>4, <2>5, <2>6, Zenon DEF Made
  <2> QED BY <1>5, <2>2, <2>4, <2>7, NewView
<1>21. payload' = payload /\ deallocCount' = deallocCount /\ UNCHANGED control
  BY <1>3
<1>22. Rested'
  <2>1. \A g \in Heap : G[g].st = "live" => (g = h /\ ~G[g].deallocated) \/ G[g] = heap[g]
    BY <1>19 DEF AllHeap
  <2>2. G[Root] = heap[Root]
    BY <1>6, <1>19, TreeFacts
  <2> QED BY <1>7, <1>17, <1>21, <2>1, <2>2 DEF Rested
<1>23. mem'[RootMem].st = "live"
  BY <1>7, <1>10 DEF SameButVectors
<1> QED BY <1>1, <1>12, <1>13, <1>17, <1>20, <1>21, <1>22, <1>23, RestTree

LEMMA ViewOf ==
  ASSUME NEW F
  PROVE  \A n \in AllMem : Life(F)[n] = F[n].st /\ Store(F)[n] = Stored(F[n])
BY DEF Life, Store

LEMMA PushValueTree ==
  ASSUME Strong, Strong', Tree, NEW o \in Obj, NEW p \in Payload \cup {Null}, PushValue(o, p),
         Uses \subseteq {"byRef"}
  PROVE  Tree'
<1>1. pc = "run"
  BY DEF PushValue, ClientRuns, Tree, TreeControl
<1>2. PICK m : m = MemOf(o)
  BY Zenon
<1>3. /\ p \in Payload /\ payload[p].st = "new" /\ Usable(o)
      /\ payload' = [payload EXCEPT ![p] = [st |-> "held", mem |-> m]]
      /\ mem' = [mem EXCEPT ![m] = PushEntry(@, p, FALSE)]
      /\ UNCHANGED <<obj, heap, deallocCount, control>>
  BY <1>2 DEF PushValue
<1>4. GoodData /\ GoodMem(mem) /\ payload \in [Payload -> PayloadT]
  BY DEF Strong, Inductive, GoodData
<1>5. m \in Mem /\ m # RootMem /\ m \in AllMem
  BY <1>2, <1>3, <1>4, UsableFacts DEF AllMem
<1>6. mem[m].st = "live"
  BY <1>2, <1>3 DEF Usable, HeapOk, MemOf
<1>7. /\ Data(obj, payload, heap, Life(mem), Store(mem), {}, {}) /\ Rested /\ mem[RootMem].st = "live"
      /\ Typed(obj, payload, heap)
  BY <1>1, RunFacts, TreeFacts
<1>8. p \notin Stored(mem[m])
  <2>1. ValuesStored(payload, Store(mem), {})
    BY <1>7 DEF Data, Placed
  <2> QED BY <1>3, <1>5, <2>1, ViewOf DEF ValuesStored
<1>9. mem'[m] = PushEntry(mem[m], p, FALSE) /\ \A n \in AllMem : n # m => mem'[n] = mem[n]
  BY <1>3, <1>4, <1>5 DEF GoodMem
<1>10. /\ Tidy(mem'[m]) /\ SameButVectors(mem[m], mem'[m])
       /\ Stored(mem'[m]) = Stored(mem[m]) \cup {p}
  <2>1. Tidy(mem[m])
    BY <1>5, TreeFacts
  <2>2. PICK M : M = mem[m]
    BY Zenon
  <2>3. /\ Tidy(PushEntry(M, p, FALSE)) /\ SameButVectors(M, PushEntry(M, p, FALSE))
        /\ Stored(PushEntry(M, p, FALSE)) = Stored(M) \cup {p}
    BY <1>3, <1>8, <2>1, <2>2, PushTidy
  <2> QED BY <1>9, <2>2, <2>3
<1>11. AllTidy(mem')
  BY <1>9, <1>10, TreeFacts DEF AllTidy
<1>12. Life(mem') = Life(mem)
  <2>1. \A n \in AllMem : mem'[n].st = mem[n].st
    BY <1>9, <1>10 DEF SameButVectors
  <2> QED BY <2>1 DEF Life
<1>13. PICK V, I : V = Store(mem') /\ I = payload'
  BY Zenon
<1>14. Given(payload, Life(mem), Store(mem), I, V, p, m)
  <2>1. I[p].st = "held" /\ I[p].mem = m /\ \A q \in Payload : q # p => I[q] = payload[q]
    BY <1>3, <1>4, <1>13
  <2>2. V[m] = Store(mem)[m] \cup {p}
    BY <1>5, <1>10, <1>13, ViewOf
  <2>3. \A n \in AllMem : n # m => V[n] = Store(mem)[n]
    BY <1>9, <1>13, ViewOf
  <2>4. Life(mem)[m] = "live" /\ payload[p].st = "new"
    BY <1>3, <1>5, <1>6, ViewOf
  <2> QED BY <2>1, <2>2, <2>3, <2>4, Zenon DEF Given
<1>15. Data(obj, I, heap, Life(mem), V, {}, {})
  BY <1>3, <1>5, <1>7, <1>14, HoldView
<1>16. /\ obj' = obj /\ heap' = heap /\ deallocCount' = deallocCount /\ UNCHANGED control
       /\ mem'[RootMem] = mem[RootMem]
  BY <1>3, <1>5, <1>9 DEF AllMem
<1>17. Rested'
  BY <1>7, <1>16 DEF Rested
<1>18. Data(obj', payload', heap', Life(mem'), Store(mem'), {}, {})
  BY <1>12, <1>13, <1>15, <1>16, Zenon
<1> QED BY <1>1, <1>7, <1>11, <1>16, <1>17, <1>18, RestTree

LEMMA ByRefTree ==
  ASSUME Strong, Strong', Tree, NEW o \in Obj, NEW c \in Obj, ByRef(o, c), Uses \subseteq {"byRef"}
  PROVE  Tree'
<1>1. pc = "run"
  BY DEF ByRef, ClientRuns, Tree, TreeControl
<1>2. PICK m, h : m = MemOf(o) /\ h = obj[c].heap
  BY Zenon
<1>3. /\ o # c /\ obj[o].st = "live" /\ obj[c].st = "live" /\ Usable(o) /\ Usable(c)
      /\ obj[o].parent = Null /\ obj[c].parent = Null
      /\ obj' = [obj EXCEPT ![c].parent = o]
      /\ mem' = [mem EXCEPT ![m] = PushEntry(@, h, TRUE), ![RootMem] = Unroot(@, h)]
      /\ UNCHANGED <<payload, heap, deallocCount, control>>
  BY <1>2 DEF ByRef
<1>4. GoodData /\ GoodMem(mem) /\ obj \in [Obj -> ObjT]
  BY DEF Strong, Inductive, GoodData, GoodObj
<1>5. m \in Mem /\ m # RootMem /\ m \in AllMem /\ h \in Heap /\ RootMem \in AllMem
  BY <1>2, <1>3, <1>4, UsableFacts DEF AllMem
<1>6. mem[m].st = "live" /\ heap[h].st = "live"
  BY <1>2, <1>3 DEF Usable, HeapOk, MemOf
<1>7. /\ Data(obj, payload, heap, Life(mem), Store(mem), {}, {}) /\ Rested /\ mem[RootMem].st = "live"
      /\ Typed(obj, payload, heap)
  BY <1>1, RunFacts, TreeFacts
<1>8. h \notin Stored(mem[m])
  <2>1. HeapsStored(obj, heap, Store(mem), {}) /\ OneOwner(obj)
    BY <1>7 DEF Data, Placed, Owned
  <2>2. Known(obj, c) /\ Place(obj, heap, c) = RootMem
    BY <1>3 DEF Known, Place
  <2>3. h \in Store(mem)[m] => Place(obj, heap, c) = m
    BY <1>2, <1>5, <2>1, <2>2, StoredOwner
  <2> QED BY <1>5, <2>2, <2>3, ViewOf
<1>9. /\ mem'[m] = PushEntry(mem[m], h, TRUE) /\ mem'[RootMem] = Unroot(mem[RootMem], h)
      /\ \A n \in AllMem : n # m /\ n # RootMem => mem'[n] = mem[n]
  BY <1>3, <1>4, <1>5 DEF GoodMem
<1>10. /\ Tidy(mem'[m]) /\ SameButVectors(mem[m], mem'[m])
       /\ Stored(mem'[m]) = Stored(mem[m]) \cup {h}
  <2>1. Tidy(mem[m])
    BY <1>5, TreeFacts
  <2>2. PICK M : M = mem[m]
    BY Zenon
  <2>3. /\ Tidy(PushEntry(M, h, TRUE)) /\ SameButVectors(M, PushEntry(M, h, TRUE))
        /\ Stored(PushEntry(M, h, TRUE)) = Stored(M) \cup {h}
    BY <1>5, <1>8, <2>1, <2>2, PushTidy
  <2> QED BY <1>9, <2>2, <2>3
<1>11. /\ Tidy(mem'[RootMem]) /\ SameButVectors(mem[RootMem], mem'[RootMem])
       /\ Stored(mem'[RootMem]) = Stored(mem[RootMem]) \ {h}
  <2>1. Tidy(mem[RootMem])
    BY TreeFacts
  <2> QED BY <1>5, <1>9, <2>1, UnrootTidy
<1>12. AllTidy(mem')
  BY <1>9, <1>10, <1>11, TreeFacts DEF AllTidy
<1>13. Life(mem') = Life(mem)
  <2>1. \A n \in AllMem : mem'[n].st = mem[n].st
    BY <1>9, <1>10, <1>11 DEF SameButVectors
  <2> QED BY <2>1 DEF Life
<1>14. PICK Q, V : Q = obj' /\ V = Store(mem')
  BY Zenon
<1>15. Joined(obj, heap, Life(mem), Store(mem), Q, V, o, c, m, h)
  <2>1. Q[c].st = obj[c].st /\ Q[c].heap = h /\ Q[c].parent = o /\ \A y \in Obj : y # c => Q[y] = obj[y]
    <3>1. Q[c] = [obj[c] EXCEPT !.parent = o] /\ \A y \in Obj : y # c => Q[y] = obj[y]
      BY <1>3, <1>4, <1>14
    <3>2. obj[c] \in ObjT
      BY <1>4
    <3> QED BY <1>2, <3>1, <3>2 DEF ObjT
  <2>2. V[m] = Store(mem)[m] \cup {h} /\ V[RootMem] = Store(mem)[RootMem] \ {h}
    BY <1>5, <1>10, <1>11, <1>14, ViewOf
  <2>3. \A n \in AllMem : n # m /\ n # RootMem => V[n] = Store(mem)[n]
    BY <1>9, <1>14, ViewOf
  <2>4. Life(mem)[m] = "live"
    BY <1>5, <1>6, ViewOf
  <2>5. m = heap[obj[o].heap].mem
    BY <1>2 DEF MemOf
  <2>6. /\ o # c /\ obj[o].st = "live" /\ obj[c].st = "live"
        /\ obj[o].parent = Null /\ obj[c].parent = Null
    BY <1>3
  <2> QED BY <1>2, <1>6, <2>1, <2>2, <2>3, <2>4, <2>5, <2>6, Zenon DEF Joined
<1>16. Data(Q, payload, heap, Life(mem), V, {}, {})
  BY <1>7, <1>15, RefView
<1>17. payload' = payload /\ heap' = heap /\ deallocCount' = deallocCount /\ UNCHANGED control
  BY <1>3
<1>18. Rested' /\ mem'[RootMem].st = "live"
  BY <1>7, <1>11, <1>17 DEF Rested, SameButVectors
<1>19. Data(obj', payload', heap', Life(mem'), Store(mem'), {}, {})
  BY <1>13, <1>14, <1>16, <1>17, Zenon
<1> QED BY <1>1, <1>12, <1>17, <1>18, <1>19, RestTree

\* A destructor: fewer than dealloc_limit of them go by without a collection, as
\* the root list still refers to something when the limit is reached.
LEMMA DestroyTree ==
  ASSUME Strong, Strong', Tree, NEW o \in Obj, Destroy(o), Uses \subseteq {"byRef"}
  PROVE  Tree'
<1>1. pc = "run"
  BY DEF Destroy, ClientRuns, Tree, TreeControl
<1>2. PICK h : h = obj[o].heap
  BY Zenon
<1>3. /\ obj[o].st = "live" /\ \A c \in Obj : obj[c].parent = o => obj[c].st # "live"
      /\ heap[h].st = "live" /\ obj' = [obj EXCEPT ![o].st = "gone"]
      /\ Dealloc(h, heap, mem) /\ payload' = payload
  BY <1>2 DEF Destroy
<1>4. /\ Data(obj, payload, heap, Life(mem), Store(mem), {}, {}) /\ Rested /\ mem[RootMem].st = "live"
      /\ Typed(obj, payload, heap) /\ inside = FALSE /\ mem[RootMem].seen = FALSE
  BY <1>1, RunFacts, TreeFacts
<1>5. PICK n : n = (deallocCount + 1) % 256
  BY Zenon
<1>6. /\ heap' = [heap EXCEPT ![h].deallocated = TRUE] /\ mem' = mem /\ deallocCount' = n
      /\ IF DeallocLimit # 0 /\ n >= DeallocLimit THEN BeginCollect(mem) ELSE UNCHANGED control
  BY <1>3, <1>4, <1>5 DEF Dealloc
<1>7. h \in Heap /\ h \in AllHeap /\ h # Root
  BY <1>2, <1>3, <1>4, KnownHeap DEF Known
<1>8. PICK Q, G : Q = obj' /\ G = heap'
  BY Zenon
<1>9. /\ Q[o].st = "gone" /\ Q[o].heap = h /\ Q[o].parent = obj[o].parent
      /\ \A y \in Obj : y # o => Q[y] = obj[y]
  <2>1. obj \in [Obj -> ObjT] /\ obj[o] \in ObjT
    BY <1>4 DEF Typed, GoodObj
  <2>2. Q[o] = [obj[o] EXCEPT !.st = "gone"] /\ \A y \in Obj : y # o => Q[y] = obj[y]
    BY <1>3, <1>8, <2>1
  <2> QED BY <1>2, <2>1, <2>2 DEF ObjT
<1>10. /\ G[h].st = heap[h].st /\ G[h].mem = heap[h].mem /\ G[h].deallocated = TRUE
       /\ \A g \in AllHeap : g # h => G[g] = heap[g]
  <2>1. heap \in [AllHeap -> HeapT] /\ heap[h] \in HeapT
    BY <1>4, <1>7 DEF Typed, GoodHeap
  <2>2. G[h] = [heap[h] EXCEPT !.deallocated = TRUE] /\ \A g \in AllHeap : g # h => G[g] = heap[g]
    BY <1>6, <1>7, <1>8, <2>1
  <2> QED BY <2>1, <2>2 DEF HeapT
<1>11. Over(obj, heap, Q, G, o, h)
  BY <1>2, <1>3, <1>9, <1>10, Zenon DEF Over
<1>12. Data(Q, payload, G, Life(mem), Store(mem), {}, {})
  BY <1>4, <1>11, EndView
<1>13. Data(obj', payload', heap', Life(mem), Store(mem), {}, {})
  BY <1>3, <1>8, <1>12, Zenon
<1>14. CASE DeallocLimit # 0 /\ n >= DeallocLimit
  <2>1. BeginCollect(mem)
    BY <1>6, <1>14
  <2>2. mem[RootMem].size # 0
    BY <1>1, <1>3, <1>7, RootNotEmpty
  <2>3. \A g \in AllHeap : heap'[g].st = heap[g].st /\ heap'[g].mem = heap[g].mem
    BY <1>8, <1>10
  <2> QED BY <1>1, <1>6, <1>13, <2>1, <2>2, <2>3, BeginTree
<1>15. CASE ~(DeallocLimit # 0 /\ n >= DeallocLimit)
  <2>1. UNCHANGED control
    BY <1>6, <1>15
  <2>2. AllTidy(mem') /\ mem'[RootMem].st = "live" /\ Life(mem') = Life(mem) /\ Store(mem') = Store(mem)
    BY <1>4, <1>6, TreeFacts
  <2>3. DeallocLimit # 0 => n < DeallocLimit /\ n # 0
    <3>1. deallocCount \in 0..255
      BY DEF Strong, Inductive, GoodData
    <3>2. DeallocLimit \in 0..255
      BY BoundsOK
    <3>3. n \in Nat
      BY <1>5, <3>1
    <3>4. DeallocLimit # 0 => n < DeallocLimit
      BY <1>15, <3>2, <3>3
    <3>5. DeallocLimit # 0 => n # 0
      BY <1>4, <1>5, <3>1, <3>2 DEF Rested
    <3> QED BY <3>4, <3>5
  <2>4. ~heap'[Root].deallocated
    BY <1>4, <1>7, <1>8, <1>10, TreeFacts DEF Rested
  <2>5. Rested'
    BY <1>6, <2>3, <2>4 DEF Rested
  <2>6. Data(obj', payload', heap', Life(mem'), Store(mem'), {}, {})
    BY <1>13, <2>2, Zenon
  <2> QED BY <1>1, <2>1, <2>2, <2>5, <2>6, RestTree
<1> QED BY <1>14, <1>15

LEMMA CollectTree ==
  ASSUME Strong, Strong', Tree, Collect
  PROVE  Tree'
<1>1. pc = "run"
  BY DEF Collect, ClientRuns, Tree, TreeControl
<1>2. BeginCollect(mem) /\ UNCHANGED <<obj, payload, heap, mem, deallocCount>>
  BY DEF Collect
<1>3. Data(obj', payload', heap', Life(mem), Store(mem), {}, {})
  BY <1>1, <1>2, RunFacts
<1>4. CASE mem[RootMem].size # 0
  <2>1. mem' = mem /\ \A g \in AllHeap : heap'[g].st = heap[g].st /\ heap'[g].mem = heap[g].mem
    BY <1>2
  <2> QED BY <1>1, <1>2, <1>3, <1>4, <2>1, BeginTree
<1>5. CASE mem[RootMem].size = 0
  <2>1. UNCHANGED control
    BY <1>2, <1>5 DEF BeginCollect
  <2>2. AllTidy(mem') /\ mem'[RootMem].st = "live" /\ Life(mem') = Life(mem) /\ Store(mem') = Store(mem)
    BY <1>1, <1>2, RunFacts, TreeFacts
  <2>3. Rested'
    BY <1>1, <1>2, RunFacts DEF Rested
  <2>4. Data(obj', payload', heap', Life(mem'), Store(mem'), {}, {})
    BY <1>3, <2>2, Zenon
  <2> QED BY <1>1, <2>1, <2>2, <2>3, <2>4, RestTree
<1> QED BY <1>4, <1>5

\* The root list's Memory goes when it is empty.
LEMMA CloseTree ==
  ASSUME Strong, Tree, Data(obj, payload, heap', Life(mem), Store(mem), {}, {}),
         Typed(obj, payload, heap'),
         Stored(mem[RootMem]) = {}, obj' = obj, payload' = payload, acts' = <<>>,
         inside' = FALSE, pc' = "exited", mem' = [mem EXCEPT ![RootMem].st = "freed"],
         heap'[Root].deallocated, \A h \in Heap : heap'[h].st # "live"
  PROVE  Tree'
<1>1. PICK F, U : F = mem' /\ U = Life(mem')
  BY Zenon
<1>2. /\ \A m \in AllMem : F[m].slots = mem[m].slots /\ F[m].size = mem[m].size /\ F[m] \in Memory
      /\ \A m \in Mem : F[m].st = mem[m].st
      /\ F[RootMem].st = "freed"
  <2>1. GoodMem(mem) /\ RootMem \in AllMem
    BY TreeFacts
  <2>2. /\ \A m \in AllMem : m # RootMem => F[m] = mem[m]
        /\ F[RootMem] = [mem[RootMem] EXCEPT !.st = "freed"]
    BY <1>1, <2>1 DEF GoodMem
  <2>3. \A m \in AllMem : mem[m] \in Memory
    BY <2>1 DEF GoodMem
  <2>4. F[RootMem].slots = mem[RootMem].slots /\ F[RootMem].size = mem[RootMem].size
    BY <2>1, <2>2, <2>3 DEF Memory
  <2>5. F[RootMem] \in Memory /\ F[RootMem].st = "freed"
    <3>1. PICK M, N : M = mem[RootMem] /\ N = F[RootMem]
      BY Zenon
    <3>2. M \in Memory /\ N = [M EXCEPT !.st = "freed"]
      BY <2>1, <2>2, <2>3, <3>1
    <3>3. N \in Memory /\ N.st = "freed"
      BY <3>2 DEF Memory
    <3> QED BY <3>1, <3>3
  <2>6. \A m \in Mem : m \in AllMem /\ m # RootMem
    BY DistinctIds DEF AllMem
  <2> QED BY <2>2, <2>3, <2>4, <2>5, <2>6
<1>3. \A m \in AllMem : Stored(F[m]) = Stored(mem[m])
  BY <1>2, StoredSame
<1>4. Store(mem') = Store(mem)
  BY <1>1, <1>3 DEF Store
<1>5. \A m \in Mem : U[m] = Life(mem)[m]
  <2>1. \A m \in Mem : m \in AllMem
    BY DEF AllMem
  <2>2. \A m \in AllMem : U[m] = F[m].st
    BY <1>1 DEF Life
  <2>3. \A m \in AllMem : Life(mem)[m] = mem[m].st
    BY ViewOf
  <2> QED BY <1>2, <2>1, <2>2, <2>3
<1>6. AllTidy(mem')
  <2>0. \A m \in AllMem : Tidy(mem[m])
    BY TreeFacts
  <2>1. \A m \in AllMem : Tidy(F[m])
    BY <1>2, <2>0, StoredSame
  <2> QED BY <1>1, <2>1 DEF AllTidy
<1>7. Store(mem)[RootMem] = {}
  BY ViewOf, TreeFacts
<1>8. PICK G : G = heap'
  BY Zenon
<1>9. Data(obj, payload, G, U, Store(mem), {}, {})
  BY <1>5, <1>7, <1>8, CloseMemView
<1>10. Data(obj', payload', heap', Life(mem'), Store(mem'), {}, {})
  BY <1>1, <1>4, <1>8, <1>9, Zenon
<1>11. Binned(acts') = {} /\ Doomed(acts') = {}
  BY NothingQueued
<1>12. TreeData'
  BY <1>6, <1>10, <1>11 DEF TreeData
<1>13. TreeControl'
  BY <1>11 DEF TreeControl
<1>14. mem'[RootMem].st # "live"
  BY <1>1, <1>2
<1>15. TreePhase'
  BY <1>14 DEF TreePhase, Closed
<1> QED BY <1>12, <1>13, <1>15 DEF Tree

LEMMA ExitTree ==
  ASSUME Strong, Strong', Tree, Exit
  PROVE  Tree'
<1>1. /\ pc = "run" /\ \A o \in Obj : obj[o].st # "live"
      /\ heap' = [heap EXCEPT ![Root].deallocated = TRUE]
      /\ UNCHANGED <<obj, payload, deallocCount>>
  BY DEF Exit
<1>2. /\ Data(obj, payload, heap, Life(mem), Store(mem), {}, {}) /\ Typed(obj, payload, heap)
      /\ acts = <<>> /\ inside = FALSE
  BY <1>1, RunFacts, TreeFacts
<1>3. PICK G : G = heap'
  BY Zenon
<1>4. /\ G[Root].st = heap[Root].st /\ G[Root].mem = heap[Root].mem /\ G[Root].deallocated
      /\ \A g \in AllHeap : g # Root => G[g] = heap[g]
  <2>1. heap \in [AllHeap -> HeapT] /\ Root \in AllHeap
    BY <1>2 DEF Typed, GoodHeap, AllHeap
  <2>2. /\ G[Root] = [heap[Root] EXCEPT !.deallocated = TRUE]
        /\ \A g \in AllHeap : g # Root => G[g] = heap[g]
    BY <1>1, <1>3, <2>1
  <2> QED BY <2>1, <2>2 DEF HeapT
<1>5. \A g \in Heap : g \in AllHeap /\ g # Root
  BY DistinctIds DEF AllHeap
<1>6. Data(obj, payload, G, Life(mem), Store(mem), {}, {})
  <2>1. \A x \in Obj : obj[x].st # "live" /\ (Known(obj, x) => obj[x].heap \in Heap)
    BY <1>1, <1>2, KnownHeap
  <2>2. \A h \in Heap : G[h] = heap[h]
    BY <1>4, <1>5
  <2> QED BY <1>2, <1>4, <2>1, <2>2, CloseView
<1>7. \A g \in AllHeap : heap'[g].st = heap[g].st /\ heap'[g].mem = heap[g].mem
  BY <1>3, <1>4
<1>8. Data(obj', payload', heap', Life(mem), Store(mem), {}, {})
  BY <1>1, <1>3, <1>6
<1>9. CASE mem[RootMem].size # 0
  <2>1. BeginCollect(mem) /\ mem' = mem
    BY <1>9 DEF Exit
  <2> QED BY <1>1, <1>7, <1>8, <1>9, <2>1, BeginTree
<1>10. CASE mem[RootMem].size = 0
  <2>1. /\ pc' = "exited" /\ mem' = [mem EXCEPT ![RootMem].st = "freed"]
        /\ UNCHANGED <<inside, stack, acts>>
    BY <1>10 DEF Exit
  <2>2. Stored(mem[RootMem]) = {}
    BY <1>10, EmptyStored, TreeFacts
  <2>3. \A h \in Heap : heap[h].st # "live"
    BY <1>1, <1>10, RootNotEmpty
  <2>4. \A h \in Heap : heap'[h].st # "live"
    BY <1>5, <1>7, <2>3
  <2>5. Typed(obj, payload, heap')
    BY <1>1 DEF Typed, Strong, Inductive, GoodData
  <2>6. Data(obj, payload, heap', Life(mem), Store(mem), {}, {})
    BY <1>3, <1>6
  <2>7. acts' = <<>> /\ inside' = FALSE /\ heap'[Root].deallocated /\ obj' = obj /\ payload' = payload
    BY <1>1, <1>2, <1>3, <1>4, <2>1
  <2> QED BY <2>1, <2>2, <2>4, <2>5, <2>6, <2>7, CloseTree
<1> QED BY <1>9, <1>10

\* No call is made on an object whose heap or Memory is gone.
LEMMA LiveIsOk ==
  ASSUME Strong, Tree, NEW o \in Obj, obj[o].st = "live"
  PROVE  HeapOk(obj[o].heap) /\ ~heap[obj[o].heap].deallocated
<1>1. PICK h : h = obj[o].heap
  BY Zenon
<1>2. Known(obj, o)
  BY DEF Known
<1>3. h \in Heap /\ Used(heap, h) /\ heap[h].mem \in AllMem /\ heap[h] \in HeapT
  BY <1>1, <1>2, KnownHeap, UsedMem, TreeFacts
<1>4. /\ Ended(obj, heap) /\ HeapLives(heap, Life(mem), Doomed(acts))
  BY TreeFacts DEF Data, Owned, Reclaimed
<1>5. ~heap[h].deallocated
  BY <1>1, <1>2, <1>4 DEF Ended
<1>6. heap[h].st = "live"
  BY <1>3, <1>4, <1>5 DEF HeapLives, HeapT, Used
<1>7. mem[heap[h].mem].st = "live"
  BY <1>3, <1>4, <1>6, ViewOf DEF HeapLives
<1> QED BY <1>1, <1>5, <1>6, <1>7 DEF HeapOk

LEMMA NoClientFault ==
  ASSUME Strong, Tree
  PROVE  ~ClientFault
<1> SUFFICES ASSUME NEW o \in Obj, Accessible(o), ~HeapOk(obj[o].heap)
             PROVE  FALSE
  BY DEF ClientFault
<1>1. Scoped(obj)
  BY TreeFacts DEF Data, Owned
<1>2. obj[o].st = "live"
  BY <1>1 DEF Scoped, Accessible
<1> QED BY <1>2, LiveIsOk

LEMMA ClientTree ==
  ASSUME Strong, Strong', Tree, Uses \subseteq {"byRef"}, Client
  PROVE  Tree'
<1>1. ASSUME NEW o \in Obj, New(o) \/ ExplicitDealloc(o) \/ Destroy(o)
      PROVE  Tree'
  <2>1. ~ExplicitDealloc(o)
    BY DEF ExplicitDealloc
  <2> QED BY <1>1, <2>1, NewTree, DestroyTree
<1>2. ASSUME NEW o \in Obj, NEW s \in Obj, Copy(o, s) \/ Assign(o, s) \/ ByRef(o, s)
      PROVE  Tree'
  <2>1. ~Copy(o, s) /\ ~Assign(o, s)
    BY DEF Copy, Assign
  <2> QED BY <1>2, <2>1, ByRefTree
<1>3. ASSUME NEW o \in Obj, NEW p \in Payload \cup {Null}, PushValue(o, p)
      PROVE  Tree'
  BY <1>3, PushValueTree
<1>0. "reroot" \notin Uses
  OBVIOUS
<1>4. \A o, c \in Obj, k \in 1..MaxEntries : ~Reroot(o, k, c)
  <2> SUFFICES ASSUME NEW o \in Obj, NEW c \in Obj, NEW k \in 1..MaxEntries, Reroot(o, k, c)
               PROVE  FALSE
    OBVIOUS
  <2>1. ClientRuns /\ "reroot" \in Uses
    BY DEF Reroot
  <2> QED BY <1>0, <2>1
<1>5. \A o \in Obj, p \in Payload, k \in 1..MaxEntries : ~RerootValue(o, k, p)
  BY <1>0, Zenon DEF RerootValue
<1> QED BY <1>1, <1>2, <1>3, <1>4, <1>5, CollectTree, ExitTree, NoClientFault DEF Client

----------------------------------------------------------------------------
(* mark().                                                                 *)

\* What is stored can be dereferenced.
LEMMA StoredOk ==
  ASSUME Strong, Tree, NEW m \in AllMem, NEW j \in 1..mem[m].size, IsHeapRef(mem[m].slots[j])
  PROVE  LET h == mem[m].slots[j].ptr
         IN  /\ h \in Heap /\ h \in AllHeap /\ h \in Stored(mem[m]) /\ h \notin Binned(acts)
             /\ heap[h].st = "live" /\ heap[h].mem \in AllMem /\ heap[h].mem # RootMem
             /\ HeapOk(h)
<1>1. PICK h : h = mem[m].slots[j].ptr
  BY Zenon
<1>2. Tidy(mem[m])
  BY TreeFacts
<1>3. h \in Heap /\ h \in Stored(mem[m])
  BY <1>1, <1>2, TidyKinds
<1>4. HeapsStored(obj, heap, Store(mem), Binned(acts)) /\ HeapLives(heap, Life(mem), Doomed(acts))
  BY TreeFacts DEF Data, Placed, Reclaimed
<1>5. h \in Store(mem)[m]
  BY <1>3, ViewOf
<1>6. heap[h].st = "live" /\ h \notin Binned(acts)
  BY <1>3, <1>4, <1>5 DEF HeapsStored
<1>7. heap[h].mem \in AllMem /\ heap[h].mem # RootMem /\ h \in AllHeap
  BY <1>3, <1>6, UsedMem, TreeFacts DEF Used
<1>8. mem[heap[h].mem].st = "live"
  BY <1>3, <1>4, <1>6, <1>7, ViewOf DEF HeapLives
<1> QED BY <1>1, <1>3, <1>6, <1>7, <1>8 DEF HeapOk

\* A step of mark() or do_sweep() that moves no entry.
LEMMA ScanTree ==
  ASSUME Strong, Strong', Tree, pc \in {"mark", "sweep"}, pc' \in {"mark", "sweep"},
         pc' = "mark" => pc = "mark",
         UNCHANGED <<obj, payload, heap, inside, acts>>,
         \A m \in AllMem : /\ mem'[m].st = mem[m].st
                           /\ mem'[m].slots = mem[m].slots /\ mem'[m].size = mem[m].size,
         pc' = "mark" => Marked(heap, mem', stack'),
         pc' = "sweep" => Swept(heap, mem', stack')
  PROVE  Tree'
<1>1. GoodMem(mem')
  BY DEF Strong, Inductive, GoodData
<1>2. TreeData'
  BY <1>1, SameView
<1>3. TreeControl /\ RootMem \in AllMem
  BY DEF Tree, AllMem
<1>4. acts' = acts /\ inside' = inside /\ mem'[RootMem].st = mem[RootMem].st
  BY <1>3
<1>5. TreeControl'
  BY <1>3, <1>4 DEF TreeControl
<1>6. heap' = heap
  OBVIOUS
<1>7. TreePhase'
  BY <1>6 DEF TreePhase
<1> QED BY <1>2, <1>5, <1>7 DEF Tree

\* Each activation of mark() has a heap that is there, and each heap is painted once.
LEMMA MarkStack ==
  ASSUME Strong, Tree, pc = "mark"
  PROVE  /\ stack \in Seq(FrameT) /\ Len(stack) \in Nat /\ Marked(heap, mem, stack)
         /\ \A k \in 1..Len(stack) :
              /\ stack[k].ph \in {"enter", "scan"} /\ stack[k].h \in AllHeap /\ stack[k].i \in Nat
              /\ HeapOk(stack[k].h) /\ heap[stack[k].h].mem \in AllMem
<1>1. /\ stack \in Seq(FrameT) /\ Len(stack) \in Nat /\ Marking(heap, mem, stack, Condemned)
      /\ \A k \in 1..Len(stack) :
           /\ stack[k].ph \in {"enter", "scan"}
           /\ stack[k].ph = "scan" => MemAt(heap, stack, k) \in AllMem
  BY MarkingFacts DEF Strong
<1>2. Marked(heap, mem, stack)
  BY DEF Tree, TreePhase
<1>3. \A k \in 1..Len(stack) : stack[k].h \in AllHeap /\ stack[k].i \in Nat
  <2>1. \A k \in 1..Len(stack) : stack[k] \in FrameT
    BY <1>1
  <2> QED BY <2>1 DEF FrameT
<1>4. ASSUME NEW k \in 1..Len(stack)
      PROVE  HeapOk(stack[k].h) /\ heap[stack[k].h].mem \in AllMem
  <2>1. CASE k = 1
    <3>1. stack # <<>>
      BY <1>1
    <3>2. stack[k].h = Root
      BY <1>1, <2>1, <3>1 DEF Marking
    <3>3. mem[RootMem].st = "live"
      BY DEF Tree, TreeControl
    <3>4. heap[Root].mem = RootMem /\ heap[Root].st = "live" /\ RootMem \in AllMem
      BY TreeFacts
    <3> QED BY <3>2, <3>3, <3>4 DEF HeapOk
  <2>2. CASE k # 1
    <3>1. PICK i : i = k - 1
      OBVIOUS
    <3>2. i \in 1..Len(stack) - 1 /\ i \in 1..Len(stack) /\ i + 1 = k
      BY <1>1, <2>2, <3>1
    <3>3. Called(mem, heap, stack, i)
      BY <1>1, <3>2 DEF Marking
    <3>4. PICK m, j : m = MemAt(heap, stack, i) /\ j = stack[i].i - 1
      BY Zenon
    <3>5. stack[i].ph = "scan" /\ j \in 1..mem[m].size /\ IsHeapRef(mem[m].slots[j])
      BY <3>3, <3>4 DEF Called
    <3>6. m \in AllMem
      BY <1>1, <3>2, <3>4, <3>5
    <3>7. mem[m].slots[j].ptr = stack[k].h
      BY <3>2, <3>3, <3>4 DEF Called
    <3> QED BY <3>5, <3>6, <3>7, StoredOk
  <2> QED BY <2>1, <2>2
<1> QED BY <1>1, <1>2, <1>3, <1>4

\* Heaps that share a Memory are one.
LEMMA OneMem ==
  ASSUME Strong, Tree, NEW g \in AllHeap, NEW h \in AllHeap,
         heap[g].st # "unused", heap[h].st # "unused", heap[g].mem = heap[h].mem
  PROVE  g = h
<1>1. OneHeap(heap)
  BY TreeFacts DEF Data, Owned
<1> QED BY <1>1 DEF OneHeap, Used

\* The heaps that a live one refers to are live.
LEMMA ChildLive ==
  ASSUME Strong, Tree
  PROVE  /\ \A g \in AllHeap : heap[g].st = "live" => heap[g].mem \in AllMem
         /\ \A g \in AllHeap : \A j :
           heap[g].st = "live" /\ j \in 1..mem[heap[g].mem].size /\ Child(heap, mem, g, j) \in Heap =>
           heap[Child(heap, mem, g, j)].st = "live" /\ Child(heap, mem, g, j) \in AllHeap
<1>1. \A g \in AllHeap : heap[g].st = "live" => heap[g].mem \in AllMem
  BY HeapHasMem, TreeFacts DEF Typed
<1>2. ASSUME NEW g \in AllHeap, NEW j, heap[g].st = "live", j \in 1..mem[heap[g].mem].size,
             Child(heap, mem, g, j) \in Heap
      PROVE  heap[Child(heap, mem, g, j)].st = "live" /\ Child(heap, mem, g, j) \in AllHeap
  <2>1. PICK x : x = heap[g].mem
    BY Zenon
  <2>2. x \in AllMem /\ j \in 1..mem[x].size /\ mem[x].slots[j].ptr \in Heap
    BY <1>1, <1>2, <2>1 DEF Child
  <2>3. IsHeapRef(mem[x].slots[j])
    BY <2>2, TidyKinds, TreeFacts
  <2> QED BY <2>1, <2>2, <2>3, StoredOk DEF Child
<1> QED BY <1>1, <1>2

LEMMA MarkEnterTree ==
  ASSUME Strong, Strong', Tree, MarkEnter
  PROVE  Tree'
<1>1. /\ pc = "mark" /\ pc' = pc /\ stack # <<>> /\ Top.ph = "enter"
      /\ UNCHANGED <<obj, payload, heap, deallocCount, inside, acts>>
  BY DEF MarkEnter, AtFrame
<1>2. PICK n, t, m : n = Len(stack) /\ t = Top.h /\ m = TopMem
  BY Zenon
<1>3. /\ stack \in Seq(FrameT) /\ n \in Nat /\ n >= 1 /\ n \in 1..n /\ stack[n].h = t /\ stack[n].ph = "enter"
      /\ t \in AllHeap /\ m = heap[t].mem /\ m \in AllMem /\ heap[t].st = "live"
      /\ Marked(heap, mem, stack)
  <2>1. /\ stack \in Seq(FrameT) /\ Marked(heap, mem, stack)
        /\ \A k \in 1..Len(stack) : HeapOk(stack[k].h) /\ heap[stack[k].h].mem \in AllMem
    BY <1>1, MarkStack
  <2>2. Len(stack) \in Nat /\ Len(stack) >= 1 /\ Top = stack[Len(stack)] /\ Top.h \in AllHeap
    BY <1>1, <2>1, TopFacts
  <2>3. n \in Nat /\ n >= 1 /\ n \in 1..n /\ Top = stack[n]
    BY <1>2, <2>2
  <2>4. HeapOk(t) /\ heap[t].mem \in AllMem
    BY <1>2, <2>1, <2>3
  <2> QED BY <1>1, <1>2, <2>1, <2>2, <2>3, <2>4 DEF TopMem, HeapOk
<1>4. \A k \in 1..n : k # n => k \in 1..n - 1
  BY <1>3
<1>5. mem \in [AllMem -> Memory] /\ mem[m] \in Memory
  BY <1>3, TreeFacts DEF GoodMem
<1>6. /\ \A g \in AllHeap : heap[g].st = "live" =>
           Shade(heap, mem, g) = "GRAY" \/ (Shade(heap, mem, g) = "WHITE" <=> heap[g].deallocated)
      /\ Shade(heap, mem, Root) = "GRAY" => stack = <<Frame(Root)>>
      /\ \A g \in AllHeap : heap[g].st = "live" /\ Shade(heap, mem, g) # "GRAY" =>
           \A j \in 1..mem[heap[g].mem].size : Child(heap, mem, g, j) \in Heap =>
             \/ Shade(heap, mem, Child(heap, mem, g, j)) # "GRAY"
             \/ Child(heap, mem, g, j) = t
             \/ \E k \in 1..n - 1 : stack[k].ph = "scan" /\ stack[k].h = g /\ stack[k].i <= j
  <2>1. \A g \in AllHeap : heap[g].st = "live" /\ Shade(heap, mem, g) # "GRAY" =>
           \A j \in 1..mem[heap[g].mem].size : Child(heap, mem, g, j) \in Heap =>
             \/ Shade(heap, mem, Child(heap, mem, g, j)) # "GRAY"
             \/ stack # <<>> /\ stack[n].ph = "enter" /\ stack[n].h = Child(heap, mem, g, j)
             \/ \E k \in 1..n : stack[k].ph = "scan" /\ stack[k].h = g /\ stack[k].i <= j
    BY <1>2, <1>3 DEF Marked
  <2>2. \A k \in 1..n : stack[k].ph = "scan" => k \in 1..n - 1
    BY <1>3, <1>4
  <2>3. \A g \in AllHeap : heap[g].st = "live" /\ Shade(heap, mem, g) # "GRAY" =>
           \A j \in 1..mem[heap[g].mem].size : Child(heap, mem, g, j) \in Heap =>
             \/ Shade(heap, mem, Child(heap, mem, g, j)) # "GRAY"
             \/ Child(heap, mem, g, j) = t
             \/ \E k \in 1..n - 1 : stack[k].ph = "scan" /\ stack[k].h = g /\ stack[k].i <= j
    BY <1>3, <2>1, <2>2
  <2> QED BY <1>3, <2>3 DEF Marked
<1>7. Shade(heap, mem, t) # "GRAY" => Shade(heap, mem, Root) # "GRAY"
  <2>1. Shade(heap, mem, Root) = "GRAY" => t = Root
    <3>1. stack = <<Frame(Root)>> => n = 1 /\ stack[1].h = Root
      BY <1>2 DEF Frame
    <3> QED BY <1>3, <1>6, <3>1
  <2> QED BY <2>1
<1>8. PICK F, s : F = mem' /\ s = stack'
  BY Zenon
<1>9. CASE mem[m].color # "GRAY"
  <2>1. /\ F = [mem EXCEPT ![m].keep = FALSE] /\ s = Pop
    BY <1>2, <1>8, <1>9 DEF MarkEnter
  <2>2. \A x \in AllMem : /\ F[x].st = mem[x].st /\ F[x].slots = mem[x].slots
                          /\ F[x].size = mem[x].size /\ F[x].color = mem[x].color
    <3>1. F[m] = [mem[m] EXCEPT !.keep = FALSE] /\ \A x \in AllMem : x # m => F[x] = mem[x]
      BY <1>3, <1>5, <2>1
    <3>2. /\ F[m].st = mem[m].st /\ F[m].slots = mem[m].slots
          /\ F[m].size = mem[m].size /\ F[m].color = mem[m].color
      BY <1>5, <3>1 DEF Memory
    <3> QED BY <3>1, <3>2
  <2>3. Len(s) = n - 1 /\ \A k \in 1..n - 1 : s[k] = stack[k]
    BY <1>1, <1>2, <1>3, <2>1, PopFacts
  <2>4. \A g \in AllHeap : heap[g].st = "live" => heap[g].mem \in AllMem
    BY ChildLive
  <2>5. \A h \in Heap : h \in AllHeap
    BY DEF AllHeap
  <2>6. \A g \in AllHeap : heap[g].st = "live" =>
          /\ Shade(heap, F, g) = Shade(heap, mem, g)
          /\ F[heap[g].mem].size = mem[heap[g].mem].size
          /\ \A j : Child(heap, F, g, j) = Child(heap, mem, g, j)
    BY <2>2, <2>4 DEF Shade, Child
  <2>7. Shade(heap, mem, t) # "GRAY" /\ Shade(heap, mem, Root) # "GRAY"
    BY <1>3, <1>7, <1>9 DEF Shade
  <2>8. \A g \in AllHeap : \A j : heap[g].st = "live" /\ j \in 1..mem[heap[g].mem].size
                                     /\ Child(heap, mem, g, j) \in Heap => heap[Child(heap, mem, g, j)].st = "live"
    BY ChildLive
  <2>9. Marked(heap, F, s)
    <3>1. \A g \in AllHeap : heap[g].st = "live" =>
            Shade(heap, F, g) = "GRAY" \/ (Shade(heap, F, g) = "WHITE" <=> heap[g].deallocated)
      BY <1>6, <2>6
    <3>2. Shade(heap, F, Root) # "GRAY"
      BY <2>6, <2>7, TreeFacts
    <3> SUFFICES ASSUME NEW g \in AllHeap, heap[g].st = "live", Shade(heap, F, g) # "GRAY",
                        NEW j \in 1..F[heap[g].mem].size, Child(heap, F, g, j) \in Heap
                 PROVE  \/ Shade(heap, F, Child(heap, F, g, j)) # "GRAY"
                        \/ \E k \in 1..Len(s) : s[k].ph = "scan" /\ s[k].h = g /\ s[k].i <= j
      BY <3>1, <3>2 DEF Marked
    <3>3. PICK c : c = Child(heap, mem, g, j)
      BY Zenon
    <3>4. /\ Child(heap, F, g, j) = c /\ j \in 1..mem[heap[g].mem].size /\ c \in Heap
          /\ Shade(heap, mem, g) # "GRAY"
      BY <2>6, <3>3
    <3>5. Shade(heap, F, c) = Shade(heap, mem, c)
      BY <2>5, <2>6, <2>8, <3>3, <3>4
    <3>6. CASE Shade(heap, mem, c) # "GRAY"
      BY <3>4, <3>5, <3>6
    <3>7. CASE \E k \in 1..n - 1 : stack[k].ph = "scan" /\ stack[k].h = g /\ stack[k].i <= j
      BY <2>3, <3>7
    <3> QED BY <1>6, <2>7, <3>3, <3>4, <3>6, <3>7
  <2> QED BY <1>1, <1>8, <2>2, <2>9, ScanTree
<1>10. CASE mem[m].color = "GRAY"
  <2>1. /\ F = [mem EXCEPT ![m].keep = FALSE, ![m].color = MarkColor(t)] /\ s = Goto("scan", 1)
    BY <1>2, <1>8, <1>10 DEF MarkEnter
  <2>2. /\ \A x \in AllMem : F[x].st = mem[x].st /\ F[x].slots = mem[x].slots /\ F[x].size = mem[x].size
        /\ F[m].color = MarkColor(t) /\ \A x \in AllMem : x # m => F[x].color = mem[x].color
    <3>1. /\ F[m] = [[mem[m] EXCEPT !.keep = FALSE] EXCEPT !.color = MarkColor(t)]
          /\ \A x \in AllMem : x # m => F[x] = mem[x]
      BY <1>3, <1>5, <2>1
    <3>2. /\ F[m].st = mem[m].st /\ F[m].slots = mem[m].slots
          /\ F[m].size = mem[m].size /\ F[m].color = MarkColor(t)
      BY <1>5, <3>1 DEF Memory
    <3> QED BY <3>1, <3>2
  <2>3. /\ Len(s) = n /\ \A k \in 1..n - 1 : s[k] = stack[k]
        /\ s[n].h = t /\ s[n].ph = "scan" /\ s[n].i = 1
    <3>1. Len(s) = n /\ (\A k \in 1..n - 1 : s[k] = stack[k]) /\ s[n] = [h |-> t, ph |-> "scan", i |-> 1]
      <4>1. /\ Len(Goto("scan", 1)) = Len(stack)
            /\ \A k \in 1..Len(stack) - 1 : Goto("scan", 1)[k] = stack[k]
            /\ Goto("scan", 1)[Len(stack)] = [h |-> Top.h, ph |-> "scan", i |-> 1]
        BY <1>1, <1>3, GotoFacts
      <4> QED BY <1>2, <2>1, <4>1
    <3> QED BY <3>1
  <2>4. \A g \in AllHeap : heap[g].st = "live" => heap[g].mem \in AllMem
    BY ChildLive
  <2>5. \A h \in Heap : h \in AllHeap
    BY DEF AllHeap
  <2>6. \A g \in AllHeap : heap[g].st = "live" =>
          /\ g # t => heap[g].mem # m /\ Shade(heap, F, g) = Shade(heap, mem, g)
          /\ F[heap[g].mem].size = mem[heap[g].mem].size
          /\ \A j : Child(heap, F, g, j) = Child(heap, mem, g, j)
    <3>1. \A g \in AllHeap : heap[g].st = "live" /\ g # t => heap[g].mem # m
      BY <1>3, OneMem
    <3> QED BY <2>2, <2>4, <3>1 DEF Shade, Child
  <2>7. Shade(heap, F, t) = MarkColor(t) /\ Shade(heap, F, t) # "GRAY"
        /\ (Shade(heap, F, t) = "WHITE" <=> heap[t].deallocated)
    BY <1>3, <2>2 DEF Shade, MarkColor
  <2>8. \A g \in AllHeap : heap[g].st = "live" /\ Shade(heap, mem, g) # "GRAY" => Shade(heap, F, g) # "GRAY"
    BY <2>6, <2>7
  <2>9. \A g \in AllHeap : \A j : heap[g].st = "live" /\ j \in 1..mem[heap[g].mem].size
                                     /\ Child(heap, mem, g, j) \in Heap => heap[Child(heap, mem, g, j)].st = "live"
    BY ChildLive
  <2>10. Marked(heap, F, s)
    <3>1. \A g \in AllHeap : heap[g].st = "live" =>
            Shade(heap, F, g) = "GRAY" \/ (Shade(heap, F, g) = "WHITE" <=> heap[g].deallocated)
      BY <1>6, <2>6, <2>7
    <3>2. Shade(heap, F, Root) # "GRAY"
      <4>1. Shade(heap, mem, Root) = "GRAY" => t = Root
        <5>1. stack = <<Frame(Root)>> => n = 1 /\ stack[1].h = Root
          BY <1>2 DEF Frame
        <5> QED BY <1>3, <1>6, <5>1
      <4> QED BY <2>7, <2>8, <4>1, TreeFacts
    <3> SUFFICES ASSUME NEW g \in AllHeap, heap[g].st = "live", Shade(heap, F, g) # "GRAY",
                        NEW j \in 1..F[heap[g].mem].size, Child(heap, F, g, j) \in Heap
                 PROVE  \/ Shade(heap, F, Child(heap, F, g, j)) # "GRAY"
                        \/ \E k \in 1..Len(s) : s[k].ph = "scan" /\ s[k].h = g /\ s[k].i <= j
      BY <3>1, <3>2 DEF Marked
    <3>3. PICK c : c = Child(heap, mem, g, j)
      BY Zenon
    <3>4. /\ Child(heap, F, g, j) = c /\ j \in 1..mem[heap[g].mem].size /\ c \in Heap
      BY <2>6, <3>3
    <3>5. c \in AllHeap /\ heap[c].st = "live"
      BY <2>5, <2>9, <3>3, <3>4
    <3>6. CASE g = t
      <4>1. j >= 1 /\ n \in 1..Len(s)
        BY <1>3, <2>3
      <4> QED BY <2>3, <3>6, <4>1
    <3>7. CASE g # t
      <4>1. Shade(heap, mem, g) # "GRAY"
        BY <2>6, <3>7
      <4>2. \/ Shade(heap, mem, c) # "GRAY" \/ c = t
            \/ \E k \in 1..n - 1 : stack[k].ph = "scan" /\ stack[k].h = g /\ stack[k].i <= j
        BY <1>6, <3>3, <3>4, <4>1
      <4>3. Shade(heap, mem, c) # "GRAY" \/ c = t => Shade(heap, F, c) # "GRAY"
        BY <2>7, <2>8, <3>5
      <4>4. \A k \in 1..n - 1 : k \in 1..Len(s)
        BY <1>3, <2>3
      <4> QED BY <2>3, <3>4, <4>2, <4>3, <4>4
    <3> QED BY <3>6, <3>7
  <2> QED BY <1>1, <1>8, <2>2, <2>10, ScanTree
<1> QED BY <1>9, <1>10

LEMMA MarkScanTree ==
  ASSUME Strong, Strong', Tree, MarkScan
  PROVE  Tree'
<1>1. /\ pc = "mark" /\ pc' = pc /\ stack # <<>> /\ Top.ph = "scan"
      /\ UNCHANGED <<obj, payload, heap, mem, deallocCount, inside, acts>>
  BY DEF MarkScan, AtFrame
<1>2. PICK n, t, m, i : n = Len(stack) /\ t = Top.h /\ m = TopMem /\ i = Top.i
  BY Zenon
<1>3. /\ stack \in Seq(FrameT) /\ n \in Nat /\ n >= 1 /\ n \in 1..n
      /\ stack[n].h = t /\ stack[n].ph = "scan" /\ stack[n].i = i /\ i \in Nat
      /\ t \in AllHeap /\ m = heap[t].mem /\ m \in AllMem /\ heap[t].st = "live"
      /\ Marked(heap, mem, stack)
  <2>1. /\ stack \in Seq(FrameT) /\ Marked(heap, mem, stack)
        /\ \A k \in 1..Len(stack) : HeapOk(stack[k].h) /\ heap[stack[k].h].mem \in AllMem
    BY <1>1, MarkStack
  <2>2. Len(stack) \in Nat /\ Len(stack) >= 1 /\ Top = stack[Len(stack)] /\ Top.h \in AllHeap /\ Top.i \in Nat
    BY <1>1, <2>1, TopFacts
  <2>3. n \in Nat /\ n >= 1 /\ n \in 1..n /\ Top = stack[n]
    BY <1>2, <2>2
  <2>4. HeapOk(t) /\ heap[t].mem \in AllMem
    BY <1>2, <2>1, <2>3
  <2> QED BY <1>1, <1>2, <2>1, <2>2, <2>3, <2>4 DEF TopMem, HeapOk
<1>4. mem[m].size \in Nat /\ Tidy(mem[m])
  BY <1>3, SizedFacts, TreeFacts
<1>5. PICK e : e = mem[m].slots[i]
  BY Zenon
<1>6. stack' = IF i > mem[m].size THEN Pop
               ELSE IF IsHeapRef(e) THEN Append(Goto("scan", i + 1), Frame(e.ptr))
               ELSE Goto("scan", i + 1)
  BY <1>2, <1>5, Zenon DEF MarkScan
<1>7. PICK s : s = stack'
  BY Zenon
\* What is left to activation n - 1 and before stays as it is, and activation n
\* has one entry less.
<1>8. SUFFICES /\ \A k \in 1..n - 1 : k \in 1..Len(s) /\ s[k] = stack[k]
               /\ \A j \in 1..mem[m].size : i <= j /\ Child(heap, mem, t, j) \in Heap =>
                    \/ s # <<>> /\ s[Len(s)].ph = "enter" /\ s[Len(s)].h = Child(heap, mem, t, j)
                    \/ \E k \in 1..Len(s) : s[k].ph = "scan" /\ s[k].h = t /\ s[k].i <= j
  <2>1. /\ \A g \in AllHeap : heap[g].st = "live" =>
             Shade(heap, mem, g) = "GRAY" \/ (Shade(heap, mem, g) = "WHITE" <=> heap[g].deallocated)
        /\ Shade(heap, mem, Root) = "GRAY" => stack = <<Frame(Root)>>
        /\ \A g \in AllHeap : heap[g].st = "live" /\ Shade(heap, mem, g) # "GRAY" =>
             \A j \in 1..mem[heap[g].mem].size : Child(heap, mem, g, j) \in Heap =>
               \/ Shade(heap, mem, Child(heap, mem, g, j)) # "GRAY"
               \/ stack # <<>> /\ stack[n].ph = "enter" /\ stack[n].h = Child(heap, mem, g, j)
               \/ \E k \in 1..n : stack[k].ph = "scan" /\ stack[k].h = g /\ stack[k].i <= j
    BY <1>2, <1>3 DEF Marked
  <2>2. Shade(heap, mem, Root) # "GRAY"
    <3>1. stack = <<Frame(Root)>> => n = 1 /\ stack[1].ph = "enter"
      BY <1>2 DEF Frame
    <3> QED BY <1>3, <2>1, <3>1
  <2>3. ASSUME NEW g \in AllHeap, heap[g].st = "live", Shade(heap, mem, g) # "GRAY",
               NEW j \in 1..mem[heap[g].mem].size, Child(heap, mem, g, j) \in Heap,
               Shade(heap, mem, Child(heap, mem, g, j)) = "GRAY"
        PROVE  \/ s # <<>> /\ s[Len(s)].ph = "enter" /\ s[Len(s)].h = Child(heap, mem, g, j)
               \/ \E k \in 1..Len(s) : s[k].ph = "scan" /\ s[k].h = g /\ s[k].i <= j
    <3>1. PICK k \in 1..n : stack[k].ph = "scan" /\ stack[k].h = g /\ stack[k].i <= j
      BY <1>3, <2>1, <2>3
    <3>2. CASE k = n
      BY <1>3, <1>8, <2>3, <3>1, <3>2
    <3>3. CASE k # n
      <4>1. k \in 1..n - 1
        BY <1>3, <3>3
      <4> QED BY <1>8, <3>1, <4>1
    <3> QED BY <3>2, <3>3
  <2>4. Marked(heap, mem, s)
    BY <2>1, <2>2, <2>3 DEF Marked
  <2>5. Marked(heap, mem', stack')
    BY <1>1, <1>7, <2>4
  <2>6. \A x \in AllMem : /\ mem'[x].st = mem[x].st
                          /\ mem'[x].slots = mem[x].slots /\ mem'[x].size = mem[x].size
    BY <1>1
  <2> QED BY <1>1, <2>5, <2>6, ScanTree
<1>9. CASE i > mem[m].size
  <2>1. Len(s) = n - 1 /\ \A k \in 1..n - 1 : s[k] = stack[k]
    BY <1>1, <1>2, <1>3, <1>6, <1>7, <1>9, PopFacts
  <2>2. \A j \in 1..mem[m].size : ~(i <= j)
    BY <1>3, <1>4, <1>9
  <2> QED BY <2>1, <2>2
<1>10. CASE ~(i > mem[m].size) /\ IsHeapRef(e)
  <2>1. i \in 1..mem[m].size
    <3>1. i >= 1
      <4>1. MarkFrames
        BY DEF Strong, Inductive
      <4> QED BY <1>1, <1>2, <1>3, <4>1 DEF MarkFrames
    <3> QED BY <1>3, <1>4, <1>10, <3>1
  <2>2. e.ptr \in AllHeap
    BY <1>3, <1>5, <1>10, <2>1, StoredOk
  <2>3. i + 1 \in Nat /\ s = Append(Goto("scan", i + 1), Frame(e.ptr))
    BY <1>3, <1>6, <1>7, <1>10
  <2>4. /\ Len(s) = n + 1 /\ \A k \in 1..n - 1 : s[k] = stack[k]
        /\ s[n] = [h |-> t, ph |-> "scan", i |-> i + 1] /\ s[n + 1] = Frame(e.ptr)
    BY <1>1, <1>2, <1>3, <2>2, <2>3, CallFacts
  <2>5. /\ s[n].h = t /\ s[n].ph = "scan" /\ s[n].i = i + 1
        /\ s[n + 1].ph = "enter" /\ s[n + 1].h = e.ptr /\ s # <<>> /\ n \in 1..Len(s)
    BY <1>3, <2>4 DEF Frame
  <2>6. Child(heap, mem, t, i) = e.ptr
    BY <1>3, <1>5 DEF Child
  <2>7. ASSUME NEW j \in 1..mem[m].size, i <= j, Child(heap, mem, t, j) \in Heap
        PROVE  \/ s # <<>> /\ s[Len(s)].ph = "enter" /\ s[Len(s)].h = Child(heap, mem, t, j)
               \/ \E k \in 1..Len(s) : s[k].ph = "scan" /\ s[k].h = t /\ s[k].i <= j
    <3>1. CASE j = i
      BY <2>4, <2>5, <2>6, <3>1
    <3>2. CASE j # i
      <4>1. i + 1 <= j
        BY <1>3, <1>4, <2>7, <3>2
      <4> QED BY <2>5, <4>1
    <3> QED BY <3>1, <3>2
  <2>8. \A k \in 1..n - 1 : k \in 1..Len(s)
    BY <1>3, <2>4
  <2> QED BY <2>4, <2>7, <2>8
<1>11. CASE ~(i > mem[m].size) /\ ~IsHeapRef(e)
  <2>1. s = Goto("scan", i + 1) /\ i + 1 \in Nat
    BY <1>3, <1>6, <1>7, <1>11
  <2>2. /\ Len(s) = n /\ \A k \in 1..n - 1 : s[k] = stack[k]
        /\ s[n] = [h |-> t, ph |-> "scan", i |-> i + 1]
    BY <1>1, <1>2, <1>3, <2>1, GotoFacts
  <2>3. s[n].h = t /\ s[n].ph = "scan" /\ s[n].i = i + 1 /\ n \in 1..Len(s)
    BY <1>3, <2>2
  <2>4. Child(heap, mem, t, i) = e.ptr
    BY <1>3, <1>5 DEF Child
  <2>5. ASSUME NEW j \in 1..mem[m].size, i <= j, Child(heap, mem, t, j) \in Heap
        PROVE  \E k \in 1..Len(s) : s[k].ph = "scan" /\ s[k].h = t /\ s[k].i <= j
    <3>1. j # i
      <4>1. CASE j = i
        <5>1. mem[m].slots[j].ptr \in Heap
          BY <1>5, <2>4, <2>5, <4>1
        <5>2. IsHeapRef(mem[m].slots[j])
          BY <1>4, <5>1, TidyKinds
        <5> QED BY <1>5, <1>11, <4>1, <5>2
      <4> QED BY <4>1
    <3>2. i + 1 <= j
      BY <1>3, <1>4, <2>5, <3>1
    <3> QED BY <2>3, <3>2
  <2>6. \A k \in 1..n - 1 : k \in 1..Len(s)
    BY <1>3, <2>2
  <2> QED BY <2>2, <2>5, <2>6
<1> QED BY <1>9, <1>10, <1>11

\* mark() has painted every heap: what it had not would be referred to by the root
\* list or by a heap that it has.
LEMMA MarkDoneTree ==
  ASSUME Strong, Strong', Tree, MarkDone
  PROVE  Tree'
<1> DEFINE W == {h \in Heap : heap[h].st = "live" /\ Shade(heap, mem, h) = "GRAY"}
<1>1. /\ pc = "mark" /\ stack = <<>> /\ pc' = "sweep" /\ stack' = <<Frame(Root)>>
      /\ UNCHANGED <<obj, payload, heap, mem, deallocCount, inside, acts>>
  BY DEF MarkDone
<1>2. /\ \A g \in AllHeap : heap[g].st = "live" =>
           Shade(heap, mem, g) = "GRAY" \/ (Shade(heap, mem, g) = "WHITE" <=> heap[g].deallocated)
      /\ Shade(heap, mem, Root) # "GRAY"
      /\ \A g \in AllHeap : heap[g].st = "live" /\ Shade(heap, mem, g) # "GRAY" =>
           \A j \in 1..mem[heap[g].mem].size : Child(heap, mem, g, j) \in Heap =>
             Shade(heap, mem, Child(heap, mem, g, j)) # "GRAY"
  <2>1. Marked(heap, mem, stack)
    BY <1>1 DEF Tree, TreePhase
  <2>2. stack # <<Frame(Root)>> /\ Len(stack) = 0
    BY <1>1
  <2>3. 1..Len(stack) = {}
    BY <2>2
  <2> QED BY <1>1, <2>1, <2>2, <2>3 DEF Marked
<1>3. \A g \in AllHeap : heap[g].st = "live" /\ Shade(heap, mem, g) # "GRAY" =>
        \A h \in Heap : h \in Store(mem)[heap[g].mem] => Shade(heap, mem, h) # "GRAY"
  <2> SUFFICES ASSUME NEW g \in AllHeap, heap[g].st = "live", Shade(heap, mem, g) # "GRAY",
                      NEW h \in Heap, h \in Store(mem)[heap[g].mem]
               PROVE  Shade(heap, mem, h) # "GRAY"
    OBVIOUS
  <2>1. PICK m : m = heap[g].mem
    BY Zenon
  <2>2. m \in AllMem
    BY <2>1, ChildLive
  <2>3. h \in Stored(mem[m])
    BY <2>1, <2>2, ViewOf
  <2>4. PICK j \in 1..mem[m].size : mem[m].slots[j].ptr = h
    BY <2>3 DEF Stored
  <2>5. Child(heap, mem, g, j) = h
    BY <2>1, <2>4 DEF Child
  <2> QED BY <1>2, <2>1, <2>4, <2>5
<1>4. W = {}
  <2> SUFFICES ASSUME W # {} PROVE FALSE
    OBVIOUS
  <2>1. W \subseteq Heap /\ \A h \in W : heap[h].st = "live"
    OBVIOUS
  <2>2. \A h \in W : Shade(heap, mem, h) = "GRAY"
    OBVIOUS
  <2>3. \A g \in Heap : heap[g].st = "live" /\ g \notin W => g \in AllHeap /\ Shade(heap, mem, g) # "GRAY"
    BY DEF AllHeap
  <2> HIDE DEF W
  <2>4. Typed(obj, payload, heap) /\ Data(obj, payload, heap, Life(mem), Store(mem), {}, {})
    <3>1. Binned(acts) = {} /\ Doomed(acts) = {}
      BY <1>1 DEF Tree, TreeControl
    <3> QED BY <3>1, TreeFacts
  <2>5. PICK h \in W : \/ h \in Store(mem)[RootMem]
                       \/ \E g \in Heap : g \notin W /\ heap[g].st = "live" /\ h \in Store(mem)[heap[g].mem]
    BY <2>1, <2>4, Reached
  <2>6. Root \in AllHeap /\ heap[Root].st = "live" /\ heap[Root].mem = RootMem
    BY TreeFacts
  <2>7. h \in Heap /\ Shade(heap, mem, h) = "GRAY"
    BY <2>1, <2>2
  <2> QED BY <1>2, <1>3, <2>3, <2>5, <2>6, <2>7
<1>5. \A g \in AllHeap : heap[g].st = "live" => Shade(heap, mem, g) # "GRAY"
  BY <1>2, <1>4 DEF AllHeap
<1>6. Swept(heap, mem, <<Frame(Root)>>)
  <2>1. PICK s : s = <<Frame(Root)>>
    BY Zenon
  <2>2. Len(s) = 1 /\ s[1].ph = "enter" /\ s # <<>>
    BY <2>1 DEF Frame
  <2>3. Swept(heap, mem, s)
    BY <1>2, <1>5, <2>2 DEF Swept
  <2> QED BY <2>1, <2>3
<1>7. Swept(heap, mem', stack')
  BY <1>1, <1>6
<1>8. \A m \in AllMem : /\ mem'[m].st = mem[m].st
                        /\ mem'[m].slots = mem[m].slots /\ mem'[m].size = mem[m].size
  BY <1>1
<1> QED BY <1>1, <1>7, <1>8, ScanTree

----------------------------------------------------------------------------
(* do_sweep().                                                             *)

\* The activation's queues receive an item and a Memory that they do not have.
Added(A, B, a, b, q, m) ==
  /\ A # <<>> /\ B # <<>> /\ a = A[1] /\ b = B[1]
  /\ Once(a) /\ a.list \in Seq(Item) /\ a.mlist \in Seq(Mem)
  /\ q.ptr \in Heap \cup Payload /\ q.ptr \notin Binned(A) /\ b.list = Append(a.list, q)
  /\ b.mlist = a.mlist \/ (b.mlist = Append(a.mlist, m) /\ m \notin Queued(a))

LEMMA BinOne ==
  ASSUME NEW A, NEW B, NEW a, NEW b, NEW q, NEW m, Added(A, B, a, b, q, m)
  PROVE  Binned(B) = Binned(A) \cup {q.ptr} /\ Once(b)
<1> USE DEF Added
<1>1. /\ Len(b.list) = Len(a.list) + 1 /\ Len(a.list) \in Nat /\ b.list[Len(a.list) + 1] = q
      /\ \A j \in 1..Len(a.list) : b.list[j] = a.list[j]
  <2>1. PICK s, t : s = a.list /\ t = b.list
    BY Zenon
  <2>2. s \in Seq(Item) /\ t = Append(s, q)
    BY <2>1
  <2>3. /\ Len(t) = Len(s) + 1 /\ Len(s) \in Nat /\ t[Len(s) + 1] = q
        /\ \A j \in 1..Len(s) : t[j] = s[j]
    BY <2>2
  <2> QED BY <2>1, <2>3
<1>2. PICK n : n = Len(a.list)
  BY Zenon
<1>3. \A j \in 1..Len(b.list) : j \in 1..n \/ j = n + 1
  BY <1>1, <1>2
<1>4. n + 1 \in 1..Len(b.list) /\ \A j \in 1..n : j \in 1..Len(b.list) /\ j # n + 1
  BY <1>1, <1>2
<1>5. Listed(b) = Listed(a) \cup {q.ptr}
  <2>1. \A j \in 1..Len(b.list) : b.list[j].ptr \in Listed(a) \cup {q.ptr}
    BY <1>1, <1>2, <1>3 DEF Listed
  <2>2. q.ptr \in Listed(b)
    BY <1>1, <1>2, <1>4 DEF Listed
  <2>3. \A j \in 1..n : a.list[j].ptr \in Listed(b)
    BY <1>1, <1>2, <1>4 DEF Listed
  <2>4. Listed(b) \subseteq Listed(a) \cup {q.ptr}
    BY <2>1 DEF Listed
  <2>5. Listed(a) \subseteq Listed(b)
    BY <1>2, <2>3 DEF Listed
  <2> QED BY <2>2, <2>4, <2>5
<1>6. Binned(B) = Binned(A) \cup {q.ptr}
  BY <1>5 DEF Binned
<1>7. q.ptr \notin Listed(a)
  BY DEF Binned
<1>8. \A j \in 1..n : a.list[j].ptr # q.ptr
  BY <1>2, <1>7 DEF Listed
<1>9. \A i, j \in 1..Len(b.list) : b.list[i].ptr = b.list[j].ptr => i = j
  <2> SUFFICES ASSUME NEW i \in 1..Len(b.list), NEW j \in 1..Len(b.list),
                      b.list[i].ptr = b.list[j].ptr
               PROVE  i = j
    OBVIOUS
  <2>1. CASE i \in 1..n /\ j \in 1..n
    <3>1. a.list[i].ptr = a.list[j].ptr
      BY <1>1, <1>2, <2>1
    <3> QED BY <1>2, <2>1, <3>1 DEF Once
  <2>2. CASE i = n + 1 \/ j = n + 1
    BY <1>1, <1>2, <1>3, <1>8, <2>2
  <2> QED BY <1>3, <2>1, <2>2
<1>10. \A i, j \in 1..Len(b.mlist) : b.mlist[i] = b.mlist[j] => i = j
  <2>1. CASE b.mlist = a.mlist
    BY <2>1 DEF Once
  <2>2. CASE b.mlist = Append(a.mlist, m) /\ m \notin Queued(a)
    <3>1. PICK s, t : s = a.mlist /\ t = b.mlist
      BY Zenon
    <3>2. s \in Seq(Mem) /\ t = Append(s, m)
      BY <2>2, <3>1
    <3>3. /\ Len(t) = Len(s) + 1 /\ Len(s) \in Nat /\ t[Len(s) + 1] = m
          /\ \A j \in 1..Len(s) : t[j] = s[j]
      BY <3>2
    <3>4. \A j \in 1..Len(t) : j \in 1..Len(s) \/ j = Len(s) + 1
      BY <3>3
    <3>5. \A j \in 1..Len(s) : s[j] # m
      BY <2>2, <3>1 DEF Queued
    <3>6. \A i, j \in 1..Len(s) : s[i] = s[j] => i = j
      BY <3>1 DEF Once
    <3>7. \A i, j \in 1..Len(t) : t[i] = t[j] => i = j
      BY <3>3, <3>4, <3>5, <3>6
    <3> QED BY <3>1, <3>7
  <2> QED BY <2>1, <2>2
<1>11. Listed(b) \subseteq Heap \cup Payload
  BY <1>5 DEF Once
<1> QED BY <1>6, <1>9, <1>10, <1>11 DEF Once

LEMMA SetOne ==
  ASSUME NEW A \in Seq(Act), Len(A) = 1, NEW b, NEW B, B = [A EXCEPT ![1] = b]
  PROVE  B # <<>> /\ Len(B) = 1 /\ B[1] = b
OBVIOUS

\* do_sweep() queues an entry, or an entry and a Memory.
LEMMA QueueBin ==
  ASSUME acts \in Seq(Act), Len(acts) = 1, Once(acts[1]),
         NEW e, e.ptr \in Heap \cup Payload, e.ptr \notin Binned(acts)
  PROVE  /\ /\ Binned(Queue(e)) = Binned(acts) \cup {e.ptr}
            /\ Len(Queue(e)) = 1 /\ Once(Queue(e)[1])
         /\ \A m \in Mem : m \notin Condemned =>
              /\ Binned(Queue2(e, <<m>>)) = Binned(acts) \cup {e.ptr}
              /\ Len(Queue2(e, <<m>>)) = 1 /\ Once(Queue2(e, <<m>>)[1])
<1>1. PICK q, a : q = [ptr |-> e.ptr, ref |-> e.ref] /\ a = acts[1]
  BY Zenon
<1>2. a \in Act /\ acts # <<>> /\ q.ptr = e.ptr
  BY <1>1
<1>3. PICK L : L = Append(a.list, q)
  BY Zenon
<1>4. a.list \in Seq(Item) /\ a.mlist \in Seq(Mem)
  BY <1>2 DEF Act
<1>5. /\ Binned(Queue(e)) = Binned(acts) \cup {e.ptr}
      /\ Len(Queue(e)) = 1 /\ Once(Queue(e)[1])
  <2>1. PICK B, b : B = Queue(e) /\ b = [a EXCEPT !.list = L]
    BY Zenon
  <2>2. B = [acts EXCEPT ![1] = b]
    BY <1>1, <1>3, <2>1 DEF Queue
  <2>3. B # <<>> /\ Len(B) = 1 /\ B[1] = b
    BY <2>2, SetOne
  <2>4. b.list = Append(a.list, q) /\ b.mlist = a.mlist
    BY <1>2, <1>3, <2>1 DEF Act
  <2>5. Binned(B) = Binned(acts) \cup {q.ptr} /\ Once(b)
    <3>1. Added(acts, B, a, b, q, Null)
      <4>1. Once(a) /\ q.ptr \in Heap \cup Payload /\ q.ptr \notin Binned(acts)
        BY <1>1, <1>2
      <4> QED BY <1>1, <1>2, <1>4, <2>3, <2>4, <4>1, Zenon DEF Added
    <3> QED BY <3>1, BinOne
  <2> QED BY <1>2, <2>1, <2>3, <2>5
<1>6. ASSUME NEW m \in Mem, m \notin Condemned
      PROVE  /\ Binned(Queue2(e, <<m>>)) = Binned(acts) \cup {e.ptr}
             /\ Len(Queue2(e, <<m>>)) = 1 /\ Once(Queue2(e, <<m>>)[1])
  <2>1. PICK X : X = a.mlist \o <<m>>
    BY Zenon
  <2>2. X = Append(a.mlist, m)
    BY <1>4, <2>1
  <2>3. PICK B, b : B = Queue2(e, <<m>>) /\ b = [a EXCEPT !.list = L, !.mlist = X]
    BY Zenon
  <2>4. B = [acts EXCEPT ![1] = b]
    BY <1>1, <1>3, <2>1, <2>3 DEF Queue2
  <2>5. B # <<>> /\ Len(B) = 1 /\ B[1] = b
    BY <2>4, SetOne
  <2>6. b.list = Append(a.list, q) /\ b.mlist = Append(a.mlist, m)
    BY <1>2, <1>3, <2>2, <2>3 DEF Act
  <2>7. m \notin Queued(a)
    BY <1>1, <1>6 DEF Condemned, Doomed, AllMem
  <2>8. Binned(B) = Binned(acts) \cup {q.ptr} /\ Once(b)
    <3>1. Added(acts, B, a, b, q, m)
      <4>1. Once(a) /\ q.ptr \in Heap \cup Payload /\ q.ptr \notin Binned(acts)
        BY <1>1, <1>2
      <4> QED BY <1>1, <1>2, <1>4, <2>5, <2>6, <2>7, <4>1, Zenon DEF Added
    <3> QED BY <3>1, BinOne
  <2> QED BY <1>2, <2>3, <2>5, <2>8
<1> QED BY <1>5, <1>6

\* Each activation of do_sweep() has a heap that is there.
LEMMA SweepStack ==
  ASSUME Strong, Tree, pc = "sweep"
  PROVE  /\ stack \in Seq(FrameT) /\ Len(stack) \in Nat /\ Swept(heap, mem, stack)
         /\ acts \in Seq(Act) /\ acts # <<>> /\ Len(acts) = 1 /\ Once(acts[1])
         /\ \A k \in 1..Len(stack) :
              /\ stack[k].h \in AllHeap /\ stack[k].i \in Nat /\ (k = 1 => stack[k].h = Root)
              /\ HeapOk(stack[k].h) /\ heap[stack[k].h].st = "live" /\ heap[stack[k].h].mem \in AllMem
         /\ \A k \in 1..Len(stack) - 1 :
              /\ stack[k].ph = "back" /\ stack[k].i \in 1..mem[heap[stack[k].h].mem].size
              /\ Child(heap, mem, stack[k].h, stack[k].i) = stack[k + 1].h
<1>1. stack \in Seq(FrameT) /\ Len(stack) \in Nat /\ acts \in Seq(Act) /\ acts # <<>>
  BY DEF Strong, Inductive, GoodControl
<1>2. Swept(heap, mem, stack) /\ Len(acts) = 1 /\ Once(acts[1])
  <2>1. Len(acts) <= 1
    BY DEF Tree, TreeControl
  <2>2. Once(acts[1])
    BY <1>1 DEF Tree, TreeControl
  <2>3. Swept(heap, mem, stack)
    BY DEF Tree, TreePhase
  <2>4. Len(acts) = 1
    BY <1>1, <2>1
  <2> QED BY <2>2, <2>3, <2>4
<1>3. ASSUME stack # <<>>
      PROVE  /\ stack[1].h = Root
             /\ \A k \in 1..Len(stack) - 1 :
                  /\ stack[k].ph = "back" /\ MemAt(heap, stack, k) \in AllMem
                  /\ stack[k].i \in 1..mem[MemAt(heap, stack, k)].size
                  /\ Outer(stack, mem, k)
  <2>1. Sweeps
    BY <1>3 DEF Sweeps, Strong
  <2>2. \A k \in 1..Len(stack) - 1 : Outer(stack, mem, k)
    BY <1>3, SweepFacts DEF Strong
  <2> QED BY <2>1, <2>2, SweepColorFacts
<1>4. ASSUME NEW k \in 1..Len(stack) - 1
      PROVE  /\ stack[k].ph = "back" /\ stack[k].i \in 1..mem[heap[stack[k].h].mem].size
             /\ heap[stack[k].h].mem \in AllMem
             /\ Child(heap, mem, stack[k].h, stack[k].i) = stack[k + 1].h
             /\ IsHeapRef(mem[heap[stack[k].h].mem].slots[stack[k].i])
  <2>1. stack # <<>>
    BY <1>1, <1>4
  <2>2. Outer(stack, mem, k)
    BY <1>3, <1>4, <2>1
  <2>3. /\ IsHeapRef(mem[heap[stack[k].h].mem].slots[stack[k].i])
        /\ mem[heap[stack[k].h].mem].slots[stack[k].i].ptr = stack[k + 1].h
    BY <2>2 DEF Outer
  <2> QED BY <1>3, <1>4, <2>1, <2>3 DEF MemAt, Child
<1>5. \A k \in 1..Len(stack) : stack[k].h \in AllHeap /\ stack[k].i \in Nat
  <2>1. \A k \in 1..Len(stack) : stack[k] \in FrameT
    BY <1>1
  <2> QED BY <2>1 DEF FrameT
<1>6. \A k \in 1..Len(stack) : k = 1 => stack[k].h = Root
  <2>1. \A k \in 1..Len(stack) : stack # <<>>
    BY <1>1
  <2> QED BY <1>3, <2>1
<1>7. ASSUME NEW k \in 1..Len(stack)
      PROVE  HeapOk(stack[k].h) /\ heap[stack[k].h].mem \in AllMem
  <2>1. CASE k = 1
    <3>1. stack[k].h = Root
      BY <1>6, <2>1
    <3>2. mem[RootMem].st = "live"
      BY DEF Tree, TreeControl
    <3>3. heap[Root].mem = RootMem /\ heap[Root].st = "live" /\ RootMem \in AllMem
      BY TreeFacts
    <3> QED BY <3>1, <3>2, <3>3 DEF HeapOk
  <2>2. CASE k # 1
    <3>1. PICK i, m : i = k - 1 /\ m = heap[stack[k - 1].h].mem
      BY Zenon
    <3>2. i \in 1..Len(stack) - 1 /\ i + 1 = k
      BY <1>1, <2>2, <3>1
    <3>3. /\ m \in AllMem /\ stack[i].i \in 1..mem[m].size /\ IsHeapRef(mem[m].slots[stack[i].i])
          /\ mem[m].slots[stack[i].i].ptr = stack[k].h
      BY <1>4, <3>1, <3>2 DEF Child
    <3> QED BY <3>3, StoredOk
  <2> QED BY <2>1, <2>2
<1>8. \A k \in 1..Len(stack) : heap[stack[k].h].st = "live"
  BY <1>7 DEF HeapOk
<1> QED BY <1>1, <1>2, <1>4, <1>5, <1>6, <1>7, <1>8

\* The heap that an activation is about to visit, or has visited, is not queued yet.
LEMMA NotDoomed ==
  ASSUME Strong, Tree, NEW h \in Heap, heap[h].st = "live", h \notin Binned(acts)
  PROVE  heap[h].mem \notin Condemned
<1>1. DoomedDead(heap, Life(mem), Binned(acts), Doomed(acts))
  BY TreeFacts DEF Data, Reclaimed
<1>2. Used(heap, h)
  BY DEF Used
<1> QED BY <1>1, <1>2 DEF DoomedDead, Condemned

\* What a deallocated heap refers to is deallocated: members end before what
\* contains them, and everything before the root list.
LEMMA ChildDead ==
  ASSUME Strong, Tree, NEW g \in AllHeap, heap[g].st = "live", heap[g].deallocated,
         NEW h \in Heap, h \in Stored(mem[heap[g].mem])
  PROVE  heap[h].deallocated
<1>1. /\ HeapsStored(obj, heap, Store(mem), Binned(acts)) /\ OneHeap(heap) /\ Ended(obj, heap)
      /\ Members(obj) /\ Typed(obj, payload, heap) /\ Scoped(obj)
  BY TreeFacts DEF Data, Placed, Owned
<1>2. PICK m : m = heap[g].mem
  BY Zenon
<1>3. m \in AllMem /\ h \in Store(mem)[m]
  BY <1>2, ChildLive, ViewOf
<1>4. PICK x \in Obj : Known(obj, x) /\ obj[x].heap = h /\ Place(obj, heap, x) = m
  BY <1>1, <1>3 DEF HeapsStored
<1>5. obj[x].st = "gone"
  <2>1. CASE g = Root
    <3>1. obj[x].st # "live" /\ obj[x].st \in {"none", "live", "gone"}
      BY <1>1, <2>1 DEF Ended, Scoped
    <3> QED BY <1>4, <3>1 DEF Known
  <2>2. CASE g # Root
    <3>1. g \in Heap /\ Used(heap, g)
      BY <2>2 DEF AllHeap, Used
    <3>2. m # RootMem
      BY <1>1, <1>2, <3>1, UsedMem
    <3>3. PICK y : y = obj[x].parent
      BY Zenon
    <3>4. y # Null /\ y \in Obj /\ Known(obj, y) /\ heap[obj[y].heap].mem = m
      BY <1>1, <1>4, <3>2, <3>3, PlaceType
    <3>5. obj[y].heap \in AllHeap /\ Used(heap, obj[y].heap)
      BY <1>1, <3>4, KnownHeap
    <3>6. obj[y].heap = g
      BY <1>1, <1>2, <3>1, <3>4, <3>5 DEF OneHeap
    <3>7. obj[y].st = "gone"
      BY <1>1, <3>4, <3>6 DEF Ended
    <3> QED BY <1>1, <3>3, <3>4, <3>7 DEF Members
  <2> QED BY <2>1, <2>2
<1> QED BY <1>1, <1>4, <1>5 DEF Ended

\* The activation that runs.
LEMMA SweepTop ==
  ASSUME Strong, Tree, pc = "sweep", stack # <<>>,
         NEW n, NEW t, NEW m, NEW i, n = Len(stack), t = Top.h, m = TopMem, i = Top.i
  PROVE  /\ n \in Nat /\ n >= 1 /\ n \in 1..n /\ Top = stack[n]
         /\ stack[n].h = t /\ stack[n].i = i /\ i \in Nat /\ t \in AllHeap
         /\ m = heap[t].mem /\ m \in AllMem /\ heap[t].st = "live" /\ mem[m].st = "live"
         /\ Tidy(mem[m]) /\ mem[m].size \in Nat
         /\ Top.ph # "enter" => i <= mem[m].size
         /\ \A k \in 1..n - 1 : /\ k \in 1..n /\ heap[stack[k].h].mem \in AllMem
                                /\ Top.ph # "enter" => heap[stack[k].h].mem # m
<1>1. /\ Len(stack) \in Nat /\ Len(stack) >= 1 /\ Top = stack[Len(stack)]
      /\ Top.h \in AllHeap /\ Top.i \in Nat
      /\ Top.ph # "enter" =>
           /\ Top.i <= mem[TopMem].size
           /\ \A k \in 1..Len(stack) - 1 : heap[stack[k].h].mem # TopMem
  BY SweepFacts DEF Strong
<1>2. \A k \in 1..Len(stack) :
        HeapOk(stack[k].h) /\ heap[stack[k].h].mem \in AllMem
  BY SweepStack
<1>3. n \in Nat /\ n >= 1 /\ n \in 1..n /\ Top = stack[n]
  BY <1>1
<1>4. HeapOk(t) /\ heap[t].mem \in AllMem /\ m = heap[t].mem
  BY <1>2, <1>3 DEF TopMem
<1>5. heap[t].st = "live" /\ mem[m].st = "live"
  BY <1>4 DEF HeapOk
<1>6. Tidy(mem[m]) /\ mem[m].size \in Nat
  BY <1>4, TreeFacts, SizedFacts
<1>7. \A k \in 1..n - 1 : k \in 1..n
  BY <1>3
<1> QED BY <1>1, <1>2, <1>3, <1>4, <1>5, <1>6, <1>7

\* The activation moves on to another entry.
LEMMA SweptGoto ==
  ASSUME Strong, Tree, pc = "sweep", stack # <<>>,
         NEW F, \A x \in AllMem : F[x].color = "WHITE" <=> mem[x].color = "WHITE",
         \A k \in 1..Len(stack) - 1 :
           F[heap[stack[k].h].mem].size = mem[heap[stack[k].h].mem].size,
         NEW j \in Nat, F[TopMem].color = "WHITE" => j = F[TopMem].size
  PROVE  Swept(heap, F, Goto("scan", j))
<1>1. PICK n, t, m, i : n = Len(stack) /\ t = Top.h /\ m = TopMem /\ i = Top.i
  BY Zenon
<1>2. /\ n \in Nat /\ n >= 1 /\ n \in 1..n /\ t \in AllHeap /\ m = heap[t].mem
      /\ \A k \in 1..n - 1 : k \in 1..n /\ heap[stack[k].h].mem \in AllMem
  BY <1>1, SweepTop
<1>3. PICK s : s = Goto("scan", j)
  BY Zenon
<1>4. stack \in Seq(FrameT) /\ Swept(heap, mem, stack)
  BY SweepStack
<1>5. /\ Len(s) = n /\ \A k \in 1..n - 1 : s[k] = stack[k]
      /\ s[n] = [h |-> t, ph |-> "scan", i |-> j]
  <2>1. /\ Len(Goto("scan", j)) = Len(stack)
        /\ \A k \in 1..Len(stack) - 1 : Goto("scan", j)[k] = stack[k]
        /\ Goto("scan", j)[Len(stack)] = [h |-> Top.h, ph |-> "scan", i |-> j]
    BY <1>4, GotoFacts
  <2> QED BY <1>1, <1>3, <2>1
<1>6. s[n].h = t /\ s[n].ph = "scan" /\ s[n].i = j
  BY <1>5
<1>7. \A g \in AllHeap : heap[g].st = "live" =>
        /\ heap[g].mem \in AllMem
        /\ (Shade(heap, F, g) = "WHITE" <=> Shade(heap, mem, g) = "WHITE")
  BY ChildLive DEF Shade
<1>8. \A g \in AllHeap : heap[g].st = "live" => (Shade(heap, F, g) = "WHITE" <=> heap[g].deallocated)
  BY <1>4, <1>7 DEF Swept
<1>9. \A k \in 1..n : s[k].ph # "enter" /\ Shade(heap, F, s[k].h) = "WHITE" =>
        s[k].i = F[heap[s[k].h].mem].size
  <2> SUFFICES ASSUME NEW k \in 1..n, s[k].ph # "enter", Shade(heap, F, s[k].h) = "WHITE"
               PROVE  s[k].i = F[heap[s[k].h].mem].size
    OBVIOUS
  <2>1. CASE k = n
    BY <1>1, <1>2, <1>6, <2>1 DEF Shade
  <2>2. CASE k # n
    <3>1. k \in 1..n - 1
      BY <1>2, <2>2
    <3>2. s[k] = stack[k] /\ heap[stack[k].h].mem \in AllMem
      BY <1>2, <1>5, <3>1
    <3>3. Shade(heap, mem, stack[k].h) = "WHITE"
      BY <3>2 DEF Shade
    <3>4. stack[k].i = mem[heap[stack[k].h].mem].size
      BY <1>1, <1>2, <1>4, <3>1, <3>2, <3>3 DEF Swept
    <3> QED BY <1>1, <3>1, <3>2, <3>4
  <2> QED BY <2>1, <2>2
<1>10. Swept(heap, F, s)
  BY <1>5, <1>6, <1>8, <1>9 DEF Swept
<1> QED BY <1>3, <1>10

LEMMA SweepEnterTree ==
  ASSUME Strong, Strong', Tree, SweepEnter
  PROVE  Tree'
<1>1. /\ pc = "sweep" /\ pc' = pc /\ stack # <<>> /\ Top.ph = "enter"
      /\ UNCHANGED <<obj, payload, heap, deallocCount, inside, acts>>
  BY DEF SweepEnter, AtFrame
<1>2. PICK n, t, m, i : n = Len(stack) /\ t = Top.h /\ m = TopMem /\ i = Top.i
  BY Zenon
<1>3. /\ n \in 1..n /\ Top = stack[n] /\ stack[n].h = t /\ m = heap[t].mem
      /\ m \in AllMem /\ mem[m].size \in Nat
      /\ \A k \in 1..n - 1 : heap[stack[k].h].mem \in AllMem
  BY <1>1, <1>2, SweepTop
<1>4. mem[m].seen = FALSE
  <2>1. SweepFrames /\ SeenIsOnStack
    BY DEF Strong, Inductive
  <2>2. \A j \in 1..n : ~Iterates(j, m)
    BY <1>1, <1>2, <1>3, <2>1 DEF SweepFrames
  <2>3. mem[m].seen = (pc = "sweep" /\ \E k \in 1..Len(stack) : Iterates(k, m))
    BY <1>1, <1>3, <2>1 DEF SeenIsOnStack
  <2>4. ~\E k \in 1..Len(stack) : Iterates(k, m)
    BY <1>2, <2>2
  <2> QED BY <2>3, <2>4, Zenon
<1>5. PICK F : F = mem'
  BY Zenon
<1>6. /\ F = [mem EXCEPT ![m].seen = TRUE, ![m].color = SweptColor(@)]
      /\ stack' = Goto("scan", mem[m].size)
  BY <1>2, <1>4, <1>5 DEF SweepEnter
<1>7. \A x \in AllMem : /\ F[x].st = mem[x].st /\ F[x].slots = mem[x].slots /\ F[x].size = mem[x].size
                        /\ F[x].color = "WHITE" <=> mem[x].color = "WHITE"
  <2>1. mem \in [AllMem -> Memory] /\ mem[m] \in Memory
    BY <1>3, TreeFacts DEF GoodMem
  <2>2. /\ F[m] = [[mem[m] EXCEPT !.seen = TRUE] EXCEPT !.color = SweptColor(@)]
        /\ \A x \in AllMem : x # m => F[x] = mem[x]
    BY <1>3, <1>6, <2>1
  <2>3. PICK M, N : M = mem[m] /\ N = F[m]
    BY Zenon
  <2>4. M \in Memory /\ N = [[M EXCEPT !.seen = TRUE] EXCEPT !.color = SweptColor(@)]
    BY <2>1, <2>2, <2>3
  <2>5. N.st = M.st /\ N.slots = M.slots /\ N.size = M.size /\ N.color = SweptColor(M.color)
    BY <2>4 DEF Memory
  <2>6. N.color = "WHITE" <=> M.color = "WHITE"
    BY <2>5 DEF SweptColor
  <2> QED BY <2>2, <2>3, <2>5, <2>6
<1>8. Swept(heap, F, stack')
  <2>1. \A x \in AllMem : F[x].color = "WHITE" <=> mem[x].color = "WHITE"
    BY <1>7
  <2>2. \A k \in 1..Len(stack) - 1 :
           F[heap[stack[k].h].mem].size = mem[heap[stack[k].h].mem].size
    BY <1>2, <1>3, <1>7
  <2>3. F[TopMem].size = mem[m].size
    BY <1>2, <1>3, <1>7
  <2>4. Swept(heap, F, Goto("scan", mem[m].size))
    BY <1>1, <1>3, <2>1, <2>2, <2>3, SweptGoto
  <2> QED BY <1>6, <2>4
<1> QED BY <1>1, <1>5, <1>7, <1>8, ScanTree

\* A step of do_sweep() that removes the entry e in hand.
Taking(e) ==
  /\ pc = "sweep" /\ pc' = pc /\ stack # <<>> /\ Top.ph # "enter" /\ Top.i >= 1
  /\ UNCHANGED <<obj, payload, heap, inside>> /\ e = mem[TopMem].slots[Top.i]
  /\ mem' = [mem EXCEPT ![TopMem] = RemoveEntry(@, Top.i)] /\ stack' = Goto("scan", Top.i - 1)

LEMMA TakeFacts ==
  ASSUME Strong, Tree, NEW e, Taking(e), NEW m, m = TopMem
  PROVE  /\ AllTidy(mem') /\ Life(mem') = Life(mem) /\ Swept(heap, mem', stack')
         /\ mem'[RootMem].st = mem[RootMem].st
         /\ Store(mem')[m] = Store(mem)[m] \ {e.ptr}
         /\ \A x \in AllMem : x # m => Store(mem')[x] = Store(mem)[x]
         /\ \E j \in 1..mem[m].size : e = mem[m].slots[j]
<1>0. PICK i : i = Top.i
  BY Zenon
<1>z. /\ pc = "sweep" /\ stack # <<>> /\ Top.ph # "enter" /\ i >= 1 /\ e = mem[m].slots[i]
      /\ mem' = [mem EXCEPT ![m] = RemoveEntry(@, i)] /\ stack' = Goto("scan", i - 1)
  BY <1>0 DEF Taking
<1>1. PICK n, t : n = Len(stack) /\ t = Top.h
  BY Zenon
<1>2. /\ n \in 1..n /\ Top = stack[n] /\ stack[n].h = t /\ stack[n].i = i /\ m = heap[t].mem
      /\ m \in AllMem /\ mem[m].size \in Nat /\ i \in Nat /\ i <= mem[m].size /\ Tidy(mem[m])
      /\ \A k \in 1..n - 1 : heap[stack[k].h].mem \in AllMem /\ heap[stack[k].h].mem # m
  BY <1>0, <1>z, <1>1, SweepTop
<1>3. i \in 1..mem[m].size
  <2>1. PICK z : z = mem[m].size
    BY Zenon
  <2>2. z \in Nat /\ i \in Nat /\ i >= 1 /\ i <= z
    BY <1>z, <1>2, <2>1, Zenon
  <2> QED BY <2>1, <2>2
<1>4. PICK F : F = mem'
  BY Zenon
<1>5. F[m] = RemoveEntry(mem[m], i) /\ \A x \in AllMem : x # m => F[x] = mem[x]
  <2>1. mem \in [AllMem -> Memory]
    BY TreeFacts DEF GoodMem
  <2> QED BY <1>z, <1>2, <1>4, <2>1
<1>6. /\ Tidy(F[m]) /\ SameButVectors(mem[m], F[m]) /\ F[m].size = mem[m].size - 1
      /\ Stored(F[m]) = Stored(mem[m]) \ {e.ptr}
  <2>1. PICK M, N : M = mem[m] /\ N = F[m]
    BY Zenon
  <2>2. Tidy(M) /\ i \in 1..M.size /\ N = RemoveEntry(M, i) /\ e = M.slots[i]
    BY <1>z, <1>2, <1>3, <1>5, <2>1, Zenon
  <2>3. /\ Tidy(N) /\ SameButVectors(M, N) /\ N.size = M.size - 1
        /\ Stored(N) = Stored(M) \ {e.ptr}
    BY <2>2, RemoveTidy
  <2> QED BY <2>1, <2>3, Zenon
<1>7. AllTidy(F)
  <2>1. \A x \in AllMem : Tidy(mem[x])
    BY TreeFacts
  <2> QED BY <1>5, <1>6, <2>1 DEF AllTidy
<1>8. \A x \in AllMem : F[x].st = mem[x].st /\ F[x].color = mem[x].color
  BY <1>5, <1>6 DEF SameButVectors
<1>9. Life(F) = Life(mem)
  BY <1>8 DEF Life
<1>10. /\ Store(F)[m] = Store(mem)[m] \ {e.ptr}
       /\ \A x \in AllMem : x # m => Store(F)[x] = Store(mem)[x]
  <2>1. \A x \in AllMem : Store(F)[x] = Stored(F[x]) /\ Store(mem)[x] = Stored(mem[x])
    BY ViewOf
  <2> QED BY <1>2, <1>5, <1>6, <2>1
<1>11. Swept(heap, F, stack')
  <2>1. \A x \in AllMem : F[x].color = "WHITE" <=> mem[x].color = "WHITE"
    BY <1>8
  <2>2. \A k \in 1..Len(stack) - 1 :
           F[heap[stack[k].h].mem].size = mem[heap[stack[k].h].mem].size
    BY <1>1, <1>2, <1>5
  <2>3. i - 1 \in Nat
    BY <1>3
  <2>4. mem[m].color = "WHITE" => i = mem[m].size
    <3>1. Swept(heap, mem, stack)
      BY <1>z, SweepStack
    <3>2. \A k \in 1..Len(stack) : stack[k].ph # "enter" /\ Shade(heap, mem, stack[k].h) = "WHITE" =>
            stack[k].i = mem[heap[stack[k].h].mem].size
      BY <3>1 DEF Swept
    <3>3. Shade(heap, mem, stack[n].h) = mem[m].color
      BY <1>2 DEF Shade
    <3> QED BY <1>z, <1>1, <1>2, <3>2, <3>3
  <2>5. F[TopMem].color = "WHITE" => i - 1 = F[TopMem].size
    BY <1>2, <1>6, <1>8, <2>4
  <2>6. Swept(heap, F, Goto("scan", i - 1))
    BY <1>z, <2>1, <2>2, <2>3, <2>5, SweptGoto
  <2> QED BY <1>z, <2>6
<1>12. F[RootMem].st = mem[RootMem].st
  BY <1>8, TreeFacts
<1> QED BY <1>z, <1>3, <1>4, <1>7, <1>9, <1>10, <1>11, <1>12

LEMMA TakenTree ==
  ASSUME Strong, Tree, NEW e, Taking(e),
         AllTidy(mem'), Life(mem') = Life(mem), Swept(heap, mem', stack'),
         mem'[RootMem].st = mem[RootMem].st, Len(acts') = 1, Once(acts'[1]),
         Data(obj, payload, heap, Life(mem), Store(mem'), Binned(acts'), Doomed(acts'))
  PROVE  Tree'
<1>1. Data(obj', payload', heap', Life(mem'), Store(mem'), Binned(acts'), Doomed(acts'))
  <2>1. obj' = obj /\ payload' = payload /\ heap' = heap
    BY DEF Taking
  <2> QED BY <2>1, Zenon
<1>2. TreeData'
  BY <1>1 DEF TreeData
<1>0. pc = "sweep" /\ pc' = pc /\ inside' = inside
  BY DEF Taking
<1>3. mem[RootMem].st = "live" /\ inside = FALSE
  BY <1>0 DEF Tree, TreeControl
<1>4. pc' = "sweep" /\ inside' = FALSE
  BY <1>0, <1>3
<1>5. TreeControl'
  BY <1>3, <1>4 DEF TreeControl
<1>6. heap' = heap
  BY DEF Taking
<1>7. TreePhase'
  BY <1>4, <1>6 DEF TreePhase
<1> QED BY <1>2, <1>5, <1>7 DEF Tree

\* An entry whose heap is being iterated would be met twice.
LEMMA NotSeen ==
  ASSUME Strong, Tree, pc = "sweep", stack # <<>>, Top.ph = "scan", Top.i >= 1,
         NEW h \in Heap, h = mem[TopMem].slots[Top.i].ptr
  PROVE  mem[heap[h].mem].seen = FALSE
<1>0. Top.ph # "enter"
  OBVIOUS
<1>1. PICK n, t, m, i : n = Len(stack) /\ t = Top.h /\ m = TopMem /\ i = Top.i
  BY Zenon
<1>2. /\ n \in Nat /\ n >= 1 /\ n \in 1..n /\ Top = stack[n] /\ stack[n].h = t /\ m = heap[t].mem
      /\ m \in AllMem /\ mem[m].size \in Nat /\ i \in Nat /\ i <= mem[m].size /\ Tidy(mem[m])
      /\ \A k \in 1..n - 1 : heap[stack[k].h].mem \in AllMem /\ heap[stack[k].h].mem # m
  BY <1>0, <1>1, SweepTop
<1>3. i \in 1..mem[m].size /\ mem[m].slots[i].ptr = h
  <2>1. i >= 1 /\ mem[m].slots[i].ptr = h
    BY <1>1
  <2>2. PICK z : z = mem[m].size
    BY Zenon
  <2>3. z \in Nat /\ i \in Nat /\ i <= z
    BY <1>2, <2>2, Zenon
  <2> QED BY <2>1, <2>2, <2>3
<1>4. IsHeapRef(mem[m].slots[i])
  BY <1>2, <1>3, TidyKinds
<1>5. /\ h \in AllHeap /\ h \in Stored(mem[m]) /\ heap[h].st = "live" /\ heap[h].mem \in AllMem
      /\ h # Root
  <2>1. h # Root
    BY DistinctIds
  <2> QED BY <1>2, <1>3, <1>4, <2>1, StoredOk
<1>6. HeapsStored(obj, heap, Store(mem), Binned(acts)) /\ OneOwner(obj)
  BY TreeFacts DEF Data, Placed, Owned
<1>7. ASSUME NEW k \in 1..n, Iterates(k, heap[h].mem)
      PROVE  FALSE
  <2>1. stack[k].h \in AllHeap /\ heap[stack[k].h].st = "live" /\ (k = 1 => stack[k].h = Root)
    BY <1>1, <1>7, SweepStack
  <2>2. stack[k].h = h
    BY <1>5, <1>7, <2>1, OneMem DEF Iterates
  <2>3. k # 1
    BY <1>5, <2>1, <2>2
  <2>4. PICK j, p : j = k - 1 /\ p = heap[stack[k - 1].h].mem
    BY Zenon
  <2>5. j \in 1..n - 1 /\ j + 1 = k
    BY <1>2, <2>3, <2>4
  <2>6. /\ stack[j].i \in 1..mem[p].size /\ Child(heap, mem, stack[j].h, stack[j].i) = h
    BY <1>1, <2>2, <2>4, <2>5, SweepStack
  <2>7. p \in AllMem /\ p # m
    BY <1>2, <2>4, <2>5
  <2>8. h \in Stored(mem[p])
    BY <2>4, <2>5, <2>6 DEF Child, Stored
  <2>9. h \in Store(mem)[p] /\ h \in Store(mem)[m]
    <3>1. Store(mem)[p] = Stored(mem[p])
      BY <2>7, ViewOf
    <3>2. m \in AllMem
      BY <1>2
    <3>3. Store(mem)[m] = Stored(mem[m])
      BY <3>2, ViewOf
    <3> QED BY <1>5, <2>8, <3>1, <3>3, Zenon
  <2>10. PICK x \in Obj : Known(obj, x) /\ obj[x].heap = h
    BY <1>6, <2>7, <2>9 DEF HeapsStored
  <2>11. Place(obj, heap, x) = p /\ Place(obj, heap, x) = m
    <3>1. PICK S, B : S = Store(mem) /\ B = Binned(acts)
      BY Zenon
    <3>2. HeapsStored(obj, heap, S, B) /\ OneOwner(obj) /\ h \in S[p] /\ h \in S[m]
      BY <1>6, <2>9, <3>1, Zenon
    <3>3. m \in AllMem /\ p \in AllMem
      BY <1>2, <2>7
    <3> QED BY <2>10, <3>2, <3>3, StoredOwner
  <2> QED BY <2>7, <2>11
<1>8. SeenIsOnStack
  BY DEF Strong, Inductive
<1>9. mem[heap[h].mem].seen = (pc = "sweep" /\ \E k \in 1..Len(stack) : Iterates(k, heap[h].mem))
  BY <1>5, <1>8 DEF SeenIsOnStack
<1>10. ~\E k \in 1..Len(stack) : Iterates(k, heap[h].mem)
  BY <1>1, <1>7
<1> QED BY <1>9, <1>10, Zenon

\* A Memory is left: if it was WHITE, it is empty.
LEMMA SweepReturnTree ==
  ASSUME Strong, Strong', Tree, pc = "sweep", pc' = pc, stack # <<>>, Top.ph = "scan", Top.i = 0,
         UNCHANGED <<obj, payload, heap, inside, acts>>,
         mem' = [mem EXCEPT ![TopMem] = Leave(@)], stack' = Pop
  PROVE  Tree'
<1>0. Top.ph # "enter"
  OBVIOUS
<1>1. PICK n, t, m, i : n = Len(stack) /\ t = Top.h /\ m = TopMem /\ i = Top.i
  BY Zenon
<1>2. /\ n \in Nat /\ n >= 1 /\ n \in 1..n /\ Top = stack[n] /\ stack[n].h = t /\ stack[n].i = i
      /\ m = heap[t].mem /\ m \in AllMem /\ t \in AllHeap
      /\ \A k \in 1..n - 1 : k \in 1..n /\ heap[stack[k].h].mem \in AllMem
  BY <1>0, <1>1, SweepTop
<1>3. PICK F, s : F = mem' /\ s = Pop
  BY Zenon
<1>4. \A x \in AllMem : /\ F[x].st = mem[x].st /\ F[x].slots = mem[x].slots /\ F[x].size = mem[x].size
                        /\ F[x].color = mem[x].color
  <2>1. mem \in [AllMem -> Memory] /\ mem[m] \in Memory
    BY <1>2, TreeFacts DEF GoodMem
  <2>2. F[m] = [mem[m] EXCEPT !.seen = FALSE] /\ \A x \in AllMem : x # m => F[x] = mem[x]
    BY <1>1, <1>2, <1>3, <2>1 DEF Leave
  <2>3. F[m].st = mem[m].st /\ F[m].slots = mem[m].slots /\ F[m].size = mem[m].size
        /\ F[m].color = mem[m].color
    BY <2>1, <2>2 DEF Memory
  <2> QED BY <2>2, <2>3
<1>5. /\ stack \in Seq(FrameT) /\ Swept(heap, mem, stack)
      /\ \A k \in 1..n - 1 : stack[k].h \in AllHeap /\ heap[stack[k].h].st = "live"
      /\ \A k \in 1..n - 1 : Child(heap, mem, stack[k].h, stack[k].i) = stack[k + 1].h
  BY <1>1, <1>2, SweepStack
<1>6. Len(s) = n - 1 /\ \A k \in 1..n - 1 : s[k] = stack[k]
  BY <1>1, <1>3, <1>5, PopFacts
<1>7. \A g \in AllHeap : heap[g].st = "live" =>
        Shade(heap, F, g) = Shade(heap, mem, g) /\ F[heap[g].mem].size = mem[heap[g].mem].size
        /\ \A j : Child(heap, F, g, j) = Child(heap, mem, g, j)
  BY <1>4, ChildLive DEF Shade, Child
<1>8. \A g \in AllHeap : heap[g].st = "live" => (Shade(heap, F, g) = "WHITE" <=> heap[g].deallocated)
  BY <1>5, <1>7 DEF Swept
<1>9. \A k \in 1..n - 1 : s[k].ph # "enter" /\ Shade(heap, F, s[k].h) = "WHITE" =>
        s[k].i = F[heap[s[k].h].mem].size
  <2> SUFFICES ASSUME NEW k \in 1..n - 1, s[k].ph # "enter", Shade(heap, F, s[k].h) = "WHITE"
               PROVE  s[k].i = F[heap[s[k].h].mem].size
    OBVIOUS
  <2>1. k \in 1..n /\ s[k] = stack[k] /\ stack[k].h \in AllHeap /\ heap[stack[k].h].st = "live"
    BY <1>2, <1>5, <1>6
  <2>2. Shade(heap, mem, stack[k].h) = "WHITE"
    BY <1>7, <2>1
  <2>3. stack[k].i = mem[heap[stack[k].h].mem].size
    BY <1>1, <1>5, <2>1, <2>2 DEF Swept
  <2> QED BY <1>7, <2>1, <2>3
<1>10. ASSUME s # <<>>
       PROVE  LET h == Child(heap, F, s[Len(s)].h, s[Len(s)].i)
              IN  Shade(heap, F, h) = "WHITE" => F[heap[h].mem].size = 0
  <2>1. PICK k : k = n - 1
    OBVIOUS
  <2>2. s \in Seq(FrameT)
    BY <1>1, <1>3, <1>5, PopFacts
  <2>3. k \in 1..n - 1 /\ k = Len(s) /\ k + 1 = n
    <3>1. Len(s) # 0
      BY <1>10, <2>2
    <3> QED BY <1>2, <1>6, <2>1, <3>1
  <2>4. s[k] = stack[k] /\ stack[k].h \in AllHeap /\ heap[stack[k].h].st = "live"
        /\ Child(heap, mem, stack[k].h, stack[k].i) = t
    BY <1>2, <1>5, <1>6, <2>3
  <2>5. Child(heap, F, s[Len(s)].h, s[Len(s)].i) = t
    BY <1>7, <2>3, <2>4
  <2>6. Shade(heap, F, t) = "WHITE" => F[heap[t].mem].size = 0
    <3>1. mem[m].color = "WHITE" => i = mem[m].size
      <4>1. \A j \in 1..n : stack[j].ph # "enter" /\ Shade(heap, mem, stack[j].h) = "WHITE" =>
              stack[j].i = mem[heap[stack[j].h].mem].size
        BY <1>1, <1>5 DEF Swept
      <4>2. stack[n].ph # "enter" /\ Shade(heap, mem, stack[n].h) = mem[m].color
        BY <1>0, <1>2 DEF Shade
      <4> QED BY <1>2, <4>1, <4>2
    <3>2. i = 0
      BY <1>1
    <3> QED BY <1>2, <1>4, <3>1, <3>2 DEF Shade
  <2> QED BY <2>5, <2>6
<1>11. Swept(heap, F, s)
  BY <1>6, <1>8, <1>9, <1>10 DEF Swept
<1>12. Swept(heap, mem', stack')
  BY <1>3, <1>11
<1> QED BY <1>3, <1>4, <1>12, ScanTree

\* Another activation is called for the entry in hand.
LEMMA SweepCallTree ==
  ASSUME Strong, Strong', Tree, pc = "sweep", pc' = pc, stack # <<>>, Top.ph = "scan",
         UNCHANGED <<obj, payload, heap, inside, acts, mem>>,
         NEW h \in AllHeap, stack' = Append(Goto("back", Top.i), Frame(h))
  PROVE  Tree'
<1>0. Top.ph # "enter"
  OBVIOUS
<1>1. PICK n, t, m, i : n = Len(stack) /\ t = Top.h /\ m = TopMem /\ i = Top.i
  BY Zenon
<1>2. /\ n \in Nat /\ n >= 1 /\ n \in 1..n /\ Top = stack[n] /\ stack[n].h = t /\ stack[n].i = i
      /\ i \in Nat /\ t \in AllHeap
  BY <1>0, <1>1, SweepTop
<1>3. PICK s : s = stack'
  BY Zenon
<1>4. stack \in Seq(FrameT) /\ Swept(heap, mem, stack)
  BY SweepStack
<1>5. /\ Len(s) = n + 1 /\ \A k \in 1..n - 1 : s[k] = stack[k]
      /\ s[n] = [h |-> t, ph |-> "back", i |-> i] /\ s[n + 1] = Frame(h)
  <2>1. s = Append(Goto("back", i), Frame(h))
    BY <1>1, <1>3
  <2> QED BY <1>1, <1>2, <1>4, <2>1, CallFacts
<1>6. s[n].h = t /\ s[n].i = i /\ s[n + 1].ph = "enter"
  BY <1>5 DEF Frame
<1>7. \A k \in 1..n + 1 : s[k].ph # "enter" /\ Shade(heap, mem, s[k].h) = "WHITE" =>
        s[k].i = mem[heap[s[k].h].mem].size
  <2> SUFFICES ASSUME NEW k \in 1..n + 1, s[k].ph # "enter", Shade(heap, mem, s[k].h) = "WHITE"
               PROVE  s[k].i = mem[heap[s[k].h].mem].size
    OBVIOUS
  <2>1. k # n + 1
    BY <1>6
  <2>2. CASE k = n
    BY <1>0, <1>1, <1>2, <1>4, <1>6, <2>2 DEF Swept
  <2>3. CASE k # n
    <3>1. k \in 1..n - 1 /\ k \in 1..n
      BY <1>2, <2>1, <2>3
    <3> QED BY <1>1, <1>4, <1>5, <3>1 DEF Swept
  <2> QED BY <2>2, <2>3
<1>8. Swept(heap, mem, s)
  BY <1>4, <1>5, <1>6, <1>7 DEF Swept
<1>9. Swept(heap, mem', stack')
  BY <1>3, <1>8
<1>10. \A x \in AllMem : /\ mem'[x].st = mem[x].st
                         /\ mem'[x].slots = mem[x].slots /\ mem'[x].size = mem[x].size
  OBVIOUS
<1> QED BY <1>9, <1>10, ScanTree

\* An activation of a Memory that is not WHITE passes an entry.
LEMMA SweepPassTree ==
  ASSUME Strong, Strong', Tree, pc = "sweep", pc' = pc, stack # <<>>, Top.ph # "enter", Top.i >= 1,
         UNCHANGED <<obj, payload, heap, inside, acts, mem>>,
         mem[TopMem].color # "WHITE", stack' = Goto("scan", Top.i - 1)
  PROVE  Tree'
<1>1. Top.i \in Nat
  BY SweepFacts DEF Strong
<1>2. Top.i - 1 \in Nat
  BY <1>1
<1>3. Swept(heap, mem, Goto("scan", Top.i - 1))
  BY <1>2, SweptGoto
<1>4. Swept(heap, mem', stack')
  BY <1>3
<1>5. \A x \in AllMem : /\ mem'[x].st = mem[x].st
                        /\ mem'[x].slots = mem[x].slots /\ mem'[x].size = mem[x].size
  OBVIOUS
<1> QED BY <1>4, <1>5, ScanTree

\* A value of a WHITE Memory is queued: the heap of that Memory is deallocated.
LEMMA SweepValueTree ==
  ASSUME Strong, Strong', Tree, NEW e, Taking(e), ~IsHeapRef(e), mem[TopMem].color = "WHITE",
         acts' = Queue(e)
  PROVE  Tree'
<1>0. pc = "sweep" /\ stack # <<>>
  BY DEF Taking
<1>1. PICK t, m : t = Top.h /\ m = TopMem
  BY Zenon
<1>2. /\ m = heap[t].mem /\ m \in AllMem /\ t \in AllHeap /\ heap[t].st = "live" /\ Tidy(mem[m])
  BY <1>0, <1>1, SweepTop
<1>3. /\ AllTidy(mem') /\ Life(mem') = Life(mem) /\ Swept(heap, mem', stack')
      /\ mem'[RootMem].st = mem[RootMem].st
      /\ Store(mem')[m] = Store(mem)[m] \ {e.ptr}
      /\ \A x \in AllMem : x # m => Store(mem')[x] = Store(mem)[x]
      /\ \E j \in 1..mem[m].size : e = mem[m].slots[j]
  BY <1>1, TakeFacts
<1>4. e.ptr \in Payload /\ e.ptr \in Stored(mem[m])
  <2>1. PICK M, j : M = mem[m] /\ j \in 1..M.size /\ e = M.slots[j]
    BY <1>3
  <2>2. Tidy(M)
    BY <1>2, <2>1
  <2>3. M.slots[j].ptr \in Payload /\ M.slots[j].ptr \in Stored(M)
    BY <2>1, <2>2, TidyKinds
  <2> QED BY <2>1, <2>3
<1>5. heap[t].deallocated
  <2>1. Swept(heap, mem, stack)
    BY <1>0, SweepStack
  <2>2. Shade(heap, mem, t) = "WHITE"
    BY <1>1, <1>2 DEF Shade
  <2> QED BY <1>2, <2>1, <2>2 DEF Swept
<1>6. Dead(heap, m)
  <2>1. \A g \in Heap : g \in AllHeap
    BY DEF AllHeap
  <2>2. \A g \in Heap : Used(heap, g) /\ heap[g].mem = m => g = t
    BY <1>2, <2>1, OneMem DEF Used
  <2> QED BY <1>5, <2>2 DEF Dead
<1>7. /\ Data(obj, payload, heap, Life(mem), Store(mem), Binned(acts), Doomed(acts))
      /\ Typed(obj, payload, heap)
  BY TreeFacts
<1>8. /\ acts \in Seq(Act) /\ acts # <<>> /\ Len(acts) = 1 /\ Once(acts[1])
  BY <1>0, SweepStack
<1>9. e.ptr \notin Binned(acts)
  <2>1. ValuesStored(payload, Store(mem), Binned(acts))
    BY <1>7 DEF Data, Placed
  <2> QED BY <1>2, <1>4, <2>1, ViewOf DEF ValuesStored
<1>10. /\ Binned(acts') = Binned(acts) \cup {e.ptr} /\ Len(acts') = 1 /\ Once(acts'[1])
       /\ Doomed(acts') = Doomed(acts)
  <2>1. e.ptr \in Heap \cup Payload
    BY <1>4
  <2>2. /\ Binned(Queue(e)) = Binned(acts) \cup {e.ptr} /\ Len(Queue(e)) = 1 /\ Once(Queue(e)[1])
    BY <1>8, <1>9, <2>1, QueueBin
  <2>3. Doomed(Queue(e)) = Doomed(acts)
    BY <1>8, QueueDoomed DEF Condemned
  <2> QED BY <2>2, <2>3
<1>11. PICK p, V, C : p = e.ptr /\ V = Store(mem') /\ C = Binned(acts')
  BY Zenon
<1>12. p \in Store(mem)[m]
  BY <1>2, <1>4, <1>11, ViewOf
<1>13. Data(obj, payload, heap, Life(mem), V, C, Doomed(acts))
  <2>1. V[m] = Store(mem)[m] \ {p} /\ \A x \in AllMem : x # m => V[x] = Store(mem)[x]
    BY <1>3, <1>11
  <2>2. C = Binned(acts) \cup {p} /\ p \in Payload
    BY <1>4, <1>10, <1>11
  <2>3. PICK T, S, B, D : T = Life(mem) /\ S = Store(mem) /\ B = Binned(acts) /\ D = Doomed(acts)
    BY Zenon
  <2>4. Typed(obj, payload, heap) /\ Data(obj, payload, heap, T, S, B, D) /\ Dead(heap, m)
    BY <1>6, <1>7, <2>3, Zenon
  <2>5. /\ m \in AllMem /\ p \in Payload /\ p \in S[m] /\ V[m] = S[m] \ {p} /\ C = B \cup {p}
        /\ \A x \in AllMem : x # m => V[x] = S[x]
    BY <1>2, <1>12, <2>1, <2>2, <2>3
  <2>6. Data(obj, payload, heap, T, V, C, D)
    BY <2>4, <2>5, TakeValueView
  <2> QED BY <2>3, <2>6, Zenon
<1>14. Data(obj, payload, heap, Life(mem), Store(mem'), Binned(acts'), Doomed(acts'))
  BY <1>10, <1>11, <1>13
<1> QED BY <1>3, <1>10, <1>14, TakenTree

\* One iteration of the loop of do_sweep().
LEMMA SweepScanTree ==
  ASSUME Strong, Strong', Tree, SweepScan
  PROVE  Tree'
<1>1. /\ pc = "sweep" /\ pc' = pc /\ stack # <<>> /\ Top.ph = "scan" /\ Top.ph # "enter"
      /\ UNCHANGED <<obj, payload, heap, deallocCount, inside>>
  BY DEF SweepScan, AtFrame
<1>2. PICK m, i, e : m = TopMem /\ i = Top.i /\ e = mem[TopMem].slots[Top.i]
  BY Zenon
<1>3. m \in AllMem /\ Tidy(mem[m]) /\ i \in Nat /\ i <= mem[m].size /\ mem[m].size \in Nat
  BY <1>1, <1>2, SweepTop
<1>4. CASE i = 0
  <2>1. mem' = [mem EXCEPT ![TopMem] = Leave(@)] /\ stack' = Pop /\ acts' = acts
    BY <1>2, <1>4 DEF SweepScan
  <2> QED BY <1>1, <1>2, <1>4, <2>1, SweepReturnTree
<1>5. CASE i # 0
  <2>1. i >= 1 /\ i \in 1..mem[m].size /\ e = mem[m].slots[i]
    BY <1>2, <1>3, <1>5
  <2>2. IF IsHeapRef(e)
        THEN HeapOk(e.ptr) /\ SweepRef(e) /\ UNCHANGED <<mem, acts>>
        ELSE /\ stack' = Goto("scan", Top.i - 1)
             /\ IF e.ref THEN UNCHANGED <<mem, acts>> ELSE SweepValue(e)
    BY <1>2, <1>5 DEF SweepScan
  <2>3. CASE IsHeapRef(e)
    <3>1. e.ptr \in Heap /\ e.ptr \in AllHeap
      BY <1>3, <2>1, <2>3, StoredOk
    <3>2. mem[heap[e.ptr].mem].seen = FALSE
      BY <1>1, <1>2, <2>1, <3>1, NotSeen
    <3>3. stack' = Append(Goto("back", Top.i), Frame(e.ptr)) /\ UNCHANGED <<mem, acts>>
      BY <2>2, <2>3, <3>2 DEF SweepRef
    <3> QED BY <1>1, <3>1, <3>3, SweepCallTree
  <2>4. CASE ~IsHeapRef(e)
    <3>1. ~e.ref
      BY <1>3, <2>1, <2>4, TidyKinds
    <3>2. stack' = Goto("scan", Top.i - 1) /\ SweepValue(e)
      BY <2>2, <2>4, <3>1
    <3>3. CASE mem[TopMem].color = "WHITE"
      <4>1. mem' = [mem EXCEPT ![TopMem] = RemoveEntry(@, Top.i)] /\ acts' = Queue(e)
        BY <3>2, <3>3 DEF SweepValue
      <4>2. Taking(e)
        BY <1>1, <1>2, <2>1, <3>2, <4>1 DEF Taking
      <4> QED BY <2>4, <3>3, <4>1, <4>2, SweepValueTree
    <3>4. CASE mem[TopMem].color # "WHITE"
      <4>1. UNCHANGED <<mem, acts>>
        BY <3>2, <3>4 DEF SweepValue
      <4> QED BY <1>1, <1>2, <2>1, <3>2, <3>4, <4>1, SweepPassTree
    <3> QED BY <3>3, <3>4
  <2> QED BY <2>3, <2>4
<1> QED BY <1>4, <1>5

\* What the activation on top has in hand when the one it called has returned.
Handed(e, m, h) ==
  /\ Top.ph # "enter" /\ Top.i \in 1..mem[m].size /\ Top.i >= 1
  /\ m \in AllMem /\ Tidy(mem[m]) /\ IsHeapRef(e)
  /\ h \in Heap /\ h \in AllHeap /\ h \in Stored(mem[m]) /\ h \notin Binned(acts)
  /\ heap[h].st = "live" /\ heap[h].mem \in Mem /\ heap[h].mem \in AllMem
  /\ mem[heap[h].mem].st = "live" /\ heap[h].mem \notin Condemned /\ heap[h].mem # m
  /\ (mem[heap[h].mem].color = "WHITE" <=> heap[h].deallocated)
  /\ mem[heap[h].mem].color = "WHITE" => mem[heap[h].mem].size = 0

LEMMA HandOk ==
  ASSUME Strong, Tree, pc = "sweep", stack # <<>>, Top.ph \in {"back", "drain"},
         NEW e, NEW m, NEW h, e = mem[TopMem].slots[Top.i], m = TopMem, h = e.ptr
  PROVE  Handed(e, m, h)
<1>1. /\ RefMem \in Mem /\ RefMem \in AllMem /\ RefMem # TopMem
      /\ Top.i \in 1..mem[TopMem].size /\ Top.i >= 1 /\ IsHeapRef(TopEntry)
  BY RefFacts DEF Strong
<1>2. Top.ph # "enter"
  OBVIOUS
<1>3. PICK n, t, i : n = Len(stack) /\ t = Top.h /\ i = Top.i
  BY Zenon
<1>4. /\ n \in 1..n /\ Top = stack[n] /\ stack[n].h = t /\ stack[n].i = i /\ m = heap[t].mem
      /\ m \in AllMem /\ Tidy(mem[m])
  BY <1>2, <1>3, SweepTop
<1>5. e = TopEntry /\ RefMem = heap[h].mem
  BY DEF TopEntry, RefMem
<1>6. i \in 1..mem[m].size /\ e = mem[m].slots[i] /\ IsHeapRef(mem[m].slots[i])
  BY <1>1, <1>3, <1>5
<1>7. /\ h \in Heap /\ h \in AllHeap /\ h \in Stored(mem[m]) /\ h \notin Binned(acts)
      /\ heap[h].st = "live" /\ HeapOk(h)
  BY <1>4, <1>6, StoredOk
<1>8. mem[heap[h].mem].st = "live"
  BY <1>7 DEF HeapOk
<1>9. heap[h].mem \notin Condemned
  BY <1>7, NotDoomed
<1>10. Swept(heap, mem, stack)
  BY SweepStack
<1>11. mem[heap[h].mem].color = "WHITE" <=> heap[h].deallocated
  BY <1>7, <1>10 DEF Swept, Shade
<1>12. mem[heap[h].mem].color = "WHITE" => mem[heap[h].mem].size = 0
  <2>1. Child(heap, mem, stack[n].h, stack[n].i) = h
    BY <1>3, <1>4, <1>6 DEF Child
  <2>2. stack[n].ph \in {"back", "drain"}
    BY <1>4
  <2>3. Shade(heap, mem, h) = "WHITE" => mem[heap[h].mem].size = 0
    BY <1>3, <1>10, <2>1, <2>2 DEF Swept
  <2> QED BY <2>3 DEF Shade
<1> QED BY <1>1, <1>2, <1>3, <1>4, <1>5, <1>6, <1>7, <1>8, <1>9, <1>11, <1>12 DEF Handed

\* The activation goes on to empty what it has in hand.
LEMMA SweptDrain ==
  ASSUME Strong, Tree, pc = "sweep", stack # <<>>, Top.ph = "back",
         NEW F, \A x \in AllMem : /\ F[x].slots = mem[x].slots /\ F[x].size = mem[x].size
                                  /\ F[x].color = mem[x].color
  PROVE  Swept(heap, F, Goto("drain", Top.i))
<1>0. Top.ph # "enter"
  OBVIOUS
<1>1. PICK n, t, m, i : n = Len(stack) /\ t = Top.h /\ m = TopMem /\ i = Top.i
  BY Zenon
<1>2. /\ n \in Nat /\ n >= 1 /\ n \in 1..n /\ Top = stack[n] /\ stack[n].h = t /\ stack[n].i = i
      /\ t \in AllHeap /\ i \in Nat
  BY <1>0, <1>1, SweepTop
<1>3. PICK s : s = Goto("drain", i)
  BY Zenon
<1>4. /\ stack \in Seq(FrameT) /\ Swept(heap, mem, stack)
      /\ \A k \in 1..n : stack[k].h \in AllHeap /\ heap[stack[k].h].st = "live"
  BY <1>1, SweepStack
<1>5. /\ Len(s) = n /\ \A k \in 1..n - 1 : s[k] = stack[k]
      /\ s[n] = [h |-> t, ph |-> "drain", i |-> i]
  BY <1>1, <1>2, <1>3, <1>4, GotoFacts
<1>6. s[n].h = t /\ s[n].i = i /\ s[n].ph = "drain"
  BY <1>5
<1>7. \A g \in AllHeap : heap[g].st = "live" =>
        Shade(heap, F, g) = Shade(heap, mem, g) /\ F[heap[g].mem].size = mem[heap[g].mem].size
        /\ \A j : Child(heap, F, g, j) = Child(heap, mem, g, j)
  BY ChildLive DEF Shade, Child
<1>8. \A g \in AllHeap : heap[g].st = "live" => (Shade(heap, F, g) = "WHITE" <=> heap[g].deallocated)
  BY <1>4, <1>7 DEF Swept
<1>9. \A k \in 1..n : s[k].ph # "enter" /\ Shade(heap, F, s[k].h) = "WHITE" =>
        s[k].i = F[heap[s[k].h].mem].size
  <2> SUFFICES ASSUME NEW k \in 1..n, s[k].ph # "enter", Shade(heap, F, s[k].h) = "WHITE"
               PROVE  s[k].i = F[heap[s[k].h].mem].size
    OBVIOUS
  <2>1. s[k].h = stack[k].h /\ s[k].i = stack[k].i /\ stack[k].ph # "enter"
    <3>1. CASE k = n
      BY <1>0, <1>2, <1>6, <3>1
    <3>2. CASE k # n
      <4>1. k \in 1..n - 1
        BY <1>2, <3>2
      <4> QED BY <1>5, <4>1
    <3> QED BY <3>1, <3>2
  <2>2. stack[k].h \in AllHeap /\ heap[stack[k].h].st = "live"
    BY <1>4
  <2>3. Shade(heap, mem, stack[k].h) = "WHITE"
    BY <1>7, <2>1, <2>2
  <2>4. stack[k].i = mem[heap[stack[k].h].mem].size
    BY <1>1, <1>4, <2>1, <2>3 DEF Swept
  <2> QED BY <1>7, <2>1, <2>2, <2>4
<1>10. LET h == Child(heap, F, s[n].h, s[n].i)
       IN  Shade(heap, F, h) = "WHITE" => F[heap[h].mem].size = 0
  <2>1. PICK e, h : e = mem[TopMem].slots[Top.i] /\ h = e.ptr
    BY Zenon
  <2>2. /\ h \in AllHeap /\ heap[h].st = "live"
        /\ mem[heap[h].mem].color = "WHITE" => mem[heap[h].mem].size = 0
    <3>1. Handed(e, TopMem, h)
      BY <2>1, HandOk
    <3> QED BY <3>1 DEF Handed
  <2>3. Child(heap, F, s[n].h, s[n].i) = h
    <3>1. Child(heap, mem, t, i) = h
      BY <1>1, <2>1 DEF Child, TopMem
    <3> QED BY <1>2, <1>4, <1>6, <1>7, <3>1
  <2> QED BY <1>7, <2>2, <2>3 DEF Shade
<1>11. Swept(heap, F, s)
  BY <1>5, <1>8, <1>9, <1>10 DEF Swept
<1> QED BY <1>1, <1>3, <1>11

\* The activation called for a reference has returned.
LEMMA SweepBackTree ==
  ASSUME Strong, Strong', Tree, SweepBack
  PROVE  Tree'
<1>1. /\ pc = "sweep" /\ pc' = pc /\ stack # <<>> /\ Top.ph = "back" /\ Top.ph # "enter"
      /\ Top.ph \in {"back", "drain"}
      /\ UNCHANGED <<obj, payload, heap, deallocCount, inside>>
  BY DEF SweepBack, AtFrame
<1>2. PICK m, i, e, h, r : /\ m = TopMem /\ i = Top.i /\ e = mem[TopMem].slots[Top.i]
                           /\ h = e.ptr /\ r = heap[e.ptr].mem
  BY Zenon
<1>3. /\ i >= 1 /\ i \in 1..mem[m].size /\ m \in AllMem /\ r = heap[h].mem
      /\ h \in Heap /\ h \in Stored(mem[m]) /\ heap[h].st = "live"
      /\ r \in AllMem /\ mem[r].st = "live" /\ r \notin Condemned /\ r # m
      /\ (mem[r].color = "WHITE" <=> heap[h].deallocated)
      /\ mem[r].color = "WHITE" => mem[r].size = 0
  <2>1. /\ Top.i \in 1..mem[m].size /\ Top.i >= 1 /\ m \in AllMem
        /\ h \in Heap /\ h \in Stored(mem[m]) /\ heap[h].st = "live" /\ heap[h].mem \in AllMem
        /\ mem[heap[h].mem].st = "live" /\ heap[h].mem \notin Condemned /\ heap[h].mem # m
        /\ (mem[heap[h].mem].color = "WHITE" <=> heap[h].deallocated)
        /\ mem[heap[h].mem].color = "WHITE" => mem[heap[h].mem].size = 0
    <3>1. pc = "sweep" /\ stack # <<>> /\ Top.ph \in {"back", "drain"}
      BY <1>1
    <3>2. e = mem[TopMem].slots[Top.i] /\ m = TopMem /\ h = e.ptr
      BY <1>2
    <3>3. Handed(e, m, h)
      BY <3>1, <3>2, HandOk, Zenon
    <3> QED BY <3>3 DEF Handed
  <2>2. r = heap[h].mem /\ i = Top.i
    BY <1>2
  <2> QED BY <2>1, <2>2
<1>4. ~mem[r].keep
  <2>1. MemColors(mem, Condemned, Draining(heap, mem, stack))
    BY <1>1 DEF Strong, Colors
  <2>2. Draining(heap, mem, stack) = {}
    <3>1. Top = stack[Len(stack)]
      BY <1>1, SweepFacts DEF Strong
    <3> QED BY <1>1, <3>1 DEF Draining
  <2> QED BY <1>3, <2>1, <2>2 DEF MemColors
<1>5. IF mem[r].color = "WHITE"
      THEN /\ mem' = [mem EXCEPT ![r].keep = TRUE]
           /\ stack' = Goto("drain", Top.i) /\ UNCHANGED acts
      ELSE stack' = Goto("scan", Top.i - 1) /\ UNCHANGED <<mem, acts>>
  BY <1>2, <1>4 DEF SweepBack
<1>6. CASE mem[r].color = "WHITE"
  <2>1. PICK F, s : F = mem' /\ s = stack'
    BY Zenon
  <2>2. F = [mem EXCEPT ![r].keep = TRUE] /\ s = Goto("drain", i) /\ acts' = acts
    BY <1>2, <1>5, <1>6, <2>1
  <2>3. \A x \in AllMem : /\ F[x].st = mem[x].st /\ F[x].slots = mem[x].slots /\ F[x].size = mem[x].size
                          /\ F[x].color = mem[x].color
    <3>1. mem \in [AllMem -> Memory] /\ mem[r] \in Memory
      BY <1>3, TreeFacts DEF GoodMem
    <3>2. F[r] = [mem[r] EXCEPT !.keep = TRUE] /\ \A x \in AllMem : x # r => F[x] = mem[x]
      BY <1>3, <2>2, <3>1
    <3>3. /\ F[r].st = mem[r].st /\ F[r].slots = mem[r].slots /\ F[r].size = mem[r].size
          /\ F[r].color = mem[r].color
      BY <3>1, <3>2 DEF Memory
    <3> QED BY <3>2, <3>3
  <2>4. Swept(heap, F, s)
    BY <1>1, <1>2, <2>2, <2>3, SweptDrain
  <2>5. Swept(heap, mem', stack')
    BY <2>1, <2>4
  <2> QED BY <1>1, <2>1, <2>2, <2>3, <2>5, ScanTree
<1>7. CASE mem[r].color # "WHITE"
  <2>1. mem[m].color # "WHITE"
    <3>1. PICK t : t = Top.h
      BY Zenon
    <3>2. t \in AllHeap /\ m = heap[t].mem /\ heap[t].st = "live"
      BY <1>1, <1>2, <3>1, SweepTop
    <3>3. Swept(heap, mem, stack)
      BY <1>1, SweepStack
    <3>4. mem[m].color = "WHITE" => heap[t].deallocated
      BY <3>2, <3>3 DEF Swept, Shade
    <3>5. heap[t].deallocated => heap[h].deallocated
      BY <1>3, <3>2, ChildDead
    <3> QED BY <1>3, <1>7, <3>4, <3>5
  <2> QED BY <1>1, <1>2, <1>3, <1>5, <1>7, <2>1, SweepPassTree
<1> QED BY <1>6, <1>7

\* A Memory with no entry left has no index left.
LEMMA EmptyIsDrained ==
  ASSUME NEW M, Sized(M), Matched(M), M.size = 0
  PROVE  M.indexes = <<>>
<1>1. M.indexes \in Seq(Nat)
  BY DEF Sized, Memory
<1> SUFFICES ASSUME M.indexes # <<>> PROVE FALSE
  OBVIOUS
<1>2. PICK x : x = M.indexes[1]
  BY Zenon
<1>3. 1 \in 1..Len(M.indexes) /\ Len(M.indexes) \in Nat /\ x \in Nat
  BY <1>1, <1>2
<1>4. 1 \in At(M.indexes, Len(M.indexes), x)
  BY <1>2, <1>3 DEF At
<1>5. IndexCount(M, x) # 0
  BY <1>3, <1>4, CountType DEF IndexCount
<1>6. EntryCount(M, x) = 0
  <2>1. At(Indexes(M), 0, x) = {}
    BY DEF At
  <2>2. Count(Indexes(M), 0, x) = 0
    BY <2>1, CountType
  <2> QED BY <2>2 DEF EntryCount
<1> QED BY <1>3, <1>5, <1>6 DEF Matched

\* The reference in hand, whose Memory is empty, is queued with that Memory.
LEMMA SweepHeapTree ==
  ASSUME Strong, Tree, NEW e, Taking(e), Top.ph = "drain", NEW m, NEW h, NEW r,
         m = TopMem, h = e.ptr, r = heap[h].mem, mem[r].color = "WHITE",
         acts' = Queue2(e, <<r>>)
  PROVE  Tree'
<1>0. /\ pc = "sweep" /\ stack # <<>> /\ Top.ph \in {"back", "drain"}
      /\ e = mem[TopMem].slots[Top.i]
  BY DEF Taking
<1>1. Handed(e, m, h)
  BY <1>0, HandOk, Zenon
<1>2. /\ m \in AllMem /\ h \in Heap /\ h \in Stored(mem[m]) /\ h \notin Binned(acts)
      /\ r \in Mem /\ r \in AllMem /\ r \notin Condemned /\ heap[h].deallocated /\ mem[r].size = 0
  BY <1>1 DEF Handed
<1>3. /\ AllTidy(mem') /\ Life(mem') = Life(mem) /\ Swept(heap, mem', stack')
      /\ mem'[RootMem].st = mem[RootMem].st
      /\ Store(mem')[m] = Store(mem)[m] \ {e.ptr}
      /\ \A x \in AllMem : x # m => Store(mem')[x] = Store(mem)[x]
  BY TakeFacts
<1>4. /\ Data(obj, payload, heap, Life(mem), Store(mem), Binned(acts), Doomed(acts))
      /\ Typed(obj, payload, heap)
  BY TreeFacts
<1>5. acts \in Seq(Act) /\ acts # <<>> /\ Len(acts) = 1 /\ Once(acts[1])
  BY <1>0, SweepStack
<1>6. /\ Binned(acts') = Binned(acts) \cup {h} /\ Len(acts') = 1 /\ Once(acts'[1])
      /\ Doomed(acts') = Doomed(acts) \cup {r}
  <2>1. e.ptr \in Heap \cup Payload /\ e.ptr \notin Binned(acts)
    BY <1>2
  <2>2. /\ Binned(Queue2(e, <<r>>)) = Binned(acts) \cup {e.ptr}
        /\ Len(Queue2(e, <<r>>)) = 1 /\ Once(Queue2(e, <<r>>)[1])
    BY <1>2, <1>5, <2>1, QueueBin
  <2>3. Doomed(Queue2(e, <<r>>)) = Condemned \cup {r}
    BY <1>2, <1>5, QueueDoomed
  <2> QED BY <2>2, <2>3 DEF Condemned
<1>7. PICK V, C, D : V = Store(mem') /\ C = Binned(acts') /\ D = Doomed(acts')
  BY Zenon
<1>8. h \in Store(mem)[m] /\ Store(mem)[heap[h].mem] = {}
  <2>1. \A x \in AllMem : Store(mem)[x] = Stored(mem[x]) /\ Sized(mem[x])
    BY TreeFacts
  <2>2. Stored(mem[r]) = {}
    BY <1>2, <2>1, EmptyStored
  <2> QED BY <1>2, <2>1, <2>2
<1>9. Data(obj, payload, heap, Life(mem), V, C, D)
  <2>1. V[m] = Store(mem)[m] \ {h} /\ \A x \in AllMem : x # m => V[x] = Store(mem)[x]
    BY <1>3, <1>7
  <2>2. C = Binned(acts) \cup {h} /\ D = Doomed(acts) \cup {heap[h].mem}
    BY <1>6, <1>7
  <2>3. PICK T, S, B, E : T = Life(mem) /\ S = Store(mem) /\ B = Binned(acts) /\ E = Doomed(acts)
    BY Zenon
  <2>4. Typed(obj, payload, heap) /\ Data(obj, payload, heap, T, S, B, E)
    BY <1>4, <2>3
  <2>5. HeapTaken(heap, S, B, E, V, C, D, m, h)
    BY <1>2, <1>8, <2>1, <2>2, <2>3 DEF HeapTaken
  <2>6. m \in AllMem /\ h \in Heap
    BY <1>2
  <2>7. Data(obj, payload, heap, T, V, C, D)
    BY <2>4, <2>5, <2>6, TakeHeapView, Zenon
  <2> QED BY <2>3, <2>7
<1>10. Data(obj, payload, heap, Life(mem), Store(mem'), Binned(acts'), Doomed(acts'))
  BY <1>7, <1>9
<1> QED BY <1>3, <1>6, <1>10, TakenTree

LEMMA SweepDrainTree ==
  ASSUME Strong, Strong', Tree, SweepDrain
  PROVE  Tree'
<1>1. /\ pc = "sweep" /\ pc' = pc /\ stack # <<>> /\ Top.ph = "drain" /\ Top.ph # "enter"
      /\ Top.ph \in {"back", "drain"} /\ UNCHANGED <<obj, payload, heap, deallocCount, inside>>
  BY DEF SweepDrain, AtFrame
<1>2. PICK e, m, h, r : /\ e = mem[TopMem].slots[Top.i] /\ m = TopMem
                        /\ h = e.ptr /\ r = heap[e.ptr].mem
  BY Zenon
<1>3. Handed(e, m, h)
  BY <1>1, <1>2, HandOk, Zenon
<1>4. mem[r].color = "WHITE"
  <2>1. Sweeps
    BY <1>1 DEF Strong, Sweeps
  <2>2. /\ Sweeping(heap, mem, stack, Condemned) /\ Len(stack) \in Nat /\ Len(stack) >= 1
        /\ Top = stack[Len(stack)] /\ EntryMem(heap, mem, stack, Len(stack)) = RefMem
    BY <2>1, SweepColorFacts
  <2>3. Len(stack) \in 1..Len(stack)
    BY <2>2
  <2>4. mem[RefMem].color = "WHITE"
    BY <1>1, <2>2, <2>3 DEF Sweeping, Shaded
  <2> QED BY <1>2, <2>4 DEF RefMem, TopEntry
<1>5. mem[r].size = 0 /\ r \in AllMem /\ Top.i >= 1 /\ r = heap[h].mem
  BY <1>2, <1>3, <1>4 DEF Handed
<1>6. mem[r].indexes = <<>>
  <2>1. Sized(mem[r])
    BY <1>5, TreeFacts
  <2>2. Matched(mem[r])
    BY <1>5 DEF Strong, AllMatched
  <2> QED BY <1>5, <2>1, <2>2, EmptyIsDrained
<1>7. /\ mem' = [mem EXCEPT ![TopMem] = RemoveEntry(@, Top.i)]
      /\ acts' = Queue2(e, <<r>>) /\ stack' = Goto("scan", Top.i - 1)
  BY <1>2, <1>5, <1>6 DEF SweepDrain
<1>8. Taking(e)
  BY <1>1, <1>2, <1>5, <1>7 DEF Taking
<1> QED BY <1>1, <1>2, <1>4, <1>5, <1>7, <1>8, SweepHeapTree

\* The sweep is over: a heap that is neither queued nor still in scope is none.
LEMMA SweepDoneTree ==
  ASSUME Strong, Strong', Tree, SweepDone
  PROVE  Tree'
<1>1. /\ pc = "sweep" /\ stack = <<>> /\ pc' = "destroy" /\ inside' = TRUE
      /\ UNCHANGED <<obj, payload, heap, mem, deallocCount, stack, acts>>
  BY DEF SweepDone
<1>2. GoodMem(mem')
  BY <1>1, TreeFacts
<1>3. \A m \in AllMem : /\ mem'[m].st = mem[m].st
                        /\ mem'[m].slots = mem[m].slots /\ mem'[m].size = mem[m].size
  BY <1>1
<1>4. TreeData'
  BY <1>1, <1>2, <1>3, SameView
<1>5. TreeControl'
  <2>1. mem[RootMem].st = "live" /\ Len(acts) <= 1 /\ (acts # <<>> => Once(acts[1]))
    BY <1>1 DEF Tree, TreeControl
  <2> QED BY <1>1, <2>1 DEF TreeControl
<1>6. Cleared
  <2> SUFFICES ASSUME NEW h \in Heap, heap[h].st = "live", h \notin Binned(acts)
               PROVE  ~heap[h].deallocated
    BY DEF Cleared
  <2>1. PICK m : m = heap[h].mem
    BY Zenon
  <2>2. h \in AllHeap /\ m \in AllMem /\ m # RootMem /\ m \notin Condemned
    <3>1. Used(heap, h)
      BY DEF Used
    <3> QED BY <2>1, <3>1, UsedMem, NotDoomed, TreeFacts
  <2>3. mem[m].st = "live"
    <3>1. HeapLives(heap, Life(mem), Doomed(acts))
      BY TreeFacts DEF Data, Reclaimed
    <3> QED BY <2>1, <2>2, <3>1, ViewOf DEF HeapLives
  <2>4. mem[m].color = "GRAY"
    <3>1. Owed(mem', Condemned') \subseteq {RootMem}
      BY <1>1 DEF Strong, Colors
    <3>2. Condemned' = Condemned
      BY <1>1 DEF Condemned
    <3>3. m \notin Owed(mem, Condemned)
      BY <1>1, <2>2, <3>1, <3>2
    <3> QED BY <2>2, <2>3, <3>3 DEF Owed
  <2>5. Swept(heap, mem, stack)
    BY <1>1, SweepStack
  <2> QED BY <2>1, <2>2, <2>4, <2>5 DEF Swept, Shade
<1>7. TreePhase'
  <2>1. Cleared'
    BY <1>1, <1>6 DEF Cleared
  <2> QED BY <1>1, <2>1 DEF TreePhase
<1> QED BY <1>4, <1>5, <1>7 DEF Tree

\* The frames of mark() and do_sweep() are of heaps that exist.
LEMMA NoCollectorFault ==
  ASSUME Strong, Tree
  PROVE  ~CollectorFault
<1>1. ASSUME NEW phase \in {"mark", "sweep"}, AtFrame(phase, "enter"), ~HeapOk(Top.h)
      PROVE  FALSE
  <2>1. pc = phase /\ stack # <<>>
    BY <1>1 DEF AtFrame
  <2>2. /\ stack \in Seq(FrameT) /\ \A k \in 1..Len(stack) : HeapOk(stack[k].h)
    BY <2>1, MarkStack, SweepStack
  <2>3. Len(stack) \in 1..Len(stack) /\ Top = stack[Len(stack)]
    BY <2>1, <2>2 DEF Top, Last
  <2> QED BY <1>1, <2>2, <2>3
<1>2. ASSUME AtFrame("sweep", "scan"), Top.i > 0, IsHeapRef(mem[TopMem].slots[Top.i]),
             ~HeapOk(mem[TopMem].slots[Top.i].ptr)
      PROVE  FALSE
  <2>1. pc = "sweep" /\ stack # <<>> /\ Top.ph # "enter"
    BY <1>2 DEF AtFrame
  <2>2. TopMem \in AllMem /\ Top.i \in Nat /\ mem[TopMem].size \in Nat /\ Top.i <= mem[TopMem].size
    BY <2>1, SweepTop
  <2>3. Top.i \in 1..mem[TopMem].size
    BY <1>2, <2>2
  <2> QED BY <1>2, <2>2, <2>3, StoredOk
<1> QED BY <1>1, <1>2 DEF CollectorFault

----------------------------------------------------------------------------
(* The destructors.                                                        *)

\* The queues with one activation.
LEMMA OneAct ==
  ASSUME NEW A, Len(A) = 1, A # <<>>
  PROVE  /\ Binned(A) = Listed(A[1]) \cap (Heap \cup Payload)
         /\ Doomed(A) = Queued(A[1]) \cap AllMem
<1>1. \A k \in 1..Len(A) : k = 1
  OBVIOUS
<1>2. 1 \in 1..Len(A)
  OBVIOUS
<1> QED BY <1>1, <1>2 DEF Binned, Doomed

\* The last item is destroyed: it was queued once.
LEMMA LastItem ==
  ASSUME NEW a, Once(a), a.list \in Seq(Item), a.list # <<>>,
         NEW b, b.list = Front(a.list), b.mlist = a.mlist
  PROVE  /\ Last(a.list).ptr \in Listed(a) /\ Listed(b) = Listed(a) \ {Last(a.list).ptr}
         /\ Queued(b) = Queued(a) /\ Once(b)
<1>1. PICK s, t, n : s = a.list /\ t = b.list /\ n = Len(s)
  BY Zenon
<1>2. /\ Len(t) = n - 1 /\ n \in Nat /\ n >= 1 /\ Last(s) = s[n]
      /\ \A k \in 1..n - 1 : t[k] = s[k] /\ k \in 1..n
  <2>1. s \in Seq(Item) /\ s # <<>>
    BY <1>1
  <2>2. n \in Nat /\ n >= 1
    BY <1>1, <2>1
  <2>3. Len(t) = n - 1 /\ \A k \in 1..n - 1 : t[k] = s[k]
    BY <1>1, <2>1, FrontFacts
  <2> QED BY <1>1, <2>2, <2>3 DEF Last
<1>3. \A i, j \in 1..n : s[i].ptr = s[j].ptr => i = j
  BY <1>1 DEF Once
<1>4. Listed(a) = {s[j].ptr : j \in 1..n} /\ Listed(b) = {t[j].ptr : j \in 1..n - 1}
  BY <1>1, <1>2 DEF Listed
<1>5. \A j \in 1..n : j = n \/ j \in 1..n - 1
  BY <1>2
<1>6. n \in 1..n /\ n \notin 1..n - 1
  BY <1>2
<1>7. s[n].ptr \in Listed(a)
  BY <1>4, <1>6
<1>8. Listed(b) = Listed(a) \ {s[n].ptr}
  BY <1>2, <1>3, <1>4, <1>5, <1>6
<1>9. Listed(b) \subseteq Heap \cup Payload
  BY <1>8 DEF Once
<1>10. \A i, j \in 1..Len(b.list) : b.list[i].ptr = b.list[j].ptr => i = j
  <2>1. \A i, j \in 1..n - 1 : t[i].ptr = t[j].ptr => i = j
    BY <1>2, <1>3
  <2> QED BY <1>1, <1>2, <2>1
<1>11. Once(b)
  BY <1>9, <1>10 DEF Once
<1>12. Queued(b) = Queued(a)
  BY DEF Queued
<1> QED BY <1>1, <1>2, <1>7, <1>8, <1>11, <1>12

\* The last Memory is destroyed.
LEMMA LastMem ==
  ASSUME NEW a, Once(a), a.mlist \in Seq(Mem), a.mlist # <<>>,
         NEW b, b.list = a.list, b.mlist = Front(a.mlist)
  PROVE  /\ Last(a.mlist) \in Queued(a) /\ Last(a.mlist) \in Mem
         /\ Queued(b) = Queued(a) \ {Last(a.mlist)} /\ Listed(b) = Listed(a) /\ Once(b)
<1>1. PICK s, t, n : s = a.mlist /\ t = b.mlist /\ n = Len(s)
  BY Zenon
<1>2. /\ Len(t) = n - 1 /\ n \in Nat /\ n >= 1 /\ Last(s) = s[n] /\ s[n] \in Mem
      /\ \A k \in 1..n - 1 : t[k] = s[k] /\ k \in 1..n
  <2>1. s \in Seq(Mem) /\ s # <<>>
    BY <1>1
  <2>2. n \in Nat /\ n >= 1 /\ s[n] \in Mem
    BY <1>1, <2>1
  <2>3. Len(t) = n - 1 /\ \A k \in 1..n - 1 : t[k] = s[k]
    BY <1>1, <2>1, FrontFacts
  <2> QED BY <1>1, <2>2, <2>3 DEF Last
<1>3. \A i, j \in 1..n : s[i] = s[j] => i = j
  BY <1>1 DEF Once
<1>4. Queued(a) = {s[j] : j \in 1..n} /\ Queued(b) = {t[j] : j \in 1..n - 1}
  BY <1>1, <1>2 DEF Queued
<1>5. \A j \in 1..n : j = n \/ j \in 1..n - 1
  BY <1>2
<1>6. n \in 1..n /\ n \notin 1..n - 1
  BY <1>2
<1>7. s[n] \in Queued(a)
  BY <1>4, <1>6
<1>8. Queued(b) = Queued(a) \ {s[n]}
  BY <1>2, <1>3, <1>4, <1>5, <1>6
<1>9. \A i, j \in 1..Len(b.mlist) : b.mlist[i] = b.mlist[j] => i = j
  <2>1. \A i, j \in 1..n - 1 : t[i] = t[j] => i = j
    BY <1>2, <1>3
  <2> QED BY <1>1, <1>2, <2>1
<1>10. Once(b) /\ Listed(b) = Listed(a)
  BY <1>9 DEF Once, Listed
<1> QED BY <1>1, <1>2, <1>7, <1>8, <1>10

\* The state in which destructors run.
LEMMA DestroyFacts ==
  ASSUME Strong, Tree, pc = "destroy"
  PROVE  /\ acts \in Seq(Act) /\ acts # <<>> /\ Len(acts) = 1 /\ ActTop = acts[1]
         /\ Once(acts[1]) /\ acts[1] \in Act /\ Listed(acts[1]) \subseteq Heap \cup Payload
         /\ Binned(acts) = Listed(acts[1]) /\ Doomed(acts) = Queued(acts[1])
         /\ Data(obj, payload, heap, Life(mem), Store(mem), Binned(acts), Doomed(acts))
         /\ Typed(obj, payload, heap) /\ Cleared /\ mem[RootMem].st = "live"
<1>1. acts \in Seq(Act) /\ acts # <<>>
  BY DEF Strong, Inductive, GoodControl
<1>2. Len(acts) <= 1 /\ Once(acts[1]) /\ mem[RootMem].st = "live" /\ Cleared
  BY <1>1 DEF Tree, TreeControl, TreePhase
<1>3. Len(acts) = 1 /\ acts[1] \in Act
  <2>1. PICK A : A = acts
    BY Zenon
  <2>2. A \in Seq(Act) /\ A # <<>> /\ Len(A) <= 1
    BY <1>1, <1>2, <2>1
  <2>3. Len(A) \in Nat /\ Len(A) # 0
    BY <2>2
  <2>4. Len(A) = 1
    <3>1. PICK n : n = Len(A)
      BY Zenon
    <3>2. n \in Nat /\ n # 0 /\ n <= 1
      BY <2>2, <2>3, <3>1, Zenon
    <3> QED BY <3>1, <3>2
  <2>5. A[1] \in Act
    BY <2>2, <2>4
  <2> QED BY <2>1, <2>4, <2>5
<1>4. ActTop = acts[1]
  BY <1>3 DEF ActTop, Last
<1>5. Listed(acts[1]) \subseteq Heap \cup Payload
  BY <1>2 DEF Once
<1>6. Queued(acts[1]) \subseteq AllMem
  <2>1. acts[1].mlist \in Seq(Mem)
    BY <1>3 DEF Act
  <2> QED BY <2>1 DEF Queued, AllMem
<1>7. Binned(acts) = Listed(acts[1]) /\ Doomed(acts) = Queued(acts[1])
  BY <1>1, <1>3, <1>5, <1>6, OneAct
<1> QED BY <1>1, <1>2, <1>3, <1>4, <1>5, <1>7, TreeFacts

\* A destructor leaves the phase.
LEMMA DestroyTreeJoin ==
  ASSUME Strong, Tree, pc = "destroy", pc' = pc, Len(acts') = 1, Once(acts'[1]), AllTidy(mem'),
         Data(obj', payload', heap', Life(mem'), Store(mem'), Binned(acts'), Doomed(acts')),
         mem'[RootMem].st = "live", Cleared'
  PROVE  Tree'
<1>1. TreeData'
  BY DEF TreeData
<1>2. TreeControl'
  BY DEF TreeControl
<1>3. TreePhase'
  BY DEF TreePhase
<1> QED BY <1>1, <1>2, <1>3 DEF Tree

\* A heap or a payload that was queued is deleted once.
LEMMA RunDestructorTree ==
  ASSUME Strong, Strong', Tree, Uses \subseteq {"byRef"}, RunDestructor
  PROVE  Tree'
<1>1. pc = "destroy" /\ ActTop.list # <<>> /\ UNCHANGED <<mem, deallocCount, inside, stack>>
  BY DEF RunDestructor
<1>2. PICK a, q, p : a = acts[1] /\ q = Last(a.list) /\ p = q.ptr
  BY Zenon
<1>3. /\ acts \in Seq(Act) /\ acts # <<>> /\ Len(acts) = 1 /\ ActTop = a
      /\ Once(a) /\ a \in Act /\ Listed(a) \subseteq Heap \cup Payload
      /\ Binned(acts) = Listed(a) /\ Doomed(acts) = Queued(a)
      /\ mem[RootMem].st = "live" /\ Cleared
  BY <1>1, <1>2, DestroyFacts
<1>4. a.list \in Seq(Item) /\ a.list # <<>>
  BY <1>1, <1>3 DEF Act
<1>5. PICK b : b = [a EXCEPT !.list = Front(a.list)]
  BY Zenon
<1>6. b.list = Front(a.list) /\ b.mlist = a.mlist
  BY <1>3, <1>5 DEF Act
<1>7. /\ p \in Listed(a) /\ Listed(b) = Listed(a) \ {p} /\ Queued(b) = Queued(a) /\ Once(b)
  BY <1>2, <1>3, <1>4, <1>6, LastItem
<1>8. acts' = [acts EXCEPT ![1] = b]
  <2>1. acts' = [acts EXCEPT ![Len(acts)].list = Front(@)]
    BY DEF RunDestructor
  <2>2. [acts EXCEPT ![1].list = Front(@)] = [acts EXCEPT ![1] = b]
    BY <1>2, <1>3, <1>5
  <2> QED BY <1>3, <2>1, <2>2
<1>9. acts' # <<>> /\ Len(acts') = 1 /\ acts'[1] = b
  BY <1>3, <1>8, SetOne
<1>10. Binned(acts') = Binned(acts) \ {p} /\ Doomed(acts') = Doomed(acts)
  <2>1. Binned(acts') = Listed(b) \cap (Heap \cup Payload) /\ Doomed(acts') = Queued(b) \cap AllMem
    BY <1>9, OneAct
  <2>2. Doomed(acts) = Queued(a) \cap AllMem
    BY <1>2, <1>3, OneAct
  <2> QED BY <1>3, <1>7, <2>1, <2>2
<1>11. p \in Binned(acts) /\ p \in Heap \cup Payload
  BY <1>3, <1>7
<1>12. \/ p \in Heap /\ heap[p].st = "live"
       \/ p \in Payload /\ payload[p].st = "held"
  <2>1. BinDead(payload, heap, Binned(acts), Doomed(acts))
    BY TreeFacts DEF Data, Reclaimed
  <2> QED BY <1>11, <2>1 DEF BinDead
<1>13. p \notin Obj /\ "callback" \notin Uses /\ (p \in Heap => p \notin Payload)
  BY <1>11, DistinctIds
<1>14. /\ heap' = IF p \in Heap THEN [heap EXCEPT ![p].st = "freed"] ELSE heap
       /\ payload' = IF p \in Payload THEN [payload EXCEPT ![p].st = "destroyed"] ELSE payload
       /\ obj' = obj /\ pc' = pc
  <2>1. PICK ok : ok = \/ p = Null
                       \/ p \in Heap /\ heap[p].st = "live"
                       \/ p \in Payload /\ payload[p].st = "held"
                       \/ p \in Obj /\ obj[p].st = "boxed" /\ heap[obj[p].heap].st = "live"
    BY Zenon
  <2>2. /\ heap' = IF ok /\ p \in Heap THEN [heap EXCEPT ![p].st = "freed"] ELSE heap
        /\ payload' = IF ok /\ p \in Payload
                      THEN [payload EXCEPT ![p].st = "destroyed"] ELSE payload
        /\ obj' = IF ok /\ p \in Obj THEN [obj EXCEPT ![p].st = "gone"] ELSE obj
        /\ pc' = IF ~ok THEN "fault"
                 ELSE IF p \in Payload /\ "callback" \in Uses THEN "callback" ELSE pc
    BY <1>2, <1>3, <2>1 DEF RunDestructor
  <2>3. ok
    BY <1>12, <2>1
  <2> QED BY <1>13, <2>2, <2>3
<1>15. PICK G, I, C : G = heap' /\ I = payload' /\ C = Binned(acts')
  BY Zenon
<1>16. /\ Data(obj, payload, heap, Life(mem), Store(mem), Binned(acts), Doomed(acts))
       /\ Typed(obj, payload, heap) /\ AllTidy(mem)
  BY TreeFacts
<1>17. Data(obj, I, G, Life(mem), Store(mem), C, Doomed(acts)) /\ Cleared'
  <2>1. CASE p \in Heap
    <3>1. G = [heap EXCEPT ![p].st = "freed"] /\ I = payload
      BY <1>13, <1>14, <1>15, <2>1
    <3>2. /\ G[p].st = "freed" /\ G[p].mem = heap[p].mem /\ G[p].deallocated = heap[p].deallocated
          /\ \A g \in AllHeap : g # p => G[g] = heap[g]
      <4>1. heap \in [AllHeap -> HeapT] /\ p \in AllHeap
        BY <1>16, <2>1 DEF Typed, GoodHeap, AllHeap
      <4>2. /\ G[p] = [heap[p] EXCEPT !.st = "freed"] /\ heap[p] \in HeapT
            /\ \A g \in AllHeap : g # p => G[g] = heap[g]
        BY <3>1, <4>1
      <4>3. G[p].st = "freed" /\ G[p].mem = heap[p].mem /\ G[p].deallocated = heap[p].deallocated
        BY <4>2 DEF HeapT
      <4> QED BY <4>2, <4>3
    <3>3. C = Binned(acts) \ {p} /\ p \in Binned(acts)
      BY <1>10, <1>11, <1>15
    <3>4. Data(obj, payload, G, Life(mem), Store(mem), C, Doomed(acts))
      BY <1>16, <2>1, <3>2, <3>3, FreeHeapView
    <3>5. \A h \in Heap : G[h].st = "live" /\ h \notin C => ~G[h].deallocated
      <4>1. \A h \in Heap : h \in AllHeap /\ (G[h].st = "live" => h # p /\ G[h] = heap[h])
        BY <3>2 DEF AllHeap
      <4> QED BY <1>3, <3>3, <4>1 DEF Cleared
    <3>6. Cleared'
      BY <1>15, <3>5 DEF Cleared
    <3> QED BY <3>1, <3>4, <3>6
  <2>2. CASE p \in Payload
    <3>1. I = [payload EXCEPT ![p].st = "destroyed"] /\ G = heap
      BY <1>13, <1>14, <1>15, <2>2
    <3>2. /\ I[p].st = "destroyed" /\ I[p].mem = payload[p].mem
          /\ \A x \in Payload : x # p => I[x] = payload[x]
      <4>1. payload \in [Payload -> PayloadT]
        BY <1>16 DEF Typed
      <4>2. /\ I[p] = [payload[p] EXCEPT !.st = "destroyed"] /\ payload[p] \in PayloadT
            /\ \A x \in Payload : x # p => I[x] = payload[x]
        BY <2>2, <3>1, <4>1
      <4>3. I[p].st = "destroyed" /\ I[p].mem = payload[p].mem
        BY <4>2 DEF PayloadT
      <4> QED BY <4>2, <4>3
    <3>3. C = Binned(acts) \ {p} /\ p \in Binned(acts)
      BY <1>10, <1>11, <1>15
    <3>4. Data(obj, I, heap, Life(mem), Store(mem), C, Doomed(acts))
      BY <1>16, <2>2, <3>2, <3>3, FreeValueView
    <3>5. \A h \in Heap : heap[h].st = "live" /\ h \notin C => ~heap[h].deallocated
      <4>1. \A h \in Heap : h # p
        BY <1>13, <2>2
      <4> QED BY <1>3, <3>3, <4>1 DEF Cleared
    <3>6. Cleared'
      BY <1>15, <3>1, <3>5 DEF Cleared
    <3> QED BY <3>1, <3>4, <3>6
  <2> QED BY <1>11, <2>1, <2>2
<1>18. Data(obj', payload', heap', Life(mem'), Store(mem'), Binned(acts'), Doomed(acts'))
  <2>1. obj' = obj /\ mem' = mem /\ Doomed(acts') = Doomed(acts)
    BY <1>1, <1>10, <1>14
  <2> QED BY <1>15, <1>17, <2>1
<1>19. AllTidy(mem') /\ mem'[RootMem].st = "live" /\ Once(acts'[1])
  BY <1>1, <1>3, <1>7, <1>9, <1>16
<1> QED BY <1>1, <1>9, <1>14, <1>17, <1>18, <1>19, DestroyTreeJoin

\* A Memory that was queued is deleted once, after its heap.
LEMMA RunMemoryDestructorTree ==
  ASSUME Strong, Strong', Tree, RunMemoryDestructor
  PROVE  Tree'
<1>1. /\ pc = "destroy" /\ ActTop.list = <<>> /\ ActTop.mlist # <<>>
      /\ UNCHANGED <<obj, payload, heap, deallocCount, inside, stack>>
  BY DEF RunMemoryDestructor
<1>2. PICK a, m : a = acts[1] /\ m = Last(a.mlist)
  BY Zenon
<1>3. /\ acts \in Seq(Act) /\ acts # <<>> /\ Len(acts) = 1 /\ ActTop = a
      /\ Once(a) /\ a \in Act
      /\ Binned(acts) = Listed(a) /\ Doomed(acts) = Queued(a)
      /\ mem[RootMem].st = "live" /\ Cleared
  BY <1>1, <1>2, DestroyFacts
<1>4. a.list = <<>> /\ a.mlist \in Seq(Mem) /\ a.mlist # <<>>
  BY <1>1, <1>3 DEF Act
<1>5. PICK b : b = [a EXCEPT !.mlist = Front(a.mlist)]
  BY Zenon
<1>6. b.mlist = Front(a.mlist) /\ b.list = a.list
  BY <1>3, <1>5 DEF Act
<1>7. /\ m \in Queued(a) /\ m \in Mem /\ Queued(b) = Queued(a) \ {m} /\ Listed(b) = Listed(a) /\ Once(b)
  BY <1>2, <1>3, <1>4, <1>6, LastMem
<1>8. acts' = [acts EXCEPT ![1] = b]
  <2>1. acts' = [acts EXCEPT ![Len(acts)].mlist = Front(@)]
    BY DEF RunMemoryDestructor
  <2>2. [acts EXCEPT ![1].mlist = Front(@)] = [acts EXCEPT ![1] = b]
    BY <1>2, <1>3, <1>5
  <2> QED BY <1>3, <2>1, <2>2
<1>9. acts' # <<>> /\ Len(acts') = 1 /\ acts'[1] = b
  BY <1>3, <1>8, SetOne
<1>10. Binned(acts) = {} /\ Binned(acts') = {} /\ Doomed(acts') = Doomed(acts) \ {m} /\ m \in Doomed(acts)
  <2>1. Binned(acts') = Listed(b) \cap (Heap \cup Payload) /\ Doomed(acts') = Queued(b) \cap AllMem
    BY <1>9, OneAct
  <2>2. Doomed(acts) = Queued(a) \cap AllMem
    BY <1>2, <1>3, OneAct
  <2>3. Listed(a) = {}
    BY <1>4 DEF Listed
  <2> QED BY <1>3, <1>7, <2>1, <2>2, <2>3
<1>11. /\ Data(obj, payload, heap, Life(mem), Store(mem), {}, Doomed(acts))
       /\ Typed(obj, payload, heap) /\ AllTidy(mem) /\ GoodMem(mem)
  BY <1>10, TreeFacts
<1>12. m \in AllMem /\ m # RootMem /\ mem[m].st = "live"
  <2>1. DoomedDead(heap, Life(mem), {}, Doomed(acts))
    BY <1>11 DEF Data, Reclaimed
  <2>2. m \in AllMem /\ m # RootMem
    BY <1>7, DistinctIds DEF AllMem
  <2>3. Life(mem)[m] = "live"
    BY <1>10, <2>1 DEF DoomedDead
  <2> QED BY <2>2, <2>3, ViewOf
<1>13. PICK F, U : F = mem' /\ U = Life(mem')
  BY Zenon
<1>14. F = [mem EXCEPT ![m].st = "freed"] /\ pc' = pc
  BY <1>2, <1>3, <1>12, <1>13 DEF RunMemoryDestructor
<1>15. /\ \A x \in AllMem : F[x].slots = mem[x].slots /\ F[x].size = mem[x].size /\ F[x] \in Memory
       /\ \A x \in AllMem : x # m => F[x].st = mem[x].st
       /\ F[m].st = "freed"
  <2>1. mem \in [AllMem -> Memory]
    BY <1>11 DEF GoodMem
  <2>2. F[m] = [mem[m] EXCEPT !.st = "freed"] /\ \A x \in AllMem : x # m => F[x] = mem[x]
    BY <1>12, <1>14, <2>1
  <2>3. PICK M, N : M = mem[m] /\ N = F[m]
    BY Zenon
  <2>4. M \in Memory /\ N = [M EXCEPT !.st = "freed"]
    BY <1>12, <2>1, <2>2, <2>3
  <2>5. N \in Memory /\ N.st = "freed" /\ N.slots = M.slots /\ N.size = M.size
    BY <2>4 DEF Memory
  <2>6. \A x \in AllMem : mem[x] \in Memory
    BY <2>1
  <2> QED BY <2>2, <2>3, <2>5, <2>6
<1>16. \A x \in AllMem : Stored(F[x]) = Stored(mem[x])
  BY <1>15, StoredSame
<1>17. Store(mem') = Store(mem)
  BY <1>13, <1>16 DEF Store
<1>18. AllTidy(mem')
  <2>1. \A x \in AllMem : Tidy(mem[x])
    BY <1>11 DEF AllTidy
  <2>2. \A x \in AllMem : Tidy(F[x])
    BY <1>15, <2>1, StoredSame
  <2> QED BY <1>13, <2>2 DEF AllTidy
<1>19. U[m] = "freed" /\ \A x \in AllMem : x # m => U[x] = Life(mem)[x]
  <2>1. \A x \in AllMem : U[x] = F[x].st /\ Life(mem)[x] = mem[x].st
    BY <1>13, ViewOf
  <2> QED BY <1>12, <1>15, <2>1
<1>20. Data(obj, payload, heap, U, Store(mem), {}, Doomed(acts'))
  <2>1. PICK D, E : D = Doomed(acts) /\ E = Doomed(acts')
    BY Zenon
  <2>2. m \in D /\ E = D \ {m} /\ Data(obj, payload, heap, Life(mem), Store(mem), {}, D)
    BY <1>10, <1>11, <2>1
  <2>3. Data(obj, payload, heap, U, Store(mem), {}, E)
    BY <1>11, <1>19, <2>2, FreeMemView
  <2> QED BY <2>1, <2>3
<1>21. Data(obj', payload', heap', Life(mem'), Store(mem'), Binned(acts'), Doomed(acts'))
  BY <1>1, <1>10, <1>13, <1>17, <1>20
<1>22. Cleared'
  BY <1>1, <1>3, <1>10 DEF Cleared
<1>23. mem'[RootMem].st = "live" /\ Once(acts'[1])
  <2>1. RootMem \in AllMem
    BY DEF AllMem
  <2> QED BY <1>3, <1>7, <1>9, <1>12, <1>13, <1>15, <2>1
<1> QED BY <1>1, <1>9, <1>14, <1>18, <1>21, <1>22, <1>23, DestroyTreeJoin

\* When the program ends, every heap was deallocated; none is left.
LEMMA NothingLeft ==
  ASSUME Strong, Tree, Data(obj, payload, heap, Life(mem), Store(mem), {}, {}),
         heap[Root].deallocated, \A h \in Heap : heap[h].st = "live" => ~heap[h].deallocated
  PROVE  Stored(mem[RootMem]) = {} /\ \A h \in Heap : heap[h].st # "live"
<1>1. /\ HasOwner(obj, heap) /\ Ended(obj, heap) /\ Scoped(obj)
      /\ HeapsStored(obj, heap, Store(mem), {}) /\ ValuesStored(payload, Store(mem), {})
      /\ ValueLives(payload, heap, Life(mem))
  BY DEF Data, Owned, Placed, Reclaimed
<1>2. ASSUME NEW h \in Heap, heap[h].st = "live" PROVE FALSE
  <2>1. PICK x \in Obj : Known(obj, x) /\ obj[x].heap = h
    BY <1>1, <1>2 DEF HasOwner, Used
  <2>2. obj[x].st \in {"none", "live", "gone"} /\ obj[x].st # "none" /\ obj[x].st # "live"
    BY <1>1, <2>1 DEF Scoped, Known, Ended
  <2>3. obj[x].st = "gone"
    BY <2>2
  <2>4. heap[h].deallocated
    BY <1>1, <2>1, <2>3 DEF Ended
  <2> QED BY <1>2, <2>4
<1>3. RootMem \in AllMem /\ Store(mem)[RootMem] = Stored(mem[RootMem]) /\ Tidy(mem[RootMem])
  BY TreeFacts
<1>4. ASSUME NEW z \in Stored(mem[RootMem]) PROVE FALSE
  <2>1. z \in Heap \cup Payload
    BY <1>3 DEF Stored, Tidy
  <2>2. z \in Store(mem)[RootMem]
    BY <1>3
  <2>3. CASE z \in Heap
    BY <1>1, <1>2, <1>3, <2>2, <2>3 DEF HeapsStored
  <2>4. CASE z \in Payload
    <3>1. payload[z].st = "held" /\ payload[z].mem = RootMem
      BY <1>1, <1>3, <2>2, <2>4 DEF ValuesStored
    <3>2. payload[z].mem \in Mem
      BY <1>1, <2>4, <3>1 DEF ValueLives
    <3> QED BY <3>1, <3>2, DistinctIds
  <2> QED BY <2>1, <2>3, <2>4
<1> QED BY <1>2, <1>4

LEMMA FinishCollectTree ==
  ASSUME Strong, Strong', Tree, FinishCollect
  PROVE  Tree'
<1>1. /\ pc = "destroy" /\ ActTop.list = <<>> /\ ActTop.mlist = <<>>
      /\ UNCHANGED <<obj, payload, heap, stack>> /\ acts' = Front(acts)
  BY DEF FinishCollect
<1>2. /\ acts \in Seq(Act) /\ acts # <<>> /\ Len(acts) = 1 /\ ActTop = acts[1]
      /\ Binned(acts) = Listed(acts[1]) /\ Doomed(acts) = Queued(acts[1])
      /\ Data(obj, payload, heap, Life(mem), Store(mem), Binned(acts), Doomed(acts))
      /\ Typed(obj, payload, heap) /\ Cleared /\ mem[RootMem].st = "live"
  BY <1>1, DestroyFacts
<1>3. Binned(acts) = {} /\ Doomed(acts) = {}
  <2>1. acts[1].list = <<>> /\ acts[1].mlist = <<>>
    BY <1>1, <1>2
  <2>2. Listed(acts[1]) = {} /\ Queued(acts[1]) = {}
    BY <2>1 DEF Listed, Queued
  <2> QED BY <1>2, <2>2
<1>4. ~(Len(acts) > 1)
  BY <1>2
<1>5. acts' = <<>> /\ deallocCount' = 0
  <2>1. acts' \in Seq(Act) /\ Len(acts') = 0
    BY <1>1, <1>2, FrontFacts
  <2>2. deallocCount' = IF Len(acts) > 1 THEN deallocCount ELSE 0
    BY Zenon DEF FinishCollect
  <2> QED BY <1>4, <2>1, <2>2
<1>6. inside' = FALSE
  <2>1. inside' = (Len(acts) > 1)
    BY Zenon DEF FinishCollect
  <2>2. (Len(acts) > 1) = FALSE
    BY <1>4
  <2> QED BY <2>1, <2>2, Zenon
<1>7. /\ pc' = IF Len(acts) > 1 THEN "callback"
                 ELSE IF heap[Root].deallocated THEN "exited" ELSE "run"
      /\ mem' = IF pc' = "exited" THEN [mem EXCEPT ![RootMem].st = "freed"] ELSE mem
  <2>1. pc' = IF Len(acts) > 1 THEN "callback"
              ELSE IF heap[Root].deallocated THEN "exited" ELSE "run"
    BY Zenon DEF FinishCollect
  <2>2. mem' = IF pc' = "exited" THEN [mem EXCEPT ![RootMem].st = "freed"] ELSE mem
    BY Zenon DEF FinishCollect
  <2> QED BY <2>1, <2>2, Zenon
<1>8. Data(obj, payload, heap, Life(mem), Store(mem), {}, {})
  BY <1>2, <1>3
<1>9. \A h \in Heap : heap[h].st = "live" => ~heap[h].deallocated
  BY <1>2, <1>3 DEF Cleared
<1>10. CASE heap[Root].deallocated
  <2>1. pc' = "exited" /\ mem' = [mem EXCEPT ![RootMem].st = "freed"]
    <3>1. pc' = "exited"
      BY <1>4, <1>7, <1>10
    <3> QED BY <1>7, <3>1
  <2>2. Stored(mem[RootMem]) = {} /\ \A h \in Heap : heap[h].st # "live"
    BY <1>8, <1>9, <1>10, NothingLeft
  <2>3. heap' = heap /\ obj' = obj /\ payload' = payload
    BY <1>1
  <2>4. /\ Data(obj, payload, heap', Life(mem), Store(mem), {}, {}) /\ Typed(obj, payload, heap')
        /\ heap'[Root].deallocated /\ \A h \in Heap : heap'[h].st # "live"
    BY <1>2, <1>8, <1>10, <2>2, <2>3
  <2> QED BY <1>5, <1>6, <2>1, <2>2, <2>3, <2>4, CloseTree, Zenon
<1>11. CASE ~heap[Root].deallocated
  <2>1. pc' = "run" /\ mem' = mem
    <3>1. pc' = "run"
      BY <1>4, <1>7, <1>11
    <3> QED BY <1>7, <3>1
  <2>2. Binned(acts') = {} /\ Doomed(acts') = {}
    BY <1>5, NothingQueued
  <2>3. TreeData'
    <3>1. Data(obj', payload', heap', Life(mem'), Store(mem'), {}, {})
      BY <1>1, <1>8, <2>1
    <3>2. AllTidy(mem')
      BY <2>1, TreeFacts
    <3> QED BY <2>2, <3>1, <3>2 DEF TreeData
  <2>4. TreeControl'
    <3>1. pc' \notin {"fault", "callback"}
      BY <2>1
    <3>2. Len(acts') <= 1 /\ ~(acts' # <<>>)
      BY <1>5
    <3>3. mem'[RootMem].st = "live"
      BY <1>2, <2>1
    <3> QED BY <1>6, <2>2, <3>1, <3>2, <3>3, Zenon DEF TreeControl
  <2>5. Rested'
    <3>1. DeallocLimit # 0 => 0 < DeallocLimit
      BY BoundsOK
    <3>2. heap' = heap /\ deallocCount' = 0
      BY <1>1, <1>5, Zenon
    <3> QED BY <1>9, <1>11, <3>1, <3>2 DEF Rested
  <2>6. TreePhase'
    BY <2>1, <2>5 DEF TreePhase
  <2> QED BY <2>3, <2>4, <2>6 DEF Tree
<1> QED BY <1>10, <1>11

----------------------------------------------------------------------------
(* The invariant is inductive.                                             *)

LEMMA InitTree ==
  Init => Tree
<1> SUFFICES ASSUME Init PROVE Tree
  OBVIOUS
<1>1. /\ obj = [o \in Obj |-> [st |-> "none", heap |-> Null, parent |-> Null]]
      /\ payload = [p \in Payload |-> [st |-> "new", mem |-> Null]]
      /\ heap = [h \in AllHeap |->
                  IF h = Root
                  THEN [st |-> "live", mem |-> RootMem, deallocated |-> FALSE]
                  ELSE [st |-> "unused", mem |-> Null, deallocated |-> FALSE]]
      /\ mem = [m \in AllMem |-> IF m = RootMem THEN NewMemory ELSE NoMemory]
      /\ deallocCount = 0 /\ inside = FALSE /\ pc = "run" /\ stack = <<>> /\ acts = <<>>
  BY DEF Init
<1>2. \A o \in Obj : obj[o].st = "none" /\ obj[o].parent = Null /\ ~Known(obj, o)
  BY <1>1 DEF Known
<1>3. \A p \in Payload : payload[p].st = "new" /\ payload[p].mem = Null
  BY <1>1
<1>4. /\ Root \in AllHeap /\ heap[Root].st = "live" /\ heap[Root].deallocated = FALSE
      /\ \A h \in Heap : /\ h \in AllHeap /\ heap[h].st = "unused"
                         /\ heap[h].deallocated = FALSE /\ ~Used(heap, h)
  BY <1>1, DistinctIds DEF AllHeap, Used
<1>5. \A m \in AllMem : Tidy(mem[m]) /\ Stored(mem[m]) = {}
  BY <1>1, EmptyTidy
<1>6. RootMem \in AllMem /\ mem[RootMem].st = "live" /\ \A m \in Mem : m \in AllMem /\ mem[m].st = "unused"
  BY <1>1, DistinctIds DEF AllMem, NewMemory, NoMemory
<1>7. \A m \in AllMem : Store(mem)[m] = {} /\ Life(mem)[m] = mem[m].st
  BY <1>5, ViewOf
<1>8. Binned(acts) = {} /\ Doomed(acts) = {}
  BY <1>1, NothingQueued
<1>9. Owned(obj, heap, Life(mem))
  <2>1. Scoped(obj) /\ OneOwner(obj) /\ HasOwner(obj, heap) /\ Members(obj)
    BY <1>2, <1>4 DEF Scoped, OneOwner, HasOwner, Members
  <2>2. OneHeap(heap)
    <3>1. \A g \in AllHeap : Used(heap, g) => g = Root
      BY <1>4 DEF AllHeap
    <3> QED BY <3>1 DEF OneHeap
  <2>3. MemInUse(heap, Life(mem)) /\ HasHeap(heap, Life(mem))
    BY <1>4, <1>6, <1>7 DEF MemInUse, HasHeap
  <2>4. Ended(obj, heap)
    BY <1>2, <1>4 DEF Ended
  <2>5. Ranked(obj)
    <3>1. PICK R : R = [o \in Obj |-> 0]
      BY Zenon
    <3>2. R \in [Obj -> 0..0]
      BY <3>1
    <3>3. Ranks(obj, R, 0)
      BY <1>2, <3>2 DEF Ranks
    <3> QED BY <3>3 DEF Ranked
  <2> QED BY <2>1, <2>2, <2>3, <2>4, <2>5 DEF Owned
<1>10. Placed(obj, payload, heap, Store(mem), {})
  BY <1>2, <1>3, <1>7 DEF Placed, HeapsStored, ValuesStored, HeapsHeld, ValuesHeld
<1>11. Reclaimed(payload, heap, Life(mem), Store(mem), {}, {})
  <2>1. BinDead(payload, heap, {}, {}) /\ DoomedDead(heap, Life(mem), {}, {})
    BY DEF BinDead, DoomedDead
  <2>2. Emptied(Life(mem), Store(mem), {})
    BY <1>7 DEF Emptied
  <2>3. HeapLives(heap, Life(mem), {}) /\ ValueLives(payload, heap, Life(mem))
    BY <1>3, <1>4 DEF HeapLives, ValueLives
  <2> QED BY <2>1, <2>2, <2>3 DEF Reclaimed
<1>12. TreeData
  BY <1>5, <1>8, <1>9, <1>10, <1>11 DEF TreeData, AllTidy, Data
<1>13. TreeControl
  <2>1. Len(acts) = 0
    BY <1>1
  <2> QED BY <1>1, <1>6, <1>8, <2>1 DEF TreeControl
<1>14. TreePhase
  <2>1. DeallocLimit # 0 => 0 < DeallocLimit
    BY BoundsOK
  <2>2. Rested
    BY <1>1, <1>4, <2>1 DEF Rested
  <2> QED BY <1>1, <2>2 DEF TreePhase
<1> QED BY <1>12, <1>13, <1>14 DEF Tree

\* A collection's steps keep the invariant.
LEMMA CollectorTree ==
  ASSUME Strong, Strong', Tree, Uses \subseteq {"byRef"}, Collector
  PROVE  Tree'
<1>1. CASE MarkEnter \/ MarkScan \/ MarkDone
  BY <1>1, MarkEnterTree, MarkScanTree, MarkDoneTree
<1>2. CASE SweepEnter \/ SweepScan \/ SweepBack \/ SweepDrain \/ SweepDone
  BY <1>2, SweepEnterTree, SweepScanTree, SweepBackTree, SweepDrainTree, SweepDoneTree
<1>3. CASE RunDestructor \/ RunMemoryDestructor \/ FinishCollect
  BY <1>3, RunDestructorTree, RunMemoryDestructorTree, FinishCollectTree
<1>4. ~CollectorFault
  BY NoCollectorFault
<1> QED BY <1>1, <1>2, <1>3, <1>4 DEF Collector

\* Every step keeps it.
LEMMA NextTree ==
  ASSUME Strong, Strong', Tree, Uses \subseteq {"byRef"}, [Next]_vars
  PROVE  Tree'
<1>1. CASE Client
  BY <1>1, ClientTree
<1>2. CASE Collector
  BY <1>2, CollectorTree
<1>3. CASE Return
  BY <1>3 DEF Return, Tree, TreeControl
<1>4. CASE UNCHANGED vars
  <2>1. /\ obj' = obj /\ payload' = payload /\ heap' = heap /\ mem' = mem
        /\ deallocCount' = deallocCount /\ inside' = inside /\ pc' = pc
        /\ stack' = stack /\ acts' = acts
    BY <1>4 DEF vars
  <2>2. TreeData'
    BY <2>1 DEF Tree, TreeData
  <2>3. TreeControl'
    BY <2>1 DEF Tree, TreeControl
  <2>4. TreePhase'
    BY <2>1 DEF Tree, TreePhase, Cleared, Rested, Closed
  <2> QED BY <2>2, <2>3, <2>4 DEF Tree
<1> QED BY <1>1, <1>2, <1>3, <1>4 DEF Next, Stopped

----------------------------------------------------------------------------
(* What the invariant says of the program.                                 *)

\* The heap of an allocated Memory is allocated, once nothing is queued.
LEMMA MemHasHeap ==
  ASSUME Strong, Tree, Doomed(acts) = {}, NEW m \in Mem, mem[m].st = "live"
  PROVE  \E h \in Heap : heap[h].st = "live" /\ heap[h].mem = m
<1>1. HasHeap(heap, Life(mem)) /\ HeapLives(heap, Life(mem), Doomed(acts))
  BY TreeFacts DEF Data, Owned, Reclaimed
<1>2. m \in AllMem /\ Life(mem)[m] = "live"
  BY ViewOf DEF AllMem
<1>3. PICK h \in Heap : Used(heap, h) /\ heap[h].mem = m
  BY <1>1, <1>2 DEF HasHeap
<1>4. heap[h].st \in {"unused", "live", "freed"}
  <2>1. h \in AllHeap /\ Typed(obj, payload, heap)
    BY TreeFacts DEF AllHeap
  <2>2. heap[h] \in HeapT
    BY <2>1 DEF Typed, GoodHeap
  <2> QED BY <2>2 DEF HeapT
<1>5. heap[h].st # "freed"
  BY <1>1, <1>2, <1>3 DEF HeapLives
<1> QED BY <1>3, <1>4, <1>5 DEF Used

\* An object in scope has all it was given.
LEMMA TreeIntact ==
  ASSUME Strong, Tree
  PROVE  LiveIsIntact
<1> SUFFICES ASSUME NEW o \in Obj, obj[o].st = "live", ~heap[obj[o].heap].deallocated
             PROVE  /\ HeapOk(obj[o].heap)
                    /\ \A p \in Payload : payload[p].mem = MemOf(o) =>
                         /\ payload[p].st = "held"
                         /\ \E k \in 1..mem[MemOf(o)].size : mem[MemOf(o)].slots[k].ptr = p
  BY DEF LiveIsIntact
<1>1. HeapOk(obj[o].heap)
  BY LiveIsOk
<1>2. PICK m : m = MemOf(o)
  BY Zenon
<1>3. /\ obj[o].heap \in Heap /\ Used(heap, obj[o].heap) /\ heap[obj[o].heap].mem = m
      /\ m \in Mem /\ m \in AllMem
  <2>1. Known(obj, o) /\ Typed(obj, payload, heap)
    BY TreeFacts DEF Known
  <2> QED BY <1>2, <2>1, KnownHeap DEF MemOf
<1>4. ~Dead(heap, m)
  BY <1>3 DEF Dead
<1>5. /\ ValuesHeld(payload, Store(mem), Binned(acts)) /\ ValueLives(payload, heap, Life(mem))
      /\ BinDead(payload, heap, Binned(acts), Doomed(acts)) /\ payload \in [Payload -> PayloadT]
  BY TreeFacts DEF Data, Placed, Reclaimed, Typed
<1>6. ASSUME NEW p \in Payload, payload[p].mem = m
      PROVE  payload[p].st = "held" /\ \E k \in 1..mem[m].size : mem[m].slots[k].ptr = p
  <2>1. payload[p].st \in {"new", "held", "destroyed"}
    BY <1>5 DEF PayloadT
  <2>2. m # Null /\ p \notin Heap
    BY <1>3, DistinctIds
  <2>3. payload[p].st = "held"
    BY <1>4, <1>5, <1>6, <2>1, <2>2 DEF ValueLives
  <2>4. p \notin Binned(acts)
    BY <1>4, <1>5, <1>6, <2>2 DEF BinDead
  <2>5. p \in Store(mem)[m]
    BY <1>5, <1>6, <2>3, <2>4 DEF ValuesHeld
  <2>6. p \in Stored(mem[m])
    BY <1>3, <2>5, ViewOf
  <2> QED BY <2>3, <2>6 DEF Stored
<1> QED BY <1>1, <1>2, <1>6

\* What a finished collection leaves allocated is in use.
LEMMA TreeSwept ==
  ASSUME Strong, Tree, DeallocLimit # 0
  PROVE  SweepComplete
<1> SUFFICES ASSUME pc = "run", deallocCount = 0
             PROVE  /\ \A h \in Heap \ Skipped : heap[h].st = "live" =>
                         \E o \in Obj : obj[o].heap = h /\ obj[o].st \in {"live", "boxed"}
                    /\ \A m \in Mem \ {heap[h].mem : h \in Skipped} : mem[m].st = "live" =>
                         \E h \in Heap : heap[h].st = "live" /\ heap[h].mem = m
  BY DEF SweepComplete
<1>1. Rested /\ Doomed(acts) = {}
  BY DEF Tree, TreePhase, TreeControl
<1>2. Scoped(obj) /\ HasOwner(obj, heap) /\ Ended(obj, heap)
  BY TreeFacts DEF Data, Owned
<1>3. ASSUME NEW h \in Heap, heap[h].st = "live"
      PROVE  \E o \in Obj : obj[o].heap = h /\ obj[o].st \in {"live", "boxed"}
  <2>1. ~heap[h].deallocated
    BY <1>1, <1>3 DEF Rested
  <2>2. PICK o \in Obj : Known(obj, o) /\ obj[o].heap = h
    BY <1>2, <1>3 DEF HasOwner, Used
  <2>3. obj[o].st = "live"
    BY <1>2, <2>1, <2>2 DEF Scoped, Ended, Known
  <2> QED BY <2>2, <2>3
<1>4. \A m \in Mem : mem[m].st = "live" => \E h \in Heap : heap[h].st = "live" /\ heap[h].mem = m
  BY <1>1, MemHasHeap
<1> QED BY <1>3, <1>4

\* Nothing is left at the end.
LEMMA TreeReclaimed ==
  ASSUME Strong, Tree
  PROVE  ExitReclaimsAll
<1> SUFFICES ASSUME pc = "exited"
             PROVE  /\ \A h \in Heap : heap[h].st # "live"
                    /\ \A m \in AllMem : mem[m].st # "live"
                    /\ \A p \in Payload : payload[p].st # "held"
  BY DEF ExitReclaimsAll
<1>1. Closed /\ Binned(acts) = {} /\ Doomed(acts) = {}
  BY DEF Tree, TreePhase, TreeControl
<1>2. (\A h \in Heap : heap[h].st # "live") /\ mem[RootMem].st # "live"
  BY <1>1 DEF Closed
<1>3. \A m \in Mem : mem[m].st # "live"
  BY <1>1, <1>2, MemHasHeap
<1>4. \A m \in AllMem : mem[m].st # "live"
  BY <1>2, <1>3 DEF AllMem
<1>5. /\ ValuesHeld(payload, Store(mem), Binned(acts)) /\ ValueLives(payload, heap, Life(mem))
      /\ Emptied(Life(mem), Store(mem), Doomed(acts))
  BY TreeFacts DEF Data, Placed, Reclaimed
<1>6. ASSUME NEW p \in Payload, payload[p].st = "held"
      PROVE  FALSE
  <2>1. payload[p].mem \in Mem /\ payload[p].mem \in AllMem
    BY <1>5, <1>6 DEF ValueLives, AllMem
  <2>2. p \in Store(mem)[payload[p].mem]
    BY <1>1, <1>5, <1>6 DEF ValuesHeld
  <2>3. Life(mem)[payload[p].mem] # "live"
    BY <1>4, <2>1, ViewOf
  <2>4. Store(mem)[payload[p].mem] = {}
    BY <1>5, <2>1, <2>3 DEF Emptied
  <2> QED BY <2>2, <2>4
<1> QED BY <1>2, <1>4, <1>6

\* Two more are parts of the invariant.
LEMMA TreeImplies ==
  ASSUME Strong, Tree
  PROVE  NoFault /\ CountBelowLimit
<1>1. pc # "fault"
  BY DEF Tree, TreeControl
<1>2. pc = "run" => Rested
  BY DEF Tree, TreePhase
<1> QED BY <1>1, <1>2 DEF NoFault, CountBelowLimit, Rested

----------------------------------------------------------------------------
(* The theorems.                                                           *)

\* For clients that own their objects in trees, the invariant above holds of
\* every state (managed_object_heap.cpp:123-447).
THEOREM TreeHolds ==
  ASSUME Uses \subseteq {"byRef"}
  PROVE  Spec => [](Strong /\ Tree)
<1>1. Init => Colors /\ AllMatched(mem) /\ Tree
  BY InitColors, InitMatched, InitTree
<1>2. Inductive /\ Inductive' /\ AllMatched(mem) /\ Colors /\ Tree /\ [Next]_vars
        => Colors' /\ AllMatched(mem)' /\ Tree'
  <2> SUFFICES ASSUME Inductive, Inductive', AllMatched(mem), Colors, Tree, [Next]_vars
               PROVE  Colors' /\ AllMatched(mem)' /\ Tree'
    OBVIOUS
  <2>1. AllMatched(mem)' <=> AllMatched(mem')
    BY DEF AllMatched
  <2>2. Colors' /\ AllMatched(mem)'
    BY <2>1, NextColors, NextMatched
  <2>3. Strong /\ Strong'
    BY <2>2 DEF Strong
  <2> QED BY <2>2, <2>3, NextTree
<1>3. Inductive /\ AllMatched(mem) /\ Colors => Strong
  BY DEF Strong
<1> QED BY <1>1, <1>2, <1>3, InductiveHolds, PTL DEF Spec

\* Such a client never makes the collector use a heap, a Memory or a payload after
\* its deletion or delete one twice: each is queued once, by the one reference
\* that there is to it (managed_object_heap.cpp:225-287, 337-443).
THEOREM TreeNeverFaults ==
  ASSUME Uses \subseteq {"byRef"}
  PROVE  Spec => []NoFault
<1>1. Strong /\ Tree => NoFault
  BY TreeImplies
<1> QED BY <1>1, TreeHolds, PTL

\* No collection takes from such a client what an object in scope still has: its
\* heap, its Memory and every payload pushed into it
\* (managed_object_heap.cpp:300-335, 337-443).
THEOREM TreeLiveIsIntact ==
  ASSUME Uses \subseteq {"byRef"}
  PROVE  Spec => []LiveIsIntact
<1>1. Strong /\ Tree => LiveIsIntact
  BY TreeIntact
<1> QED BY <1>1, TreeHolds, PTL

\* With a dealloc_limit, a collection leaves such a client no heap without an
\* object and no Memory without a heap.  Without one the count of deallocations
\* returns to 0 by wrapping too, with no collection
\* (managed_object_heap.cpp:225-287, 337-443).
THEOREM TreeSweepComplete ==
  ASSUME Uses \subseteq {"byRef"}, DeallocLimit # 0
  PROVE  Spec => []SweepComplete
<1>1. Strong /\ Tree => SweepComplete
  BY TreeSwept
<1> QED BY <1>1, TreeHolds, PTL

\* At the end of such a program nothing that was managed is still allocated
\* (README.md:22, managed_object_heap.cpp:123-148, 175-287).
THEOREM TreeExitReclaims ==
  ASSUME Uses \subseteq {"byRef"}
  PROVE  Spec => []ExitReclaimsAll
<1>1. Strong /\ Tree => ExitReclaimsAll
  BY TreeReclaimed
<1> QED BY <1>1, TreeHolds, PTL

\* Between the calls of such a client fewer than dealloc_limit deallocations
\* await a collection: the uint8_t does not wrap
\* (managed_object_heap.cpp:149-166, 217-220).
THEOREM TreeCountsBelowLimit ==
  ASSUME Uses \subseteq {"byRef"}
  PROVE  Spec => []CountBelowLimit
<1>1. Strong /\ Tree => CountBelowLimit
  BY TreeImplies
<1> QED BY <1>1, TreeHolds, PTL

=============================================================================
