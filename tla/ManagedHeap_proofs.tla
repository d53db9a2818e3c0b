------------------------- MODULE ManagedHeap_proofs -------------------------
(***************************************************************************)
(* Proofs about ManagedHeap for every set of objects, payloads, heaps and  *)
(* memories: its type invariant, the two facts that make the iterators of  *)
(* do_sweep() valid while it recurs, which code can leave the heap of a    *)
(* destroyed object behind for ever, and that the two vectors of a Memory  *)
(* always hold the same multiset of indexes, whatever push, byRef, reroot  *)
(* and do_sweep() do to them.                                              *)
(***************************************************************************)
EXTENDS ManagedHeap, SequenceTheorems, FiniteSetTheorems, WellFoundedInduction, TLAPS

----------------------------------------------------------------------------
(* The operators on a Memory.                                              *)

\* N is M with other vectors.
SameButVectors(M, N) ==
  N.seen = M.seen /\ N.st = M.st /\ N.color = M.color /\ N.keep = M.keep

\* push keeps the vectors well formed.
LEMMA PushEntryType ==
  ASSUME NEW M, Sized(M), NEW p, NEW r, [index |-> M.size, ptr |-> p, ref |-> r] \in Entry
  PROVE  Sized(PushEntry(M, p, r)) /\ SameButVectors(M, PushEntry(M, p, r))
<1> DEFINE e == [index |-> M.size, ptr |-> p, ref |-> r]
           S == IF M.size < Len(M.slots) THEN [M.slots EXCEPT ![M.size + 1] = e]
                ELSE Append(M.slots, e)
           X == Append(M.indexes, M.size)
<1>1. /\ M.slots \in Seq(Entry) /\ M.size \in Nat /\ M.indexes \in Seq(Nat)
      /\ M.size <= Len(M.slots) /\ M \in Memory
  BY DEF Memory, Sized
<1> HIDE DEF e
<1>2. S \in Seq(Entry) /\ M.size + 1 <= Len(S)
  BY <1>1 DEF e
<1>3. X \in Seq(Nat) /\ M.size + 1 \in Nat
  BY <1>1
<1> HIDE DEF S, X
<1>4. PushEntry(M, p, r) = [M EXCEPT !.slots = S, !.size = M.size + 1, !.indexes = X]
  BY DEF PushEntry, S, X, e
<1> HIDE DEF PushEntry
<1> DEFINE N == PushEntry(M, p, r)
<1>5. N \in Memory
  BY <1>1, <1>2, <1>3, <1>4 DEF Memory
<1>6. N.slots = S /\ N.size = M.size + 1 /\ SameButVectors(M, N)
  BY <1>1, <1>4 DEF Memory, SameButVectors
<1>7. QED
  BY <1>2, <1>5, <1>6 DEF Sized

\* Moving the entries from p on one place down keeps their type.
MovedDown(q, p, z) == [k \in DOMAIN q |-> IF p <= k /\ k < z THEN q[k + 1] ELSE q[k]]

LEMMA ShiftType ==
  ASSUME NEW T, NEW q \in Seq(T), NEW p \in Nat, NEW z \in Nat, z <= Len(q)
  PROVE  MovedDown(q, p, z) \in Seq(T) /\ Len(MovedDown(q, p, z)) = Len(q)
<1> DEFINE S == MovedDown(q, p, z)
<1>1. Len(q) \in Nat /\ DOMAIN q = 1..Len(q) /\ \A k \in 1..Len(q) : q[k] \in T
  OBVIOUS
<1>2. \A k \in 1..Len(q) : k < z => k + 1 \in 1..Len(q)
  BY <1>1
<1>3. S \in [1..Len(q) -> T]
  BY <1>1, <1>2 DEF MovedDown
<1> HIDE DEF S
<1>4. S \in Seq(T) /\ Len(S) = Len(q)
  BY <1>1, <1>3
<1> QED BY <1>4 DEF S

\* erase keeps the vectors well formed.
LEMMA EraseSlotType ==
  ASSUME NEW M, Sized(M), NEW p \in Nat, 0 < M.size
  PROVE  Sized(EraseSlot(M, p)) /\ SameButVectors(M, EraseSlot(M, p))
         /\ EraseSlot(M, p).size = M.size - 1
<1> DEFINE S == [k \in DOMAIN M.slots |->
                   IF p <= k /\ k < M.size THEN M.slots[k + 1] ELSE M.slots[k]]
<1>1. /\ M.slots \in Seq(Entry) /\ M.size \in Nat /\ M.indexes \in Seq(Nat)
      /\ M.size <= Len(M.slots) /\ M \in Memory
  BY DEF Memory, Sized
<1>2. S \in Seq(Entry) /\ Len(S) = Len(M.slots)
  <2>1. PICK q, z : q = M.slots /\ z = M.size
    BY Zenon
  <2>2. q \in Seq(Entry) /\ z \in Nat /\ z <= Len(q)
    BY <1>1, <2>1, Zenon
  <2>3. PICK R : R = S
    BY Zenon
  <2>4. R = MovedDown(q, p, z)
    BY <2>1, <2>3, Zenon DEF MovedDown
  <2>5. R \in Seq(Entry) /\ Len(R) = Len(q)
    BY <2>2, <2>4, ShiftType
  <2> HIDE DEF S
  <2> QED BY <2>1, <2>3, <2>5, Zenon
<1> HIDE DEF S
<1>3. M.size - 1 \in Nat /\ M.size - 1 <= Len(S)
  BY <1>1, <1>2
<1>4. EraseSlot(M, p) = [M EXCEPT !.slots = S, !.size = M.size - 1]
  BY DEF EraseSlot, S
<1> DEFINE N == EraseSlot(M, p)
<1>5. N \in Memory
  BY <1>1, <1>2, <1>3, <1>4 DEF Memory
<1>6. N.slots = S /\ N.size = M.size - 1 /\ SameButVectors(M, N)
  BY <1>1, <1>4 DEF Memory, SameButVectors
<1>7. QED
  BY <1>2, <1>3, <1>5, <1>6 DEF Sized

\* Erasing an index keeps the entries as they are.
LEMMA EraseIndexType ==
  ASSUME NEW M, Sized(M), NEW x
  PROVE  /\ Sized(EraseIndex(M, x)) /\ SameButVectors(M, EraseIndex(M, x))
         /\ EraseIndex(M, x).slots = M.slots /\ EraseIndex(M, x).size = M.size
<1> DEFINE at == LastOf({k \in DOMAIN M.indexes : M.indexes[k] = x})
           X  == RemoveAt(M.indexes, The(at))
<1>1. /\ M.slots \in Seq(Entry) /\ M.size \in Nat /\ M.indexes \in Seq(Nat)
      /\ M.size <= Len(M.slots) /\ M \in Memory
  BY DEF Memory, Sized
<1>2. CASE at = {}
  BY <1>1, <1>2 DEF EraseIndex, SameButVectors, Sized
<1>3. CASE at # {}
  <2>1. The(at) \in DOMAIN M.indexes
    BY <1>3 DEF The, LastOf
  <2>2. X \in Seq(Nat)
    <3>1. The(at) \in 1..Len(M.indexes)
      BY <1>1, <2>1
    <3>2. PICK q : q = The(at)
      BY Zenon
    <3> HIDE DEF at
    <3>3. q \in 1..Len(M.indexes) /\ X = RemoveAt(M.indexes, q)
      BY <3>1, <3>2, Zenon
    <3>4. PICK s : s = M.indexes
      BY Zenon
    <3>5. s \in Seq(Nat) /\ X = RemoveAt(s, q)
      BY <1>1, <3>3, <3>4, Zenon
    <3> HIDE DEF X
    <3>6. Len(s) \in Nat /\ q \in 1..Len(s)
      BY <3>3, <3>4, <3>5
    <3>7. SubSeq(s, 1, q - 1) \in Seq(Nat)
      BY <3>5, <3>6
    <3>8. SubSeq(s, q + 1, Len(s)) \in Seq(Nat)
      BY <3>5, <3>6
    <3>9. SubSeq(s, 1, q - 1) \o SubSeq(s, q + 1, Len(s)) \in Seq(Nat)
      BY <3>7, <3>8
    <3> QED BY <3>5, <3>9, Zenon DEF RemoveAt
  <2> HIDE DEF X
  <2>3. EraseIndex(M, x) = [M EXCEPT !.indexes = X]
    BY <1>3 DEF EraseIndex, X
  <2> DEFINE N == EraseIndex(M, x)
  <2>4. N \in Memory /\ N.slots = M.slots /\ N.size = M.size
    BY <1>1, <2>2, <2>3 DEF Memory
  <2>5. SameButVectors(M, N)
    BY <1>1, <2>3 DEF Memory, SameButVectors
  <2>6. QED
    BY <1>1, <2>4, <2>5 DEF Sized
<1>4. QED
  BY <1>2, <1>3

\* Storing another pointer in an entry keeps the vectors well formed.
LEMMA SetPtrType ==
  ASSUME NEW M, Sized(M), NEW p \in 1..Len(M.slots), NEW q,
         [M.slots[p] EXCEPT !.ptr = q] \in Entry
  PROVE  LET N == [M EXCEPT !.slots[p].ptr = q]
         IN  Sized(N) /\ SameButVectors(M, N) /\ N.size = M.size
<1> DEFINE S == [M.slots EXCEPT ![p].ptr = q]
           N == [M EXCEPT !.slots[p].ptr = q]
<1>1. /\ M.slots \in Seq(Entry) /\ M.size \in Nat /\ M.indexes \in Seq(Nat)
      /\ M.size <= Len(M.slots) /\ M \in Memory
  BY DEF Memory, Sized
<1>2. S \in Seq(Entry) /\ Len(S) = Len(M.slots)
  BY <1>1
<1> HIDE DEF S
<1>3. N = [M EXCEPT !.slots = S]
  BY <1>1 DEF S
<1> HIDE DEF N
<1>4. N \in Memory
  BY <1>1, <1>2, <1>3 DEF Memory
<1>5. N.slots = S /\ N.size = M.size /\ SameButVectors(M, N)
  BY <1>1, <1>3 DEF Memory, SameButVectors
<1>6. Sized(N) /\ SameButVectors(M, N) /\ N.size = M.size
  BY <1>1, <1>2, <1>4, <1>5 DEF Sized
<1>7. QED
  BY <1>6 DEF N

\* Storing a null pointer is such a store, whatever the entry refers to.
LEMMA ClearPtrType ==
  ASSUME NEW M, Sized(M), NEW p \in 1..Len(M.slots)
  PROVE  LET N == [M EXCEPT !.slots[p].ptr = Null]
         IN  Sized(N) /\ SameButVectors(M, N) /\ N.size = M.size
<1>1. M.slots[p] \in Entry
  BY DEF Memory, Sized
<1>2. [M.slots[p] EXCEPT !.ptr = Null] \in Entry
  BY <1>1 DEF Entry
<1>3. QED
  BY <1>2, SetPtrType

\* Queuing entry p shortens the vector by one.
LEMMA RemoveEntryType ==
  ASSUME NEW M, Sized(M), NEW p \in 1..M.size
  PROVE  Sized(RemoveEntry(M, p)) /\ SameButVectors(M, RemoveEntry(M, p))
         /\ RemoveEntry(M, p).size = M.size - 1
<1> DEFINE A == EraseIndex(M, M.slots[p].index)
           B == [A EXCEPT !.slots[p].ptr = Null]
<1>1. M.size \in Nat /\ M.size <= Len(M.slots) /\ Len(M.slots) \in Nat
  BY DEF Memory, Sized
<1>2. /\ Sized(A) /\ SameButVectors(M, A)
      /\ A.slots = M.slots /\ A.size = M.size
  BY EraseIndexType
<1> HIDE DEF A
<1>3. p \in 1..Len(A.slots)
  BY <1>1, <1>2
<1>4. Sized(B) /\ SameButVectors(A, B) /\ B.size = M.size
  BY <1>2, <1>3, ClearPtrType
<1>5. RemoveEntry(M, p) = EraseSlot(B, p)
  BY DEF RemoveEntry, A
<1> HIDE DEF B
<1>6. 0 < B.size /\ p \in Nat
  BY <1>1, <1>4
<1>7. /\ Sized(EraseSlot(B, p)) /\ SameButVectors(B, EraseSlot(B, p))
      /\ EraseSlot(B, p).size = B.size - 1
  BY <1>4, <1>6, EraseSlotType
<1>8. QED
  BY <1>2, <1>4, <1>5, <1>7 DEF SameButVectors

\* byRef and reroot keep the root's vectors well formed.
LEMMA UnrootType ==
  ASSUME NEW M, Sized(M), NEW h
  PROVE  Sized(Unroot(M, h)) /\ SameButVectors(M, Unroot(M, h))
<1> DEFINE at == LastOf({k \in 1..M.size : M.slots[k].ref /\ M.slots[k].ptr = h})
           A  == EraseIndex(M, M.slots[The(at)].index)
<1>1. M.size \in Nat
  BY DEF Memory, Sized
<1>2. CASE at = {}
  BY <1>2 DEF Unroot, SameButVectors
<1>3. CASE at # {}
  <2>1. The(at) \in 1..M.size
    BY <1>3 DEF The, LastOf
  <2>2. Sized(A) /\ SameButVectors(M, A) /\ A.size = M.size
    BY EraseIndexType
  <2>3. Unroot(M, h) = EraseSlot(A, The(at))
    BY <1>3 DEF Unroot
  <2> HIDE DEF A, at
  <2>4. 0 < A.size /\ The(at) \in Nat
    BY <1>1, <2>1, <2>2
  <2>5. Sized(EraseSlot(A, The(at))) /\ SameButVectors(A, EraseSlot(A, The(at)))
    BY <2>2, <2>4, EraseSlotType
  <2>6. QED
    BY <2>2, <2>3, <2>5 DEF SameButVectors
<1>4. QED
  BY <1>2, <1>3

\* One iteration of the drain keeps the vectors well formed.
LEMMA DrainOneType ==
  ASSUME NEW M, Sized(M), M.indexes # <<>>, NEW x \in Nat, x < Len(M.slots)
  PROVE  Sized(DrainOne(M, x)) /\ SameButVectors(M, DrainOne(M, x))
<1> DEFINE A  == [M EXCEPT !.slots[x + 1].ptr = Null]
           X  == Front(M.indexes)
           N  == [M EXCEPT !.slots[x + 1].ptr = Null, !.indexes = Front(M.indexes)]
           at == LastOf({k \in 1..M.size : M.slots[k].index = x})
<1>1. /\ M.slots \in Seq(Entry) /\ M.size \in Nat /\ M.indexes \in Seq(Nat)
      /\ M.size <= Len(M.slots) /\ M \in Memory
  BY DEF Memory, Sized
<1>2. x + 1 \in 1..Len(M.slots)
  BY <1>1
<1>3. Sized(A) /\ SameButVectors(M, A) /\ A.size = M.size
  BY <1>2, ClearPtrType
<1>4. X \in Seq(Nat)
  <2>1. PICK s : s = M.indexes
    BY Zenon
  <2>2. s \in Seq(Nat) /\ s # <<>>
    BY <1>1, <2>1, Zenon
  <2>3. Front(s) \in Seq(Nat)
    BY <2>2 DEF Front
  <2> QED BY <2>1, <2>3, Zenon
<1>5. N = [A EXCEPT !.indexes = X]
  BY <1>1 DEF Memory
<1> HIDE DEF A, X, N
<1>6. Sized(N) /\ SameButVectors(A, N) /\ N.size = A.size
  <2>1. A \in Memory /\ A.size <= Len(A.slots)
    BY <1>3 DEF Sized
  <2>2. N \in Memory
    BY <1>4, <1>5, <2>1 DEF Memory
  <2>3. N.size = A.size /\ N.slots = A.slots /\ SameButVectors(A, N)
    BY <1>5, <2>1 DEF Memory, SameButVectors
  <2>4. QED
    BY <2>1, <2>2, <2>3 DEF Sized
<1>7. SameButVectors(M, N)
  BY <1>3, <1>6 DEF SameButVectors
<1>8. CASE at = {}
  BY <1>6, <1>7, <1>8 DEF DrainOne, N
<1>9. CASE at # {}
  <2>1. The(at) \in 1..M.size
    BY <1>9 DEF The, LastOf
  <2>2. DrainOne(M, x) = EraseSlot(N, The(at))
    BY <1>9 DEF DrainOne, N
  <2> HIDE DEF at
  <2>3. 0 < N.size /\ The(at) \in Nat
    BY <1>1, <1>3, <1>6, <2>1
  <2>4. Sized(EraseSlot(N, The(at))) /\ SameButVectors(N, EraseSlot(N, The(at)))
    BY <1>6, <2>3, EraseSlotType
  <2>5. QED
    BY <1>7, <2>2, <2>4 DEF SameButVectors
<1>10. QED
  BY <1>8, <1>9

----------------------------------------------------------------------------
(* The client's calls.                                                     *)

\* Outside a sweep no Memory is seen, and whether or not the call starts a
\* collection the collector's own state is well formed after it.
LEMMA ClientControl ==
  ASSUME GoodControl, SeenIsOnStack, ClientRuns, GoodMem(mem), GoodMem(mem'),
         NEW M, BeginCollect(M) \/ UNCHANGED control,
         \A m \in AllMem : mem[m].seen = FALSE => mem'[m].seen = FALSE
  PROVE  GoodControl' /\ MarkFrames' /\ SweepFrames' /\ SeenIsOnStack'
<1> USE DEF ClientRuns
<1>1. \A m \in AllMem : mem'[m].seen = FALSE
  <2>1. \A m \in AllMem : mem[m].seen = FALSE
    BY DEF SeenIsOnStack
  <2>2. QED
    BY <2>1
<1>2. stack = <<>> /\ pc \in {"run", "callback"}
  BY DEF GoodControl
<1>3. CASE UNCHANGED control
  <2>1. stack' = stack /\ pc' = pc /\ inside' = inside /\ acts' = acts
    BY <1>3 DEF control
  <2>2. GoodControl'
    BY <2>1 DEF GoodControl
  <2>3. MarkFrames' /\ SweepFrames' /\ SeenIsOnStack'
    BY <1>1, <1>2, <2>1 DEF MarkFrames, SweepFrames, SeenIsOnStack
  <2>4. QED
    BY <2>2, <2>3
<1>4. CASE BeginCollect(M) /\ ~UNCHANGED control
  <2>1. /\ pc' = "mark" /\ stack' = <<Frame(Root)>>
        /\ acts' = Append(acts, [list |-> <<>>, mlist |-> <<>>]) /\ inside' = inside
    BY <1>4 DEF BeginCollect
  <2>2. Frame(Root) \in FrameT
    BY DEF Frame, FrameT, AllHeap
  <2>3. stack' \in Seq(FrameT)
    BY <2>1, <2>2
  <2>4. [list |-> <<>>, mlist |-> <<>>] \in Act
    BY DEF Act
  <2>5. acts' \in Seq(Act) /\ acts' # <<>>
    <3>1. acts \in Seq(Act)
      BY DEF GoodControl
    <3>2. QED
      BY <2>1, <2>4, <3>1
  <2>6. GoodControl'
    BY <2>1, <2>3, <2>5 DEF GoodControl
  <2>7. MarkFrames'
    BY <2>1 DEF MarkFrames, Frame
  <2>8. QED
    BY <1>1, <2>1, <2>6, <2>7 DEF SweepFrames, SeenIsOnStack
<1>5. QED
  BY <1>3, <1>4

\* dealloc() of any heap but the root changes its flag and the count at most.
LEMMA DeallocGood ==
  ASSUME NEW h \in Heap, NEW H, NEW M, GoodHeap(H), GoodMem(M), GoodObj(obj, H),
         deallocCount \in 0..255, Dealloc(h, H, M)
  PROVE  /\ GoodHeap(heap') /\ GoodMem(mem') /\ mem' = M /\ deallocCount' \in 0..255
         /\ GoodObj(obj, heap') /\ \A g \in Heap : heap'[g].st = H[g].st
         /\ BeginCollect(M) \/ UNCHANGED control
<1> DEFINE G == [H EXCEPT ![h].deallocated = TRUE]
<1>1. H \in [AllHeap -> HeapT] /\ Heap \subseteq AllHeap /\ Root \in AllHeap
  BY DEF GoodHeap, AllHeap
<1>2. /\ DOMAIN G = AllHeap
      /\ \A g \in AllHeap : G[g] = IF g = h THEN [H[h] EXCEPT !.deallocated = TRUE] ELSE H[g]
  BY <1>1, Zenon
<1>3. \A g \in AllHeap : G[g] \in HeapT /\ G[g].st = H[g].st /\ G[g].mem = H[g].mem
  <2> SUFFICES ASSUME NEW g \in AllHeap
               PROVE  G[g] \in HeapT /\ G[g].st = H[g].st /\ G[g].mem = H[g].mem
    BY Zenon
  <2>1. PICK r : r = H[g]
    BY Zenon
  <2>2. r \in HeapT
    BY <1>1, <2>1, Zenon
  <2>3. PICK f : f = G[g]
    BY Zenon
  <2>4. f = r \/ f = [r EXCEPT !.deallocated = TRUE]
    BY <1>2, <2>1, <2>3, Zenon
  <2>5. f \in HeapT /\ f.st = r.st /\ f.mem = r.mem
    BY <2>2, <2>4 DEF HeapT
  <2> QED BY <2>1, <2>3, <2>5, Zenon
<1>9. G \in [AllHeap -> HeapT]
  <2>1. G = [g \in AllHeap |-> G[g]]
    BY <1>1, Zenon
  <2> HIDE DEF G
  <2> QED BY <1>3, <2>1, Zenon
<1> HIDE DEF G
<1>4. GoodHeap(G) /\ GoodObj(obj, G)
  BY <1>1, <1>3, <1>9 DEF GoodHeap, GoodObj
<1>5. mem' = M /\ (heap' = H \/ heap' = G)
  BY DEF Dealloc, G
<1>6. deallocCount' \in 0..255
  BY DEF Dealloc
<1>7. BeginCollect(M) \/ UNCHANGED control
  BY DEF Dealloc
<1>8. QED
  BY <1>1, <1>3, <1>4, <1>5, <1>6, <1>7

\* A heap that new allocates is none of those in use, and is not the root list.
LEMMA FreshHeap ==
  ASSUME GoodHeap(heap), Unused(heap) # {}
  PROVE  Fresh(heap) \in Heap /\ heap[Fresh(heap)].st = "unused"
BY DEF GoodHeap, Unused, Fresh, The, AllHeap

\* A Memory that `new` returns was never in use before.
LEMMA FreshMem ==
  ASSUME GoodMem(mem), Unused(mem) # {}
  PROVE  Fresh(mem) \in Mem /\ mem[Fresh(mem)].st = "unused"
BY DEF GoodMem, Unused, Fresh, The, AllMem

\* An object that client code can use has a heap and a Memory.
LEMMA UsableFacts ==
  ASSUME GoodData, NEW o \in Obj, Usable(o)
  PROVE  /\ obj[o].heap \in Heap /\ heap[obj[o].heap].st = "live"
         /\ MemOf(o) \in Mem /\ MemOf(o) # RootMem
BY DistinctIds DEF GoodData, GoodHeap, GoodObj, Usable, Accessible, HeapOk, MemOf

\* F with Memory m replaced by N.
Put(F, m, N) == [F EXCEPT ![m] = N]

\* Replacing one Memory by a well-formed one.
LEMMA SetMemGood ==
  ASSUME NEW F, GoodMem(F), NEW m \in AllMem, NEW N, Sized(N),
         m = RootMem => N.st # "unused"
  PROVE  /\ GoodMem(Put(F, m, N))
         /\ \A x \in AllMem : Put(F, m, N)[x] = IF x = m THEN N ELSE F[x]
BY DEF GoodMem, Sized, AllMem, Put

\* The vectors of the root list, or of the Memory of an object in use, change.
LEMMA SetVectorsGood ==
  ASSUME NEW F, GoodMem(F), NEW m \in AllMem, NEW N, Sized(N), SameButVectors(F[m], N)
  PROVE  /\ GoodMem(Put(F, m, N))
         /\ \A x \in AllMem : Put(F, m, N)[x].seen = F[x].seen
         /\ \A x \in AllMem : Put(F, m, N)[x] = IF x = m THEN N ELSE F[x]
<1>1. m = RootMem => N.st # "unused"
  BY DEF GoodMem, SameButVectors
<1>2. QED
  BY <1>1, SetMemGood DEF SameButVectors

\* The root list receives a reference to heap h.
LEMMA RootPush ==
  ASSUME NEW F, GoodMem(F), NEW h \in Heap
  PROVE  /\ GoodMem(Put(F, RootMem, PushEntry(F[RootMem], h, TRUE)))
         /\ \A x \in AllMem :
              Put(F, RootMem, PushEntry(F[RootMem], h, TRUE))[x].seen = F[x].seen
<1> DEFINE M == F[RootMem]
           N == PushEntry(M, h, TRUE)
<1>1. RootMem \in AllMem /\ Sized(M)
  BY DEF GoodMem, AllMem
<1>2. [index |-> M.size, ptr |-> h, ref |-> TRUE] \in Entry
  BY <1>1 DEF Sized, Memory, Entry
<1>3. Sized(N) /\ SameButVectors(M, N)
  BY <1>1, <1>2, PushEntryType
<1> HIDE DEF N
<1>4. /\ GoodMem(Put(F, RootMem, N))
      /\ \A x \in AllMem : Put(F, RootMem, N)[x].seen = F[x].seen
  BY <1>1, <1>3, SetVectorsGood
<1>5. QED
  BY <1>4 DEF N

\* ManagedObject(tag) keeps the invariant.
LEMMA NewStep ==
  ASSUME Inductive, NEW o \in Obj, New(o)
  PROVE  Inductive'
<1> DEFINE h == Fresh(heap)
           m == Fresh(mem)
           F == Put(mem, m, NewMemory)
<1>1. GoodData /\ GoodControl /\ SeenIsOnStack /\ ClientRuns
  BY DEF Inductive, New
<1>2. /\ h \in Heap /\ heap[h].st = "unused" /\ m \in Mem /\ mem[m].st = "unused"
  BY <1>1, FreshHeap, FreshMem DEF New, GoodData
<1>3. /\ obj'  = [obj EXCEPT ![o] = [st |-> "live", heap |-> h, parent |-> Null]]
      /\ heap' = [heap EXCEPT ![h] = [st |-> "live", mem |-> m, deallocated |-> FALSE]]
      /\ mem'  = [mem EXCEPT ![m] = NewMemory, ![RootMem] = PushEntry(@, h, TRUE)]
      /\ payload' = payload /\ deallocCount' = deallocCount /\ UNCHANGED control
  BY DEF New
<1> HIDE DEF h, m
<1>4. GoodHeap(heap')
  BY <1>1, <1>2, <1>3, DistinctIds DEF GoodData, GoodHeap, HeapT, AllHeap, AllMem
<1>5. GoodObj(obj', heap')
  BY <1>1, <1>2, <1>3 DEF GoodData, GoodHeap, GoodObj, ObjT, AllHeap
<1>6. Sized(NewMemory) /\ NewMemory.st = "live" /\ NewMemory.seen = FALSE
  <2>1. NoMemory \in Memory /\ NoMemory.size = 0 /\ NoMemory.slots = <<>>
        /\ NoMemory.seen = FALSE
    BY DEF NoMemory, Memory
  <2>2. NewMemory = [NoMemory EXCEPT !.st = "live"]
    BY DEF NewMemory
  <2>3. NewMemory \in Memory
    BY <2>1, <2>2 DEF Memory
  <2>4. /\ NewMemory.size = 0 /\ NewMemory.slots = <<>>
        /\ NewMemory.st = "live" /\ NewMemory.seen = FALSE
    BY <2>1, <2>2 DEF Memory
  <2>5. QED
    BY <2>3, <2>4 DEF Sized
<1>7. GoodMem(F) /\ \A x \in AllMem : F[x] = IF x = m THEN NewMemory ELSE mem[x]
  BY <1>1, <1>2, <1>6, SetMemGood DEF GoodData, AllMem
<1>8. mem' = Put(F, RootMem, PushEntry(F[RootMem], h, TRUE))
  BY <1>1, <1>2, <1>3, DistinctIds DEF Put, GoodData, GoodMem, AllMem
<1> HIDE DEF F
<1>9. GoodMem(mem') /\ \A x \in AllMem : mem'[x].seen = F[x].seen
  BY <1>2, <1>7, <1>8, RootPush
<1>10. \A x \in AllMem : mem[x].seen = FALSE => mem'[x].seen = FALSE
  BY <1>6, <1>7, <1>9
<1>11. GoodControl' /\ MarkFrames' /\ SweepFrames' /\ SeenIsOnStack'
  BY <1>1, <1>3, <1>9, <1>10, ClientControl DEF GoodData
<1>12. QED
  BY <1>1, <1>3, <1>4, <1>5, <1>9, <1>11 DEF Inductive, GoodData

\* ManagedObject(other) keeps the invariant.
LEMMA CopyStep ==
  ASSUME Inductive, NEW o \in Obj, NEW s \in Obj, Copy(o, s)
  PROVE  Inductive'
<1> DEFINE h == Fresh(heap)
<1>1. GoodData /\ GoodControl /\ SeenIsOnStack /\ ClientRuns
  BY DEF Inductive, Copy
<1>2. h \in Heap /\ heap[h].st = "unused"
  BY <1>1, FreshHeap DEF Copy, GoodData
<1>3. /\ obj'  = [obj EXCEPT ![o] = [st |-> "live", heap |-> h, parent |-> Null]]
      /\ heap' = [heap EXCEPT ![h] = heap[obj[s].heap]]
      /\ mem'  = Put(mem, RootMem, PushEntry(mem[RootMem], h, TRUE))
      /\ payload' = payload /\ deallocCount' = deallocCount /\ UNCHANGED control
  BY DEF Copy, Put
<1> HIDE DEF h
<1>4. obj[s].heap \in Heap /\ heap[obj[s].heap].st = "live"
  BY <1>1, UsableFacts DEF Copy
<1>5. GoodHeap(heap')
  BY <1>1, <1>2, <1>3, <1>4, DistinctIds DEF GoodData, GoodHeap, HeapT, AllHeap
<1>6. GoodObj(obj', heap')
  BY <1>1, <1>2, <1>3, <1>4 DEF GoodData, GoodHeap, GoodObj, ObjT, AllHeap
<1>7. GoodMem(mem') /\ \A x \in AllMem : mem'[x].seen = mem[x].seen
  BY <1>1, <1>2, <1>3, RootPush DEF GoodData
<1>8. GoodControl' /\ MarkFrames' /\ SweepFrames' /\ SeenIsOnStack'
  BY <1>1, <1>3, <1>7, ClientControl DEF GoodData
<1>9. QED
  BY <1>1, <1>3, <1>5, <1>6, <1>7, <1>8 DEF Inductive, GoodData

\* operator= keeps the invariant.
LEMMA AssignStep ==
  ASSUME Inductive, NEW o \in Obj, NEW s \in Obj, Assign(o, s)
  PROVE  Inductive'
<1> DEFINE old == Fresh(heap)
           H == [heap EXCEPT ![old] = heap[obj[o].heap],
                             ![obj[o].heap] = heap[obj[s].heap]]
           M == Put(mem, RootMem, PushEntry(mem[RootMem], old, TRUE))
<1>1. GoodData /\ GoodControl /\ SeenIsOnStack /\ ClientRuns
  BY DEF Inductive, Assign
<1>2. old \in Heap /\ heap[old].st = "unused"
  BY <1>1, FreshHeap DEF Assign, GoodData
<1>3. Dealloc(old, H, M) /\ obj' = obj /\ payload' = payload
  BY DEF Assign, Put
<1> HIDE DEF old
<1>4. /\ obj[s].heap \in Heap /\ heap[obj[s].heap].st = "live"
      /\ obj[o].heap \in Heap /\ heap[obj[o].heap].st = "live"
  BY <1>1, UsableFacts DEF Assign
<1>5. GoodHeap(H)
  BY <1>1, <1>2, <1>4, DistinctIds DEF GoodData, GoodHeap, HeapT, AllHeap
<1>6. GoodObj(obj, H)
  BY <1>1, <1>2, <1>4 DEF GoodData, GoodHeap, GoodObj, ObjT, AllHeap
<1>7. GoodMem(M) /\ \A x \in AllMem : M[x].seen = mem[x].seen
  BY <1>1, <1>2, RootPush DEF GoodData
<1> HIDE DEF H, M
<1>8. /\ GoodHeap(heap') /\ GoodMem(mem') /\ mem' = M /\ deallocCount' \in 0..255
      /\ GoodObj(obj, heap') /\ (BeginCollect(M) \/ UNCHANGED control)
  BY <1>1, <1>2, <1>3, <1>5, <1>6, <1>7, DeallocGood DEF GoodData
<1>9. GoodControl' /\ MarkFrames' /\ SweepFrames' /\ SeenIsOnStack'
  BY <1>1, <1>7, <1>8, ClientControl DEF GoodData
<1>10. QED
  BY <1>1, <1>3, <1>8, <1>9 DEF Inductive, GoodData

\* A payload that is pushed or rerooted belongs to a Memory of a client object.
LEMMA HoldGood ==
  ASSUME payload \in [Payload -> PayloadT], NEW p \in Payload, NEW m \in Mem
  PROVE  [payload EXCEPT ![p] = [st |-> "held", mem |-> m]] \in [Payload -> PayloadT]
BY DEF PayloadT

\* push_value keeps the invariant.
LEMMA PushValueStep ==
  ASSUME Inductive, NEW o \in Obj, NEW p \in Payload \cup {Null}, PushValue(o, p)
  PROVE  Inductive'
<1> DEFINE m == MemOf(o)
           N == PushEntry(mem[m], p, FALSE)
<1>1. GoodData /\ GoodControl /\ SeenIsOnStack /\ ClientRuns /\ Usable(o)
  BY DEF Inductive, PushValue
<1>2. m \in Mem /\ m \in AllMem /\ Sized(mem[m])
  BY <1>1, UsableFacts DEF GoodData, GoodMem, AllMem
<1>3. /\ obj' = obj /\ heap' = heap /\ deallocCount' = deallocCount /\ UNCHANGED control
      /\ mem' = Put(mem, m, N)
  BY DEF PushValue, Put
<1>4. payload' \in [Payload -> PayloadT]
  BY <1>1, <1>2, HoldGood DEF PushValue, GoodData
<1> HIDE DEF m
<1>5. [index |-> mem[m].size, ptr |-> p, ref |-> FALSE] \in Entry
  BY <1>2 DEF Sized, Memory, Entry
<1>6. Sized(N) /\ SameButVectors(mem[m], N)
  BY <1>2, <1>5, PushEntryType
<1> HIDE DEF N
<1>7. GoodMem(mem') /\ \A x \in AllMem : mem'[x].seen = mem[x].seen
  BY <1>1, <1>2, <1>3, <1>6, SetVectorsGood DEF GoodData
<1>8. GoodControl' /\ MarkFrames' /\ SweepFrames' /\ SeenIsOnStack'
  BY <1>1, <1>3, <1>7, ClientControl DEF GoodData
<1>9. QED
  BY <1>1, <1>3, <1>4, <1>7, <1>8 DEF Inductive, GoodData

\* An object that becomes a member or the content of a box stays well formed.
LEMMA ParentGood ==
  ASSUME NEW O, GoodObj(obj, heap), NEW o \in Obj, NEW c \in Obj, obj[c].st = "live",
         \/ O = [obj EXCEPT ![c].parent = o]
         \/ O = [obj EXCEPT ![c].parent = o, ![c].st = "boxed"]
  PROVE  GoodObj(O, heap)
<1>1. obj \in [Obj -> ObjT] /\ obj[c].heap \in Heap /\ heap[obj[c].heap].st # "unused"
  BY DEF GoodObj
<1>2. O \in [Obj -> ObjT]
  BY <1>1 DEF ObjT
<1>3. \A x \in Obj : O[x].heap = obj[x].heap /\ (x # c => O[x].st = obj[x].st)
  BY <1>1 DEF ObjT
<1>4. QED
  BY <1>1, <1>2, <1>3 DEF GoodObj

\* The Memory of an object changes its vectors and the root forgets a heap.
LEMMA ReferGood ==
  ASSUME NEW F, GoodMem(F), NEW m \in Mem, NEW N, Sized(N), SameButVectors(F[m], N), NEW h,
         NEW G, G = Put(Put(F, m, N), RootMem, Unroot(F[RootMem], h))
  PROVE  GoodMem(G) /\ \A x \in AllMem : G[x].seen = F[x].seen
<1> DEFINE A == Put(F, m, N)
           U == Unroot(F[RootMem], h)
<1>1. m # RootMem /\ m \in AllMem /\ RootMem \in AllMem
  BY DistinctIds DEF AllMem
<1>2. /\ GoodMem(A) /\ \A x \in AllMem : A[x].seen = F[x].seen
      /\ A[RootMem] = F[RootMem]
  BY <1>1, SetVectorsGood
<1>3. G = Put(A, RootMem, U)
  OBVIOUS
<1>4. Sized(F[RootMem])
  BY <1>1 DEF GoodMem
<1>5. Sized(U) /\ SameButVectors(A[RootMem], U)
  BY <1>2, <1>4, UnrootType
<1> HIDE DEF A, U
<1>6. QED
  BY <1>1, <1>2, <1>3, <1>5, SetVectorsGood

\* byRef keeps the invariant.
LEMMA ByRefStep ==
  ASSUME Inductive, NEW o \in Obj, NEW c \in Obj, ByRef(o, c)
  PROVE  Inductive'
<1> DEFINE m == MemOf(o)
           h == obj[c].heap
           N == PushEntry(mem[m], h, TRUE)
<1>1. GoodData /\ GoodControl /\ SeenIsOnStack /\ ClientRuns /\ Usable(o) /\ Usable(c)
  BY DEF Inductive, ByRef
<1>2. m \in Mem /\ m \in AllMem /\ Sized(mem[m]) /\ h \in Heap
  BY <1>1, UsableFacts DEF GoodData, GoodMem, AllMem
<1>3. /\ heap' = heap /\ deallocCount' = deallocCount /\ UNCHANGED control
      /\ payload' = payload /\ obj' = [obj EXCEPT ![c].parent = o] /\ obj[c].st = "live"
      /\ mem' = [mem EXCEPT ![m] = N, ![RootMem] = Unroot(@, h)]
  BY DEF ByRef
<1> HIDE DEF m, h
<1>4. [index |-> mem[m].size, ptr |-> h, ref |-> TRUE] \in Entry
  BY <1>2 DEF Sized, Memory, Entry
<1>5. Sized(N) /\ SameButVectors(mem[m], N)
  BY <1>2, <1>4, PushEntryType
<1> HIDE DEF N
<1>6. GoodMem(mem') /\ \A x \in AllMem : mem'[x].seen = mem[x].seen
  <2>1. mem' = Put(Put(mem, m, N), RootMem, Unroot(mem[RootMem], h))
    BY <1>1, <1>2, <1>3, DistinctIds DEF Put, GoodData, GoodMem, AllMem
  <2>2. QED
    BY <1>1, <1>2, <1>5, <2>1, ReferGood DEF GoodData
<1>7. GoodObj(obj', heap')
  BY <1>1, <1>3, ParentGood DEF GoodData
<1>8. GoodControl' /\ MarkFrames' /\ SweepFrames' /\ SeenIsOnStack'
  BY <1>1, <1>3, <1>6, ClientControl DEF GoodData
<1>9. QED
  BY <1>1, <1>3, <1>6, <1>7, <1>8 DEF Inductive, GoodData

\* reroot of a boxed object keeps the invariant.
LEMMA RerootStep ==
  ASSUME Inductive, NEW o \in Obj, NEW c \in Obj, NEW k \in 1..MaxEntries, Reroot(o, k, c)
  PROVE  Inductive'
<1> DEFINE m == MemOf(o)
           h == obj[c].heap
           B == [mem[m] EXCEPT !.slots[k].ptr = c]
           N == PushEntry(B, h, TRUE)
<1>1. /\ GoodData /\ GoodControl /\ SeenIsOnStack /\ ClientRuns
      /\ Usable(o) /\ Usable(c)
  BY DEF Inductive, Reroot
<1>2. /\ m \in Mem /\ m \in AllMem /\ Sized(mem[m]) /\ h \in Heap
      /\ k \in 1..Len(mem[m].slots) /\ ~mem[m].slots[k].ref
  <2>1. m \in Mem /\ m \in AllMem /\ Sized(mem[m]) /\ h \in Heap
    BY <1>1, UsableFacts DEF GoodData, GoodMem, AllMem
  <2>2. k <= mem[m].size /\ ~mem[m].slots[k].ref
    BY DEF Reroot
  <2>3. QED
    BY <2>1, <2>2, BoundsOK DEF Sized, Memory
<1>3. /\ heap' = heap /\ deallocCount' = deallocCount /\ UNCHANGED control
      /\ payload' = payload /\ obj[c].st = "live"
      /\ obj' = [obj EXCEPT ![c].parent = o, ![c].st = "boxed"]
      /\ mem' = [mem EXCEPT ![m] = N, ![RootMem] = Unroot(@, h)]
  BY DEF Reroot
<1> HIDE DEF m, h
<1>4. [mem[m].slots[k] EXCEPT !.ptr = c] \in Entry
  <2>1. mem[m].slots[k] \in Entry
    BY <1>2 DEF Sized, Memory
  <2>2. QED
    BY <1>2, <2>1 DEF Entry
<1>5. Sized(B) /\ SameButVectors(mem[m], B)
  BY <1>2, <1>4, SetPtrType
<1> HIDE DEF B
<1>6. [index |-> B.size, ptr |-> h, ref |-> TRUE] \in Entry
  BY <1>2, <1>5 DEF Sized, Memory, Entry
<1>7. Sized(N) /\ SameButVectors(mem[m], N)
  <2>1. Sized(N) /\ SameButVectors(B, N)
    BY <1>5, <1>6, PushEntryType
  <2>2. QED
    BY <1>5, <2>1 DEF SameButVectors
<1> HIDE DEF N
<1>8. GoodMem(mem') /\ \A x \in AllMem : mem'[x].seen = mem[x].seen
  <2>1. mem' = Put(Put(mem, m, N), RootMem, Unroot(mem[RootMem], h))
    BY <1>1, <1>2, <1>3, DistinctIds DEF Put, GoodData, GoodMem, AllMem
  <2>2. m \in Mem /\ GoodMem(mem)
    BY <1>1, <1>2 DEF GoodData
  <2>3. QED
    BY <1>7, <2>1, <2>2, ReferGood
<1>9. GoodObj(obj', heap')
  BY <1>1, <1>3, ParentGood DEF GoodData
<1>10. GoodControl' /\ MarkFrames' /\ SweepFrames' /\ SeenIsOnStack'
  BY <1>1, <1>3, <1>8, ClientControl DEF GoodData
<1>11. QED
  BY <1>1, <1>3, <1>8, <1>9, <1>10 DEF Inductive, GoodData

\* reroot of a pointer to something else keeps the invariant.
LEMMA RerootValueStep ==
  ASSUME Inductive, NEW o \in Obj, NEW p \in Payload, NEW k \in 1..MaxEntries,
         RerootValue(o, k, p)
  PROVE  Inductive'
<1> DEFINE m == MemOf(o)
           B == [mem[m] EXCEPT !.slots[k].ptr = p]
<1>1. GoodData /\ GoodControl /\ SeenIsOnStack /\ ClientRuns /\ Usable(o)
  BY DEF Inductive, RerootValue
<1>2. /\ m \in Mem /\ m \in AllMem /\ Sized(mem[m])
      /\ k \in 1..Len(mem[m].slots) /\ ~mem[m].slots[k].ref
  <2>1. m \in Mem /\ m \in AllMem /\ Sized(mem[m])
    BY <1>1, UsableFacts DEF GoodData, GoodMem, AllMem
  <2>2. k <= mem[m].size /\ ~mem[m].slots[k].ref
    BY DEF RerootValue
  <2>3. QED
    BY <2>1, <2>2, BoundsOK DEF Sized, Memory
<1>3. /\ heap' = heap /\ deallocCount' = deallocCount /\ UNCHANGED control
      /\ obj' = obj /\ mem' = Put(mem, m, B)
  BY DEF RerootValue, Put
<1>4. payload' \in [Payload -> PayloadT]
  BY <1>1, <1>2, HoldGood DEF RerootValue, GoodData
<1> HIDE DEF m
<1>5. [mem[m].slots[k] EXCEPT !.ptr = p] \in Entry
  <2>1. mem[m].slots[k] \in Entry
    BY <1>2 DEF Sized, Memory
  <2>2. QED
    BY <1>2, <2>1 DEF Entry
<1>6. Sized(B) /\ SameButVectors(mem[m], B)
  BY <1>2, <1>5, SetPtrType
<1> HIDE DEF B
<1>7. GoodMem(mem') /\ \A x \in AllMem : mem'[x].seen = mem[x].seen
  BY <1>1, <1>2, <1>3, <1>6, SetVectorsGood DEF GoodData
<1>8. GoodControl' /\ MarkFrames' /\ SweepFrames' /\ SeenIsOnStack'
  BY <1>1, <1>3, <1>7, ClientControl DEF GoodData
<1>9. QED
  BY <1>1, <1>3, <1>4, <1>7, <1>8 DEF Inductive, GoodData

\* dealloc() keeps the invariant.
LEMMA ExplicitDeallocStep ==
  ASSUME Inductive, NEW o \in Obj, ExplicitDealloc(o)
  PROVE  Inductive'
<1>1. GoodData /\ GoodControl /\ SeenIsOnStack /\ ClientRuns /\ obj[o].heap \in Heap
  BY UsableFacts DEF Inductive, ExplicitDealloc
<1>2. /\ GoodHeap(heap') /\ GoodMem(mem') /\ mem' = mem /\ deallocCount' \in 0..255
      /\ GoodObj(obj, heap') /\ (BeginCollect(mem) \/ UNCHANGED control)
      /\ obj' = obj /\ payload' = payload
  BY <1>1, DeallocGood DEF GoodData, ExplicitDealloc
<1>3. GoodControl' /\ MarkFrames' /\ SweepFrames' /\ SeenIsOnStack'
  BY <1>1, <1>2, ClientControl DEF GoodData
<1>4. QED
  BY <1>1, <1>2, <1>3 DEF Inductive, GoodData

\* The end of a lifetime keeps the invariant.
LEMMA DestroyStep ==
  ASSUME Inductive, NEW o \in Obj, Destroy(o)
  PROVE  Inductive'
<1>1. /\ GoodData /\ GoodControl /\ SeenIsOnStack /\ ClientRuns
      /\ obj[o].heap \in Heap /\ heap[obj[o].heap].st = "live"
  BY DEF Inductive, Destroy, GoodData, GoodObj
<1>2. /\ GoodHeap(heap') /\ GoodMem(mem') /\ mem' = mem /\ deallocCount' \in 0..255
      /\ (BeginCollect(mem) \/ UNCHANGED control) /\ payload' = payload
      /\ \A g \in Heap : heap'[g].st = heap[g].st
  <2>1. /\ GoodHeap(heap) /\ GoodMem(mem) /\ GoodObj(obj, heap) /\ deallocCount \in 0..255
        /\ Dealloc(obj[o].heap, heap, mem) /\ payload' = payload
    BY <1>1, Zenon DEF GoodData, Destroy
  <2> QED BY <1>1, <2>1, DeallocGood
<1>3. GoodObj(obj', heap')
  <2>1. obj' = [obj EXCEPT ![o].st = "gone"] /\ obj \in [Obj -> ObjT]
    BY <1>1, Zenon DEF Destroy, GoodData, GoodObj
  <2>2. obj' \in [Obj -> ObjT]
    BY <2>1 DEF ObjT
  <2>3. \A x \in Obj : obj'[x].heap = obj[x].heap /\ (x # o => obj'[x].st = obj[x].st)
    BY <2>1 DEF ObjT
  <2>4. QED
    BY <1>1, <1>2, <2>2, <2>3 DEF GoodObj, GoodData
<1>4. GoodControl' /\ MarkFrames' /\ SweepFrames' /\ SeenIsOnStack'
  BY <1>1, <1>2, ClientControl DEF GoodData
<1>5. QED
  BY <1>1, <1>2, <1>3, <1>4 DEF Inductive, GoodData

\* collect() keeps the invariant.
LEMMA CollectStep ==
  ASSUME Inductive, Collect
  PROVE  Inductive'
<1>1. /\ GoodData /\ GoodControl /\ SeenIsOnStack /\ ClientRuns /\ BeginCollect(mem)
      /\ UNCHANGED <<obj, payload, heap, mem, deallocCount>>
  BY DEF Inductive, Collect
<1>2. GoodControl' /\ MarkFrames' /\ SweepFrames' /\ SeenIsOnStack'
  BY <1>1, ClientControl DEF GoodData
<1>3. QED
  BY <1>1, <1>2 DEF Inductive, GoodData

\* A fault stops the program as it is.
LEMMA FaultStep ==
  ASSUME Inductive, pc' = "fault",
         GoodData', inside' = inside, stack' = stack, acts' \in Seq(Act)
  PROVE  Inductive'
BY DEF Inductive, GoodControl, MarkFrames, SweepFrames, SeenIsOnStack

\* The destruction of the static root list keeps the invariant.
LEMMA ExitStep ==
  ASSUME Inductive, Exit
  PROVE  Inductive'
<1>1. /\ GoodData /\ GoodControl /\ SeenIsOnStack /\ ClientRuns
      /\ obj' = obj /\ payload' = payload /\ deallocCount' = deallocCount
      /\ heap' = [heap EXCEPT ![Root].deallocated = TRUE]
  BY DEF Inductive, Exit, ClientRuns
<1>2. GoodHeap(heap') /\ \A g \in AllHeap : heap'[g].st = heap[g].st
  <2>1. heap \in [AllHeap -> HeapT] /\ Root \in AllHeap /\ Heap \subseteq AllHeap
    BY <1>1 DEF GoodData, GoodHeap, AllHeap
  <2>2. heap' \in [AllHeap -> HeapT]
    BY <1>1, <2>1 DEF HeapT
  <2>3. \A g \in AllHeap : heap'[g].st = heap[g].st /\ heap'[g].mem = heap[g].mem
    BY <1>1, <2>1 DEF HeapT
  <2>4. QED
    BY <1>1, <2>1, <2>2, <2>3 DEF GoodHeap, GoodData
<1>3. GoodObj(obj', heap')
  BY <1>1, <1>2 DEF GoodObj, GoodData, AllHeap
<1>4. CASE mem[RootMem].size # 0
  <2>1. mem' = mem /\ BeginCollect(mem)
    BY <1>4 DEF Exit
  <2>2. GoodControl' /\ MarkFrames' /\ SweepFrames' /\ SeenIsOnStack'
    BY <1>1, <2>1, ClientControl DEF GoodData
  <2>3. QED
    BY <1>1, <1>2, <1>3, <2>1, <2>2 DEF Inductive, GoodData
<1>5. CASE mem[RootMem].size = 0
  <2> DEFINE N == [mem[RootMem] EXCEPT !.st = "freed"]
  <2>1. /\ mem' = Put(mem, RootMem, N) /\ pc' = "exited" /\ inside' = inside
        /\ stack' = stack /\ acts' = acts /\ pc = "run"
    BY <1>5 DEF Exit, Put
  <2>2. RootMem \in AllMem /\ Sized(mem[RootMem])
    BY <1>1 DEF GoodData, GoodMem, AllMem
  <2>3. Sized(N) /\ N.st = "freed" /\ N.seen = mem[RootMem].seen
    BY <2>2 DEF Sized, Memory
  <2> HIDE DEF N
  <2>4. /\ GoodMem(mem')
        /\ \A x \in AllMem : mem'[x] = IF x = RootMem THEN N ELSE mem[x]
    BY <1>1, <2>1, <2>2, <2>3, SetMemGood DEF GoodData
  <2>5. \A x \in AllMem : mem'[x].seen = mem[x].seen
    BY <2>3, <2>4
  <2>6. GoodControl' /\ MarkFrames' /\ SweepFrames' /\ SeenIsOnStack'
    BY <1>1, <2>1, <2>5 DEF GoodControl, MarkFrames, SweepFrames, SeenIsOnStack
  <2>7. QED
    BY <1>1, <1>2, <1>3, <2>4, <2>6 DEF Inductive, GoodData
<1>6. QED
  BY <1>4, <1>5

----------------------------------------------------------------------------
(* The stack of activations.                                               *)

\* The topmost frame.
LEMMA TopFacts ==
  ASSUME stack \in Seq(FrameT), stack # <<>>
  PROVE  /\ Len(stack) \in Nat /\ Len(stack) >= 1 /\ Top = stack[Len(stack)]
         /\ Top \in FrameT /\ Top.h \in AllHeap /\ Top.i \in Nat
<1>1. Len(stack) \in Nat /\ Len(stack) >= 1 /\ Top = stack[Len(stack)]
  BY DEF Top, Last
<1>2. Top \in FrameT
  BY <1>1
<1>3. QED
  BY <1>1, <1>2 DEF FrameT

\* Replacing the phase and the position of the topmost frame.
LEMMA GotoFacts ==
  ASSUME stack \in Seq(FrameT), stack # <<>>,
         NEW ph \in {"enter", "scan", "back", "drain"}, NEW i \in Nat
  PROVE  /\ Goto(ph, i) \in Seq(FrameT) /\ Len(Goto(ph, i)) = Len(stack)
         /\ \A k \in 1..Len(stack) - 1 : Goto(ph, i)[k] = stack[k]
         /\ Goto(ph, i)[Len(stack)] = [h |-> Top.h, ph |-> ph, i |-> i]
<1> DEFINE n == Len(stack)
           f == [h |-> Top.h, ph |-> ph, i |-> i]
           s == [stack EXCEPT ![n] = f]
<1>1. n \in 1..n /\ Top = stack[n] /\ Top \in FrameT
  BY TopFacts
<1>2. f \in FrameT
  BY <1>1 DEF FrameT
<1>3. Goto(ph, i) = s
  BY <1>1 DEF Goto
<1> HIDE DEF f
<1>4. /\ s \in Seq(FrameT) /\ Len(s) = n /\ s[n] = f
      /\ \A k \in 1..n - 1 : s[k] = stack[k]
  BY <1>1, <1>2
<1>5. QED
  BY <1>3, <1>4 DEF f

\* The front of a sequence.
LEMMA FrontFacts ==
  ASSUME NEW T, NEW s \in Seq(T), s # <<>>
  PROVE  /\ Front(s) \in Seq(T) /\ Len(Front(s)) = Len(s) - 1
         /\ \A k \in 1..Len(s) - 1 : Front(s)[k] = s[k]
<1> DEFINE n == Len(s) - 1
           f == [i \in 1..n |-> s[i]]
<1>1. n \in Nat /\ \A k \in 1..n : s[k] \in T
  OBVIOUS
<1>2. SubSeq(s, 1, Len(s) - 1) = f
  BY DEF SubSeq
<1>3. Front(s) = f
  BY <1>2 DEF Front
<1> HIDE DEF n
<1>4. f \in Seq(T) /\ Len(f) = n /\ \A k \in 1..n : f[k] = s[k]
  BY <1>1
<1> HIDE DEF f
<1>5. Len(s) - 1 = n
  BY DEF n
<1> QED BY <1>3, <1>4, <1>5, Zenon

\* Removing the topmost frame.
LEMMA PopFacts ==
  ASSUME stack \in Seq(FrameT), stack # <<>>
  PROVE  /\ Pop \in Seq(FrameT) /\ Len(Pop) = Len(stack) - 1
         /\ \A k \in 1..Len(stack) - 1 : Pop[k] = stack[k]
BY FrontFacts DEF Pop

\* Changing the topmost frame and calling on heap h.
LEMMA CallFacts ==
  ASSUME stack \in Seq(FrameT), stack # <<>>, NEW h \in AllHeap,
         NEW ph \in {"enter", "scan", "back", "drain"}, NEW i \in Nat
  PROVE  LET s == Append(Goto(ph, i), Frame(h))
         IN  /\ s \in Seq(FrameT) /\ Len(s) = Len(stack) + 1
             /\ \A k \in 1..Len(stack) - 1 : s[k] = stack[k]
             /\ s[Len(stack)] = [h |-> Top.h, ph |-> ph, i |-> i]
             /\ s[Len(stack) + 1] = Frame(h)
<1> DEFINE g == Goto(ph, i)
<1>1. /\ g \in Seq(FrameT) /\ Len(g) = Len(stack)
      /\ \A k \in 1..Len(stack) - 1 : g[k] = stack[k]
      /\ g[Len(stack)] = [h |-> Top.h, ph |-> ph, i |-> i]
  BY GotoFacts
<1>2. Frame(h) \in FrameT
  BY DEF Frame, FrameT
<1> HIDE DEF g
<1>3. Len(stack) \in Nat /\ Len(stack) > 0
  OBVIOUS
<1>4. QED
  BY <1>1, <1>2, <1>3 DEF g

\* A heap that was ever constructed has a Memory.
LEMMA HeapHasMem ==
  ASSUME GoodHeap(heap), NEW h \in AllHeap, heap[h].st # "unused"
  PROVE  heap[h].mem \in AllMem
BY DEF GoodHeap, AllHeap, AllMem

\* N is M but for its colour and keep.
Recoloured(M, N) ==
  N.slots = M.slots /\ N.size = M.size /\ N.seen = M.seen /\ N.st = M.st

----------------------------------------------------------------------------
(* mark().                                                                 *)

\* Entering a heap keeps the invariant.
LEMMA MarkEnterStep ==
  ASSUME Inductive, MarkEnter
  PROVE  Inductive'
<1> DEFINE m == TopMem
           A == [mem[m] EXCEPT !.keep = FALSE]
           B == [mem[m] EXCEPT !.keep = FALSE, !.color = MarkColor(Top.h)]
<1>1. /\ GoodData /\ GoodControl /\ SeenIsOnStack /\ MarkFrames
      /\ pc = "mark" /\ stack # <<>> /\ Top.ph = "enter" /\ heap[Top.h].st = "live"
      /\ UNCHANGED <<obj, payload, heap, deallocCount, inside, pc, acts>>
  BY DEF Inductive, MarkEnter, AtFrame, HeapOk
<1>2. /\ stack \in Seq(FrameT) /\ Len(stack) \in Nat /\ Len(stack) >= 1
      /\ Top = stack[Len(stack)] /\ Top.h \in AllHeap
  BY <1>1, TopFacts DEF GoodControl
<1>3. m \in AllMem /\ Sized(mem[m])
  BY <1>1, <1>2, HeapHasMem DEF GoodData, GoodMem, TopMem
<1> HIDE DEF m
<1>4. \/ mem' = Put(mem, m, A) /\ stack' = Pop
      \/ mem' = Put(mem, m, B) /\ stack' = Goto("scan", 1)
  <2>1. GoodMem(mem)
    BY <1>1 DEF GoodData
  <2>2. mem \in [AllMem -> Memory]
    BY <2>1 DEF GoodMem
  <2>3. [mem EXCEPT ![m].keep = FALSE, ![m].color = MarkColor(Top.h)] = Put(mem, m, B)
    BY <1>3, <2>2 DEF Put, Memory
  <2>4. [mem EXCEPT ![m].keep = FALSE] = Put(mem, m, A)
    BY <1>3, <2>2 DEF Put
  <2>5. QED
    BY <2>3, <2>4 DEF MarkEnter, m
<1>5. Sized(A) /\ Recoloured(mem[m], A)
  BY <1>3 DEF Sized, Memory, Recoloured
<1>6. Sized(B) /\ Recoloured(mem[m], B)
  <2>1. MarkColor(Top.h) \in {"WHITE", "BLACK"}
    BY DEF MarkColor
  <2>2. QED
    BY <1>3, <2>1 DEF Sized, Memory, Recoloured
<1> HIDE DEF A, B
<1>7. GoodMem(mem') /\ \A x \in AllMem : mem'[x].seen = mem[x].seen
  <2>1. PICK N : Sized(N) /\ Recoloured(mem[m], N) /\ mem' = Put(mem, m, N)
    BY <1>4, <1>5, <1>6
  <2>2. m = RootMem => N.st # "unused"
    BY <1>1, <2>1 DEF Recoloured, GoodData, GoodMem
  <2>3. GoodMem(mem') /\ \A x \in AllMem : mem'[x] = IF x = m THEN N ELSE mem[x]
    BY <1>1, <1>3, <2>1, <2>2, SetMemGood DEF GoodData
  <2>4. QED
    BY <2>1, <2>3 DEF Recoloured
<1>8. stack' \in Seq(FrameT) /\ MarkFrames'
  <2>1. CASE stack' = Pop
    <3>1. /\ stack' \in Seq(FrameT) /\ Len(stack') = Len(stack) - 1
          /\ \A k \in 1..Len(stack) - 1 : stack'[k] = stack[k]
      BY <1>1, <1>2, <2>1, PopFacts
    <3>2. QED
      BY <1>1, <1>2, <3>1 DEF MarkFrames
  <2>2. CASE stack' = Goto("scan", 1)
    <3>1. /\ stack' \in Seq(FrameT) /\ Len(stack') = Len(stack)
          /\ \A k \in 1..Len(stack) - 1 : stack'[k] = stack[k]
          /\ stack'[Len(stack)] = [h |-> Top.h, ph |-> "scan", i |-> 1]
      BY <1>1, <1>2, <2>2, GotoFacts
    <3>2. QED
      BY <1>1, <1>2, <3>1 DEF MarkFrames
  <2>3. QED
    BY <1>4, <2>1, <2>2
<1>9. GoodControl' /\ SweepFrames' /\ SeenIsOnStack'
  BY <1>1, <1>7, <1>8 DEF GoodControl, SweepFrames, SeenIsOnStack
<1>10. QED
  BY <1>1, <1>7, <1>8, <1>9 DEF Inductive, GoodData

\* One iteration of the loop of mark() keeps the invariant.
LEMMA MarkScanStep ==
  ASSUME Inductive, MarkScan
  PROVE  Inductive'
<1> DEFINE M == mem[TopMem]
           e == M.slots[Top.i]
<1>1. /\ GoodData /\ GoodControl /\ SeenIsOnStack /\ MarkFrames
      /\ pc = "mark" /\ stack # <<>> /\ Top.ph = "scan"
      /\ UNCHANGED <<obj, payload, heap, mem, deallocCount, inside, pc, acts>>
  BY DEF Inductive, MarkScan, AtFrame
<1>2. /\ stack \in Seq(FrameT) /\ Len(stack) \in Nat /\ Len(stack) >= 1
      /\ Top = stack[Len(stack)] /\ Top.h \in AllHeap /\ Top.i \in Nat
  BY <1>1, TopFacts DEF GoodControl
<1>3. heap[Top.h].st # "unused" /\ Top.i >= 1
  BY <1>1, <1>2 DEF MarkFrames
<1>4. Sized(M)
  BY <1>1, <1>2, <1>3, HeapHasMem DEF GoodData, GoodMem, TopMem
<1>5. Top.i <= M.size => e \in Entry
  BY <1>2, <1>3, <1>4 DEF Sized, Memory
<1>6. \/ stack' = Pop \/ stack' = Goto("scan", Top.i + 1)
      \/ Top.i <= M.size /\ IsHeapRef(e)
         /\ stack' = Append(Goto("scan", Top.i + 1), Frame(e.ptr))
  <2>1. Top.i \in Nat /\ M.size \in Nat
    BY <1>2, <1>4 DEF Sized, Memory
  <2>2. Top.i > M.size \/ Top.i <= M.size
    <3>1. PICK a, b : a = Top.i /\ b = M.size
      BY Zenon
    <3>2. a \in Nat /\ b \in Nat
      BY <2>1, <3>1, Zenon
    <3>3. a > b \/ a <= b
      BY <3>2
    <3> QED BY <3>1, <3>3, Zenon
  <2>3. stack' = IF Top.i > M.size THEN Pop
                 ELSE IF IsHeapRef(e) THEN Append(Goto("scan", Top.i + 1), Frame(e.ptr))
                 ELSE Goto("scan", Top.i + 1)
    BY Zenon DEF MarkScan
  <2> QED BY <2>2, <2>3, Zenon
<1> HIDE DEF e, M
<1>7. stack' \in Seq(FrameT) /\ MarkFrames'
  <2>1. CASE stack' = Pop
    <3>1. /\ stack' \in Seq(FrameT) /\ Len(stack') = Len(stack) - 1
          /\ \A k \in 1..Len(stack) - 1 : stack'[k] = stack[k]
      BY <1>1, <1>2, <2>1, PopFacts
    <3>2. QED
      BY <1>1, <1>2, <3>1 DEF MarkFrames
  <2>2. CASE stack' = Goto("scan", Top.i + 1)
    <3>1. /\ stack' \in Seq(FrameT) /\ Len(stack') = Len(stack)
          /\ \A k \in 1..Len(stack) - 1 : stack'[k] = stack[k]
          /\ stack'[Len(stack)] = [h |-> Top.h, ph |-> "scan", i |-> Top.i + 1]
      BY <1>1, <1>2, <2>2, GotoFacts
    <3>2. QED
      BY <1>1, <1>2, <1>3, <3>1 DEF MarkFrames
  <2>3. CASE /\ Top.i <= M.size /\ IsHeapRef(e)
             /\ stack' = Append(Goto("scan", Top.i + 1), Frame(e.ptr))
    <3>1. e.ptr \in AllHeap
      BY <1>5, <2>3 DEF Entry, IsHeapRef, AllHeap
    <3>2. /\ stack' \in Seq(FrameT) /\ Len(stack') = Len(stack) + 1
          /\ \A k \in 1..Len(stack) - 1 : stack'[k] = stack[k]
          /\ stack'[Len(stack)] = [h |-> Top.h, ph |-> "scan", i |-> Top.i + 1]
          /\ stack'[Len(stack) + 1] = Frame(e.ptr)
      BY <1>1, <1>2, <2>3, <3>1, CallFacts
    <3>3. stack'[Len(stack) + 1].ph = "enter"
      BY <3>2 DEF Frame
    <3>4. QED
      BY <1>1, <1>2, <1>3, <3>2, <3>3 DEF MarkFrames
  <2>4. QED
    BY <1>6, <2>1, <2>2, <2>3
<1>8. GoodControl' /\ SweepFrames' /\ SeenIsOnStack'
  BY <1>1, <1>7 DEF GoodControl, SweepFrames, SeenIsOnStack
<1>9. QED
  BY <1>1, <1>7, <1>8 DEF Inductive, GoodData

\* The end of mark() keeps the invariant: do_sweep starts on a root unseen.
LEMMA MarkDoneStep ==
  ASSUME Inductive, MarkDone
  PROVE  Inductive'
<1>1. /\ GoodData /\ GoodControl /\ SeenIsOnStack
      /\ pc = "mark" /\ pc' = "sweep" /\ stack' = <<Frame(Root)>>
      /\ UNCHANGED <<obj, payload, heap, mem, deallocCount, inside, acts>>
  BY DEF Inductive, MarkDone
<1>2. stack' \in Seq(FrameT) /\ Len(stack') = 1 /\ stack'[1].ph = "enter"
  BY <1>1 DEF Frame, FrameT, AllHeap
<1>3. GoodControl' /\ MarkFrames'
  BY <1>1, <1>2 DEF GoodControl, MarkFrames
<1>4. SweepFrames' /\ SeenIsOnStack'
  BY <1>1, <1>2 DEF SweepFrames, SeenIsOnStack, Iterates
<1>5. QED
  BY <1>1, <1>3, <1>4 DEF Inductive, GoodData

----------------------------------------------------------------------------
(* do_sweep().                                                             *)

\* What the activation in frame k of stack s, which has called the one in
\* frame k + 1, has in hand when the memories are F.
Outer(s, F, k) ==
  LET M == F[heap[s[k].h].mem]
      e == M.slots[s[k].i]
  IN  /\ s[k].ph = "back" /\ heap[s[k].h].st # "unused"
      /\ s[k].i >= 1 /\ s[k].i <= M.size
      /\ IsHeapRef(e) /\ heap[e.ptr].st # "unused" /\ e.ptr = s[k + 1].h

\* No frame of s iterates the Memory m.
Free(s, m) == \A j \in 1..Len(s) : ~(s[j].ph # "enter" /\ heap[s[j].h].mem = m)

\* What the topmost frame has in hand.
Upper(s, F) ==
  LET f == s[Len(s)]
      M == F[heap[f.h].mem]
      e == M.slots[f.i]
  IN  /\ f.ph # "enter" => heap[f.h].st # "unused" /\ f.i <= M.size
      /\ f.ph \in {"back", "drain"} =>
           /\ f.i >= 1 /\ IsHeapRef(e) /\ heap[e.ptr].st # "unused"
           /\ Free(s, heap[e.ptr].mem)
      /\ f.ph = "enter" => Free(s, heap[f.h].mem)

\* What makes an activation one that has called, and one that is topmost.
LEMMA OuterOf ==
  ASSUME NEW s, NEW F, NEW k, NEW f, NEW e,
         f = s[k], f.ph = "back", heap[f.h].st # "unused",
         f.i >= 1, f.i <= F[heap[f.h].mem].size, e = F[heap[f.h].mem].slots[f.i],
         IsHeapRef(e), heap[e.ptr].st # "unused", e.ptr = s[k + 1].h
  PROVE  Outer(s, F, k)
BY Zenon DEF Outer

LEMMA UpperOf ==
  ASSUME NEW s, NEW F, NEW f, NEW e,
         f = s[Len(s)], f.ph # "enter", heap[f.h].st # "unused",
         f.i >= 1, f.i <= F[heap[f.h].mem].size, e = F[heap[f.h].mem].slots[f.i],
         IsHeapRef(e), heap[e.ptr].st # "unused", Free(s, heap[e.ptr].mem)
  PROVE  Upper(s, F)
BY Zenon DEF Upper

\* What an activation that has called has in hand.
LEMMA OuterHas ==
  ASSUME NEW s, NEW F, NEW k, NEW f, f = s[k], Outer(s, F, k)
  PROVE  /\ f.ph = "back" /\ f.ph # "enter" /\ heap[f.h].st # "unused"
         /\ f.i >= 1 /\ f.i <= F[heap[f.h].mem].size
         /\ \E e : /\ e = F[heap[f.h].mem].slots[f.i] /\ IsHeapRef(e)
                   /\ heap[e.ptr].st # "unused" /\ e.ptr = s[k + 1].h
BY Zenon DEF Outer

\* SweepFrames, frame by frame.
LEMMA FramesSplit ==
  ASSUME SweepFrames, pc = "sweep", stack \in Seq(FrameT)
  PROVE  /\ \A k \in 1..Len(stack) - 1 : Outer(stack, mem, k)
         /\ stack # <<>> => Upper(stack, mem)
<1>1. \A k \in 1..Len(stack) - 1 : Outer(stack, mem, k)
  <2> TAKE k \in 1..Len(stack) - 1
  <2>1. k \in 1..Len(stack) /\ k < Len(stack)
    OBVIOUS
  <2>2. QED
    BY <2>1 DEF SweepFrames, Outer, FrameMem, FrameEntry
<1>2. ASSUME stack # <<>> PROVE Upper(stack, mem)
  <2>1. Len(stack) \in 1..Len(stack)
    BY <1>2
  <2>2. QED
    BY <2>1 DEF SweepFrames, Upper, Free, FrameMem, FrameEntry, Iterates
<1>3. QED
  BY <1>1, <1>2

\* The converse, for the state after a step that leaves the heaps alone.
LEMMA FramesJoin ==
  ASSUME heap' = heap, stack' \in Seq(FrameT),
         \A k \in 1..Len(stack') - 1 : Outer(stack', mem', k),
         stack' # <<>> => Upper(stack', mem')
  PROVE  SweepFrames'
<1> SUFFICES ASSUME NEW k \in 1..Len(stack')
             PROVE  /\ stack'[k].ph # "enter" =>
                         heap[stack'[k].h].st # "unused"
                         /\ stack'[k].i <= mem'[heap[stack'[k].h].mem].size
                    /\ stack'[k].ph \in {"back", "drain"} =>
                         LET e == mem'[heap[stack'[k].h].mem].slots[stack'[k].i]
                         IN  /\ stack'[k].i >= 1 /\ IsHeapRef(e)
                             /\ heap[e.ptr].st # "unused"
                             /\ k = Len(stack') => Free(stack', heap[e.ptr].mem)
                    /\ stack'[k].ph = "enter" => Free(stack', heap[stack'[k].h].mem)
                    /\ k < Len(stack') =>
                         /\ stack'[k].ph = "back"
                         /\ mem'[heap[stack'[k].h].mem].slots[stack'[k].i].ptr = stack'[k + 1].h
  BY DEF SweepFrames, FrameMem, FrameEntry, Iterates, Free
<1>1. CASE k < Len(stack')
  <2>1. Outer(stack', mem', k) /\ k # Len(stack')
    BY <1>1
  <2>2. QED
    BY <2>1 DEF Outer
<1>2. CASE k = Len(stack')
  <2>1. Upper(stack', mem') /\ ~(k < Len(stack'))
    BY <1>2
  <2>2. QED
    BY <1>2, <2>1 DEF Upper
<1>3. k < Len(stack') \/ k = Len(stack')
  <2>1. Len(stack') \in Nat
    OBVIOUS
  <2>2. QED
    BY <2>1
<1>4. QED
  BY <1>1, <1>2, <1>3

\* The activations below the topmost one keep what they have when a step
\* changes neither them nor the vectors of the memories they iterate.
LEMMA OuterKept ==
  ASSUME NEW n \in Nat, NEW s, NEW F,
         \A k \in 1..n - 1 : Outer(stack, mem, k) /\ s[k] = stack[k],
         s[n].h = stack[n].h,
         \A k \in 1..n - 1 : /\ F[heap[stack[k].h].mem].slots = mem[heap[stack[k].h].mem].slots
                             /\ F[heap[stack[k].h].mem].size = mem[heap[stack[k].h].mem].size
  PROVE  \A k \in 1..n - 1 : Outer(s, F, k)
<1> TAKE k \in 1..n - 1
<1>1. s[k] = stack[k] /\ s[k + 1].h = stack[k + 1].h
  <2>1. CASE k = n - 1
    BY <2>1
  <2>2. CASE k < n - 1
    <3>1. k + 1 \in 1..n - 1
      BY <2>2
    <3>2. QED
      BY <3>1
  <2>3. QED
    BY <2>1, <2>2
<1> DEFINE m == heap[stack[k].h].mem
<1>2. F[m].slots = mem[m].slots /\ F[m].size = mem[m].size /\ Outer(stack, mem, k)
  OBVIOUS
<1>3. QED
  BY <1>1, <1>2 DEF Outer

\* What holds before every step of do_sweep that has an activation.
LEMMA SweepFacts ==
  ASSUME Inductive, pc = "sweep", stack # <<>>
  PROVE  /\ GoodData /\ GoodHeap(heap) /\ GoodMem(mem) /\ GoodControl
         /\ stack \in Seq(FrameT) /\ Len(stack) \in Nat /\ Len(stack) >= 1
         /\ Top = stack[Len(stack)] /\ Top.h \in AllHeap /\ Top.i \in Nat
         /\ \A k \in 1..Len(stack) - 1 : Outer(stack, mem, k)
         /\ Upper(stack, mem)
         /\ Top.ph # "enter" =>
              /\ heap[Top.h].st # "unused" /\ TopMem \in AllMem /\ Sized(mem[TopMem])
              /\ Top.i <= mem[TopMem].size
              /\ \A k \in 1..Len(stack) - 1 : heap[stack[k].h].mem # TopMem
              /\ mem[TopMem].seen = TRUE
<1>1. /\ GoodData /\ GoodHeap(heap) /\ GoodMem(mem) /\ GoodControl
      /\ SeenIsOnStack /\ SweepFrames /\ stack \in Seq(FrameT)
  BY DEF Inductive, GoodData, GoodControl
<1>2. /\ Len(stack) \in Nat /\ Len(stack) >= 1
      /\ Top = stack[Len(stack)] /\ Top.h \in AllHeap /\ Top.i \in Nat
  BY <1>1, TopFacts
<1>3. (\A k \in 1..Len(stack) - 1 : Outer(stack, mem, k)) /\ Upper(stack, mem)
  BY <1>1, FramesSplit
<1>4. ASSUME Top.ph # "enter"
      PROVE  /\ heap[Top.h].st # "unused" /\ TopMem \in AllMem /\ Sized(mem[TopMem])
             /\ Top.i <= mem[TopMem].size
             /\ \A k \in 1..Len(stack) - 1 : heap[stack[k].h].mem # TopMem
             /\ mem[TopMem].seen = TRUE
  <2>1. heap[Top.h].st # "unused" /\ Top.i <= mem[TopMem].size
    BY <1>2, <1>3, <1>4 DEF Upper, TopMem
  <2>2. TopMem \in AllMem /\ Sized(mem[TopMem])
    BY <1>1, <1>2, <2>1, HeapHasMem DEF GoodMem, TopMem
  <2>3. Len(stack) \in 1..Len(stack) /\ Iterates(Len(stack), TopMem)
    BY <1>2, <1>4 DEF Iterates, TopMem
  <2>4. mem[TopMem].seen = TRUE
    BY <1>1, <2>2, <2>3 DEF SeenIsOnStack
  <2>5. ASSUME NEW k \in 1..Len(stack) - 1 PROVE heap[stack[k].h].mem # TopMem
    <3>0. Outer(stack, mem, k)
      BY <1>3
    <3>p. stack[k].ph # "enter"
      BY <3>0, OuterHas, Zenon
    <3>1. k \in 1..Len(stack) /\ k # Len(stack) /\ stack[k].ph # "enter"
      BY <1>2, <3>p
    <3>2. \A i, j \in 1..Len(stack) : Iterates(i, TopMem) /\ Iterates(j, TopMem) => i = j
      BY <1>1, <2>2 DEF SeenIsOnStack
    <3>3. ~Iterates(k, TopMem)
      BY <2>3, <3>1, <3>2
    <3>4. QED
      BY <3>1, <3>3 DEF Iterates
  <2>6. QED
    BY <2>1, <2>2, <2>4, <2>5
<1>5. QED
  BY <1>1, <1>2, <1>3, <1>4

\* The activations below the topmost one iterate memories.
LEMMA OuterMem ==
  ASSUME Inductive, pc = "sweep", stack # <<>>
  PROVE  \A k \in 1..Len(stack) - 1 : heap[stack[k].h].mem \in AllMem
<1> TAKE k \in 1..Len(stack) - 1
<1>1. GoodHeap(heap) /\ stack \in Seq(FrameT) /\ Outer(stack, mem, k)
  BY SweepFacts
<1>2. stack[k] \in FrameT
  BY <1>1
<1>3. stack[k].h \in AllHeap /\ heap[stack[k].h].st # "unused"
  BY <1>1, <1>2 DEF FrameT, Outer
<1>4. QED
  BY <1>1, <1>3, HeapHasMem

\* Queuing an entry keeps the lists of the activation of sweep_() well typed.
LEMMA QueueType ==
  ASSUME acts \in Seq(Act), acts # <<>>, NEW e \in Entry, NEW ms \in Seq(Mem)
  PROVE  /\ Queue(e) \in Seq(Act) /\ Queue(e) # <<>>
         /\ Queue2(e, ms) \in Seq(Act) /\ Queue2(e, ms) # <<>>
<1> DEFINE n == Len(acts)
           q == [ptr |-> e.ptr, ref |-> e.ref]
           L == Append(acts[n].list, q)
           X == acts[n].mlist \o ms
           A == [acts[n] EXCEPT !.list = L]
           B == [acts[n] EXCEPT !.list = L, !.mlist = X]
<1>1. n \in 1..n /\ acts[n] \in Act
  OBVIOUS
<1>2. q \in Item
  BY DEF Entry, Item
<1> HIDE DEF q
<1>3. L \in Seq(Item) /\ X \in Seq(Mem)
  BY <1>1, <1>2 DEF Act
<1>4. A \in Act /\ B \in Act
  BY <1>1, <1>3 DEF Act
<1>5. Queue(e) = [acts EXCEPT ![n] = A] /\ Queue2(e, ms) = [acts EXCEPT ![n] = B]
  BY <1>1 DEF Queue, Queue2, q, Act
<1> HIDE DEF A, B
<1>6. QED
  BY <1>1, <1>4, <1>5

\* The activations iterate the same memories, one new one that has not entered
\* its heap apart.
LEMMA SeenSame ==
  ASSUME SeenIsOnStack, pc = "sweep", pc' = "sweep", heap' = heap,
         NEW n \in Nat, n = Len(stack),
         Len(stack') = n \/ (Len(stack') = n + 1 /\ stack'[n + 1].ph = "enter"),
         \A k \in 1..n : stack'[k].h = stack[k].h
                         /\ (stack'[k].ph = "enter" <=> stack[k].ph = "enter"),
         \A x \in AllMem : mem'[x].seen = mem[x].seen
  PROVE  SeenIsOnStack'
<1>1. \A k \in 1..n, m \in AllMem : Iterates(k, m)' <=> Iterates(k, m)
  BY DEF Iterates
<1>2. \A m \in AllMem : Len(stack') = n + 1 => ~Iterates(n + 1, m)'
  BY DEF Iterates
<1>3. \A k \in 1..Len(stack') : k \in 1..n \/ (Len(stack') = n + 1 /\ k = n + 1)
  OBVIOUS
<1>4. \A k \in 1..n : k \in 1..Len(stack')
  OBVIOUS
<1>5. \A m \in AllMem : (\E k \in 1..Len(stack') : Iterates(k, m)')
                          <=> (\E k \in 1..n : Iterates(k, m))
  BY <1>1, <1>2, <1>3, <1>4
<1>6. \A m \in AllMem : mem'[m].seen = (\E k \in 1..n : Iterates(k, m))
  BY DEF SeenIsOnStack
<1>7. \A m \in AllMem : mem'[m].seen = (\E k \in 1..Len(stack') : Iterates(k, m)')
  BY <1>5, <1>6
<1>8. \A m \in AllMem : \A j, k \in 1..Len(stack') : Iterates(j, m)' /\ Iterates(k, m)' => j = k
  BY <1>1, <1>2, <1>3 DEF SeenIsOnStack
<1>9. QED
  BY <1>7, <1>8 DEF SeenIsOnStack

\* The topmost activation goes on with its loop at j, with new vectors in the
\* Memory it iterates or the same.
LEMMA Advance ==
  ASSUME Inductive, pc = "sweep", stack # <<>>, Top.ph # "enter",
         UNCHANGED <<obj, payload, heap, deallocCount, inside, pc>>,
         acts' \in Seq(Act), acts' # <<>>,
         NEW N, Sized(N), SameButVectors(mem[TopMem], N), mem' = Put(mem, TopMem, N),
         NEW j \in Nat, j <= N.size, stack' = Goto("scan", j)
  PROVE  Inductive'
<1> DEFINE n == Len(stack)
           m == TopMem
<1>1. /\ GoodData /\ GoodMem(mem) /\ GoodControl /\ SeenIsOnStack
      /\ stack \in Seq(FrameT) /\ n \in Nat /\ n >= 1 /\ Top = stack[n]
      /\ \A k \in 1..n - 1 : Outer(stack, mem, k)
      /\ heap[Top.h].st # "unused" /\ m \in AllMem
      /\ \A k \in 1..n - 1 : heap[stack[k].h].mem # m
  BY SweepFacts DEF Inductive
<1>2. /\ GoodMem(mem') /\ \A x \in AllMem : mem'[x].seen = mem[x].seen
      /\ \A x \in AllMem : mem'[x] = IF x = m THEN N ELSE mem[x]
  BY <1>1, SetVectorsGood
<1>3. /\ stack' \in Seq(FrameT) /\ Len(stack') = n
      /\ \A k \in 1..n - 1 : stack'[k] = stack[k]
      /\ stack'[n] = [h |-> Top.h, ph |-> "scan", i |-> j]
  BY <1>1, GotoFacts
<1>4. \A k \in 1..n - 1 : mem'[heap[stack[k].h].mem] = mem[heap[stack[k].h].mem]
  BY <1>1, <1>2, OuterMem
<1>5. \A k \in 1..n - 1 : Outer(stack', mem', k)
  <2>1. stack'[n].h = stack[n].h
    BY <1>1, <1>3
  <2>2. QED
    BY <1>1, <1>3, <1>4, <2>1, OuterKept
<1>6. Upper(stack', mem')
  <2>1. stack'[n].ph = "scan" /\ stack'[n].h = Top.h /\ stack'[n].i = j
    BY <1>3
  <2>2. mem'[heap[Top.h].mem] = N
    BY <1>1, <1>2 DEF TopMem
  <2>3. QED
    BY <1>1, <1>3, <2>1, <2>2 DEF Upper
<1>7. SweepFrames'
  BY <1>3, <1>5, <1>6, FramesJoin
<1>8. SeenIsOnStack'
  <2>1. \A k \in 1..n : stack'[k].h = stack[k].h
                        /\ (stack'[k].ph = "enter" <=> stack[k].ph = "enter")
    BY <1>1, <1>3
  <2>2. QED
    BY <1>1, <1>2, <1>3, <2>1, SeenSame
<1>9. GoodControl' /\ MarkFrames'
  BY <1>1, <1>3 DEF GoodControl, MarkFrames
<1>10. QED
  BY <1>1, <1>2, <1>7, <1>8, <1>9 DEF Inductive, GoodData

\* Entering a heap keeps the invariant: its Memory is never one that is iterated.
LEMMA SweepEnterStep ==
  ASSUME Inductive, SweepEnter
  PROVE  Inductive'
<1> DEFINE n == Len(stack)
           m == TopMem
           N == [mem[m] EXCEPT !.seen = TRUE, !.color = SweptColor(@)]
<1>1. /\ pc = "sweep" /\ stack # <<>> /\ Top.ph = "enter" /\ heap[Top.h].st = "live"
      /\ UNCHANGED <<obj, payload, heap, deallocCount, inside, pc, acts>>
  BY DEF SweepEnter, AtFrame, HeapOk
<1>2. /\ GoodData /\ GoodHeap(heap) /\ GoodMem(mem) /\ GoodControl /\ SeenIsOnStack
      /\ stack \in Seq(FrameT) /\ n \in Nat /\ n >= 1 /\ Top = stack[n] /\ Top.h \in AllHeap
      /\ \A k \in 1..n - 1 : Outer(stack, mem, k)
      /\ Upper(stack, mem)
  BY <1>1, SweepFacts DEF Inductive
<1>3. m \in AllMem /\ Sized(mem[m])
  BY <1>1, <1>2, HeapHasMem DEF GoodMem, TopMem
<1>4. Free(stack, m)
  BY <1>1, <1>2 DEF Upper, TopMem
<1>5. mem[m].seen = FALSE
  <2>1. \A k \in 1..n : ~Iterates(k, m)
    BY <1>4 DEF Free, Iterates
  <2>2. QED
    BY <1>1, <1>2, <1>3, <2>1 DEF SeenIsOnStack
<1>6. mem' = Put(mem, m, N) /\ stack' = Goto("scan", mem[m].size)
  <2>1. /\ mem' = [mem EXCEPT ![m].seen = TRUE, ![m].color = SweptColor(@)]
        /\ stack' = Goto("scan", mem[m].size)
    BY <1>5 DEF SweepEnter
  <2>2. [mem EXCEPT ![m].seen = TRUE, ![m].color = SweptColor(@)] = Put(mem, m, N)
    BY <1>2, <1>3 DEF Put, GoodMem, Memory
  <2>3. QED
    BY <2>1, <2>2
<1>7. /\ Sized(N) /\ N.slots = mem[m].slots /\ N.size = mem[m].size
      /\ N.seen = TRUE /\ N.st = mem[m].st /\ N.size \in Nat
  <2>1. SweptColor(mem[m].color) \in {"WHITE", "GRAY", "BLACK"}
    BY <1>3 DEF SweptColor, Sized, Memory
  <2>2. N = [mem[m] EXCEPT !.seen = TRUE, !.color = SweptColor(mem[m].color)]
    BY <1>3 DEF Sized, Memory
  <2> HIDE DEF N, m
  <2>3. QED
    BY <1>3, <2>1, <2>2 DEF Sized, Memory
<1> HIDE DEF N, m
<1>8. GoodMem(mem') /\ \A x \in AllMem : mem'[x] = IF x = m THEN N ELSE mem[x]
  <2>1. m = RootMem => N.st # "unused"
    BY <1>2, <1>7 DEF GoodMem
  <2>2. QED
    BY <1>2, <1>3, <1>6, <1>7, <2>1, SetMemGood
<1>9. /\ stack' \in Seq(FrameT) /\ Len(stack') = n
      /\ \A k \in 1..n - 1 : stack'[k] = stack[k]
      /\ stack'[n] = [h |-> Top.h, ph |-> "scan", i |-> mem[m].size]
  BY <1>1, <1>2, <1>6, <1>7, GotoFacts
<1>10. \A k \in 1..n - 1 : /\ mem'[heap[stack[k].h].mem].slots = mem[heap[stack[k].h].mem].slots
                           /\ mem'[heap[stack[k].h].mem].size = mem[heap[stack[k].h].mem].size
  BY <1>1, <1>7, <1>8, OuterMem
<1>11. \A k \in 1..n - 1 : Outer(stack', mem', k)
  <2>1. stack'[n].h = stack[n].h
    BY <1>2, <1>9
  <2>2. QED
    BY <1>2, <1>9, <1>10, <2>1, OuterKept
<1>12. Upper(stack', mem')
  <2>1. stack'[n].ph = "scan" /\ stack'[n].h = Top.h /\ stack'[n].i = mem[m].size
    BY <1>9
  <2>2. mem'[heap[Top.h].mem] = N
    BY <1>3, <1>8 DEF TopMem, m
  <2>3. mem[m].size <= N.size
    BY <1>7
  <2>4. QED
    BY <1>1, <1>9, <2>1, <2>2, <2>3 DEF Upper
<1>13. SweepFrames'
  BY <1>1, <1>9, <1>11, <1>12, FramesJoin
<1>14. SeenIsOnStack'
  <2>1. \A k \in 1..n - 1, x \in AllMem : Iterates(k, x)' <=> Iterates(k, x)
    BY <1>1, <1>9 DEF Iterates
  <2>2. \A k \in 1..n, x \in AllMem : k = n => (Iterates(k, x)' <=> x = m)
    <3>1. stack'[n].ph = "scan" /\ stack'[n].h = Top.h
      BY <1>9
    <3>2. QED
      BY <1>1, <3>1 DEF Iterates, m, TopMem
  <2>3. \A k \in 1..n : ~Iterates(k, m)
    BY <1>4 DEF Free, Iterates
  <2>4. \A k \in 1..n, x \in AllMem : k = n => ~Iterates(k, x)
    BY <1>1, <1>2 DEF Iterates
  <2>5. \A k \in 1..n : k \in 1..n - 1 \/ k = n
    BY <1>2
  <2>6. \A k \in 1..n - 1 : k \in 1..n
    BY <1>2
  <2>7. n \in 1..n
    BY <1>2
  <2>8. \A x \in AllMem : (\E k \in 1..n : Iterates(k, x)')
                            <=> x = m \/ \E k \in 1..n : Iterates(k, x)
    BY <2>1, <2>2, <2>4, <2>5, <2>6, <2>7
  <2>9. \A x \in AllMem : mem[x].seen = (\E k \in 1..n : Iterates(k, x))
    BY <1>1, <1>2 DEF SeenIsOnStack
  <2>10. \A x \in AllMem : mem'[x].seen = (\E k \in 1..n : Iterates(k, x)')
    <3> TAKE x \in AllMem
    <3>1. CASE x = m
      BY <1>7, <1>8, <2>8, <3>1
    <3>2. CASE x # m
      BY <1>8, <2>8, <2>9, <3>2
    <3>3. QED
      BY <3>1, <3>2
  <2>11. \A x \in AllMem : \A j, k \in 1..n : Iterates(j, x)' /\ Iterates(k, x)' => j = k
    <3>1. \A x \in AllMem : \A j, k \in 1..n : Iterates(j, x) /\ Iterates(k, x) => j = k
      BY <1>1, <1>2 DEF SeenIsOnStack
    <3>2. QED
      BY <2>1, <2>2, <2>3, <2>5, <2>6, <3>1
  <2>12. QED
    BY <1>1, <1>9, <2>10, <2>11 DEF SeenIsOnStack
<1>15. GoodControl' /\ MarkFrames'
  BY <1>1, <1>2, <1>9 DEF GoodControl, MarkFrames
<1>16. QED
  BY <1>1, <1>2, <1>8, <1>13, <1>14, <1>15 DEF Inductive, GoodData

\* Returning from an activation keeps the invariant: the one below finds the
\* Memory it refers to not iterated any more.
LEMMA SweepReturn ==
  ASSUME Inductive, pc = "sweep", stack # <<>>, Top.ph = "scan",
         UNCHANGED <<obj, payload, heap, deallocCount, inside, pc, acts>>,
         mem' = Put(mem, TopMem, Leave(mem[TopMem])), stack' = Pop
  PROVE  Inductive'
<1> DEFINE n == Len(stack)
           m == TopMem
           N == Leave(mem[m])
<1>1. /\ GoodData /\ GoodHeap(heap) /\ GoodMem(mem) /\ GoodControl /\ SeenIsOnStack
      /\ stack \in Seq(FrameT) /\ n \in Nat /\ n >= 1 /\ Top = stack[n] /\ Top.h \in AllHeap
      /\ \A k \in 1..n - 1 : Outer(stack, mem, k)
      /\ \A k \in 1..n - 1 : heap[stack[k].h].mem # m
      /\ m \in AllMem /\ Sized(mem[m])
  BY SweepFacts DEF Inductive
<1>2. /\ Sized(N) /\ N.slots = mem[m].slots /\ N.size = mem[m].size
      /\ N.seen = FALSE /\ N.st = mem[m].st
  <2> HIDE DEF m
  <2>1. QED
    BY <1>1 DEF Leave, Sized, Memory
<1> HIDE DEF N
<1>3. GoodMem(mem') /\ \A x \in AllMem : mem'[x] = IF x = m THEN N ELSE mem[x]
  <2>1. m = RootMem => N.st # "unused"
    BY <1>1, <1>2 DEF GoodMem
  <2>2. mem' = Put(mem, m, N)
    BY DEF N
  <2>3. QED
    BY <1>1, <1>2, <2>1, <2>2, SetMemGood
<1>4. /\ stack' \in Seq(FrameT) /\ Len(stack') = n - 1
      /\ \A k \in 1..n - 1 : stack'[k] = stack[k]
  BY <1>1, PopFacts
<1>5. \A k \in 1..n - 1 : mem'[heap[stack[k].h].mem] = mem[heap[stack[k].h].mem]
  BY <1>1, <1>3, OuterMem
<1>6. \A k \in 1..Len(stack') - 1 : Outer(stack', mem', k)
  <2> TAKE k \in 1..Len(stack') - 1
  <2>1. k \in 1..n - 1 /\ k + 1 \in 1..n - 1
    BY <1>1, <1>4
  <2>2. /\ Outer(stack, mem, k) /\ stack'[k] = stack[k] /\ stack'[k + 1] = stack[k + 1]
        /\ mem'[heap[stack[k].h].mem] = mem[heap[stack[k].h].mem]
    BY <1>1, <1>4, <1>5, <2>1
  <2>3. QED
    BY <2>2 DEF Outer
<1>7. ASSUME stack' # <<>> PROVE Upper(stack', mem')
  <2> DEFINE r == n - 1
  <2>1. r \in 1..n - 1 /\ Len(stack') = r /\ r + 1 = n
    BY <1>1, <1>4, <1>7
  <2>2. /\ Outer(stack, mem, r) /\ stack'[r] = stack[r] /\ stack[r + 1] = Top
        /\ mem'[heap[stack[r].h].mem] = mem[heap[stack[r].h].mem]
    BY <1>1, <1>4, <1>5, <2>1
  <2>3. Free(stack', m)
    BY <1>1, <1>4 DEF Free
  <2> HIDE DEF r
  <2>4. PICK e : e = mem[heap[stack[r].h].mem].slots[stack[r].i] /\ IsHeapRef(e)
                 /\ heap[e.ptr].st # "unused" /\ e.ptr = stack[r + 1].h
    BY <2>2, OuterHas, Zenon
  <2>5. /\ stack[r].ph # "enter" /\ heap[stack[r].h].st # "unused" /\ stack[r].i >= 1
        /\ stack[r].i <= mem[heap[stack[r].h].mem].size
    BY <2>2, OuterHas, Zenon
  <2>6. heap[e.ptr].mem = m
    BY <2>2, <2>4 DEF TopMem
  <2> DEFINE f == stack'[Len(stack')]
  <2>7. /\ f = stack[r] /\ mem'[heap[f.h].mem] = mem[heap[f.h].mem]
        /\ Free(stack', heap[e.ptr].mem)
    BY <2>1, <2>2, <2>3, <2>6, Zenon
  <2>8. /\ f.ph # "enter" /\ heap[f.h].st # "unused" /\ f.i >= 1
        /\ f.i <= mem'[heap[f.h].mem].size /\ e = mem'[heap[f.h].mem].slots[f.i]
    BY <2>4, <2>5, <2>7, Zenon
  <2> HIDE DEF f
  <2>9. f = stack'[Len(stack')]
    BY DEF f
  <2> QED BY <2>4, <2>7, <2>8, <2>9, UpperOf, Zenon
<1>8. SweepFrames'
  BY <1>4, <1>6, <1>7, FramesJoin
<1>9. SeenIsOnStack'
  <2>1. \A k \in 1..n - 1, x \in AllMem : Iterates(k, x)' <=> Iterates(k, x)
    BY <1>4 DEF Iterates
  <2>2. \A k \in 1..n, x \in AllMem : k = n => (Iterates(k, x) <=> x = m)
    BY <1>1 DEF Iterates, TopMem
  <2>3. \A k \in 1..n - 1 : ~Iterates(k, m)
    BY <1>1 DEF Iterates
  <2>4. \A k \in 1..n : k \in 1..n - 1 \/ k = n
    BY <1>1
  <2>5. \A k \in 1..n - 1 : k \in 1..n
    BY <1>1
  <2>6. \A x \in AllMem : mem[x].seen = (\E k \in 1..n : Iterates(k, x))
    BY <1>1 DEF SeenIsOnStack
  <2>7. \A x \in AllMem : mem'[x].seen = (\E k \in 1..n - 1 : Iterates(k, x)')
    <3> TAKE x \in AllMem
    <3>1. CASE x = m
      BY <1>2, <1>3, <2>1, <2>3, <3>1
    <3>2. CASE x # m
      <4>1. (\E k \in 1..n : Iterates(k, x)) <=> (\E k \in 1..n - 1 : Iterates(k, x)')
        BY <2>1, <2>2, <2>4, <2>5, <3>2
      <4>2. QED
        BY <1>3, <2>6, <3>2, <4>1
    <3>3. QED
      BY <3>1, <3>2
  <2>8. \A x \in AllMem : \A j, k \in 1..n - 1 : Iterates(j, x)' /\ Iterates(k, x)' => j = k
    <3>1. \A x \in AllMem : \A j, k \in 1..n : Iterates(j, x) /\ Iterates(k, x) => j = k
      BY <1>1 DEF SeenIsOnStack
    <3>2. QED
      BY <2>1, <2>5, <3>1
  <2>9. QED
    BY <1>4, <2>7, <2>8 DEF SeenIsOnStack
<1>10. GoodControl' /\ MarkFrames'
  BY <1>1, <1>4 DEF GoodControl, MarkFrames
<1>11. QED
  BY <1>1, <1>3, <1>8, <1>9, <1>10 DEF Inductive, GoodData

\* The frames below the topmost of n, and the topmost.
LEMMA UpTo ==
  ASSUME NEW n \in Nat
  PROVE  /\ \A k \in 1..n : k \in 1..n - 1 \/ k = n
         /\ \A k \in 1..n - 1 : k \in 1..n
         /\ \A k \in 1..n + 1 : k \in 1..n \/ k = n + 1
         /\ \A k \in 1..(n + 1) - 1 : k \in 1..n
OBVIOUS

\* Following a reference to a Memory that is not iterated keeps the invariant.
LEMMA SweepCall ==
  ASSUME Inductive, pc = "sweep", stack # <<>>, Top.ph = "scan", Top.i >= 1,
         UNCHANGED <<obj, payload, heap, mem, deallocCount, inside, pc, acts>>,
         NEW e, e = mem[TopMem].slots[Top.i], IsHeapRef(e), heap[e.ptr].st = "live",
         e.ptr \in Heap, mem[heap[e.ptr].mem].seen = FALSE,
         stack' \in Seq(FrameT), Len(stack') = Len(stack) + 1,
         \A k \in 1..Len(stack) - 1 : stack'[k] = stack[k],
         stack'[Len(stack)].h = Top.h, stack'[Len(stack)].ph = "back",
         stack'[Len(stack)].i = Top.i,
         stack'[Len(stack) + 1].h = e.ptr, stack'[Len(stack) + 1].ph = "enter"
  PROVE  Inductive'
<1> DEFINE n == Len(stack)
<1>1. /\ GoodData /\ GoodHeap(heap) /\ GoodMem(mem) /\ GoodControl /\ SeenIsOnStack
      /\ stack \in Seq(FrameT) /\ n \in Nat /\ n >= 1 /\ Top = stack[n]
      /\ Top.h \in AllHeap /\ Top.i \in Nat
      /\ \A k \in 1..n - 1 : Outer(stack, mem, k)
      /\ heap[Top.h].st # "unused" /\ Top.i <= mem[TopMem].size
  BY SweepFacts DEF Inductive
<1>2. e.ptr \in AllHeap /\ heap[e.ptr].mem \in AllMem
  BY <1>1, HeapHasMem DEF AllHeap
<1>3. /\ stack' \in Seq(FrameT) /\ Len(stack') = n + 1
      /\ \A k \in 1..n - 1 : stack'[k] = stack[k]
  OBVIOUS
<1>4. stack'[n + 1].h = e.ptr /\ stack'[n + 1].ph = "enter"
  OBVIOUS
<1>5. stack'[n].h = Top.h /\ stack'[n].ph = "back" /\ stack'[n].i = Top.i
  OBVIOUS
<1> HIDE DEF n
<1>6. \A k \in 1..n - 1 : Outer(stack', mem', k)
  <2>1. stack'[n].h = stack[n].h
    BY <1>1, <1>5
  <2>2. QED
    BY <1>1, <1>3, <2>1, OuterKept
<1>7. \A k \in 1..n : k = n => Outer(stack', mem', k)
  <2> DEFINE f == stack'[n]
  <2>1. /\ f.ph = "back" /\ heap[f.h].st # "unused" /\ f.i >= 1
        /\ f.i <= mem'[heap[f.h].mem].size /\ e = mem'[heap[f.h].mem].slots[f.i]
    BY <1>1, <1>5 DEF TopMem
  <2>2. heap[e.ptr].st # "unused" /\ e.ptr = stack'[n + 1].h
    BY <1>4
  <2> QED BY <2>1, <2>2, OuterOf, Zenon
<1>8. \A k \in 1..Len(stack') - 1 : Outer(stack', mem', k)
  <2>1. \A k \in 1..Len(stack') - 1 : k \in 1..n /\ (k \in 1..n - 1 \/ k = n)
    BY <1>1, <1>3, UpTo
  <2>2. QED
    BY <1>6, <1>7, <2>1
<1>9. Free(stack, heap[e.ptr].mem)
  <2>1. \A k \in 1..n : ~Iterates(k, heap[e.ptr].mem)
    BY <1>1, <1>2 DEF SeenIsOnStack, n
  <2>2. QED
    BY <2>1 DEF Free, Iterates, n
<1>10. Upper(stack', mem')
  <2>1. Free(stack', heap[e.ptr].mem)
    <3> SUFFICES ASSUME NEW k \in 1..Len(stack'), stack'[k].ph # "enter"
                 PROVE  heap[stack'[k].h].mem # heap[e.ptr].mem
      BY DEF Free
    <3>1. k \in 1..n /\ (k \in 1..n - 1 \/ k = n)
      <4>1. n \in Nat /\ k \in 1..n + 1 /\ k # n + 1
        BY <1>1, <1>3, <1>4, Zenon
      <4> QED BY <4>1, UpTo, Zenon
    <3>2. stack'[k].h = stack[k].h /\ stack[k].ph # "enter"
      <4>1. CASE k \in 1..n - 1
        <5>1. stack'[k] = stack[k]
          BY <1>3, <4>1, Zenon
        <5> QED BY <5>1, Zenon
      <4>2. CASE k = n
        <5>1. stack[k].h = Top.h /\ stack[k].ph # "enter"
          BY <1>1, <4>2, Zenon
        <5> QED BY <1>5, <4>2, <5>1, Zenon
      <4> QED BY <3>1, <4>1, <4>2, Zenon
    <3>3. ~(stack[k].ph # "enter" /\ heap[stack[k].h].mem = heap[e.ptr].mem)
      BY <1>9, <3>1 DEF Free, n
    <3>4. QED
      BY <3>2, <3>3, Zenon
  <2>2. QED
    BY <1>3, <1>4, <2>1 DEF Upper
<1>11. SweepFrames'
  <2>1. heap' = heap
    OBVIOUS
  <2>2. QED
    BY <1>3, <1>8, <1>10, <2>1, FramesJoin
<1>12. SeenIsOnStack'
  <2>1. \A k \in 1..n : stack'[k].h = stack[k].h
                        /\ (stack'[k].ph = "enter" <=> stack[k].ph = "enter")
    <3>1. \A k \in 1..n : k \in 1..n - 1 \/ k = n
      BY <1>1, UpTo
    <3>2. QED
      BY <1>1, <1>3, <1>5, <3>1
  <2>2. QED
    BY <1>1, <1>3, <1>4, <2>1, SeenSame DEF n
<1>13. GoodControl' /\ MarkFrames'
  BY <1>1, <1>3 DEF GoodControl, MarkFrames
<1>14. QED
  BY <1>1, <1>11, <1>12, <1>13 DEF Inductive, GoodData

\* One iteration of the loop of do_sweep keeps the invariant.
LEMMA SweepScanStep ==
  ASSUME Inductive, SweepScan
  PROVE  Inductive'
<1> DEFINE M == mem[TopMem]
           e == M.slots[Top.i]
<1>1. /\ pc = "sweep" /\ stack # <<>> /\ Top.ph = "scan"
      /\ UNCHANGED <<obj, payload, heap, deallocCount, inside, pc>>
  BY DEF SweepScan, AtFrame
<1>2. /\ GoodData /\ GoodHeap(heap) /\ GoodMem(mem) /\ GoodControl
      /\ stack \in Seq(FrameT) /\ Top.i \in Nat
      /\ TopMem \in AllMem /\ Sized(M) /\ Top.i <= M.size
  BY <1>1, SweepFacts
<1>3. acts \in Seq(Act) /\ acts # <<>>
  BY <1>1, <1>2 DEF GoodControl
<1>4. CASE Top.i = 0
  <2>1. /\ mem' = Put(mem, TopMem, Leave(mem[TopMem])) /\ stack' = Pop /\ acts' = acts
    BY <1>4 DEF SweepScan, Put
  <2>2. QED
    BY <1>1, <2>1, SweepReturn
<1>5. CASE Top.i # 0
  <2>1. /\ Top.i >= 1 /\ Top.i - 1 \in Nat /\ Top.i \in 1..M.size /\ Top.i - 1 <= M.size
    <3>1. M.size \in Nat
      BY <1>2 DEF Sized, Memory
    <3>2. QED
      BY <1>2, <1>5, <3>1
  <2>2. e \in Entry
    <3>1. Top.i \in 1..Len(M.slots) /\ M.slots \in Seq(Entry)
      BY <1>2, <2>1 DEF Sized, Memory
    <3>2. QED
      BY <3>1
  <2>3. IF IsHeapRef(e)
        THEN HeapOk(e.ptr) /\ SweepRef(e) /\ UNCHANGED <<mem, acts>>
        ELSE /\ stack' = Goto("scan", Top.i - 1)
             /\ IF e.ref THEN UNCHANGED <<mem, acts>> ELSE SweepValue(e)
    BY <1>5 DEF SweepScan
  <2> HIDE DEF e
  <2>4. ASSUME UNCHANGED <<mem, acts>>, stack' = Goto("scan", Top.i - 1)
        PROVE  Inductive'
    <3>1. mem' = Put(mem, TopMem, M) /\ SameButVectors(M, M)
      BY <1>2, <2>4 DEF Put, GoodMem, SameButVectors
    <3>2. QED
      BY <1>1, <1>2, <1>3, <2>1, <2>4, <3>1, Advance
  <2>5. CASE ~IsHeapRef(e) /\ ~e.ref
    <3>1. SweepValue(e) /\ stack' = Goto("scan", Top.i - 1)
      BY <2>3, <2>5
    <3>2. CASE M.color # "WHITE"
      BY <2>4, <3>1, <3>2 DEF SweepValue
    <3>3. CASE M.color = "WHITE"
      <4> DEFINE N == RemoveEntry(M, Top.i)
      <4>1. mem' = Put(mem, TopMem, N) /\ acts' = Queue(e)
        BY <3>1, <3>3 DEF SweepValue, Put
      <4>2. Sized(N) /\ SameButVectors(M, N) /\ N.size = M.size - 1
        BY <1>2, <2>1, RemoveEntryType
      <4>3. Top.i - 1 <= N.size
        <5>1. M.size \in Nat
          BY <1>2 DEF Sized, Memory
        <5>2. QED
          BY <1>2, <4>2, <5>1
      <4>4. acts' \in Seq(Act) /\ acts' # <<>>
        <5>1. <<>> \in Seq(Mem)
          OBVIOUS
        <5>2. QED
          BY <1>3, <2>2, <4>1, <5>1, QueueType
      <4> HIDE DEF N
      <4>5. QED
        BY <1>1, <2>1, <3>1, <4>1, <4>2, <4>3, <4>4, Advance
    <3>4. QED
      BY <3>2, <3>3
  <2>6. CASE ~IsHeapRef(e) /\ e.ref
    BY <2>3, <2>4, <2>6
  <2>7. CASE IsHeapRef(e)
    <3>1. HeapOk(e.ptr) /\ SweepRef(e) /\ mem' = mem /\ acts' = acts
      BY <2>3, <2>7
    <3>2. e.ptr \in Heap /\ e.ptr \in AllHeap /\ heap[e.ptr].st = "live"
      BY <2>2, <2>7, <3>1 DEF Entry, IsHeapRef, AllHeap, HeapOk
    <3>3. CASE mem[heap[e.ptr].mem].seen
      BY <2>4, <3>1, <3>3 DEF SweepRef
    <3>4. CASE ~mem[heap[e.ptr].mem].seen
      <4>1. stack' = Append(Goto("back", Top.i), Frame(e.ptr))
        BY <3>1, <3>4 DEF SweepRef
      <4>2. /\ stack' \in Seq(FrameT) /\ Len(stack') = Len(stack) + 1
            /\ \A k \in 1..Len(stack) - 1 : stack'[k] = stack[k]
            /\ stack'[Len(stack)] = [h |-> Top.h, ph |-> "back", i |-> Top.i]
            /\ stack'[Len(stack) + 1] = Frame(e.ptr)
        BY <1>1, <1>2, <3>2, <4>1, CallFacts
      <4>3. mem[heap[e.ptr].mem].seen = FALSE
        <5>1. Sized(mem[heap[e.ptr].mem])
          BY <1>2, <3>2, HeapHasMem DEF GoodMem
        <5>2. QED
          BY <3>4, <5>1 DEF Sized, Memory
      <4>4. e = mem[TopMem].slots[Top.i]
        BY DEF e
      <4>5. /\ UNCHANGED <<obj, payload, heap, mem, deallocCount, inside, pc, acts>>
            /\ heap[e.ptr].st = "live" /\ e.ptr \in Heap
        BY <1>1, <3>1, <3>2
      <4>6. /\ stack'[Len(stack)].h = Top.h /\ stack'[Len(stack)].ph = "back"
            /\ stack'[Len(stack)].i = Top.i
            /\ stack'[Len(stack) + 1].h = e.ptr /\ stack'[Len(stack) + 1].ph = "enter"
        <5> HIDE DEF e
        <5>1. PICK f : f = stack'[Len(stack)]
          BY Zenon
        <5>2. PICK g : g = stack'[Len(stack) + 1]
          BY Zenon
        <5>3. f = [h |-> Top.h, ph |-> "back", i |-> Top.i] /\ g = Frame(e.ptr)
          BY <4>2, <5>1, <5>2, Zenon
        <5>4. f.h = Top.h /\ f.ph = "back" /\ f.i = Top.i
          BY <5>3
        <5>5. g.h = e.ptr /\ g.ph = "enter"
          BY <5>3 DEF Frame
        <5> QED BY <5>1, <5>2, <5>4, <5>5, Zenon
      <4>7. QED
        BY <1>1, <2>1, <2>7, <4>2, <4>3, <4>4, <4>5, <4>6, SweepCall
    <3>5. QED
      BY <3>3, <3>4
  <2>8. QED
    BY <2>5, <2>6, <2>7
<1>6. QED
  BY <1>4, <1>5

\* The entry at the iterator of the topmost activation, and the Memory it
\* refers to.
TopEntry == mem[TopMem].slots[Top.i]
RefMem   == heap[TopEntry.ptr].mem

\* What an activation that refers to a Memory has in hand.
LEMMA RefFacts ==
  ASSUME Inductive, pc = "sweep", stack # <<>>, Top.ph \in {"back", "drain"}
  PROVE  /\ TopEntry \in Entry /\ IsHeapRef(TopEntry) /\ TopEntry.ptr \in Heap
         /\ heap[TopEntry.ptr].st # "unused" /\ RefMem \in Mem /\ RefMem \in AllMem
         /\ Sized(mem[RefMem]) /\ Free(stack, RefMem) /\ RefMem # TopMem
         /\ Top.i \in 1..mem[TopMem].size /\ Top.i >= 1
<1>1. /\ GoodHeap(heap) /\ GoodMem(mem) /\ stack \in Seq(FrameT)
      /\ Len(stack) \in Nat /\ Len(stack) >= 1 /\ Top = stack[Len(stack)] /\ Top.i \in Nat
      /\ Upper(stack, mem) /\ Sized(mem[TopMem]) /\ Top.i <= mem[TopMem].size
  BY SweepFacts
<1>2. /\ Top.i >= 1 /\ IsHeapRef(TopEntry) /\ heap[TopEntry.ptr].st # "unused"
      /\ Free(stack, RefMem)
  BY <1>1 DEF Upper, TopMem, TopEntry, RefMem
<1>3. Top.i \in 1..mem[TopMem].size
  <2>1. mem[TopMem].size \in Nat
    BY <1>1 DEF Sized, Memory
  <2>2. QED
    BY <1>1, <1>2, <2>1
<1>4. TopEntry \in Entry
  <2>1. Top.i \in 1..Len(mem[TopMem].slots) /\ mem[TopMem].slots \in Seq(Entry)
    BY <1>1, <1>3 DEF Sized, Memory
  <2>2. QED
    BY <2>1 DEF TopEntry
<1>5. TopEntry.ptr \in Heap
  BY <1>2, <1>4 DEF Entry, IsHeapRef
<1>6. RefMem \in Mem /\ RefMem \in AllMem
  BY <1>1, <1>2, <1>5 DEF GoodHeap, AllMem, RefMem
<1>7. RefMem # TopMem
  <2>1. Len(stack) \in 1..Len(stack) /\ stack[Len(stack)].ph # "enter"
    BY <1>1
  <2>2. QED
    BY <1>1, <1>2, <2>1 DEF Free, TopMem
<1>8. QED
  BY <1>1, <1>2, <1>3, <1>4, <1>5, <1>6, <1>7 DEF GoodMem

\* Working on the Memory that the topmost activation refers to keeps the
\* invariant, since no activation iterates that one.
LEMMA Drained ==
  ASSUME Inductive, pc = "sweep", stack # <<>>, Top.ph \in {"back", "drain"},
         UNCHANGED <<obj, payload, heap, deallocCount, inside, pc>>,
         acts' \in Seq(Act), acts' # <<>>,
         NEW N, Sized(N), N.seen = mem[RefMem].seen, N.st = mem[RefMem].st,
         mem' = Put(mem, RefMem, N),
         stack' \in Seq(FrameT), Len(stack') = Len(stack),
         \A k \in 1..Len(stack) - 1 : stack'[k] = stack[k],
         stack'[Len(stack)].h = Top.h, stack'[Len(stack)].i = Top.i,
         stack'[Len(stack)].ph = "drain"
  PROVE  Inductive'
<1> DEFINE n == Len(stack)
<1>1. /\ GoodData /\ GoodHeap(heap) /\ GoodMem(mem) /\ GoodControl /\ SeenIsOnStack
      /\ stack \in Seq(FrameT) /\ n \in Nat /\ n >= 1 /\ Top = stack[n]
      /\ \A k \in 1..n - 1 : Outer(stack, mem, k)
      /\ heap[Top.h].st # "unused" /\ TopMem \in AllMem /\ Top.i \in Nat
      /\ Top.i <= mem[TopMem].size
  BY SweepFacts DEF Inductive
<1>2. /\ IsHeapRef(TopEntry) /\ heap[TopEntry.ptr].st # "unused" /\ RefMem \in AllMem
      /\ Free(stack, RefMem) /\ RefMem # TopMem /\ Top.i >= 1
  BY RefFacts
<1>3. GoodMem(mem') /\ \A x \in AllMem : mem'[x] = IF x = RefMem THEN N ELSE mem[x]
  <2>1. RefMem = RootMem => N.st # "unused"
    BY <1>1 DEF GoodMem
  <2>2. GoodMem(mem) /\ RefMem \in AllMem
    BY <1>1, <1>2
  <2>3. QED
    BY <2>1, <2>2, SetMemGood
<1>4. \A x \in AllMem : mem'[x].seen = mem[x].seen
  BY <1>3
<1>5. \A k \in 1..n : stack'[k].h = stack[k].h
                      /\ (stack'[k].ph = "enter" <=> stack[k].ph = "enter")
  BY <1>1, UpTo
<1>6. \A k \in 1..n - 1 : mem'[heap[stack[k].h].mem] = mem[heap[stack[k].h].mem]
  <2> TAKE k \in 1..n - 1
  <2>1. Outer(stack, mem, k) /\ k \in 1..n
    BY <1>1, UpTo
  <2>2. heap[stack[k].h].mem # RefMem
    BY <1>2, <2>1 DEF Free, Outer
  <2>3. QED
    BY <1>3, <2>2, OuterMem
<1>7. mem'[TopMem] = mem[TopMem]
  BY <1>1, <1>2, <1>3
<1> HIDE DEF n
<1>8. \A k \in 1..n - 1 : Outer(stack', mem', k)
  <2>1. stack'[n].h = stack[n].h
    BY <1>1 DEF n
  <2>2. QED
    BY <1>1, <1>6, <2>1, OuterKept DEF n
<1>9. Upper(stack', mem')
  <2>1. Free(stack', RefMem)
    BY <1>2, <1>5 DEF Free, n
  <2>2. mem'[heap[Top.h].mem] = mem[heap[Top.h].mem]
    BY <1>7 DEF TopMem
  <2>3. Len(stack') = n /\ stack'[n].h = Top.h /\ stack'[n].i = Top.i /\ stack'[n].ph = "drain"
    BY DEF n
  <2>4. Top.i >= 1 /\ TopEntry = mem[heap[Top.h].mem].slots[Top.i]
    BY <1>1, <1>2 DEF TopMem, TopEntry
  <2>5. Top.i <= mem'[heap[Top.h].mem].size
    BY <1>1, <2>2 DEF TopMem
  <2>6. TopEntry = mem'[heap[Top.h].mem].slots[Top.i]
    BY <2>2, <2>4
  <2>7. /\ stack'[n].ph # "enter" /\ heap[stack'[n].h].st # "unused"
        /\ Free(stack', heap[TopEntry.ptr].mem)
    BY <1>1, <2>1, <2>3 DEF RefMem
  <2>8. QED
    BY <1>2, <2>3, <2>4, <2>5, <2>6, <2>7, UpperOf, Zenon
<1>10. SweepFrames'
  <2>1. heap' = heap /\ Len(stack') = n
    BY DEF n
  <2>2. QED
    BY <1>8, <1>9, <2>1, FramesJoin
<1>11. SeenIsOnStack'
  <2>1. pc' = "sweep" /\ heap' = heap /\ n = Len(stack) /\ Len(stack') = n
    BY DEF n
  <2>2. QED
    BY <1>1, <1>4, <1>5, <2>1, SeenSame
<1>12. GoodControl' /\ MarkFrames'
  BY <1>1 DEF GoodControl, MarkFrames
<1>13. QED
  BY <1>1, <1>3, <1>10, <1>11, <1>12 DEF Inductive, GoodData

\* The return of a recursive call keeps the invariant.
LEMMA SweepBackStep ==
  ASSUME Inductive, SweepBack
  PROVE  Inductive'
<1> DEFINE M == mem[TopMem]
           e == TopEntry
           rm == RefMem
<1>1. /\ pc = "sweep" /\ stack # <<>> /\ Top.ph = "back" /\ Top.ph \in {"back", "drain"}
      /\ UNCHANGED <<obj, payload, heap, deallocCount, inside, pc>>
  BY DEF SweepBack, AtFrame
<1>2. /\ GoodControl /\ GoodMem(mem) /\ stack \in Seq(FrameT) /\ Top.i \in Nat
      /\ TopMem \in AllMem /\ Sized(M) /\ Top.i <= M.size
  BY <1>1, SweepFacts
<1>3. acts \in Seq(Act) /\ acts # <<>>
  BY <1>1, <1>2 DEF GoodControl
<1>4. /\ e \in Entry /\ rm \in AllMem /\ Sized(mem[rm]) /\ Top.i \in 1..M.size /\ Top.i >= 1
  BY <1>1, RefFacts
<1>5. Top.i - 1 \in Nat /\ M.size \in Nat
  BY <1>2, <1>4 DEF Sized, Memory
<1>6. \/ /\ mem' = Put(mem, TopMem, RemoveEntry(M, Top.i)) /\ acts' = Queue(e)
         /\ stack' = Goto("scan", Top.i - 1)
      \/ /\ mem' = [mem EXCEPT ![rm].keep = TRUE] /\ acts' = acts
         /\ stack' = Goto("drain", Top.i)
      \/ mem' = mem /\ acts' = acts /\ stack' = Goto("scan", Top.i - 1)
  BY DEF SweepBack, Put, TopEntry, RefMem
<1> HIDE DEF e, rm
<1>7. CASE /\ mem' = Put(mem, TopMem, RemoveEntry(M, Top.i)) /\ acts' = Queue(e)
           /\ stack' = Goto("scan", Top.i - 1)
  <2> DEFINE N == RemoveEntry(M, Top.i)
  <2>1. Sized(N) /\ SameButVectors(M, N) /\ N.size = M.size - 1
    BY <1>2, <1>4, RemoveEntryType
  <2>2. Top.i - 1 <= N.size
    BY <1>2, <1>5, <2>1
  <2>3. acts' \in Seq(Act) /\ acts' # <<>>
    <3>1. <<>> \in Seq(Mem)
      OBVIOUS
    <3>2. QED
      BY <1>3, <1>4, <1>7, <3>1, QueueType
  <2> HIDE DEF N
  <2>4. mem' = Put(mem, TopMem, N) /\ stack' = Goto("scan", Top.i - 1)
    BY <1>7 DEF N
  <2>5. Top.ph # "enter"
    BY <1>1
  <2>6. QED
    BY <1>1, <1>5, <2>1, <2>2, <2>3, <2>4, <2>5, Advance
<1>8. CASE /\ mem' = [mem EXCEPT ![rm].keep = TRUE] /\ acts' = acts
           /\ stack' = Goto("drain", Top.i)
  <2> DEFINE N == [mem[rm] EXCEPT !.keep = TRUE]
  <2>1. mem' = Put(mem, rm, N)
    BY <1>2, <1>4, <1>8 DEF Put, GoodMem
  <2>2. Sized(N) /\ N.seen = mem[rm].seen /\ N.st = mem[rm].st
    BY <1>4 DEF Sized, Memory
  <2> HIDE DEF N
  <2>3. /\ stack' \in Seq(FrameT) /\ Len(stack') = Len(stack)
        /\ \A k \in 1..Len(stack) - 1 : stack'[k] = stack[k]
        /\ stack'[Len(stack)] = [h |-> Top.h, ph |-> "drain", i |-> Top.i]
    BY <1>1, <1>2, <1>8, GotoFacts
  <2>4. /\ stack'[Len(stack)].h = Top.h /\ stack'[Len(stack)].i = Top.i
        /\ stack'[Len(stack)].ph = "drain"
    BY <2>3
  <2>5. acts' \in Seq(Act) /\ acts' # <<>>
    BY <1>3, <1>8
  <2>6. QED
    BY <1>1, <2>1, <2>2, <2>3, <2>4, <2>5, Drained DEF rm
<1>9. CASE mem' = mem /\ acts' = acts /\ stack' = Goto("scan", Top.i - 1)
  <2>1. mem' = Put(mem, TopMem, M) /\ SameButVectors(M, M)
    BY <1>2, <1>9 DEF Put, GoodMem, SameButVectors
  <2>2. acts' \in Seq(Act) /\ acts' # <<>> /\ Top.i - 1 <= M.size /\ Top.ph # "enter"
    BY <1>1, <1>2, <1>3, <1>5, <1>9
  <2>3. QED
    BY <1>1, <1>2, <1>5, <1>9, <2>1, <2>2, Advance
<1>10. QED
  BY <1>6, <1>7, <1>8, <1>9

\* One iteration of the drain of the referenced Memory keeps the invariant.
LEMMA SweepDrainStep ==
  ASSUME Inductive, SweepDrain
  PROVE  Inductive'
<1> DEFINE M == mem[TopMem]
           e == TopEntry
           rm == RefMem
           x == Last(mem[rm].indexes)
<1>1. /\ pc = "sweep" /\ stack # <<>> /\ Top.ph = "drain" /\ Top.ph \in {"back", "drain"}
      /\ UNCHANGED <<obj, payload, heap, deallocCount, inside, pc>>
  BY DEF SweepDrain, AtFrame
<1>2. /\ GoodControl /\ GoodMem(mem) /\ stack \in Seq(FrameT) /\ Top.i \in Nat
      /\ Len(stack) \in Nat /\ Len(stack) >= 1 /\ Top = stack[Len(stack)]
      /\ TopMem \in AllMem /\ Sized(M) /\ Top.i <= M.size
  BY <1>1, SweepFacts
<1>3. acts \in Seq(Act) /\ acts # <<>>
  BY <1>1, <1>2 DEF GoodControl
<1>4. /\ e \in Entry /\ rm \in Mem /\ rm \in AllMem /\ Sized(mem[rm])
      /\ Top.i \in 1..M.size /\ Top.i >= 1
  BY <1>1, RefFacts
<1>5. Top.i - 1 \in Nat /\ M.size \in Nat
  BY <1>2, <1>4 DEF Sized, Memory
<1>6. \/ /\ mem[rm].indexes # <<>> /\ x < Len(mem[rm].slots)
         /\ mem' = Put(mem, rm, DrainOne(mem[rm], x))
         /\ acts' = Queue(mem[rm].slots[x + 1]) /\ stack' = stack
      \/ /\ mem' = Put(mem, TopMem, RemoveEntry(M, Top.i))
         /\ acts' = Queue2(e, IF mem[rm].size = 0 THEN <<rm>> ELSE <<>>)
         /\ stack' = Goto("scan", Top.i - 1)
  BY DEF SweepDrain, Put, TopEntry, RefMem
<1> HIDE DEF e, rm
<1>7. CASE /\ mem[rm].indexes # <<>> /\ x < Len(mem[rm].slots)
           /\ mem' = Put(mem, rm, DrainOne(mem[rm], x))
           /\ acts' = Queue(mem[rm].slots[x + 1]) /\ stack' = stack
  <2> DEFINE R == mem[rm]
             N == DrainOne(R, x)
  <2>1. x \in Nat /\ x + 1 \in 1..Len(R.slots) /\ R.slots \in Seq(Entry)
    <3>1. R.indexes \in Seq(Nat) /\ R.slots \in Seq(Entry)
      BY <1>4 DEF Sized, Memory
    <3>2. x \in Nat
      BY <1>7, <3>1 DEF Last
    <3>3. QED
      BY <1>7, <3>1, <3>2
  <2>2. R.slots[x + 1] \in Entry
    BY <2>1
  <2>3. acts' \in Seq(Act) /\ acts' # <<>>
    <3>1. <<>> \in Seq(Mem)
      OBVIOUS
    <3>2. QED
      BY <1>3, <1>7, <2>2, <3>1, QueueType
  <2>4. Sized(N) /\ SameButVectors(R, N)
    BY <1>4, <1>7, <2>1, DrainOneType
  <2>5. N.seen = R.seen /\ N.st = R.st
    BY <2>4 DEF SameButVectors
  <2> HIDE DEF N
  <2>6. mem' = Put(mem, rm, N) /\ stack' = stack
    BY <1>7 DEF N
  <2>7. /\ stack' \in Seq(FrameT) /\ Len(stack') = Len(stack)
        /\ \A k \in 1..Len(stack) - 1 : stack'[k] = stack[k]
        /\ stack'[Len(stack)].h = Top.h /\ stack'[Len(stack)].i = Top.i
        /\ stack'[Len(stack)].ph = "drain"
    BY <1>1, <1>2, <2>6
  <2>8. QED
    BY <1>1, <2>3, <2>4, <2>5, <2>6, <2>7, Drained DEF rm
<1>8. CASE /\ mem' = Put(mem, TopMem, RemoveEntry(M, Top.i))
           /\ acts' = Queue2(e, IF mem[rm].size = 0 THEN <<rm>> ELSE <<>>)
           /\ stack' = Goto("scan", Top.i - 1)
  <2> DEFINE N == RemoveEntry(M, Top.i)
             ms == IF mem[rm].size = 0 THEN <<rm>> ELSE <<>>
  <2>1. Sized(N) /\ SameButVectors(M, N) /\ N.size = M.size - 1
    BY <1>2, <1>4, RemoveEntryType
  <2>2. Top.i - 1 <= N.size
    BY <1>2, <1>5, <2>1
  <2>3. ms \in Seq(Mem)
    BY <1>4
  <2> HIDE DEF N, ms
  <2>4. acts' \in Seq(Act) /\ acts' # <<>>
    BY <1>3, <1>4, <1>8, <2>3, QueueType DEF ms
  <2>5. mem' = Put(mem, TopMem, N) /\ stack' = Goto("scan", Top.i - 1)
    BY <1>8 DEF N
  <2>6. Top.ph # "enter"
    BY <1>1
  <2>7. QED
    BY <1>1, <1>5, <2>1, <2>2, <2>4, <2>5, <2>6, Advance
<1>9. QED
  BY <1>6, <1>7, <1>8

\* The end of do_sweep keeps the invariant.
LEMMA SweepDoneStep ==
  ASSUME Inductive, SweepDone
  PROVE  Inductive'
<1>1. /\ GoodData /\ GoodControl /\ GoodMem(mem) /\ SeenIsOnStack /\ pc = "sweep"
      /\ stack = <<>> /\ pc' = "destroy" /\ inside' = TRUE
      /\ UNCHANGED <<obj, payload, heap, mem, deallocCount, stack, acts>>
  BY DEF Inductive, GoodData, SweepDone
<1>2. \A m \in AllMem : mem'[m].seen = FALSE
  <2>1. 1..Len(stack) = {}
    BY <1>1
  <2>2. QED
    BY <1>1, <2>1 DEF SeenIsOnStack
<1>3. GoodControl' /\ MarkFrames' /\ SweepFrames' /\ SeenIsOnStack'
  BY <1>1, <1>2 DEF GoodControl, MarkFrames, SweepFrames, SeenIsOnStack
<1>4. QED
  BY <1>1, <1>3 DEF Inductive, GoodData

\* A fault of the collector keeps the invariant.
LEMMA CollectorFaultStep ==
  ASSUME Inductive, CollectorFault
  PROVE  Inductive'
<1>1. /\ pc' = "fault" /\ UNCHANGED <<obj, payload, heap, mem, deallocCount>>
      /\ inside' = inside /\ stack' = stack /\ acts' = acts
  BY DEF CollectorFault
<1>2. GoodData' /\ acts' \in Seq(Act)
  BY <1>1 DEF Inductive, GoodData, GoodControl
<1>3. QED
  BY <1>1, <1>2, FaultStep

\* A fault of the client keeps the invariant.
LEMMA ClientFaultStep ==
  ASSUME Inductive, ClientFault
  PROVE  Inductive'
<1>1. /\ pc' = "fault" /\ UNCHANGED <<obj, payload, heap, mem, deallocCount>>
      /\ inside' = inside /\ stack' = stack /\ acts' = acts
  BY DEF ClientFault
<1>2. GoodData' /\ acts' \in Seq(Act)
  BY <1>1 DEF Inductive, GoodData, GoodControl
<1>3. QED
  BY <1>1, <1>2, FaultStep

----------------------------------------------------------------------------
(* The destructors.                                                        *)

\* Replacing the topmost lists.
LEMMA SetActType ==
  ASSUME acts \in Seq(Act), acts # <<>>, NEW A \in Act
  PROVE  /\ [acts EXCEPT ![Len(acts)] = A] \in Seq(Act)
         /\ [acts EXCEPT ![Len(acts)] = A] # <<>>
<1>1. Len(acts) \in 1..Len(acts)
  OBVIOUS
<1>2. QED
  BY <1>1

\* While destructors run no Memory is seen, so that the collector's state stays
\* well formed as long as its lists do.
LEMMA DestroyControl ==
  ASSUME Inductive, pc \in {"destroy", "callback"}, UNCHANGED <<inside, stack>>,
         pc' \in {"destroy", "callback", "fault"}, acts' \in Seq(Act), acts' # <<>>,
         \A m \in AllMem : mem'[m].seen = mem[m].seen
  PROVE  GoodControl' /\ MarkFrames' /\ SweepFrames' /\ SeenIsOnStack'
<1>1. GoodControl /\ GoodMem(mem) /\ SeenIsOnStack
  BY DEF Inductive, GoodData
<1>2. \A m \in AllMem : mem'[m].seen = FALSE
  BY <1>1 DEF SeenIsOnStack
<1>3. GoodControl' /\ MarkFrames'
  BY <1>1 DEF GoodControl, MarkFrames
<1>4. SweepFrames' /\ SeenIsOnStack'
  BY <1>2 DEF SweepFrames, SeenIsOnStack
<1>5. QED
  BY <1>3, <1>4

\* One destructor of the queue keeps the invariant.
LEMMA RunDestructorStep ==
  ASSUME Inductive, RunDestructor
  PROVE  Inductive'
<1> DEFINE q == Last(ActTop.list)
           A == [acts[Len(acts)] EXCEPT !.list = Front(@)]
<1>1. /\ GoodData /\ GoodControl /\ pc = "destroy" /\ ActTop.list # <<>>
      /\ mem' = mem /\ deallocCount' = deallocCount /\ inside' = inside /\ stack' = stack
  BY DEF Inductive, RunDestructor
<1>2. /\ acts' = [acts EXCEPT ![Len(acts)].list = Front(@)]
      /\ heap' = heap \/ (q.ptr \in Heap /\ heap[q.ptr].st = "live"
                          /\ heap' = [heap EXCEPT ![q.ptr].st = "freed"])
      /\ payload' = payload \/ (q.ptr \in Payload
                                /\ payload' = [payload EXCEPT ![q.ptr].st = "destroyed"])
      /\ obj' = obj \/ (q.ptr \in Obj /\ obj[q.ptr].st = "boxed"
                        /\ obj' = [obj EXCEPT ![q.ptr].st = "gone"])
      /\ pc' \in {"destroy", "callback", "fault"}
  <2> DEFINE ok == \/ q.ptr = Null
                   \/ q.ptr \in Heap /\ heap[q.ptr].st = "live"
                   \/ q.ptr \in Payload /\ payload[q.ptr].st = "held"
                   \/ /\ q.ptr \in Obj /\ obj[q.ptr].st = "boxed"
                      /\ heap[obj[q.ptr].heap].st = "live"
  <2>1. /\ acts' = [acts EXCEPT ![Len(acts)].list = Front(@)]
        /\ heap' = IF ok /\ q.ptr \in Heap
                   THEN [heap EXCEPT ![q.ptr].st = "freed"] ELSE heap
        /\ payload' = IF ok /\ q.ptr \in Payload
                      THEN [payload EXCEPT ![q.ptr].st = "destroyed"] ELSE payload
        /\ obj' = IF ok /\ q.ptr \in Obj THEN [obj EXCEPT ![q.ptr].st = "gone"] ELSE obj
        /\ pc' = IF ~ok THEN "fault"
                 ELSE IF q.ptr \in Payload /\ "callback" \in Uses THEN "callback" ELSE pc
    BY DEF RunDestructor
  <2>2. (ok /\ q.ptr \in Heap) => heap[q.ptr].st = "live"
    BY DistinctIds
  <2>3. (ok /\ q.ptr \in Obj) => obj[q.ptr].st = "boxed"
    BY DistinctIds
  <2> HIDE DEF ok, q
  <2>4. QED
    BY <1>1, <2>1, <2>2, <2>3
<1> HIDE DEF q
<1>3. acts \in Seq(Act) /\ acts # <<>> /\ acts[Len(acts)] \in Act
  <2>1. acts \in Seq(Act) /\ acts # <<>>
    BY <1>1 DEF GoodControl
  <2>2. QED
    BY <2>1
<1>4. acts' \in Seq(Act) /\ acts' # <<>>
  <2>1. acts[Len(acts)].list \in Seq(Item) /\ acts[Len(acts)].list # <<>>
    BY <1>1, <1>3 DEF Act, ActTop, Last
  <2>2. Front(acts[Len(acts)].list) \in Seq(Item)
    BY <2>1, FrontFacts
  <2>3. A \in Act
    BY <1>3, <2>2 DEF Act
  <2>4. acts' = [acts EXCEPT ![Len(acts)] = A]
    BY <1>2, <1>3
  <2> HIDE DEF A
  <2>5. QED
    BY <1>3, <2>3, <2>4, SetActType
<1>5. GoodHeap(heap') /\ \A h \in AllHeap : heap'[h].st # "unused" <=> heap[h].st # "unused"
  <2>1. CASE heap' = heap
    BY <1>1, <2>1 DEF GoodData
  <2>2. CASE /\ q.ptr \in Heap /\ heap[q.ptr].st = "live"
             /\ heap' = [heap EXCEPT ![q.ptr].st = "freed"]
    <3>1. heap \in [AllHeap -> HeapT] /\ Heap \subseteq AllHeap /\ GoodHeap(heap)
      BY <1>1 DEF GoodData, GoodHeap, AllHeap
    <3>2. heap' \in [AllHeap -> HeapT]
      BY <2>2, <3>1 DEF HeapT
    <3>3. \A h \in AllHeap : heap'[h].mem = heap[h].mem
                             /\ (h # q.ptr => heap'[h].st = heap[h].st)
      BY <2>2, <3>1 DEF HeapT
    <3>4. heap'[q.ptr].st = "freed"
      BY <2>2, <3>1 DEF HeapT
    <3>5. Root # q.ptr /\ Root \in AllHeap
      BY <2>2, DistinctIds DEF AllHeap
    <3>6. QED
      BY <2>2, <3>1, <3>2, <3>3, <3>4, <3>5 DEF GoodHeap
  <2>3. QED
    BY <1>2, <2>1, <2>2
<1>6. GoodObj(obj', heap')
  <2>1. obj \in [Obj -> ObjT] /\ Heap \subseteq AllHeap /\ GoodObj(obj, heap)
    BY <1>1 DEF GoodData, GoodObj, AllHeap
  <2>2. CASE obj' = obj
    BY <1>5, <2>1, <2>2 DEF GoodObj
  <2>3. CASE /\ q.ptr \in Obj /\ obj[q.ptr].st = "boxed"
             /\ obj' = [obj EXCEPT ![q.ptr].st = "gone"]
    <3>1. obj' \in [Obj -> ObjT]
      BY <2>1, <2>3 DEF ObjT
    <3>2. \A o \in Obj : obj'[o].heap = obj[o].heap
                         /\ (o # q.ptr => obj'[o].st = obj[o].st)
      BY <2>1, <2>3 DEF ObjT
    <3>3. QED
      BY <1>5, <2>1, <2>3, <3>1, <3>2 DEF GoodObj
  <2>4. QED
    BY <1>2, <2>2, <2>3
<1>7. payload' \in [Payload -> PayloadT]
  BY <1>1, <1>2 DEF GoodData, PayloadT
<1>8. GoodControl' /\ MarkFrames' /\ SweepFrames' /\ SeenIsOnStack'
  BY <1>1, <1>2, <1>4, DestroyControl
<1>9. QED
  BY <1>1, <1>5, <1>6, <1>7, <1>8 DEF Inductive, GoodData

\* The return of a payload's destructor keeps the invariant.
LEMMA ReturnStep ==
  ASSUME Inductive, Return
  PROVE  Inductive'
<1>1. /\ GoodData /\ GoodControl /\ pc = "callback" /\ pc' = "destroy"
      /\ UNCHANGED <<obj, payload, heap, mem, deallocCount, inside, stack, acts>>
  BY DEF Inductive, Return
<1>2. acts' \in Seq(Act) /\ acts' # <<>>
  BY <1>1 DEF GoodControl
<1>3. GoodControl' /\ MarkFrames' /\ SweepFrames' /\ SeenIsOnStack'
  BY <1>1, <1>2, DestroyControl
<1>4. QED
  BY <1>1, <1>3 DEF Inductive, GoodData

\* The deletion of a Memory keeps the invariant.
LEMMA FreeMem ==
  ASSUME GoodMem(mem), NEW m \in AllMem,
         mem' = [mem EXCEPT ![m].st = "freed"]
  PROVE  GoodMem(mem') /\ \A x \in AllMem : mem'[x].seen = mem[x].seen
<1> DEFINE N == [mem[m] EXCEPT !.st = "freed"]
<1>1. mem' = Put(mem, m, N)
  BY DEF Put, GoodMem
<1>2. Sized(mem[m])
  BY DEF GoodMem
<1>3. Sized(N) /\ N.seen = mem[m].seen /\ N.st = "freed"
  BY <1>2 DEF Sized, Memory
<1> HIDE DEF N
<1>4. GoodMem(Put(mem, m, N))
      /\ \A x \in AllMem : Put(mem, m, N)[x] = IF x = m THEN N ELSE mem[x]
  BY <1>3, SetMemGood
<1>5. \A x \in AllMem : Put(mem, m, N)[x].seen = mem[x].seen
  BY <1>3, <1>4
<1>6. QED
  BY <1>1, <1>4, <1>5

\* One Memory of the queue keeps the invariant.
LEMMA RunMemoryDestructorStep ==
  ASSUME Inductive, RunMemoryDestructor
  PROVE  Inductive'
<1> DEFINE m == Last(ActTop.mlist)
           A == [acts[Len(acts)] EXCEPT !.mlist = Front(@)]
<1>1. /\ GoodData /\ GoodControl /\ GoodMem(mem) /\ pc = "destroy" /\ ActTop.mlist # <<>>
      /\ acts' = [acts EXCEPT ![Len(acts)].mlist = Front(@)]
      /\ UNCHANGED <<obj, payload, heap, deallocCount, inside, stack>>
      /\ \/ mem' = [mem EXCEPT ![m].st = "freed"] /\ pc' = pc
         \/ pc' = "fault" /\ mem' = mem
  BY DEF Inductive, GoodData, RunMemoryDestructor
<1>2. acts \in Seq(Act) /\ acts # <<>> /\ acts[Len(acts)] \in Act
  <2>1. acts \in Seq(Act) /\ acts # <<>>
    BY <1>1 DEF GoodControl
  <2>2. QED
    BY <2>1
<1>3. acts[Len(acts)].mlist \in Seq(Mem) /\ acts[Len(acts)].mlist # <<>>
  BY <1>1, <1>2 DEF Act, ActTop, Last
<1>4. acts' \in Seq(Act) /\ acts' # <<>>
  <2>1. Front(acts[Len(acts)].mlist) \in Seq(Mem)
    BY <1>3, FrontFacts
  <2>2. A \in Act
    BY <1>2, <2>1 DEF Act
  <2>3. acts' = [acts EXCEPT ![Len(acts)] = A]
    BY <1>1, <1>2
  <2> HIDE DEF A
  <2>4. QED
    BY <1>2, <2>2, <2>3, SetActType
<1>5. m \in AllMem
  BY <1>3 DEF ActTop, Last, AllMem
<1> HIDE DEF m
<1>6. GoodMem(mem') /\ \A x \in AllMem : mem'[x].seen = mem[x].seen
  BY <1>1, <1>5, FreeMem
<1>7. GoodControl' /\ MarkFrames' /\ SweepFrames' /\ SeenIsOnStack'
  BY <1>1, <1>4, <1>6, DestroyControl
<1>8. QED
  BY <1>1, <1>6, <1>7 DEF Inductive, GoodData

\* The return of collect() keeps the invariant.
LEMMA FinishCollectStep ==
  ASSUME Inductive, FinishCollect
  PROVE  Inductive'
<1>1. /\ GoodData /\ GoodControl /\ GoodMem(mem) /\ SeenIsOnStack /\ pc = "destroy"
      /\ acts' = Front(acts) /\ inside' = (Len(acts) > 1)
      /\ deallocCount' = IF Len(acts) > 1 THEN deallocCount ELSE 0
      /\ pc' = IF Len(acts) > 1 THEN "callback"
               ELSE IF heap[Root].deallocated THEN "exited" ELSE "run"
      /\ \/ mem' = mem \/ mem' = [mem EXCEPT ![RootMem].st = "freed"]
      /\ UNCHANGED <<obj, payload, heap, stack>>
  BY DEF Inductive, GoodData, FinishCollect
<1>2. GoodMem(mem') /\ \A x \in AllMem : mem'[x].seen = mem[x].seen
  <2>1. RootMem \in AllMem
    BY DEF AllMem
  <2>2. QED
    BY <1>1, <2>1, FreeMem
<1>3. acts \in Seq(Act) /\ acts # <<>> /\ Len(acts) \in Nat /\ Len(acts) >= 1
  <2>1. acts \in Seq(Act) /\ acts # <<>>
    BY <1>1 DEF GoodControl
  <2>2. QED
    BY <2>1
<1>4. acts' \in Seq(Act) /\ Len(acts') = Len(acts) - 1
  BY <1>1, <1>3, FrontFacts
<1>5. Len(acts) > 1 => acts' # <<>>
  BY <1>3, <1>4
<1>6. ~(Len(acts) > 1) => acts' = <<>>
  BY <1>3, <1>4
<1>7. GoodControl'
  BY <1>1, <1>4, <1>5, <1>6 DEF GoodControl
<1>8. MarkFrames' /\ SweepFrames' /\ SeenIsOnStack'
  <2>1. \A m \in AllMem : mem'[m].seen = FALSE
    BY <1>1, <1>2 DEF SeenIsOnStack
  <2>2. pc' \notin {"mark", "sweep"}
    BY <1>1
  <2>3. QED
    BY <2>1, <2>2 DEF MarkFrames, SweepFrames, SeenIsOnStack
<1>9. QED
  BY <1>1, <1>2, <1>7, <1>8 DEF Inductive, GoodData

----------------------------------------------------------------------------
(* The theorems.                                                           *)

\* The invariant holds before any object is created.
LEMMA InitInductive ==
  Init => Inductive
<1> SUFFICES ASSUME Init PROVE Inductive
  OBVIOUS
<1> USE DEF Init
<1>1. NoMemory \in Memory /\ NoMemory.size = 0 /\ NoMemory.slots = <<>>
      /\ NoMemory.seen = FALSE
  BY DEF NoMemory, Memory
<1>2. /\ NewMemory \in Memory /\ NewMemory.size = 0 /\ NewMemory.slots = <<>>
      /\ NewMemory.seen = FALSE /\ NewMemory.st = "live"
  <2>1. NewMemory = [NoMemory EXCEPT !.st = "live"]
    BY DEF NewMemory
  <2>2. QED
    BY <1>1, <2>1 DEF Memory
<1>3. Sized(NoMemory) /\ Sized(NewMemory)
  BY <1>1, <1>2 DEF Sized
<1>4. GoodMem(mem) /\ \A m \in AllMem : mem[m].seen = FALSE
  BY <1>1, <1>2, <1>3 DEF GoodMem, AllMem, Sized
<1>5. GoodHeap(heap)
  BY DistinctIds DEF GoodHeap, HeapT, AllHeap, AllMem
<1>6. GoodObj(obj, heap)
  BY DEF GoodObj, ObjT
<1>7. payload \in [Payload -> PayloadT] /\ deallocCount \in 0..255
  BY DEF PayloadT
<1>8. GoodControl /\ MarkFrames /\ SweepFrames
  <2>1. stack \in Seq(FrameT) /\ acts \in Seq(Act) /\ stack = <<>> /\ acts = <<>>
        /\ pc = "run" /\ inside = FALSE
    OBVIOUS
  <2>2. GoodControl
    BY <2>1 DEF GoodControl
  <2>3. QED
    BY <2>1, <2>2 DEF MarkFrames, SweepFrames
<1>9. SeenIsOnStack
  BY <1>4 DEF SeenIsOnStack
<1>10. QED
  BY <1>4, <1>5, <1>6, <1>7, <1>8, <1>9 DEF Inductive, GoodData

\* Every step keeps the invariant.
LEMMA NextInductive ==
  Inductive /\ [Next]_vars => Inductive'
<1> SUFFICES ASSUME Inductive, [Next]_vars PROVE Inductive'
  OBVIOUS
<1>1. CASE UNCHANGED vars
  <2>1. /\ obj' = obj /\ payload' = payload /\ heap' = heap /\ mem' = mem
        /\ deallocCount' = deallocCount /\ inside' = inside /\ pc' = pc
        /\ stack' = stack /\ acts' = acts
    BY <1>1 DEF vars
  <2>2. GoodData' /\ GoodControl'
    BY <2>1 DEF Inductive, GoodData, GoodControl
  <2>3. MarkFrames' /\ SeenIsOnStack'
    BY <2>1 DEF Inductive, MarkFrames, SeenIsOnStack, Iterates
  <2>4. SweepFrames'
    <3>1. /\ \A k : FrameEntry(k)' = FrameEntry(k) /\ FrameMem(k)' = FrameMem(k)
          /\ \A k, m : Iterates(k, m)' <=> Iterates(k, m)
      BY <2>1, Zenon DEF Iterates, FrameMem, FrameEntry
    <3> QED BY <2>1, <3>1 DEF Inductive, SweepFrames
  <2>5. QED
    BY <2>2, <2>3, <2>4 DEF Inductive
<1>2. CASE Client
  BY <1>2, NewStep, ExplicitDeallocStep, DestroyStep, CopyStep, AssignStep, ByRefStep,
     PushValueStep, RerootStep, RerootValueStep, CollectStep, ExitStep, ClientFaultStep
     DEF Client
<1>3. CASE Collector
  BY <1>3, MarkEnterStep, MarkScanStep, MarkDoneStep, SweepEnterStep, SweepScanStep,
     SweepBackStep, SweepDrainStep, SweepDoneStep, RunDestructorStep,
     RunMemoryDestructorStep, FinishCollectStep, CollectorFaultStep
     DEF Collector
<1>4. CASE Return
  BY <1>4, ReturnStep
<1>5. CASE Stopped
  BY <1>1, <1>5 DEF Stopped
<1>6. QED
  BY <1>1, <1>2, <1>3, <1>4, <1>5 DEF Next

\* The invariant implies the type invariant.
LEMMA InductiveTypes ==
  Inductive => TypeOK
BY DEF Inductive, GoodData, GoodHeap, GoodMem, GoodObj, GoodControl, TypeOK, Sized

\* The invariant, for every number of objects, payloads, heaps and memories and
\* every use of the API (managed_object_heap.cpp:123-447).
THEOREM InductiveHolds ==
  Spec => []Inductive
BY InitInductive, NextInductive, PTL DEF Spec

\* The collector's state keeps its types: in particular no reference, index or
\* position it computes leaves the vectors (managed_object_heap.cpp:310-447).
THEOREM TypeCorrect ==
  Spec => []TypeOK
BY InductiveHolds, InductiveTypes, PTL

\* A Memory is seen if and only if one activation of do_sweep is iterating it,
\* so the guard on seen keeps the recursion from entering a vector twice
\* (managed_object_heap.cpp:310-318, 350-352, 445-447).
THEOREM SeenOnStack ==
  Spec => []SeenIsOnStack
<1>1. Inductive => SeenIsOnStack
  BY DEF Inductive
<1>2. QED
  BY <1>1, InductiveHolds, PTL

\* Replacing one Memory leaves the vectors of another as they were.
LEMMA OthersKept ==
  ASSUME GoodMem(mem), NEW m \in AllMem, NEW t, NEW N, mem' = Put(mem, t, N), m # t
  PROVE  mem'[m].slots = mem[m].slots /\ mem'[m].size = mem[m].size
<1>1. mem'[m] = mem[m]
  BY DEF Put, GoodMem
<1>2. QED
  BY <1>1

\* No step of an inner activation changes what an outer one iterates: it changes
\* its own Memory or the one that its entry refers to, and iterates neither below.
LEMMA SweepKeepsOuter ==
  ASSUME Inductive, Next, pc = "sweep", NEW k \in 1..Len(stack) - 1, NEW m \in AllMem,
         Iterates(k, m)
  PROVE  mem'[m].slots = mem[m].slots /\ mem'[m].size = mem[m].size
<1>1. /\ stack \in Seq(FrameT) /\ stack # <<>> /\ GoodMem(mem)
      /\ k \in 1..Len(stack) /\ heap[stack[k].h].mem = m
  <2>1. stack \in Seq(FrameT) /\ GoodMem(mem)
    BY DEF Inductive, GoodControl, GoodData
  <2>2. QED
    BY <2>1 DEF Iterates
<1>2. m # TopMem \/ Top.ph = "enter"
  BY <1>1, SweepFacts
<1>3. Top.ph \in {"back", "drain"} => m # RefMem
  <2>1. Top.ph \in {"back", "drain"} => Free(stack, RefMem)
    BY <1>1, RefFacts
  <2>2. QED
    BY <1>1, <2>1 DEF Free, Iterates
<1>4. Collector
  <2>1. ~Client
    BY DEF Client, New, ExplicitDealloc, Destroy, Copy, Assign, ByRef, PushValue, Reroot,
       RerootValue, Collect, Exit, ClientFault, ClientRuns
  <2>2. ~Return /\ ~Stopped
    BY DEF Return, Stopped
  <2>3. QED
    BY <2>1, <2>2 DEF Next
<1>5. CASE mem' = mem
  BY <1>5
<1>6. CASE SweepEnter
  <2>1. CASE ~(mem' = mem)
    <3>1. mem' = [mem EXCEPT ![TopMem].seen = TRUE, ![TopMem].color = SweptColor(@)]
      BY <1>6, <2>1 DEF SweepEnter
    <3>2. mem[m] \in Memory
      BY <1>1 DEF GoodMem, Sized
    <3>3. QED
      BY <1>1, <3>1, <3>2 DEF GoodMem, Memory
  <2>2. QED
    BY <1>5, <2>1
<1>7. CASE SweepScan
  <2>1. Top.ph = "scan" /\ m # TopMem
    BY <1>2, <1>7 DEF SweepScan, AtFrame
  <2>2. mem' = mem \/ \E N : mem' = Put(mem, TopMem, N)
    BY <1>7 DEF SweepScan, SweepValue, Put
  <2>3. QED
    BY <1>1, <1>5, <2>1, <2>2, OthersKept
<1>8. CASE SweepBack
  <2>1. m # TopMem /\ m # RefMem
    BY <1>2, <1>3, <1>8 DEF SweepBack, AtFrame
  <2>2. mem' = mem \/ (\E N : mem' = Put(mem, TopMem, N)) \/ mem' = [mem EXCEPT ![RefMem].keep = TRUE]
    BY <1>8 DEF SweepBack, Put, TopEntry, RefMem
  <2>3. CASE mem' = [mem EXCEPT ![RefMem].keep = TRUE]
    BY <1>1, <2>1, <2>3 DEF GoodMem
  <2>4. QED
    BY <1>1, <1>5, <2>1, <2>2, <2>3, OthersKept
<1>9. CASE SweepDrain
  <2>1. m # TopMem /\ m # RefMem
    BY <1>2, <1>3, <1>9 DEF SweepDrain, AtFrame
  <2>2. (\E N : mem' = Put(mem, TopMem, N)) \/ (\E N : mem' = Put(mem, RefMem, N))
    BY <1>9 DEF SweepDrain, Put, TopEntry, RefMem
  <2>3. QED
    BY <1>1, <2>1, <2>2, OthersKept
<1>10. CASE SweepDone
  BY <1>1, <1>10 DEF SweepDone
<1>11. ~(MarkEnter \/ MarkScan \/ MarkDone \/ RunDestructor \/ RunMemoryDestructor \/ FinishCollect)
  BY DEF MarkEnter, MarkScan, MarkDone, RunDestructor, RunMemoryDestructor, FinishCollect, AtFrame
<1>12. CASE CollectorFault
  BY <1>5, <1>12 DEF CollectorFault
<1>13. QED
  BY <1>4, <1>6, <1>7, <1>8, <1>9, <1>10, <1>11, <1>12 DEF Collector

\* The reverse iterators of the suspended activations of do_sweep stay valid:
\* the memory it iterates keeps its elements until the activation resumes
\* (managed_object_heap.cpp:326-443).
THEOREM IteratedStable ==
  Spec => IteratedIsStable
<1>1. Inductive /\ [Next]_vars =>
        [pc = "sweep" => \A k \in 1..Len(stack) - 1, m \in AllMem :
           Iterates(k, m) =>
             mem'[m].slots = mem[m].slots /\ mem'[m].size = mem[m].size]_vars
  BY SweepKeepsOuter
<1>2. QED
  BY <1>1, InductiveHolds, PTL DEF Spec, IteratedIsStable

----------------------------------------------------------------------------
(* What is left behind.                                                    *)

\* Every object has a heap of its own, and the program's own code never runs
\* with inside_destructor set.
Owners ==
  /\ \A o, x \in Obj :
       obj[o].st # "none" /\ obj[x].st # "none" /\ obj[o].heap = obj[x].heap => o = x
  /\ pc = "run" => inside = FALSE

\* A step that constructs no object.
NoNewObject ==
  \A x \in Obj : obj'[x].heap = obj[x].heap /\ (obj'[x].st = "none" <=> obj[x].st = "none")

\* A step that constructs o, with a heap that no object has.
NewObject(o) ==
  /\ \A x \in Obj \ {o} : obj'[x] = obj[x]
  /\ obj'[o].st = "live"
  /\ \A x \in Obj : obj[x].st # "none" => obj[x].heap # obj'[o].heap

\* A step after which an object that is gone has a heap that is deallocated,
\* unless it had not before or the collector deletes the object.
GoneStep ==
  \A x \in Obj : obj'[x].st = "gone" =>
    /\ obj'[x].heap = obj[x].heap
    /\ \/ heap'[obj[x].heap].deallocated
       \/ obj[x].st = "gone" /\ ~heap[obj[x].heap].deallocated
       \/ obj[x].st = "boxed" /\ pc = "destroy"

LEMMA ObjectTypes ==
  ASSUME Inductive
  PROVE  /\ obj \in [Obj -> ObjT] /\ heap \in [AllHeap -> HeapT] /\ Heap \subseteq AllHeap
         /\ \A x \in Obj : obj[x].st # "none" =>
              obj[x].heap \in Heap /\ heap[obj[x].heap].st # "unused"
         /\ \A h \in AllHeap : heap[h].deallocated \in BOOLEAN
BY DEF Inductive, GoodData, GoodObj, GoodHeap, AllHeap, HeapT

\* In the program's own code dealloc() marks the heap.
LEMMA DeallocMarks ==
  ASSUME Inductive, Owners, NEW h \in Heap, NEW H \in [AllHeap -> HeapT], NEW M,
         M[RootMem].seen = mem[RootMem].seen, Dealloc(h, H, M)
  PROVE  /\ pc \in {"run", "callback"} /\ pc' = "run" => inside' = FALSE
         /\ pc = "run" => heap'[h].deallocated = TRUE
         /\ \A g \in Heap : H[g].deallocated => heap'[g].deallocated
<1>1. pc \in {"run", "callback"} /\ pc' = "run" => inside' = FALSE
  <2>1. \/ UNCHANGED control
        \/ pc' = "mark" \/ inside' = inside
    BY DEF Dealloc, BeginCollect
  <2> QED BY <2>1 DEF Dealloc, BeginCollect, control, Owners
<1>2. pc = "run" => mem[RootMem].seen = FALSE /\ inside = FALSE
  BY DEF Inductive, SeenIsOnStack, AllMem, Owners
<1>3. heap' = H \/ heap' = [H EXCEPT ![h].deallocated = TRUE]
  BY DEF Dealloc
<1>4. pc = "run" => heap' = [H EXCEPT ![h].deallocated = TRUE]
  BY <1>2 DEF Dealloc
<1>5. Heap \subseteq AllHeap
  BY DEF AllHeap
<1>6. [H EXCEPT ![h].deallocated = TRUE][h].deallocated = TRUE
  BY <1>5 DEF HeapT
<1>7. \A g \in Heap : H[g].deallocated => [H EXCEPT ![h].deallocated = TRUE][g].deallocated
  BY <1>5, <1>6
<1> QED BY <1>1, <1>3, <1>4, <1>5, <1>6, <1>7

\* What holds after a step when Owners did before it.
StepOwners == pc' = "run" => inside' = FALSE

\* The conjuncts that the theorem needs of a step.
Left == NoNewObject \/ \E o \in Obj : obj[o].st = "none" /\ NewObject(o)

LEMMA NewLeft ==
  ASSUME Inductive, Owners, NEW o \in Obj, New(o) \/ \E s \in Obj : Copy(o, s)
  PROVE  Left /\ StepOwners /\ (pc # "callback" => GoneStep)
<1>1. PICK h : h = Fresh(heap)
  BY Zenon
<1>2. /\ h \in Heap /\ heap[h].st = "unused"
  BY <1>1, FreshHeap DEF Inductive, GoodData, New, Copy
<1>3. /\ obj[o].st = "none"
      /\ obj' = [obj EXCEPT ![o] = [st |-> "live", heap |-> h, parent |-> Null]]
      /\ \E r : heap' = [heap EXCEPT ![h] = r]
      /\ inside' = inside /\ pc' = pc
  BY <1>1 DEF New, Copy, control
<1>4. NewObject(o)
  BY <1>2, <1>3, ObjectTypes DEF NewObject
<1>5. GoneStep
  <2> SUFFICES ASSUME NEW x \in Obj, obj'[x].st = "gone"
               PROVE  /\ obj'[x].heap = obj[x].heap
                      /\ \/ heap'[obj[x].heap].deallocated
                         \/ obj[x].st = "gone" /\ ~heap[obj[x].heap].deallocated
    BY DEF GoneStep
  <2>1. x # o /\ obj'[x] = obj[x] /\ obj[x].st = "gone"
    BY <1>3, ObjectTypes
  <2>2. obj[x].heap \in AllHeap /\ obj[x].heap # h
    BY <1>2, <2>1, ObjectTypes
  <2>3. heap'[obj[x].heap] = heap[obj[x].heap]
    BY <1>3, <2>2, ObjectTypes
  <2> QED BY <2>1, <2>3
<1> QED BY <1>3, <1>4, <1>5 DEF Left, StepOwners, Owners

\* dealloc() of a heap by a call that destroys o, or no object.
LEMMA DeallocLeft ==
  ASSUME Inductive, Owners, NEW o \in Obj, ExplicitDealloc(o) \/ Destroy(o)
  PROVE  Left /\ StepOwners /\ (pc # "callback" => GoneStep)
<1>1. pc \in {"run", "callback"} /\ obj[o].st # "none"
  BY DEF ExplicitDealloc, Destroy, ClientRuns, Usable, Accessible
<1>2. PICK h : h = obj[o].heap
  BY Zenon
<1>3. h \in Heap /\ heap \in [AllHeap -> HeapT] /\ Dealloc(h, heap, mem)
  BY <1>1, <1>2, ObjectTypes DEF ExplicitDealloc, Destroy
<1>4. /\ pc' = "run" => inside' = FALSE
      /\ pc = "run" => heap'[h].deallocated = TRUE
      /\ \A g \in Heap : heap[g].deallocated => heap'[g].deallocated
  BY <1>1, <1>3, DeallocMarks
<1>5. obj' = obj \/ (obj[o].st = "live" /\ obj' = [obj EXCEPT ![o].st = "gone"])
  BY DEF ExplicitDealloc, Destroy
<1>6. \A x \in Obj : obj'[x].heap = obj[x].heap /\ (x # o => obj'[x].st = obj[x].st)
  BY <1>5, ObjectTypes DEF ObjT
<1>7. (obj[o].st = "none" <=> obj'[o].st = "none") /\ (obj'[o].st = obj[o].st \/ obj'[o].st = "gone")
  BY <1>1, <1>5, ObjectTypes DEF ObjT
<1>8. NoNewObject
  BY <1>6, <1>7 DEF NoNewObject
<1>9. ASSUME pc # "callback" PROVE GoneStep
  <2> SUFFICES ASSUME NEW x \in Obj, obj'[x].st = "gone"
               PROVE  \/ heap'[obj[x].heap].deallocated
                      \/ obj[x].st = "gone" /\ ~heap[obj[x].heap].deallocated
    BY <1>6 DEF GoneStep
  <2>1. CASE x = o
    BY <1>1, <1>2, <1>4, <1>9, <2>1
  <2>2. CASE x # o
    <3>1. obj[x].st = "gone" /\ obj[x].heap \in Heap
      BY <1>6, <2>2, ObjectTypes
    <3> QED BY <1>4, <3>1
  <2> QED BY <2>1, <2>2
<1> QED BY <1>4, <1>8, <1>9 DEF Left, StepOwners

\* operator= replaces the heap of o, which is not gone and shares it with nobody.
LEMMA AssignLeft ==
  ASSUME Inductive, Owners, NEW o \in Obj, NEW s \in Obj, Assign(o, s)
  PROVE  Left /\ StepOwners /\ (pc # "callback" => GoneStep)
<1>1. PICK old, h, g : old = Fresh(heap) /\ h = obj[o].heap /\ g = obj[s].heap
  BY Zenon
<1>2. PICK H : H = [heap EXCEPT ![old] = heap[h], ![h] = heap[g]]
  BY Zenon
<1>3. PICK M : M = [mem EXCEPT ![RootMem] = PushEntry(@, old, TRUE)]
  BY Zenon
<1>4. /\ pc \in {"run", "callback"} /\ obj[o].st \in {"live", "boxed"} /\ obj[s].st # "none"
      /\ Dealloc(old, H, M) /\ obj' = obj
  BY <1>1, <1>2, <1>3 DEF Assign, Usable, Accessible, ClientRuns
<1>5. old \in Heap /\ heap[old].st = "unused"
  BY <1>1, FreshHeap DEF Assign, Inductive, GoodData
<1>6. /\ heap \in [AllHeap -> HeapT] /\ h \in AllHeap /\ g \in AllHeap /\ old \in AllHeap
      /\ H \in [AllHeap -> HeapT]
  BY <1>1, <1>2, <1>4, <1>5, ObjectTypes
<1>7. M[RootMem].seen = mem[RootMem].seen
  BY <1>3 DEF Inductive, GoodData, GoodMem, AllMem, Memory, PushEntry
<1>8. /\ pc' = "run" => inside' = FALSE
      /\ \A f \in Heap : H[f].deallocated => heap'[f].deallocated
  BY <1>4, <1>5, <1>6, <1>7, DeallocMarks
<1>9. NoNewObject
  BY <1>4 DEF NoNewObject
<1>10. GoneStep
  <2> SUFFICES ASSUME NEW x \in Obj, obj[x].st = "gone"
               PROVE  \/ heap'[obj[x].heap].deallocated
                      \/ ~heap[obj[x].heap].deallocated
    BY <1>4 DEF GoneStep
  <2>1. PICK f : f = obj[x].heap
    BY Zenon
  <2>2. f \in Heap /\ f \in AllHeap /\ heap[f].st # "unused"
    BY <2>1, ObjectTypes
  <2>3. x # o /\ f # h /\ f # old
    BY <1>1, <1>4, <1>5, <2>1, <2>2 DEF Owners
  <2>4. H[f] = heap[f]
    BY <1>2, <1>6, <2>2, <2>3
  <2> QED BY <1>8, <2>1, <2>2, <2>4
<1> QED BY <1>8, <1>9, <1>10 DEF Left, StepOwners

\* A step that changes neither the flags of the heaps nor, but for deleting a
\* boxed object while destructors run, which objects are gone.
LEMMA OtherLeft ==
  ASSUME Inductive,
         \A x \in Obj : /\ obj'[x].heap = obj[x].heap
                        /\ obj'[x].st = "none" <=> obj[x].st = "none"
                        /\ obj'[x].st = "gone" =>
                             obj[x].st = "gone" \/ (obj[x].st = "boxed" /\ pc = "destroy"),
         \A h \in Heap : heap'[h].deallocated = heap[h].deallocated
  PROVE  Left /\ GoneStep
<1>1. NoNewObject
  BY DEF NoNewObject
<1>2. GoneStep
  BY ObjectTypes DEF GoneStep
<1> QED BY <1>1, <1>2 DEF Left

LEMMA SameLeft ==
  ASSUME Inductive, obj' = obj, heap' = heap
  PROVE  Left /\ GoneStep
<1>1. NoNewObject
  BY Zenon DEF NoNewObject
<1>2. GoneStep
  <2> SUFFICES ASSUME NEW x \in Obj, obj'[x].st = "gone"
               PROVE  /\ obj'[x].heap = obj[x].heap
                      /\ \/ heap'[obj[x].heap].deallocated
                         \/ obj[x].st = "gone" /\ ~heap[obj[x].heap].deallocated
    BY DEF GoneStep
  <2>1. obj'[x].heap = obj[x].heap /\ obj[x].st = "gone"
    BY Zenon
  <2>2. heap'[obj[x].heap].deallocated \/ ~heap[obj[x].heap].deallocated
    BY Zenon
  <2> QED BY <2>1, <2>2
<1> QED BY <1>1, <1>2, Zenon DEF Left

\* What reroot leaves alone, and what it makes of the object it is given.
LEMMA RerootParts ==
  ASSUME NEW o, NEW c, NEW k, Reroot(o, k, c)
  PROVE  /\ heap' = heap /\ obj[c].st = "live"
         /\ obj' = [obj EXCEPT ![c].parent = o, ![c].st = "boxed"]
<1>1. heap' = heap
  BY DEF Reroot
<1>2. obj[c].st = "live"
  BY DEF Reroot
<1>3. obj' = [obj EXCEPT ![c].parent = o, ![c].st = "boxed"]
  BY DEF Reroot
<1> QED BY <1>1, <1>2, <1>3, Zenon

\* The client's other calls.
LEMMA ClientLeft ==
  ASSUME Inductive, Owners,
         \/ Collect \/ Exit \/ ClientFault
         \/ \E o, c \in Obj : ByRef(o, c)
         \/ \E o \in Obj, p \in Payload \cup {Null} : PushValue(o, p)
         \/ \E o, c \in Obj, k \in 1..MaxEntries : Reroot(o, k, c)
         \/ \E o \in Obj, p \in Payload, k \in 1..MaxEntries : RerootValue(o, k, p)
  PROVE  Left /\ StepOwners /\ GoneStep
<1>1. \A h \in Heap : heap'[h].deallocated = heap[h].deallocated
  <2>1. \/ heap' = heap \/ heap' = [heap EXCEPT ![Root].deallocated = TRUE]
    <3>1. CASE Collect \/ ClientFault
      BY <3>1, Zenon DEF Collect, ClientFault
    <3>2. CASE Exit
      BY <3>2, Zenon DEF Exit
    <3>3. CASE \E o, c \in Obj : ByRef(o, c)
      BY <3>3, Zenon DEF ByRef
    <3>4. CASE \E o \in Obj, p \in Payload \cup {Null} : PushValue(o, p)
      BY <3>4, Zenon DEF PushValue
    <3>5. CASE \E o, c \in Obj, k \in 1..MaxEntries : Reroot(o, k, c)
      BY <3>5, RerootParts, Zenon
    <3>6. CASE \E o \in Obj, p \in Payload, k \in 1..MaxEntries : RerootValue(o, k, p)
      BY <3>6, Zenon DEF RerootValue
    <3> QED BY <3>1, <3>2, <3>3, <3>4, <3>5, <3>6, Zenon
  <2>2. \A h \in Heap : h # Root
    BY DistinctIds, Zenon
  <2>3. DOMAIN heap = AllHeap /\ Heap \subseteq AllHeap
    BY ObjectTypes DEF AllHeap
  <2> QED BY <2>1, <2>2, <2>3, Zenon
<1>2. \A x \in Obj : /\ obj'[x].heap = obj[x].heap
                     /\ obj'[x].st = "none" <=> obj[x].st = "none"
                     /\ obj'[x].st = "gone" => obj[x].st = "gone"
  <2>1. \/ obj' = obj
        \/ \E o, c \in Obj : /\ obj[c].st = "live"
                             /\ \/ obj' = [obj EXCEPT ![c].parent = o]
                                \/ obj' = [obj EXCEPT ![c].parent = o, ![c].st = "boxed"]
    <3>1. CASE \/ Collect \/ Exit \/ ClientFault
               \/ \E o \in Obj, p \in Payload \cup {Null} : PushValue(o, p)
               \/ \E o \in Obj, p \in Payload, k \in 1..MaxEntries : RerootValue(o, k, p)
      BY <3>1 DEF Collect, Exit, ClientFault, PushValue, RerootValue
    <3>2. CASE \E o, c \in Obj : ByRef(o, c)
      BY <3>2, Zenon DEF ByRef
    <3>3. CASE \E o, c \in Obj, k \in 1..MaxEntries : Reroot(o, k, c)
      BY <3>3, RerootParts, Zenon
    <3> QED BY <3>1, <3>2, <3>3, Zenon
  <2>2. ASSUME NEW o \in Obj, NEW c \in Obj, obj[c].st = "live", NEW x \in Obj,
               \/ obj' = [obj EXCEPT ![c].parent = o]
               \/ obj' = [obj EXCEPT ![c].parent = o, ![c].st = "boxed"]
        PROVE  /\ obj'[x].heap = obj[x].heap
               /\ obj'[x].st = "none" <=> obj[x].st = "none"
               /\ obj'[x].st = "gone" => obj[x].st = "gone"
    <3>1. obj[x] \in ObjT /\ obj[c] \in ObjT /\ obj \in [Obj -> ObjT]
      BY ObjectTypes
    <3>2. CASE x = c
      BY <2>2, <3>1, <3>2 DEF ObjT
    <3>3. CASE x # c
      BY <2>2, <3>1, <3>3
    <3> QED BY <3>2, <3>3
  <2>3. ASSUME obj' # obj, NEW x \in Obj
        PROVE  /\ obj'[x].heap = obj[x].heap
               /\ obj'[x].st = "none" <=> obj[x].st = "none"
               /\ obj'[x].st = "gone" => obj[x].st = "gone"
    <3>1. PICK o \in Obj, c \in Obj :
            /\ obj[c].st = "live"
            /\ \/ obj' = [obj EXCEPT ![c].parent = o]
               \/ obj' = [obj EXCEPT ![c].parent = o, ![c].st = "boxed"]
      BY <2>1, <2>3, Zenon
    <3> QED BY <2>2, <3>1, Zenon
  <2>4. CASE obj' = obj
    BY <2>4
  <2> QED BY <2>3, <2>4, Zenon
<1>3. StepOwners
  <2>1. ASSUME BeginCollect(mem), pc' = "run" PROVE UNCHANGED control
    BY <2>1 DEF BeginCollect
  <2>2. pc' = "run" => UNCHANGED control
    <3>1. Collect => BeginCollect(mem)
      BY DEF Collect
    <3>2. Exit => pc' = "exited" \/ BeginCollect(mem)
      BY DEF Exit
    <3>3. ClientFault => pc' = "fault"
      BY DEF ClientFault
    <3>4. Collect \/ Exit \/ ClientFault \/ UNCHANGED control
      <4>1. CASE \E o, c \in Obj : ByRef(o, c)
        BY <4>1, Zenon DEF ByRef
      <4>2. CASE \E o \in Obj, p \in Payload \cup {Null} : PushValue(o, p)
        BY <4>2, Zenon DEF PushValue
      <4>3. CASE \E o, c \in Obj, k \in 1..MaxEntries : Reroot(o, k, c)
        BY <4>3, Zenon DEF Reroot
      <4>4. CASE \E o \in Obj, p \in Payload, k \in 1..MaxEntries : RerootValue(o, k, p)
        BY <4>4, Zenon DEF RerootValue
      <4> QED BY <4>1, <4>2, <4>3, <4>4, Zenon
    <3>5. ASSUME pc' = "run", pc' = "exited" \/ pc' = "fault" PROVE FALSE
      BY <3>5
    <3> QED BY <2>1, <3>1, <3>2, <3>3, <3>4, <3>5, Zenon
  <2> QED BY <2>2 DEF StepOwners, Owners, control
<1>4. \A x \in Obj : /\ obj'[x].heap = obj[x].heap
                     /\ obj'[x].st = "none" <=> obj[x].st = "none"
                     /\ obj'[x].st = "gone" =>
                          obj[x].st = "gone" \/ (obj[x].st = "boxed" /\ pc = "destroy")
  BY <1>2, Zenon
<1> QED BY <1>1, <1>3, <1>4, OtherLeft, Zenon

\* The collector, and the return of a callback.
LEMMA CollectorLeft ==
  ASSUME Inductive, Owners, Collector \/ Return
  PROVE  Left /\ StepOwners /\ GoneStep
<1>1. CASE RunDestructor
  <2>1. PICK q : q = Last(ActTop.list)
    BY Zenon
  <2>2. /\ pc = "destroy" /\ pc' # "run"
        /\ heap' = heap \/ heap' = [heap EXCEPT ![q.ptr].st = "freed"]
        /\ \/ obj' = obj
           \/ /\ q.ptr \in Obj /\ obj[q.ptr].st = "boxed"
              /\ obj' = [obj EXCEPT ![q.ptr].st = "gone"]
    <3> DEFINE ok == \/ q.ptr = Null
                     \/ q.ptr \in Heap /\ heap[q.ptr].st = "live"
                     \/ q.ptr \in Payload /\ payload[q.ptr].st = "held"
                     \/ /\ q.ptr \in Obj /\ obj[q.ptr].st = "boxed"
                        /\ heap[obj[q.ptr].heap].st = "live"
    <3>1. /\ pc = "destroy"
          /\ heap' = IF ok /\ q.ptr \in Heap
                     THEN [heap EXCEPT ![q.ptr].st = "freed"] ELSE heap
          /\ obj' = IF ok /\ q.ptr \in Obj THEN [obj EXCEPT ![q.ptr].st = "gone"] ELSE obj
          /\ pc' = IF ~ok THEN "fault"
                   ELSE IF q.ptr \in Payload /\ "callback" \in Uses THEN "callback" ELSE pc
      BY <1>1, <2>1 DEF RunDestructor
    <3>2. (ok /\ q.ptr \in Obj) => obj[q.ptr].st = "boxed"
      BY DistinctIds
    <3> HIDE DEF ok
    <3> QED BY <3>1, <3>2
  <2>3. \A h \in Heap : heap'[h].deallocated = heap[h].deallocated
    BY <2>2, ObjectTypes DEF HeapT
  <2>4. \A x \in Obj : /\ obj'[x].heap = obj[x].heap
                       /\ obj'[x].st = "none" <=> obj[x].st = "none"
                       /\ obj'[x].st = "gone" =>
                             obj[x].st = "gone" \/ (obj[x].st = "boxed" /\ pc = "destroy")
    BY <2>2, ObjectTypes DEF ObjT
  <2> QED BY <2>2, <2>3, <2>4, OtherLeft DEF StepOwners
<1>2. CASE FinishCollect
  <2>1. obj' = obj /\ heap' = heap
    BY <1>2 DEF FinishCollect
  <2>2. StepOwners
    <3>1. CASE Len(acts) > 1
      BY <1>2, <3>1 DEF FinishCollect, StepOwners
    <3>2. CASE ~(Len(acts) > 1)
      <4>1. (Len(acts) > 1) = FALSE
        BY <3>2
      <4> QED BY <1>2, <4>1 DEF FinishCollect, StepOwners
    <3> QED BY <3>1, <3>2
  <2> QED BY <2>1, <2>2, SameLeft
<1>3. CASE (Collector /\ ~RunDestructor /\ ~FinishCollect) \/ Return
  <2>1. obj' = obj /\ heap' = heap /\ pc' # "run"
    BY <1>3 DEF Collector, Return, MarkEnter, MarkScan, MarkDone, SweepEnter, SweepScan,
                SweepBack, SweepDrain, SweepDone, RunMemoryDestructor, CollectorFault, AtFrame
  <2> QED BY <2>1, SameLeft DEF StepOwners
<1> QED BY <1>1, <1>2, <1>3 DEF Collector

\* Every step.
LEMMA NextLeft ==
  ASSUME Inductive, Owners, [Next]_vars
  PROVE  Left /\ StepOwners /\ (pc # "callback" => GoneStep)
<1>1. CASE UNCHANGED vars \/ Stopped
  <2>1. obj' = obj /\ heap' = heap /\ pc' = pc /\ inside' = inside
    BY <1>1 DEF vars, Stopped
  <2> QED BY <2>1, SameLeft DEF StepOwners, Owners
<1>2. CASE Client
  BY <1>2, NewLeft, DeallocLeft, AssignLeft, ClientLeft DEF Client
<1>3. CASE Collector \/ Return
  BY <1>3, CollectorLeft
<1> QED BY <1>1, <1>2, <1>3 DEF Next

LEMMA OwnersNext ==
  Inductive /\ Owners /\ [Next]_vars => Owners'
<1> SUFFICES ASSUME Inductive, Owners, [Next]_vars PROVE Owners'
  OBVIOUS
<1>1. Left /\ StepOwners
  BY NextLeft
<1>2. CASE NoNewObject
  BY <1>1, <1>2 DEF NoNewObject, Owners, StepOwners
<1>3. ASSUME NEW o \in Obj, obj[o].st = "none", NewObject(o)
      PROVE  Owners'
  BY <1>1, <1>3 DEF NewObject, Owners, StepOwners
<1> QED BY <1>1, <1>2, <1>3 DEF Left

LEMMA SkippedNext ==
  ASSUME Inductive, Owners, [Next]_vars
  PROVE  /\ pc \notin {"callback", "destroy"} => Skipped' \subseteq Skipped
         /\ pc = "destroy" =>
              Skipped' \subseteq Skipped \cup {obj[o].heap : o \in {x \in Obj : obj[x].st = "boxed"}}
<1> SUFFICES ASSUME NEW h \in Skipped', pc # "callback"
             PROVE  \/ h \in Skipped
                    \/ pc = "destroy" /\ h \in {obj[o].heap : o \in {x \in Obj : obj[x].st = "boxed"}}
  OBVIOUS
<1>1. PICK o \in Obj : obj'[o].st = "gone" /\ ~heap'[obj'[o].heap].deallocated /\ h = obj'[o].heap
  BY DEF Skipped
<1>2. GoneStep
  BY NextLeft
<1>3. /\ h = obj[o].heap
      /\ \/ obj[o].st = "gone" /\ ~heap[obj[o].heap].deallocated
         \/ obj[o].st = "boxed" /\ pc = "destroy"
  BY <1>1, <1>2 DEF GoneStep
<1> QED BY <1>3 DEF Skipped

\* A heap stays behind only when code that the collector calls destroys an
\* object: dealloc() in the program's own code always marks the heap that its
\* object gives up, and no two objects have the same heap
\* (managed_object_heap.cpp:123-152).
THEOREM OnlyCallbacksLeave ==
  Spec => OnlyCallbacksSkip
<1>1. Init => Owners
  BY DEF Init, Owners
<1>2. Inductive /\ Owners /\ [Next]_vars => Owners'
  BY OwnersNext
<1>3. Inductive /\ Owners /\ [Next]_vars =>
        [/\ pc \notin {"callback", "destroy"} => Skipped' \subseteq Skipped
         /\ pc = "destroy" =>
              Skipped' \subseteq Skipped
                \cup {obj[o].heap : o \in {x \in Obj : obj[x].st = "boxed"}}]_vars
  BY SkippedNext
<1> QED BY <1>1, <1>2, <1>3, InductiveHolds, PTL DEF Spec, OnlyCallbacksSkip

----------------------------------------------------------------------------
(* Counting.                                                               *)

\* A non-empty set of positions has a last one.
LEMMA LastExists ==
  ASSUME NEW n \in Nat, NEW S, S \subseteq 1..n, S # {}
  PROVE  LastOf(S) # {}
<1> DEFINE T == {k..n : k \in S}
<1>1. T \subseteq FiniteSubsetsOf(Nat) /\ T # {}
  <2>1. \A k \in S : k..n \in SUBSET Nat /\ IsFiniteSet(k..n)
    BY FS_Interval
  <2> QED BY <2>1 DEF FiniteSubsetsOf
<1>2. PICK I \in T : \A J \in T : ~(<<J, I>> \in StrictSubsetOrdering(Nat))
  <2> HIDE DEF T
  <2> QED BY <1>1, FS_StrictSubsetOrderingWellFounded, WFMin, Zenon
<1>3. PICK x \in S : I = x..n
  OBVIOUS
<1>4. \A y \in S : y <= x
  <2> SUFFICES ASSUME NEW y \in S, ~(y <= x) PROVE FALSE
    OBVIOUS
  <2>1. x \in 1..n /\ y \in 1..n
    OBVIOUS
  <2>2. y..n \in T
    OBVIOUS
  <2>3. (y..n) \subseteq (x..n) /\ (y..n) # (x..n) /\ x..n \in SUBSET Nat /\ y..n \in SUBSET Nat
    <3>1. x \in x..n /\ ~(x \in y..n)
      BY <2>1
    <3>2. (y..n) \subseteq (x..n) /\ x..n \in SUBSET Nat /\ y..n \in SUBSET Nat
      BY <2>1
    <3> QED BY <3>1, <3>2
  <2>4. <<y..n, x..n>> \in StrictSubsetOrdering(Nat)
    BY <2>3 DEF StrictSubsetOrdering
  <2> QED BY <1>2, <1>3, <2>2, <2>4
<1>5. x \in LastOf(S)
  BY <1>4 DEF LastOf
<1> QED BY <1>5

\* The positions up to n at which f has the value x, and their number.
At(f, n, x)    == {k \in 1..n : f[k] = x}
Count(f, n, x) == Cardinality(At(f, n, x))

LEMMA CountType ==
  ASSUME NEW f, NEW n \in Nat, NEW x
  PROVE  /\ IsFiniteSet(At(f, n, x)) /\ At(f, n, x) \subseteq 1..n
         /\ Count(f, n, x) \in Nat /\ (Count(f, n, x) = 0 <=> At(f, n, x) = {})
<1>1. IsFiniteSet(1..n) /\ At(f, n, x) \subseteq 1..n
  BY FS_Interval DEF At
<1>2. IsFiniteSet(At(f, n, x))
  BY <1>1, FS_Subset
<1> QED BY <1>1, <1>2, FS_CardinalityType, FS_EmptySet DEF Count

\* Counting only looks at the values.
LEMMA CountSame ==
  ASSUME NEW f, NEW g, NEW n, \A k \in 1..n : f[k] = g[k], NEW x
  PROVE  Count(f, n, x) = Count(g, n, x)
<1>1. At(f, n, x) = At(g, n, x)
  BY DEF At
<1> QED BY <1>1 DEF Count

\* Another element at the end.
LEMMA CountAppend ==
  ASSUME NEW f, NEW g, NEW n \in Nat, NEW m, m = n + 1, \A k \in 1..n : g[k] = f[k], NEW x
  PROVE  Count(g, m, x) = IF g[m] = x THEN Count(f, n, x) + 1 ELSE Count(f, n, x)
<1>1. IsFiniteSet(At(f, n, x)) /\ n + 1 \notin At(f, n, x)
  <2>1. IsFiniteSet(At(f, n, x)) /\ At(f, n, x) \subseteq 1..n
    BY CountType, Zenon
  <2>2. n + 1 \notin 1..n
    OBVIOUS
  <2> QED BY <2>1, <2>2
<1>2. CASE g[n + 1] = x
  <2>1. At(g, n + 1, x) = At(f, n, x) \cup {n + 1}
    BY <1>2 DEF At
  <2> DEFINE A == At(f, n, x)
  <2>2. IsFiniteSet(A) /\ n + 1 \notin A /\ At(g, n + 1, x) = A \cup {n + 1}
    BY <1>1, <2>1
  <2> HIDE DEF A
  <2>3. Cardinality(A \cup {n + 1}) = Cardinality(A) + 1
    BY <2>2, FS_AddElement
  <2> QED BY <1>2, <2>2, <2>3 DEF Count, A
<1>3. CASE g[n + 1] # x
  <2>1. At(g, n + 1, x) = At(f, n, x)
    BY <1>3 DEF At
  <2> QED BY <1>3, <2>1 DEF Count
<1> QED BY <1>2, <1>3

\* The first m values of g are the first n of f without the one at position p.
Shifted(f, n, g, m, p) ==
  /\ n \in Nat /\ p \in 1..n /\ m = n - 1
  /\ \A k \in 1..m : g[k] = IF k < p THEN f[k] ELSE f[k + 1]

\* The element at position p is removed and those above it move down.
LEMMA CountRemove ==
  ASSUME NEW f, NEW n, NEW g, NEW m, NEW p, Shifted(f, n, g, m, p), NEW x
  PROVE  Count(g, m, x) = IF f[p] = x THEN Count(f, n, x) - 1 ELSE Count(f, n, x)
<1> USE DEF Shifted
<1> DEFINE S == At(f, n, x) \ {p}
           T == At(g, n - 1, x)
           b == [k \in T |-> IF k < p THEN k ELSE k + 1]
<1>1. IsFiniteSet(At(f, n, x)) /\ n - 1 \in Nat
  <2>1. IsFiniteSet(At(f, n, x))
    BY CountType, Zenon
  <2> QED BY <2>1
<1>2. IsFiniteSet(S) /\ Cardinality(S) = IF f[p] = x THEN Count(f, n, x) - 1 ELSE Count(f, n, x)
  <2>1. p \in At(f, n, x) <=> f[p] = x
    BY DEF At
  <2> DEFINE A == At(f, n, x)
  <2>2. IsFiniteSet(A) /\ (p \in A <=> f[p] = x)
    BY <1>1, <2>1
  <2> HIDE DEF A
  <2>3. /\ IsFiniteSet(A \ {p})
        /\ Cardinality(A \ {p}) = IF p \in A THEN Cardinality(A) - 1 ELSE Cardinality(A)
    BY <2>2, FS_RemoveElement
  <2> QED BY <2>2, <2>3 DEF Count, A
<1>3. IsFiniteSet(T)
  BY <1>1, CountType
<1>4. \A k \in T : k \in 1..n - 1 /\ g[k] = x
  BY DEF At
<1>5. \A k \in T : b[k] \in S
  <2> SUFFICES ASSUME NEW k \in T PROVE b[k] \in S
    OBVIOUS
  <2>1. k \in 1..n - 1 /\ g[k] = x /\ g[k] = IF k < p THEN f[k] ELSE f[k + 1]
    BY <1>4
  <2>2. CASE k < p
    BY <2>1, <2>2 DEF At
  <2>3. CASE ~(k < p)
    BY <2>1, <2>3 DEF At
  <2> QED BY <2>2, <2>3
<1>6. \A j, k \in T : b[j] = b[k] => j = k
  BY <1>4
<1>7. \A y \in S : \E k \in T : b[k] = y
  <2> SUFFICES ASSUME NEW y \in S PROVE \E k \in T : b[k] = y
    OBVIOUS
  <2>1. y \in 1..n /\ f[y] = x /\ y # p
    BY DEF At
  <2>2. CASE y < p
    <3>1. y \in 1..n - 1 /\ g[y] = f[y]
      BY <2>1, <2>2
    <3>2. y \in T
      BY <2>1, <3>1 DEF At
    <3> QED BY <2>2, <3>2
  <2>3. CASE ~(y < p)
    <3>1. y - 1 \in 1..n - 1 /\ ~(y - 1 < p) /\ y - 1 + 1 = y
      BY <2>1, <2>3
    <3>2. g[y - 1] = f[y]
      BY <3>1
    <3>3. y - 1 \in T
      BY <2>1, <3>1, <3>2 DEF At
    <3> QED BY <3>1, <3>3
  <2> QED BY <2>2, <2>3
<1>8. b \in Bijection(T, S)
  <2>1. b \in [T -> S]
    BY <1>5
  <2> HIDE DEF b, S, T
  <2>2. b \in Injection(T, S) /\ b \in Surjection(T, S)
    BY <1>6, <1>7, <2>1 DEF Injection, Surjection, IsInjective
  <2> QED BY <2>2 DEF Bijection
<1>9. ExistsBijection(T, S)
  BY <1>8 DEF ExistsBijection
<1> HIDE DEF S, T, b
<1>10. Cardinality(S) = Cardinality(T)
  BY <1>3, <1>9, FS_Bijection
<1> QED BY <1>2, <1>10 DEF Count, T

----------------------------------------------------------------------------
(* The operators on a Memory.                                              *)

\* The indexes of the entries, and how often x is one of them in each vector.
Indexes(M)       == [k \in 1..M.size |-> M.slots[k].index]
EntryCount(M, x) == Count(Indexes(M), M.size, x)
IndexCount(M, x) == Count(M.indexes, Len(M.indexes), x)

\* The two vectors hold the same multiset of indexes.
Matched(M) == \A x \in Nat : IndexCount(M, x) = EntryCount(M, x)

\* The vectors of a well-formed Memory.
LEMMA SizedFacts ==
  ASSUME NEW M, Sized(M)
  PROVE  /\ M.slots \in Seq(Entry) /\ M.size \in Nat /\ M.indexes \in Seq(Nat)
         /\ M.size <= Len(M.slots) /\ M \in Memory
         /\ \A k \in 1..M.size : M.slots[k] \in Entry /\ M.slots[k].index \in Nat
         /\ \A k \in 1..Len(M.indexes) : M.indexes[k] \in Nat
<1>1. /\ M.slots \in Seq(Entry) /\ M.size \in Nat /\ M.indexes \in Seq(Nat)
      /\ M.size <= Len(M.slots) /\ M \in Memory
  BY DEF Memory, Sized
<1>2. \A k \in 1..M.size : M.slots[k] \in Entry
  BY <1>1
<1>3. \A e \in Entry : e.index \in Nat
  BY DEF Entry
<1> QED BY <1>1, <1>2, <1>3

\* The counts only depend on the vectors.
LEMMA SameVectors ==
  ASSUME NEW M, NEW N, Matched(M), N.indexes = M.indexes, N.size = M.size,
         \A k \in 1..M.size : N.slots[k].index = M.slots[k].index
  PROVE  Matched(N)
<1>1. Indexes(N) = Indexes(M)
  BY DEF Indexes
<1> QED BY <1>1 DEF Matched, IndexCount, EntryCount

\* push adds the same index to both vectors.
LEMMA PushEntryMatched ==
  ASSUME NEW M, Sized(M), Matched(M), NEW p, NEW r
  PROVE  Matched(PushEntry(M, p, r))
<1> DEFINE e == [index |-> M.size, ptr |-> p, ref |-> r]
           S == IF M.size < Len(M.slots) THEN [M.slots EXCEPT ![M.size + 1] = e]
                ELSE Append(M.slots, e)
           X == Append(M.indexes, M.size)
           N == PushEntry(M, p, r)
<1>1. /\ M.slots \in Seq(Entry) /\ M.size \in Nat /\ M.indexes \in Seq(Nat)
      /\ M.size <= Len(M.slots) /\ M \in Memory
  BY SizedFacts
<1>2. e.index = M.size
  OBVIOUS
<1> HIDE DEF e
<1>3. S[M.size + 1] = e /\ \A k \in 1..M.size : S[k] = M.slots[k]
  <2>1. CASE M.size < Len(M.slots)
    BY <1>1, <2>1
  <2>2. CASE ~(M.size < Len(M.slots))
    <3>1. M.size = Len(M.slots)
      BY <1>1, <2>2
    <3>2. \A k \in 1..Len(M.slots) : Append(M.slots, e)[k] = M.slots[k]
      BY <1>1
    <3>3. Append(M.slots, e)[Len(M.slots) + 1] = e
      BY <1>1
    <3> QED BY <3>1, <3>2, <3>3
  <2> QED BY <2>1, <2>2
<1>4. /\ Len(X) = Len(M.indexes) + 1 /\ X[Len(M.indexes) + 1] = M.size
      /\ \A k \in 1..Len(M.indexes) : X[k] = M.indexes[k]
  BY <1>1
<1> HIDE DEF S, X
<1>5. N = [M EXCEPT !.slots = S, !.size = M.size + 1, !.indexes = X]
  BY DEF PushEntry, S, X, e
<1> HIDE DEF N
<1>6. N.slots = S /\ N.size = M.size + 1 /\ N.indexes = X
  BY <1>1, <1>5 DEF Memory
<1>7. Indexes(N)[M.size + 1] = M.size /\ \A k \in 1..M.size : Indexes(N)[k] = Indexes(M)[k]
  BY <1>1, <1>2, <1>3, <1>6 DEF Indexes
<1>8. ASSUME NEW x \in Nat PROVE IndexCount(N, x) = EntryCount(N, x)
  <2>1. PICK f, g, i, n, s : /\ f = Indexes(M) /\ g = Indexes(N) /\ i = M.indexes
                             /\ n = Len(i) /\ s = M.size
    BY Zenon
  <2>2. n \in Nat /\ s \in Nat
    BY <1>1, <2>1
  <2>3. Count(g, s + 1, x) = IF g[s + 1] = x THEN Count(f, s, x) + 1 ELSE Count(f, s, x)
    <3>1. \A k \in 1..s : g[k] = f[k]
      BY <1>7, <2>1
    <3> QED BY <2>2, <3>1, CountAppend
  <2>4. Count(X, n + 1, x) = IF X[n + 1] = x THEN Count(i, n, x) + 1 ELSE Count(i, n, x)
    <3>1. \A k \in 1..n : X[k] = i[k]
      BY <1>4, <2>1
    <3> QED BY <2>2, <3>1, CountAppend
  <2>5. X[n + 1] = s /\ g[s + 1] = s
    BY <1>4, <1>7, <2>1
  <2>6. Count(i, n, x) = Count(f, s, x)
    BY <2>1 DEF Matched, IndexCount, EntryCount
  <2>7. IndexCount(N, x) = Count(X, n + 1, x) /\ EntryCount(N, x) = Count(g, s + 1, x)
    BY <1>4, <1>6, <2>1 DEF IndexCount, EntryCount
  <2> QED BY <2>3, <2>4, <2>5, <2>6, <2>7
<1>9. Matched(N)
  BY <1>8 DEF Matched
<1> QED BY <1>9 DEF N

\* erase of the entry at position p.
LEMMA EraseSlotCount ==
  ASSUME NEW M, Sized(M), NEW p \in 1..M.size, NEW x
  PROVE  /\ EraseSlot(M, p).indexes = M.indexes
         /\ EntryCount(EraseSlot(M, p), x) = IF M.slots[p].index = x
                                             THEN EntryCount(M, x) - 1 ELSE EntryCount(M, x)
<1> DEFINE S == [k \in DOMAIN M.slots |->
                   IF p <= k /\ k < M.size THEN M.slots[k + 1] ELSE M.slots[k]]
           N == EraseSlot(M, p)
<1>1. /\ M.slots \in Seq(Entry) /\ M.size \in Nat /\ M.indexes \in Seq(Nat)
      /\ M.size <= Len(M.slots) /\ M \in Memory
  BY SizedFacts
<1>2. \A k \in 1..M.size - 1 : S[k] = IF k < p THEN M.slots[k] ELSE M.slots[k + 1]
  <2> SUFFICES ASSUME NEW k \in 1..M.size - 1
               PROVE  S[k] = IF k < p THEN M.slots[k] ELSE M.slots[k + 1]
    OBVIOUS
  <2>1. k \in DOMAIN M.slots /\ k < M.size
    BY <1>1
  <2> QED BY <1>1, <2>1
<1> HIDE DEF S
<1>3. N = [M EXCEPT !.slots = S, !.size = M.size - 1]
  BY DEF EraseSlot, S
<1> HIDE DEF N
<1>4. N.slots = S /\ N.size = M.size - 1 /\ N.indexes = M.indexes
  BY <1>1, <1>3 DEF Memory
<1> DEFINE f == Indexes(M)
           g == Indexes(N)
<1>5. \A k \in 1..M.size - 1 : g[k] = IF k < p THEN f[k] ELSE f[k + 1]
  BY <1>1, <1>2, <1>4 DEF Indexes
<1>6. f[p] = M.slots[p].index
  BY DEF Indexes
<1> HIDE DEF f, g
<1>7. Count(g, M.size - 1, x) = IF f[p] = x THEN Count(f, M.size, x) - 1 ELSE Count(f, M.size, x)
  <2>1. PICK F, G, n, m : F = f /\ G = g /\ n = M.size /\ m = n - 1
    BY Zenon
  <2>2. Shifted(F, n, G, m, p)
    BY <1>1, <1>5, <2>1 DEF Shifted
  <2>3. Count(G, m, x) = IF F[p] = x THEN Count(F, n, x) - 1 ELSE Count(F, n, x)
    BY <2>2, CountRemove
  <2> QED BY <2>1, <2>3
<1> QED BY <1>4, <1>6, <1>7 DEF EntryCount, f, g, N

\* erase of the last index equal to x, when there is one.
LEMMA EraseIndexCount ==
  ASSUME NEW M, Sized(M), NEW x, IndexCount(M, x) # 0, NEW y
  PROVE  /\ EraseIndex(M, x).slots = M.slots /\ EraseIndex(M, x).size = M.size
         /\ IndexCount(EraseIndex(M, x), y) = IF x = y THEN IndexCount(M, y) - 1
                                              ELSE IndexCount(M, y)
<1> DEFINE at == LastOf({k \in DOMAIN M.indexes : M.indexes[k] = x})
           p  == The(at)
           n  == Len(M.indexes)
           X  == RemoveAt(M.indexes, p)
           N  == EraseIndex(M, x)
<1>1. /\ M.slots \in Seq(Entry) /\ M.size \in Nat /\ M.indexes \in Seq(Nat)
      /\ n \in Nat /\ DOMAIN M.indexes = 1..n /\ M \in Memory
  BY SizedFacts
<1>2. at # {}
  <2> DEFINE S == {k \in DOMAIN M.indexes : M.indexes[k] = x}
  <2>1. S = At(M.indexes, n, x)
    BY <1>1 DEF At
  <2>2. S # {} /\ S \subseteq 1..n
    <3>1. Count(M.indexes, n, x) # 0
      BY DEF IndexCount
    <3>2. Count(M.indexes, n, x) = 0 <=> At(M.indexes, n, x) = {}
      BY <1>1, CountType, Zenon
    <3> QED BY <1>1, <2>1, <3>1, <3>2
  <2> HIDE DEF S
  <2>3. LastOf(S) # {}
    BY <1>1, <2>2, LastExists
  <2> QED BY <2>3 DEF S
<1>3. p \in 1..n /\ M.indexes[p] = x
  BY <1>1, <1>2 DEF The, LastOf
<1>4. N = [M EXCEPT !.indexes = X]
  BY <1>2 DEF EraseIndex
<1> HIDE DEF at, p
<1>5. /\ Len(X) = n - 1
      /\ \A k \in 1..n - 1 : X[k] = IF k < p THEN M.indexes[k] ELSE M.indexes[k + 1]
  <2>1. PICK i : i = M.indexes
    BY Zenon
  <2>2. i \in Seq(Nat) /\ n = Len(i) /\ X = SubSeq(i, 1, p - 1) \o SubSeq(i, p + 1, n)
    BY <1>1, <2>1 DEF RemoveAt
  <2> HIDE DEF X, n
  <2>3. p \in 1..n /\ n \in Nat
    BY <1>1, <1>3
  <2>4. Len(X) = n - 1 /\ \A k \in 1..n - 1 : X[k] = IF k < p THEN i[k] ELSE i[k + 1]
    <3> DEFINE a == SubSeq(i, 1, p - 1)
               b == SubSeq(i, p + 1, n)
    <3>1. a \in Seq(Nat) /\ Len(a) = p - 1 /\ \A k \in 1..p - 1 : a[k] = i[k]
      BY <2>2, <2>3
    <3>2. b \in Seq(Nat) /\ Len(b) = n - p /\ \A k \in 1..n - p : b[k] = i[p + k]
      <4>1. PICK m : m = p + 1
        BY Zenon
      <4>2. m \in Int /\ n \in Int /\ \A j \in m..n : i[j] \in Nat
        BY <2>2, <2>3, <4>1
      <4>3. /\ SubSeq(i, m, n) \in Seq(Nat)
            /\ Len(SubSeq(i, m, n)) = IF m <= n THEN n - m + 1 ELSE 0
            /\ \A k \in 1..n - m + 1 : SubSeq(i, m, n)[k] = i[m + k - 1]
        BY <4>2, SubSeqProperties
      <4>4. b = SubSeq(i, m, n)
        BY <4>1
      <4> HIDE DEF b
      <4>5. n - m + 1 = n - p /\ \A k \in 1..n - p : m + k - 1 = p + k
        BY <2>3, <4>1
      <4>6. Len(b) = n - p
        BY <2>3, <4>1, <4>3, <4>4
      <4> QED BY <4>3, <4>4, <4>5, <4>6
    <3> HIDE DEF a, b
    <3>3. /\ Len(a \o b) = p - 1 + (n - p)
          /\ \A k \in 1..p - 1 + (n - p) : (a \o b)[k] = IF k <= p - 1 THEN a[k] ELSE b[k - (p - 1)]
      <4>1. /\ Len(a \o b) = Len(a) + Len(b)
            /\ \A k \in 1..Len(a) + Len(b) :
                 (a \o b)[k] = IF k <= Len(a) THEN a[k] ELSE b[k - Len(a)]
        BY <3>1, <3>2, ConcatProperties, Zenon
      <4>2. Len(a) = p - 1 /\ Len(b) = n - p
        BY <3>1, <3>2
      <4> QED BY <4>1, <4>2
    <3>4. X = a \o b
      BY <2>2 DEF a, b
    <3>5. ASSUME NEW k \in 1..n - 1 PROVE X[k] = IF k < p THEN i[k] ELSE i[k + 1]
      <4>1. CASE k < p
        <5>1. k \in 1..p - 1 /\ k \in 1..p - 1 + (n - p) /\ k <= p - 1
          BY <2>3, <4>1
        <5> QED BY <3>1, <3>3, <3>4, <4>1, <5>1
      <4>2. CASE ~(k < p)
        <5>1. k - (p - 1) \in 1..n - p /\ k \in 1..p - 1 + (n - p) /\ ~(k <= p - 1)
              /\ p + (k - (p - 1)) = k + 1
          BY <2>3, <4>2
        <5> QED BY <3>2, <3>3, <3>4, <4>2, <5>1
      <4> QED BY <4>1, <4>2
    <3> QED BY <2>3, <3>3, <3>4, <3>5
  <2> QED BY <2>1, <2>4
<1> HIDE DEF X, N
<1>6. N.slots = M.slots /\ N.size = M.size /\ N.indexes = X
  BY <1>1, <1>4 DEF Memory
<1> HIDE DEF n
<1>7. Count(X, n - 1, y) = IF M.indexes[p] = y THEN Count(M.indexes, n, y) - 1
                           ELSE Count(M.indexes, n, y)
  <2>1. PICK F, G, m, q : F = M.indexes /\ G = X /\ m = n - 1 /\ q = p
    BY Zenon
  <2>2. Shifted(F, n, G, m, q)
    BY <1>1, <1>3, <1>5, <2>1 DEF Shifted
  <2>3. Count(G, m, y) = IF F[q] = y THEN Count(F, n, y) - 1 ELSE Count(F, n, y)
    BY <2>2, CountRemove
  <2> QED BY <2>1, <2>3
<1> QED BY <1>3, <1>5, <1>6, <1>7 DEF IndexCount, N, n

\* An index that an entry has is also in `indexes`.
LEMMA EntryHasIndex ==
  ASSUME NEW M, Sized(M), Matched(M), NEW p \in 1..M.size
  PROVE  IndexCount(M, M.slots[p].index) # 0
<1> DEFINE x == M.slots[p].index
<1>1. M.size \in Nat /\ x \in Nat
  BY SizedFacts
<1>2. p \in At(Indexes(M), M.size, x)
  BY DEF At, Indexes
<1>3. EntryCount(M, x) = 0 <=> At(Indexes(M), M.size, x) = {}
  <2>1. Count(Indexes(M), M.size, x) = 0 <=> At(Indexes(M), M.size, x) = {}
    BY <1>1, CountType, Zenon
  <2> QED BY <2>1 DEF EntryCount
<1> HIDE DEF x
<1>4. IndexCount(M, x) = EntryCount(M, x)
  BY <1>1 DEF Matched
<1> QED BY <1>2, <1>3, <1>4 DEF x

\* Erasing an entry together with its index.
LEMMA EraseBoth ==
  ASSUME NEW M, Sized(M), Matched(M), NEW p \in 1..M.size,
         NEW A, Sized(A), A.indexes = EraseIndex(M, M.slots[p].index).indexes,
         A.size = M.size, \A k \in 1..M.size : A.slots[k].index = M.slots[k].index
  PROVE  Matched(EraseSlot(A, p))
<1> DEFINE B == EraseIndex(M, M.slots[p].index)
           N == EraseSlot(A, p)
<1>1. IndexCount(M, M.slots[p].index) # 0
  BY EntryHasIndex
<1>2. ASSUME NEW x \in Nat PROVE IndexCount(N, x) = EntryCount(N, x)
  <2>1. IndexCount(B, x) = IF M.slots[p].index = x THEN IndexCount(M, x) - 1
                           ELSE IndexCount(M, x)
    BY <1>1, EraseIndexCount
  <2>2. /\ N.indexes = A.indexes
        /\ EntryCount(N, x) = IF A.slots[p].index = x THEN EntryCount(A, x) - 1
                              ELSE EntryCount(A, x)
    <3>1. p \in 1..A.size
      OBVIOUS
    <3> HIDE DEF N
    <3> QED BY <3>1, EraseSlotCount DEF N
  <2> HIDE DEF N, B
  <2>3. IndexCount(N, x) = IndexCount(B, x)
    BY <2>2 DEF IndexCount, B
  <2>4. Indexes(A) = Indexes(M)
    BY DEF Indexes
  <2>5. EntryCount(A, x) = EntryCount(M, x) /\ A.slots[p].index = M.slots[p].index
    BY <2>4 DEF EntryCount
  <2>6. IndexCount(M, x) = EntryCount(M, x)
    BY DEF Matched
  <2> QED BY <2>1, <2>2, <2>3, <2>5, <2>6
<1> QED BY <1>2 DEF Matched

\* Storing a pointer in an entry leaves the indexes as they are.
LEMMA SetPtrIndexes ==
  ASSUME NEW M, Sized(M), NEW p \in 1..Len(M.slots), NEW q
  PROVE  LET N == [M EXCEPT !.slots[p].ptr = q]
         IN  /\ N.size = M.size /\ N.indexes = M.indexes
             /\ \A k \in 1..M.size : N.slots[k].index = M.slots[k].index
<1> DEFINE N == [M EXCEPT !.slots[p].ptr = q]
           S == [M.slots EXCEPT ![p].ptr = q]
<1>1. /\ M.slots \in Seq(Entry) /\ M.size \in Nat /\ M.size <= Len(M.slots) /\ M \in Memory
  BY SizedFacts
<1>2. ASSUME NEW k \in 1..Len(M.slots) PROVE S[k].index = M.slots[k].index
  <2>1. M.slots[k] \in Entry
    BY <1>1
  <2>2. \A e \in Entry : [e EXCEPT !.ptr = q].index = e.index
    BY DEF Entry
  <2>3. S[k] = IF k = p THEN [M.slots[k] EXCEPT !.ptr = q] ELSE M.slots[k]
    BY <1>1
  <2> QED BY <2>1, <2>2, <2>3
<1> HIDE DEF S
<1>3. N = [M EXCEPT !.slots = S]
  BY <1>1 DEF S
<1> HIDE DEF N
<1>4. N.slots = S /\ N.size = M.size /\ N.indexes = M.indexes
  BY <1>1, <1>3 DEF Memory
<1>5. \A k \in 1..M.size : N.slots[k].index = M.slots[k].index
  BY <1>1, <1>2, <1>4
<1> QED BY <1>4, <1>5 DEF N

\* Storing a pointer keeps the two vectors matched.
LEMMA SetPtrMatched ==
  ASSUME NEW M, Sized(M), Matched(M), NEW p \in 1..Len(M.slots), NEW q
  PROVE  Matched([M EXCEPT !.slots[p].ptr = q])
<1>1. PICK N : N = [M EXCEPT !.slots[p].ptr = q]
  BY Zenon
<1>2. /\ N.size = M.size /\ N.indexes = M.indexes
      /\ \A k \in 1..M.size : N.slots[k].index = M.slots[k].index
  BY <1>1, SetPtrIndexes
<1>3. Matched(N)
  BY <1>2, SameVectors
<1> QED BY <1>1, <1>3

\* do_sweep erases an entry from both vectors.
LEMMA RemoveEntryMatched ==
  ASSUME NEW M, Sized(M), Matched(M), NEW p \in 1..M.size
  PROVE  Matched(RemoveEntry(M, p))
<1>1. PICK x : x = M.slots[p].index
  BY Zenon
<1>2. PICK A : A = EraseIndex(M, x)
  BY Zenon
<1>3. PICK B : B = [A EXCEPT !.slots[p].ptr = Null]
  BY Zenon
<1>4. Sized(A) /\ A.slots = M.slots /\ A.size = M.size
  BY <1>2, EraseIndexType
<1>5. p \in 1..Len(A.slots)
  <2>1. M.size \in Nat /\ M.size <= Len(M.slots) /\ Len(M.slots) \in Nat
    BY SizedFacts
  <2> QED BY <1>4, <2>1
<1>6. /\ B.size = A.size /\ B.indexes = A.indexes
      /\ \A k \in 1..A.size : B.slots[k].index = A.slots[k].index
  BY <1>3, <1>4, <1>5, SetPtrIndexes
<1>7. Sized(B)
  BY <1>3, <1>4, <1>5, ClearPtrType
<1>8. /\ B.indexes = EraseIndex(M, M.slots[p].index).indexes /\ B.size = M.size
      /\ \A k \in 1..M.size : B.slots[k].index = M.slots[k].index
  BY <1>1, <1>2, <1>4, <1>6
<1>9. Matched(EraseSlot(B, p))
  BY <1>7, <1>8, EraseBoth
<1>10. RemoveEntry(M, p) = EraseSlot(B, p)
  BY <1>1, <1>2, <1>3 DEF RemoveEntry
<1> QED BY <1>9, <1>10

\* byRef and reroot erase the root's entry from both vectors.
LEMMA UnrootMatched ==
  ASSUME NEW M, Sized(M), Matched(M), NEW h
  PROVE  Matched(Unroot(M, h))
<1> DEFINE at == LastOf({k \in 1..M.size : M.slots[k].ref /\ M.slots[k].ptr = h})
<1>1. CASE at = {}
  BY <1>1 DEF Unroot
<1>2. CASE at # {}
  <2>1. PICK p : p = The(at)
    BY Zenon
  <2>2. p \in 1..M.size
    BY <1>2, <2>1 DEF The, LastOf
  <2>3. PICK A : A = EraseIndex(M, M.slots[p].index)
    BY Zenon
  <2>4. Unroot(M, h) = EraseSlot(A, p)
    BY <1>2, <2>1, <2>3 DEF Unroot
  <2>5. Sized(A) /\ A.slots = M.slots /\ A.size = M.size
    BY <2>3, EraseIndexType
  <2>6. Matched(EraseSlot(A, p))
    BY <2>2, <2>3, <2>5, EraseBoth
  <2> QED BY <2>4, <2>6
<1> QED BY <1>1, <1>2

\* One iteration of the drain takes the last index and an entry that has it:
\* there always is one.
LEMMA DrainOneMatched ==
  ASSUME NEW M, Sized(M), Matched(M), M.indexes # <<>>, NEW x, x = Last(M.indexes),
         x < Len(M.slots)
  PROVE  Matched(DrainOne(M, x))
<1> DEFINE at == LastOf({k \in 1..M.size : M.slots[k].index = x})
<1>1. PICK i, n : i = M.indexes /\ n = Len(i)
  BY Zenon
<1>2. /\ M.slots \in Seq(Entry) /\ M.size \in Nat /\ i \in Seq(Nat) /\ M \in Memory
      /\ M.size <= Len(M.slots) /\ n \in Nat /\ n >= 1 /\ x = i[n] /\ x \in Nat
  BY <1>1, SizedFacts DEF Last
<1>3. PICK X : X = Front(i)
  BY Zenon
<1>4. Len(X) = n - 1 /\ \A k \in 1..n - 1 : X[k] = i[k]
  BY <1>1, <1>2, <1>3 DEF Front
<1>5. PICK A : A = [M EXCEPT !.slots[x + 1].ptr = Null]
  BY Zenon
<1>6. x + 1 \in 1..Len(M.slots)
  BY <1>2
<1>7. Sized(A)
  BY <1>5, <1>6, ClearPtrType
<1>8. /\ A.size = M.size /\ A.indexes = M.indexes
      /\ \A k \in 1..M.size : A.slots[k].index = M.slots[k].index
  BY <1>5, <1>6, SetPtrIndexes
<1>9. PICK N : N = [M EXCEPT !.slots[x + 1].ptr = Null, !.indexes = X]
  BY Zenon
<1>10. N = [A EXCEPT !.indexes = X]
  BY <1>2, <1>5, <1>9 DEF Memory
<1>11. A \in Memory /\ A.size <= Len(A.slots)
  BY <1>7 DEF Sized
<1>12. N.slots = A.slots /\ N.size = M.size /\ N.indexes = X
  BY <1>8, <1>10, <1>11 DEF Memory
<1>13. Sized(N)
  <2>1. X \in Seq(Nat)
    BY <1>2, <1>3 DEF Front
  <2>2. N \in Memory
    BY <1>10, <1>11, <2>1 DEF Memory
  <2> QED BY <1>8, <1>11, <1>12, <2>2 DEF Sized
<1>14. at # {}
  <2>1. PICK f, s : f = Indexes(M) /\ s = M.size
    BY Zenon
  <2>2. n \in At(i, n, x)
    BY <1>2 DEF At
  <2>3. Count(i, n, x) # 0
    <3>1. Count(i, n, x) = 0 <=> At(i, n, x) = {}
      BY <1>2, CountType, Zenon
    <3> QED BY <2>2, <3>1
  <2>4. Count(f, s, x) # 0
    BY <1>1, <1>2, <2>1, <2>3 DEF Matched, IndexCount, EntryCount
  <2>5. s \in Nat
    BY <1>2, <2>1
  <2>6. At(f, s, x) # {}
    <3>1. Count(f, s, x) = 0 <=> At(f, s, x) = {}
      BY <2>5, CountType, Zenon
    <3> QED BY <2>4, <3>1
  <2>7. PICK S : S = {k \in 1..M.size : M.slots[k].index = x}
    BY Zenon
  <2>8. S = At(f, s, x)
    BY <2>1, <2>7 DEF At, Indexes
  <2>9. LastOf(S) # {}
    BY <2>5, <2>1, <2>6, <2>7, <2>8, LastExists
  <2> QED BY <2>7, <2>9
<1>15. PICK p : p = The(at)
  BY Zenon
<1>16. p \in 1..M.size /\ M.slots[p].index = x
  BY <1>14, <1>15 DEF The, LastOf
<1>17. DrainOne(M, x) = EraseSlot(N, p)
  BY <1>1, <1>3, <1>9, <1>14, <1>15 DEF DrainOne
<1>18. \A k \in 1..N.size : N.slots[k].index = M.slots[k].index
  BY <1>8, <1>12
<1>19. ASSUME NEW y \in Nat PROVE IndexCount(EraseSlot(N, p), y) = EntryCount(EraseSlot(N, p), y)
  <2>1. PICK K : K = EraseSlot(N, p)
    BY Zenon
  <2>2. p \in 1..N.size
    BY <1>12, <1>16
  <2>3. /\ K.indexes = N.indexes
        /\ EntryCount(K, y) = IF N.slots[p].index = y THEN EntryCount(N, y) - 1
                              ELSE EntryCount(N, y)
    BY <1>13, <2>1, <2>2, EraseSlotCount
  <2>4. N.slots[p].index = x
    BY <1>16, <1>18, <2>2
  <2>5. EntryCount(N, y) = EntryCount(M, y)
    <3>1. Indexes(N) = Indexes(M)
      BY <1>12, <1>18 DEF Indexes
    <3> QED BY <1>12, <3>1 DEF EntryCount
  <2>6. Shifted(i, n, X, n - 1, n)
    BY <1>2, <1>4 DEF Shifted
  <2>7. Count(X, n - 1, y) = IF i[n] = y THEN Count(i, n, y) - 1 ELSE Count(i, n, y)
    BY <2>6, CountRemove
  <2>8. IndexCount(K, y) = Count(X, n - 1, y) /\ IndexCount(M, y) = Count(i, n, y)
    BY <1>1, <1>4, <1>12, <2>3 DEF IndexCount
  <2>9. IndexCount(M, y) = EntryCount(M, y)
    BY DEF Matched
  <2>10. IndexCount(K, y) = EntryCount(K, y)
    BY <1>2, <2>3, <2>4, <2>5, <2>7, <2>8, <2>9
  <2> QED BY <2>1, <2>10
<1>20. Matched(EraseSlot(N, p))
  BY <1>19 DEF Matched
<1> QED BY <1>17, <1>20

----------------------------------------------------------------------------
(* The steps.                                                              *)

AllMatched(F) == \A m \in AllMem : Matched(F[m])

\* Replacing one Memory by a matched one.
LEMMA PutMatched ==
  ASSUME NEW F, DOMAIN F = AllMem, AllMatched(F), NEW m, NEW N, Matched(N)
  PROVE  DOMAIN Put(F, m, N) = AllMem /\ AllMatched(Put(F, m, N))
BY DEF AllMatched, Put

\* A step that changes no vector.
LEMMA VectorsKept ==
  ASSUME AllMatched(mem),
         \A m \in AllMem : /\ mem'[m].slots = mem[m].slots /\ mem'[m].size = mem[m].size
                           /\ mem'[m].indexes = mem[m].indexes
  PROVE  AllMatched(mem')
<1> SUFFICES ASSUME NEW m \in AllMem PROVE Matched(mem'[m])
  BY DEF AllMatched
<1>1. PICK M, N : M = mem[m] /\ N = mem'[m]
  BY Zenon
<1>2. /\ Matched(M) /\ N.indexes = M.indexes /\ N.size = M.size
      /\ \A k \in 1..M.size : N.slots[k].index = M.slots[k].index
  BY <1>1 DEF AllMatched
<1>3. Matched(N)
  BY <1>2, SameVectors
<1> QED BY <1>1, <1>3

LEMMA NewMemoryMatched ==
  Matched(NewMemory)
<1>1. NewMemory.indexes = <<>> /\ NewMemory.size = 0
  BY DEF NewMemory, NoMemory
<1>2. \A f, x : At(f, 0, x) = {}
  BY DEF At
<1> QED BY <1>1, <1>2 DEF Matched, IndexCount, EntryCount, Count

\* The memories of a state of the invariant.
LEMMA MemFacts ==
  ASSUME Inductive
  PROVE  /\ GoodData /\ GoodControl /\ DOMAIN mem = AllMem /\ RootMem \in AllMem
         /\ \A m \in AllMem : Sized(mem[m]) /\ mem[m] \in Memory
BY DEF Inductive, GoodData, GoodMem, AllMem, Sized

\* The client's calls that push.
LEMMA NewMatched ==
  ASSUME Inductive, AllMatched(mem), NEW o \in Obj, New(o)
  PROVE  AllMatched(mem')
<1>1. PICK h, m : h = Fresh(heap) /\ m = Fresh(mem)
  BY Zenon
<1>2. m \in Mem /\ m \in AllMem /\ m # RootMem
  BY <1>1, MemFacts, FreshMem, DistinctIds DEF New, GoodData, AllMem
<1>3. PICK F : F = Put(mem, m, NewMemory)
  BY Zenon
<1>4. mem' = [mem EXCEPT ![m] = NewMemory, ![RootMem] = PushEntry(@, h, TRUE)]
  BY <1>1 DEF New
<1>5. mem' = Put(F, RootMem, PushEntry(mem[RootMem], h, TRUE))
  BY <1>2, <1>3, <1>4, MemFacts DEF Put
<1>6. DOMAIN F = AllMem /\ AllMatched(F)
  BY <1>3, MemFacts, NewMemoryMatched, PutMatched
<1>7. Matched(PushEntry(mem[RootMem], h, TRUE))
  BY MemFacts, PushEntryMatched DEF AllMatched
<1> QED BY <1>5, <1>6, <1>7, PutMatched

LEMMA CopyMatched ==
  ASSUME Inductive, AllMatched(mem), NEW o \in Obj, NEW s \in Obj, Copy(o, s)
  PROVE  AllMatched(mem')
<1>1. PICK h : h = Fresh(heap)
  BY Zenon
<1>2. mem' = Put(mem, RootMem, PushEntry(mem[RootMem], h, TRUE))
  BY <1>1 DEF Copy, Put
<1>3. Matched(PushEntry(mem[RootMem], h, TRUE))
  BY MemFacts, PushEntryMatched DEF AllMatched
<1> QED BY <1>2, <1>3, MemFacts, PutMatched

LEMMA AssignMatched ==
  ASSUME Inductive, AllMatched(mem), NEW o \in Obj, NEW s \in Obj, Assign(o, s)
  PROVE  AllMatched(mem')
<1>1. PICK h : h = Fresh(heap)
  BY Zenon
<1>2. mem' = Put(mem, RootMem, PushEntry(mem[RootMem], h, TRUE))
  BY <1>1 DEF Assign, Put, Dealloc
<1>3. Matched(PushEntry(mem[RootMem], h, TRUE))
  BY MemFacts, PushEntryMatched DEF AllMatched
<1> QED BY <1>2, <1>3, MemFacts, PutMatched

LEMMA PushValueMatched ==
  ASSUME Inductive, AllMatched(mem), NEW o \in Obj, NEW p, PushValue(o, p)
  PROVE  AllMatched(mem')
<1>1. PICK m : m = MemOf(o)
  BY Zenon
<1>2. m \in AllMem /\ mem' = Put(mem, m, PushEntry(mem[m], p, FALSE))
  BY <1>1, MemFacts, UsableFacts DEF PushValue, Put, AllMem
<1>3. Matched(PushEntry(mem[m], p, FALSE))
  BY <1>2, MemFacts, PushEntryMatched DEF AllMatched
<1> QED BY <1>2, <1>3, MemFacts, PutMatched

\* A Memory is replaced and the root forgets a heap.
LEMMA ReferMatched ==
  ASSUME Inductive, AllMatched(mem), NEW m \in Mem, NEW N, Matched(N), NEW h,
         mem' = [mem EXCEPT ![m] = N, ![RootMem] = Unroot(@, h)]
  PROVE  AllMatched(mem')
<1>1. PICK F : F = Put(mem, m, N)
  BY Zenon
<1>2. m \in AllMem /\ m # RootMem
  BY DistinctIds DEF AllMem
<1>3. PICK U : U = Unroot(mem[RootMem], h)
  BY Zenon
<1>4. mem' = Put(F, RootMem, U) /\ Matched(U)
  <2>1. mem' = Put(F, RootMem, U)
    BY <1>1, <1>2, <1>3, MemFacts DEF Put
  <2>2. Matched(U)
    BY <1>3, MemFacts, UnrootMatched DEF AllMatched
  <2> QED BY <2>1, <2>2
<1>5. DOMAIN F = AllMem /\ AllMatched(F)
  BY <1>1, MemFacts, PutMatched
<1>6. PICK G : G = Put(F, RootMem, U)
  BY Zenon
<1>7. AllMatched(G)
  BY <1>4, <1>5, <1>6, PutMatched
<1> QED BY <1>4, <1>6, <1>7

LEMMA ByRefMatched ==
  ASSUME Inductive, AllMatched(mem), NEW o \in Obj, NEW c \in Obj, ByRef(o, c)
  PROVE  AllMatched(mem')
<1>1. PICK m, h : m = MemOf(o) /\ h = obj[c].heap
  BY Zenon
<1>2. m \in Mem /\ m \in AllMem
  BY <1>1, MemFacts, UsableFacts DEF ByRef, AllMem
<1>3. mem' = [mem EXCEPT ![m] = PushEntry(mem[m], h, TRUE), ![RootMem] = Unroot(@, h)]
  BY <1>1 DEF ByRef
<1>4. Matched(PushEntry(mem[m], h, TRUE))
  BY <1>2, MemFacts, PushEntryMatched DEF AllMatched
<1> QED BY <1>2, <1>3, <1>4, ReferMatched

\* The entry that reroot fills is one of the vector.
LEMMA RerootEntry ==
  ASSUME Inductive, NEW m \in AllMem, NEW k \in 1..MaxEntries, k <= mem[m].size
  PROVE  k \in 1..Len(mem[m].slots) /\ Sized(mem[m])
BY MemFacts, SizedFacts, BoundsOK

LEMMA RerootMatched ==
  ASSUME Inductive, AllMatched(mem), NEW o \in Obj, NEW c \in Obj, NEW k \in 1..MaxEntries,
         Reroot(o, k, c)
  PROVE  AllMatched(mem')
<1>1. PICK m, h : m = MemOf(o) /\ h = obj[c].heap
  BY Zenon
<1>2. m \in Mem /\ m \in AllMem
  BY <1>1, MemFacts, UsableFacts DEF Reroot, AllMem
<1>3. PICK B : B = [mem[m] EXCEPT !.slots[k].ptr = c]
  BY Zenon
<1>4. mem' = [mem EXCEPT ![m] = PushEntry(B, h, TRUE), ![RootMem] = Unroot(@, h)]
  BY <1>1, <1>3 DEF Reroot
<1>5. k <= mem[m].size /\ ~mem[m].slots[k].ref
  BY <1>1 DEF Reroot
<1>6. k \in 1..Len(mem[m].slots) /\ Sized(mem[m])
  BY <1>2, <1>5, RerootEntry
<1>7. Matched(B)
  BY <1>2, <1>3, <1>6, SetPtrMatched DEF AllMatched
<1>8. Sized(B)
  <2>1. mem[m].slots[k] \in Entry
    BY <1>6, SizedFacts
  <2>2. [mem[m].slots[k] EXCEPT !.ptr = c] \in Entry
    BY <1>5, <2>1 DEF Entry
  <2> QED BY <1>3, <1>6, <2>2, SetPtrType
<1>9. Matched(PushEntry(B, h, TRUE))
  BY <1>7, <1>8, PushEntryMatched
<1> QED BY <1>2, <1>4, <1>9, ReferMatched

LEMMA RerootValueMatched ==
  ASSUME Inductive, AllMatched(mem), NEW o \in Obj, NEW p \in Payload,
         NEW k \in 1..MaxEntries, RerootValue(o, k, p)
  PROVE  AllMatched(mem')
<1>1. PICK m : m = MemOf(o)
  BY Zenon
<1>2. m \in AllMem
  BY <1>1, MemFacts, UsableFacts DEF RerootValue, AllMem
<1>3. PICK B : B = [mem[m] EXCEPT !.slots[k].ptr = p]
  BY Zenon
<1>4. mem' = Put(mem, m, B) /\ k <= mem[m].size
  BY <1>1, <1>3 DEF RerootValue, Put
<1>5. k \in 1..Len(mem[m].slots) /\ Sized(mem[m])
  BY <1>2, <1>4, RerootEntry
<1>6. Matched(B)
  BY <1>2, <1>3, <1>5, SetPtrMatched DEF AllMatched
<1> QED BY <1>4, <1>6, MemFacts, PutMatched

\* The steps that change the flags of one Memory, or no Memory.
LEMMA FlagsMatched ==
  ASSUME Inductive, AllMatched(mem),
         \/ mem' = mem
         \/ \E m : \/ mem' = [mem EXCEPT ![m].keep = FALSE]
                   \/ mem' = [mem EXCEPT ![m].keep = TRUE]
         \/ \E m, c : \/ mem' = [mem EXCEPT ![m].keep = FALSE, ![m].color = c]
                      \/ mem' = [mem EXCEPT ![m].seen = TRUE, ![m].color = c]
         \/ \E m : \/ mem' = [mem EXCEPT ![m] = Leave(@)]
                   \/ mem' = [mem EXCEPT ![m].st = "freed"]
  PROVE  AllMatched(mem')
<1>1. DOMAIN mem = AllMem /\ \A m \in AllMem : mem[m] \in Memory
  BY MemFacts
<1>2. ASSUME NEW x \in AllMem
      PROVE  /\ mem'[x].slots = mem[x].slots /\ mem'[x].size = mem[x].size
             /\ mem'[x].indexes = mem[x].indexes
  <2>1. PICK M, N : M = mem[x] /\ N = mem'[x]
    BY Zenon
  <2>2. \/ N = M \/ N = [M EXCEPT !.keep = FALSE] \/ N = [M EXCEPT !.keep = TRUE]
        \/ \E c : \/ N = [M EXCEPT !.keep = FALSE, !.color = c]
                  \/ N = [M EXCEPT !.seen = TRUE, !.color = c]
        \/ N = Leave(M) \/ N = [M EXCEPT !.st = "freed"]
    <3>1. CASE mem' = mem
      BY <2>1, <3>1
    <3>2. ASSUME NEW m, mem' = [mem EXCEPT ![m].keep = FALSE] \/ mem' = [mem EXCEPT ![m].keep = TRUE]
          PROVE  N = M \/ N = [M EXCEPT !.keep = FALSE] \/ N = [M EXCEPT !.keep = TRUE]
      BY <1>1, <2>1, <3>2
    <3>3. ASSUME NEW m, NEW c, \/ mem' = [mem EXCEPT ![m].keep = FALSE, ![m].color = c]
                               \/ mem' = [mem EXCEPT ![m].seen = TRUE, ![m].color = c]
          PROVE  \/ N = M \/ N = [M EXCEPT !.keep = FALSE, !.color = c]
                 \/ N = [M EXCEPT !.seen = TRUE, !.color = c]
      <4>1. CASE x = m
        BY <1>1, <2>1, <3>3, <4>1
      <4>2. CASE x # m
        BY <1>1, <2>1, <3>3, <4>2
      <4> QED BY <4>1, <4>2
    <3>4. ASSUME NEW m, \/ mem' = [mem EXCEPT ![m] = Leave(@)]
                        \/ mem' = [mem EXCEPT ![m].st = "freed"]
          PROVE  N = M \/ N = Leave(M) \/ N = [M EXCEPT !.st = "freed"]
      BY <1>1, <2>1, <3>4
    <3>5. CASE \E m : \/ mem' = [mem EXCEPT ![m].keep = FALSE]
                      \/ mem' = [mem EXCEPT ![m].keep = TRUE]
      BY <3>2, <3>5, Zenon
    <3>6. CASE \E m, c : \/ mem' = [mem EXCEPT ![m].keep = FALSE, ![m].color = c]
                         \/ mem' = [mem EXCEPT ![m].seen = TRUE, ![m].color = c]
      BY <3>3, <3>6, Zenon
    <3>7. CASE \E m : \/ mem' = [mem EXCEPT ![m] = Leave(@)]
                      \/ mem' = [mem EXCEPT ![m].st = "freed"]
      BY <3>4, <3>7, Zenon
    <3> QED BY <3>1, <3>5, <3>6, <3>7
  <2>3. M \in Memory
    BY <1>1, <2>1
  <2>4. PICK c : \/ N = M \/ N = [M EXCEPT !.keep = FALSE] \/ N = [M EXCEPT !.keep = TRUE]
                 \/ N = [M EXCEPT !.keep = FALSE, !.color = c]
                 \/ N = [M EXCEPT !.seen = TRUE, !.color = c]
                 \/ N = Leave(M) \/ N = [M EXCEPT !.st = "freed"]
    BY <2>2, Zenon
  <2>5. N.slots = M.slots /\ N.size = M.size /\ N.indexes = M.indexes
    BY <2>3, <2>4 DEF Memory, Leave
  <2> QED BY <2>1, <2>5
<1> QED BY <1>2, VectorsKept

\* The client's other calls change no vector themselves.
LEMMA OtherClientMatched ==
  ASSUME Inductive, AllMatched(mem),
         \/ Collect \/ Exit \/ ClientFault
         \/ \E o \in Obj : ExplicitDealloc(o) \/ Destroy(o)
  PROVE  AllMatched(mem')
<1>1. ASSUME NEW h, Dealloc(h, heap, mem) PROVE mem' = mem
  BY <1>1 DEF Dealloc
<1>2. mem' = mem \/ mem' = [mem EXCEPT ![RootMem].st = "freed"]
  BY <1>1 DEF Collect, Exit, ClientFault, ExplicitDealloc, Destroy
<1> QED BY <1>2, FlagsMatched

\* mark() changes no vector, and of do_sweep only the steps that queue entries do.
LEMMA OtherCollectorMatched ==
  ASSUME Inductive, AllMatched(mem),
         \/ MarkEnter \/ MarkScan \/ MarkDone \/ SweepEnter \/ SweepDone
         \/ RunDestructor \/ RunMemoryDestructor \/ FinishCollect \/ CollectorFault \/ Return
  PROVE  AllMatched(mem')
<1>1. CASE MarkEnter
  <2>1. PICK t, c : t = TopMem /\ c = MarkColor(Top.h)
    BY Zenon
  <2>2. \/ mem' = [mem EXCEPT ![t].keep = FALSE]
        \/ mem' = [mem EXCEPT ![t].keep = FALSE, ![t].color = c]
    BY <1>1, <2>1 DEF MarkEnter
  <2> QED BY <2>2, FlagsMatched
<1>2. CASE SweepEnter
  <2>1. PICK t, c : t = TopMem /\ c = SweptColor(mem[TopMem].color)
    BY Zenon
  <2>2. DOMAIN mem = AllMem /\ \A m \in AllMem : mem[m] \in Memory
    BY MemFacts
  <2>3. t \in AllMem
    <3>1. pc = "sweep" /\ stack # <<>> /\ heap[Top.h].st = "live"
      BY <1>2 DEF SweepEnter, AtFrame, HeapOk
    <3>2. GoodHeap(heap) /\ Top.h \in AllHeap
      BY <3>1, SweepFacts
    <3> QED BY <2>1, <3>1, <3>2, HeapHasMem DEF TopMem
  <2>4. mem' = mem \/ mem' = [mem EXCEPT ![t].seen = TRUE, ![t].color = SweptColor(@)]
    BY <1>2, <2>1 DEF SweepEnter
  <2>5. [mem EXCEPT ![t].seen = TRUE, ![t].color = SweptColor(@)]
          = [mem EXCEPT ![t].seen = TRUE, ![t].color = c]
    BY <2>1, <2>2, <2>3 DEF Memory
  <2> QED BY <2>4, <2>5, FlagsMatched
<1>3. CASE RunMemoryDestructor
  BY <1>3, FlagsMatched DEF RunMemoryDestructor
<1>4. CASE FinishCollect
  BY <1>4, FlagsMatched DEF FinishCollect
<1>5. CASE MarkScan \/ MarkDone \/ SweepDone \/ RunDestructor \/ CollectorFault \/ Return
  <2>1. mem' = mem
    BY <1>5 DEF MarkScan, MarkDone, SweepDone, RunDestructor, CollectorFault, Return
  <2> QED BY <2>1, FlagsMatched
<1> QED BY <1>1, <1>2, <1>3, <1>4, <1>5

\* An activation of do_sweep erases an entry of the Memory that it iterates.
LEMMA QueuedMatched ==
  ASSUME Inductive, AllMatched(mem), pc = "sweep", stack # <<>>, Top.ph # "enter", Top.i # 0,
         mem' = [mem EXCEPT ![TopMem] = RemoveEntry(@, Top.i)]
  PROVE  AllMatched(mem')
<1>1. PICK t, i : t = TopMem /\ i = Top.i
  BY Zenon
<1>2. t \in AllMem /\ Sized(mem[t]) /\ i \in Nat /\ i <= mem[t].size /\ i # 0
  BY <1>1, SweepFacts
<1>3. i \in 1..mem[t].size
  BY <1>2, SizedFacts
<1>4. PICK N : N = RemoveEntry(mem[t], i)
  BY Zenon
<1>5. Matched(N)
  BY <1>2, <1>3, <1>4, RemoveEntryMatched DEF AllMatched
<1>6. PICK G : G = Put(mem, t, N)
  BY Zenon
<1>7. AllMatched(G)
  BY <1>5, <1>6, MemFacts, PutMatched
<1>8. mem' = G
  BY <1>1, <1>4, <1>6 DEF Put
<1> QED BY <1>7, <1>8

LEMMA SweepScanMatched ==
  ASSUME Inductive, AllMatched(mem), SweepScan
  PROVE  AllMatched(mem')
<1>1. pc = "sweep" /\ stack # <<>> /\ Top.ph # "enter"
  BY DEF SweepScan, AtFrame
<1>2. \/ mem' = mem
      \/ mem' = [mem EXCEPT ![TopMem] = Leave(@)]
      \/ Top.i # 0 /\ mem' = [mem EXCEPT ![TopMem] = RemoveEntry(@, Top.i)]
  BY DEF SweepScan, SweepValue
<1> QED BY <1>1, <1>2, FlagsMatched, QueuedMatched

LEMMA SweepBackMatched ==
  ASSUME Inductive, AllMatched(mem), SweepBack
  PROVE  AllMatched(mem')
<1>1. pc = "sweep" /\ stack # <<>> /\ Top.ph # "enter" /\ Top.ph \in {"back", "drain"}
  BY DEF SweepBack, AtFrame
<1>2. Top.i # 0
  BY <1>1, RefFacts
<1>3. \/ mem' = mem
      \/ \E m : mem' = [mem EXCEPT ![m].keep = TRUE]
      \/ mem' = [mem EXCEPT ![TopMem] = RemoveEntry(@, Top.i)]
  BY DEF SweepBack
<1> QED BY <1>1, <1>2, <1>3, FlagsMatched, QueuedMatched

LEMMA SweepDrainMatched ==
  ASSUME Inductive, AllMatched(mem), SweepDrain
  PROVE  AllMatched(mem')
<1>1. pc = "sweep" /\ stack # <<>> /\ Top.ph # "enter" /\ Top.ph \in {"back", "drain"}
  BY DEF SweepDrain, AtFrame
<1>2. Top.i # 0 /\ RefMem \in AllMem /\ Sized(mem[RefMem])
  BY <1>1, RefFacts
<1>3. PICK r, x : r = RefMem /\ x = Last(mem[r].indexes)
  BY Zenon
<1>4. \/ /\ mem[r].indexes # <<>> /\ x < Len(mem[r].slots)
         /\ mem' = Put(mem, r, DrainOne(mem[r], x))
      \/ mem' = [mem EXCEPT ![TopMem] = RemoveEntry(@, Top.i)]
  BY <1>3 DEF SweepDrain, Put, RefMem, TopEntry
<1>5. ASSUME mem[r].indexes # <<>>, x < Len(mem[r].slots)
      PROVE  Matched(DrainOne(mem[r], x))
  BY <1>2, <1>3, <1>5, DrainOneMatched DEF AllMatched
<1> QED BY <1>1, <1>2, <1>4, <1>5, MemFacts, PutMatched, QueuedMatched

----------------------------------------------------------------------------
(* The theorem.                                                            *)

LEMMA NextMatched ==
  Inductive /\ AllMatched(mem) /\ [Next]_vars => AllMatched(mem')
<1> SUFFICES ASSUME Inductive, AllMatched(mem), [Next]_vars PROVE AllMatched(mem')
  OBVIOUS
<1>1. CASE UNCHANGED vars \/ Stopped
  <2>1. mem' = mem
    BY <1>1 DEF vars, Stopped
  <2> QED BY <2>1
<1>2. CASE Client
  BY <1>2, NewMatched, CopyMatched, AssignMatched, PushValueMatched, ByRefMatched,
     RerootMatched, RerootValueMatched, OtherClientMatched DEF Client
<1>3. CASE Collector
  BY <1>3, OtherCollectorMatched, SweepScanMatched, SweepBackMatched, SweepDrainMatched
     DEF Collector
<1>4. CASE Return
  BY <1>4, OtherCollectorMatched
<1> QED BY <1>1, <1>2, <1>3, <1>4 DEF Next

LEMMA InitMatched ==
  Init => AllMatched(mem)
<1> SUFFICES ASSUME Init, NEW m \in AllMem PROVE Matched(mem[m])
  BY DEF AllMatched
<1>1. mem[m] = NewMemory \/ mem[m] = NoMemory
  BY DEF Init
<1>2. \A f, x : At(f, 0, x) = {}
  BY DEF At
<1>3. NoMemory.indexes = <<>> /\ NoMemory.size = 0
  BY DEF NoMemory
<1>4. Matched(NoMemory)
  BY <1>2, <1>3 DEF Matched, IndexCount, EntryCount, Count
<1> QED BY <1>1, <1>4, NewMemoryMatched

\* Matched memories satisfy the invariant that the runs check.
LEMMA MatchedImplies ==
  ASSUME Inductive, AllMatched(mem)
  PROVE  IndexesMatch
<1> SUFFICES ASSUME NEW m \in AllMem, NEW x \in 0..Len(mem[m].slots)
             PROVE  Cardinality({k \in DOMAIN mem[m].indexes : mem[m].indexes[k] = x})
                      = Cardinality({k \in 1..mem[m].size : mem[m].slots[k].index = x})
  BY DEF IndexesMatch
<1>1. PICK M : M = mem[m]
  BY Zenon
<1>2. Sized(M) /\ Matched(M) /\ x \in Nat
  BY <1>1, MemFacts DEF AllMatched
<1>3. DOMAIN M.indexes = 1..Len(M.indexes)
  BY <1>2, SizedFacts
<1>4. IndexCount(M, x) = Cardinality({k \in DOMAIN M.indexes : M.indexes[k] = x})
  BY <1>3 DEF IndexCount, Count, At
<1>5. At(Indexes(M), M.size, x) = {k \in 1..M.size : M.slots[k].index = x}
  BY DEF At, Indexes
<1>6. EntryCount(M, x) = Cardinality({k \in 1..M.size : M.slots[k].index = x})
  BY <1>5 DEF EntryCount, Count
<1> QED BY <1>1, <1>2, <1>4, <1>6 DEF Matched

\* The indexes of a Memory's entries are the elements of its `indexes`, with the
\* same multiplicities, in every state: push, byRef, reroot and do_sweep change
\* both vectors by the same index, and the drain of a Memory always finds the
\* entry of the index that it takes (managed_object_heap.cpp:60-78, 337-443).
THEOREM IndexesAlwaysMatch ==
  Spec => []IndexesMatch
<1>1. Init => AllMatched(mem)
  BY InitMatched
<1>2. Inductive /\ AllMatched(mem) /\ [Next]_vars => AllMatched(mem)'
  <2>1. AllMatched(mem)' <=> AllMatched(mem')
    BY DEF AllMatched
  <2> QED BY <2>1, NextMatched
<1>3. Inductive /\ AllMatched(mem) => IndexesMatch
  BY MatchedImplies
<1> QED BY <1>1, <1>2, <1>3, InductiveHolds, PTL DEF Spec

=============================================================================
