----------------------- MODULE ManagedHeapColor_proofs -----------------------
(***************************************************************************)
(* Proofs about the colours of a Memory, for every set of objects,         *)
(* payloads, heaps and memories and every client: what mark() paints,      *)
(* do_sweep() repaints or queues, through references in cycles, nested     *)
(* collections and drains of the wrong slots.                              *)
(***************************************************************************)
EXTENDS ManagedHeap_proofs

----------------------------------------------------------------------------
(* The invariant.  The operators take the heaps H, the memories F and the  *)
(* stack s, so that they can be said of a state and of the next one.       *)

\* The memories that a queue of sweep_() is going to delete.
Queued(a) == {a.mlist[j] : j \in 1..Len(a.mlist)}
Doomed(A) == {m \in AllMem : \E k \in 1..Len(A) : m \in Queued(A[k])}

Condemned == Doomed(acts)

\* Painted memories that somebody must still repaint or condemn.
Owed(F, C) == {m \in AllMem : m \notin C /\ F[m].st = "live" /\ F[m].color # "GRAY"}

\* Slot j of Memory p refers to a heap with Memory m.
Spot(H, F, p, j, m) == IsHeapRef(F[p].slots[j]) /\ H[F[p].slots[j].ptr].mem = m

Refs(H, F) == {r \in AllMem \X AllMem : \E j \in 1..F[r[1]].size : Spot(H, F, r[1], j, r[2])}

\* Everything in W is reached from G, or from the root list, through W.
Reach(W, G, R) ==
  \A S \in SUBSET (W \ {RootMem}) :
    S # {} => \E m \in S : m \in G \/ \E p \in W \ S : <<p, m>> \in R

\* The Memory of activation k, and the one that its entry refers to.
MemAt(H, s, k) == H[s[k].h].mem
EntryMem(H, F, s, k) == H[F[MemAt(H, s, k)].slots[s[k].i].ptr].mem

\* In mark(): what is painted hangs together, and each activation was called for
\* the entry before its caller's position.
Called(F, H, s, k) ==
  LET M == F[MemAt(H, s, k)]
  IN  /\ s[k].ph = "scan" /\ s[k].i - 1 \in 1..M.size
      /\ IsHeapRef(M.slots[s[k].i - 1]) /\ M.slots[s[k].i - 1].ptr = s[k + 1].h

Marking(H, F, s, C) ==
  /\ Reach(Owed(F, C), {}, Refs(H, F))
  /\ s # <<>> => s[1].h = Root
  /\ \A k \in 1..Len(s) : s[k].ph = "scan" => MemAt(H, s, k) \in Owed(F, C)
  /\ \A k \in 1..Len(s) - 1 : Called(F, H, s, k)

\* In do_sweep(): the positions that activation f of Memory M has not passed.
Ahead(f, M) ==
  CASE f.ph = "enter" -> 1..M.size
    [] f.ph = "scan" -> 1..f.i
    [] OTHER -> 1..f.i - 1

\* The memories that activation k is about to visit.
Faced(H, F, s, k) ==
  {m \in AllMem : \E j \in Ahead(s[k], F[MemAt(H, s, k)]) : Spot(H, F, MemAt(H, s, k), j, m)}
Facing(H, F, s) == {m \in AllMem : \E k \in 1..Len(s) : m \in Faced(H, F, s, k)}

\* The memories that an activation has called another one for.
InHand(H, F, s) ==
  {m \in AllMem : \E k \in 1..Len(s) : s[k].ph \in {"back", "drain"} /\ EntryMem(H, F, s, k) = m}

AtRoot(s) == s # <<>> /\ s[1].ph = "enter"

\* The memories that the sweep has not reached yet.
Waiting(H, F, s, C) == {m \in Owed(F, C) : m \notin InHand(H, F, s) /\ (m = RootMem => AtRoot(s))}

\* An activation has repainted its Memory, and the one it called its own.
Shaded(H, F, s, k) ==
  /\ s[k].ph # "enter" => F[MemAt(H, s, k)].color # "BLACK"
  /\ k = Len(s) /\ s[k].ph = "back" => F[EntryMem(H, F, s, k)].color # "BLACK"
  /\ s[k].ph = "drain" => F[EntryMem(H, F, s, k)].color = "WHITE"

Sweeping(H, F, s, C) ==
  /\ Reach(Waiting(H, F, s, C), Facing(H, F, s), Refs(H, F))
  /\ s # <<>> => s[1].h = Root
  /\ \A k \in 1..Len(s) : Shaded(H, F, s, k)

\* The Memory that is being drained.
Draining(H, F, s) ==
  {m \in AllMem : s # <<>> /\ s[Len(s)].ph = "drain" /\ EntryMem(H, F, s, Len(s)) = m}

\* What is condemned stays WHITE until it is deleted, and what has been drained
\* is condemned.
MemColors(F, C, D) ==
  \A m \in AllMem :
    /\ F[m].st = "unused" => F[m].color = "GRAY"
    /\ m \in C => F[m].st # "unused" /\ (F[m].st = "live" => F[m].color = "WHITE")
    /\ F[m].keep => m \in C \/ F[m].st # "live" \/ m \in D

\* The root list is WHITE only when the program ends.
RootColor ==
  /\ mem[RootMem].color = "WHITE" => heap[Root].deallocated
  /\ mem[RootMem].color = "BLACK" => pc = "mark" \/ (pc = "sweep" /\ AtRoot(stack))
  /\ pc = "run" => ~heap[Root].deallocated

Colors ==
  pc \notin {"fault", "exited"} =>
    /\ MemColors(mem, Condemned, Draining(heap, mem, stack)) /\ RootColor
    /\ pc \in {"run", "callback", "destroy"} => Owed(mem, Condemned) \subseteq {RootMem}
    /\ pc = "mark" => Marking(heap, mem, stack, Condemned)
    /\ pc = "sweep" => Sweeping(heap, mem, stack, Condemned)

----------------------------------------------------------------------------
(* Reaching.                                                               *)

LEMMA ReachLess ==
  ASSUME NEW W, NEW G, NEW R, Reach(W, G, R), NEW V, NEW K, NEW Q,
         V \subseteq W, \A m \in V \ {RootMem} : m \in G => m \in K,
         \A p \in W, m \in V \ {RootMem} :
           <<p, m>> \in R => m \in K \/ (p \in V /\ <<p, m>> \in Q)
  PROVE  Reach(V, K, Q)
<1> SUFFICES ASSUME NEW S \in SUBSET (V \ {RootMem}), S # {}
             PROVE  \E m \in S : m \in K \/ \E p \in V \ S : <<p, m>> \in Q
  BY DEF Reach
<1>1. S \in SUBSET (W \ {RootMem})
  OBVIOUS
<1>2. PICK m \in S : m \in G \/ \E p \in W \ S : <<p, m>> \in R
  BY <1>1 DEF Reach
<1>3. CASE m \in G
  BY <1>3
<1>4. CASE \E p \in W \ S : <<p, m>> \in R
  BY <1>4
<1> QED BY <1>2, <1>3, <1>4

\* One more that is reached from one that is there.
LEMMA ReachMore ==
  ASSUME NEW W, NEW G, NEW R, Reach(W, G, R), NEW x, x \notin W,
         NEW p, x = RootMem \/ (p \in W /\ <<p, x>> \in R)
  PROVE  Reach(W \cup {x}, G, R)
<1> SUFFICES ASSUME NEW S \in SUBSET ((W \cup {x}) \ {RootMem}), S # {}
             PROVE  \E m \in S : m \in G \/ \E q \in (W \cup {x}) \ S : <<q, m>> \in R
  BY DEF Reach
<1>1. CASE x \in S /\ p \notin S
  BY <1>1
<1>2. CASE S \ {x} # {} /\ (x \in S => p \in S)
  <2>1. S \ {x} \in SUBSET (W \ {RootMem})
    OBVIOUS
  <2>2. PICK m \in S \ {x} : m \in G \/ \E q \in W \ (S \ {x}) : <<q, m>> \in R
    BY <1>2, <2>1 DEF Reach
  <2>3. \A q \in W \ (S \ {x}) : q \in (W \cup {x}) \ S
    OBVIOUS
  <2> QED BY <2>2, <2>3
<1>3. x \in S => p # x
  OBVIOUS
<1> QED BY <1>1, <1>2, <1>3

\* What nothing leads to is empty.
LEMMA ReachNothing ==
  ASSUME NEW W, NEW R, Reach(W, {}, R), RootMem \notin W
  PROVE  W = {}
BY DEF Reach

\* The queues.
LEMMA DoomedAppend ==
  ASSUME NEW A \in Seq(Act)
  PROVE  Doomed(Append(A, [list |-> <<>>, mlist |-> <<>>])) = Doomed(A)
<1> DEFINE a == [list |-> <<>>, mlist |-> <<>>]
           B == Append(A, a)
<1>1. /\ Len(B) = Len(A) + 1 /\ Len(A) \in Nat /\ B[Len(A) + 1] = a
      /\ \A k \in 1..Len(A) : B[k] = A[k]
  OBVIOUS
<1>2. Queued(a) = {}
  BY DEF Queued
<1> HIDE DEF a, B
<1>3. \A k \in 1..Len(B) : k \in 1..Len(A) \/ k = Len(A) + 1
  BY <1>1
<1>4. \A k \in 1..Len(A) : k \in 1..Len(B)
  BY <1>1
<1>5. Doomed(B) = Doomed(A)
  BY <1>1, <1>2, <1>3, <1>4 DEF Doomed
<1> QED BY <1>5 DEF B, a

LEMMA DoomedInitially == Doomed(<<>>) = {}
BY DEF Doomed

\* The last activation changes its queue.
LEMMA DoomedLast ==
  ASSUME NEW A \in Seq(Act), A # <<>>, NEW a, NEW B, B = [A EXCEPT ![Len(A)] = a], NEW X
  PROVE  /\ Queued(A[Len(A)]) \subseteq Queued(a) \cup X => Doomed(A) \subseteq Doomed(B) \cup X
         /\ Queued(a) \subseteq Queued(A[Len(A)]) \cup X => Doomed(B) \subseteq Doomed(A) \cup X
<1>1. /\ Len(B) = Len(A) /\ Len(A) \in Nat /\ Len(A) \in 1..Len(A) /\ B[Len(A)] = a
      /\ \A k \in 1..Len(A) : k # Len(A) => B[k] = A[k]
  OBVIOUS
<1>2. ASSUME Queued(A[Len(A)]) \subseteq Queued(a) \cup X, NEW m \in Doomed(A)
      PROVE  m \in Doomed(B) \cup X
  <2>1. PICK k \in 1..Len(A) : m \in Queued(A[k])
    BY <1>2 DEF Doomed
  <2>2. m \in AllMem
    BY <1>2 DEF Doomed
  <2>3. CASE k = Len(A)
    BY <1>1, <1>2, <2>1, <2>2, <2>3 DEF Doomed
  <2>4. CASE k # Len(A)
    BY <1>1, <2>1, <2>2, <2>4 DEF Doomed
  <2> QED BY <2>3, <2>4
<1>3. ASSUME Queued(a) \subseteq Queued(A[Len(A)]) \cup X, NEW m \in Doomed(B)
      PROVE  m \in Doomed(A) \cup X
  <2>1. PICK k \in 1..Len(A) : m \in Queued(B[k])
    BY <1>1, <1>3 DEF Doomed
  <2>2. m \in AllMem
    BY <1>3 DEF Doomed
  <2>3. CASE k = Len(A)
    BY <1>1, <1>3, <2>1, <2>2, <2>3 DEF Doomed
  <2>4. CASE k # Len(A)
    BY <1>1, <2>1, <2>2, <2>4 DEF Doomed
  <2> QED BY <2>3, <2>4
<1> QED BY <1>2, <1>3

\* The last activation returns with an empty queue.
LEMMA DoomedFront ==
  ASSUME NEW A \in Seq(Act), A # <<>>, A[Len(A)].mlist = <<>>
  PROVE  Doomed(Front(A)) = Doomed(A)
<1>1. /\ Len(A) \in Nat /\ Len(Front(A)) = Len(A) - 1
      /\ \A k \in 1..Len(A) - 1 : Front(A)[k] = A[k]
  BY FrontFacts
<1>2. \A k \in 1..Len(A) : k \in 1..Len(A) - 1 \/ k = Len(A)
  BY <1>1
<1>3. \A k \in 1..Len(A) - 1 : k \in 1..Len(A)
  BY <1>1
<1>4. Queued(A[Len(A)]) = {}
  BY DEF Queued
<1> QED BY <1>1, <1>2, <1>3, <1>4 DEF Doomed

----------------------------------------------------------------------------
(* The client's calls.                                                     *)

SameColor(M, N) == N.st = M.st /\ N.color = M.color /\ N.keep = M.keep

\* A Memory keeps its colour or is new.
Plain(F) ==
  \A m \in AllMem :
    \/ SameColor(mem[m], F[m])
    \/ mem[m].st = "unused" /\ F[m].st = "live" /\ F[m].color = "GRAY" /\ F[m].keep = FALSE

\* collect() starts in the state that the client left, or does not.
Begins ==
  \/ UNCHANGED control
  \/ /\ pc' = "mark" /\ stack' = <<Frame(Root)>>
     /\ acts' = Append(acts, [list |-> <<>>, mlist |-> <<>>])

LEMMA ClientColors ==
  ASSUME Inductive, Colors, pc \in {"run", "callback"}, Plain(mem'), Begins,
         heap[Root].deallocated => heap'[Root].deallocated,
         pc' = "run" => heap'[Root].deallocated = heap[Root].deallocated
  PROVE  Colors'
<1>1. /\ stack = <<>> /\ acts \in Seq(Act) /\ mem[RootMem].st # "unused" /\ RootMem \in AllMem
      /\ \A m \in AllMem : mem[m].color \in {"WHITE", "GRAY", "BLACK"}
  BY DEF Inductive, GoodControl, GoodData, GoodMem, AllMem, Memory
<1>2. PICK D : D = Draining(heap, mem, stack)
  OBVIOUS
<1>3. D = {}
  BY <1>1, <1>2 DEF Draining
<1>4. /\ MemColors(mem, Condemned, D) /\ RootColor /\ Owed(mem, Condemned) \subseteq {RootMem}
  BY <1>2 DEF Colors
<1>5. Condemned' = Condemned
  BY <1>1, DoomedAppend DEF Condemned, Begins, control
<1>6. \/ pc' = pc /\ stack' = <<>>
      \/ pc' = "mark" /\ stack' = <<Frame(Root)>>
  BY <1>1 DEF Begins, control
<1>7. PICK s : s = stack'
  OBVIOUS
<1>8. s = <<>> \/ (Len(s) = 1 /\ s[1] = Frame(Root))
  BY <1>6, <1>7
<1>9. Draining(heap', mem', s) = {}
  <2>1. s = <<>> \/ s[Len(s)].ph = "enter"
    BY <1>8 DEF Frame
  <2> QED BY <2>1 DEF Draining
<1>10. PICK C : C = Condemned
  OBVIOUS
<1>11. Owed(mem', C) \subseteq {RootMem}
  BY <1>4, <1>10 DEF Owed, Plain, SameColor
<1>12. MemColors(mem', C, {})
  <2> SUFFICES ASSUME NEW m \in AllMem
               PROVE  /\ mem'[m].st = "unused" => mem'[m].color = "GRAY"
                      /\ m \in C => mem'[m].st # "unused" /\ (mem'[m].st = "live" => mem'[m].color = "WHITE")
                      /\ mem'[m].keep => m \in C \/ mem'[m].st # "live"
    BY DEF MemColors
  <2>1. /\ mem[m].st = "unused" => mem[m].color = "GRAY"
        /\ m \in C => mem[m].st # "unused" /\ (mem[m].st = "live" => mem[m].color = "WHITE")
        /\ mem[m].keep => m \in C \/ mem[m].st # "live"
    BY <1>3, <1>4, <1>10 DEF MemColors
  <2> QED BY <2>1 DEF Plain, SameColor
<1>13. RootColor'
  <2>1. mem'[RootMem].color = mem[RootMem].color
    BY <1>1 DEF Plain, SameColor
  <2> QED BY <1>4, <1>6, <2>1 DEF RootColor
<1>14. Marking(heap', mem', s, C) \/ s = <<>>
  <2>1. CASE s = <<>>
    BY <2>1
  <2>2. CASE Len(s) = 1 /\ s[1] = Frame(Root)
    <3>1. Reach(Owed(mem', C), {}, Refs(heap', mem'))
      BY <1>11 DEF Reach
    <3>2. s[1].h = Root /\ s[1].ph = "enter"
      BY <2>2 DEF Frame
    <3> QED BY <2>2, <3>1, <3>2 DEF Marking
  <2> QED BY <1>8, <2>1, <2>2
<1>15. pc' \in {"run", "callback", "mark"} /\ (pc' = "mark" => s # <<>>)
  BY <1>6, <1>7
<1> QED BY <1>5, <1>7, <1>9, <1>10, <1>11, <1>12, <1>13, <1>14, <1>15 DEF Colors

\* The vectors of a Memory change, but not its colour.
LEMMA SameVectorsPlain ==
  ASSUME Inductive, NEW F, NEW m \in AllMem, NEW N, F = Put(mem, m, N), SameButVectors(mem[m], N)
  PROVE  Plain(F)
<1>1. \A x \in AllMem : F[x] = IF x = m THEN N ELSE mem[x]
  BY DEF Put, Inductive, GoodData, GoodMem
<1> QED BY <1>1 DEF Plain, SameButVectors, SameColor

\* The vectors of two memories change, the second being the root list.
LEMMA TwoVectorsPlain ==
  ASSUME Inductive, NEW m \in Mem, NEW N, SameButVectors(mem[m], N),
         NEW U, SameButVectors(mem[RootMem], U), NEW F, F = [mem EXCEPT ![m] = N, ![RootMem] = U]
  PROVE  Plain(F)
<1>1. m \in AllMem /\ m # RootMem /\ RootMem \in AllMem /\ DOMAIN mem = AllMem
  BY DistinctIds DEF AllMem, Inductive, GoodData, GoodMem
<1>2. \A x \in AllMem : F[x] = IF x = RootMem THEN U ELSE IF x = m THEN N ELSE mem[x]
  BY <1>1
<1> QED BY <1>1, <1>2 DEF Plain, SameButVectors, SameColor

LEMMA NothingPlain ==
  ASSUME NEW F, F = mem
  PROVE  Plain(F)
BY DEF Plain, SameColor

LEMMA PushPlain ==
  ASSUME NEW M, M \in Memory, NEW p, NEW r
  PROVE  SameButVectors(M, PushEntry(M, p, r))
<1>1. PICK S, X : PushEntry(M, p, r) = [M EXCEPT !.slots = S, !.size = M.size + 1, !.indexes = X]
  BY DEF PushEntry
<1> QED BY <1>1 DEF SameButVectors, Memory

LEMMA NewColors ==
  ASSUME Inductive, Colors, NEW o \in Obj, New(o)
  PROVE  Colors'
<1>1. PICK h, m : h = Fresh(heap) /\ m = Fresh(mem)
  BY Zenon
<1>2. /\ m \in Mem /\ m \in AllMem /\ m # RootMem /\ mem[m].st = "unused"
      /\ h \in Heap /\ h # Root
  BY <1>1, MemFacts, FreshMem, FreshHeap, DistinctIds DEF New, GoodData, AllMem
<1>3. /\ mem' = [mem EXCEPT ![m] = NewMemory, ![RootMem] = PushEntry(@, h, TRUE)]
      /\ heap' = [heap EXCEPT ![h] = [st |-> "live", mem |-> m, deallocated |-> FALSE]]
      /\ UNCHANGED control /\ pc \in {"run", "callback"}
  BY <1>1 DEF New, ClientRuns
<1>4. PICK N : N = PushEntry(mem[RootMem], h, TRUE)
  BY Zenon
<1>5. SameButVectors(mem[RootMem], N)
  BY <1>4, MemFacts, PushPlain
<1>6. \A x \in AllMem : mem'[x] = IF x = RootMem THEN N ELSE IF x = m THEN NewMemory ELSE mem[x]
  BY <1>2, <1>3, <1>4, MemFacts
<1>7. Plain(mem')
  <2>1. NewMemory.st = "live" /\ NewMemory.color = "GRAY" /\ NewMemory.keep = FALSE
    BY DEF NewMemory, NoMemory
  <2>2. ASSUME NEW x \in AllMem, x # RootMem, x # m PROVE SameColor(mem[x], mem'[x])
    BY <1>6, <2>2 DEF SameColor
  <2>3. SameColor(mem[RootMem], mem'[RootMem])
    BY <1>5, <1>6, MemFacts DEF SameColor, SameButVectors
  <2>4. mem'[m] = NewMemory
    BY <1>2, <1>6
  <2> QED BY <1>2, <2>1, <2>2, <2>3, <2>4 DEF Plain
<1>8. heap'[Root] = heap[Root]
  BY <1>2, <1>3, MemFacts DEF GoodData, GoodHeap, AllHeap
<1> QED BY <1>3, <1>7, <1>8, ClientColors DEF Begins

\* dealloc() of a heap other than Root's.
LEMMA DeallocColors ==
  ASSUME Inductive, Colors, pc \in {"run", "callback"}, NEW h \in Heap, NEW H, NEW M,
         DOMAIN H = AllHeap, H[Root] = heap[Root], Plain(M), Dealloc(h, H, M)
  PROVE  Colors'
<1>1. mem' = M /\ (heap' = H \/ heap' = [H EXCEPT ![h].deallocated = TRUE])
  BY DEF Dealloc
<1>2. heap'[Root] = heap[Root]
  BY <1>1, DistinctIds DEF AllHeap
<1>3. BeginCollect(M) \/ UNCHANGED control
  BY DEF Dealloc
<1>4. Begins
  BY <1>3 DEF BeginCollect, Begins
<1> QED BY <1>1, <1>2, <1>4, ClientColors

LEMMA CopyColors ==
  ASSUME Inductive, Colors, NEW o \in Obj, NEW s \in Obj, Copy(o, s)
  PROVE  Colors'
<1>1. PICK h : h = Fresh(heap)
  BY Zenon
<1>2. h \in Heap /\ h # Root /\ pc \in {"run", "callback"} /\ UNCHANGED control
  BY <1>1, MemFacts, FreshHeap, DistinctIds DEF Copy, GoodData, ClientRuns
<1>3. /\ mem' = Put(mem, RootMem, PushEntry(mem[RootMem], h, TRUE))
      /\ heap' = [heap EXCEPT ![h] = heap[obj[s].heap]]
  BY <1>1 DEF Copy, Put
<1>4. Plain(mem')
  BY <1>3, MemFacts, PushPlain, SameVectorsPlain
<1>5. heap'[Root] = heap[Root]
  BY <1>2, <1>3, MemFacts DEF GoodData, GoodHeap, AllHeap
<1> QED BY <1>2, <1>4, <1>5, ClientColors DEF Begins

LEMMA AssignColors ==
  ASSUME Inductive, Colors, NEW o \in Obj, NEW s \in Obj, Assign(o, s)
  PROVE  Colors'
<1>1. PICK old, h, g : old = Fresh(heap) /\ h = obj[o].heap /\ g = obj[s].heap
  BY Zenon
<1>2. old \in Heap /\ h \in Heap /\ pc \in {"run", "callback"}
  BY <1>1, MemFacts, FreshHeap, UsableFacts DEF Assign, GoodData, ClientRuns
<1>3. PICK H, M : /\ H = [heap EXCEPT ![old] = heap[h], ![h] = heap[g]]
                  /\ M = Put(mem, RootMem, PushEntry(mem[RootMem], old, TRUE))
  BY Zenon
<1>4. Dealloc(old, H, M)
  BY <1>1, <1>3 DEF Assign, Put
<1>5. Plain(M)
  BY <1>3, MemFacts, PushPlain, SameVectorsPlain
<1>6. DOMAIN H = AllHeap /\ H[Root] = heap[Root]
  BY <1>2, <1>3, DistinctIds, MemFacts DEF GoodData, GoodHeap, AllHeap
<1> QED BY <1>2, <1>4, <1>5, <1>6, DeallocColors

LEMMA PushValueColors ==
  ASSUME Inductive, Colors, NEW o \in Obj, NEW p, PushValue(o, p)
  PROVE  Colors'
<1>1. PICK m : m = MemOf(o)
  BY Zenon
<1>2. /\ m \in AllMem /\ mem' = Put(mem, m, PushEntry(mem[m], p, FALSE))
      /\ heap' = heap /\ UNCHANGED control /\ pc \in {"run", "callback"}
  BY <1>1, MemFacts, UsableFacts DEF PushValue, Put, AllMem, ClientRuns
<1>3. Plain(mem')
  BY <1>2, MemFacts, PushPlain, SameVectorsPlain
<1> QED BY <1>2, <1>3, ClientColors DEF Begins

LEMMA ByRefColors ==
  ASSUME Inductive, Colors, NEW o \in Obj, NEW c \in Obj, ByRef(o, c)
  PROVE  Colors'
<1>1. PICK m, h, N, U : /\ m = MemOf(o) /\ h = obj[c].heap
                        /\ N = PushEntry(mem[m], h, TRUE) /\ U = Unroot(mem[RootMem], h)
  BY Zenon
<1>2. /\ m \in Mem /\ m \in AllMem /\ heap' = heap /\ UNCHANGED control
      /\ pc \in {"run", "callback"}
  BY <1>1, MemFacts, UsableFacts DEF ByRef, AllMem, ClientRuns
<1>3. mem' = [mem EXCEPT ![m] = N, ![RootMem] = U]
  BY <1>1, <1>2, DistinctIds DEF ByRef
<1>4. SameButVectors(mem[m], N) /\ SameButVectors(mem[RootMem], U)
  BY <1>1, <1>2, MemFacts, PushPlain, UnrootType
<1>5. Plain(mem')
  BY <1>2, <1>3, <1>4, TwoVectorsPlain
<1> QED BY <1>2, <1>5, ClientColors DEF Begins

LEMMA RerootColors ==
  ASSUME Inductive, Colors, NEW o \in Obj, NEW c \in Obj, NEW k \in 1..MaxEntries,
         Reroot(o, k, c)
  PROVE  Colors'
<1>1. PICK m, h, A, N, U : /\ m = MemOf(o) /\ h = obj[c].heap
                           /\ A = [mem[m] EXCEPT !.slots[k].ptr = c]
                           /\ N = PushEntry(A, h, TRUE) /\ U = Unroot(mem[RootMem], h)
  BY Zenon
<1>2. /\ m \in Mem /\ m \in AllMem /\ heap' = heap /\ UNCHANGED control
      /\ pc \in {"run", "callback"}
  BY <1>1, MemFacts, UsableFacts DEF Reroot, AllMem, ClientRuns
<1>3. mem' = [mem EXCEPT ![m] = N, ![RootMem] = U]
  BY <1>1, <1>2, DistinctIds DEF Reroot
<1>4. SameButVectors(mem[m], N)
  <2>1. mem[m] \in Memory
    BY <1>2, MemFacts
  <2>2. PICK S, X, n : N = [A EXCEPT !.slots = S, !.size = n, !.indexes = X]
    BY <1>1 DEF PushEntry
  <2>3. PICK T : A = [mem[m] EXCEPT !.slots = T]
    BY <1>1
  <2> QED BY <2>1, <2>2, <2>3 DEF SameButVectors, Memory
<1>5. SameButVectors(mem[RootMem], U)
  BY <1>1, MemFacts, UnrootType
<1>6. Plain(mem')
  BY <1>2, <1>3, <1>4, <1>5, TwoVectorsPlain
<1> QED BY <1>2, <1>6, ClientColors DEF Begins

LEMMA RerootValueColors ==
  ASSUME Inductive, Colors, NEW o \in Obj, NEW p \in Payload, NEW k \in 1..MaxEntries,
         RerootValue(o, k, p)
  PROVE  Colors'
<1>1. PICK m, N : m = MemOf(o) /\ N = [mem[m] EXCEPT !.slots[k].ptr = p]
  BY Zenon
<1>2. /\ m \in AllMem /\ heap' = heap /\ UNCHANGED control /\ pc \in {"run", "callback"}
  BY <1>1, MemFacts, UsableFacts DEF RerootValue, AllMem, ClientRuns
<1>3. mem' = Put(mem, m, N)
  BY <1>1 DEF RerootValue, Put
<1>4. SameButVectors(mem[m], N)
  BY <1>1, <1>2, MemFacts DEF SameButVectors, Memory
<1>5. Plain(mem')
  BY <1>2, <1>3, <1>4, SameVectorsPlain
<1> QED BY <1>2, <1>5, ClientColors DEF Begins

\* The calls that change no Memory.
LEMMA OtherClientColors ==
  ASSUME Inductive, Colors,
         \/ Collect \/ ClientFault
         \/ \E o \in Obj : ExplicitDealloc(o) \/ Destroy(o)
  PROVE  Colors'
<1>1. CASE Collect
  <2>1. mem' = mem /\ heap' = heap /\ BeginCollect(mem) /\ pc \in {"run", "callback"}
    BY <1>1 DEF Collect, ClientRuns
  <2>2. Begins
    BY <2>1 DEF BeginCollect, Begins
  <2> QED BY <2>1, <2>2, NothingPlain, ClientColors
<1>2. CASE ClientFault
  BY <1>2 DEF ClientFault, Colors
<1>3. ASSUME NEW o \in Obj, ExplicitDealloc(o) \/ Destroy(o)
      PROVE  Colors'
  <2>1. PICK h : h = obj[o].heap
    BY Zenon
  <2>2. Dealloc(h, heap, mem) /\ pc \in {"run", "callback"} /\ obj[o].st # "none"
    BY <1>3, <2>1 DEF ExplicitDealloc, Destroy, ClientRuns, Usable, Accessible
  <2>3. h \in Heap /\ DOMAIN heap = AllHeap
    BY <2>1, <2>2, ObjectTypes
  <2> QED BY <2>2, <2>3, NothingPlain, DeallocColors
<1> QED BY <1>1, <1>2, <1>3

\* The end of the program.
LEMMA ExitColors ==
  ASSUME Inductive, Colors, Exit
  PROVE  Colors'
<1>1. CASE mem[RootMem].size = 0
  <2>1. pc' = "exited"
    BY <1>1 DEF Exit
  <2> QED BY <2>1 DEF Colors
<1>2. CASE mem[RootMem].size # 0
  <2>1. /\ mem' = mem /\ heap' = [heap EXCEPT ![Root].deallocated = TRUE]
        /\ pc = "run" /\ BeginCollect(mem)
    BY <1>2 DEF Exit
  <2>2. Begins /\ pc' = "mark"
    BY <1>2, <2>1 DEF BeginCollect, Begins
  <2>3. heap'[Root].deallocated
    BY <2>1, ObjectTypes DEF AllHeap, HeapT
  <2> QED BY <2>1, <2>2, <2>3, NothingPlain, ClientColors
<1> QED BY <1>1, <1>2

----------------------------------------------------------------------------
(* mark().                                                                 *)

SameVectors2(F, G) == \A x \in AllMem : G[x].slots = F[x].slots /\ G[x].size = F[x].size

LEMMA RefsSame ==
  ASSUME NEW H, NEW F, NEW G, SameVectors2(F, G)
  PROVE  Refs(H, G) = Refs(H, F)
<1>1. \A r \in AllMem \X AllMem : r[1] \in AllMem
  OBVIOUS
<1> QED BY <1>1 DEF Refs, Spot, SameVectors2

LEMMA OwedSame ==
  ASSUME NEW F, NEW G, NEW C, \A x \in AllMem : G[x].st = F[x].st /\ G[x].color = F[x].color
  PROVE  Owed(G, C) = Owed(F, C)
BY DEF Owed

LEMMA MarkingFacts ==
  ASSUME Inductive, Colors, pc = "mark"
  PROVE  /\ MemColors(mem, Condemned, {}) /\ RootColor /\ Marking(heap, mem, stack, Condemned)
         /\ stack \in Seq(FrameT) /\ Len(stack) \in Nat
         /\ \A k \in 1..Len(stack) :
              /\ stack[k].ph \in {"enter", "scan"}
              /\ stack[k].ph = "scan" => MemAt(heap, stack, k) \in AllMem
<1>1. /\ stack \in Seq(FrameT) /\ Len(stack) \in Nat
      /\ \A k \in 1..Len(stack) :
           /\ stack[k].ph \in {"enter", "scan"}
           /\ stack[k].ph = "scan" => heap[stack[k].h].st # "unused"
  BY DEF Inductive, GoodControl, MarkFrames
<1>2. stack # <<>> => Len(stack) \in 1..Len(stack)
  BY <1>1
<1>3. Draining(heap, mem, stack) = {}
  BY <1>1, <1>2 DEF Draining
<1>4. \A k \in 1..Len(stack) : stack[k].ph = "scan" => MemAt(heap, stack, k) \in AllMem
  <2> SUFFICES ASSUME NEW k \in 1..Len(stack), stack[k].ph = "scan"
               PROVE  MemAt(heap, stack, k) \in AllMem
    OBVIOUS
  <2>1. stack[k].h \in AllHeap /\ heap[stack[k].h].st # "unused"
    <3>1. stack[k] \in FrameT
      BY <1>1
    <3> QED BY <1>1, <3>1 DEF FrameT
  <2>2. GoodHeap(heap)
    BY DEF Inductive, GoodData
  <2> QED BY <2>1, <2>2, HeapHasMem DEF MemAt
<1> QED BY <1>1, <1>3, <1>4 DEF Colors

LEMMA MarkJoin ==
  ASSUME Inductive', pc' = "mark", heap' = heap, acts' = acts,
         MemColors(mem', Condemned, {}), RootColor', Marking(heap, mem', stack', Condemned)
  PROVE  Colors'
<1>1. PICK s : s = stack'
  OBVIOUS
<1>2. s \in Seq(FrameT) /\ \A k \in 1..Len(s) : s[k].ph \in {"enter", "scan"}
  BY <1>1 DEF Inductive, GoodControl, MarkFrames
<1>3. Draining(heap, mem', s) = {}
  <2>1. s # <<>> => Len(s) \in 1..Len(s)
    BY <1>2
  <2> QED BY <1>2, <2>1 DEF Draining
<1>4. Condemned' = Condemned
  BY DEF Condemned
<1> QED BY <1>1, <1>3, <1>4 DEF Colors

\* What a step of mark() that paints nothing and touches no vector keeps.
LEMMA MarkOn ==
  ASSUME Inductive, Colors, pc = "mark", NEW F, SameVectors2(mem, F),
         \A x \in AllMem : F[x].st = mem[x].st /\ F[x].color = mem[x].color,
         \A x \in AllMem : F[x].keep => mem[x].keep
  PROVE  /\ MemColors(F, Condemned, {}) /\ Owed(F, Condemned) = Owed(mem, Condemned)
         /\ Refs(heap, F) = Refs(heap, mem)
<1>1. MemColors(F, Condemned, {})
  BY MarkingFacts DEF MemColors
<1> QED BY <1>1, RefsSame, OwedSame

LEMMA MarkEnterColors ==
  ASSUME Inductive, Inductive', Colors, MarkEnter
  PROVE  Colors'
<1> DEFINE C == Condemned
           n == Len(stack)
<1>1. /\ pc = "mark" /\ pc' = "mark" /\ stack # <<>> /\ Top.ph = "enter"
      /\ heap' = heap /\ acts' = acts /\ heap[Top.h].st = "live" /\ mem[TopMem].st = "live"
  BY DEF MarkEnter, AtFrame, HeapOk, TopMem
<1>2. /\ stack \in Seq(FrameT) /\ n \in Nat /\ n >= 1 /\ Top = stack[n] /\ Top.h \in AllHeap
  BY <1>1, TopFacts DEF Inductive, GoodControl
<1>3. PICK m : m = TopMem
  BY Zenon
<1>4. m \in AllMem /\ mem[m] \in Memory
  BY <1>1, <1>2, <1>3, HeapHasMem, MemFacts DEF GoodData, TopMem
<1>5. /\ MemColors(mem, C, {}) /\ RootColor /\ Marking(heap, mem, stack, C)
      /\ \A k \in 1..n : stack[k].ph = "scan" => MemAt(heap, stack, k) \in AllMem
  BY <1>1, MarkingFacts
<1>6. CASE mem[m].color # "GRAY"
  <2>1. PICK N : N = [mem[m] EXCEPT !.keep = FALSE]
    BY Zenon
  <2>2. mem' = Put(mem, m, N) /\ stack' = Pop
    BY <1>3, <1>6, <2>1 DEF MarkEnter, Put
  <2>3. \A x \in AllMem : mem'[x] = IF x = m THEN N ELSE mem[x]
    BY <2>2, MemFacts DEF Put
  <2>4. N.slots = mem[m].slots /\ N.size = mem[m].size /\ N.st = mem[m].st /\ N.color = mem[m].color
        /\ N.keep = FALSE
    BY <1>4, <2>1 DEF Memory
  <2>5. /\ SameVectors2(mem, mem')
        /\ \A x \in AllMem : mem'[x].st = mem[x].st /\ mem'[x].color = mem[x].color
        /\ \A x \in AllMem : mem'[x].keep => mem[x].keep
    BY <2>3, <2>4 DEF SameVectors2
  <2>6. /\ MemColors(mem', C, {}) /\ Owed(mem', C) = Owed(mem, C) /\ Refs(heap, mem') = Refs(heap, mem)
    BY <1>1, <2>5, MarkOn
  <2>7. PICK s : s = stack'
    OBVIOUS
  <2>8. /\ Len(s) = n - 1 /\ \A k \in 1..n - 1 : s[k] = stack[k]
    BY <1>1, <1>2, <2>2, <2>7, PopFacts
  <2>9. \A k \in 1..Len(s) - 1 : Called(mem', heap, s, k)
    <3> SUFFICES ASSUME NEW k \in 1..Len(s) - 1 PROVE Called(mem', heap, s, k)
      OBVIOUS
    <3>1. k \in 1..n - 1 /\ k + 1 \in 1..n - 1 /\ k \in 1..n
      BY <1>2, <2>8
    <3>2. Called(mem, heap, stack, k) /\ MemAt(heap, stack, k) \in AllMem
      BY <1>5, <3>1 DEF Marking, Called
    <3>3. s[k] = stack[k] /\ s[k + 1] = stack[k + 1]
      BY <2>8, <3>1
    <3> QED BY <2>5, <3>2, <3>3 DEF Called, MemAt, SameVectors2
  <2>10. \A k \in 1..Len(s) : s[k].ph = "scan" => MemAt(heap, s, k) \in Owed(mem', C)
    BY <1>2, <1>5, <2>6, <2>8 DEF Marking, MemAt
  <2>11. s # <<>> => s[1].h = Root
    <3>1. s # <<>> => 1 \in 1..n - 1
      BY <1>1, <1>2, <2>2, <2>7, <2>8, PopFacts
    <3> QED BY <1>1, <1>5, <2>8, <3>1 DEF Marking
  <2>12. Marking(heap, mem', s, C)
    BY <1>5, <2>6, <2>9, <2>10, <2>11 DEF Marking
  <2>13. RootColor'
    <3>1. RootMem \in AllMem
      BY DEF AllMem
    <3> QED BY <1>1, <1>5, <2>5, <3>1 DEF RootColor
  <2> QED BY <1>1, <2>6, <2>7, <2>12, <2>13, MarkJoin
<1>7. CASE mem[m].color = "GRAY"
  <2>1. PICK N, c : c = MarkColor(Top.h) /\ N = [mem[m] EXCEPT !.keep = FALSE, !.color = c]
    BY Zenon
  <2>2. mem' = Put(mem, m, N) /\ stack' = Goto("scan", 1)
    BY <1>3, <1>4, <1>7, <2>1, MemFacts DEF MarkEnter, Put, Memory
  <2>3. \A x \in AllMem : mem'[x] = IF x = m THEN N ELSE mem[x]
    BY <2>2, MemFacts DEF Put
  <2>4. /\ N.slots = mem[m].slots /\ N.size = mem[m].size /\ N.st = "live" /\ N.color = c
        /\ N.keep = FALSE
    BY <1>1, <1>3, <1>4, <2>1 DEF Memory
  <2>5. c \in {"WHITE", "BLACK"} /\ (c = "WHITE" => heap[Top.h].deallocated)
    BY <2>1 DEF MarkColor
  <2>6. SameVectors2(mem, mem')
    BY <2>3, <2>4 DEF SameVectors2
  <2>7. Refs(heap, mem') = Refs(heap, mem)
    BY <2>6, RefsSame
  <2>8. m \notin C
    BY <1>1, <1>3, <1>4, <1>5, <1>7 DEF MemColors
  <2>9. Owed(mem', C) = Owed(mem, C) \cup {m} /\ m \notin Owed(mem, C)
    BY <1>4, <1>7, <2>3, <2>4, <2>5, <2>8 DEF Owed
  <2>10. PICK s : s = stack'
    OBVIOUS
  <2>11. /\ Len(s) = n /\ \A k \in 1..n - 1 : s[k] = stack[k]
         /\ s[n] = [h |-> Top.h, ph |-> "scan", i |-> 1]
    <3>1. 1 \in Nat /\ "scan" \in {"enter", "scan", "back", "drain"}
      OBVIOUS
    <3>2. stack \in Seq(FrameT) /\ stack # <<>>
      BY <1>1, <1>2, Zenon
    <3>3. /\ Len(Goto("scan", 1)) = n /\ \A k \in 1..n - 1 : Goto("scan", 1)[k] = stack[k]
          /\ Goto("scan", 1)[n] = [h |-> Top.h, ph |-> "scan", i |-> 1]
      BY <3>1, <3>2, GotoFacts, Zenon
    <3>4. s = Goto("scan", 1)
      BY <2>2, <2>10, Zenon
    <3> QED BY <3>3, <3>4, Zenon
  <2>12. \A k \in 1..n : s[k].h = stack[k].h
    BY <1>2, <2>11
  <2>13. PICK p : m = RootMem \/ (p \in Owed(mem, C) /\ <<p, m>> \in Refs(heap, mem))
    <3>1. CASE n = 1
      <4>1. m = RootMem
        BY <1>1, <1>2, <1>3, <1>5, <3>1 DEF Marking, TopMem, Inductive, GoodData, GoodHeap
      <4> QED BY <4>1
    <3>2. CASE n # 1
      <4>1. n - 1 \in 1..n - 1 /\ n - 1 \in 1..n
        <5>1. \A k \in Nat : k >= 1 /\ k # 1 => k - 1 \in 1..k - 1 /\ k - 1 \in 1..k
          OBVIOUS
        <5> QED BY <1>2, <3>2, <5>1
      <4>2. PICK q : q = MemAt(heap, stack, n - 1)
        BY Zenon
      <4>3. Called(mem, heap, stack, n - 1) /\ q \in Owed(mem, C)
        BY <1>5, <4>1, <4>2 DEF Marking, Called
      <4>4. (n - 1) + 1 = n
        BY <1>2
      <4>5. PICK j : j = stack[n - 1].i - 1
        BY Zenon
      <4>6. /\ j \in 1..mem[q].size /\ IsHeapRef(mem[q].slots[j])
            /\ mem[q].slots[j].ptr = stack[n].h
        BY <4>2, <4>3, <4>4, <4>5 DEF Called
      <4>7. Spot(heap, mem, q, j, m)
        BY <1>2, <1>3, <4>6 DEF Spot, TopMem
      <4>8. <<q, m>> \in Refs(heap, mem)
        BY <1>4, <4>3, <4>6, <4>7 DEF Refs, Owed
      <4> QED BY <4>3, <4>8
    <3> QED BY <3>1, <3>2
  <2>14. Reach(Owed(mem', C), {}, Refs(heap, mem'))
    <3>1. Reach(Owed(mem, C), {}, Refs(heap, mem))
      BY <1>5 DEF Marking
    <3> QED BY <2>7, <2>9, <2>13, <3>1, ReachMore
  <2>15. \A k \in 1..n - 1 : Called(mem', heap, s, k)
    <3> SUFFICES ASSUME NEW k \in 1..n - 1 PROVE Called(mem', heap, s, k)
      OBVIOUS
    <3>1. k \in 1..n /\ k + 1 \in 1..n
      BY <1>2
    <3>2. Called(mem, heap, stack, k) /\ MemAt(heap, stack, k) \in AllMem
      BY <1>5, <3>1 DEF Marking, Called
    <3>3. s[k] = stack[k] /\ s[k + 1].h = stack[k + 1].h
      BY <2>11, <2>12, <3>1
    <3> QED BY <2>6, <3>2, <3>3 DEF Called, MemAt, SameVectors2
  <2>16. \A k \in 1..n : s[k].ph = "scan" => MemAt(heap, s, k) \in Owed(mem', C)
    <3>1. MemAt(heap, s, n) = m
      BY <1>2, <1>3, <2>11 DEF MemAt, TopMem
    <3>2. \A k \in 1..n - 1 : s[k].ph = "scan" => MemAt(heap, s, k) \in Owed(mem', C)
      BY <1>2, <1>5, <2>9, <2>11 DEF Marking, MemAt
    <3>3. \A k \in 1..n : k \in 1..n - 1 \/ k = n
      BY <1>2
    <3> QED BY <2>9, <3>1, <3>2, <3>3
  <2>17. s[1].h = Root
    BY <1>1, <1>2, <1>5, <2>12 DEF Marking
  <2>18. Marking(heap, mem', s, C)
    BY <2>11, <2>14, <2>15, <2>16, <2>17 DEF Marking
  <2>19. MemColors(mem', C, {})
    BY <1>5, <2>3, <2>4, <2>8 DEF MemColors
  <2>20. RootColor'
    <3>1. RootMem \in AllMem
      BY DEF AllMem
    <3>2. m = RootMem => Top.h = Root
      <4>1. Top.h \in Heap => m \in Mem
        BY <1>1, <1>3, MemFacts DEF TopMem, GoodData, GoodHeap
      <4> QED BY <1>2, <4>1, DistinctIds DEF AllHeap
    <3> QED BY <1>1, <1>5, <2>3, <2>4, <2>5, <3>1, <3>2 DEF RootColor
  <2> QED BY <1>1, <2>10, <2>18, <2>19, <2>20, MarkJoin
<1> QED BY <1>6, <1>7

LEMMA MarkScanColors ==
  ASSUME Inductive, Inductive', Colors, MarkScan
  PROVE  Colors'
<1> DEFINE C == Condemned
           n == Len(stack)
<1>1. /\ pc = "mark" /\ pc' = "mark" /\ stack # <<>> /\ Top.ph = "scan"
      /\ heap' = heap /\ acts' = acts /\ mem' = mem
  BY DEF MarkScan, AtFrame
<1>2. /\ stack \in Seq(FrameT) /\ n \in Nat /\ n >= 1 /\ Top = stack[n] /\ Top.h \in AllHeap
      /\ Top.i \in Nat
  BY <1>1, TopFacts DEF Inductive, GoodControl
<1>3. PICK m, e : m = TopMem /\ e = mem[TopMem].slots[Top.i]
  BY Zenon
<1>4. /\ MemColors(mem, C, {}) /\ RootColor /\ Marking(heap, mem, stack, C)
  BY <1>1, MarkingFacts
<1>5. n \in 1..n
  BY <1>2
<1>6. m \in Owed(mem, C) /\ m \in AllMem
  BY <1>1, <1>2, <1>3, <1>4, <1>5 DEF Marking, MemAt, TopMem, Owed
<1>7. Top.i >= 1
  BY <1>1, <1>2, <1>5 DEF Inductive, MarkFrames
<1>8. PICK s : s = stack'
  OBVIOUS
<1>9. \A k \in 1..n - 1 : k \in 1..n /\ k + 1 \in 1..n
  BY <1>2
<1>10. ASSUME Marking(heap, mem, s, C)
       PROVE  Colors'
  <2>1. RootColor'
    BY <1>1, <1>4 DEF RootColor
  <2> QED BY <1>1, <1>4, <1>8, <1>10, <2>1, MarkJoin
<1>11. CASE Top.i > mem[m].size
  <2>1. s = Pop
    BY <1>3, <1>8, <1>11 DEF MarkScan
  <2>2. Len(s) = n - 1 /\ \A k \in 1..n - 1 : s[k] = stack[k]
    BY <1>1, <1>2, <2>1, PopFacts
  <2>3. \A k \in 1..Len(s) - 1 : Called(mem, heap, s, k)
    <3> SUFFICES ASSUME NEW k \in 1..Len(s) - 1 PROVE Called(mem, heap, s, k)
      OBVIOUS
    <3>1. k \in 1..n - 1 /\ k + 1 \in 1..n - 1
      BY <1>2, <2>2
    <3> QED BY <1>4, <2>2, <3>1 DEF Marking, Called, MemAt
  <2>4. s # <<>> => 1 \in 1..n - 1
    BY <1>1, <1>2, <2>1, <2>2, PopFacts
  <2>5. \A k \in 1..Len(s) : s[k].ph = "scan" => MemAt(heap, s, k) \in Owed(mem, C)
    BY <1>4, <1>9, <2>2 DEF Marking, MemAt
  <2> QED BY <1>1, <1>4, <1>10, <2>2, <2>3, <2>4, <2>5 DEF Marking
<1>12. CASE ~(Top.i > mem[m].size) /\ IsHeapRef(e)
  <2>1. s = Append(Goto("scan", Top.i + 1), Frame(e.ptr))
    BY <1>3, <1>8, <1>12 DEF MarkScan
  <2>2. Top.i \in 1..mem[m].size /\ mem[m].size \in Nat
    BY <1>2, <1>6, <1>7, <1>12, MemFacts DEF Sized, Memory
  <2>3. e \in Entry
    <3>1. Sized(mem[m])
      BY <1>6, MemFacts
    <3> QED BY <1>3, <2>2, <3>1, SizedFacts
  <2>4. e.ptr \in AllHeap
    BY <1>12, <2>3 DEF Entry, IsHeapRef, AllHeap
  <2>5. /\ Len(s) = n + 1 /\ \A k \in 1..n - 1 : s[k] = stack[k]
        /\ s[n] = [h |-> Top.h, ph |-> "scan", i |-> Top.i + 1] /\ s[n + 1] = Frame(e.ptr)
    <3>1. Top.i + 1 \in Nat
      BY <1>2
    <3>2. PICK h, i : h = e.ptr /\ i = Top.i + 1
      OBVIOUS
    <3> DEFINE u == Append(Goto("scan", i), Frame(h))
    <3>3. h \in AllHeap /\ i \in Nat /\ stack \in Seq(FrameT) /\ stack # <<>>
      BY <1>1, <1>2, <2>4, <3>1, <3>2, Zenon
    <3>4. /\ Len(u) = n + 1 /\ \A k \in 1..n - 1 : u[k] = stack[k]
          /\ u[n] = [h |-> Top.h, ph |-> "scan", i |-> i] /\ u[n + 1] = Frame(h)
      BY <3>3, CallFacts
    <3>5. s = u
      BY <2>1, <3>2, Zenon
    <3> HIDE DEF u
    <3> QED BY <3>2, <3>4, <3>5, Zenon
  <2>6. \A k \in 1..n : s[k].h = stack[k].h
    BY <1>2, <2>5
  <2>7. \A k \in 1..n - 1 : Called(mem, heap, s, k)
    BY <1>4, <1>9, <2>5, <2>6 DEF Marking, Called, MemAt
  <2>8. Called(mem, heap, s, n)
    <3>1. MemAt(heap, s, n) = m
      BY <1>2, <1>3, <1>5, <2>6, Zenon DEF MemAt, TopMem
    <3>2. s[n].ph = "scan" /\ s[n].i - 1 = Top.i /\ s[n + 1].h = e.ptr
      <4>1. PICK f, g : f = s[n] /\ g = s[n + 1]
        BY Zenon
      <4>2. f = [h |-> Top.h, ph |-> "scan", i |-> Top.i + 1] /\ g = Frame(e.ptr)
        BY <2>5, <4>1, Zenon
      <4>3. f.ph = "scan" /\ f.i = Top.i + 1 /\ g.h = e.ptr
        BY <4>2 DEF Frame
      <4> QED BY <1>2, <4>1, <4>3
    <3>3. PICK M : M = mem[m]
      BY Zenon
    <3>4. /\ Top.i \in 1..M.size /\ IsHeapRef(M.slots[Top.i])
          /\ M.slots[Top.i].ptr = s[n + 1].h
      BY <1>3, <1>12, <2>2, <3>2, <3>3
    <3> QED BY <3>1, <3>2, <3>3, <3>4, Zenon DEF Called
  <2>9. \A k \in 1..Len(s) - 1 : Called(mem, heap, s, k)
    <3>1. \A k \in 1..Len(s) - 1 : k \in 1..n - 1 \/ k = n
      BY <1>2, <2>5
    <3> QED BY <2>7, <2>8, <3>1
  <2>10. \A k \in 1..Len(s) : s[k].ph = "scan" => MemAt(heap, s, k) \in Owed(mem, C)
    <3>1. \A k \in 1..Len(s) : k \in 1..n - 1 \/ k = n \/ k = n + 1
      BY <1>2, <2>5
    <3>2. s[n + 1].ph # "scan"
      BY <2>5 DEF Frame
    <3>3. MemAt(heap, s, n) = m
      BY <1>2, <1>3, <1>5, <2>6, Zenon DEF MemAt, TopMem
    <3>4. \A k \in 1..n - 1 : s[k].ph = "scan" => MemAt(heap, s, k) \in Owed(mem, C)
      BY <1>4, <1>9, <2>5 DEF Marking, MemAt
    <3> QED BY <1>6, <3>1, <3>2, <3>3, <3>4, Zenon
  <2>11. s[1].h = Root
    BY <1>1, <1>2, <1>4, <2>6 DEF Marking
  <2> QED BY <1>4, <1>10, <2>9, <2>10, <2>11 DEF Marking
<1>13. CASE ~(Top.i > mem[m].size) /\ ~IsHeapRef(e)
  <2>1. s = Goto("scan", Top.i + 1)
    BY <1>3, <1>8, <1>13 DEF MarkScan
  <2>2. /\ Len(s) = n /\ \A k \in 1..n - 1 : s[k] = stack[k]
        /\ s[n] = [h |-> Top.h, ph |-> "scan", i |-> Top.i + 1]
    <3>1. Top.i + 1 \in Nat
      BY <1>2
    <3> QED BY <1>1, <1>2, <2>1, <3>1, GotoFacts
  <2>3. \A k \in 1..n : s[k].h = stack[k].h
    BY <1>2, <2>2
  <2>4. \A k \in 1..Len(s) - 1 : Called(mem, heap, s, k)
    BY <1>4, <1>9, <2>2, <2>3 DEF Marking, Called, MemAt
  <2>5. \A k \in 1..Len(s) : s[k].ph = "scan" => MemAt(heap, s, k) \in Owed(mem, C)
    <3>1. \A k \in 1..Len(s) : k \in 1..n - 1 \/ k = n
      BY <1>2, <2>2
    <3>2. MemAt(heap, s, n) = m
      BY <1>2, <1>3, <2>2 DEF MemAt, TopMem
    <3>3. \A k \in 1..n - 1 : s[k].ph = "scan" => MemAt(heap, s, k) \in Owed(mem, C)
      BY <1>4, <1>9, <2>2 DEF Marking, MemAt
    <3> QED BY <1>6, <3>1, <3>2, <3>3
  <2>6. s[1].h = Root
    BY <1>1, <1>2, <1>4, <2>3 DEF Marking
  <2> QED BY <1>4, <1>10, <2>4, <2>5, <2>6 DEF Marking
<1> QED BY <1>11, <1>12, <1>13

\* do_sweep() starts at the root list: all that is painted waits for it.
LEMMA MarkDoneColors ==
  ASSUME Inductive, Colors, MarkDone
  PROVE  Colors'
<1> DEFINE C == Condemned
<1>1. /\ pc = "mark" /\ pc' = "sweep" /\ heap' = heap /\ mem' = mem /\ acts' = acts
      /\ stack' = <<Frame(Root)>>
  BY DEF MarkDone
<1>2. PICK s : s = stack'
  OBVIOUS
<1>3. Len(s) = 1 /\ s[1].h = Root /\ s[1].ph = "enter" /\ s # <<>>
  BY <1>1, <1>2 DEF Frame
<1>4. MemColors(mem, C, {}) /\ RootColor /\ Marking(heap, mem, stack, C)
  BY <1>1, MarkingFacts
<1>5. Draining(heap, mem, s) = {} /\ InHand(heap, mem, s) = {}
  BY <1>3 DEF Draining, InHand
<1>6. Waiting(heap, mem, s, C) = Owed(mem, C)
  BY <1>3, <1>5 DEF Waiting, AtRoot, Owed
<1>7. Reach(Owed(mem, C), Facing(heap, mem, s), Refs(heap, mem))
  BY <1>4 DEF Marking, Reach
<1>8. Sweeping(heap, mem, s, C)
  BY <1>3, <1>6, <1>7 DEF Sweeping, Shaded
<1>9. RootColor'
  BY <1>1, <1>2, <1>3, <1>4 DEF RootColor, AtRoot
<1>10. Condemned' = C
  BY <1>1 DEF Condemned
<1> QED BY <1>1, <1>2, <1>4, <1>5, <1>8, <1>9, <1>10 DEF Colors

----------------------------------------------------------------------------
(* do_sweep().                                                             *)

Sweeps == Inductive /\ Colors /\ pc = "sweep" /\ stack # <<>>

LEMMA SweepColorFacts ==
  ASSUME Sweeps
  PROVE  /\ MemColors(mem, Condemned, Draining(heap, mem, stack)) /\ RootColor
         /\ Sweeping(heap, mem, stack, Condemned)
         /\ stack \in Seq(FrameT) /\ Len(stack) \in Nat /\ Len(stack) >= 1
         /\ Top = stack[Len(stack)] /\ Top.i \in Nat /\ Top.h \in AllHeap
         /\ stack[1].h = Root /\ heap[Root].mem = RootMem
         /\ \A k \in 1..Len(stack) - 1 :
              /\ stack[k].ph = "back" /\ MemAt(heap, stack, k) \in AllMem
              /\ stack[k].i \in 1..mem[MemAt(heap, stack, k)].size
              /\ EntryMem(heap, mem, stack, k) = MemAt(heap, stack, k + 1)
         /\ MemAt(heap, stack, Len(stack)) = TopMem
         /\ EntryMem(heap, mem, stack, Len(stack)) = RefMem
<1>1. pc = "sweep" /\ Inductive /\ stack # <<>> /\ Colors
  BY DEF Sweeps
<1>2. /\ GoodData /\ GoodHeap(heap) /\ GoodMem(mem) /\ GoodControl
      /\ stack \in Seq(FrameT) /\ Len(stack) \in Nat /\ Len(stack) >= 1
      /\ Top = stack[Len(stack)] /\ Top.h \in AllHeap /\ Top.i \in Nat
      /\ \A k \in 1..Len(stack) - 1 : Outer(stack, mem, k)
  BY <1>1, SweepFacts
<1>3. Sweeping(heap, mem, stack, Condemned)
  BY <1>1 DEF Colors
<1>4. \A k \in 1..Len(stack) - 1 : MemAt(heap, stack, k) \in AllMem
  BY <1>1, OuterMem DEF MemAt
<1>5. ASSUME NEW k \in 1..Len(stack) - 1
      PROVE  /\ stack[k].ph = "back"
             /\ stack[k].i \in 1..mem[MemAt(heap, stack, k)].size
             /\ EntryMem(heap, mem, stack, k) = MemAt(heap, stack, k + 1)
  <2>1. Outer(stack, mem, k)
    BY <1>2, <1>5
  <2>2. k \in 1..Len(stack)
    BY <1>2
  <2>3. stack[k] \in FrameT
    BY <1>2, <2>2
  <2>4. mem[MemAt(heap, stack, k)].size \in Nat
    BY <1>1, <1>4, MemFacts, SizedFacts
  <2>5. stack[k].i \in Nat
    BY <2>3 DEF FrameT
  <2>6. stack[k].ph = "back" /\ stack[k].i >= 1 /\ stack[k].i <= mem[MemAt(heap, stack, k)].size
    BY <2>1 DEF Outer, MemAt
  <2>7. mem[MemAt(heap, stack, k)].slots[stack[k].i].ptr = stack[k + 1].h
    BY <2>1 DEF Outer, MemAt
  <2>8. EntryMem(heap, mem, stack, k) = MemAt(heap, stack, k + 1)
    BY <2>7 DEF EntryMem, MemAt
  <2> QED BY <2>4, <2>5, <2>6, <2>8
<1>6. /\ MemAt(heap, stack, Len(stack)) = TopMem
      /\ EntryMem(heap, mem, stack, Len(stack)) = RefMem
  BY <1>2 DEF MemAt, TopMem, EntryMem, RefMem, TopEntry
<1>7. stack[1].h = Root /\ heap[Root].mem = RootMem
  BY <1>1, <1>2, <1>3 DEF Sweeping, GoodHeap
<1>8. MemColors(mem, Condemned, Draining(heap, mem, stack)) /\ RootColor
  BY <1>1 DEF Colors
<1> QED BY <1>2, <1>3, <1>4, <1>5, <1>6, <1>7, <1>8

\* What an activation iterates is not waiting: it is the root list, or another
\* activation called this one for it.
LEMMA IteratedNotWaiting ==
  ASSUME Sweeps, NEW k \in 1..Len(stack), stack[k].ph # "enter"
  PROVE  MemAt(heap, stack, k) \notin Waiting(heap, mem, stack, Condemned)
<1>1. CASE k = 1
  <2>1. MemAt(heap, stack, k) = RootMem /\ ~AtRoot(stack)
    BY <1>1, SweepColorFacts DEF MemAt, AtRoot
  <2> QED BY <2>1 DEF Waiting
<1>2. CASE k # 1
  <2>1. k - 1 \in 1..Len(stack) - 1 /\ k - 1 \in 1..Len(stack) /\ (k - 1) + 1 = k
    BY <1>2, SweepColorFacts
  <2>2. EntryMem(heap, mem, stack, k - 1) = MemAt(heap, stack, k) /\ stack[k - 1].ph = "back"
    BY <2>1, SweepColorFacts
  <2>3. MemAt(heap, stack, k) \in AllMem => MemAt(heap, stack, k) \in InHand(heap, mem, stack)
    BY <2>1, <2>2 DEF InHand
  <2> QED BY <2>3 DEF Waiting, Owed
<1> QED BY <1>1, <1>2

\* The outer activations have in hand what they had.
Kept(G, t) ==
  \A k \in 1..Len(stack) - 1 :
    /\ t[k] = stack[k]
    /\ G[MemAt(heap, stack, k)].slots = mem[MemAt(heap, stack, k)].slots
    /\ G[MemAt(heap, stack, k)].size = mem[MemAt(heap, stack, k)].size

LEMMA KeptFaces ==
  ASSUME NEW G, NEW t, Kept(G, t), NEW k \in 1..Len(stack) - 1
  PROVE  /\ MemAt(heap, t, k) = MemAt(heap, stack, k)
         /\ EntryMem(heap, G, t, k) = EntryMem(heap, mem, stack, k)
         /\ Faced(heap, G, t, k) = Faced(heap, mem, stack, k)
<1>1. PICK p : p = MemAt(heap, stack, k)
  BY Zenon
<1>2. t[k] = stack[k] /\ G[p].slots = mem[p].slots /\ G[p].size = mem[p].size
  BY <1>1 DEF Kept
<1>3. MemAt(heap, t, k) = p
  BY <1>1, <1>2 DEF MemAt
<1>4. EntryMem(heap, G, t, k) = EntryMem(heap, mem, stack, k)
  BY <1>1, <1>2, <1>3 DEF EntryMem
<1>5. Ahead(t[k], G[p]) = Ahead(stack[k], mem[p])
  BY <1>2 DEF Ahead
<1>6. Faced(heap, G, t, k) = Faced(heap, mem, stack, k)
  BY <1>1, <1>2, <1>3, <1>5 DEF Faced, Spot
<1> QED BY <1>1, <1>3, <1>4, <1>6

\* A step of do_sweep() cuts nothing off that waits.
LEMMA SweepReach ==
  ASSUME Sweeps, NEW G, NEW t, NEW V, Kept(G, t), Len(t) \in Nat, Len(t) >= Len(stack) - 1,
         V \subseteq Waiting(heap, mem, stack, Condemned),
         \A m \in V \ {RootMem} : m \in Faced(heap, mem, stack, Len(stack)) => m \in Facing(heap, G, t),
         \A p \in Waiting(heap, mem, stack, Condemned) :
           \/ p \in V /\ G[p].slots = mem[p].slots /\ G[p].size = mem[p].size
           \/ \A j \in 1..mem[p].size, m \in V \ {RootMem} :
                Spot(heap, mem, p, j, m) => m \in Facing(heap, G, t)
  PROVE  Reach(V, Facing(heap, G, t), Refs(heap, G))
<1> DEFINE W == Waiting(heap, mem, stack, Condemned)
<1>1. Reach(W, Facing(heap, mem, stack), Refs(heap, mem))
  BY SweepColorFacts DEF Sweeping
<1>2. W \subseteq AllMem
  BY DEF Waiting, Owed
<1>3. ASSUME NEW m \in V \ {RootMem}, m \in Facing(heap, mem, stack)
      PROVE  m \in Facing(heap, G, t)
  <2>1. PICK k \in 1..Len(stack) : m \in Faced(heap, mem, stack, k)
    BY <1>3 DEF Facing
  <2>2. CASE k = Len(stack)
    BY <1>3, <2>1, <2>2
  <2>3. CASE k # Len(stack)
    <3>1. k \in 1..Len(stack) - 1 /\ k \in 1..Len(t)
      BY <2>3, SweepColorFacts
    <3>2. m \in Faced(heap, G, t, k)
      BY <2>1, <3>1, KeptFaces
    <3> QED BY <1>2, <1>3, <3>1, <3>2 DEF Facing
  <2> QED BY <2>2, <2>3
<1>4. ASSUME NEW p \in W, NEW m \in V \ {RootMem}, <<p, m>> \in Refs(heap, mem)
      PROVE  m \in Facing(heap, G, t) \/ (p \in V /\ <<p, m>> \in Refs(heap, G))
  <2>1. PICK j \in 1..mem[p].size : Spot(heap, mem, p, j, m)
    BY <1>4 DEF Refs
  <2>2. CASE p \in V /\ G[p].slots = mem[p].slots /\ G[p].size = mem[p].size
    <3>1. p \in AllMem /\ m \in AllMem
      BY <1>2, <1>4
    <3>2. j \in 1..G[p].size /\ Spot(heap, G, p, j, m)
      BY <2>1, <2>2 DEF Spot
    <3> QED BY <2>2, <3>1, <3>2 DEF Refs
  <2>3. CASE \A i \in 1..mem[p].size, x \in V \ {RootMem} :
               Spot(heap, mem, p, i, x) => x \in Facing(heap, G, t)
    BY <1>4, <2>1, <2>3
  <2> QED BY <1>4, <2>2, <2>3
<1> HIDE DEF W
<1> QED BY <1>1, <1>3, <1>4, ReachLess DEF W

LEMMA SweepJoin ==
  ASSUME pc' = "sweep", heap' = heap, NEW D, Condemned' = D,
         MemColors(mem', D, Draining(heap, mem', stack')), RootColor',
         Sweeping(heap, mem', stack', D)
  PROVE  Colors'
BY DEF Colors


\* Queuing entry p leaves the ones before it where they are.
LEMMA RemoveEntryKeeps ==
  ASSUME NEW M, Sized(M), NEW p \in 1..M.size
  PROVE  \A k \in 1..p - 1 : RemoveEntry(M, p).slots[k] = M.slots[k]
<1>1. /\ M.slots \in Seq(Entry) /\ M.size \in Nat /\ M.size <= Len(M.slots)
      /\ Len(M.slots) \in Nat /\ p \in Nat
  BY SizedFacts
<1>2. PICK A : A = EraseIndex(M, M.slots[p].index)
  BY Zenon
<1>3. A \in Memory /\ A.slots = M.slots /\ A.size = M.size
  BY <1>2, EraseIndexType DEF Sized
<1>4. PICK S : S = [A.slots EXCEPT ![p].ptr = Null]
  BY Zenon
<1>5. DOMAIN S = 1..Len(M.slots) /\ \A k \in 1..Len(M.slots) : k # p => S[k] = M.slots[k]
  BY <1>1, <1>3, <1>4
<1>6. PICK B : B = [A EXCEPT !.slots[p].ptr = Null]
  BY Zenon
<1>7. B = [A EXCEPT !.slots = S]
  BY <1>3, <1>4, <1>6 DEF Memory
<1>8. B.slots = S /\ B.size = M.size /\ DOMAIN B = DOMAIN A
  BY <1>3, <1>7 DEF Memory
<1>9. DOMAIN B = {"st", "slots", "size", "indexes", "color", "seen", "keep"}
  BY <1>3, <1>8 DEF Memory
<1>10. PICK T : T = [k \in DOMAIN S |-> IF p <= k /\ k < M.size THEN S[k + 1] ELSE S[k]]
  BY Zenon
<1>11. EraseSlot(B, p).slots = T
  BY <1>8, <1>9, <1>10 DEF EraseSlot
<1>12. RemoveEntry(M, p) = EraseSlot(B, p)
  BY <1>2, <1>6 DEF RemoveEntry
<1> SUFFICES ASSUME NEW k \in 1..p - 1 PROVE T[k] = M.slots[k]
  BY <1>11, <1>12
<1>13. k \in 1..Len(M.slots) /\ ~(p <= k) /\ k # p
  BY <1>1
<1> QED BY <1>5, <1>10, <1>13

\* An activation passes an entry.
LEMMA PassColors ==
  ASSUME Sweeps, Top.ph # "enter", Top.i >= 1, pc' = "sweep", heap' = heap,
         NEW N, SameButVectors(mem[TopMem], N),
         \A k \in 1..Top.i - 1 : N.slots[k] = mem[TopMem].slots[k],
         mem' = Put(mem, TopMem, N), stack' = Goto("scan", Top.i - 1),
         NEW D, Condemned' = D, Condemned \subseteq D,
         \A m \in D : m \in Condemned \/ (Top.ph # "scan" /\ m = RefMem),
         Top.ph # "scan" => RefMem \notin Owed(mem, D),
         RefMem \in D \ Condemned =>
           mem[RefMem].st # "unused" /\ (mem[RefMem].st = "live" => mem[RefMem].color = "WHITE"),
         Top.ph = "scan" =>
           \A m \in Waiting(heap, mem, stack, Condemned) \ {RootMem} :
             ~Spot(heap, mem, TopMem, Top.i, m)
  PROVE  Colors'
<1> DEFINE n == Len(stack)
           C == Condemned
           W == Waiting(heap, mem, stack, C)
<1>1. PICK G, t : G = mem' /\ t = stack'
  BY Zenon
<1>2. /\ MemColors(mem, C, Draining(heap, mem, stack)) /\ RootColor
      /\ Sweeping(heap, mem, stack, C)
      /\ stack \in Seq(FrameT) /\ n \in Nat /\ n >= 1 /\ n \in 1..n
      /\ Top = stack[n] /\ Top.i \in Nat /\ Top.h \in AllHeap
      /\ \A k \in 1..n - 1 :
              /\ stack[k].ph = "back" /\ MemAt(heap, stack, k) \in AllMem
              /\ EntryMem(heap, mem, stack, k) = MemAt(heap, stack, k + 1)
      /\ MemAt(heap, stack, n) = TopMem /\ EntryMem(heap, mem, stack, n) = RefMem
  BY SweepColorFacts
<1>3. /\ Inductive /\ pc = "sweep" /\ stack # <<>> /\ TopMem \in AllMem
      /\ \A k \in 1..n - 1 : heap[stack[k].h].mem # TopMem
  BY SweepFacts DEF Sweeps
<1>4. /\ Len(t) = n /\ \A k \in 1..n - 1 : t[k] = stack[k]
      /\ t[n] = [h |-> Top.h, ph |-> "scan", i |-> Top.i - 1]
  <2>1. Top.i - 1 \in Nat
    BY <1>2
  <2> QED BY <1>1, <1>2, <1>3, <2>1, GotoFacts
<1>5. \A x \in AllMem : x # TopMem => G[x] = mem[x]
  BY <1>1, <1>3, MemFacts DEF Put
<1>6. G[TopMem] = N
  BY <1>1, <1>3, MemFacts DEF Put
<1>7. \A x \in AllMem : G[x].st = mem[x].st /\ G[x].color = mem[x].color /\ G[x].keep = mem[x].keep
  BY <1>5, <1>6 DEF SameButVectors
<1>8. \A k \in 1..n : t[k].h = stack[k].h /\ MemAt(heap, t, k) = MemAt(heap, stack, k)
  <2>1. \A k \in 1..n : k \in 1..n - 1 \/ k = n
    BY <1>2
  <2> QED BY <1>2, <1>4, <2>1 DEF MemAt
<1>9. Kept(G, t)
  BY <1>2, <1>3, <1>4, <1>5 DEF Kept, MemAt
<1>10. Draining(heap, G, t) = {}
  BY <1>2, <1>4 DEF Draining
<1>11. ~AtRoot(t) /\ ~AtRoot(stack)
  <2>1. CASE n = 1
    BY <1>2, <1>4, <2>1 DEF AtRoot
  <2>2. CASE n # 1
    <3>0. \A k \in Nat : k >= 1 /\ k # 1 => 1 \in 1..k - 1
      OBVIOUS
    <3>1. 1 \in 1..n - 1
      <4>1. n \in Nat /\ n >= 1
        BY <1>2
      <4> QED BY <2>2, <3>0, <4>1
    <3>2. stack[1].ph = "back"
      BY <1>2, <3>1
    <3>3. t[1] = stack[1]
      BY <1>4, <3>1
    <3> QED BY <3>2, <3>3 DEF AtRoot
  <2> QED BY <2>1, <2>2
<1>12. \A x \in AllMem : x \in InHand(heap, mem, stack)
         <=> x \in InHand(heap, G, t) \/ (Top.ph # "scan" /\ x = RefMem)
  <2> SUFFICES ASSUME NEW x \in AllMem
               PROVE  x \in InHand(heap, mem, stack)
                        <=> x \in InHand(heap, G, t) \/ (Top.ph # "scan" /\ x = RefMem)
    OBVIOUS
  <2>0. Top.ph \in {"scan", "back", "drain"}
    <3>1. Top \in FrameT
      BY <1>2, <1>3, TopFacts
    <3> QED BY <3>1 DEF FrameT
  <2>1. \A k \in 1..n : k \in 1..n - 1 \/ k = n
    BY <1>2
  <2>2. \A k \in 1..n - 1 : k \in 1..n
    BY <1>2
  <2>3. x \in InHand(heap, mem, stack) <=>
          \/ \E k \in 1..n - 1 : EntryMem(heap, mem, stack, k) = x
          \/ Top.ph # "scan" /\ x = RefMem
    BY <1>2, <2>0, <2>1, <2>2 DEF InHand
  <2>4. \A k \in 1..n - 1 : EntryMem(heap, G, t, k) = EntryMem(heap, mem, stack, k)
                            /\ t[k].ph = "back"
    BY <1>2, <1>4, <1>9, KeptFaces
  <2>5. t[n].ph = "scan"
    BY <1>4
  <2>6. x \in InHand(heap, G, t) <=> \E k \in 1..n - 1 : EntryMem(heap, mem, stack, k) = x
    BY <1>4, <2>1, <2>2, <2>4, <2>5 DEF InHand
  <2> QED BY <2>3, <2>6
<1>13. Waiting(heap, G, t, D) = W
  <2>1. ASSUME NEW x \in Waiting(heap, G, t, D) PROVE x \in W
    <3>1. /\ x \in AllMem /\ x \notin D /\ mem[x].st = "live" /\ mem[x].color # "GRAY"
          /\ x \notin InHand(heap, G, t) /\ x # RootMem
      BY <1>7, <1>11, <2>1 DEF Waiting, Owed
    <3>2. x \in Owed(mem, D) /\ x \in Owed(mem, C)
      BY <3>1 DEF Owed
    <3>3. x \notin InHand(heap, mem, stack)
      BY <1>12, <3>1, <3>2
    <3> QED BY <3>1, <3>2, <3>3 DEF Waiting
  <2>2. ASSUME NEW x \in W PROVE x \in Waiting(heap, G, t, D)
    <3>1. /\ x \in AllMem /\ x \notin C /\ mem[x].st = "live" /\ mem[x].color # "GRAY"
          /\ x \notin InHand(heap, mem, stack) /\ x # RootMem
      BY <1>11, <2>2 DEF Waiting, Owed
    <3>2. x \notin InHand(heap, G, t) /\ x \notin D
      BY <1>12, <3>1
    <3> QED BY <1>7, <3>1, <3>2 DEF Waiting, Owed
  <2> QED BY <2>1, <2>2
<1>14. ASSUME NEW m \in W \ {RootMem}, m \in Faced(heap, mem, stack, n)
       PROVE  m \in Facing(heap, G, t)
  <2>1. PICK j \in Ahead(stack[n], mem[TopMem]) : Spot(heap, mem, TopMem, j, m)
    BY <1>2, <1>14 DEF Faced
  <2>2. j \in 1..Top.i - 1
    <3>1. CASE Top.ph = "scan"
      <4>1. j \in 1..Top.i /\ j # Top.i
        BY <1>2, <1>14, <2>1, <3>1 DEF Ahead
      <4> QED BY <1>2, <4>1
    <3>2. CASE Top.ph # "scan"
      BY <1>2, <2>1, <3>2 DEF Ahead
    <3> QED BY <3>1, <3>2
  <2>3. Spot(heap, G, TopMem, j, m)
    BY <1>6, <2>1, <2>2 DEF Spot
  <2>4. Ahead(t[n], G[TopMem]) = 1..Top.i - 1
    BY <1>4 DEF Ahead
  <2>5. m \in AllMem /\ MemAt(heap, t, n) = TopMem
    BY <1>2, <1>8, <1>14 DEF Waiting, Owed
  <2>6. m \in Faced(heap, G, t, n)
    BY <2>2, <2>3, <2>4, <2>5 DEF Faced
  <2> QED BY <1>2, <1>4, <2>5, <2>6 DEF Facing
<1>15. ASSUME NEW p \in W
       PROVE  G[p].slots = mem[p].slots /\ G[p].size = mem[p].size
  <2>1. p # TopMem /\ p \in AllMem
    BY <1>2, <1>15, IteratedNotWaiting DEF Waiting, Owed
  <2> QED BY <1>5, <2>1
<1>16. Reach(W, Facing(heap, G, t), Refs(heap, G))
  BY <1>2, <1>4, <1>9, <1>14, <1>15, SweepReach
<1>17. \A k \in 1..Len(t) : Shaded(heap, G, t, k)
  <2> SUFFICES ASSUME NEW k \in 1..n PROVE Shaded(heap, G, t, k)
    BY <1>4
  <2>1. MemAt(heap, stack, k) \in AllMem
    BY <1>2, <1>3, UpTo
  <2>2. stack[k].ph # "enter" /\ Shaded(heap, mem, stack, k)
    BY <1>2, UpTo DEF Sweeping
  <2>3. G[MemAt(heap, t, k)].color # "BLACK"
    BY <1>7, <1>8, <2>1, <2>2 DEF Shaded
  <2>4. t[k].ph # "drain" /\ (k = Len(t) => t[k].ph = "scan")
    BY <1>2, <1>4, UpTo
  <2> QED BY <2>3, <2>4 DEF Shaded
<1>18. t # <<>> /\ t[1].h = Root
  BY <1>2, <1>4, <1>8, SweepColorFacts
<1>19. MemColors(G, D, {})
  <2> SUFFICES ASSUME NEW m \in AllMem
               PROVE  /\ G[m].st = "unused" => G[m].color = "GRAY"
                      /\ m \in D => G[m].st # "unused" /\ (G[m].st = "live" => G[m].color = "WHITE")
                      /\ G[m].keep => m \in D \/ G[m].st # "live"
    BY DEF MemColors
  <2>1. /\ mem[m].st = "unused" => mem[m].color = "GRAY"
        /\ m \in C => mem[m].st # "unused" /\ (mem[m].st = "live" => mem[m].color = "WHITE")
        /\ mem[m].keep => m \in C \/ mem[m].st # "live" \/ m \in Draining(heap, mem, stack)
    BY <1>2 DEF MemColors
  <2>2. ASSUME m \in Draining(heap, mem, stack), mem[m].st = "live" PROVE m \in D
    <3>1. m = RefMem /\ Top.ph = "drain"
      BY <1>2, <2>2 DEF Draining
    <3>2. mem[m].color = "WHITE"
      BY <1>2, <3>1 DEF Sweeping, Shaded
    <3>3. m \notin Owed(mem, D)
      BY <3>1
    <3> QED BY <2>2, <3>2, <3>3 DEF Owed
  <2>3. m \in D => mem[m].st # "unused" /\ (mem[m].st = "live" => mem[m].color = "WHITE")
    BY <2>1
  <2> QED BY <1>7, <2>1, <2>2, <2>3
<1>20. RootColor'
  <2>1. RootMem \in AllMem
    BY DEF AllMem
  <2>2. mem'[RootMem].color = mem[RootMem].color
    BY <1>1, <1>7, <2>1
  <2> QED BY <1>2, <1>3, <1>11, <2>2 DEF RootColor
<1>21. Sweeping(heap, G, t, D)
  BY <1>13, <1>16, <1>17, <1>18 DEF Sweeping
<1> QED BY <1>1, <1>10, <1>19, <1>20, <1>21, SweepJoin

\* The last activation queues no Memory.
LEMMA DoomedSame ==
  ASSUME NEW A \in Seq(Act), A # <<>>, NEW a, NEW B, B = [A EXCEPT ![Len(A)] = a],
         Queued(a) = Queued(A[Len(A)])
  PROVE  Doomed(B) = Doomed(A)
<1>1. PICK X : X = {}
  OBVIOUS
<1>2. Queued(A[Len(A)]) \subseteq Queued(a) \cup X /\ Queued(a) \subseteq Queued(A[Len(A)]) \cup X
  OBVIOUS
<1>3. Doomed(A) \subseteq Doomed(B) \cup X /\ Doomed(B) \subseteq Doomed(A) \cup X
  BY <1>2, DoomedLast
<1> QED BY <1>1, <1>3

\* What the queues condemn after an entry, or an entry and a Memory, is queued.
LEMMA QueueDoomed ==
  ASSUME acts \in Seq(Act), acts # <<>>, NEW e
  PROVE  /\ Doomed(Queue(e)) = Condemned /\ Doomed(Queue2(e, <<>>)) = Condemned
         /\ \A m \in AllMem : Doomed(Queue2(e, <<m>>)) = Condemned \cup {m}
<1>1. PICK n, q : n = Len(acts) /\ q = [ptr |-> e.ptr, ref |-> e.ref]
  BY Zenon
<1>2. n \in 1..n /\ acts[n] \in Act
  BY <1>1
<1>3. PICK L : L = Append(acts[n].list, q)
  BY Zenon
<1>4. acts[n].mlist \in Seq(Mem)
  BY <1>2 DEF Act
<1>5. PICK A : A = [acts[n] EXCEPT !.list = L]
  BY Zenon
<1>6. A.mlist = acts[n].mlist /\ Queue(e) = [acts EXCEPT ![n] = A]
  BY <1>1, <1>2, <1>3, <1>5 DEF Act, Queue
<1>7. Queued(A) = Queued(acts[n])
  BY <1>6 DEF Queued
<1>8. Doomed(Queue(e)) = Condemned
  <2>1. PICK B : B = [acts EXCEPT ![n] = A]
    BY Zenon
  <2>2. Doomed(B) = Doomed(acts)
    BY <1>1, <1>7, <2>1, DoomedSame
  <2> QED BY <1>6, <2>1, <2>2 DEF Condemned
<1>9. ASSUME NEW ms \in Seq(AllMem)
      PROVE  \E E : /\ E.mlist = acts[n].mlist \o ms /\ Queue2(e, ms) = [acts EXCEPT ![n] = E]
  <2>1. PICK X : X = acts[n].mlist \o ms
    BY Zenon
  <2>2. PICK E : E = [acts[n] EXCEPT !.list = L, !.mlist = X]
    BY Zenon
  <2>3. E.mlist = X /\ Queue2(e, ms) = [acts EXCEPT ![n] = E]
    BY <1>1, <1>2, <1>3, <2>1, <2>2 DEF Act, Queue2
  <2> QED BY <2>1, <2>3
<1>10. Doomed(Queue2(e, <<>>)) = Condemned
  <2>1. <<>> \in Seq(AllMem)
    OBVIOUS
  <2>2. PICK E : E.mlist = acts[n].mlist \o <<>> /\ Queue2(e, <<>>) = [acts EXCEPT ![n] = E]
    BY <1>9, <2>1
  <2>3. E.mlist = acts[n].mlist
    BY <1>4, <2>2
  <2>4. Queued(E) = Queued(acts[n])
    BY <2>3 DEF Queued
  <2>5. PICK B : B = [acts EXCEPT ![n] = E]
    BY Zenon
  <2>6. Doomed(B) = Doomed(acts)
    BY <1>1, <2>4, <2>5, DoomedSame
  <2> QED BY <2>2, <2>5, <2>6 DEF Condemned
<1>11. ASSUME NEW m \in AllMem PROVE Doomed(Queue2(e, <<m>>)) = Condemned \cup {m}
  <2>1. <<m>> \in Seq(AllMem)
    OBVIOUS
  <2>2. PICK E : E.mlist = acts[n].mlist \o <<m>> /\ Queue2(e, <<m>>) = [acts EXCEPT ![n] = E]
    BY <1>9, <2>1
  <2>3. PICK l : l = acts[n].mlist
    BY Zenon
  <2>4. /\ Len(l) \in Nat /\ Len(E.mlist) = Len(l) + 1 /\ E.mlist[Len(l) + 1] = m
        /\ \A k \in 1..Len(l) : E.mlist[k] = l[k]
    BY <1>4, <2>2, <2>3
  <2>5. \A k \in 1..Len(E.mlist) : k \in 1..Len(l) \/ k = Len(l) + 1
    BY <2>4
  <2>6. Len(l) + 1 \in 1..Len(E.mlist) /\ \A k \in 1..Len(l) : k \in 1..Len(E.mlist)
    BY <2>4
  <2>7. Queued(acts[n]) \subseteq Queued(E) \cup {m} /\ Queued(E) \subseteq Queued(acts[n]) \cup {m}
    BY <2>3, <2>4, <2>5, <2>6 DEF Queued
  <2>8. PICK B : B = [acts EXCEPT ![n] = E]
    BY Zenon
  <2>9. Doomed(acts) \subseteq Doomed(B) \cup {m} /\ Doomed(B) \subseteq Doomed(acts) \cup {m}
    BY <1>1, <2>7, <2>8, DoomedLast
  <2>10. m \in Doomed(B)
    <3>1. m \in Queued(E)
      BY <2>4, <2>6 DEF Queued
    <3>2. Len(B) = n /\ B[n] = E
      BY <1>1, <1>2, <2>8
    <3> QED BY <1>2, <3>1, <3>2 DEF Doomed
  <2>11. Doomed(acts) \subseteq Doomed(B)
    <3>1. PICK X : X = {}
      OBVIOUS
    <3>2. Queued(acts[n]) \subseteq Queued(E) \cup X
      BY <2>3, <2>4, <2>6 DEF Queued
    <3>3. Doomed(acts) \subseteq Doomed(B) \cup X
      BY <1>1, <2>8, <3>2, DoomedLast
    <3> QED BY <3>1, <3>3
  <2> QED BY <2>2, <2>8, <2>9, <2>10, <2>11 DEF Condemned
<1> QED BY <1>8, <1>10, <1>11

\* do_sweep() returns.
LEMMA ReturnColors ==
  ASSUME Sweeps, Top.ph = "scan", Top.i = 0, pc' = "sweep", heap' = heap, acts' = acts,
         mem' = Put(mem, TopMem, Leave(mem[TopMem])), stack' = Pop
  PROVE  Colors'
<1> DEFINE n == Len(stack)
           C == Condemned
           W == Waiting(heap, mem, stack, C)
<1>1. PICK G, t : G = mem' /\ t = stack'
  BY Zenon
<1>2. /\ MemColors(mem, C, Draining(heap, mem, stack)) /\ RootColor
      /\ Sweeping(heap, mem, stack, C)
      /\ stack \in Seq(FrameT) /\ n \in Nat /\ n >= 1 /\ n \in 1..n
      /\ Top = stack[n]
      /\ \A k \in 1..n - 1 :
              /\ stack[k].ph = "back" /\ MemAt(heap, stack, k) \in AllMem
              /\ EntryMem(heap, mem, stack, k) = MemAt(heap, stack, k + 1)
      /\ MemAt(heap, stack, n) = TopMem
  BY SweepColorFacts
<1>3. Inductive /\ pc = "sweep" /\ stack # <<>> /\ TopMem \in AllMem /\ mem[TopMem] \in Memory
  BY SweepFacts DEF Sweeps, Sized
<1>4. Len(t) = n - 1 /\ \A k \in 1..n - 1 : t[k] = stack[k] /\ k \in 1..n
  BY <1>1, <1>2, <1>3, PopFacts, UpTo
<1>5. \A x \in AllMem : /\ G[x].slots = mem[x].slots /\ G[x].size = mem[x].size
                        /\ G[x].st = mem[x].st /\ G[x].color = mem[x].color
                        /\ G[x].keep = mem[x].keep
  <2>1. \A M \in Memory : /\ Leave(M).slots = M.slots /\ Leave(M).size = M.size
                          /\ Leave(M).st = M.st /\ Leave(M).color = M.color
                          /\ Leave(M).keep = M.keep
    BY DEF Memory, Leave
  <2>2. PICK L : L = Leave(mem[TopMem])
    BY Zenon
  <2>3. \A x \in AllMem : G[x] = IF x = TopMem THEN L ELSE mem[x]
    BY <1>1, <1>3, <2>2, MemFacts DEF Put
  <2> QED BY <1>3, <2>1, <2>2, <2>3
<1>6. Kept(G, t)
  BY <1>2, <1>4, <1>5 DEF Kept
<1>7. Draining(heap, G, t) = {} /\ Draining(heap, mem, stack) = {}
  <2>1. t # <<>> => n - 1 \in 1..n - 1
    BY <1>2, <1>4
  <2> QED BY <1>2, <1>4, <2>1 DEF Draining
<1>8. ~AtRoot(t) /\ ~AtRoot(stack)
  <2>1. n = 1 \/ 1 \in 1..n - 1
    <3>1. \A k \in Nat : k >= 1 /\ k # 1 => 1 \in 1..k - 1
      OBVIOUS
    <3>2. n \in Nat /\ n >= 1
      BY <1>2
    <3> QED BY <3>1, <3>2
  <2>2. t # <<>> => 1 \in 1..n - 1
    <3>1. \A k \in Nat : k >= 1 /\ k # 1 => 1 \in 1..k - 1
      OBVIOUS
    <3>2. t = <<>> \/ n # 1
      BY <1>1, <1>4, PopFacts, <1>2, <1>3
    <3> QED BY <1>2, <3>1, <3>2
  <2> QED BY <1>2, <1>4, <2>1, <2>2 DEF AtRoot
<1>9. InHand(heap, G, t) = InHand(heap, mem, stack)
  <2>1. \A k \in 1..n : k \in 1..n - 1 \/ k = n
    BY <1>2
  <2>2. \A k \in 1..n - 1 : EntryMem(heap, G, t, k) = EntryMem(heap, mem, stack, k)
    BY <1>6, KeptFaces
  <2> QED BY <1>2, <1>4, <2>1, <2>2 DEF InHand
<1>10. Owed(G, C) = Owed(mem, C)
  BY <1>5, OwedSame
<1>11. Waiting(heap, G, t, C) = W
  BY <1>8, <1>9, <1>10 DEF Waiting
<1>12. Faced(heap, mem, stack, n) = {}
  <2>1. Ahead(stack[n], mem[TopMem]) = {}
    BY <1>2 DEF Ahead
  <2> QED BY <1>2, <2>1 DEF Faced
<1>13. W \subseteq AllMem
  BY DEF Waiting, Owed
<1>14. Reach(W, Facing(heap, G, t), Refs(heap, G))
  <2>1. Len(t) \in Nat /\ Len(t) >= n - 1
    BY <1>2, <1>4
  <2> QED BY <1>5, <1>6, <1>12, <1>13, <2>1, SweepReach
<1>15. \A k \in 1..Len(t) : Shaded(heap, G, t, k)
  <2> SUFFICES ASSUME NEW k \in 1..n - 1 PROVE Shaded(heap, G, t, k)
    BY <1>4
  <2>1. k \in 1..n /\ k + 1 \in 1..n /\ (k = n - 1 => k + 1 = n)
    BY <1>2
  <2>2. Shaded(heap, mem, stack, k) /\ Shaded(heap, mem, stack, n)
    BY <1>2, <2>1 DEF Sweeping
  <2>3. MemAt(heap, t, k) = MemAt(heap, stack, k) /\ MemAt(heap, stack, k) \in AllMem
    BY <1>2, <1>6, KeptFaces
  <2>4. EntryMem(heap, G, t, k) = MemAt(heap, stack, k + 1)
    BY <1>2, <1>6, KeptFaces
  <2>5. k = Len(t) => G[EntryMem(heap, G, t, k)].color # "BLACK"
    BY <1>2, <1>3, <1>4, <1>5, <2>1, <2>2, <2>4 DEF Shaded
  <2>6. t[k].ph = "back"
    BY <1>2, <1>4
  <2> QED BY <1>2, <1>5, <2>2, <2>3, <2>5, <2>6 DEF Shaded
<1>16. t # <<>> => t[1].h = Root
  <2>1. stack[1].h = Root
    BY SweepColorFacts
  <2>2. t # <<>> => 1 \in 1..n - 1
    <3>1. \A k \in Nat : k >= 1 /\ k # 1 => 1 \in 1..k - 1
      OBVIOUS
    <3>2. t = <<>> \/ n # 1
      BY <1>1, <1>4, PopFacts, <1>2, <1>3
    <3> QED BY <1>2, <3>1, <3>2
  <2> QED BY <1>4, <2>1, <2>2
<1>17. MemColors(G, C, {})
  BY <1>2, <1>5, <1>7 DEF MemColors
<1>18. RootColor'
  <2>1. mem'[RootMem].color = mem[RootMem].color
    BY <1>1, <1>5 DEF AllMem
  <2> QED BY <1>2, <1>3, <1>8, <2>1 DEF RootColor
<1>19. Sweeping(heap, G, t, C) /\ Condemned' = C
  BY <1>11, <1>14, <1>15, <1>16 DEF Sweeping, Condemned
<1> QED BY <1>1, <1>7, <1>17, <1>18, <1>19, SweepJoin

\* do_sweep() calls itself for a Memory that is not being iterated.
LEMMA CallColors ==
  ASSUME Sweeps, Top.ph = "scan", Top.i >= 1, pc' = "sweep", heap' = heap, acts' = acts,
         mem' = mem, NEW r, r = RefMem, r \in AllMem, TopEntry.ptr \in AllHeap,
         stack' = Append(Goto("back", Top.i), Frame(TopEntry.ptr))
  PROVE  Colors'
<1> DEFINE n == Len(stack)
           C == Condemned
           W == Waiting(heap, mem, stack, C)
<1>1. PICK t : t = stack'
  BY Zenon
<1>2. /\ MemColors(mem, C, Draining(heap, mem, stack)) /\ RootColor
      /\ Sweeping(heap, mem, stack, C)
      /\ stack \in Seq(FrameT) /\ n \in Nat /\ n >= 1 /\ n \in 1..n
      /\ Top = stack[n] /\ Top.i \in Nat
      /\ \A k \in 1..n - 1 :
              /\ stack[k].ph = "back" /\ MemAt(heap, stack, k) \in AllMem
              /\ EntryMem(heap, mem, stack, k) = MemAt(heap, stack, k + 1)
      /\ MemAt(heap, stack, n) = TopMem /\ EntryMem(heap, mem, stack, n) = r
  BY SweepColorFacts
<1>3. Inductive /\ pc = "sweep" /\ stack # <<>> /\ TopMem \in AllMem
  BY SweepFacts DEF Sweeps
<1>4. /\ Len(t) = n + 1 /\ \A k \in 1..n - 1 : t[k] = stack[k]
      /\ t[n] = [h |-> Top.h, ph |-> "back", i |-> Top.i] /\ t[n + 1] = Frame(TopEntry.ptr)
  <2>1. PICK h, i : h = TopEntry.ptr /\ i = Top.i
    BY Zenon
  <2> QED BY <1>1, <1>2, <1>3, <2>1, CallFacts
<1>5. \A k \in 1..n : t[k].h = stack[k].h /\ t[k].i = stack[k].i /\ (t[k].ph # "enter") /\ stack[k].ph # "enter"
                      /\ t[k].ph # "drain"
  BY <1>2, <1>4, UpTo
<1>6. \A k \in 1..n : /\ MemAt(heap, t, k) = MemAt(heap, stack, k)
                      /\ EntryMem(heap, mem, t, k) = EntryMem(heap, mem, stack, k)
  BY <1>5 DEF MemAt, EntryMem
<1>7. MemAt(heap, t, n + 1) = r
  BY <1>4 DEF MemAt, Frame, RefMem
<1>8. Kept(mem, t)
  BY <1>4 DEF Kept
<1>9. Draining(heap, mem, t) = {} /\ Draining(heap, mem, stack) = {}
  BY <1>2, <1>4 DEF Draining, Frame
<1>10. ~AtRoot(t) /\ ~AtRoot(stack)
  <2>1. \A k \in Nat : k >= 1 => 1 \in 1..k
    OBVIOUS
  <2>2. 1 \in 1..n
    BY <1>2, <2>1
  <2> QED BY <1>5, <2>2 DEF AtRoot
<1>11. \A x \in AllMem : x \in InHand(heap, mem, t) <=> x \in InHand(heap, mem, stack) \/ x = r
  <2> SUFFICES ASSUME NEW x \in AllMem
               PROVE  x \in InHand(heap, mem, t) <=> x \in InHand(heap, mem, stack) \/ x = r
    OBVIOUS
  <2>1. x \in InHand(heap, mem, stack) <=> \E k \in 1..n - 1 : EntryMem(heap, mem, stack, k) = x
    <3>1. \A k \in 1..n : k \in 1..n - 1 \/ k = n
      BY <1>2
    <3>2. \A k \in 1..n - 1 : k \in 1..n
      BY <1>2
    <3> QED BY <1>2, <3>1, <3>2 DEF InHand
  <2>2. x \in InHand(heap, mem, t) <=>
          (\E k \in 1..n - 1 : EntryMem(heap, mem, stack, k) = x) \/ x = r
    <3>1. \A k \in 1..n + 1 : k \in 1..n - 1 \/ k = n \/ k = n + 1
      BY <1>2
    <3>2. n \in 1..n + 1 /\ \A k \in 1..n - 1 : k \in 1..n + 1 /\ k \in 1..n
      BY <1>2
    <3>3. t[n + 1].ph = "enter" /\ t[n].ph = "back" /\ \A k \in 1..n - 1 : t[k].ph = "back"
      BY <1>2, <1>4 DEF Frame
    <3>4. EntryMem(heap, mem, t, n) = r
      BY <1>2, <1>6, <3>2
    <3>5. \A k \in 1..n + 1 : t[k].ph \in {"back", "drain"} /\ EntryMem(heap, mem, t, k) = x =>
            (k \in 1..n - 1 /\ EntryMem(heap, mem, stack, k) = x) \/ x = r
      BY <1>6, <3>1, <3>2, <3>3, <3>4
    <3>6. \A k \in 1..n - 1 : EntryMem(heap, mem, stack, k) = x =>
            k \in 1..n + 1 /\ t[k].ph \in {"back", "drain"} /\ EntryMem(heap, mem, t, k) = x
      BY <1>6, <3>2, <3>3
    <3> QED BY <1>4, <3>2, <3>3, <3>4, <3>5, <3>6, Zenon DEF InHand
  <2> QED BY <2>1, <2>2
<1>12. PICK V : V = Waiting(heap, mem, t, C)
  BY Zenon
<1>13. V = W \ {r} /\ W \subseteq AllMem
  <2>1. \A x : x \in V <=> x \in Owed(mem, C) /\ x \notin InHand(heap, mem, t) /\ x # RootMem
    BY <1>10, <1>12 DEF Waiting
  <2>2. \A x : x \in W <=> x \in Owed(mem, C) /\ x \notin InHand(heap, mem, stack) /\ x # RootMem
    BY <1>10 DEF Waiting
  <2>3. Owed(mem, C) \subseteq AllMem
    BY DEF Owed
  <2> HIDE DEF W
  <2> QED BY <1>11, <2>1, <2>2, <2>3
<1>14. ASSUME NEW m \in V \ {RootMem}, m \in Faced(heap, mem, stack, n)
       PROVE  m \in Facing(heap, mem, t)
  <2>1. PICK j \in Ahead(stack[n], mem[TopMem]) : Spot(heap, mem, TopMem, j, m)
    BY <1>2, <1>14 DEF Faced
  <2>2. j \in 1..Top.i
    BY <1>2, <2>1 DEF Ahead
  <2>3. m # r
    BY <1>13, <1>14
  <2>4. j # Top.i
    BY <2>1, <2>3 DEF Spot, RefMem, TopEntry
  <2>5. j \in 1..Top.i - 1
    BY <1>2, <2>2, <2>4
  <2>6. Ahead(t[n], mem[TopMem]) = 1..Top.i - 1
    BY <1>4 DEF Ahead
  <2>7. m \in AllMem /\ MemAt(heap, t, n) = TopMem
    BY <1>2, <1>6, <1>13, <1>14
  <2>8. m \in Faced(heap, mem, t, n)
    BY <2>1, <2>5, <2>6, <2>7 DEF Faced
  <2>9. n \in 1..Len(t)
    BY <1>2, <1>4
  <2> QED BY <2>7, <2>8, <2>9 DEF Facing
<1>15. ASSUME NEW j \in 1..mem[r].size, NEW m \in V \ {RootMem}, Spot(heap, mem, r, j, m)
       PROVE  m \in Facing(heap, mem, t)
  <2>1. Ahead(t[n + 1], mem[r]) = 1..mem[r].size
    BY <1>4 DEF Ahead, Frame
  <2>2. m \in AllMem
    BY <1>13, <1>15
  <2>3. m \in Faced(heap, mem, t, n + 1)
    BY <1>7, <1>15, <2>1, <2>2 DEF Faced
  <2>4. n + 1 \in 1..Len(t)
    BY <1>2, <1>4
  <2> QED BY <2>2, <2>3, <2>4 DEF Facing
<1>16. Reach(V, Facing(heap, mem, t), Refs(heap, mem))
  <2>1. Len(t) \in Nat /\ Len(t) >= n - 1
    BY <1>2, <1>4
  <2>2. V \subseteq W
    BY <1>13
  <2>3. \A p \in W : \/ p \in V /\ mem[p].slots = mem[p].slots /\ mem[p].size = mem[p].size
                     \/ \A j \in 1..mem[p].size, m \in V \ {RootMem} :
                          Spot(heap, mem, p, j, m) => m \in Facing(heap, mem, t)
    BY <1>13, <1>15
  <2> QED BY <1>8, <1>14, <2>1, <2>2, <2>3, SweepReach
<1>17. \A k \in 1..Len(t) : Shaded(heap, mem, t, k)
  <2>1. ASSUME NEW k \in 1..n PROVE Shaded(heap, mem, t, k)
    <3>1. k # Len(t) /\ Shaded(heap, mem, stack, k)
      BY <1>2, <1>4 DEF Sweeping
    <3> QED BY <1>5, <1>6, <3>1 DEF Shaded
  <2>2. Shaded(heap, mem, t, n + 1)
    BY <1>4 DEF Shaded, Frame
  <2>3. \A k \in 1..n + 1 : k \in 1..n \/ k = n + 1
    BY <1>2
  <2> QED BY <1>4, <2>1, <2>2, <2>3
<1>18. t[1].h = Root
  <2>1. \A k \in Nat : k >= 1 => 1 \in 1..k
    OBVIOUS
  <2>2. 1 \in 1..n
    BY <1>2, <2>1
  <2> QED BY <1>5, <2>2, SweepColorFacts
<1>19. RootColor'
  BY <1>1, <1>2, <1>3, <1>10 DEF RootColor
<1>20. Sweeping(heap, mem, t, C) /\ Condemned' = C
  BY <1>12, <1>16, <1>17, <1>18 DEF Sweeping, Condemned
<1> QED BY <1>1, <1>2, <1>9, <1>19, <1>20, SweepJoin

\* do_sweep() enters a heap: it repaints the Memory and starts at its end.
LEMMA SweepEnterColors ==
  ASSUME Inductive, Colors, SweepEnter
  PROVE  Colors'
<1> DEFINE n == Len(stack)
           C == Condemned
           W == Waiting(heap, mem, stack, C)
<1>1. /\ pc = "sweep" /\ pc' = "sweep" /\ stack # <<>> /\ Top.ph = "enter"
      /\ heap' = heap /\ acts' = acts /\ heap[Top.h].st = "live" /\ mem[TopMem].st = "live"
  BY DEF SweepEnter, AtFrame, HeapOk, TopMem
<1>2. Sweeps
  BY <1>1 DEF Sweeps
<1>3. /\ MemColors(mem, C, Draining(heap, mem, stack)) /\ RootColor
      /\ Sweeping(heap, mem, stack, C)
      /\ stack \in Seq(FrameT) /\ n \in Nat /\ n >= 1 /\ n \in 1..n
      /\ Top = stack[n] /\ Top.h \in AllHeap
      /\ \A k \in 1..n - 1 :
              /\ stack[k].ph = "back" /\ MemAt(heap, stack, k) \in AllMem
              /\ EntryMem(heap, mem, stack, k) = MemAt(heap, stack, k + 1)
      /\ MemAt(heap, stack, n) = TopMem /\ stack[1].h = Root /\ heap[Root].mem = RootMem
  BY <1>2, SweepColorFacts
<1>4. PICK m : m = TopMem
  BY Zenon
<1>5. m \in AllMem /\ mem[m] \in Memory /\ mem[m].size \in Nat
  <2>1. GoodHeap(heap)
    BY <1>1, SweepFacts
  <2>2. m \in AllMem
    BY <1>1, <1>3, <1>4, <2>1, HeapHasMem DEF TopMem
  <2> QED BY <2>2, MemFacts, SizedFacts
<1>6. mem[m].seen = FALSE
  <2>1. Free(stack, m)
    BY <1>1, <1>3, <1>4, SweepFacts DEF Upper, TopMem
  <2>2. mem[m].seen = (pc = "sweep" /\ \E k \in 1..Len(stack) : Iterates(k, m))
    BY <1>1, <1>5 DEF Inductive, SeenIsOnStack
  <2>3. ~\E k \in 1..Len(stack) : Iterates(k, m)
    BY <2>1 DEF Free, Iterates
  <2> QED BY <1>5, <2>2, <2>3
<1>7. PICK c, N : c = SweptColor(mem[m].color) /\ N = [mem[m] EXCEPT !.seen = TRUE, !.color = c]
  BY Zenon
<1>8. /\ N.slots = mem[m].slots /\ N.size = mem[m].size /\ N.st = "live"
      /\ N.keep = mem[m].keep /\ N.color = c
  BY <1>1, <1>4, <1>5, <1>7 DEF Memory
<1>9. PICK G, t : G = mem' /\ t = stack'
  BY Zenon
<1>10. mem' = [mem EXCEPT ![m] = N] /\ stack' = Goto("scan", mem[m].size)
  BY <1>4, <1>6, <1>7 DEF SweepEnter
<1>11. \A x \in AllMem : G[x] = IF x = m THEN N ELSE mem[x]
  BY <1>5, <1>9, <1>10, MemFacts
<1>12. /\ Len(t) = n /\ \A k \in 1..n - 1 : t[k] = stack[k]
       /\ t[n] = [h |-> Top.h, ph |-> "scan", i |-> mem[m].size]
  BY <1>1, <1>3, <1>5, <1>9, <1>10, GotoFacts
<1>13. \A x \in AllMem : /\ G[x].slots = mem[x].slots /\ G[x].size = mem[x].size
                         /\ G[x].st = mem[x].st /\ G[x].keep = mem[x].keep
                         /\ x # m => G[x].color = mem[x].color
  BY <1>1, <1>4, <1>8, <1>11
<1>14. /\ c # "BLACK" /\ (mem[m].color # "BLACK" => c = mem[m].color)
       /\ (mem[m].color = "BLACK" => c = "GRAY") /\ G[m].color = c
  BY <1>5, <1>7, <1>8, <1>11 DEF SweptColor
<1>15. Kept(G, t)
  BY <1>3, <1>12, <1>13 DEF Kept
<1>16. \A k \in 1..n : t[k].h = stack[k].h /\ MemAt(heap, t, k) = MemAt(heap, stack, k)
  <2>1. \A k \in 1..n : k \in 1..n - 1 \/ k = n
    BY <1>3
  <2> QED BY <1>3, <1>12, <2>1 DEF MemAt
<1>17. Draining(heap, G, t) = {} /\ Draining(heap, mem, stack) = {}
  BY <1>1, <1>3, <1>12 DEF Draining
<1>18. InHand(heap, G, t) = InHand(heap, mem, stack)
  <2>1. \A k \in 1..n : k \in 1..n - 1 \/ k = n
    BY <1>3
  <2>2. \A k \in 1..n - 1 : EntryMem(heap, G, t, k) = EntryMem(heap, mem, stack, k)
    BY <1>15, KeptFaces
  <2>3. t[n].ph \notin {"back", "drain"} /\ stack[n].ph \notin {"back", "drain"}
    BY <1>1, <1>3, <1>12
  <2> QED BY <1>12, <2>1, <2>2, <2>3 DEF InHand
<1>19. n # 1 => 1 \in 1..n - 1 /\ n - 1 \in 1..n - 1 /\ n - 1 \in 1..n /\ (n - 1) + 1 = n
  <2>1. \A k \in Nat : k >= 1 /\ k # 1 =>
          1 \in 1..k - 1 /\ k - 1 \in 1..k - 1 /\ k - 1 \in 1..k /\ (k - 1) + 1 = k
    OBVIOUS
  <2> QED BY <1>3, <2>1
<1>20. ~AtRoot(t) /\ (AtRoot(stack) <=> n = 1)
  <2>1. CASE n = 1
    BY <1>1, <1>3, <1>12, <2>1 DEF AtRoot
  <2>2. CASE n # 1
    <3>1. stack[1].ph = "back" /\ t[1] = stack[1]
      BY <1>3, <1>12, <1>19, <2>2
    <3> QED BY <2>2, <3>1 DEF AtRoot
  <2> QED BY <2>1, <2>2
<1>21. n = 1 => m = RootMem
  BY <1>3, <1>4 DEF MemAt
<1>22. n # 1 => m \in InHand(heap, mem, stack)
  BY <1>3, <1>4, <1>5, <1>19 DEF InHand
<1>23. PICK V : V = Waiting(heap, G, t, C)
  BY Zenon
<1>24. V = W \ {m} /\ W \subseteq AllMem
  <2>1. ASSUME NEW x \in V PROVE x \in W /\ x # m
    <3>1. x \in Owed(G, C) /\ x \notin InHand(heap, mem, stack) /\ x # RootMem /\ x \in AllMem
      BY <1>18, <1>20, <1>23, <2>1 DEF Waiting, Owed
    <3>2. x # m
      BY <1>21, <1>22, <3>1
    <3>3. x \in Owed(mem, C)
      BY <1>13, <3>1, <3>2 DEF Owed
    <3> QED BY <3>1, <3>2, <3>3 DEF Waiting
  <2>2. ASSUME NEW x \in W, x # m PROVE x \in V
    <3>1. x \in Owed(mem, C) /\ x \notin InHand(heap, mem, stack) /\ x \in AllMem
      BY <2>2 DEF Waiting, Owed
    <3>2. x # RootMem
      BY <1>20, <1>21, <2>2 DEF Waiting
    <3>3. x \in Owed(G, C)
      BY <1>13, <2>2, <3>1 DEF Owed
    <3> QED BY <1>18, <1>23, <3>1, <3>2, <3>3 DEF Waiting
  <2>3. W \subseteq AllMem
    BY DEF Waiting, Owed
  <2> HIDE DEF W
  <2> QED BY <2>1, <2>2, <2>3
<1>25. ASSUME NEW x \in V \ {RootMem}, NEW j \in 1..mem[m].size, Spot(heap, mem, m, j, x)
       PROVE  x \in Facing(heap, G, t)
  <2>1. Ahead(t[n], G[m]) = 1..mem[m].size
    BY <1>12 DEF Ahead
  <2>2. x \in AllMem
    BY <1>24, <1>25
  <2>3. Spot(heap, G, m, j, x)
    BY <1>5, <1>13, <1>25 DEF Spot
  <2>4. MemAt(heap, t, n) = m
    BY <1>3, <1>4, <1>16
  <2>5. x \in Faced(heap, G, t, n)
    BY <1>25, <2>1, <2>2, <2>3, <2>4 DEF Faced
  <2> QED BY <1>3, <1>12, <2>2, <2>5 DEF Facing
<1>26. ASSUME NEW x \in V \ {RootMem}, x \in Faced(heap, mem, stack, n)
       PROVE  x \in Facing(heap, G, t)
  <2>1. Ahead(stack[n], mem[m]) = 1..mem[m].size
    BY <1>1, <1>3 DEF Ahead
  <2>2. PICK j \in 1..mem[m].size : Spot(heap, mem, m, j, x)
    BY <1>3, <1>4, <1>26, <2>1 DEF Faced
  <2> QED BY <1>25, <2>2
<1>27. Reach(V, Facing(heap, G, t), Refs(heap, G))
  <2>1. Len(t) \in Nat /\ Len(t) >= n - 1
    BY <1>3, <1>12
  <2>2. V \subseteq W
    BY <1>24
  <2>3. ASSUME NEW p \in W
        PROVE  \/ p \in V /\ G[p].slots = mem[p].slots /\ G[p].size = mem[p].size
               \/ \A j \in 1..mem[p].size, x \in V \ {RootMem} :
                    Spot(heap, mem, p, j, x) => x \in Facing(heap, G, t)
    BY <1>13, <1>24, <1>25, <2>3
  <2> QED BY <1>2, <1>15, <1>26, <2>1, <2>2, <2>3, SweepReach
<1>28. \A k \in 1..Len(t) : Shaded(heap, G, t, k)
  <2> SUFFICES ASSUME NEW k \in 1..n PROVE Shaded(heap, G, t, k)
    BY <1>12
  <2>1. MemAt(heap, stack, k) \in AllMem
    BY <1>3, <1>4, <1>5, UpTo
  <2>2. t[k].ph # "drain" /\ (k = Len(t) => t[k].ph = "scan")
    BY <1>3, <1>12, UpTo
  <2>3. MemAt(heap, stack, k) # m => G[MemAt(heap, t, k)].color # "BLACK"
    <3>1. ASSUME MemAt(heap, stack, k) # m PROVE stack[k].ph # "enter"
      BY <1>3, <1>4, <3>1, UpTo
    <3>2. Shaded(heap, mem, stack, k)
      BY <1>3 DEF Sweeping
    <3> QED BY <1>13, <1>16, <2>1, <3>1, <3>2 DEF Shaded
  <2>4. G[MemAt(heap, t, k)].color # "BLACK"
    BY <1>14, <1>16, <2>3
  <2> QED BY <2>2, <2>4 DEF Shaded
<1>29. t[1].h = Root
  <2>1. 1 \in 1..n
    <3>1. \A k \in Nat : k >= 1 => 1 \in 1..k
      OBVIOUS
    <3> QED BY <1>3, <3>1
  <2> QED BY <1>3, <1>16, <2>1
<1>30. MemColors(G, C, {})
  BY <1>1, <1>3, <1>4, <1>13, <1>14, <1>17 DEF MemColors
<1>31. RootColor'
  <2>1. RootMem \in AllMem
    BY DEF AllMem
  <2>2. mem'[RootMem].color = "WHITE" => mem[RootMem].color = "WHITE"
    BY <1>9, <1>13, <1>14, <2>1
  <2>3. mem'[RootMem].color # "BLACK"
    BY <1>1, <1>3, <1>9, <1>13, <1>14, <1>20, <1>21, <2>1 DEF RootColor
  <2> QED BY <1>1, <1>3, <2>2, <2>3 DEF RootColor
<1>32. Sweeping(heap, G, t, C) /\ Condemned' = C
  BY <1>1, <1>23, <1>27, <1>28, <1>29 DEF Sweeping, Condemned
<1> QED BY <1>1, <1>9, <1>17, <1>30, <1>31, <1>32, SweepJoin

\* One iteration of do_sweep().
LEMMA SweepScanColors ==
  ASSUME Inductive, Colors, SweepScan
  PROVE  Colors'
<1>1. /\ pc = "sweep" /\ pc' = "sweep" /\ stack # <<>> /\ Top.ph = "scan" /\ heap' = heap
  BY DEF SweepScan, AtFrame
<1>2. /\ Sweeps /\ TopMem \in AllMem /\ Sized(mem[TopMem]) /\ GoodControl /\ GoodHeap(heap)
      /\ Top.i \in Nat /\ Top.i <= mem[TopMem].size
  BY <1>1, SweepFacts DEF Sweeps
<1>3. acts \in Seq(Act) /\ acts # <<>>
  BY <1>1, <1>2 DEF GoodControl
<1>4. CASE Top.i = 0
  <2>1. mem' = Put(mem, TopMem, Leave(mem[TopMem])) /\ stack' = Pop /\ acts' = acts
    BY <1>4 DEF SweepScan, Put
  <2> QED BY <1>1, <1>2, <1>4, <2>1, ReturnColors
<1>5. CASE Top.i # 0
  <2>1. Top.i >= 1 /\ Top.i \in 1..mem[TopMem].size
    <3>1. mem[TopMem].size \in Nat
      BY <1>2, SizedFacts
    <3> QED BY <1>2, <1>5, <3>1
  <2>2. TopEntry \in Entry
    BY <1>2, <2>1, SizedFacts DEF TopEntry
  <2>3. IF IsHeapRef(TopEntry)
        THEN HeapOk(TopEntry.ptr) /\ SweepRef(TopEntry) /\ UNCHANGED <<mem, acts>>
        ELSE /\ stack' = Goto("scan", Top.i - 1)
             /\ IF TopEntry.ref THEN UNCHANGED <<mem, acts>> ELSE SweepValue(TopEntry)
    BY <1>5 DEF SweepScan, TopEntry
  <2>4. ASSUME NEW N, SameButVectors(mem[TopMem], N), mem' = Put(mem, TopMem, N),
               \A k \in 1..Top.i - 1 : N.slots[k] = mem[TopMem].slots[k],
               stack' = Goto("scan", Top.i - 1), Condemned' = Condemned,
               \A m \in Waiting(heap, mem, stack, Condemned) \ {RootMem} :
                 ~Spot(heap, mem, TopMem, Top.i, m)
        PROVE  Colors'
    <3>1. PICK D : D = Condemned
      BY Zenon
    <3>2. Condemned' = D /\ Condemned \subseteq D /\ D \ Condemned = {} /\ Top.ph = "scan"
      BY <1>1, <2>4, <3>1
    <3>3. \A m \in D : m \in Condemned
      BY <3>1
    <3> QED BY <1>1, <1>2, <2>1, <2>4, <3>2, <3>3, PassColors
  <2>5. ASSUME mem' = mem, acts' = acts, stack' = Goto("scan", Top.i - 1),
               \A m \in Waiting(heap, mem, stack, Condemned) \ {RootMem} :
                 ~Spot(heap, mem, TopMem, Top.i, m)
        PROVE  Colors'
    <3>1. mem' = Put(mem, TopMem, mem[TopMem]) /\ SameButVectors(mem[TopMem], mem[TopMem])
      <4>1. GoodMem(mem)
        BY <1>2, MemFacts DEF GoodData, Sweeps
      <4> QED BY <1>2, <2>5, <4>1 DEF Put, SameButVectors, GoodMem
    <3>2. Condemned' = Condemned
      BY <2>5 DEF Condemned
    <3> QED BY <2>4, <2>5, <3>1, <3>2
  <2>6. ~IsHeapRef(TopEntry) => \A m : ~Spot(heap, mem, TopMem, Top.i, m)
    BY DEF Spot, TopEntry
  <2>7. CASE ~IsHeapRef(TopEntry) /\ mem' = mem /\ acts' = acts
    BY <2>3, <2>5, <2>6, <2>7
  <2>8. CASE ~IsHeapRef(TopEntry) /\ ~(mem' = mem /\ acts' = acts)
    <3>1. SweepValue(TopEntry) /\ stack' = Goto("scan", Top.i - 1)
      BY <2>3, <2>8
    <3>2. PICK N : N = RemoveEntry(mem[TopMem], Top.i)
      BY Zenon
    <3>3. mem' = Put(mem, TopMem, N) /\ acts' = Queue(TopEntry)
      BY <2>8, <3>1, <3>2 DEF SweepValue, Put
    <3>4. SameButVectors(mem[TopMem], N)
      BY <1>2, <2>1, <3>2, RemoveEntryType
    <3>5. \A k \in 1..Top.i - 1 : N.slots[k] = mem[TopMem].slots[k]
      BY <1>2, <2>1, <3>2, RemoveEntryKeeps
    <3>6. Condemned' = Condemned
      BY <1>3, <3>3, QueueDoomed DEF Condemned
    <3> QED BY <2>4, <2>6, <2>8, <3>1, <3>3, <3>4, <3>5, <3>6
  <2>9. CASE IsHeapRef(TopEntry)
    <3>1. HeapOk(TopEntry.ptr) /\ SweepRef(TopEntry) /\ mem' = mem /\ acts' = acts
      BY <2>3, <2>9
    <3>2. TopEntry.ptr \in AllHeap /\ heap[TopEntry.ptr].st = "live"
      BY <2>2, <2>9, <3>1 DEF Entry, IsHeapRef, AllHeap, HeapOk
    <3>3. RefMem \in AllMem
      BY <1>2, <3>2, HeapHasMem DEF RefMem
    <3>4. CASE mem[RefMem].seen
      <4>1. stack' = Goto("scan", Top.i - 1)
        BY <3>1, <3>4 DEF SweepRef, RefMem
      <4>2. \E k \in 1..Len(stack) : Iterates(k, RefMem)
        <5>1. mem[RefMem].seen = (pc = "sweep" /\ \E k \in 1..Len(stack) : Iterates(k, RefMem))
          BY <1>1, <3>3 DEF Inductive, SeenIsOnStack
        <5> QED BY <3>4, <5>1
      <4>3. RefMem \notin Waiting(heap, mem, stack, Condemned)
        BY <1>2, <4>2, IteratedNotWaiting DEF Iterates, MemAt
      <4>4. \A m : Spot(heap, mem, TopMem, Top.i, m) => m = RefMem
        BY DEF Spot, RefMem, TopEntry
      <4> QED BY <2>5, <3>1, <4>1, <4>3, <4>4
    <3>5. CASE ~mem[RefMem].seen
      <4>1. stack' = Append(Goto("back", Top.i), Frame(TopEntry.ptr))
        BY <3>1, <3>5 DEF SweepRef, RefMem
      <4>2. PICK r : r = RefMem
        BY Zenon
      <4> QED BY <1>1, <1>2, <2>1, <3>1, <3>2, <3>3, <4>1, <4>2, CallColors
    <3> QED BY <3>4, <3>5
  <2> QED BY <2>7, <2>8, <2>9
<1> QED BY <1>4, <1>5

\* An activation works on the Memory that it refers to.
LEMMA HandColors ==
  ASSUME Sweeps, Top.ph \in {"back", "drain"}, pc' = "sweep", heap' = heap,
         Condemned' = Condemned, NEW r, r = RefMem, NEW N, mem' = Put(mem, r, N),
         N.st = mem[r].st, N.color = mem[r].color, mem[r].color = "WHITE",
         Len(stack') = Len(stack), \A k \in 1..Len(stack) - 1 : stack'[k] = stack[k],
         stack'[Len(stack)].h = Top.h, stack'[Len(stack)].i = Top.i,
         stack'[Len(stack)].ph = "drain"
  PROVE  Colors'
<1> DEFINE n == Len(stack)
           C == Condemned
           W == Waiting(heap, mem, stack, C)
<1>1. PICK G, t : G = mem' /\ t = stack'
  BY Zenon
<1>2. /\ MemColors(mem, C, Draining(heap, mem, stack)) /\ RootColor
      /\ Sweeping(heap, mem, stack, C)
      /\ stack \in Seq(FrameT) /\ n \in Nat /\ n >= 1 /\ n \in 1..n
      /\ Top = stack[n]
      /\ \A k \in 1..n - 1 : stack[k].ph = "back" /\ MemAt(heap, stack, k) \in AllMem
      /\ MemAt(heap, stack, n) = TopMem /\ EntryMem(heap, mem, stack, n) = r
      /\ stack[1].h = Root
  BY SweepColorFacts
<1>3. /\ Inductive /\ pc = "sweep" /\ stack # <<>> /\ TopMem \in AllMem
      /\ r \in Mem /\ r \in AllMem /\ Free(stack, r)
  BY SweepFacts, RefFacts DEF Sweeps
<1>4. \A x \in AllMem : G[x] = IF x = r THEN N ELSE mem[x]
  BY <1>1, <1>3, MemFacts DEF Put
<1>5. /\ Len(t) = n /\ \A k \in 1..n - 1 : t[k] = stack[k]
      /\ t[n].h = stack[n].h /\ t[n].i = stack[n].i /\ t[n].ph = "drain"
  BY <1>1, <1>2
<1>6. \A x \in AllMem : G[x].st = mem[x].st /\ G[x].color = mem[x].color
  BY <1>4
<1>7. \A k \in 1..n : /\ stack[k].ph # "enter" /\ t[k].ph # "enter" /\ stack[k].ph \in {"back", "drain"}
                      /\ t[k].h = stack[k].h /\ t[k].i = stack[k].i /\ t[k].ph \in {"back", "drain"}
  BY <1>2, <1>5, UpTo
<1>8. \A k \in 1..n : /\ MemAt(heap, stack, k) \in AllMem /\ MemAt(heap, stack, k) # r
                      /\ MemAt(heap, t, k) = MemAt(heap, stack, k)
  BY <1>2, <1>3, <1>7, UpTo DEF Free, MemAt
<1>9. \A k \in 1..n : G[MemAt(heap, stack, k)] = mem[MemAt(heap, stack, k)]
  BY <1>4, <1>8
<1>10. \A k \in 1..n : EntryMem(heap, G, t, k) = EntryMem(heap, mem, stack, k)
  BY <1>7, <1>8, <1>9 DEF EntryMem
<1>11. Kept(G, t)
  BY <1>2, <1>5, <1>9, UpTo DEF Kept
<1>12. 1 \in 1..n
  <2>1. \A k \in Nat : k >= 1 => 1 \in 1..k
    OBVIOUS
  <2> QED BY <1>2, <2>1
<1>13. ~AtRoot(t) /\ ~AtRoot(stack)
  BY <1>7, <1>12 DEF AtRoot
<1>14. InHand(heap, G, t) = InHand(heap, mem, stack)
  BY <1>5, <1>7, <1>10 DEF InHand
<1>15. r \in InHand(heap, mem, stack)
  BY <1>2, <1>3, <1>7 DEF InHand
<1>16. Owed(G, C) = Owed(mem, C)
  BY <1>6, OwedSame
<1>17. Waiting(heap, G, t, C) = W
  BY <1>13, <1>14, <1>16 DEF Waiting
<1>18. W \subseteq AllMem /\ r \notin W
  BY <1>15 DEF Waiting, Owed
<1>19. ASSUME NEW m \in W \ {RootMem}, m \in Faced(heap, mem, stack, n)
       PROVE  m \in Facing(heap, G, t)
  <2>1. PICK M : M = mem[TopMem] /\ M = G[TopMem]
    BY <1>2, <1>9
  <2>2. Ahead(t[n], M) = Ahead(stack[n], M)
    BY <1>2, <1>5 DEF Ahead
  <2>3. PICK j \in Ahead(stack[n], M) : Spot(heap, mem, TopMem, j, m)
    BY <1>2, <1>19, <2>1 DEF Faced
  <2>4. Spot(heap, G, TopMem, j, m)
    BY <2>1, <2>3 DEF Spot
  <2>5. MemAt(heap, t, n) = TopMem /\ m \in AllMem
    BY <1>2, <1>8, <1>18, <1>19
  <2>6. m \in Faced(heap, G, t, n)
    BY <2>1, <2>2, <2>3, <2>4, <2>5 DEF Faced
  <2> QED BY <1>2, <1>5, <2>5, <2>6 DEF Facing
<1>20. Reach(W, Facing(heap, G, t), Refs(heap, G))
  <2>1. Len(t) \in Nat /\ Len(t) >= n - 1
    BY <1>2, <1>5
  <2>2. \A p \in W : p \in W /\ G[p].slots = mem[p].slots /\ G[p].size = mem[p].size
    BY <1>4, <1>18
  <2> QED BY <1>11, <1>19, <2>1, <2>2, SweepReach
<1>21. \A k \in 1..Len(t) : Shaded(heap, G, t, k)
  <2> SUFFICES ASSUME NEW k \in 1..n PROVE Shaded(heap, G, t, k)
    BY <1>5
  <2>1. Shaded(heap, mem, stack, k)
    BY <1>2 DEF Sweeping
  <2>2. G[MemAt(heap, t, k)].color # "BLACK"
    BY <1>7, <1>8, <1>9, <2>1 DEF Shaded
  <2>3. k # n => t[k].ph = "back" /\ k # Len(t)
    BY <1>2, <1>5, UpTo
  <2>4. k = n => EntryMem(heap, G, t, k) = r /\ t[k].ph = "drain"
    BY <1>2, <1>5, <1>10
  <2>5. G[r].color = "WHITE"
    BY <1>3, <1>6
  <2> QED BY <2>2, <2>3, <2>4, <2>5 DEF Shaded
<1>22. MemColors(G, C, Draining(heap, G, t))
  <2>1. r \in Draining(heap, G, t)
    BY <1>1, <1>2, <1>3, <1>5, <1>10 DEF Draining
  <2>2. Draining(heap, mem, stack) \subseteq {r}
    BY <1>2 DEF Draining
  <2>3. \A x \in AllMem : x # r => G[x].keep = mem[x].keep
    BY <1>4
  <2> QED BY <1>2, <1>6, <2>1, <2>2, <2>3 DEF MemColors
<1>23. RootColor'
  <2>1. mem'[RootMem].color = mem[RootMem].color
    BY <1>1, <1>6 DEF AllMem
  <2> QED BY <1>2, <1>3, <1>13, <2>1 DEF RootColor
<1>24. Sweeping(heap, G, t, C)
  BY <1>2, <1>7, <1>12, <1>17, <1>20, <1>21 DEF Sweeping
<1> QED BY <1>1, <1>22, <1>23, <1>24, SweepJoin

\* The return of a recursive call.
LEMMA SweepBackColors ==
  ASSUME Inductive, Colors, SweepBack
  PROVE  Colors'
<1>1. /\ pc = "sweep" /\ pc' = "sweep" /\ stack # <<>> /\ Top.ph = "back" /\ heap' = heap
  BY DEF SweepBack, AtFrame
<1>2. /\ Sweeps /\ TopMem \in AllMem /\ Sized(mem[TopMem]) /\ GoodControl
      /\ Top.i \in Nat /\ Top.i \in 1..mem[TopMem].size /\ Top.i >= 1
      /\ RefMem \in AllMem /\ Sized(mem[RefMem]) /\ DOMAIN mem = AllMem
      /\ stack \in Seq(FrameT) /\ Len(stack) \in Nat /\ Len(stack) >= 1
  BY <1>1, SweepFacts, RefFacts, MemFacts DEF Sweeps
<1>3. acts \in Seq(Act) /\ acts # <<>>
  BY <1>1, <1>2 DEF GoodControl
<1>4. PICK r : r = RefMem
  BY Zenon
<1>5. /\ MemColors(mem, Condemned, Draining(heap, mem, stack))
      /\ Sweeping(heap, mem, stack, Condemned)
      /\ Top = stack[Len(stack)] /\ EntryMem(heap, mem, stack, Len(stack)) = r
  BY <1>2, <1>4, SweepColorFacts
<1>6. \/ /\ mem[r].keep /\ mem' = Put(mem, TopMem, RemoveEntry(mem[TopMem], Top.i))
         /\ acts' = Queue(TopEntry) /\ stack' = Goto("scan", Top.i - 1)
      \/ /\ mem[r].color = "WHITE" /\ mem' = Put(mem, r, [mem[r] EXCEPT !.keep = TRUE])
         /\ acts' = acts /\ stack' = Goto("drain", Top.i)
      \/ /\ mem[r].color # "WHITE" /\ mem' = mem /\ acts' = acts
         /\ stack' = Goto("scan", Top.i - 1)
  BY <1>4 DEF SweepBack, Put, TopEntry, RefMem
<1>7. ASSUME NEW N, SameButVectors(mem[TopMem], N), mem' = Put(mem, TopMem, N),
             \A k \in 1..Top.i - 1 : N.slots[k] = mem[TopMem].slots[k],
             stack' = Goto("scan", Top.i - 1), Condemned' = Condemned,
             r \notin Owed(mem, Condemned)
      PROVE  Colors'
  <2>1. PICK D : D = Condemned
    BY Zenon
  <2>2. /\ Condemned' = D /\ Condemned \subseteq D /\ RefMem \notin D \ Condemned
        /\ RefMem \notin Owed(mem, D) /\ Top.ph # "scan" /\ Top.ph # "enter"
    BY <1>1, <1>4, <1>7, <2>1
  <2>3. \A m \in D : m \in Condemned
    BY <2>1
  <2> QED BY <1>1, <1>2, <1>7, <2>2, <2>3, PassColors
<1>8. CASE /\ mem[r].keep /\ mem' = Put(mem, TopMem, RemoveEntry(mem[TopMem], Top.i))
           /\ acts' = Queue(TopEntry) /\ stack' = Goto("scan", Top.i - 1)
  <2>1. PICK N : N = RemoveEntry(mem[TopMem], Top.i)
    BY Zenon
  <2>2. SameButVectors(mem[TopMem], N)
    BY <1>2, <2>1, RemoveEntryType
  <2>3. \A k \in 1..Top.i - 1 : N.slots[k] = mem[TopMem].slots[k]
    BY <1>2, <2>1, RemoveEntryKeeps
  <2>4. Condemned' = Condemned
    BY <1>3, <1>8, QueueDoomed DEF Condemned
  <2>5. Draining(heap, mem, stack) = {}
    BY <1>1, <1>5 DEF Draining
  <2>6. r \notin Owed(mem, Condemned)
    BY <1>2, <1>4, <1>5, <1>8, <2>5 DEF MemColors, Owed
  <2> QED BY <1>7, <1>8, <2>1, <2>2, <2>3, <2>4, <2>6
<1>9. CASE /\ mem[r].color = "WHITE" /\ mem' = Put(mem, r, [mem[r] EXCEPT !.keep = TRUE])
           /\ acts' = acts /\ stack' = Goto("drain", Top.i)
  <2>1. PICK N : N = [mem[r] EXCEPT !.keep = TRUE]
    BY Zenon
  <2>2. N.st = mem[r].st /\ N.color = mem[r].color
    BY <1>2, <1>4, <2>1 DEF Sized, Memory
  <2>3. /\ Len(stack') = Len(stack) /\ \A k \in 1..Len(stack) - 1 : stack'[k] = stack[k]
        /\ stack'[Len(stack)] = [h |-> Top.h, ph |-> "drain", i |-> Top.i]
    BY <1>1, <1>2, <1>9, GotoFacts
  <2>4. Condemned' = Condemned /\ Top.ph \in {"back", "drain"} /\ mem' = Put(mem, r, N)
    BY <1>1, <1>9, <2>1 DEF Condemned
  <2>5. /\ stack'[Len(stack)].h = Top.h /\ stack'[Len(stack)].i = Top.i
        /\ stack'[Len(stack)].ph = "drain"
    BY <2>3
  <2> QED BY <1>1, <1>2, <1>4, <1>9, <2>2, <2>3, <2>4, <2>5, HandColors
<1>10. CASE /\ mem[r].color # "WHITE" /\ mem' = mem /\ acts' = acts
            /\ stack' = Goto("scan", Top.i - 1)
  <2>1. Len(stack) \in 1..Len(stack)
    BY <1>2
  <2>2. mem[r].color # "BLACK"
    BY <1>1, <1>5, <2>1 DEF Sweeping, Shaded
  <2>3. mem[r].color = "GRAY"
    BY <1>2, <1>4, <1>10, <2>2 DEF Sized, Memory
  <2>4. r \notin Owed(mem, Condemned)
    BY <2>3 DEF Owed
  <2>5. mem' = Put(mem, TopMem, mem[TopMem]) /\ SameButVectors(mem[TopMem], mem[TopMem])
    <3>1. GoodMem(mem)
      BY MemFacts DEF GoodData
    <3> QED BY <1>2, <1>10, <3>1 DEF Put, SameButVectors, GoodMem
  <2>6. Condemned' = Condemned
    BY <1>10 DEF Condemned
  <2> QED BY <1>7, <1>10, <2>4, <2>5, <2>6
<1> QED BY <1>6, <1>8, <1>9, <1>10

\* A Memory with no index left has no entry left.
LEMMA DrainedIsEmpty ==
  ASSUME NEW M, Sized(M), Matched(M), M.indexes = <<>>
  PROVE  M.size = 0
<1> SUFFICES ASSUME M.size # 0 PROVE FALSE
  OBVIOUS
<1>1. 1 \in 1..M.size /\ M.size \in Nat
  BY SizedFacts
<1>2. PICK x : x = M.slots[1].index
  BY Zenon
<1>3. IndexCount(M, x) # 0
  BY <1>1, <1>2, EntryHasIndex
<1>4. At(M.indexes, 0, x) = {}
  BY DEF At
<1>5. Count(M.indexes, 0, x) = 0
  BY <1>4, CountType
<1> QED BY <1>3, <1>5 DEF IndexCount

\* A WHITE Memory is drained, and condemned once it is empty.
LEMMA SweepDrainColors ==
  ASSUME Inductive, AllMatched(mem), Colors, SweepDrain
  PROVE  Colors'
<1>1. /\ pc = "sweep" /\ pc' = "sweep" /\ stack # <<>> /\ Top.ph = "drain" /\ heap' = heap
  BY DEF SweepDrain, AtFrame
<1>2. /\ Sweeps /\ TopMem \in AllMem /\ Sized(mem[TopMem]) /\ GoodControl
      /\ Top.i \in Nat /\ Top.i \in 1..mem[TopMem].size /\ Top.i >= 1
      /\ RefMem \in AllMem /\ Sized(mem[RefMem]) /\ DOMAIN mem = AllMem
      /\ stack \in Seq(FrameT) /\ Len(stack) \in Nat /\ Len(stack) >= 1
  BY <1>1, SweepFacts, RefFacts, MemFacts DEF Sweeps
<1>3. acts \in Seq(Act) /\ acts # <<>>
  BY <1>1, <1>2 DEF GoodControl
<1>4. PICK r, x : r = RefMem /\ x = Last(mem[r].indexes)
  BY Zenon
<1>5. /\ MemColors(mem, Condemned, Draining(heap, mem, stack))
      /\ Sweeping(heap, mem, stack, Condemned)
      /\ Top = stack[Len(stack)] /\ EntryMem(heap, mem, stack, Len(stack)) = r
  BY <1>2, <1>4, SweepColorFacts
<1>6. mem[r].color = "WHITE"
  <2>1. Len(stack) \in 1..Len(stack)
    BY <1>2
  <2> QED BY <1>1, <1>5, <2>1 DEF Sweeping, Shaded
<1>7. \/ /\ mem[r].indexes # <<>> /\ x < Len(mem[r].slots)
         /\ mem' = Put(mem, r, DrainOne(mem[r], x))
         /\ acts' = Queue(mem[r].slots[x + 1]) /\ stack' = stack
      \/ /\ mem[r].indexes = <<>> /\ mem' = Put(mem, TopMem, RemoveEntry(mem[TopMem], Top.i))
         /\ acts' = Queue2(TopEntry, IF mem[r].size = 0 THEN <<r>> ELSE <<>>)
         /\ stack' = Goto("scan", Top.i - 1)
  BY <1>4 DEF SweepDrain, Put, TopEntry, RefMem
<1>8. CASE /\ mem[r].indexes # <<>> /\ x < Len(mem[r].slots)
           /\ mem' = Put(mem, r, DrainOne(mem[r], x))
           /\ acts' = Queue(mem[r].slots[x + 1]) /\ stack' = stack
  <2>1. PICK N, e : N = DrainOne(mem[r], x) /\ e = mem[r].slots[x + 1]
    BY Zenon
  <2>2. x \in Nat
    BY <1>2, <1>4, <1>8, SizedFacts DEF Last
  <2>3. SameButVectors(mem[r], N)
    BY <1>2, <1>4, <1>8, <2>1, <2>2, DrainOneType
  <2>4. Condemned' = Condemned
    BY <1>3, <1>8, <2>1, QueueDoomed DEF Condemned
  <2>5. /\ Len(stack') = Len(stack) /\ \A k \in 1..Len(stack) - 1 : stack'[k] = stack[k]
        /\ stack'[Len(stack)].h = Top.h /\ stack'[Len(stack)].i = Top.i
        /\ stack'[Len(stack)].ph = "drain"
    BY <1>1, <1>5, <1>8
  <2>6. N.st = mem[r].st /\ N.color = mem[r].color /\ mem' = Put(mem, r, N)
    BY <1>8, <2>1, <2>3 DEF SameButVectors
  <2>7. Top.ph \in {"back", "drain"}
    BY <1>1
  <2> QED BY <1>1, <1>2, <1>4, <1>6, <2>4, <2>5, <2>6, <2>7, HandColors
<1>9. CASE /\ mem[r].indexes = <<>> /\ mem' = Put(mem, TopMem, RemoveEntry(mem[TopMem], Top.i))
           /\ acts' = Queue2(TopEntry, IF mem[r].size = 0 THEN <<r>> ELSE <<>>)
           /\ stack' = Goto("scan", Top.i - 1)
  <2>1. mem[r].size = 0
    BY <1>2, <1>4, <1>9, DrainedIsEmpty DEF AllMatched
  <2>2. Condemned' = Condemned \cup {r}
    <3>1. acts' = Queue2(TopEntry, <<r>>)
      BY <1>9, <2>1
    <3>2. Doomed(Queue2(TopEntry, <<r>>)) = Condemned \cup {r}
      BY <1>2, <1>3, <1>4, QueueDoomed
    <3> QED BY <3>1, <3>2 DEF Condemned
  <2>3. PICK N, D : N = RemoveEntry(mem[TopMem], Top.i) /\ D = Condemned \cup {r}
    BY Zenon
  <2>4. SameButVectors(mem[TopMem], N)
    BY <1>2, <2>3, RemoveEntryType
  <2>5. \A k \in 1..Top.i - 1 : N.slots[k] = mem[TopMem].slots[k]
    BY <1>2, <2>3, RemoveEntryKeeps
  <2>6. RefMem \notin Owed(mem, D)
    BY <1>4, <2>3 DEF Owed
  <2>7. mem[RefMem].st # "unused" /\ mem[RefMem].color = "WHITE"
    BY <1>2, <1>4, <1>5, <1>6 DEF MemColors
  <2>8. /\ Condemned' = D /\ Condemned \subseteq D /\ Top.ph # "scan" /\ Top.ph # "enter"
        /\ \A m \in D : m \in Condemned \/ m = RefMem
    BY <1>1, <1>4, <2>2, <2>3
  <2>9. mem' = Put(mem, TopMem, N) /\ stack' = Goto("scan", Top.i - 1)
    BY <1>9, <2>3
  <2> QED BY <1>1, <1>2, <2>4, <2>5, <2>6, <2>7, <2>8, <2>9, PassColors
<1> QED BY <1>7, <1>8, <1>9

\* Nothing but the root list is left painted when do_sweep() has returned.
LEMMA SweepDoneColors ==
  ASSUME Colors, SweepDone
  PROVE  Colors'
<1> DEFINE C == Condemned
<1>1. /\ pc = "sweep" /\ pc' = "destroy" /\ stack = <<>> /\ stack' = stack
      /\ heap' = heap /\ mem' = mem /\ acts' = acts
  BY DEF SweepDone
<1>2. MemColors(mem, C, Draining(heap, mem, stack)) /\ RootColor /\ Sweeping(heap, mem, stack, C)
  BY <1>1 DEF Colors
<1>3. Len(stack) = 0
  BY <1>1
<1>4. Facing(heap, mem, stack) = {} /\ InHand(heap, mem, stack) = {} /\ ~AtRoot(stack)
  BY <1>1, <1>3 DEF Facing, InHand, AtRoot
<1>5. PICK W : W = Waiting(heap, mem, stack, C)
  BY Zenon
<1>6. Reach(W, {}, Refs(heap, mem)) /\ RootMem \notin W
  BY <1>2, <1>4, <1>5 DEF Sweeping, Waiting
<1>7. W = {}
  BY <1>6, ReachNothing
<1>8. Owed(mem, C) \subseteq {RootMem}
  BY <1>4, <1>5, <1>7 DEF Waiting
<1>9. RootColor'
  BY <1>1, <1>2, <1>4 DEF RootColor
<1>10. Condemned' = C /\ Draining(heap', mem', stack') = Draining(heap, mem, stack)
  BY <1>1 DEF Condemned
<1>11. Owed(mem', C) \subseteq {RootMem} /\ MemColors(mem', C, Draining(heap', mem', stack'))
  BY <1>1, <1>2, <1>8
<1> QED BY <1>1, <1>9, <1>10, <1>11 DEF Colors

\* Where no activation of mark() or do_sweep() is alive.
LEMMA SettledJoin ==
  ASSUME pc' \notin {"mark", "sweep"}, stack' = <<>>,
         pc' \notin {"fault", "exited"} =>
           /\ MemColors(mem', Condemned', {}) /\ RootColor'
           /\ Owed(mem', Condemned') \subseteq {RootMem}
  PROVE  Colors'
<1>1. Draining(heap', mem', stack') = {}
  BY DEF Draining
<1> QED BY <1>1 DEF Colors

LEMMA SettledFacts ==
  ASSUME Inductive, Colors, pc \in {"run", "callback", "destroy"}
  PROVE  /\ stack = <<>> /\ acts \in Seq(Act)
         /\ pc \in {"callback", "destroy"} => acts # <<>>
         /\ MemColors(mem, Condemned, {}) /\ RootColor
         /\ Owed(mem, Condemned) \subseteq {RootMem}
<1>1. /\ stack = <<>> /\ acts \in Seq(Act)
      /\ pc \in {"callback", "destroy"} => acts # <<>>
  BY DEF Inductive, GoodControl
<1>2. Draining(heap, mem, stack) = {}
  BY <1>1 DEF Draining
<1> QED BY <1>1, <1>2 DEF Colors

\* The destructors of heaps, payloads and boxed objects.
LEMMA RunDestructorColors ==
  ASSUME Inductive, Colors, RunDestructor
  PROVE  Colors'
<1>1. /\ pc = "destroy" /\ mem' = mem /\ stack' = stack /\ pc' \in {"destroy", "callback", "fault"}
      /\ acts' = [acts EXCEPT ![Len(acts)].list = Front(@)]
  BY DEF RunDestructor
<1>2. PICK p : p = Last(ActTop.list).ptr
  BY Zenon
<1>3. heap' = heap \/ (p \in Heap /\ heap' = [heap EXCEPT ![p].st = "freed"])
  BY <1>2 DEF RunDestructor
<1>4. heap'[Root] = heap[Root]
  <2>1. p \in Heap => p # Root
    BY DistinctIds
  <2>2. DOMAIN heap = AllHeap /\ Root \in AllHeap
    BY ObjectTypes DEF AllHeap
  <2>3. CASE heap' = heap
    BY <2>3
  <2>4. CASE p \in Heap /\ heap' = [heap EXCEPT ![p].st = "freed"]
    BY <2>1, <2>2, <2>4
  <2> QED BY <1>3, <2>3, <2>4
<1>5. /\ stack = <<>> /\ acts \in Seq(Act) /\ acts # <<>>
      /\ MemColors(mem, Condemned, {}) /\ RootColor /\ Owed(mem, Condemned) \subseteq {RootMem}
  BY <1>1, SettledFacts
<1>6. Condemned' = Condemned
  <2>1. PICK n, L : n = Len(acts) /\ L = Front(acts[n].list)
    BY Zenon
  <2>2. n \in 1..n /\ acts[n] \in Act
    BY <1>5, <2>1
  <2>3. PICK A : A = [acts[n] EXCEPT !.list = L]
    BY Zenon
  <2>4. A.mlist = acts[n].mlist /\ acts' = [acts EXCEPT ![n] = A]
    BY <1>1, <2>1, <2>2, <2>3 DEF Act
  <2>5. Queued(A) = Queued(acts[n])
    BY <2>4 DEF Queued
  <2> QED BY <1>5, <2>1, <2>4, <2>5, DoomedSame DEF Condemned
<1>7. RootColor'
  BY <1>1, <1>4, <1>5 DEF RootColor
<1> QED BY <1>1, <1>5, <1>6, <1>7, SettledJoin

LEMMA ReturnCallColors ==
  ASSUME Inductive, Colors, Return
  PROVE  Colors'
<1>1. /\ pc = "callback" /\ pc' = "destroy" /\ mem' = mem /\ heap' = heap /\ stack' = stack
      /\ acts' = acts
  BY DEF Return
<1>2. /\ stack = <<>> /\ MemColors(mem, Condemned, {}) /\ RootColor
      /\ Owed(mem, Condemned) \subseteq {RootMem}
  BY <1>1, SettledFacts
<1>3. RootColor' /\ Condemned' = Condemned
  BY <1>1, <1>2 DEF RootColor, Condemned
<1> QED BY <1>1, <1>2, <1>3, SettledJoin

\* The destructor of a condemned Memory.
LEMMA RunMemoryDestructorColors ==
  ASSUME Inductive, Colors, RunMemoryDestructor
  PROVE  Colors'
<1>1. PICK n, m : n = Len(acts) /\ m = Last(ActTop.mlist)
  BY Zenon
<1>2. /\ pc = "destroy" /\ heap' = heap /\ stack' = stack /\ ActTop.mlist # <<>>
      /\ acts' = [acts EXCEPT ![n].mlist = Front(@)]
      /\ \/ pc' = "destroy" /\ mem' = [mem EXCEPT ![m].st = "freed"]
         \/ pc' = "fault"
  BY <1>1 DEF RunMemoryDestructor
<1>3. /\ stack = <<>> /\ acts \in Seq(Act) /\ acts # <<>>
      /\ MemColors(mem, Condemned, {}) /\ RootColor /\ Owed(mem, Condemned) \subseteq {RootMem}
  BY <1>2, SettledFacts
<1>4. n \in 1..n /\ acts[n] \in Act /\ ActTop = acts[n]
  BY <1>1, <1>3 DEF ActTop, Last
<1>5. PICK l : l = acts[n].mlist
  BY Zenon
<1>6. l \in Seq(Mem) /\ l # <<>> /\ m = l[Len(l)] /\ Len(l) \in Nat /\ Len(l) \in 1..Len(l)
  BY <1>1, <1>2, <1>4, <1>5 DEF Act, Last
<1>7. m \in Mem /\ m \in AllMem
  BY <1>6 DEF AllMem
<1>8. PICK L, A : L = Front(l) /\ A = [acts[n] EXCEPT !.mlist = L]
  BY Zenon
<1>9. A.mlist = L /\ acts' = [acts EXCEPT ![n] = A]
  BY <1>2, <1>4, <1>5, <1>8 DEF Act
<1>10. Len(L) = Len(l) - 1 /\ \A k \in 1..Len(l) - 1 : L[k] = l[k]
  BY <1>6, <1>8, FrontFacts
<1>11. Queued(acts[n]) \subseteq Queued(A) \cup {m} /\ Queued(A) \subseteq Queued(acts[n])
  <2>1. \A k \in 1..Len(l) : k \in 1..Len(l) - 1 \/ k = Len(l)
    BY <1>6
  <2>2. \A k \in 1..Len(l) - 1 : k \in 1..Len(l)
    BY <1>6
  <2>3. /\ Queued(acts[n]) = {l[j] : j \in 1..Len(l)}
        /\ Queued(A) = {L[j] : j \in 1..Len(l) - 1}
    BY <1>5, <1>9, <1>10, Zenon DEF Queued
  <2>4. Queued(A) \subseteq Queued(acts[n])
    BY <1>10, <2>2, <2>3
  <2>5. ASSUME NEW j \in 1..Len(l) PROVE l[j] \in Queued(A) \cup {m}
    <3>1. CASE j = Len(l)
      BY <1>6, <3>1, Zenon
    <3>2. CASE j \in 1..Len(l) - 1
      BY <1>10, <2>3, <3>2, Zenon
    <3> QED BY <2>1, <3>1, <3>2, Zenon
  <2> QED BY <2>3, <2>4, <2>5, Zenon
<1>12. Condemned \subseteq Condemned' \cup {m} /\ Condemned' \subseteq Condemned \cup {m}
  <2>1. Queued(A) \subseteq Queued(acts[n]) \cup {m}
    BY <1>11
  <2>2. PICK B : B = acts'
    BY Zenon
  <2>3. Doomed(acts) \subseteq Doomed(B) \cup {m} /\ Doomed(B) \subseteq Doomed(acts) \cup {m}
    <3>1. PICK X, E : X = {m} /\ E = acts
      BY Zenon
    <3>2. E \in Seq(Act) /\ E # <<>> /\ B = [E EXCEPT ![Len(E)] = A]
      BY <1>1, <1>3, <1>9, <2>2, <3>1
    <3>3. /\ Queued(E[Len(E)]) \subseteq Queued(A) \cup X
          /\ Queued(A) \subseteq Queued(E[Len(E)]) \cup X
      BY <1>1, <1>11, <2>1, <3>1
    <3>4. Doomed(E) \subseteq Doomed(B) \cup X /\ Doomed(B) \subseteq Doomed(E) \cup X
      BY <3>2, <3>3, DoomedLast
    <3> QED BY <3>1, <3>4, Zenon
  <2> QED BY <2>2, <2>3 DEF Condemned
<1>13. m \in Condemned
  <2>1. m \in Queued(acts[n])
    BY <1>5, <1>6 DEF Queued
  <2> QED BY <1>1, <1>4, <1>7, <2>1 DEF Condemned, Doomed
<1>14. PICK G, D : G = mem' /\ D = Condemned'
  BY Zenon
<1>15. ASSUME pc' = "destroy"
       PROVE  MemColors(G, D, {}) /\ RootColor' /\ Owed(G, D) \subseteq {RootMem}
  <2>1. \A x \in AllMem : /\ x = m => G[x].st = "freed"
                          /\ x # m => G[x].st = mem[x].st
                          /\ G[x].color = mem[x].color /\ G[x].keep = mem[x].keep
    <3>1. mem[m] \in Memory /\ DOMAIN mem = AllMem
      BY <1>7, MemFacts
    <3>2. G = [mem EXCEPT ![m].st = "freed"]
      BY <1>2, <1>14, <1>15
    <3>3. PICK N : N = [mem[m] EXCEPT !.st = "freed"]
      BY Zenon
    <3>4. N.st = "freed" /\ N.color = mem[m].color /\ N.keep = mem[m].keep
      BY <3>1, <3>3 DEF Memory
    <3>5. \A x \in AllMem : G[x] = IF x = m THEN N ELSE mem[x]
      BY <3>1, <3>2, <3>3
    <3> QED BY <3>4, <3>5
  <2>2. D \subseteq Condemned /\ Condemned \subseteq D \cup {m}
    BY <1>12, <1>13, <1>14
  <2>3. MemColors(G, D, {})
    <3> SUFFICES ASSUME NEW x \in AllMem
                 PROVE  /\ G[x].st = "unused" => G[x].color = "GRAY"
                        /\ x \in D => G[x].st # "unused" /\ (G[x].st = "live" => G[x].color = "WHITE")
                        /\ G[x].keep => x \in D \/ G[x].st # "live"
      BY DEF MemColors
    <3>1. /\ mem[x].st = "unused" => mem[x].color = "GRAY"
          /\ x \in Condemned => mem[x].st # "unused" /\ (mem[x].st = "live" => mem[x].color = "WHITE")
          /\ mem[x].keep => x \in Condemned \/ mem[x].st # "live"
      BY <1>3 DEF MemColors
    <3> QED BY <2>1, <2>2, <3>1
  <2>4. Owed(G, D) \subseteq Owed(mem, Condemned)
    BY <2>1, <2>2 DEF Owed
  <2>5. RootColor'
    <3>1. mem'[RootMem].color = mem[RootMem].color
      BY <1>14, <2>1 DEF AllMem
    <3> QED BY <1>2, <1>3, <1>15, <3>1 DEF RootColor
  <2> QED BY <1>3, <2>3, <2>4, <2>5
<1> QED BY <1>2, <1>3, <1>14, <1>15, SettledJoin

\* collect() returns.
LEMMA FinishColors ==
  ASSUME Inductive, Colors, FinishCollect
  PROVE  Colors'
<1>1. /\ pc = "destroy" /\ heap' = heap /\ stack' = stack /\ acts' = Front(acts)
      /\ pc' \in {"callback", "run", "exited"} /\ ActTop.mlist = <<>>
      /\ pc' = "run" => ~heap[Root].deallocated
      /\ pc' # "exited" => mem' = mem
  BY DEF FinishCollect
<1>2. /\ stack = <<>> /\ acts \in Seq(Act) /\ acts # <<>>
      /\ MemColors(mem, Condemned, {}) /\ RootColor /\ Owed(mem, Condemned) \subseteq {RootMem}
  BY <1>1, SettledFacts
<1>3. Condemned' = Condemned
  <2>1. acts[Len(acts)].mlist = <<>>
    BY <1>1, <1>2 DEF ActTop, Last
  <2>2. Doomed(Front(acts)) = Doomed(acts)
    BY <1>2, <2>1, DoomedFront
  <2> QED BY <1>1, <2>2 DEF Condemned
<1>4. pc' # "exited" => RootColor'
  BY <1>1, <1>2 DEF RootColor
<1> QED BY <1>1, <1>2, <1>3, <1>4, SettledJoin

----------------------------------------------------------------------------
(* The theorem.                                                            *)

LEMMA NextColors ==
  Inductive /\ Inductive' /\ AllMatched(mem) /\ Colors /\ [Next]_vars => Colors'
<1> SUFFICES ASSUME Inductive, Inductive', AllMatched(mem), Colors, [Next]_vars PROVE Colors'
  OBVIOUS
<1>1. CASE UNCHANGED vars \/ Stopped
  <2>1. /\ heap' = heap /\ mem' = mem /\ pc' = pc /\ stack' = stack /\ acts' = acts
    BY <1>1 DEF vars, Stopped
  <2>2. Condemned' = Condemned /\ (RootColor' <=> RootColor)
    BY <2>1 DEF Condemned, RootColor
  <2> QED BY <2>1, <2>2 DEF Colors
<1>2. CASE Client
  <2>1. CASE \E o \in Obj : New(o) \/ ExplicitDealloc(o) \/ Destroy(o)
    BY <2>1, NewColors, OtherClientColors
  <2>2. CASE \E o, s \in Obj : Copy(o, s) \/ Assign(o, s) \/ ByRef(o, s)
    BY <2>2, CopyColors, AssignColors, ByRefColors
  <2>3. CASE \E o \in Obj, p \in Payload \cup {Null} : PushValue(o, p)
    BY <2>3, PushValueColors
  <2>4. CASE \E o, c \in Obj, k \in 1..MaxEntries : Reroot(o, k, c)
    BY <2>4, RerootColors
  <2>5. CASE \E o \in Obj, p \in Payload, k \in 1..MaxEntries : RerootValue(o, k, p)
    BY <2>5, RerootValueColors
  <2>6. CASE Collect \/ Exit \/ ClientFault
    BY <2>6, OtherClientColors, ExitColors
  <2> QED BY <1>2, <2>1, <2>2, <2>3, <2>4, <2>5, <2>6 DEF Client
<1>3. CASE Collector
  <2>1. CASE MarkEnter \/ MarkScan \/ MarkDone
    BY <2>1, MarkEnterColors, MarkScanColors, MarkDoneColors
  <2>2. CASE SweepEnter \/ SweepScan \/ SweepBack \/ SweepDrain \/ SweepDone
    BY <2>2, SweepEnterColors, SweepScanColors, SweepBackColors, SweepDrainColors, SweepDoneColors
  <2>3. CASE RunDestructor \/ RunMemoryDestructor \/ FinishCollect
    BY <2>3, RunDestructorColors, RunMemoryDestructorColors, FinishColors
  <2>4. CASE CollectorFault
    BY <2>4 DEF CollectorFault, Colors
  <2> QED BY <1>3, <2>1, <2>2, <2>3, <2>4 DEF Collector
<1>4. CASE Return
  BY <1>4, ReturnCallColors
<1> QED BY <1>1, <1>2, <1>3, <1>4 DEF Next

LEMMA InitColors ==
  Init => Colors
<1> SUFFICES ASSUME Init PROVE Colors
  OBVIOUS
<1>1. pc = "run" /\ acts = <<>> /\ stack = <<>> /\ ~heap[Root].deallocated
  BY DEF Init, AllHeap
<1>2. \A m \in AllMem : mem[m].color = "GRAY" /\ mem[m].keep = FALSE
  <2>1. NewMemory.color = "GRAY" /\ NewMemory.keep = FALSE
    BY DEF NewMemory, NoMemory
  <2>2. NoMemory.color = "GRAY" /\ NoMemory.keep = FALSE
    BY DEF NoMemory
  <2>3. \A m \in AllMem : mem[m] = NewMemory \/ mem[m] = NoMemory
    BY DEF Init
  <2> QED BY <2>1, <2>2, <2>3
<1>3. Condemned = {}
  BY <1>1, DoomedInitially DEF Condemned
<1>4. MemColors(mem, Condemned, Draining(heap, mem, stack)) /\ Owed(mem, Condemned) = {}
  BY <1>2, <1>3 DEF MemColors, Owed
<1>5. RootColor
  BY <1>1, <1>2 DEF RootColor, AllMem
<1> QED BY <1>1, <1>4, <1>5 DEF Colors

\* Nothing is condemned between collections, so that nothing is painted.
LEMMA ColorsImply ==
  ASSUME Inductive, Colors
  PROVE  AllGray
<1> SUFFICES ASSUME pc = "run", NEW m \in AllMem, mem[m].st = "live"
             PROVE  mem[m].color = "GRAY"
  BY DEF AllGray
<1>1. RootColor /\ Owed(mem, Condemned) \subseteq {RootMem} /\ acts = <<>>
  BY SettledFacts DEF Inductive, GoodControl
<1>2. Condemned = {}
  BY <1>1, DoomedInitially DEF Condemned
<1>3. mem[m].color # "GRAY" => m = RootMem
  BY <1>1, <1>2 DEF Owed
<1>4. mem[RootMem].color \notin {"WHITE", "BLACK"}
  BY <1>1 DEF RootColor
<1>5. mem[m].color \in {"WHITE", "GRAY", "BLACK"}
  <2>1. mem[m] \in Memory
    BY MemFacts
  <2> QED BY <2>1 DEF Memory
<1> QED BY <1>3, <1>4, <1>5

\* Client code never meets a Memory that is still painted, whatever it does and
\* however often collections nest: do_sweep() repaints or condemns whatever mark()
\* painted, on the stack it unwinds or through the references left to visit, and
\* what sweep_() condemned is deleted before collect() returns
\* (managed_object_heap.cpp:291-297, 317-319, 337-443).
THEOREM ColorsAlwaysReset ==
  Spec => []AllGray
<1>1. Init => Colors /\ AllMatched(mem)
  BY InitColors, InitMatched
<1>2. Inductive /\ Inductive' /\ AllMatched(mem) /\ Colors /\ [Next]_vars
        => Colors' /\ AllMatched(mem)'
  <2>1. AllMatched(mem)' <=> AllMatched(mem')
    BY DEF AllMatched
  <2> QED BY <2>1, NextColors, NextMatched
<1>3. Inductive /\ Colors => AllGray
  BY ColorsImply
<1> QED BY <1>1, <1>2, <1>3, InductiveHolds, PTL DEF Spec

=============================================================================
