---------------------------- MODULE ManagedHeap ----------------------------
(***************************************************************************)
(* The reachability collector: ManagedObject (managed_object.h/.cpp) over  *)
(* ManagedObjectHeap (managed_object_heap.h/.cpp), in the debug variant    *)
(* that CMakeLists.txt builds.  One thread runs client calls; a call that  *)
(* reaches dealloc_limit, an explicit collect() and the destruction of the *)
(* static root list run mark(), do_sweep() and the queued destructors,     *)
(* which are modelled one loop iteration per step with the C++ recursion   *)
(* made an explicit stack.                                                 *)
(***************************************************************************)
EXTENDS Integers, Sequences, FiniteSets, SequencesExt

CONSTANTS
  Obj,          \* ManagedObject instances
  Payload,      \* separately allocated values given to push_value
  Heap,         \* ManagedObjectHeap instances other than the root list
  Mem,          \* ManagedObjectHeap::Memory instances other than the root's
  Root,         \* the static ManagedObjectHeap "root list"
  RootMem,      \* its Memory
  Null,         \* nullptr
  DeallocLimit, \* dealloc_limit
  Uses,         \* the optional parts of the API that this client uses
  MaxEntries,   \* bound: entries a client pushes into one Memory
  MaxNested     \* bound: activations of collect() alive at once

ASSUME DistinctIds ==
  /\ Root \notin Heap /\ RootMem \notin Mem
  /\ Null \notin Obj \cup Payload \cup Heap \cup Mem
  /\ Obj \cap Payload = {} /\ Obj \cap Heap = {} /\ Payload \cap Heap = {}
ASSUME BoundsOK ==
  /\ DeallocLimit \in 0..255          \* a uint8_t
  /\ MaxEntries \in Nat /\ MaxNested \in Nat
  /\ Uses \subseteq {"copy", "assign", "byRef", "reroot", "dealloc", "callback"}

VARIABLES
  obj,          \* each ManagedObject: lifetime, heap and parent members
  payload,      \* each payload: lifetime, and the Memory it was pushed into
  heap,         \* each ManagedObjectHeap: lifetime, memory, deallocated
  mem,          \* each Memory: lifetime, the two vectors, color, seen, keep
  deallocCount, \* dealloc_count of the root's Memory
  inside,       \* inside_destructor
  pc,           \* what the thread is doing
  stack,        \* activations of mark() or do_sweep()
  acts          \* activations of sweep_(): its list and memory_list

control == <<inside, pc, stack, acts>>
vars == <<obj, payload, heap, mem, deallocCount, inside, pc, stack, acts>>

AllHeap == Heap \cup {Root}
AllMem  == Mem \cup {RootMem}

----------------------------------------------------------------------------
(* Memory: `memory` is a std::vector<Info>, `slots` its buffer up to the   *)
(* greatest size it had and `size` its size(): erase() moves the tail down *)
(* and leaves the last slot as it was, which do_sweep can still read.      *)

Entry  == [index : Nat, ptr : Heap \cup {Null}, ref : {TRUE}]
            \cup [index : Nat, ptr : Obj \cup Payload \cup {Null}, ref : {FALSE}]
Memory == [st : {"unused", "live", "freed"}, slots : Seq(Entry), size : Nat,
           indexes : Seq(Nat), color : {"WHITE", "GRAY", "BLACK"},
           seen : BOOLEAN, keep : BOOLEAN]

NoMemory  == [st |-> "unused", slots |-> <<>>, size |-> 0, indexes |-> <<>>,
              color |-> "GRAY", seen |-> FALSE, keep |-> FALSE]
NewMemory == [NoMemory EXCEPT !.st = "live"]

\* The off-by-one of an Info index taken after the entry was appended.
PushEntryLateIndex(M, p, r) ==
  LET e == [index |-> M.size + 1, ptr |-> p, ref |-> r]
  IN  [M EXCEPT !.slots   = Append(SubSeq(M.slots, 1, M.size), e),
                !.size    = M.size + 1,
                !.indexes = Append(M.indexes, M.size)]

\* push: the new entry's index is the size() before it, in both vectors.
PushEntry(M, p, r) ==
  LET e == [index |-> M.size, ptr |-> p, ref |-> r]
  IN  [M EXCEPT !.slots   = IF M.size < Len(M.slots)
                            THEN [M.slots EXCEPT ![M.size + 1] = e]
                            ELSE Append(M.slots, e),
                !.size    = M.size + 1,
                !.indexes = Append(M.indexes, M.size)]

\* An erase() of one element too many.
EraseSlotTwice(M, p) ==
  [M EXCEPT !.slots = [k \in DOMAIN M.slots |->
                         IF p <= k /\ k < M.size THEN M.slots[k + 1] ELSE M.slots[k]],
            !.size  = M.size - 2]

\* vector<Info>::erase of the element at position p.
EraseSlot(M, p) ==
  [M EXCEPT !.slots = [k \in DOMAIN M.slots |->
                         IF p <= k /\ k < M.size THEN M.slots[k + 1] ELSE M.slots[k]],
            !.size  = M.size - 1]

The(S)    == CHOOSE x \in S : TRUE
LastOf(S) == {k \in S : \A j \in S : j <= k}

\* indexes.erase of the last element equal to x.
EraseIndex(M, x) ==
  LET at == LastOf({k \in DOMAIN M.indexes : M.indexes[k] = x})
  IN  IF at = {} THEN M ELSE [M EXCEPT !.indexes = RemoveAt(M.indexes, The(at))]

\* An entry that is queued but left in the vectors.
RemoveEntryLate(M, p) == M

\* What do_sweep does to an entry it queues: index, ptr = nullptr, erase.
RemoveEntry(M, p) ==
  EraseSlot([EraseIndex(M, M.slots[p].index) EXCEPT !.slots[p].ptr = Null], p)

\* byRef and reroot: erase the last entry of the root list for heap h.
Unroot(M, h) ==
  LET at == LastOf({k \in 1..M.size : M.slots[k].ref /\ M.slots[k].ptr = h})
  IN  IF at = {} THEN M
      ELSE EraseSlot(EraseIndex(M, M.slots[The(at)].index), The(at))

----------------------------------------------------------------------------
Unused(f) == {x \in DOMAIN f : f[x].st = "unused"}
Fresh(f)  == The(Unused(f))
Frame(h)  == [h |-> h, ph |-> "enter", i |-> 0]

Init ==
  /\ obj     = [o \in Obj |-> [st |-> "none", heap |-> Null, parent |-> Null]]
  /\ payload = [p \in Payload |-> [st |-> "new", mem |-> Null]]
  /\ heap    = [h \in AllHeap |->
                  IF h = Root
                  THEN [st |-> "live", mem |-> RootMem, deallocated |-> FALSE]
                  ELSE [st |-> "unused", mem |-> Null, deallocated |-> FALSE]]
  /\ mem     = [m \in AllMem |-> IF m = RootMem THEN NewMemory ELSE NoMemory]
  /\ deallocCount = 0
  /\ inside = FALSE /\ pc = "run" /\ stack = <<>> /\ acts = <<>>

\* The dereferences h->... and h->get_memory()->... are defined.
HeapOk(h) == /\ heap[h].st = "live"
             /\ mem[heap[h].mem].st = "live"

\* Client code runs between collections, and in a destructor that the
\* collector calls.
ClientRuns == pc \in {"run", "callback"}

\* The objects client code can name: variables and members in their
\* lifetime, and what a boxed pointer of one of those points to.
Accessible(o) ==
  \/ obj[o].st = "live"
  \/ obj[o].st = "boxed" /\ obj[obj[o].parent].st = "live"

Usable(o) == Accessible(o) /\ HeapOk(obj[o].heap)

MemOf(o) == heap[obj[o].heap].mem

----------------------------------------------------------------------------
(* ManagedObjectHeap::collect(root) up to the call of mark().              *)
BeginCollect(M) ==
  IF M[RootMem].size = 0
  THEN UNCHANGED control
  ELSE /\ pc' = "mark" /\ stack' = <<Frame(Root)>>
       /\ acts' = Append(acts, [list |-> <<>>, mlist |-> <<>>])
       /\ UNCHANGED inside

\* A dealloc_count that is compared before it is incremented.
DeallocLate(h, H, M) ==
  IF inside \/ M[RootMem].seen
  THEN heap' = H /\ mem' = M /\ UNCHANGED <<deallocCount, control>>
  ELSE /\ heap' = [H EXCEPT ![h].deallocated = TRUE] /\ mem' = M
       /\ deallocCount' = (deallocCount + 1) % 256
       /\ IF DeallocLimit # 0 /\ deallocCount >= DeallocLimit
          THEN BeginCollect(M) ELSE UNCHANGED control

\* A collection that starts before the heap is marked.
DeallocCollectsFirst(h, H, M) ==
  IF inside \/ M[RootMem].seen
  THEN heap' = H /\ mem' = M /\ UNCHANGED <<deallocCount, control>>
  ELSE LET n == (deallocCount + 1) % 256
       IN  /\ mem' = M /\ deallocCount' = n
           /\ IF DeallocLimit # 0 /\ n >= DeallocLimit
              THEN heap' = H /\ BeginCollect(M)
              ELSE heap' = [H EXCEPT ![h].deallocated = TRUE] /\ UNCHANGED control

\* ManagedObjectHeap::dealloc(root) of h, after a caller that left H and M.
Dealloc(h, H, M) ==
  IF inside \/ M[RootMem].seen
  THEN heap' = H /\ mem' = M /\ UNCHANGED <<deallocCount, control>>
  ELSE LET n == (deallocCount + 1) % 256
       IN  /\ heap' = [H EXCEPT ![h].deallocated = TRUE] /\ mem' = M
           /\ deallocCount' = n
           /\ IF DeallocLimit # 0 /\ n >= DeallocLimit
              THEN BeginCollect(M) ELSE UNCHANGED control

----------------------------------------------------------------------------
(* The client's calls.                                                     *)

\* ManagedObject(tag): a heap with a Memory of its own, listed by the root.
New(o) ==
  /\ ClientRuns /\ obj[o].st = "none" /\ Unused(heap) # {} /\ Unused(mem) # {}
  /\ LET h == Fresh(heap)
         m == Fresh(mem)
     IN  /\ obj'  = [obj EXCEPT ![o] = [st |-> "live", heap |-> h, parent |-> Null]]
         /\ heap' = [heap EXCEPT ![h] = [st |-> "live", mem |-> m, deallocated |-> FALSE]]
         /\ mem'  = [mem EXCEPT ![m] = NewMemory, ![RootMem] = PushEntry(@, h, TRUE)]
  /\ UNCHANGED <<payload, deallocCount, control>>

\* ManagedObject(other): a heap that shares the Memory of other.
Copy(o, s) ==
  /\ ClientRuns /\ "copy" \in Uses /\ obj[o].st = "none" /\ Usable(s)
  /\ Unused(heap) # {}
  /\ LET h == Fresh(heap)
     IN  /\ obj'  = [obj EXCEPT ![o] = [st |-> "live", heap |-> h, parent |-> Null]]
         /\ heap' = [heap EXCEPT ![h] = heap[obj[s].heap]]
         /\ mem'  = [mem EXCEPT ![RootMem] = PushEntry(@, h, TRUE)]
  /\ UNCHANGED <<payload, deallocCount, control>>

\* operator=: the old heap is moved to the root list and deallocated.
Assign(o, s) ==
  /\ ClientRuns /\ "assign" \in Uses /\ o # s /\ Usable(o) /\ Usable(s)
  /\ Len(acts) < MaxNested /\ Unused(heap) # {}
  /\ LET old == Fresh(heap)
         H == [heap EXCEPT ![old] = heap[obj[o].heap],
                           ![obj[o].heap] = heap[obj[s].heap]]
         M == [mem EXCEPT ![RootMem] = PushEntry(@, old, TRUE)]
     IN  Dealloc(old, H, M)
  /\ UNCHANGED <<obj, payload>>

\* push_value of an allocated value, and of the nullptr a BoxedVar starts from.
PushValue(o, p) ==
  /\ ClientRuns /\ Usable(o) /\ mem[MemOf(o)].size < MaxEntries
  /\ \/ p \in Payload /\ payload[p].st = "new"
        /\ payload' = [payload EXCEPT ![p] = [st |-> "held", mem |-> MemOf(o)]]
     \/ p = Null /\ "reroot" \in Uses /\ UNCHANGED payload
  /\ mem' = [mem EXCEPT ![MemOf(o)] = PushEntry(@, p, FALSE)]
  /\ UNCHANGED <<obj, heap, deallocCount, control>>

\* byRef(other), called for a member by the constructor of the object that
\* contains it: each is still the root of its own tree of members.
ByRef(o, c) ==
  /\ ClientRuns /\ "byRef" \in Uses /\ o # c
  /\ obj[o].st = "live" /\ obj[c].st = "live" /\ Usable(o) /\ Usable(c)
  /\ obj[o].parent = Null /\ obj[c].parent = Null
  /\ mem[MemOf(o)].size < MaxEntries
  /\ obj' = [obj EXCEPT ![c].parent = o]
  /\ mem' = [mem EXCEPT ![MemOf(o)] = PushEntry(@, obj[c].heap, TRUE),
                        ![RootMem]  = Unroot(@, obj[c].heap)]
  /\ UNCHANGED <<payload, heap, deallocCount, control>>

\* reroot(index, new T()) with T a ManagedObject: the null entry k receives the
\* pointer, a reference to its heap is pushed and the root forgets that heap.
Reroot(o, k, c) ==
  /\ ClientRuns /\ "reroot" \in Uses /\ o # c
  /\ Usable(o) /\ obj[c].st = "live" /\ Usable(c) /\ obj[c].parent = Null
  /\ \A x \in Obj : obj[x].parent # c
  /\ mem[MemOf(o)].size < MaxEntries /\ k <= mem[MemOf(o)].size
  /\ LET e == mem[MemOf(o)].slots[k] IN ~e.ref /\ e.ptr = Null
  /\ obj' = [obj EXCEPT ![c].parent = o, ![c].st = "boxed"]
  /\ mem' = [mem EXCEPT
               ![MemOf(o)] = PushEntry([@ EXCEPT !.slots[k].ptr = c], obj[c].heap, TRUE),
               ![RootMem]  = Unroot(@, obj[c].heap)]
  /\ UNCHANGED <<payload, heap, deallocCount, control>>

\* reroot(index, pointer) with a pointer to something else.
RerootValue(o, k, p) ==
  /\ ClientRuns /\ "reroot" \in Uses /\ Usable(o) /\ payload[p].st = "new"
  /\ k <= mem[MemOf(o)].size
  /\ LET e == mem[MemOf(o)].slots[k] IN ~e.ref /\ e.ptr = Null
  /\ payload' = [payload EXCEPT ![p] = [st |-> "held", mem |-> MemOf(o)]]
  /\ mem' = [mem EXCEPT ![MemOf(o)].slots[k].ptr = p]
  /\ UNCHANGED <<obj, heap, deallocCount, control>>

\* dealloc() called by the client on an object that is still in scope.
ExplicitDealloc(o) ==
  /\ ClientRuns /\ "dealloc" \in Uses /\ Usable(o) /\ Len(acts) < MaxNested
  /\ Dealloc(obj[o].heap, heap, mem)
  /\ UNCHANGED <<obj, payload>>

\* The end of a lifetime.  Members are destroyed before ~ManagedObject of the
\* object that contains them runs; boxed objects are deleted by the collector.
Destroy(o) ==
  /\ ClientRuns /\ obj[o].st = "live" /\ Len(acts) < MaxNested
  /\ \A c \in Obj : obj[c].parent = o => obj[c].st # "live"
  /\ heap[obj[o].heap].st = "live"
  /\ obj' = [obj EXCEPT ![o].st = "gone"]
  /\ Dealloc(obj[o].heap, heap, mem)
  /\ UNCHANGED payload

\* ManagedObjectHeap::collect() called by the client.
Collect ==
  /\ ClientRuns /\ Len(acts) < MaxNested
  /\ BeginCollect(mem)
  /\ UNCHANGED <<obj, payload, heap, mem, deallocCount>>

\* Any call on an object whose heap (or its Memory) was deleted.
ClientFault ==
  /\ ClientRuns
  /\ \E o \in Obj : Accessible(o) /\ ~HeapOk(obj[o].heap)
  /\ pc' = "fault"
  /\ UNCHANGED <<obj, payload, heap, mem, deallocCount, inside, stack, acts>>

\* The static root list is destroyed after every object in scope: dealloc(root)
\* collects once more and deletes the root's Memory.
Exit ==
  /\ pc = "run" /\ \A o \in Obj : obj[o].st # "live"
  /\ heap' = [heap EXCEPT ![Root].deallocated = TRUE]
  /\ IF mem[RootMem].size = 0
     THEN /\ pc' = "exited" /\ mem' = [mem EXCEPT ![RootMem].st = "freed"]
          /\ UNCHANGED <<inside, stack, acts>>
     ELSE BeginCollect(mem) /\ UNCHANGED mem
  /\ UNCHANGED <<obj, payload, deallocCount>>

----------------------------------------------------------------------------
(* mark(): a frame enters a heap, then scans its Memory from the front.    *)
Top    == Last(stack)
TopMem == heap[Top.h].mem
Pop    == Front(stack)
Goto(ph, i) == [stack EXCEPT ![Len(stack)] = [h |-> Top.h, ph |-> ph, i |-> i]]
AtFrame(phase, ph) == pc = phase /\ stack # <<>> /\ Top.ph = ph

\* Colours by the reference that is met last instead of the first one.
MarkColorInverted(h) == IF heap[h].deallocated THEN "BLACK" ELSE "WHITE"

MarkColor(h) == IF heap[h].deallocated THEN "WHITE" ELSE "BLACK"

MarkEnter ==
  /\ AtFrame("mark", "enter") /\ HeapOk(Top.h)
  /\ IF mem[TopMem].color # "GRAY"
     THEN mem' = [mem EXCEPT ![TopMem].keep = FALSE] /\ stack' = Pop
     ELSE /\ mem' = [mem EXCEPT ![TopMem].keep = FALSE, ![TopMem].color = MarkColor(Top.h)]
          /\ stack' = Goto("scan", 1)
  /\ UNCHANGED <<obj, payload, heap, deallocCount, inside, pc, acts>>

\* MANAGED_OBJECT_GET_HEAP(e) # nullptr
IsHeapRef(e) == e.ref /\ e.ptr # Null

MarkScan ==
  /\ AtFrame("mark", "scan")
  /\ LET M == mem[TopMem]
         e == M.slots[Top.i]
     IN  stack' = IF Top.i > M.size THEN Pop
                  ELSE IF IsHeapRef(e) THEN Append(Goto("scan", Top.i + 1), Frame(e.ptr))
                  ELSE Goto("scan", Top.i + 1)
  /\ UNCHANGED <<obj, payload, heap, mem, deallocCount, inside, pc, acts>>

MarkDone ==
  /\ pc = "mark" /\ stack = <<>>
  /\ pc' = "sweep" /\ stack' = <<Frame(Root)>>
  /\ UNCHANGED <<obj, payload, heap, mem, deallocCount, inside, acts>>

----------------------------------------------------------------------------
(* do_sweep(): a frame enters a heap, scans its Memory from the back, and  *)
(* for each reference recurs ("back" is the return of that call) and, for  *)
(* a WHITE one, queues what is left of the referenced Memory ("drain").    *)
Queue(e)      == [acts EXCEPT ![Len(acts)].list = Append(@, [ptr |-> e.ptr, ref |-> e.ref])]
Queue2(e, ms) == [acts EXCEPT ![Len(acts)].list = Append(@, [ptr |-> e.ptr, ref |-> e.ref]),
                              ![Len(acts)].mlist = @ \o ms]

\* A sweep that forgets to reset the colour of a Memory that stays.
SweptColorKept(c) == c

SweptColor(c) == IF c = "BLACK" THEN "GRAY" ELSE c

SweepEnter ==
  /\ AtFrame("sweep", "enter") /\ HeapOk(Top.h)
  /\ IF mem[TopMem].seen
     THEN stack' = Pop /\ UNCHANGED mem
     ELSE /\ mem' = [mem EXCEPT ![TopMem].seen = TRUE,
                                ![TopMem].color = SweptColor(@)]
          /\ stack' = Goto("scan", mem[TopMem].size)
  /\ UNCHANGED <<obj, payload, heap, deallocCount, inside, pc, acts>>

SweepValue(e) ==
  IF mem[TopMem].color = "WHITE"
  THEN mem' = [mem EXCEPT ![TopMem] = RemoveEntry(@, Top.i)] /\ acts' = Queue(e)
  ELSE UNCHANGED <<mem, acts>>

\* A guard against a Memory that refers to itself, and not against a cycle.
SweepRefSelfOnly(e) ==
  IF heap[e.ptr].mem = TopMem
  THEN stack' = Goto("scan", Top.i - 1)
  ELSE stack' = Append(Goto("back", Top.i), Frame(e.ptr))

\* A loop whose `continue` does not advance the iterator.
SweepRefStuck(e) ==
  IF mem[heap[e.ptr].mem].seen
  THEN UNCHANGED stack
  ELSE stack' = Append(Goto("back", Top.i), Frame(e.ptr))

SweepRef(e) ==
  IF mem[heap[e.ptr].mem].seen
  THEN stack' = Goto("scan", Top.i - 1)
  ELSE stack' = Append(Goto("back", Top.i), Frame(e.ptr))

\* A return that leaves the Memory seen.
LeaveSeen(M) == M

Leave(M) == [M EXCEPT !.seen = FALSE]

SweepScan ==
  /\ AtFrame("sweep", "scan")
  /\ IF Top.i = 0
     THEN /\ mem' = [mem EXCEPT ![TopMem] = Leave(@)] /\ stack' = Pop
          /\ UNCHANGED acts
     ELSE LET e == mem[TopMem].slots[Top.i]
          IN  IF IsHeapRef(e)
              THEN HeapOk(e.ptr) /\ SweepRef(e) /\ UNCHANGED <<mem, acts>>
              ELSE /\ stack' = Goto("scan", Top.i - 1)
                   /\ IF e.ref THEN UNCHANGED <<mem, acts>> ELSE SweepValue(e)
  /\ UNCHANGED <<obj, payload, heap, deallocCount, inside, pc>>

SweepBack ==
  /\ AtFrame("sweep", "back")
  /\ LET e  == mem[TopMem].slots[Top.i]
         rm == heap[e.ptr].mem
     IN  IF mem[rm].keep
         THEN /\ mem' = [mem EXCEPT ![TopMem] = RemoveEntry(@, Top.i)]
              /\ acts' = Queue(e) /\ stack' = Goto("scan", Top.i - 1)
         ELSE IF mem[rm].color = "WHITE"
         THEN /\ mem' = [mem EXCEPT ![rm].keep = TRUE]
              /\ stack' = Goto("drain", Top.i) /\ UNCHANGED acts
         ELSE stack' = Goto("scan", Top.i - 1) /\ UNCHANGED <<mem, acts>>
  /\ UNCHANGED <<obj, payload, heap, deallocCount, inside, pc>>

\* One iteration over indexes2: the index is used as a position in mem2, and
\* may designate the slot of another entry or one past the end.
DrainOne(M, x) ==
  LET N  == [M EXCEPT !.slots[x + 1].ptr = Null, !.indexes = Front(M.indexes)]
      at == LastOf({k \in 1..M.size : M.slots[k].index = x})
  IN  IF at = {} THEN N ELSE EraseSlot(N, The(at))

SweepDrain ==
  /\ AtFrame("sweep", "drain")
  /\ LET e  == mem[TopMem].slots[Top.i]
         rm == heap[e.ptr].mem
         M2 == mem[rm]
     IN  IF M2.indexes # <<>>
         THEN /\ Last(M2.indexes) < Len(M2.slots)
              /\ mem' = [mem EXCEPT ![rm] = DrainOne(@, Last(M2.indexes))]
              /\ acts' = Queue(M2.slots[Last(M2.indexes) + 1])
              /\ UNCHANGED stack
         ELSE /\ mem' = [mem EXCEPT ![TopMem] = RemoveEntry(@, Top.i)]
              /\ acts' = Queue2(e, IF M2.size = 0 THEN <<rm>> ELSE <<>>)
              /\ stack' = Goto("scan", Top.i - 1)
  /\ UNCHANGED <<obj, payload, heap, deallocCount, inside, pc>>

\* sweep_() has its lists and starts running the destructors.
SweepDone ==
  /\ pc = "sweep" /\ stack = <<>>
  /\ pc' = "destroy" /\ inside' = TRUE
  /\ UNCHANGED <<obj, payload, heap, mem, deallocCount, stack, acts>>

\* A dereference of a deleted heap or Memory while marking or sweeping.
CollectorFault ==
  /\ \/ (AtFrame("mark", "enter") \/ AtFrame("sweep", "enter")) /\ ~HeapOk(Top.h)
     \/ /\ AtFrame("sweep", "scan") /\ Top.i > 0
        /\ LET e == mem[TopMem].slots[Top.i] IN IsHeapRef(e) /\ ~HeapOk(e.ptr)
  /\ pc' = "fault"
  /\ UNCHANGED <<obj, payload, heap, mem, deallocCount, inside, stack, acts>>

----------------------------------------------------------------------------
(* The destructors, each list from its back.                               *)
ActTop == Last(acts)

\* delete of q.ptr; a second delete and a ~ManagedObject that reads the tag of
\* its deleted heap are faults.
RunDestructor ==
  /\ pc = "destroy" /\ ActTop.list # <<>>
  /\ LET q  == Last(ActTop.list)
         ok == \/ q.ptr = Null
               \/ q.ptr \in Heap /\ heap[q.ptr].st = "live"
               \/ q.ptr \in Payload /\ payload[q.ptr].st = "held"
               \/ /\ q.ptr \in Obj /\ obj[q.ptr].st = "boxed"
                  /\ heap[obj[q.ptr].heap].st = "live"
     IN  /\ acts' = [acts EXCEPT ![Len(acts)].list = Front(@)]
         /\ heap' = IF ok /\ q.ptr \in Heap
                    THEN [heap EXCEPT ![q.ptr].st = "freed"] ELSE heap
         /\ payload' = IF ok /\ q.ptr \in Payload
                       THEN [payload EXCEPT ![q.ptr].st = "destroyed"] ELSE payload
         /\ obj' = IF ok /\ q.ptr \in Obj THEN [obj EXCEPT ![q.ptr].st = "gone"] ELSE obj
         /\ pc' = IF ~ok THEN "fault"
                  ELSE IF q.ptr \in Payload /\ "callback" \in Uses THEN "callback" ELSE pc
  /\ UNCHANGED <<mem, deallocCount, inside, stack>>

\* The payload's destructor returns to the collector.
Return ==
  /\ pc = "callback" /\ pc' = "destroy"
  /\ UNCHANGED <<obj, payload, heap, mem, deallocCount, inside, stack, acts>>

RunMemoryDestructor ==
  /\ pc = "destroy" /\ ActTop.list = <<>> /\ ActTop.mlist # <<>>
  /\ LET m == Last(ActTop.mlist)
     IN  /\ acts' = [acts EXCEPT ![Len(acts)].mlist = Front(@)]
         /\ IF mem[m].st = "live"
            THEN mem' = [mem EXCEPT ![m].st = "freed"] /\ UNCHANGED pc
            ELSE pc' = "fault" /\ UNCHANGED mem
  /\ UNCHANGED <<obj, payload, heap, deallocCount, inside, stack>>

\* The return of collect(): only the outermost one resets dealloc_count.
FinishCollect ==
  /\ pc = "destroy" /\ ActTop.list = <<>> /\ ActTop.mlist = <<>>
  /\ acts' = Front(acts)
  /\ inside' = (Len(acts) > 1)
  /\ deallocCount' = IF Len(acts) > 1 THEN deallocCount ELSE 0
  /\ pc' = IF Len(acts) > 1 THEN "callback"
           ELSE IF heap[Root].deallocated THEN "exited" ELSE "run"
  /\ mem' = IF pc' = "exited" THEN [mem EXCEPT ![RootMem].st = "freed"] ELSE mem
  /\ UNCHANGED <<obj, payload, heap, stack>>

----------------------------------------------------------------------------
Client ==
  \/ \E o \in Obj : New(o) \/ ExplicitDealloc(o) \/ Destroy(o)
  \/ \E o, s \in Obj : Copy(o, s) \/ Assign(o, s) \/ ByRef(o, s)
  \/ \E o \in Obj, p \in Payload \cup {Null} : PushValue(o, p)
  \/ \E o, c \in Obj, k \in 1..MaxEntries : Reroot(o, k, c)
  \/ \E o \in Obj, p \in Payload, k \in 1..MaxEntries : RerootValue(o, k, p)
  \/ Collect \/ Exit \/ ClientFault

Collector ==
  \/ MarkEnter \/ MarkScan \/ MarkDone
  \/ SweepEnter \/ SweepScan \/ SweepBack \/ SweepDrain \/ SweepDone
  \/ RunDestructor \/ RunMemoryDestructor \/ FinishCollect \/ CollectorFault

\* The program has ended, or has no defined next step.
Stopped == pc \in {"exited", "fault"} /\ UNCHANGED vars

Next == Client \/ Collector \/ Return \/ Stopped

Spec == Init /\ [][Next]_vars

\* A collection runs to its end in the thread that called it, and the
\* destructors it calls return, however many collections they start.
FairSpec == Spec /\ WF_vars(Collector) /\ SF_vars(Return)

----------------------------------------------------------------------------
(* Properties.                                                             *)

ObjT     == [st : {"none", "live", "boxed", "gone"}, heap : Heap \cup {Null},
             parent : Obj \cup {Null}]
PayloadT == [st : {"new", "held", "destroyed"}, mem : Mem \cup {Null}]
HeapT    == [st : {"unused", "live", "freed"}, mem : AllMem \cup {Null},
             deallocated : BOOLEAN]
Item     == [ptr : Heap \cup {Null}, ref : {TRUE}]
              \cup [ptr : Obj \cup Payload \cup {Null}, ref : {FALSE}]
FrameT   == [h : AllHeap, ph : {"enter", "scan", "back", "drain"}, i : Nat]
Act      == [list : Seq(Item), mlist : Seq(Mem)]

\* The type invariant of the collector's state.
TypeOK ==
  /\ obj \in [Obj -> ObjT] /\ payload \in [Payload -> PayloadT]
  /\ heap \in [AllHeap -> HeapT]
  /\ mem \in [AllMem -> Memory]
  /\ deallocCount \in 0..255 /\ inside \in BOOLEAN
  /\ pc \in {"run", "callback", "mark", "sweep", "destroy", "exited", "fault"}
  /\ stack \in Seq(FrameT) /\ acts \in Seq(Act)

\* No step dereferences or deletes a heap, a Memory or a payload twice or after
\* its deletion (do_sweep's queue of destructors, managed_object_heap.cpp:225-287, 337-443).
NoFault == pc # "fault"

\* Activation k of the recursion is iterating Memory m.
Iterates(k, m) == stack[k].ph # "enter" /\ heap[stack[k].h].mem = m

\* seen marks exactly the memories that an activation of do_sweep is iterating,
\* each by one activation; the asserts on !seen of collect() rely on it.
SeenIsOnStack ==
  pc # "fault" =>
    /\ \A m \in AllMem : mem[m].seen = (pc = "sweep" /\ \E k \in 1..Len(stack) : Iterates(k, m))
    /\ pc = "sweep" => \A m \in AllMem : \A j, k \in 1..Len(stack) :
         Iterates(j, m) /\ Iterates(k, m) => j = k

\* Each Memory holds the same multiset of indexes in its two vectors, which the
\* asserts on their sizes in collect() and do_sweep() only approximate.
IndexesMatch ==
  \A m \in AllMem : \A x \in 0..Len(mem[m].slots) :
    Cardinality({k \in DOMAIN mem[m].indexes : mem[m].indexes[k] = x})
      = Cardinality({k \in 1..mem[m].size : mem[m].slots[k].index = x})

\* A reverse iterator of an outer do_sweep stays valid: no step of an inner
\* activation changes the vectors of a Memory that an outer one iterates.
IteratedIsStable ==
  [][pc = "sweep" => \A k \in 1..Len(stack) - 1, m \in AllMem :
       Iterates(k, m) =>
         mem'[m].slots = mem[m].slots /\ mem'[m].size = mem[m].size]_vars

\* A payload is destroyed only when no object in scope, whose heap was not
\* deallocated, still refers to the Memory that holds it (README.md:146).
NoPrematureDestroy ==
  \A p \in Payload : payload[p].st = "destroyed" =>
    ~\E o \in Obj : /\ obj[o].st = "live" /\ ~heap[obj[o].heap].deallocated
                    /\ MemOf(o) = payload[p].mem

\* An object in scope keeps its heap, its Memory and every payload pushed into it.
LiveIsIntact ==
  \A o \in Obj : obj[o].st = "live" /\ ~heap[obj[o].heap].deallocated =>
    /\ HeapOk(obj[o].heap)
    /\ \A p \in Payload : payload[p].mem = MemOf(o) =>
         /\ payload[p].st = "held"
         /\ \E k \in 1..mem[MemOf(o)].size : mem[MemOf(o)].slots[k].ptr = p

\* The heaps of objects that were destroyed and not deallocated.
Skipped ==
  {obj[o].heap : o \in {x \in Obj : obj[x].st = "gone" /\ ~heap[obj[x].heap].deallocated}}

\* A heap or a Memory is used or deleted after its deletion only where a callback
\* destroyed a member of another object: dealloc() left the member's heap unmarked
\* (managed_object_heap.cpp:124), and the drain of its container takes indexes for
\* positions (managed_object_heap.cpp:393).
FaultsNeedSkippedMember ==
  pc = "fault" => \E c \in Obj : obj[c].parent # Null /\ obj[c].heap \in Skipped

\* The collector does not lose sight of a heap: one that is allocated is listed by
\* a Memory, or waits for its deletion in the queue of a sweep_ (README.md:22, "it
\* should be impossible to leak a reference").
NothingLost ==
  \A h \in Heap : heap[h].st = "live" =>
    \/ \E m \in AllMem : \E k \in 1..mem[m].size : mem[m].slots[k].ptr = h
    \/ \E k \in 1..Len(acts) : \E i \in 1..Len(acts[k].list) : acts[k].list[i].ptr = h

\* Only code that the collector calls can leave a heap behind: dealloc() returns
\* at once there (managed_object_heap.cpp:124-126), be it a callback's or that of
\* the boxed object which the collector deletes.
OnlyCallbacksSkip ==
  [][/\ pc \notin {"callback", "destroy"} => Skipped' \subseteq Skipped
     /\ pc = "destroy" =>
          Skipped' \subseteq Skipped \cup {obj[o].heap : o \in {x \in Obj : obj[x].st = "boxed"}}]_vars

\* When a collection has returned, every heap still allocated belongs to an
\* object that exists or was skipped, and every Memory to such a heap.
SweepComplete ==
  pc = "run" /\ deallocCount = 0 =>
    /\ \A h \in Heap \ Skipped : heap[h].st = "live" =>
         \E o \in Obj : obj[o].heap = h /\ obj[o].st \in {"live", "boxed"}
    /\ \A m \in Mem \ {heap[h].mem : h \in Skipped} : mem[m].st = "live" =>
         \E h \in Heap : heap[h].st = "live" /\ heap[h].mem = m

\* Client code never sees a Memory that a collection left coloured: mark() would
\* not enter it again (managed_object_heap.cpp:291-297, 317-319).
AllGray == pc = "run" => \A m \in AllMem : mem[m].st = "live" => mem[m].color = "GRAY"

\* At the end of the program nothing that was managed is still allocated, unless
\* a callback left a heap or an object behind (README.md:22).
ExitReclaimsAll ==
  pc = "exited" /\ Skipped = {} /\ (\A o \in Obj : obj[o].st # "live") =>
    /\ \A h \in Heap : heap[h].st # "live"
    /\ \A m \in AllMem : mem[m].st # "live"
    /\ \A p \in Payload : payload[p].st # "held"

\* Between calls fewer than dealloc_limit deallocations await a collection, so
\* the uint8_t never wraps.
CountBelowLimit == pc = "run" /\ DeallocLimit # 0 => deallocCount < DeallocLimit

\* Every collection ends: cycles of references do not trap mark() or do_sweep().
CollectTerminates == pc # "run" ~> pc \in {"run", "exited", "fault"}
----------------------------------------------------------------------------
(* The inductive invariant of the collector: the well-formedness of the    *)
(* data, what the stacks hold in each phase, and for do_sweep what each    *)
(* activation has in hand while the ones above it run.                     *)

Sized(M) == M \in Memory /\ M.size <= Len(M.slots)

GoodHeap(H) ==
  /\ H \in [AllHeap -> HeapT] /\ H[Root].st = "live" /\ H[Root].mem = RootMem
  /\ \A h \in Heap : H[h].st # "unused" => H[h].mem \in Mem
GoodMem(M) ==
  /\ M \in [AllMem -> Memory] /\ M[RootMem].st # "unused"
  /\ \A m \in AllMem : Sized(M[m])
GoodObj(O, H) ==
  /\ O \in [Obj -> ObjT]
  /\ \A o \in Obj : O[o].st # "none" => O[o].heap \in Heap /\ H[O[o].heap].st # "unused"
GoodData ==
  /\ GoodHeap(heap) /\ GoodMem(mem) /\ GoodObj(obj, heap)
  /\ payload \in [Payload -> PayloadT] /\ deallocCount \in 0..255

GoodControl ==
  /\ inside \in BOOLEAN
  /\ pc \in {"run", "callback", "mark", "sweep", "destroy", "exited", "fault"}
  /\ stack \in Seq(FrameT) /\ acts \in Seq(Act)
  /\ pc \in {"run", "exited"} => acts = <<>>
  /\ pc \in {"callback", "mark", "sweep", "destroy"} => acts # <<>>
  /\ pc \in {"run", "callback", "destroy", "exited"} => stack = <<>>

MarkFrames ==
  pc = "mark" => \A k \in 1..Len(stack) :
    /\ stack[k].ph \in {"enter", "scan"}
    /\ stack[k].ph = "scan" => heap[stack[k].h].st # "unused" /\ stack[k].i >= 1

FrameMem(k)   == mem[heap[stack[k].h].mem]
FrameEntry(k) == FrameMem(k).slots[stack[k].i]

\* An activation of do_sweep that has called another one holds a reference to
\* the heap that one visits, inside the bounds of its vector, and no activation
\* starts on, or drains, a Memory that is being iterated.
SweepFrames ==
  pc = "sweep" => \A k \in 1..Len(stack) :
    /\ stack[k].ph # "enter" =>
         heap[stack[k].h].st # "unused" /\ stack[k].i <= FrameMem(k).size
    /\ stack[k].ph \in {"back", "drain"} =>
         /\ stack[k].i >= 1 /\ IsHeapRef(FrameEntry(k))
         /\ heap[FrameEntry(k).ptr].st # "unused"
         /\ k = Len(stack) =>
              \A j \in 1..Len(stack) : ~Iterates(j, heap[FrameEntry(k).ptr].mem)
    /\ stack[k].ph = "enter" => \A j \in 1..Len(stack) : ~Iterates(j, heap[stack[k].h].mem)
    /\ k < Len(stack) => stack[k].ph = "back" /\ FrameEntry(k).ptr = stack[k + 1].h

Inductive ==
  GoodData /\ GoodControl /\ MarkFrames /\ SweepFrames /\ SeenIsOnStack
====
