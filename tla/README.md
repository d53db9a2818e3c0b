# Verification of ManagedObject

TLA+ models of the ManagedObject library, their TLC configurations, and proofs
checked by TLAPS. Paths below are relative to the repository; `heap.cpp` is
`src/managed_object_heap.cpp`, `hashmap.c` is `src/managed_object_hashmap.c`,
`obj.c` is `src/managed_object_obj.c` and `metadata.h` is
`include/managed_object_obj_metadata.h`.

## 1. The system

The repository holds a small garbage collector for C++ objects, two containers,
and a C layer over the Memory Pool System (MPS). The parts do not call each
other except where said.

| Component | Code | State | Operations |
|---|---|---|---|
| Reachability collector | `heap.cpp`, `managed_object_heap.h`, `managed_object.cpp`, `managed_object.h` | one `ManagedObjectHeap` per object, the `Memory` it points to (possibly shared by copies), the static root list, `inside_destructor` | construct, copy, assign, `push_value`, `byRef`, `reroot`, `dealloc`, destroy, `collect`, destruction of the root list at exit |
| Hash map | `hashmap.c`, `managed_object_hashmap*.h` | table of slots, size, initial size, optional key copies, `on_realloc` hook, iterators held by callers | init, reserve, put, get, remove, clear, reset, cleanup, iteration and removal through an iterator |
| Page list | `managed_object_pagelist.h` | vector of pages; each page caches `used_`, `empty_`, `full_` | set, unset, destroy; `resize` of a single page |
| Metadata hash table | macros of `managed_object_obj_metadata.h` | key and value buckets, either of them weak, in MPS AWL pools, location dependency | make, ref, set, delete, intern, rehash; the scanner splats dead entries |
| Object pool state | `managed_object_obj.c` | `ManagedObjState`: arena, pool, allocation points, roots, statistics | init, make, pin, unpin, collect, handle messages, deinit |
| Object format | `managed_object_obj.c` | object layouts | scan, skip, fwd, isfwd, pad |
| Global metadata | macros of `managed_object_obj_metadata.h` | `managed_obj_global_metadata_init` 0/1/2, the `unused` and `deleted` keys | first init, deinit |
| MPS, Boehm stub, LLVM JIT, tests | `mps_gc/`, `stub_bdwgc/`, `llvm_mcjit/`, `tests/` | - | external, empty submodules, or not part of the program |

What is hard in it:

- The collector is single-threaded but re-entrant: destructors that it runs are
  client code and may create, copy and destroy objects or start a nested
  collection. `mark()` and `do_sweep()` recurse over graphs that may share
  memories and contain cycles, and erase from vectors under live iterators.
- The hash map goes on after failed allocations, moves entries on removal while
  a caller iterates, and tells a hook where its memory is.
- Positions in the page list are plain numbers that outlive the pages.
- The metadata table is changed by the collector between two of its calls, inside
  every allocation that a call makes, and at the barrier hit that a call takes when it
  first touches a weak bucket.
- Finalization messages are handled in a loop that runs the program's callbacks,
  which may collect, make objects and so start the same loop again; the shutdown
  of a state runs it too, after it has destroyed the state's roots.
- All states share the two objects that mark free slots, and any of them may
  take these away.

For each component, what makes it correct:

- collector: nothing is destroyed while an object in scope refers to it, nothing
  unreachable survives a collection, no pointer is used or deleted after its
  deletion, every collection ends and leaves the colours and flags at rest;
- hash map: it is a map; searches are never cut short; loops miss nothing; key
  copies are freed once; the announced block is the live one;
- page list: positions are unique and lead to their values; the caches are right;
- metadata table: it is a map that forgets an entry only through a weak side; its
  counts are exact, so searches end and no assertion fails;
- pool: a payload is finalized once, a shutdown finalizes what is left, the counters agree
  with the objects, and a state has its markers as long as it needs them;
- object format: from every object, skip and scan lead to the next one, whatever
  has been forwarded or padded in between, and replacements fit.

## 2. Modules

| Module | Models |
|---|---|
| `ManagedHeap` | the collector, one loop iteration of `mark`, `do_sweep` and the destructor queue per step |
| `ManagedHeap_proofs` | its inductive invariant and theorems for every client, the one on its two vectors by counting |
| `ManagedHeapColor_proofs` | the theorem on the colours of its memories, by reachability |
| `ManagedHeapTree_proofs` | its correctness for clients that own their objects in trees |
| `MCManagedHeap` | symmetry for TLC |
| `KeyMap` | what the hash map promises: an abstract map with results |
| `HashMap` | the hash map; refines `KeyMap` |
| `HashMap_proofs` | its inductive invariant, theorems and the refinement |
| `MCHashMap` | symmetry for TLC |
| `PageList` | the page list over its pages |
| `PageList_proofs` | its inductive invariant and theorems |
| `MCPageList` | symmetry for TLC |
| `WeakMap` | what the metadata table promises: a map with weak keys or values |
| `MetadataTable` | the metadata table and the collector around it; refines `WeakMap` |
| `MetadataTable_proofs` | its inductive invariant, theorems and the refinement |
| `MCMetadataTable` | symmetry and hash values for TLC |
| `ObjPool` | the states over the MPS, their messages and callbacks, and the global state |
| `ObjPool_proofs` | its inductive invariant and theorems |
| `MCObjPool` | symmetry for TLC |
| `ObjFormat` | the object format over a segment of memory |
| `ObjFormat_proofs` | its inductive invariant and theorems |
| `MCObjFormat` | the sizes of the LP64 build |

### ManagedHeap

The debug variant, the only one that `CMakeLists.txt` builds, is modelled.
`obj`, `payload`, `heap` and `mem` record the lifetime and the members of every
C++ object involved. A `Memory` keeps its vector of `Info` as `slots`, the buffer
up to the greatest size reached, with `size`, because `do_sweep` reads a slot
that `erase` left behind, and the vector `indexes`. `deallocCount` and `inside`
are the code's counters and flag. The C++ call stack is explicit: `stack` holds
the activations of `mark` or `do_sweep`, each with the heap it visits, a phase and
a position; `acts` holds the activations of `sweep_` with their two queues; `pc`
says which function runs.

Each client call (`New`, `Copy`, `Assign`, `PushValue`, `ByRef`, `Reroot`,
`RerootValue`, `ExplicitDealloc`, `Destroy`, `Collect`, `Exit`) is one action up to
the point where it may start a collection. `Dealloc` is the code of
`ManagedObjectHeap::dealloc` shared by several of them. The collector's steps are
`MarkEnter`, `MarkScan`, `MarkDone`; `SweepEnter`, `SweepScan` (one iteration of
the outer loop), `SweepBack` (after a recursive call), `SweepDrain` (one iteration
over `indexes2`), `SweepDone`; `RunDestructor`, `RunMemoryDestructor`,
`FinishCollect`. With `"callback"` in `Uses` the destructor of a payload runs
client calls before `Return`. A use of a deleted heap or Memory, and a second
delete, lead to `pc = "fault"`. `dealloc()` does nothing while the collector runs
(`heap.cpp:124`), so an object that a callback destroys leaves its heap behind;
`Skipped` is the set of these heaps, which the statements about leaks except.

A client pushes a value into one Memory once, destroys an object at the end of
its scope, and uses only objects it can name. `Uses` selects the parts of the API
a run exercises, since the combination of all of them on one instance is too
large, and because several combinations fault (section 5).

### HashMap and KeyMap

One action per call. `hash` is chosen at `BaseInit` among all functions from
`Key` to `HashValues`, so a run covers every hash function over these values,
after the secondary hash. `Find`, `ShiftBack` and `Rehashed` are `entry_find`,
`entry_remove` and `rehash`: a search is the least number of steps after which the
probe stops, and the loops of removal and growth are recursive functions of the number
of iterations done (`walk`, `new`), in the code's order. `Pow2` are the sizes that
`1 << n` can give. `tableSizeInit`, `size` and `table` are the fields of the map. `block` and
`announced` record where the table lives and what `on_realloc` was last told.
`owned` counts copies made by `key_dup` and not freed. `iter` is the caller's
iterator with the `temp_ptr` of the "safe" loops: a caller drops it after any
change except the removal of the current key, as the header requires. `visited`
and `reserved` are history variables, read by properties only.

`KeyMap` has the map and the result of the last call. `HashMap` implements it
under the mapping `Contents`, which reads the entries slot by slot and not through
the code's search, so that a hidden or duplicated entry is a refinement error.
The macro `managed_object_hashmap_iter_set_data` has an unbalanced parenthesis and
cannot be used; `IterSetData` is the base function behind it.

### PageList

`pages` is `page_list`, each page with its slots and three caches; `at` is what
`set` returned for each value; `pc` becomes `"assert"` or `"range"` when `unset`
hits its assertion or a page number outside the vector. `shifted` is a history
variable: a page in front of another one was dropped. Values are held in at most
one place. `page_size` is positive.

### MetadataTable and WeakMap

`tbl` is a table of the macros of `metadata.h`: keys, values, `used`, `deleted`,
whether keys are compared by address (`eq`), and which side is weak (`wk`, `wv`).
`BucketsFind` probes as `buckets_find` does, `Rehashed` copies as `table_rehash`
does, slot by slot (`CopySlot`, and the recursive function `copy`), and returns the assertion that fails, if one does; `TrySet`, `SetIn`, `At`,
`Absent` and `Search` are `table_try_set`, `table_set`, the rest of `table_ref`,
`table_delete` and `intern_string`, and `table_find`. `home` is the hash of a key:
for an `eq` table it changes when the key moves, for a table of strings it is a
function of `class`, the set of equal strings. `ld` is the location dependency.

The MPS is external. A call is one step up to the allocation of a rehash, where
`pc = "alloc"` and `call` remembers what the call was doing; `RehashReturns` is the
rest. `MpsCollects` happens between calls and in these allocations, as often as it
likes. A collection splats some of the dead objects on both sides, as the scanner does
for dependent buckets, and moves at most one key.

The AWL pool is also scanned at barrier hits, inside a call. A hit scans the whole
segment before the access goes on. Each call touches the keys first, and what a hit splats
there is splatted before the call has read anything, as by a collection before the call.
The values are touched after the key has been accepted: at `metadata.h:569` in a rehash,
611 in `table_ref`, 631 in `try_set`, 660-663 in `table_delete`. If the values are weak and
still protected, that touch splats dead values and their keys. Each call therefore has a
set `dead` of the objects that its hit splats, any subset of `Dying`, and is made of what
precedes the hit, `Splat`, and what follows: `TrySet` writes the key before and the value
after it, `At` goes on with the splatted table and the slot found in the old one, and
`AsRead` is the table as a rehash copies it, its first key read before the hit and all the
rest after. `Touch` sets the history variable `raced` when the hit splatted the very entry
that the call had chosen. The call then goes on as the code does: it returns the deleted
marker, counts a deletion twice, stores a value under the deleted marker, or fails the
assertion at 578. The properties of the table say what holds until then, and which hold
regardless. A hit that splats other entries only is in every run and in every theorem.

`mps_ld_isstale` may say stale after any collection that moved something
and must when a key in the dependency did; that the pools of today's code never move
an object is not used, because the code is written for ones that do. Objects that the
call's C frame names stay and do not move: the stack is a root. `values.used` and
`values.deleted` are written and never read, and are left out; so is the finalization
of tables. `MPS_FIX1` of NULL is taken to answer no, so a slot of a deleted value is
never splatted.

`WeakMap` has the map from classes of equal keys to entries, the last result, and
`Forget`, which drops entries whose weak side the program does not hold. The
mapping reads the entries from the slots, not through the code's search.

### ObjPool

`st` is each state's `ManagedObjState`: whether it is up, whether its arena is
parked, its two counters in objects instead of bytes, and `pinned_used`, and whether it has its stack root. `obj` and
`ptr` are the objects and the pointers to their payloads, `reg` what is registered
with `mps_finalize`, `queue` the messages, and `held` what the program (its stack and
registers) refers to. `chats` holds the activations of
`managed_obj_mps_chat`: more than one when a callback collects. `init`, `global` and
`ids` are `managed_obj_global_metadata_init`, the arena of the global state, and its two
marker objects, numbered by generation; `marks` of a table is the generation its
buckets were filled with. `robbed`, `gens`, `ran` and an object's `excuse` are history.

`InitState`, `Make`, `Pin`, `Unpin`, `Collect` and `Deinit` are the calls; `Deinit` goes
up to the message loop and `DeinitEnds` is the rest. `Message` is one iteration of the
loop up to the callback, `CallbackReturns` what follows; in between, the callback may free
its payload, make objects, store, collect, or keep what its payload refers to
(`Resurrect`). The MPS is external: `Collection` finds some unreachable objects dead
(ambiguous references may keep more), posts messages for the registered among them,
except some that other posted ones reach, and reclaims those that no message reaches.
`InitState` chooses whether the stack root could be created: `obj.c:475` prints a message
and goes on without it, where every other failure aborts. `Roots` has what the program holds only in
a state with the root. The program uses an object it holds and that is not reclaimed (what
the code does to a reclaimed one is undefined and not followed), frees a payload in its callback only, unpins what
it has pinned, and starts and ends states outside callbacks. The library is used by one
thread at a time; `managed_obj_init` and `_deinit` hold the global lock, so each
transition of the global state is one step.

What the model shows of the code beyond its properties:

- `mps_arena_collect` leaves the arena parked and nothing releases it, so after the
  first explicit collection the MPS never collects by itself (`parked`);
- objects that callbacks make while their state ends have no roots and are not
  finalized (excuse `late`), nor are those that another dead object refers to when the
  one collection of the shutdown runs (excuse `shadowed`);
- any state that ends clears the markers of all (`robbed`). The next state makes new
  ones, and a table that still holds the old ones fails the assertions of its next rehash;
- a table is counted when made and not when finalized.

### ObjFormat

`mem` is a segment: which object starts at each address. `Skip`, `ScanSize`, `IsFwd`,
`Fwd` and `Padding` are the methods of the format, over a layout `SizeOf` that is a
constant. `MakeObject` stands for the functions that reserve, fill in and commit an object;
`Forward` and `PadReclaimed` are what the MPS does with it. `LayoutOK` is what the code
needs of the layout: the padding objects fit in one and two words, and the two-word
forwarding object is not larger than the general one. A word has eight bytes.

## 3. Runs

| Run | Question | Expected |
|---|---|---|
| `heap_tree` | objects with payloads and `byRef` members, payload destructors that call the API, nested collections: what is in scope is intact, every collection frees what is not, nothing is left at exit but what callbacks skipped, and a fault needs a member that a callback destroyed | pass |
| `heap_share` | memories shared by copies and assignments with references both ways, boxes filled by `reroot`, `dealloc`, callbacks: bookkeeping of the sweep and of its drain, which code leaves heaps behind, and the end of every collection | pass |
| `hash_map` | refinement of `KeyMap`, chains, count, complete iteration, reserved capacity, key copies and which block is announced, for every hash function, under failing `key_dup` and rehash | pass |
| `page_order` | every order of `set` and `unset` on five values | pass |
| `meta_table` | refinement of `WeakMap`, no failing assertion, exact counts, for every combination of weak sides, `eq` and string tables, under collections between calls, in their allocations and at their barrier hits, up to a hit that splats the entry a call has chosen | pass |
| `obj_states` | two states, with or without a stack root, and two objects with callbacks that use the pool: finalized once, counted, pinned, and served with markers | pass |
| `obj_format` | segments of objects of every type, forwarded, reclaimed and padded in any order | pass |
| `heap_copy`, `heap_dealloc_twice`, `heap_drain`, `hash_reset`, `meta_assert` | statements of the documentation and assertions that the code breaks (section 5) | violation |

Four more configurations are kept for the reader and are not runs of `PROJECT.json`. TLC
answers each within seconds with a counterexample, of which section 5 tells the story:
`tlc -config hash_announce.cfg MCHashMap`, `page_assert.cfg` with `MCPageList`,
`meta_part.cfg` with `MCMetadataTable` and `obj_root.cfg` with `MCObjPool`.

### Bounds, and why they are enough

- Collector: two to four objects with one or two payloads. Three objects give
  an object, a member of it and a member of the member, or two heaps on one
  Memory and a third that refers to it; cycles need two. `Heap` is larger than
  `Obj` where an assignment makes new heaps. `DeallocLimit = 2` reaches automatic
  collections; the code's 10 only delays them. `MaxEntries` bounds the entries a
  client pushes into a Memory, `MaxNested` the activations of `collect` at once.
  The drain goes wrong in a Memory with a payload and two members, when a callback
  destroyed both: that needs the container, the two members and an object whose payload's
  destructor calls back, so four objects, two payloads and three entries. `heap_tree` has
  every behaviour of three objects, and of four those of `DestroyedLast`: every object is
  made and filled, exactly two are members, and members hold no payload, before one is
  destroyed, and there is one collection at a time, after a deallocation. `heap_drain` is
  the same instance, so the wrong drain and the double delete that follows are among the
  behaviours of which `heap_tree` says that each fault needs a skipped member.
  `heap_share` has three objects, made in the order of their numbers instead of `SYMMETRY`,
  which would not be sound for `CollectTerminates`.
- Hash map: `SizeMin = SizeDefault = 4` instead of 32 and 128. Four is the least
  power of two for which a full table makes the next `put` grow, as every table of
  the code does. Four keys on tables of 4 and 8 slots, with the hash values 0 and 7, the start and the
  end of either table, give full tables, growth, and chains around the end. `SizeMax` is where the counter would wrap;
  `Sane` stops changes after it has. `Capacities` bounds the arguments of `reserve`.
- Page list: pages of two slots and five values give three pages, so a page in
  front, between and behind can be dropped; `MaxPages` is never the limit.
- Metadata table: tables of 1, 2 and 4 slots; `MaxLength = 4` bounds the doubling. Two
  keys and two values, so that a set may replace a dead value by another one, with homes at the start and the end of a table of four and two
  probe steps, give collisions, wrap-around, deleted slots that count as load, and a
  rehash of each kind (full, stale, and stale again in a doubling); one of two equal
  keys may die while the other is looked up. A doubling here starts from at most one
  entry; that a doubling of any table is right is proved (section 4).
- Pool: two states, so that one can end while the other is in use, and two objects, so
  that one can shadow or resurrect the other. `MaxGen = 2` bounds the times the markers
  are made. `MaxPins` bounds the pins of a state: with 2, one object may be pinned twice or
  two once. `PinsInOneState` searches pins only while one state is up: no other property
  reads them, and two states share none.
- Format: a segment of 80 bytes holds three objects of the least size, so one can
  lie between two others; the lengths 0, 7 and 8 are around a rounding boundary.

### Fairness

Only `CollectTerminates` of `heap_share` needs any: weak fairness of the collector's steps
and strong fairness of the return of a payload destructor. A collection runs in the thread
that called it and has no blocking call, so it goes on as long as it has a step. A
destructor that starts a collection is itself not running until that one ends, so its return
is enabled again and again and not all the time; a destructor that does not return, or
collects for ever, is the client's. Client calls are not fair.

## 4. Proofs

`ManagedHeap_proofs` proves, for all values of the constants that satisfy the
assumptions `DistinctIds` and `BoundsOK`:

- `InductiveHolds`: `Spec => []Inductive`;
- `TypeCorrect`: `Spec => []TypeOK`;
- `SeenOnStack`: `Spec => []SeenIsOnStack`;
- `IteratedStable`: `Spec => IteratedIsStable`;
- `OnlyCallbacksLeave`: `Spec => OnlyCallbacksSkip`;
- `IndexesAlwaysMatch`: `Spec => []IndexesMatch`.

`TypeOK` is not inductive: a step of `do_sweep` reads the slot at its position and
follows the reference it finds there, so its type rests on what the activations
below have in hand. `Inductive` adds that every Memory's size is within its buffer
(`GoodMem`), that heaps in use have a Memory and objects a heap (`GoodHeap`,
`GoodObj`), which stacks can be non-empty in which phase (`GoodControl`), and
`SweepFrames`: an activation that has called another holds a reference to the heap
the other visits, inside its vector, and no activation starts on or drains a Memory
that one below iterates. The last part needs `SeenIsOnStack`, and both are proved
together. The argument for the recursion is that a step changes only the Memory of
the topmost activation or the one its entry refers to; `SweepFrames` says that
neither is iterated further down, so what the lower activations have in hand stays
(`OuterKept`, `Advance`, `Drained`). `IteratedStable` is that fact as a property of
steps. There is one lemma per action, on top of lemmas about the vector operations
(`PushEntryType`, `EraseSlotType`, `RemoveEntryType`, `DrainOneType` and others).

`OnlyCallbacksLeave` adds `Owners`: no two objects have the same heap, and `inside` is
clear whenever the program's own code runs. With `SeenIsOnStack`, which says that the
root's `seen` is clear there too, `dealloc` does not take its early return
(`heap.cpp:124`), so it marks the heap that the object gives up (`DeallocMarks`). That
the heap is the object's alone is needed for the steps that touch another object.

`IndexesAlwaysMatch` says that the
vectors `memory` and `indexes` hold the same multiset of indexes. Multiset, because an
index is the size at the time of the push and so occurs twice after an erasure. The
counts are cardinalities of sets of positions; `CountRemove` shows by a bijection what
an erasure in the middle does to them, and `EraseBoth` that both vectors lose the same
one. `do_sweep` erases an index through a search for the entry that has it; the theorem
is why that search succeeds at every depth of the recursion. It does not make the drain
right: the position the drain reads is another matter (below).

`ManagedHeapColor_proofs` proves `ColorsAlwaysReset` (`Spec => []AllGray`): when a
collection has returned, no live Memory is still painted, so that the next `mark` visits
all of them (`heap.cpp:291-297`, `317-319`). It holds for every client, the ones that meet
a fault later included. `AllGray` is not inductive: it says nothing of a collection under
way, and nested collections start with memories that an outer one has condemned. The
invariant `Colors` follows a painted Memory through a collection:

- While `mark` runs, every painted Memory that no queue holds (`Owed`) is reached from the
  root list through painted ones only. `Reach` says that without recursion: every set of
  them has a member that one outside the set refers to.
- While `do_sweep` runs, the painted memories it has not come to (`Waiting`) are reached
  through one another from the entries that an activation on the stack has still in front
  of its reverse iterator (`Facing`). `SweepReach` is the step: what an activation passes is
  not waiting, and what it calls for is faced by the activation it calls.
- A Memory in hand is repainted on entry when it was BLACK and drained on return when it is
  WHITE (`Shaded`). The drain ends with an empty vector because `IndexesMatch` holds
  (`DrainedIsEmpty`), which puts the Memory on the second list: whatever the drain did to
  the entries, the Memory is condemned.
- When the stack is empty nothing faces anything, so nothing waits (`ReachNothing`); what is
  condemned is deleted before the activation of `sweep_` that condemned it returns. The root
  list is the exception: it is WHITE during the last collection only (`RootColor`).

`ManagedHeapTree_proofs` proves that the collector is right for a class of clients: those
that make objects, push values into them, make objects members of others and destroy them,
but share no Memory, call neither `reroot` nor `dealloc` themselves and do not call back from a
destructor. The hypothesis is `Uses \subseteq {"byRef"}`; the sets of objects, payloads,
heaps and memories, the bounds and `dealloc_limit` are any.

- `TreeHolds`: `Spec => [](Strong /\ Tree)`, the invariant;
- `TreeNeverFaults`: `Spec => []NoFault`;
- `TreeLiveIsIntact`: `Spec => []LiveIsIntact`;
- `TreeSweepComplete`: `Spec => []SweepComplete`, if `DeallocLimit # 0`;
- `TreeExitReclaims`: `Spec => []ExitReclaimsAll`;
- `TreeCountsBelowLimit`: `Spec => []CountBelowLimit`.

The hypotheses are needed. With copies, `dealloc()` or callbacks `NoFault` or `LiveIsIntact`
is false (section 5 and the end of this section). With `byRef` and `dealloc()` so is
`CountBelowLimit`. With a `dealloc_limit` of 0 nothing collects by itself, and the `uint8_t`
that counts deallocations is 0 again after 256 of them: the condition of `SweepComplete`
then holds with no collection behind it.

The invariant `Tree` looks at a state through what each Memory stores (`Store`) and what the
queues of `sweep_` hold (`Binned`, `Doomed`), so that a step is a small change of sets
(the lemmas named `View`):

- `Owned`: an object has a heap of its own and a heap a Memory of its own; a heap is
  deallocated if and only if its object is gone; members are gone before what contains them,
  and a rank (`Ranked`) says that nothing contains itself.
- `Placed`: what is allocated is stored in the Memory that owns it or is queued, not both, and
  what is stored is allocated. Because entries of one Memory differ (`Tidy`) there is one
  reference to each thing, and so one path on which it can be queued.
- `Reclaimed`: what is queued is dead, a Memory is queued only when it is empty, and its heap
  is deleted with or before it.
- `Marked`, while `mark` runs: a painted heap is WHITE if and only if it is deallocated, and
  what it refers to is painted too or lies ahead of an activation. With the rank, every live
  heap is painted when the stack is empty (`Reached`).
- `Swept`, while `do_sweep` runs: an activation whose heap is deallocated has emptied the
  Memory behind its position, and what it hands to the drain is empty already. So in
  these programs the drain of `heap.cpp:393` finds nothing: `EmptyIsDrained` derives from
  `IndexesMatch` that its loop over `indexes` does not start, and the wrong position it would
  read is never read.
- `Cleared`, `Rested` and `Closed`: what is left when the sweep, the collection and the
  program have ended.

There is one lemma per action (`NewTree`, `MarkScanTree`, `SweepHeapTree` and so on);
`Strong` is what the other modules prove of every client.

The invariants were checked with TLC before they were proved, `Tree` for three and four
objects with `Uses = {"byRef"}`.

`HashMap_proofs` proves, for every set of keys and data, every hash function, and every
sizes and capacities that satisfy `SizesOK`, that every call leaves the map right also
when `key_dup` and `rehash` fail: `TypeCorrect`, `TableStaysSound`, `KeysStayOwned`,
`AnnouncedStaysLive`, `IterationIsComplete`, `ReservationsHold`, and the refinement
`MapIsImplemented` (`Spec => ImplementsKeyMap`). The one hypothesis is `ResetSucceeds`,
that the allocation in `reset` does not fail; `hash_reset` shows that the properties are
false where it does. `SizesOK` keeps the sizes within `1 << 30`, above which the code's
`int` overflows.

- The invariant of a table is `Good`: every chain from a key's home to its slot meets no
  empty slot (`Linked`), no key is there twice, and `HasCut`: there is a slot that no
  other entry's chain crosses. Without `HasCut` the invariant is not inductive. An empty
  slot is such a slot, but when a failed rehash lets a table fill up there is none, and
  removal then walks around the whole table; it stops in time because the last insertion
  went into the only empty slot, which no chain crossed, and removal keeps that.
- Distances around the table are `GapIs` and `RemainderIs`; `ArcHolds` and `ArcWraps` say
  which slots lie on a chain, also around the end. `PassStays` and `PassMoves` are the two
  cases of one iteration of `entry_remove`: the entry behind the hole stays, or moves into
  it and leaves a new one. `WalkContinues` and `WalkEnds` put them together.
- `iter_remove` during an iteration is `BehindStaysBehind`: what removal moves into the
  iterator's slot was ahead of it, and nothing that is ahead moves behind it
  (`IterRemoveKeeps`).
- `MapIsImplemented` has one lemma per call (`PutImplements`, `IterRemoveImplements` and
  so on) over lemmas on what removal and rehash do to `Contents`.

`MetadataTable_proofs` proves, for every set of keys and values, every hash function with
odd steps and every size of table (`TableOK`), and for every interleaving of collections
with the calls, their allocations and their barrier hits: `TypeCorrect`,
`AssertionsNeverFail`, `SizeStaysExact`, `SearchesAlwaysEnd`, `SidesAlwaysAgree`,
`EntriesStaySound`, and the refinement `WeakMapIsImplemented` (`Spec => ImplementsWeakMap`).
All of them hold until a hit on weak values splats the very entry that a call has
chosen: `AssertionsHold` and `SidesAgree` say so themselves, the others are stated as
`Spec => [](~raced => ...)`, and a step of the refinement is a step of `WeakMap` or sets
`raced`. `meta_assert` and `meta_part.cfg` show that the exception cannot be dropped. With
strong values it is empty: `StrongValuesAreSafe` is
`Spec /\ [](~tbl.wv) => [](NoAssertionFails /\ SidesNeverPart)`.

- The invariant is `Safe`, `IInv` while `raced` is not set. A hit that splats only other
  entries is `Splat` of a set of values that the slot at hand does not hold, and what is
  left to show is that the search, the slot and the counts of the call survive it.

- A search ends because an odd step visits every slot of a table whose length is a power of
  two before it meets one again (`StepsDiffer`, from `PowersCancel`), and because at most
  half of the slots are not unused (`UnusedIsMet`). That half is a part of the invariant:
  deleting keeps `used`, setting grows the table before it passes the half.
- That chains lead to their keys is claimed in `GoodTable` only while no key of the location
  dependency has moved: after a move the slots are where the old addresses put them. A search
  in a stale table may miss; `Lookups` lists what the code may then do, and `LookupIs` says
  that a "free" is never answered when the key is there.
- `CallOK` is what a call relies on across the allocations of its rehash, while the collector
  splats and moves: what it works on is held, and if it is about to insert a string, no equal
  one is there. `RehashGoesOn` and the lemmas named `GoesOn` follow the rest of each call,
  also into a second rehash.
- `CollectKeeps` and `SplatErases` are the scanner: both sides of an entry leave together,
  and the count goes down by one.
- For the refinement, the collector implements `Forget` (`CollectImplements`), and a rehash
  that drops nothing but deleted slots is a stutter.

What the recursive functions of these two modules compute cannot be had from the library's
induction theorems, which take an operator as a parameter. The proofs use the least
element instead: if some number of iterations broke the claim there would be a first, which
is not 0 and whose predecessor keeps the claim (`WalkExists`, `FillingExists`, `CopyExists`; the
least element comes from the theorem that finite sets are well-founded under inclusion,
in `MinExists`).

`PageList_proofs` proves, for every set of values, page size and number of pages
that satisfy `PagesOK`:

- `PageListTypeCorrect`: `Spec => []TypeOK`;
- `CachesAgree`: `Spec => []PagesConsistent`;
- `PositionsValid`: `Spec => []PositionsResolve`.

They are proved together, as parts of `Inductive` of that module. Consistent caches
make `set` find a free slot in the page it takes (`PutType`), so it never overwrites a
value; a value that resolves keeps the page of another one from becoming empty
(`ClearType`), so the page that is dropped without `shifted` is the last and holds no
value. `MinExists` derives the least element that `Min` chooses from the library's
theorem that finite sets are well-founded under inclusion.

`ObjPool_proofs` proves, for any number of states and any finite set of objects
(`PoolOK`), with or without their stack roots, every property that `obj_states` checks
(`TypeCorrect`, `CallbackRunsOnce`, `CountersBalanced`,
`DeinitFinalizesAll`, `MarkersServe`, `GlobalReleased`, `PinsCounted`), and `PayloadDangles`
(a freed payload is referred to only while the callback that freed it runs), which no run
checks. The invariant is `Inv`:

- `Chain`: only the innermost activation of the message loop may be between two
  messages, and a state ends in the outermost one only;
- `Lives`: each object goes from registered to queued to taken, never back, with a
  callback run at most at the last of these; a payload is freed only while its object
  is taken. `CallbackOnce` and `DanglesInCallbackOnly` follow, but not without it;
- `Refs`: what a payload reports is there and in the same state, so a collection
  cannot reclaim what a kept object reports;
- `Excuses`: in a state that is ending, whatever is still registered has an excuse;
  `DeinitFinalizes` is the case of the states that have ended;
- `Markers`: the counter says whether the markers exist, and when they do not, every
  state in use is robbed.

`CollectionCollects` says once what a collection can do to the objects (`Collects`), and
`CollectsKeeps` that this preserves `Inv`; the three steps that collect instantiate it.
`QuietKeeps` does the same for the steps that leave the messages alone. The counters are
cardinalities, followed with the library's theorems on finite sets.

`ObjFormat_proofs` proves, for every layout that satisfies `LayoutOK`, every
segment size and every set of lengths: `SkipWalksSegment`, `ScanWalksSegment`,
`ReplacementsFit` and `ForwardingIsFound`, which are the four invariants of
`obj_format`, and `TypeCorrect`. `ReplacementsFit` rests on the rounding of `AlignObj`, which
leaves room for a forwarding object in every object (`AlignObjRounds`).

What is model-checked only:

- `CollectTerminates`: liveness under fairness is outside the prover.
- Of the collector, `LiveIsIntact`, `SweepComplete`, `ExitReclaimsAll` and
  `CountBelowLimit` for clients with callbacks, which `heap_tree` has: the theorems
  above are about clients without. The first is not true for every client, and
  neither is the last; whether the others are remains open. Copies break `LiveIsIntact`
  (`heap_copy`), and `dealloc()` breaks `NoFault` (`heap_dealloc_twice`).
- `FaultsNeedSkippedMember`, which takes the place of `NoFault` for clients with members and
  callbacks. `NoFault` is false for them (`heap_drain`), and what is missing from an
  invariant is that a memory is drained through positions that are still right;
  `IndexesMatch` says as much as is true of them. That the members were destroyed by a
  callback is checked up to the bounds of `heap_tree` only.
- The statements of section 5, which are false.

## 5. Disagreements between the code and what is said of it

- `heap_copy`: copies share a Memory, and `mark` lets the first heap it visits
  decide its colour. If the original leaves its scope before the copy, the payload
  of the live copy is destroyed. `README.md:146` says that it is kept.
- `heap_dealloc_twice`: `dealloc()`, a collection, and the destructor of the same
  object, which uses its deleted heap. `README.md:155-159` shows the call.
- `heap_drain`: an object has a payload and two `byRef` members, in this order. The payload
  of another object is destroyed by the collector, and its destructor destroys the two members, so
  that `dealloc()` returns at once (`heap.cpp:124`) and their heaps stay unmarked. Then the
  container is destroyed and swept. Its payload is erased first, the members move to
  positions 0 and 1 and keep the indexes 1 and 2, and the drain of `heap.cpp:393` uses the
  index as the position: it reads slot 2, which is past the end and still holds the second
  member, and slot 1, which holds it too. The second member's heap is queued twice, which
  ends in a double delete, and the first one's is erased without being queued: nothing refers
  to it any more and nothing will delete it. `README.md:22` says that "it should be impossible
  to leak a reference".
- `hash_reset`: a failing `reset` leaves the entries in a map that reports size 0. With copied
  keys the entries point to freed copies; `hash_map` lets only `key_dup` and rehash
  fail for this reason.
- `hash_announce.cfg`: `on_realloc` is told `table_size*2`, the number of pointers in the table,
  where its declaration (`managed_object_hashmap_base.h:25` and 33, `hashmap.c:276`) names
  `length_in_bytes`. A hook that scans this many bytes sees an eighth of the table.
- `page_assert.cfg`: positions behind a dropped page reach the wrong slot, which the
  assertion of `unset` reports when that slot is free.
- `meta_assert`: in a table with weak values, a rehash reads a key, then its value
  (`metadata.h:569`), and the barrier hit of that read splats the entry and counts it as
  deleted. The key is copied all the same, and the assertion at 578 fails.
- `meta_part.cfg`: `try_set` finds a key whose old weak value is dead; the hit at its write
  (`metadata.h:631`) splats value and key, and the new value is stored under the deleted
  marker. The scanner's comment at 223 says that key and value are splatted together.
- `obj_root.cfg`: without the stack root (`obj.c:475`) an object that only the stack refers to is
  finalized by the first collection and reclaimed by the second. The comment of
  `tests/managed_object_tests.cpp:339` says "should not collect p".

Smaller ones that no run is spent on: an object created and destroyed inside a
destructor that the collector runs is never marked deallocated (`heap.cpp:124`) and
stays allocated, which `OnlyCallbacksSkip` of `heap_share` bounds to such destructors;
the end of one state invalidates the tables of all others (`metadata.h:198`), which
`MarkersServeStates` excepts as `robbed`; the size that `put` compares with the load
factor is the one before the insertion, so a table takes one entry more than the
three quarters of `hashmap.c:42` (25 of 32, 97 of 128); the sweep may delete the heap of a boxed `ManagedObject` before
the object, whose destructor then reads it (the boxes of `heap_share` reach this
fault, and the run goes on to check the other behaviours). A comment in `heap.cpp:11` speaks of a collection every 20 deallocations where the
constant is 10. The Memory of a rerooted child is not queued.

## 6. Not modelled

- `print()` and `color()` of the collector, `load_factor` and `collisions*` of the
  hash map, `print_chunk_and_index`: output and statistics without effect.
- `ManagedObjectPage::resize` of a page in use, and the lifetime of the values `T`
  in a page.
- The depth of the C++ stack, and integer widths of sizes beyond the instances.
- MPS, the JIT, the Boehm stub and the tests: external or not part of the program.
- Of the pool: the statistics that are printed, byte counts, and callbacks that start or
  end a state. The payload, not the object, is passed to a callback, so what a program
  does with a pointer to its own object there is not in the model either.
- Of the metadata table: `describe` and printing; whether memory is ever reclaimed.
- Threads: the library is used from one at a time.

## 7. Plan

1. `ManagedHeap`: an abstract collector (a set of memories, reachability from the objects in
   scope) that it implements for the clients of `ManagedHeapTree_proofs`, from the invariant
   proved there.
2. `ManagedHeap`: what remains true with copies and with callbacks. `OneHeap` and the empty
   drain are what fails first.
3. `ManagedObjectPage::resize` of a page in use.
