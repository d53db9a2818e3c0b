------------------------------ MODULE PageList ------------------------------
(***************************************************************************)
(* managed_object_pagelist.h: a list of pages of page_size slots.  set()   *)
(* gives a value the first free slot of the first page that is not full    *)
(* and returns its position over all pages; unset() takes that position,   *)
(* and a page that becomes empty leaves the list.                          *)
(***************************************************************************)
EXTENDS Integers, Sequences, SequencesExt, FiniteSets, FiniteSetsExt

CONSTANTS
  Value,     \* the values a caller stores, each in one place at a time
  Null,      \* a slot whose `set` is false
  PageSize,  \* page_size
  MaxPages   \* bound: pages in the list

ASSUME PagesOK == PageSize \in Nat \ {0} /\ MaxPages \in Nat /\ Null \notin Value

VARIABLES
  pages,   \* page_list; a page has its slots, used_, empty_ and full_
  at,      \* what set() returned for each value the caller holds, or None
  pc,      \* "run", "gone" after the destructor, or why the program stopped
  shifted  \* history: a page in front of another one left the list

vars == <<pages, at, pc, shifted>>

None   == -2
Failed == -1   \* (size_t)-1, what a page without a free slot returns
Slot   == 0..PageSize - 1

SetSlots(p) == {i \in Slot : p.slots[i] # Null}

----------------------------------------------------------------------------
(* ManagedObjectPage.                                                      *)

NewPage == [slots |-> [i \in Slot |-> Null], used |-> 0, empty |-> TRUE, full |-> FALSE]

\* The slot that set() takes: the first that is free.
FreeSlot(p) ==
  IF SetSlots(p) = Slot THEN Failed ELSE Min(Slot \ SetSlots(p))

\* A used_ that counts the value twice.
PagePutTwice(p, i, v) ==
  [slots |-> [p.slots EXCEPT ![i] = v], used |-> p.used + 2, empty |-> FALSE,
   full |-> IF p.used + 2 = PageSize THEN TRUE ELSE p.full]

PagePut(p, i, v) ==
  [slots |-> [p.slots EXCEPT ![i] = v], used |-> p.used + 1, empty |-> FALSE,
   full |-> IF p.used + 1 = PageSize THEN TRUE ELSE p.full]

\* An unset() that leaves full_ as it was.
PageClearKeepsFull(p, i) ==
  [slots |-> [p.slots EXCEPT ![i] = Null], used |-> p.used - 1,
   empty |-> p.used - 1 = 0, full |-> p.full]

PageClear(p, i) ==
  [slots |-> [p.slots EXCEPT ![i] = Null], used |-> p.used - 1,
   empty |-> p.used - 1 = 0, full |-> FALSE]

----------------------------------------------------------------------------
(* ManagedObjectPageList.                                                  *)

Init ==
  /\ pages = <<>> /\ at = [v \in Value |-> None] /\ pc = "run" /\ shifted = FALSE

\* Positions that do not count the full pages in front.
IndexInPage(k, i) == i

Index(k, i) == (k - 1) * PageSize + i
Chunk(x)    == x \div PageSize + 1
Subindex(x) == x % PageSize

Set(v) ==
  /\ pc = "run" /\ at[v] = None
  /\ LET open == {k \in DOMAIN pages : ~pages[k].full}
         k    == IF open = {} THEN Len(pages) + 1 ELSE Min(open)
         p    == IF open = {} THEN NewPage ELSE pages[k]
         i    == FreeSlot(p)
         q    == IF i = Failed THEN p ELSE PagePut(p, i, v)
     IN  /\ k <= MaxPages
         /\ pages' = IF open = {} THEN Append(pages, q) ELSE [pages EXCEPT ![k] = q]
         /\ at' = [at EXCEPT ![v] = Index(k, i)]
  /\ UNCHANGED <<pc, shifted>>

\* unset() of the position that set() returned for v, and not yet unset.
Unset(v) ==
  /\ pc = "run" /\ at[v] # None
  /\ LET k == Chunk(at[v])
         i == Subindex(at[v])
     IN  \/ /\ k \notin DOMAIN pages
            /\ pc' = "range" /\ UNCHANGED <<pages, shifted>>
         \/ /\ k \in DOMAIN pages /\ pages[k].slots[i] = Null
            /\ pc' = "assert" /\ UNCHANGED <<pages, shifted>>
         \/ /\ k \in DOMAIN pages /\ pages[k].slots[i] # Null
            /\ LET q == PageClear(pages[k], i)
               IN  /\ pages' = IF q.empty THEN RemoveAt(pages, k) ELSE [pages EXCEPT ![k] = q]
                   /\ shifted' = (shifted \/ (q.empty /\ k < Len(pages)))
            /\ UNCHANGED pc
  /\ at' = [at EXCEPT ![v] = None]

\* ~ManagedObjectPageList, which deletes every page.
Destroy ==
  /\ pc = "run" /\ pc' = "gone"
  /\ pages' = <<>> /\ at' = [v \in Value |-> None] /\ UNCHANGED shifted

Stopped == pc # "run" /\ UNCHANGED vars

Next ==
  \/ \E v \in Value : Set(v) \/ Unset(v)
  \/ Destroy \/ Stopped

Spec == Init /\ [][Next]_vars

----------------------------------------------------------------------------
(* Properties.                                                             *)

Page == [slots : [Slot -> Value \cup {Null}], used : 0..PageSize,
         empty : BOOLEAN, full : BOOLEAN]

TypeOK ==
  /\ pages \in Seq(Page) /\ at \in [Value -> {None, Failed} \cup Nat]
  /\ pc \in {"run", "gone", "assert", "range"} /\ shifted \in BOOLEAN

\* The caches of p agree with its n set slots.
Consistent(p, n) ==
  p.used = n /\ (p.empty <=> n = 0) /\ (p.full <=> n = PageSize)

\* The cached used_, full_ and empty_ agree with the slots whatever the order of
\* calls, and no empty page stays in the list, so set() never searches a page that
\* has no free slot (managed_object_pagelist.h:114-163, 190-228).
PagesConsistent ==
  \A k \in DOMAIN pages :
    Consistent(pages[k], Cardinality(SetSlots(pages[k]))) /\ ~pages[k].empty

\* While no page in front of another one has been dropped, every position that a
\* caller holds is its own and leads to its value, and no unset() has failed
\* (managed_object_pagelist.h:148-161, 190-228).
PositionsResolve ==
  ~shifted =>
    /\ pc \in {"run", "gone"}
    /\ \A v \in Value : at[v] # None =>
         /\ at[v] # Failed /\ Chunk(at[v]) \in DOMAIN pages
         /\ pages[Chunk(at[v])].slots[Subindex(at[v])] = v

\* unset() of a position that set() returned finds the slot set, as the assertion
\* says (managed_object_pagelist.h:151, "assert(set.set)").
AssertionHolds == pc # "assert"

=============================================================================
