--------------------------- MODULE ObjPool_proofs ---------------------------
(* Proofs about the states over the MPS, for any number of states and      *)
(* objects.                                                                *)
EXTENDS ObjPool, FiniteSetTheorems, SequenceTheorems, TLAPS

----------------------------------------------------------------------------
(* Reachability.                                                           *)

\* A set of roots is reachable from itself.
LEMMA ReachContains ==
  ASSUME NEW S, NEW x \in S, x \in Object
  PROVE  x \in Reach(S)
BY DEF Reach

\* What a reachable object reports is reachable.
LEMMA ReachIsClosed ==
  ASSUME NEW S, NEW o \in Reach(S), NEW r \in Reports(o), r \in Object
  PROVE  r \in Reach(S)
BY DEF Reach

\* More roots reach more objects.
LEMMA ReachMonotone ==
  ASSUME NEW S, NEW S2, S \subseteq S2
  PROVE  Reach(S) \subseteq Reach(S2)
BY DEF Reach

----------------------------------------------------------------------------
(* The activations of managed_obj_mps_chat.                                *)

\* Only the innermost activation may be between two messages, and a state ends
\* in the outermost one only.
Chain ==
  /\ \A k \in 1..Len(chats) : k < Len(chats) => chats[k].obj # Null
  /\ \A k \in 1..Len(chats) : chats[k].why = "deinit" => k = 1

\* What an activation is.
LEMMA Frames ==
  ASSUME chats \in Seq(FrameT)
  PROVE  /\ Len(chats) \in Nat
         /\ \A k \in 1..Len(chats) : /\ chats[k] \in FrameT /\ chats[k].state \in State
                                     /\ chats[k].obj \in Object \cup {Null}
                                     /\ chats[k].why \in {"collect", "deinit"}
         /\ Taken \subseteq Object
         /\ InChat <=> Len(chats) # 0
         /\ InChat => Len(chats) \in 1..Len(chats)
<1>1. Len(chats) \in Nat /\ \A k \in 1..Len(chats) : chats[k] \in FrameT
  OBVIOUS
<1>2. \A k \in 1..Len(chats) : /\ chats[k].state \in State
                               /\ chats[k].obj \in Object \cup {Null}
                               /\ chats[k].why \in {"collect", "deinit"}
  BY <1>1 DEF FrameT
<1>3. InChat <=> Len(chats) # 0
  BY DEF InChat
<1> QED BY <1>1, <1>2, <1>3 DEF Taken

\* A step that leaves the activations alone.
LEMMA SameChats ==
  ASSUME UNCHANGED chats
  PROVE  /\ Taken' = Taken /\ (Chain => Chain')
         /\ \A s \in State : Ending(s)' <=> Ending(s)
BY DEF Taken, Chain, Ending

\* A message is taken, or discarded.
LEMMA SetTopKeeps ==
  ASSUME chats \in Seq(FrameT), InChat, Chain, NEW o \in Object \cup {Null}, SetTop(o)
  PROVE  /\ chats' \in Seq(FrameT) /\ Chain'
         /\ Taken' \subseteq Taken \cup ({o} \ {Null})
         /\ o # Null => o \in Taken'
         /\ Taken \subseteq Taken' \cup {Top.obj}
         /\ \A s \in State : Ending(s)' <=> Ending(s)
<1> DEFINE n == Len(chats)
<1>1. n \in Nat /\ n \in 1..n /\ \A k \in 1..n : chats[k] \in FrameT
  BY Frames
<1>2. [chats[n] EXCEPT !.obj = o] \in FrameT
  BY <1>1 DEF FrameT
<1>3. chats' \in Seq(FrameT) /\ Len(chats') = n
  BY <1>1, <1>2 DEF SetTop
<1>4. /\ \A k \in 1..n : k # n => chats'[k] = chats[k]
      /\ chats'[n] = [chats[n] EXCEPT !.obj = o]
  BY <1>1 DEF SetTop
<1>5. /\ \A k \in 1..n : chats'[k].state = chats[k].state /\ chats'[k].why = chats[k].why
      /\ chats'[n].obj = o
  BY <1>1, <1>4 DEF FrameT
<1>6. Chain'
  BY <1>1, <1>3, <1>4, <1>5 DEF Chain
<1>7. \A s \in State : Ending(s)' <=> Ending(s)
  BY <1>3, <1>5 DEF Ending
<1>8. Taken' \subseteq Taken \cup ({o} \ {Null})
  <2> SUFFICES ASSUME NEW k \in 1..n, chats'[k].obj # Null
               PROVE  chats'[k].obj \in Taken \cup ({o} \ {Null})
    BY <1>3 DEF Taken
  <2>1. CASE k = n
    BY <2>1, <1>5
  <2>2. CASE k # n
    BY <2>2, <1>4 DEF Taken
  <2> QED BY <2>1, <2>2
<1>9. o # Null => o \in Taken'
  BY <1>1, <1>3, <1>5 DEF Taken
<1>10. Taken \subseteq Taken' \cup {Top.obj}
  BY <1>1, <1>3, <1>4, <1>5 DEF Taken, Top
<1> QED BY <1>3, <1>6, <1>7, <1>8, <1>9, <1>10

\* A collection enters the loop again.
LEMMA PushKeeps ==
  ASSUME chats \in Seq(FrameT), Running, Chain, NEW s \in State,
         chats' = Append(chats, Frame(s, "collect")), PoolOK
  PROVE  /\ chats' \in Seq(FrameT) /\ Chain' /\ Taken' = Taken
         /\ \A t \in State : Ending(t)' <=> Ending(t)
<1> DEFINE n == Len(chats)
<1>1. n \in Nat /\ \A k \in 1..n : chats[k] \in FrameT
  BY Frames
<1>2. Frame(s, "collect") \in FrameT
  BY DEF Frame, FrameT
<1>3. chats' \in Seq(FrameT) /\ Len(chats') = n + 1
  BY <1>1, <1>2
<1>4. /\ \A k \in 1..n : chats'[k] = chats[k]
      /\ chats'[n + 1].obj = Null /\ chats'[n + 1].why = "collect"
  BY <1>1, <1>2 DEF Frame
<1>5. \A k \in 1..n : chats[k].obj # Null
  BY <1>1 DEF Running, Callback, InChat, Top, Chain
<1>6. \A k \in 1..n + 1 : k \in 1..n \/ k = n + 1
  BY <1>1
<1>7. \A k \in 1..n : k \in 1..n + 1
  BY <1>1
<1>8. Chain'
  BY <1>1, <1>3, <1>4, <1>5, <1>6 DEF Chain
<1>9. Taken' = Taken
  BY <1>1, <1>3, <1>4, <1>6, <1>7 DEF Taken
<1>10. \A t \in State : Ending(t)' <=> Ending(t)
  BY <1>1, <1>3, <1>4, <1>6, <1>7 DEF Ending
<1> QED BY <1>3, <1>8, <1>9, <1>10

\* The loop of a collection ends.
LEMMA PopKeeps ==
  ASSUME chats \in Seq(FrameT), InChat, Chain, Top.obj = Null, Top.why = "collect",
         chats' = SubSeq(chats, 1, Len(chats) - 1)
  PROVE  /\ chats' \in Seq(FrameT) /\ Chain' /\ Taken' = Taken
         /\ \A t \in State : Ending(t)' <=> Ending(t)
<1> DEFINE n == Len(chats)
<1>1. n \in Nat /\ n # 0 /\ \A k \in 1..n : chats[k] \in FrameT
  BY Frames
<1>2. chats' \in Seq(FrameT) /\ Len(chats') = n - 1 /\ \A k \in 1..n - 1 : chats'[k] = chats[k]
  <2>1. 1 \in 1..n + 1 /\ n - 1 \in 0..n
    BY <1>1
  <2>2. n - 1 - 1 + 1 = n - 1 /\ \A k \in 1..n - 1 : 1 + k - 1 = k /\ k \in 1..n
    BY <1>1
  <2>3. chats' = SubSeq(chats, 1, n - 1) /\ chats \in Seq(FrameT)
    OBVIOUS
  <2> QED BY <2>1, <2>2, <2>3, <1>1, SubSeqProperties
<1>3. \A k \in 1..n : k \in 1..n - 1 \/ k = n
  BY <1>1
<1>4. \A k \in 1..n - 1 : k \in 1..n /\ k < n
  BY <1>1
<1>5. chats[n].obj = Null /\ chats[n].why # "deinit"
  BY DEF Top
<1>6. Chain'
  BY <1>1, <1>2, <1>3, <1>4 DEF Chain
<1>7. Taken' = Taken
  BY <1>2, <1>3, <1>4, <1>5 DEF Taken
<1>8. \A t \in State : Ending(t)' <=> Ending(t)
  BY <1>2, <1>3, <1>4, <1>5 DEF Ending
<1> QED BY <1>2, <1>6, <1>7, <1>8

\* A state begins to end.
LEMMA FirstKeeps ==
  ASSUME chats \in Seq(FrameT), ~InChat, NEW s \in State, chats' = <<Frame(s, "deinit")>>
  PROVE  /\ chats' \in Seq(FrameT) /\ Chain' /\ Taken' = {} /\ Taken = {}
         /\ \A t \in State : Ending(t)' <=> t = s
         /\ \A t \in State : ~Ending(t)
<1>1. Len(chats) = 0
  BY Frames
<1>2. Len(chats') = 1 /\ chats'[1] = Frame(s, "deinit") /\ Frame(s, "deinit") \in FrameT
  BY DEF Frame, FrameT
<1>3. chats' \in Seq(FrameT)
  BY <1>2
<1>4. chats'[1].state = s /\ chats'[1].why = "deinit" /\ chats'[1].obj = Null
  BY <1>2 DEF Frame
<1>5. \A k \in 1..1 : k = 1
  OBVIOUS
<1>6. Chain' /\ Taken' = {} /\ \A t \in State : Ending(t)' <=> t = s
  BY <1>2, <1>4, <1>5 DEF Chain, Taken, Ending
<1>7. Taken = {} /\ \A t \in State : ~Ending(t)
  BY <1>1 DEF Taken, Ending
<1> QED BY <1>3, <1>6, <1>7

\* No message is left in hand when the state that ends has handled the last.
LEMMA LastKeeps ==
  ASSUME chats \in Seq(FrameT), InChat, Chain, Top.obj = Null, Top.why = "deinit",
         chats' = <<>>
  PROVE  /\ chats' \in Seq(FrameT) /\ Chain' /\ Taken' = {} /\ Taken = {}
         /\ \A t \in State : Ending(t) <=> t = Top.state
         /\ \A t \in State : ~Ending(t)'
<1>1. Len(chats) = 1
  BY Frames DEF Chain, Top
<1>2. \A k \in 1..Len(chats) : k = 1
  BY <1>1
<1>3. 1 \in 1..Len(chats) /\ Top = chats[1]
  BY <1>1 DEF Top
<1>4. Taken = {} /\ \A t \in State : Ending(t) <=> t = Top.state
  BY <1>2, <1>3 DEF Taken, Ending
<1>5. chats' \in Seq(FrameT) /\ Len(chats') = 0
  OBVIOUS
<1>6. Chain' /\ Taken' = {} /\ \A t \in State : ~Ending(t)'
  BY <1>5 DEF Chain, Taken, Ending
<1> QED BY <1>4, <1>5, <1>6

----------------------------------------------------------------------------
(* What a collection does.                                                 *)

\* The effect of a collection that posts some objects and loses others.
Collects(s, posted, lost) ==
  /\ posted \subseteq reg \cap InUse(s) /\ lost \subseteq InUse(s)
  /\ queue' = queue \cup posted /\ reg' = reg \ posted
  /\ lost \cap (reg \cup queue \cup Taken) = {}
  /\ \A o \in Object \ lost : obj[o].is = "made" => Reports(o) \cap lost = {}
  /\ \A o \in Object :
       /\ obj'[o].is = IF o \in lost THEN "gone" ELSE obj[o].is
       /\ obj'[o].in = obj[o].in /\ obj'[o].kind = obj[o].kind
       /\ obj'[o].ref = obj[o].ref /\ obj'[o].marks = obj[o].marks
       /\ obj'[o].pinned = obj[o].pinned
       /\ obj[o].in # s => obj'[o] = obj[o]
       /\ Ending(s) => obj'[o].excuse \in {obj[o].excuse, "shadowed"}

\* The references that a payload reports stay in its state.
Refs ==
  \A o \in Object : obj[o].is = "made" =>
    \A r \in Reports(o) : obj[r].is = "made" /\ obj[r].in = obj[o].in

\* A collection keeps the registered, the messages and what the kept report.
LEMMA CollectionCollects ==
  ASSUME TypeOK, Refs, NEW s \in State, NEW roots, NEW more, Collection(s, roots, more),
         Taken \subseteq Object,
         \A o \in queue \cup Taken : obj[o].is = "made"
  PROVE  /\ obj' \in [Object -> ObjectT]
         /\ \E posted, lost : Collects(s, posted, lost)
         /\ roots = queue /\ more = {} =>
              \A o \in reg' \cap InUse(s) : obj'[o].excuse = "shadowed"
<1> DEFINE dead == InUse(s) \ Reach(roots \cup more)
           due  == dead \cap reg
<1>1. PICK posted \in SUBSET due :
        LET kept == Reach(queue \cup posted \cup Taken)
        IN  /\ due \subseteq kept
            /\ queue' = queue \cup posted /\ reg' = reg \ posted
            /\ obj' = [o \in Object |->
                 IF o \in dead \ kept THEN [obj[o] EXCEPT !.is = "gone"]
                 ELSE IF obj[o].in = s /\ o \in (reg \ posted) \cap kept
                 THEN [obj[o] EXCEPT !.excuse = "shadowed"]
                 ELSE IF obj[o].in = s /\ ~Ending(s)
                 THEN [obj[o] EXCEPT !.excuse = "none"] ELSE obj[o]]
  BY DEF Collection
<1> DEFINE kept == Reach(queue \cup posted \cup Taken)
           lost == dead \ kept
<1>2. /\ due \subseteq kept /\ queue' = queue \cup posted /\ reg' = reg \ posted
      /\ obj' = [o \in Object |->
                 IF o \in lost THEN [obj[o] EXCEPT !.is = "gone"]
                 ELSE IF obj[o].in = s /\ o \in (reg \ posted) \cap kept
                 THEN [obj[o] EXCEPT !.excuse = "shadowed"]
                 ELSE IF obj[o].in = s /\ ~Ending(s)
                 THEN [obj[o] EXCEPT !.excuse = "none"] ELSE obj[o]]
  BY <1>1
<1>3. posted \subseteq reg \cap InUse(s) /\ lost \subseteq InUse(s) /\ dead \subseteq Object
      /\ InUse(s) \subseteq Object /\ due = dead \cap reg
  BY <1>1 DEF InUse
<1> HIDE DEF dead, due, lost, kept
<1>4. reg \subseteq Object /\ queue \subseteq Object /\ Taken \subseteq Object
  BY DEF TypeOK
<1>5. ASSUME NEW o \in Object
      PROVE  /\ obj[o] \in ObjectT
             /\ obj'[o] \in ObjectT
             /\ obj'[o].is = IF o \in lost THEN "gone" ELSE obj[o].is
             /\ obj'[o].in = obj[o].in /\ obj'[o].kind = obj[o].kind
             /\ obj'[o].ref = obj[o].ref /\ obj'[o].marks = obj[o].marks
             /\ obj'[o].pinned = obj[o].pinned
             /\ obj[o].in # s => obj'[o] = obj[o]
             /\ Ending(s) => obj'[o].excuse \in {obj[o].excuse, "shadowed"}
             /\ obj[o].in = s /\ o \in (reg \ posted) \cap kept /\ o \notin lost =>
                  obj'[o].excuse = "shadowed"
  <2>1. obj[o] \in ObjectT
    BY DEF TypeOK
  <2>2. o \in lost => obj[o].in = s
    BY <1>3 DEF InUse
  <2>3. obj'[o] = IF o \in lost THEN [obj[o] EXCEPT !.is = "gone"]
                  ELSE IF obj[o].in = s /\ o \in (reg \ posted) \cap kept
                  THEN [obj[o] EXCEPT !.excuse = "shadowed"]
                  ELSE IF obj[o].in = s /\ ~Ending(s)
                  THEN [obj[o] EXCEPT !.excuse = "none"] ELSE obj[o]
    BY <1>2
  <2> QED BY <2>1, <2>2, <2>3 DEF ObjectT
<1>6. obj' \in [Object -> ObjectT]
  BY <1>2, <1>5
<1>7. queue \cup posted \cup Taken \subseteq kept
  BY <1>3, <1>4, ReachContains DEF kept
<1>8. lost \cap (reg \cup queue \cup Taken) = {}
  BY <1>2, <1>3, <1>7 DEF lost
<1>9. ASSUME NEW o \in Object \ lost, obj[o].is = "made", NEW r \in Reports(o), r \in lost
       PROVE  FALSE
  <2>1. obj[r].in = s /\ obj[r].in = obj[o].in /\ r \in Object
    BY <1>3, <1>9 DEF Refs, InUse
  <2>2. o \in InUse(s)
    BY <2>1, <1>9 DEF InUse
  <2>3. o \in Reach(roots \cup more) \/ o \in kept
    BY <2>2 DEF lost, dead
  <2>4. r \in Reach(roots \cup more) \/ r \in kept
    BY <2>1, <2>3, <1>9, ReachIsClosed DEF kept
  <2> QED BY <2>4, <1>9 DEF lost, dead
<1>10. ASSUME roots = queue, more = {}, NEW o \in reg' \cap InUse(s)
       PROVE  obj'[o].excuse = "shadowed"
  <2>1. o \in reg \ posted /\ obj[o].in = s /\ o \in Object /\ o \notin lost
    BY <1>2, <1>8, <1>10 DEF InUse
  <2>2. o \in kept
    <3>1. CASE o \in dead
      BY <3>1, <2>1, <1>2, <1>3
    <3>2. CASE o \notin dead
      <4>1. o \in Reach(roots \cup more)
        BY <3>2, <1>10 DEF dead
      <4>2. roots \cup more \subseteq queue \cup posted \cup Taken
        BY <1>10
      <4> QED BY <4>1, <4>2, ReachMonotone DEF kept
    <3> QED BY <3>1, <3>2
  <2> QED BY <2>1, <2>2, <1>5
<1>11. Collects(s, posted, lost)
  BY <1>2, <1>3, <1>5, <1>8, <1>9 DEF Collects
<1> QED BY <1>6, <1>10, <1>11

----------------------------------------------------------------------------
(* The inductive invariant.                                                *)

\* The stages of an object: registered, then a message, then in hand, and a
\* callback once at most on the way.
Life(o) ==
  /\ obj[o].is = "none" =>
       /\ o \notin reg \cup held \cup queue \cup Taken
       /\ ran[o] = 0 /\ ptr[o] = "null" /\ obj[o].in = Null
  /\ o \in queue \cup Taken => obj[o].is = "made"
  /\ obj[o].is = "made" => obj[o].in \in State
  /\ obj[o].in \in State => st[obj[o].in].up
  /\ obj[o].is = "gone" /\ o \in reg => obj[o].in = Null
  /\ o \in reg => o \notin queue \cup Taken
  /\ o \in queue => o \notin Taken
  /\ o \in reg \cup queue => ran[o] = 0
  /\ ran[o] <= 1
  /\ ptr[o] = "freed" => o \in Taken
  /\ obj[o].ref # Null => obj[o].kind = "scanned"

Lives == \A o \in Object : Life(o)

\* In a state that ends, whatever is still registered has an excuse.
Excuses ==
  \A o \in reg : obj[o].is = "gone" \/ (obj[o].in \in State /\ Ending(obj[o].in)) =>
    obj[o].excuse # "none"

\* The counter tells whether the markers exist, and they do while a state needs them.
Markers ==
  /\ init = 2 => global /\ ids # 0
  /\ init = 0 => ~global /\ ids = 0 /\ \A s \in State : st[s].up => s \in robbed
  /\ (\A s \in State : ~st[s].up) => init = 0
  /\ MarkersServeStates

Inv ==
  /\ TypeOK /\ Chain /\ Lives /\ Refs /\ Excuses /\ Markers
  /\ CountersBalance /\ PinsAreCounted

\* The objects that the counters of a state, and its pins, are about.
Awaiting(s) ==
  {o \in Object : obj[o].in = s /\ (obj[o].kind = "table" \/ o \in reg \cup queue)}
Pinned(s) == {o \in InUse(s) : obj[o].pinned}

\* Sets of objects are finite.
LEMMA ObjectsAreFinite ==
  ASSUME NEW S \in SUBSET Object
  PROVE  IsFiniteSet(S) /\ Cardinality(S) \in Nat
BY PoolOK, FS_Subset, FS_CardinalityType

\* A state that gains no object to finalize and counts none keeps the balance.
LEMMA CountersFrame ==
  ASSUME CountersBalance,
         \A s \in State : st'[s].up =>
           /\ st[s].up /\ st'[s].allocated = st[s].allocated /\ st'[s].freed = st[s].freed
           /\ Awaiting(s)' = Awaiting(s)
  PROVE  CountersBalance'
BY DEF CountersBalance, Awaiting

\* The same for pins.
LEMMA PinsFrame ==
  ASSUME PinsAreCounted, TypeOK,
         \A s \in State : st'[s].up =>
           /\ st[s].up /\ st'[s].pins = st[s].pins /\ Pinned(s)' \subseteq Pinned(s)
  PROVE  PinsAreCounted'
<1> SUFFICES ASSUME NEW s \in State, st'[s].up
             PROVE  Cardinality(Pinned(s)') <= st'[s].pins
  BY DEF PinsAreCounted, Pinned
<1>1. Cardinality(Pinned(s)) <= st[s].pins
  BY DEF PinsAreCounted, Pinned
<1>2. Pinned(s) \subseteq Object
  BY DEF Pinned, InUse
<1>3. /\ IsFiniteSet(Pinned(s)) /\ Cardinality(Pinned(s)) \in Nat
      /\ Cardinality(Pinned(s)') \in Nat
  BY <1>2, ObjectsAreFinite
<1>4. Cardinality(Pinned(s)') <= Cardinality(Pinned(s))
  BY <1>3, FS_Subset
<1>5. st[s].pins \in Nat
  BY DEF TypeOK, StateT
<1> QED BY <1>1, <1>3, <1>4, <1>5

\* Steps that neither start nor end a state, and make no table.
LEMMA MarkersFrame ==
  ASSUME Markers, UNCHANGED globals, \A s \in State : st'[s].up <=> st[s].up,
         \A o \in Object : obj'[o].is = "made" =>
           /\ obj[o].is = "made" /\ obj'[o].in = obj[o].in
           /\ obj'[o].kind = obj[o].kind /\ obj'[o].marks = obj[o].marks
  PROVE  Markers'
BY DEF Markers, MarkersServeStates, globals, InUse

\* An object that is there belongs to a state that is up.
LEMMA MadeIsInState ==
  ASSUME Inv, NEW o \in Object, obj[o].is = "made"
  PROVE  obj[o].in \in State /\ st[obj[o].in].up
BY DEF Inv, Lives, Life

----------------------------------------------------------------------------
(* The steps that collect.                                                 *)

\* A collection of a state that keeps what the program refers to, or whose
\* roots are gone, preserves the invariant.
LEMMA CollectsKeeps ==
  ASSUME Inv, NEW s \in State, st[s].up, NEW posted, NEW lost,
         Collects(s, posted, lost), obj' \in [Object -> ObjectT],
         UNCHANGED <<globals, ptr, ran>>,
         held' \subseteq held,
         chats' \in Seq(FrameT), Chain', Taken' = Taken,
         \A t \in State : Ending(t) => Ending(t)',
         \A t \in State : Ending(t)' =>
           Ending(t) \/ (t = s /\ \A o \in reg' \cap InUse(s) : obj'[o].excuse = "shadowed"),
         \E b \in BOOLEAN : st' = [st EXCEPT ![s].parked = b]
  PROVE  Inv'
<1>1. /\ posted \subseteq reg \cap InUse(s) /\ lost \subseteq InUse(s)
      /\ queue' = queue \cup posted /\ reg' = reg \ posted
      /\ lost \cap (reg \cup queue \cup Taken) = {}
      /\ \A o \in Object \ lost : obj[o].is = "made" => Reports(o) \cap lost = {}
      /\ \A o \in Object :
           /\ obj'[o].is = IF o \in lost THEN "gone" ELSE obj[o].is
           /\ obj'[o].in = obj[o].in /\ obj'[o].kind = obj[o].kind
           /\ obj'[o].ref = obj[o].ref /\ obj'[o].marks = obj[o].marks
           /\ obj'[o].pinned = obj[o].pinned
           /\ obj[o].in # s => obj'[o] = obj[o]
           /\ Ending(s) => obj'[o].excuse \in {obj[o].excuse, "shadowed"}
  BY DEF Collects
<1>2. \A o \in InUse(s) : o \in Object /\ obj[o].is = "made" /\ obj[o].in = s
  BY DEF InUse
<1>3. /\ TypeOK /\ Lives /\ Refs /\ Excuses /\ Markers
      /\ CountersBalance /\ PinsAreCounted
  BY DEF Inv
<1>4. /\ st' \in [State -> StateT]
      /\ \A t \in State : /\ st'[t].up = st[t].up /\ st'[t].allocated = st[t].allocated
                          /\ st'[t].freed = st[t].freed /\ st'[t].pins = st[t].pins
  <2>1. st \in [State -> StateT]
    BY <1>3 DEF TypeOK
  <2>2. PICK b \in BOOLEAN : st' = [st EXCEPT ![s].parked = b]
    OBVIOUS
  <2> QED BY <2>1, <2>2 DEF StateT
<1>5. TypeOK'
  BY <1>1, <1>2, <1>3, <1>4 DEF TypeOK, globals
<1>6. Lives'
  <2> SUFFICES ASSUME NEW o \in Object
               PROVE  Life(o)'
    BY DEF Lives
  <2>1. Life(o) /\ obj[o] \in ObjectT
    BY <1>3 DEF Lives, TypeOK
  <2>2. /\ ptr'[o] = ptr[o] /\ ran'[o] = ran[o] /\ obj'[o].in = obj[o].in
        /\ obj'[o].is = IF o \in lost THEN "gone" ELSE obj[o].is
    BY <1>1
  <2>3. o \in lost => obj[o].is = "made" /\ obj[o].in = s
    BY <1>1, <1>2
  <2>4. o \in posted => obj[o].is = "made" /\ o \in reg
    BY <1>1, <1>2
  <2>5. obj[o].in \in State => st'[obj[o].in].up
    BY <2>1, <1>4 DEF Life
  <2> QED BY <1>1, <2>1, <2>2, <2>3, <2>4, <2>5 DEF Life
<1>7. Refs'
  <2> SUFFICES ASSUME NEW o \in Object, obj'[o].is = "made", NEW r \in Reports(o)'
               PROVE  obj'[r].is = "made" /\ obj'[r].in = obj'[o].in
    BY DEF Refs
  <2>1. o \notin lost /\ obj[o].is = "made" /\ r \in Reports(o)
    BY <1>1 DEF Reports
  <2>2. obj[r].is = "made" /\ obj[r].in = obj[o].in /\ r \notin lost
    BY <2>1, <1>1, <1>3 DEF Refs
  <2>3. r \in Object
    BY <2>1, <1>3 DEF Reports, TypeOK, ObjectT
  <2> QED BY <2>2, <2>3, <1>1
<1>8. Excuses'
  <2> SUFFICES ASSUME NEW o \in reg',
                      obj'[o].is = "gone" \/ (obj'[o].in \in State /\ Ending(obj[o].in)')
               PROVE  obj'[o].excuse # "none"
    BY DEF Excuses
  <2>1. o \in reg /\ o \in Object /\ o \notin lost
    BY <1>1, <1>3 DEF TypeOK
  <2>2. Life(o)
    BY <2>1, <1>3 DEF Lives
  <2>3. CASE obj[o].in = s
    <3>1. obj'[o].is = obj[o].is /\ obj'[o].in = s /\ s # Null
      BY <2>1, <2>3, <1>1, PoolOK
    <3>2. obj[o].is = "made"
      <4>1. obj[o].is # "gone"
        BY <2>1, <2>2, <2>3, <3>1 DEF Life
      <4>2. obj[o].is # "none"
        BY <2>1, <2>2 DEF Life
      <4> QED BY <4>1, <4>2, <2>1, <1>3 DEF TypeOK, ObjectT
    <3>3. Ending(s)'
      BY <3>1, <3>2 DEF Ending
    <3>4. CASE Ending(s)
      BY <3>4, <2>1, <2>3, <1>1, <1>3 DEF Excuses
    <3>5. CASE ~Ending(s)
      BY <3>5, <3>2, <3>3, <2>1, <2>3 DEF InUse
    <3> QED BY <3>4, <3>5
  <2>4. CASE obj[o].in # s
    <3>1. obj'[o] = obj[o]
      BY <2>1, <2>4, <1>1
    <3>2. \A t \in State : Ending(t)' /\ t # s => Ending(t)
      OBVIOUS
    <3>3. obj[o].in \in State /\ Ending(obj[o].in)' => Ending(obj[o].in)
      BY <3>1, <3>2, <2>4 DEF Ending
    <3> QED BY <3>1, <3>3, <2>1, <2>4, <1>3 DEF Excuses
  <2> QED BY <2>3, <2>4
<1>9. Markers'
  BY <1>1, <1>3, <1>4, MarkersFrame
<1>10. CountersBalance'
  <2>1. reg' \cup queue' = reg \cup queue
    BY <1>1
  <2>2. \A t \in State : Awaiting(t)' = Awaiting(t)
    BY <2>1, <1>1 DEF Awaiting
  <2> QED BY <2>2, <1>3, <1>4, CountersFrame
<1>11. PinsAreCounted'
  <2>1. \A t \in State : Pinned(t)' \subseteq Pinned(t)
    BY <1>1 DEF Pinned, InUse
  <2> QED BY <2>1, <1>3, <1>4, PinsFrame
<1> QED BY <1>5, <1>6, <1>7, <1>8, <1>9, <1>10, <1>11 DEF Inv

\* What the collection lemma needs of the invariant.
LEMMA InvForCollection ==
  ASSUME Inv
  PROVE  /\ Taken \subseteq Object /\ \A o \in queue \cup Taken : obj[o].is = "made"
         /\ queue \subseteq Object /\ held \subseteq Object
         /\ st \in [State -> StateT]
<1>1. Taken \subseteq Object /\ queue \subseteq Object
  BY Frames DEF Inv, TypeOK
<1> QED BY <1>1 DEF Inv, TypeOK, Lives, Life

\* A collection that the MPS starts.
LEMMA MpsCollectsKeeps ==
  ASSUME Inv, NEW s \in State, MpsCollects(s)
  PROVE  Inv'
<1>1. PICK more \in SUBSET InUse(s) : Collection(s, Roots(s), more)
  BY DEF MpsCollects
<1>2. /\ st[s].up /\ UNCHANGED <<globals, ptr, ran>> /\ UNCHANGED <<st, held, chats>>
  BY DEF MpsCollects
<1>3. obj' \in [Object -> ObjectT] /\ \E posted, lost : Collects(s, posted, lost)
  BY <1>1, InvForCollection, CollectionCollects DEF Inv
<1>4. PICK posted, lost : Collects(s, posted, lost)
  BY <1>3
<1>5. \E b \in BOOLEAN : st' = [st EXCEPT ![s].parked = b]
  <2>1. st[s].parked \in BOOLEAN /\ st' = [st EXCEPT ![s].parked = st[s].parked]
    BY <1>2, InvForCollection DEF StateT
  <2> QED BY <2>1
<1>6. /\ chats' \in Seq(FrameT) /\ Chain' /\ Taken' = Taken
      /\ \A t \in State : Ending(t)' <=> Ending(t)
  BY <1>2, SameChats DEF Inv, TypeOK
<1> QED BY <1>2, <1>3, <1>4, <1>5, <1>6, CollectsKeeps

\* A collection that the program asks for.
LEMMA CollectKeeps ==
  ASSUME Inv, NEW s \in State, Collect(s)
  PROVE  Inv'
<1>1. PICK more \in SUBSET InUse(s) : Collection(s, Roots(s), more)
  BY DEF Collect
<1>2. /\ st[s].up /\ UNCHANGED <<globals, ptr, ran>> /\ UNCHANGED held /\ Running
      /\ st' = [st EXCEPT ![s].parked = TRUE]
      /\ chats' = Append(chats, Frame(s, "collect"))
  BY DEF Collect
<1>3. obj' \in [Object -> ObjectT] /\ \E posted, lost : Collects(s, posted, lost)
  BY <1>1, InvForCollection, CollectionCollects DEF Inv
<1>4. PICK posted, lost : Collects(s, posted, lost)
  BY <1>3
<1>5. \E b \in BOOLEAN : st' = [st EXCEPT ![s].parked = b]
  BY <1>2
<1>6. /\ chats' \in Seq(FrameT) /\ Chain' /\ Taken' = Taken
      /\ \A t \in State : Ending(t)' <=> Ending(t)
  BY <1>2, PushKeeps, PoolOK DEF Inv, TypeOK
<1> QED BY <1>2, <1>3, <1>4, <1>5, <1>6, CollectsKeeps

\* The shutdown: no reference of the program into the state is left, and what is
\* registered afterwards is there for another object's sake.
LEMMA DeinitKeeps ==
  ASSUME Inv, NEW s \in State, Deinit(s)
  PROVE  Inv'
<1>1. Collection(s, queue, {}) /\ ~InChat /\ chats' = <<Frame(s, "deinit")>>
  BY DEF Deinit
<1>2. /\ st[s].up /\ UNCHANGED <<globals, ptr, ran>> /\ held' = held \ InUse(s)
      /\ st' = [st EXCEPT ![s].parked = TRUE]
  BY DEF Deinit
<1>3. /\ obj' \in [Object -> ObjectT] /\ \E posted, lost : Collects(s, posted, lost)
      /\ \A o \in reg' \cap InUse(s) : obj'[o].excuse = "shadowed"
  BY <1>1, InvForCollection, CollectionCollects DEF Inv
<1>4. PICK posted, lost : Collects(s, posted, lost)
  BY <1>3
<1>5. \E b \in BOOLEAN : st' = [st EXCEPT ![s].parked = b]
  BY <1>2
<1>6. /\ chats' \in Seq(FrameT) /\ Chain' /\ Taken' = Taken
      /\ \A t \in State : Ending(t)' <=> t = s
      /\ \A t \in State : ~Ending(t)
  BY <1>1, FirstKeeps DEF Inv, TypeOK
<1> QED BY <1>2, <1>3, <1>4, <1>5, <1>6, CollectsKeeps

----------------------------------------------------------------------------
(* The steps of the loop and of the program that keep every object's status. *)

\* The registered and the messages stay, and so do the states.
LEMMA QuietKeeps ==
  ASSUME Inv, UNCHANGED <<globals, st, reg, queue, ran>>,
         chats' \in Seq(FrameT), Chain', Taken' \subseteq Taken,
         \A t \in State : Ending(t)' <=> Ending(t),
         ptr' \in [Object -> {"live", "freed", "null"}],
         \A o \in Object :
           /\ ptr'[o] \in {ptr[o], "null"} \/ (ptr'[o] = "freed" /\ o \in Taken')
           /\ ptr'[o] = "freed" => o \in Taken',
         held' \subseteq Object,
         \A o \in held' : o \in held \/ obj[o].is = "made",
         obj' \in [Object -> ObjectT],
         \A o \in Object :
           /\ obj'[o].is = obj[o].is /\ obj'[o].in = obj[o].in
           /\ obj'[o].kind = obj[o].kind /\ obj'[o].marks = obj[o].marks
           /\ obj'[o].pinned = obj[o].pinned /\ obj'[o].excuse = obj[o].excuse
           /\ \/ obj'[o].ref = obj[o].ref
              \/ obj'[o].ref \in InUse(obj[o].in) /\ obj[o].kind = "scanned"
  PROVE  Inv'
<1>1. /\ TypeOK /\ Lives /\ Refs /\ Excuses /\ Markers
      /\ CountersBalance /\ PinsAreCounted
  BY DEF Inv
<1>2. TypeOK'
  BY <1>1 DEF TypeOK, globals
<1>3. Lives'
  <2> SUFFICES ASSUME NEW o \in Object
               PROVE  Life(o)'
    BY DEF Lives
  <2>1. Life(o)
    BY <1>1 DEF Lives
  <2>2. /\ obj[o].is = "none" => o \notin held' /\ ptr'[o] = "null"
        /\ o \notin Taken => o \notin Taken'
    <3>1. obj[o].is = "none" => o \notin held' /\ o \notin Taken'
      BY <2>1 DEF Life
    <3>2. obj[o].is = "none" => ptr[o] = "null"
      BY <2>1 DEF Life
    <3> QED BY <3>1, <3>2
  <2> QED BY <2>1, <2>2 DEF Life
<1>4. Refs'
  <2> SUFFICES ASSUME NEW o \in Object, obj'[o].is = "made", NEW r \in Reports(o)'
               PROVE  obj'[r].is = "made" /\ obj'[r].in = obj'[o].in
    BY DEF Refs
  <2>1. /\ obj'[o].kind = "scanned" /\ ptr'[o] = "live" /\ r = obj'[o].ref /\ r # Null
    BY DEF Reports
  <2>2. ptr[o] = "live" /\ obj[o].kind = "scanned" /\ obj[o].is = "made"
    BY <2>1
  <2>3. r \in Object
    BY <2>1, PoolOK DEF ObjectT
  <2>4. CASE r = obj[o].ref
    BY <2>1, <2>2, <2>3, <2>4, <1>1 DEF Refs, Reports
  <2>5. CASE r \in InUse(obj[o].in)
    BY <2>3, <2>5 DEF InUse
  <2> QED BY <2>1, <2>4, <2>5
<1>5. Excuses'
  <2> SUFFICES ASSUME NEW o \in reg',
                      obj'[o].is = "gone" \/ (obj'[o].in \in State /\ Ending(obj[o].in)')
               PROVE  obj'[o].excuse # "none"
    BY DEF Excuses, Ending
  <2>1. o \in reg /\ o \in Object
    BY <1>1 DEF TypeOK
  <2>2. obj[o].in \in State => (Ending(obj[o].in)' => Ending(obj[o].in))
    BY <2>1 DEF Ending
  <2> QED BY <2>1, <2>2, <1>1 DEF Excuses
<1>6. Markers'
  BY <1>1, MarkersFrame
<1>7. CountersBalance'
  <2>1. \A t \in State : Awaiting(t)' = Awaiting(t)
    BY DEF Awaiting
  <2> QED BY <2>1, <1>1, CountersFrame
<1>8. PinsAreCounted'
  <2>1. \A t \in State : Pinned(t)' \subseteq Pinned(t)
    BY DEF Pinned, InUse
  <2> QED BY <2>1, <1>1, PinsFrame
<1> QED BY <1>2, <1>3, <1>4, <1>5, <1>6, <1>7, <1>8 DEF Inv

\* The program's calls that touch one object only.
LEMMA StoreKeeps ==
  ASSUME Inv, NEW o \in Object, NEW r \in Object, Store(o, r)
  PROVE  Inv'
<1>1. /\ UNCHANGED <<globals, st, reg, queue, ran>> /\ UNCHANGED <<ptr, held, chats>>
      /\ obj' = [obj EXCEPT ![o].ref = r]
      /\ obj[o].kind = "scanned" /\ r \in InUse(obj[o].in)
  BY DEF Store
<1>2. /\ obj \in [Object -> ObjectT] /\ chats \in Seq(FrameT) /\ held \subseteq Object
      /\ ptr \in [Object -> {"live", "freed", "null"}] /\ Chain
      /\ \A p \in Object : ptr[p] = "freed" => p \in Taken
  BY DEF Inv, TypeOK, Lives, Life
<1>3. /\ Taken' = Taken /\ Chain' /\ \A s \in State : Ending(s)' <=> Ending(s)
  BY <1>1, <1>2, SameChats
<1>4. obj' \in [Object -> ObjectT]
  BY <1>1, <1>2 DEF ObjectT
<1>5. \A p \in Object :
        /\ obj'[p].is = obj[p].is /\ obj'[p].in = obj[p].in
        /\ obj'[p].kind = obj[p].kind /\ obj'[p].marks = obj[p].marks
        /\ obj'[p].pinned = obj[p].pinned /\ obj'[p].excuse = obj[p].excuse
        /\ \/ obj'[p].ref = obj[p].ref
           \/ obj'[p].ref \in InUse(obj[p].in) /\ obj[p].kind = "scanned"
  BY <1>1, <1>2 DEF ObjectT
<1> QED BY <1>1, <1>2, <1>3, <1>4, <1>5, QuietKeeps

\* The program takes a payload back, or drops a reference.
LEMMA ReleaseKeeps ==
  ASSUME Inv, NEW o \in Object, TakePayload(o) \/ Drop(o)
  PROVE  Inv'
<1>1. /\ UNCHANGED <<globals, st, reg, queue, ran>> /\ UNCHANGED <<obj, chats>>
      /\ held' \subseteq held /\ ptr' \in {ptr, [ptr EXCEPT ![o] = "null"]}
  BY DEF TakePayload, Drop
<1>2. /\ obj \in [Object -> ObjectT] /\ chats \in Seq(FrameT) /\ held \subseteq Object
      /\ ptr \in [Object -> {"live", "freed", "null"}] /\ Chain
      /\ \A p \in Object : ptr[p] = "freed" => p \in Taken
  BY DEF Inv, TypeOK, Lives, Life
<1>3. /\ Taken' = Taken /\ Chain' /\ \A s \in State : Ending(s)' <=> Ending(s)
  BY <1>1, <1>2, SameChats
<1>4. /\ ptr' \in [Object -> {"live", "freed", "null"}]
      /\ \A p \in Object : ptr'[p] \in {ptr[p], "null"}
      /\ \A p \in Object : ptr'[p] = "freed" => p \in Taken'
  BY <1>1, <1>2, <1>3
<1> QED BY <1>1, <1>2, <1>3, <1>4, QuietKeeps

\* The callback frees its payload; only the activation above refers to it.
LEMMA FreePayloadKeeps ==
  ASSUME Inv, FreePayload
  PROVE  Inv'
<1>1. /\ UNCHANGED <<globals, st, reg, queue, ran>> /\ UNCHANGED <<obj, held, chats>>
      /\ ptr' = [ptr EXCEPT ![Top.obj] = "freed"] /\ InChat /\ Top.obj # Null
  BY DEF FreePayload, Callback
<1>2. /\ obj \in [Object -> ObjectT] /\ chats \in Seq(FrameT) /\ held \subseteq Object
      /\ ptr \in [Object -> {"live", "freed", "null"}] /\ Chain
      /\ \A p \in Object : ptr[p] = "freed" => p \in Taken
  BY DEF Inv, TypeOK, Lives, Life
<1>3. /\ Taken' = Taken /\ Chain' /\ \A s \in State : Ending(s)' <=> Ending(s)
  BY <1>1, <1>2, SameChats
<1>4. Top.obj \in Taken
  BY <1>1, <1>2, Frames DEF Top, Taken
<1>5. /\ ptr' \in [Object -> {"live", "freed", "null"}]
      /\ \A p \in Object : \/ ptr'[p] \in {ptr[p], "null"}
                           \/ ptr'[p] = "freed" /\ p \in Taken'
      /\ \A p \in Object : ptr'[p] = "freed" => p \in Taken'
  BY <1>1, <1>2, <1>3, <1>4
<1> QED BY <1>1, <1>2, <1>3, <1>5, QuietKeeps

\* What a live payload refers to is there.
LEMMA ResurrectKeeps ==
  ASSUME Inv, Resurrect
  PROVE  Inv'
<1> DEFINE r == obj[Top.obj].ref
<1>1. /\ UNCHANGED <<globals, st, reg, queue, ran>> /\ UNCHANGED <<obj, ptr, chats>>
      /\ InChat /\ Top.obj # Null /\ ptr[Top.obj] = "live"
      /\ r \in Object /\ held' = held \cup {r}
  BY DEF Resurrect, Callback
<1>2. /\ obj \in [Object -> ObjectT] /\ chats \in Seq(FrameT) /\ held \subseteq Object
      /\ ptr \in [Object -> {"live", "freed", "null"}] /\ Chain
      /\ \A p \in Object : ptr[p] = "freed" => p \in Taken
  BY DEF Inv, TypeOK, Lives, Life
<1>3. /\ Taken' = Taken /\ Chain' /\ \A s \in State : Ending(s)' <=> Ending(s)
  BY <1>1, <1>2, SameChats
<1>4. Top.obj \in Taken /\ Top.obj \in Object
  BY <1>1, <1>2, Frames DEF Top, Taken
<1>5. obj[Top.obj].is = "made" /\ obj[Top.obj].kind = "scanned"
  BY <1>1, <1>4, PoolOK DEF Inv, Lives, Life
<1>6. r \in Reports(Top.obj)
  BY <1>1, <1>5, PoolOK DEF Reports
<1>7. obj[r].is = "made"
  BY <1>4, <1>5, <1>6 DEF Inv, Refs
<1>8. held' \subseteq Object /\ \A p \in held' : p \in held \/ obj[p].is = "made"
  BY <1>1, <1>2, <1>7
<1> HIDE DEF r
<1> QED BY <1>1, <1>2, <1>3, <1>8, QuietKeeps

\* The pointer is forgotten with the object.
LEMMA CallbackReturnsKeeps ==
  ASSUME Inv, CallbackReturns
  PROVE  Inv'
<1>1. /\ UNCHANGED <<globals, st, reg, queue, ran>> /\ UNCHANGED <<obj, held>>
      /\ SetTop(Null) /\ InChat /\ Top.obj # Null
      /\ ptr' = [ptr EXCEPT ![Top.obj] = "null"]
  BY DEF CallbackReturns, Callback
<1>2. /\ obj \in [Object -> ObjectT] /\ chats \in Seq(FrameT) /\ held \subseteq Object
      /\ ptr \in [Object -> {"live", "freed", "null"}] /\ Chain
      /\ \A p \in Object : ptr[p] = "freed" => p \in Taken
  BY DEF Inv, TypeOK, Lives, Life
<1>3. /\ chats' \in Seq(FrameT) /\ Chain' /\ Taken' \subseteq Taken
      /\ Taken \subseteq Taken' \cup {Top.obj}
      /\ \A s \in State : Ending(s)' <=> Ending(s)
  BY <1>1, <1>2, SetTopKeeps
<1>4. Top.obj \in Object
  BY <1>1, <1>2, Frames DEF Top
<1>5. /\ ptr' \in [Object -> {"live", "freed", "null"}]
      /\ \A p \in Object : ptr'[p] \in {ptr[p], "null"}
      /\ \A p \in Object : ptr'[p] = "freed" => p \in Taken'
  BY <1>1, <1>2, <1>3, <1>4
<1> QED BY <1>1, <1>2, <1>3, <1>5, QuietKeeps

\* A chat of a collection is over.
LEMMA ChatEndsKeeps ==
  ASSUME Inv, ChatEnds
  PROVE  Inv'
<1>1. /\ UNCHANGED <<globals, st, reg, queue, ran>> /\ UNCHANGED <<obj, ptr, held>>
      /\ InChat /\ Top.obj = Null /\ Top.why = "collect"
      /\ chats' = SubSeq(chats, 1, Len(chats) - 1)
  BY DEF ChatEnds
<1>2. /\ obj \in [Object -> ObjectT] /\ chats \in Seq(FrameT) /\ held \subseteq Object
      /\ ptr \in [Object -> {"live", "freed", "null"}] /\ Chain
      /\ \A p \in Object : ptr[p] = "freed" => p \in Taken
  BY DEF Inv, TypeOK, Lives, Life
<1>3. /\ chats' \in Seq(FrameT) /\ Chain' /\ Taken' = Taken
      /\ \A s \in State : Ending(s)' <=> Ending(s)
  BY <1>1, <1>2, PopKeeps
<1> QED BY <1>1, <1>2, <1>3, QuietKeeps

----------------------------------------------------------------------------
(* The steps that start a state, make objects and pin them.                *)

\* A state starts empty, with the markers of its time.
LEMMA InitStateKeeps ==
  ASSUME Inv, NEW s \in State, InitState(s)
  PROVE  Inv'
<1>1. /\ ~InChat /\ ~st[s].up /\ GlobalInit /\ robbed' = robbed \ {s}
      /\ \E rooted \in BOOLEAN :
           st' = [st EXCEPT ![s] = [Down EXCEPT !.up = TRUE, !.rooted = rooted]]
      /\ UNCHANGED <<obj, ptr, reg, held, queue, chats, ran>>
  BY DEF InitState
<1>2. /\ TypeOK /\ Chain /\ Lives /\ Refs /\ Excuses /\ Markers
      /\ CountersBalance /\ PinsAreCounted
  BY DEF Inv
<1>3. /\ Taken' = Taken /\ Chain' /\ \A t \in State : Ending(t)' <=> Ending(t)
  BY <1>1, <1>2, SameChats
<1>4. /\ st' \in [State -> StateT] /\ st'[s].up /\ st'[s].pins = 0
      /\ st'[s].allocated = 0 /\ st'[s].freed = 0
      /\ \A t \in State : t # s => st'[t] = st[t]
  <2>1. PICK rooted \in BOOLEAN :
          st' = [st EXCEPT ![s] = [Down EXCEPT !.up = TRUE, !.rooted = rooted]]
    BY <1>1
  <2>2. st \in [State -> StateT]
    BY <1>2 DEF TypeOK
  <2> QED BY <2>1, <2>2 DEF StateT, Down
<1>5. \A o \in Object : obj[o].in # s
  BY <1>1, <1>2 DEF Lives, Life
<1>6. init' = 2 /\ global' /\ ids' # 0 /\ (init = 2 => ids' = ids /\ global' = global)
  BY <1>1, <1>2 DEF GlobalInit, TypeOK, Markers
<1>7. TypeOK'
  <2>1. gens' \in Nat /\ ids' \in Nat /\ init' = 2
    <3>1. (gens' = gens + 1 /\ ids' = gens') \/ (gens' = gens /\ ids' = ids)
      BY <1>1 DEF GlobalInit
    <3>2. gens \in Nat /\ ids \in Nat
      BY <1>2 DEF TypeOK
    <3> QED BY <3>1, <3>2, <1>6
  <2>2. global' \in BOOLEAN
    BY <1>1, <1>2 DEF TypeOK, GlobalInit
  <2>3. robbed' \subseteq State
    BY <1>1, <1>2 DEF TypeOK
  <2> QED BY <2>1, <2>2, <2>3, <1>1, <1>2, <1>4 DEF TypeOK
<1>8. Lives'
  BY <1>1, <1>2, <1>3, <1>4 DEF Lives, Life
<1>9. Refs' /\ Excuses'
  BY <1>1, <1>2 DEF Refs, Reports, Excuses, Ending
<1>10. Markers'
  <2>1. ASSUME NEW t \in State, st'[t].up, t \notin robbed',
               NEW o \in InUse(t)', obj'[o].kind = "table"
        PROVE  obj'[o].marks = ids'
    <3>1. o \in InUse(t) /\ t # s /\ st[t].up /\ t \notin robbed
      BY <2>1, <1>1, <1>4, <1>5 DEF InUse
    <3>2. init = 2
      BY <3>1, <1>2 DEF Markers, TypeOK
    <3> QED BY <3>1, <3>2, <2>1, <1>1, <1>2, <1>6 DEF Markers, MarkersServeStates
  <2>2. MarkersServeStates'
    BY <2>1, <1>6 DEF MarkersServeStates
  <2> QED BY <2>2, <1>4, <1>6 DEF Markers
<1>11. CountersBalance'
  <2> SUFFICES ASSUME NEW t \in State, st'[t].up
               PROVE  st'[t].allocated - st'[t].freed = Cardinality(Awaiting(t)')
    BY DEF CountersBalance, Awaiting
  <2>1. Awaiting(t)' = Awaiting(t)
    BY <1>1 DEF Awaiting
  <2>2. CASE t = s
    <3>1. Awaiting(s) = {}
      BY <1>5 DEF Awaiting
    <3> QED BY <3>1, <2>1, <2>2, <1>4, FS_EmptySet
  <2>3. CASE t # s
    BY <2>1, <2>3, <1>2, <1>4 DEF CountersBalance, Awaiting
  <2> QED BY <2>2, <2>3
<1>12. PinsAreCounted'
  <2> SUFFICES ASSUME NEW t \in State, st'[t].up
               PROVE  Cardinality(Pinned(t)') <= st'[t].pins
    BY DEF PinsAreCounted, Pinned
  <2>1. Pinned(t)' = Pinned(t)
    BY <1>1 DEF Pinned, InUse
  <2>2. CASE t = s
    <3>1. Pinned(s) = {}
      BY <1>5 DEF Pinned, InUse
    <3> QED BY <3>1, <2>1, <2>2, <1>4, FS_EmptySet
  <2>3. CASE t # s
    BY <2>1, <2>3, <1>2, <1>4 DEF PinsAreCounted, Pinned
  <2> QED BY <2>2, <2>3
<1> QED BY <1>3, <1>7, <1>8, <1>9, <1>10, <1>11, <1>12 DEF Inv

\* A new object is registered and counted.
LEMMA MakeKeeps ==
  ASSUME Inv, NEW s \in State, NEW o \in Object, NEW kind \in Kinds, Make(s, o, kind)
  PROVE  Inv'
<1>1. /\ st[s].up /\ obj[o].is = "none"
      /\ obj' = [obj EXCEPT ![o] =
           [is |-> "made", in |-> s, kind |-> kind, ref |-> Null, pinned |-> FALSE,
            marks |-> IF kind = "table" THEN ids ELSE 0,
            excuse |-> IF Ending(s) THEN "late" ELSE "none"]]
      /\ ptr' = [ptr EXCEPT ![o] = IF kind \in Pointer THEN "live" ELSE "null"]
      /\ st' = [st EXCEPT ![s].allocated = @ + 1]
      /\ reg' = reg \cup {o} /\ held' = held \cup {o}
      /\ UNCHANGED globals /\ UNCHANGED <<queue, chats, ran>>
  BY DEF Make
<1>2. /\ TypeOK /\ Chain /\ Lives /\ Refs /\ Excuses /\ Markers
      /\ CountersBalance /\ PinsAreCounted
  BY DEF Inv
<1>3. /\ Taken' = Taken /\ Chain' /\ \A t \in State : Ending(t)' <=> Ending(t)
  BY <1>1, <1>2, SameChats
<1>4. /\ st' \in [State -> StateT]
      /\ \A t \in State : /\ st'[t].up = st[t].up /\ st'[t].pins = st[t].pins
                          /\ st'[t].freed = st[t].freed
                          /\ st'[t].allocated = IF t = s THEN st[t].allocated + 1
                                                ELSE st[t].allocated
  <2>1. st \in [State -> StateT] /\ st[s] \in StateT /\ st[s].allocated + 1 \in Nat
    BY <1>2 DEF TypeOK, StateT
  <2>2. st' = [st EXCEPT ![s].allocated = st[s].allocated + 1]
    BY <1>1
  <2> QED BY <2>1, <2>2 DEF StateT
<1>5. /\ obj' \in [Object -> ObjectT] /\ \A p \in Object : p # o => obj'[p] = obj[p]
      /\ obj'[o].is = "made" /\ obj'[o].in = s /\ obj'[o].kind = kind
      /\ obj'[o].ref = Null /\ ~obj'[o].pinned
      /\ kind = "table" => obj'[o].marks = ids
      /\ Ending(s) => obj'[o].excuse = "late"
  BY <1>1, <1>2, PoolOK DEF TypeOK, ObjectT
<1>6. /\ ptr' \in [Object -> {"live", "freed", "null"}] /\ ptr'[o] # "freed"
      /\ \A p \in Object : p # o => ptr'[p] = ptr[p]
  BY <1>1, <1>2 DEF TypeOK
<1>7. /\ o \notin reg \cup held \cup queue \cup Taken /\ ran[o] = 0
      /\ obj[o].in = Null /\ s # Null
  BY <1>1, <1>2, PoolOK DEF Lives, Life
<1>8. TypeOK'
  BY <1>1, <1>2, <1>4, <1>5, <1>6 DEF TypeOK, globals
<1>9. Lives'
  <2> SUFFICES ASSUME NEW p \in Object
               PROVE  Life(p)'
    BY DEF Lives
  <2>1. CASE p = o
    BY <2>1, <1>1, <1>3, <1>4, <1>5, <1>6, <1>7 DEF Life
  <2>2. CASE p # o
    <3>1. Life(p)
      BY <1>2 DEF Lives
    <3>2. obj'[p] = obj[p] /\ ptr'[p] = ptr[p] /\ ran'[p] = ran[p]
      BY <2>2, <1>1, <1>5, <1>6
    <3>3. /\ p \in reg' <=> p \in reg
          /\ p \in held' <=> p \in held
          /\ queue' = queue /\ Taken' = Taken
      BY <2>2, <1>1, <1>3
    <3>4. obj[p].in \in State => (st[obj[p].in].up <=> st'[obj[p].in].up)
      BY <1>4
    <3> QED BY <3>1, <3>2, <3>3, <3>4 DEF Life
  <2> QED BY <2>1, <2>2
<1>10. Refs'
  <2> SUFFICES ASSUME NEW p \in Object, obj'[p].is = "made", NEW r \in Reports(p)'
               PROVE  obj'[r].is = "made" /\ obj'[r].in = obj'[p].in
    BY DEF Refs
  <2>1. p # o
    BY <1>5 DEF Reports
  <2>2. r \in Reports(p) /\ obj[p].is = "made" /\ obj'[p] = obj[p]
    BY <2>1, <1>5, <1>6 DEF Reports
  <2>3. obj[r].is = "made" /\ obj[r].in = obj[p].in
    BY <2>2, <1>2 DEF Refs
  <2>4. r \in Object /\ r # o
    BY <2>2, <2>3, <1>1, <1>2 DEF Reports, TypeOK, ObjectT
  <2> QED BY <2>2, <2>3, <2>4, <1>5
<1>11. Excuses'
  <2> SUFFICES ASSUME NEW p \in reg',
                      obj'[p].is = "gone" \/ (obj'[p].in \in State /\ Ending(obj'[p].in))
               PROVE  obj'[p].excuse # "none"
    BY <1>1 DEF Excuses, Ending
  <2>1. CASE p = o
    BY <2>1, <1>5
  <2>2. CASE p # o
    BY <2>2, <1>1, <1>2, <1>5 DEF Excuses, TypeOK
  <2> QED BY <2>1, <2>2
<1>12. Markers'
  <2>1. ASSUME NEW t \in State, st'[t].up, t \notin robbed',
               NEW p \in InUse(t)', obj'[p].kind = "table"
        PROVE  obj'[p].marks = ids'
    <3>1. st[t].up /\ t \notin robbed /\ ids' = ids
      BY <2>1, <1>1, <1>4 DEF globals
    <3>2. CASE p = o
      BY <3>1, <3>2, <2>1, <1>5
    <3>3. CASE p # o
      <4>1. p \in InUse(t) /\ obj[p] = obj'[p]
        BY <2>1, <3>3, <1>5 DEF InUse
      <4> QED BY <4>1, <3>1, <2>1, <1>2 DEF Markers, MarkersServeStates
    <3> QED BY <3>2, <3>3
  <2>2. MarkersServeStates'
    BY <2>1, <1>1, <1>2, <1>4 DEF Markers, MarkersServeStates, globals
  <2> QED BY <2>2, <1>1, <1>2, <1>4 DEF Markers, globals
<1>13. CountersBalance'
  <2> SUFFICES ASSUME NEW t \in State, st'[t].up
               PROVE  st'[t].allocated - st'[t].freed = Cardinality(Awaiting(t)')
    BY DEF CountersBalance, Awaiting
  <2>1. st[t].allocated - st[t].freed = Cardinality(Awaiting(t)) /\ st[t] \in StateT
    BY <1>2, <1>4 DEF CountersBalance, Awaiting, TypeOK
  <2>2. CASE t = s
    <3>1. Awaiting(s)' = Awaiting(s) \cup {o}
      BY <1>1, <1>5 DEF Awaiting
    <3>2. o \notin Awaiting(s) /\ Awaiting(s) \subseteq Object
      BY <1>7 DEF Awaiting
    <3>3. Cardinality(Awaiting(s)') = Cardinality(Awaiting(s)) + 1
      BY <3>1, <3>2, ObjectsAreFinite, FS_AddElement
    <3>4. Cardinality(Awaiting(s)) \in Nat
      BY <3>2, ObjectsAreFinite
    <3> QED BY <3>3, <3>4, <2>1, <2>2, <1>4 DEF StateT
  <2>3. CASE t # s
    <3>1. Awaiting(t)' = Awaiting(t)
      BY <2>3, <1>1, <1>5, <1>7, PoolOK DEF Awaiting
    <3> QED BY <3>1, <2>1, <2>3, <1>4
  <2> QED BY <2>2, <2>3
<1>14. PinsAreCounted'
  <2>1. \A t \in State : Pinned(t)' \subseteq Pinned(t)
    BY <1>5 DEF Pinned, InUse
  <2> QED BY <2>1, <1>2, <1>4, PinsFrame
<1> QED BY <1>3, <1>8, <1>9, <1>10, <1>11, <1>12, <1>13, <1>14 DEF Inv

\* A pin changes the flag of one object and the counter of its state.
LEMMA FlagKeeps ==
  ASSUME Inv, NEW o \in Object, obj[o].is = "made", NEW b \in BOOLEAN, NEW n \in Nat,
         obj' = [obj EXCEPT ![o].pinned = b],
         st' = [st EXCEPT ![obj[o].in].pins = n],
         UNCHANGED globals, UNCHANGED <<ptr, reg, held, queue, chats, ran>>,
         PinsAreCounted'
  PROVE  Inv'
<1>1. /\ TypeOK /\ Chain /\ Lives /\ Refs /\ Excuses /\ Markers
      /\ CountersBalance /\ PinsAreCounted
  BY DEF Inv
<1>2. /\ Taken' = Taken /\ Chain' /\ \A t \in State : Ending(t)' <=> Ending(t)
  BY <1>1, SameChats
<1>3. /\ st' \in [State -> StateT]
      /\ \A t \in State : /\ st'[t].up = st[t].up
                          /\ st'[t].allocated = st[t].allocated /\ st'[t].freed = st[t].freed
  <2>1. st \in [State -> StateT] /\ obj[o].in \in State
    BY <1>1, MadeIsInState DEF TypeOK
  <2> QED BY <2>1 DEF StateT
<1>4. /\ obj' \in [Object -> ObjectT]
      /\ \A p \in Object :
           /\ obj'[p].is = obj[p].is /\ obj'[p].in = obj[p].in
           /\ obj'[p].kind = obj[p].kind /\ obj'[p].marks = obj[p].marks
           /\ obj'[p].ref = obj[p].ref /\ obj'[p].excuse = obj[p].excuse
  <2>1. obj \in [Object -> ObjectT] /\ o \in Object
    BY <1>1 DEF TypeOK
  <2> QED BY <2>1 DEF ObjectT
<1>5. TypeOK'
  BY <1>1, <1>3, <1>4 DEF TypeOK, globals
<1>6. Lives'
  BY <1>1, <1>2, <1>3, <1>4 DEF Lives, Life
<1>7. Refs'
  BY <1>1, <1>4 DEF Refs, Reports, TypeOK, ObjectT
<1>8. Excuses'
  BY <1>1, <1>4 DEF Excuses, Ending, TypeOK
<1>9. Markers'
  BY <1>1, <1>3, <1>4, MarkersFrame
<1>10. CountersBalance'
  <2>1. \A t \in State : Awaiting(t)' = Awaiting(t)
    BY <1>4 DEF Awaiting
  <2> QED BY <2>1, <1>1, <1>3, CountersFrame
<1> QED BY <1>2, <1>5, <1>6, <1>7, <1>8, <1>9, <1>10 DEF Inv

LEMMA PinKeeps ==
  ASSUME Inv, NEW o \in Object, Pin(o)
  PROVE  Inv'
<1> DEFINE s == obj[o].in
<1>1. /\ obj[o].is = "made" /\ obj' = [obj EXCEPT ![o].pinned = TRUE]
      /\ st' = [st EXCEPT ![s].pins = @ + 1]
      /\ UNCHANGED globals /\ UNCHANGED <<ptr, reg, held, queue, chats, ran>>
  BY DEF Pin
<1>2. s \in State /\ st \in [State -> StateT] /\ obj \in [Object -> ObjectT] /\ PinsAreCounted
  BY <1>1, MadeIsInState DEF Inv, TypeOK
<1>3. st[s].pins \in Nat
  BY <1>2 DEF StateT
<1>4. PinsAreCounted'
  <2> SUFFICES ASSUME NEW t \in State, st'[t].up
               PROVE  Cardinality(Pinned(t)') <= st'[t].pins
    BY DEF PinsAreCounted, Pinned
  <2>1. /\ st[t].up /\ st[t].pins \in Nat
        /\ st'[t].pins = IF t = s THEN st[t].pins + 1 ELSE st[t].pins
    BY <1>1, <1>2 DEF StateT
  <2>2. Cardinality(Pinned(t)) <= st[t].pins
    BY <2>1, <1>2 DEF PinsAreCounted, Pinned
  <2>3. Pinned(t) \subseteq Object
    BY DEF Pinned, InUse
  <2>4. IsFiniteSet(Pinned(t)) /\ Cardinality(Pinned(t)) \in Nat
    BY <2>3, ObjectsAreFinite
  <2>5. CASE t # s
    <3>1. Pinned(t)' = Pinned(t)
      BY <2>5, <1>1, <1>2 DEF Pinned, InUse, ObjectT
    <3> QED BY <3>1, <2>1, <2>2, <2>5
  <2>6. CASE t = s
    <3>1. Pinned(t)' \subseteq Pinned(t) \cup {o}
      BY <1>1, <1>2 DEF Pinned, InUse, ObjectT
    <3>2. /\ Cardinality(Pinned(t) \cup {o}) <= Cardinality(Pinned(t)) + 1
          /\ IsFiniteSet(Pinned(t) \cup {o})
          /\ Cardinality(Pinned(t) \cup {o}) \in Nat
      <4>1. Pinned(t) \cup {o} \subseteq Object
        BY <2>3
      <4>2. IsFiniteSet(Pinned(t) \cup {o}) /\ Cardinality(Pinned(t) \cup {o}) \in Nat
        BY <4>1, ObjectsAreFinite
      <4>3. Cardinality(Pinned(t) \cup {o}) =
              IF o \in Pinned(t) THEN Cardinality(Pinned(t)) ELSE Cardinality(Pinned(t)) + 1
        BY <2>4, FS_AddElement
      <4> QED BY <4>2, <4>3, <2>4
    <3>3. /\ Cardinality(Pinned(t)') <= Cardinality(Pinned(t) \cup {o})
          /\ Cardinality(Pinned(t)') \in Nat
      <4>1. Cardinality(Pinned(t)') <= Cardinality(Pinned(t) \cup {o})
        BY <3>1, <3>2, FS_Subset
      <4>2. IsFiniteSet(Pinned(t)')
        BY <3>1, <3>2, FS_Subset
      <4> QED BY <4>1, <4>2, FS_CardinalityType
    <3> QED BY <3>2, <3>3, <2>1, <2>2, <2>4, <2>6
  <2> QED BY <2>5, <2>6
<1>5. st' = [st EXCEPT ![obj[o].in].pins = st[s].pins + 1] /\ st[s].pins + 1 \in Nat
  BY <1>1, <1>3
<1> QED BY <1>1, <1>4, <1>5, FlagKeeps

LEMMA UnpinKeeps ==
  ASSUME Inv, NEW o \in Object, Unpin(o)
  PROVE  Inv'
<1> DEFINE s == obj[o].in
<1>1. /\ obj[o].is = "made" /\ obj[o].pinned /\ obj' = [obj EXCEPT ![o].pinned = FALSE]
      /\ st' = [st EXCEPT ![s].pins = @ - 1]
      /\ UNCHANGED globals /\ UNCHANGED <<ptr, reg, held, queue, chats, ran>>
  BY DEF Unpin
<1>2. /\ s \in State /\ st[s].up /\ obj[o].is = "made" /\ st \in [State -> StateT]
      /\ obj \in [Object -> ObjectT] /\ PinsAreCounted
  BY <1>1, MadeIsInState DEF Inv, TypeOK
<1>3. o \in Pinned(s) /\ Pinned(s) \subseteq Object
  BY <1>1, <1>2 DEF Pinned, InUse
<1>4. IsFiniteSet(Pinned(s)) /\ Cardinality(Pinned(s)) \in Nat
  BY <1>3, ObjectsAreFinite
<1>5. Cardinality(Pinned(s) \ {o}) = Cardinality(Pinned(s)) - 1 /\ Cardinality(Pinned(s) \ {o}) \in Nat
  <2>1. Cardinality(Pinned(s) \ {o}) = Cardinality(Pinned(s)) - 1
    BY <1>3, <1>4, FS_RemoveElement
  <2>2. Cardinality(Pinned(s) \ {o}) \in Nat
    BY <1>3, ObjectsAreFinite
  <2> QED BY <2>1, <2>2
<1>6. st[s].pins \in Nat /\ Cardinality(Pinned(s)) <= st[s].pins
  BY <1>2 DEF StateT, PinsAreCounted, Pinned
<1>7. st[s].pins - 1 \in Nat
  BY <1>4, <1>5, <1>6
<1>8. PinsAreCounted'
  <2> SUFFICES ASSUME NEW t \in State, st'[t].up
               PROVE  Cardinality(Pinned(t)') <= st'[t].pins
    BY DEF PinsAreCounted, Pinned
  <2>1. st[t].up /\ st'[t].pins = IF t = s THEN st[t].pins - 1 ELSE st[t].pins
    BY <1>1, <1>2 DEF StateT
  <2>2. CASE t # s
    <3>1. Pinned(t)' = Pinned(t)
      BY <2>2, <1>1, <1>2 DEF Pinned, InUse, ObjectT
    <3> QED BY <3>1, <2>1, <2>2, <1>2 DEF PinsAreCounted, Pinned
  <2>3. CASE t = s
    <3>1. Pinned(t)' = Pinned(s) \ {o}
      BY <2>3, <1>1, <1>2 DEF Pinned, InUse, ObjectT
    <3> QED BY <3>1, <2>1, <2>3, <1>4, <1>5, <1>6
  <2> QED BY <2>2, <2>3
<1>9. st' = [st EXCEPT ![obj[o].in].pins = st[s].pins - 1]
  BY <1>1
<1> QED BY <1>1, <1>7, <1>8, <1>9, FlagKeeps

----------------------------------------------------------------------------
(* The steps of the loop that finalize an object and end a state.          *)

\* A message hands an object to its callback, or counts it only.
LEMMA MessageKeeps ==
  ASSUME Inv, NEW o \in Object, Message(o)
  PROVE  Inv'
<1> DEFINE s == Top.state
<1>1. /\ InChat /\ Top.obj = Null /\ o \in queue /\ obj[o].in = s
      /\ queue' = queue \ {o} /\ Counts(s, o)
      /\ UNCHANGED globals /\ UNCHANGED <<obj, reg, held>>
      /\ \/ SetTop(o) /\ ran' = [ran EXCEPT ![o] = @ + 1] /\ UNCHANGED ptr
         \/ ptr' = [ptr EXCEPT ![o] = "null"] /\ UNCHANGED <<chats, ran>>
  BY DEF Message
<1>2. /\ TypeOK /\ Chain /\ Lives /\ Refs /\ Excuses /\ Markers
      /\ CountersBalance /\ PinsAreCounted
  BY DEF Inv
<1>3. s \in State
  BY <1>1, <1>2, Frames DEF Top, TypeOK
<1>4. /\ o \notin reg /\ o \notin Taken /\ ran[o] = 0 /\ obj[o].is = "made"
  BY <1>1, <1>2 DEF Lives, Life
<1>5. /\ chats' \in Seq(FrameT) /\ Chain' /\ Taken \subseteq Taken'
      /\ Taken' \subseteq Taken \cup {o}
      /\ \A t \in State : Ending(t)' <=> Ending(t)
  <2>1. CASE SetTop(o)
    <3>1. Null \notin Taken
      BY <1>2, Frames, PoolOK DEF TypeOK
    <3> QED BY <3>1, <2>1, <1>1, <1>2, SetTopKeeps DEF TypeOK
  <2>2. CASE UNCHANGED chats
    BY <2>2, <1>2, SameChats DEF TypeOK
  <2> QED BY <2>1, <2>2, <1>1
<1>6. /\ st' \in [State -> StateT]
      /\ \A t \in State : /\ st'[t].up = st[t].up /\ st'[t].pins = st[t].pins
                          /\ st'[t].allocated = st[t].allocated
                          /\ st'[t].freed = IF t = s /\ obj[o].kind # "table"
                                            THEN st[t].freed + 1 ELSE st[t].freed
  <2>1. st \in [State -> StateT] /\ st[s] \in StateT /\ st[s].freed + 1 \in Nat
    BY <1>2, <1>3 DEF TypeOK, StateT
  <2>2. st' = [st EXCEPT ![s].freed = IF obj[o].kind = "table" THEN st[s].freed
                                      ELSE st[s].freed + 1]
    BY <1>1 DEF Counts
  <2> QED BY <2>1, <2>2 DEF StateT
<1>7. /\ ptr' \in [Object -> {"live", "freed", "null"}] /\ ran' \in [Object -> Nat]
      /\ \A p \in Object : /\ ptr'[p] \in {ptr[p], "null"}
                           /\ p # o => ran'[p] = ran[p]
      /\ ran'[o] \in {0, 1}
  <2>1. ptr \in [Object -> {"live", "freed", "null"}] /\ ran \in [Object -> Nat]
    BY <1>2 DEF TypeOK
  <2> QED BY <2>1, <1>1, <1>4
<1>8. TypeOK'
  BY <1>1, <1>2, <1>5, <1>6, <1>7 DEF TypeOK, globals
<1>9. Lives'
  <2> SUFFICES ASSUME NEW p \in Object
               PROVE  Life(p)'
    BY DEF Lives
  <2>1. Life(p)
    BY <1>2 DEF Lives
  <2>2. obj[p].in \in State => (st[obj[p].in].up <=> st'[obj[p].in].up)
    BY <1>6
  <2>3. CASE p = o
    BY <2>1, <2>2, <2>3, <1>1, <1>4, <1>5, <1>7 DEF Life
  <2>4. CASE p # o
    <3>1. /\ obj'[p] = obj[p] /\ ran'[p] = ran[p] /\ ptr'[p] \in {ptr[p], "null"}
          /\ p \in queue' <=> p \in queue
          /\ p \in Taken' <=> p \in Taken
          /\ reg' = reg /\ held' = held
      BY <2>4, <1>1, <1>5, <1>7
    <3> QED BY <3>1, <2>1, <2>2 DEF Life
  <2> QED BY <2>3, <2>4
<1>10. Refs'
  BY <1>1, <1>2, <1>7 DEF Refs, Reports
<1>11. Excuses'
  BY <1>1, <1>2, <1>5 DEF Excuses, Ending
<1>12. Markers'
  BY <1>1, <1>2, <1>6, MarkersFrame
<1>13. CountersBalance'
  <2> SUFFICES ASSUME NEW t \in State, st'[t].up
               PROVE  st'[t].allocated - st'[t].freed = Cardinality(Awaiting(t)')
    BY DEF CountersBalance, Awaiting
  <2>1. /\ st[t].allocated - st[t].freed = Cardinality(Awaiting(t))
        /\ st[t].allocated \in Nat /\ st[t].freed \in Nat
    BY <1>2, <1>6 DEF CountersBalance, Awaiting, TypeOK, StateT
  <2>2. CASE t = s /\ obj[o].kind # "table"
    <3>1. Awaiting(t)' = Awaiting(t) \ {o} /\ o \in Awaiting(t)
      BY <2>2, <1>1, <1>4 DEF Awaiting
    <3>2. Awaiting(t) \subseteq Object
      BY DEF Awaiting
    <3>3. Cardinality(Awaiting(t)') = Cardinality(Awaiting(t)) - 1
      BY <3>1, <3>2, ObjectsAreFinite, FS_RemoveElement
    <3>4. Cardinality(Awaiting(t)) \in Nat
      BY <3>2, ObjectsAreFinite
    <3> QED BY <3>3, <3>4, <2>1, <2>2, <1>6
  <2>3. CASE ~(t = s /\ obj[o].kind # "table")
    <3>1. Awaiting(t)' = Awaiting(t)
      BY <2>3, <1>1 DEF Awaiting
    <3> QED BY <3>1, <2>1, <2>3, <1>6
  <2> QED BY <2>2, <2>3
<1>14. PinsAreCounted'
  <2>1. \A t \in State : Pinned(t)' \subseteq Pinned(t)
    BY <1>1 DEF Pinned, InUse
  <2> QED BY <2>1, <1>2, <1>6, PinsFrame
<1> QED BY <1>5, <1>8, <1>9, <1>10, <1>11, <1>12, <1>13, <1>14 DEF Inv

\* A state ends with its objects, and takes the markers along.
LEMMA DeinitEndsKeeps ==
  ASSUME Inv, DeinitEnds
  PROVE  Inv'
<1> DEFINE s == Top.state
<1>1. /\ InChat /\ Top.obj = Null /\ Top.why = "deinit" /\ GlobalDeinit(s)
      /\ \A o \in queue : obj[o].in # s
      /\ st' = [st EXCEPT ![s] = Down]
      /\ obj' = [o \in Object |-> IF obj[o].in = s
                                  THEN [obj[o] EXCEPT !.is = "gone", !.in = Null]
                                  ELSE obj[o]]
      /\ held' = {o \in held : obj[o].in # s} /\ chats' = <<>>
      /\ UNCHANGED <<ptr, reg, queue, ran>>
  BY DEF DeinitEnds, NoMessage
<1>2. /\ TypeOK /\ Chain /\ Lives /\ Refs /\ Excuses /\ Markers
      /\ CountersBalance /\ PinsAreCounted
  BY DEF Inv
<1>3. s \in State /\ s # Null
  BY <1>1, <1>2, Frames, PoolOK DEF Top, TypeOK
<1>4. /\ chats' \in Seq(FrameT) /\ Chain' /\ Taken' = {} /\ Taken = {}
      /\ \A t \in State : Ending(t) <=> t = s
      /\ \A t \in State : ~Ending(t)'
  BY <1>1, <1>2, LastKeeps DEF TypeOK
<1>5. /\ st' \in [State -> StateT] /\ ~st'[s].up
      /\ \A t \in State : t # s => st'[t] = st[t]
  BY <1>1, <1>2, <1>3 DEF TypeOK, StateT, Down
<1>6. /\ obj' \in [Object -> ObjectT]
      /\ \A o \in Object :
           /\ obj[o].in # s => obj'[o] = obj[o]
           /\ obj[o].in = s => /\ obj'[o].is = "gone" /\ obj'[o].in = Null
                               /\ obj'[o].excuse = obj[o].excuse
                               /\ obj'[o].ref = obj[o].ref /\ obj'[o].kind = obj[o].kind
  <2>1. ASSUME NEW o \in Object
        PROVE  /\ obj[o] \in ObjectT
               /\ obj'[o] = IF obj[o].in = s THEN [obj[o] EXCEPT !.is = "gone", !.in = Null]
                           ELSE obj[o]
    BY <1>1, <1>2 DEF TypeOK
  <2>2. ASSUME NEW o \in Object
        PROVE  /\ obj'[o] \in ObjectT
               /\ obj[o].in # s => obj'[o] = obj[o]
               /\ obj[o].in = s => /\ obj'[o].is = "gone" /\ obj'[o].in = Null
                                   /\ obj'[o].excuse = obj[o].excuse
                                   /\ obj'[o].ref = obj[o].ref /\ obj'[o].kind = obj[o].kind
    <3>1. PICK x, y : x = obj[o] /\ y = obj'[o]
      BY Zenon
    <3>2. CASE x.in = s
      <4>1. x \in ObjectT /\ y = [x EXCEPT !.is = "gone", !.in = Null]
        BY <2>1, <3>1, <3>2, Zenon
      <4>2. /\ y \in ObjectT /\ y.is = "gone" /\ y.in = Null
            /\ y.excuse = x.excuse /\ y.ref = x.ref /\ y.kind = x.kind
        BY <4>1 DEF ObjectT
      <4> QED BY <3>1, <3>2, <4>2, Zenon
    <3>3. CASE x.in # s
      BY <2>1, <3>1, <3>3, Zenon
    <3> QED BY <3>2, <3>3
  <2>3. obj' = [o \in Object |-> obj'[o]]
    BY <1>1
  <2> QED BY <2>2, <2>3
<1>7. TypeOK'
  <2>1. /\ init' \in {0, 2} /\ ids' \in Nat /\ gens' \in Nat /\ robbed' \subseteq State
    <3>1. /\ init \in {0, 2} /\ ids \in Nat /\ gens \in Nat /\ robbed \subseteq State
      BY <1>2 DEF TypeOK
    <3>2. \/ init' = 0 /\ ids' = 0 /\ gens' = gens /\ robbed' = {t \in State : t # s /\ st[t].up}
          \/ init' = init /\ ids' = ids /\ gens' = gens /\ robbed' = robbed
      BY <1>1 DEF GlobalDeinit, globals
    <3> QED BY <3>1, <3>2
  <2>2. global' \in BOOLEAN
    BY <1>1, <1>2 DEF GlobalDeinit, globals, TypeOK
  <2> QED BY <2>1, <2>2, <1>1, <1>2, <1>4, <1>5, <1>6 DEF TypeOK
<1>8. Lives'
  <2> SUFFICES ASSUME NEW o \in Object
               PROVE  Life(o)'
    BY DEF Lives
  <2>1. Life(o)
    BY <1>2 DEF Lives
  <2>2. CASE obj[o].in = s
    <3>1. obj[o].is # "none" /\ o \notin queue
      BY <2>1, <2>2, <1>1, <1>3 DEF Life
    <3> QED BY <3>1, <2>1, <2>2, <1>1, <1>4, <1>6, PoolOK DEF Life
  <2>3. CASE obj[o].in # s
    BY <2>1, <2>3, <1>1, <1>4, <1>5, <1>6 DEF Life
  <2> QED BY <2>2, <2>3
<1>9. Refs'
  <2> SUFFICES ASSUME NEW o \in Object, obj'[o].is = "made", NEW r \in Reports(o)'
               PROVE  obj'[r].is = "made" /\ obj'[r].in = obj'[o].in
    BY DEF Refs
  <2>1. obj[o].in # s /\ obj'[o] = obj[o]
    BY <1>6
  <2>2. r \in Reports(o) /\ r \in Object
    BY <2>1, <1>1, <1>2 DEF Reports, TypeOK, ObjectT
  <2>3. obj[r].is = "made" /\ obj[r].in = obj[o].in
    BY <2>1, <2>2, <1>2 DEF Refs
  <2> QED BY <2>1, <2>2, <2>3, <1>6
<1>10. Excuses'
  <2>1. \A o \in Object : obj'[o].excuse = obj[o].excuse
    BY <1>6
  <2>2. ASSUME NEW o \in reg', obj'[o].is = "gone"
        PROVE  obj'[o].excuse # "none"
    <3>1. o \in reg /\ o \in Object
      BY <1>1, <1>2 DEF TypeOK
    <3>2. CASE obj[o].in = s
      BY <3>1, <3>2, <2>1, <1>2, <1>3, <1>4 DEF Excuses
    <3>3. CASE obj[o].in # s
      BY <3>1, <3>3, <2>2, <1>2, <1>6 DEF Excuses
    <3> QED BY <3>2, <3>3
  <2>3. \A o \in reg' : ~(obj'[o].in \in State /\ \E k \in 1..Len(chats') :
                             chats'[k].state = obj'[o].in /\ chats'[k].why = "deinit")
    BY <1>4 DEF Ending
  <2> QED BY <2>2, <2>3 DEF Excuses, Ending
<1>11. Markers'
  <2>1. init' = 0 /\ ids' = 0 /\ ~global' /\ \A t \in State : st'[t].up => t \in robbed'
    <3>1. CASE init = 2
      BY <3>1, <1>1, <1>5 DEF GlobalDeinit, globals
    <3>2. CASE init # 2
      <4>1. init = 0 /\ UNCHANGED globals
        BY <3>2, <1>1, <1>2 DEF GlobalDeinit, TypeOK
      <4> QED BY <4>1, <1>2, <1>5 DEF Markers, globals
    <3> QED BY <3>1, <3>2
  <2> QED BY <2>1 DEF Markers, MarkersServeStates
<1>12. \A t \in State : st'[t].up => /\ st[t].up /\ st'[t] = st[t] /\ t # s
                                     /\ Awaiting(t)' = Awaiting(t)
                                     /\ Pinned(t)' \subseteq Pinned(t)
  <2> SUFFICES ASSUME NEW t \in State, t # s
               PROVE  Awaiting(t)' = Awaiting(t) /\ Pinned(t)' \subseteq Pinned(t)
    BY <1>5
  <2>1. \A o \in Object : (obj'[o].in = t <=> obj[o].in = t) /\ (obj[o].in = t => obj'[o] = obj[o])
    BY <1>6, PoolOK
  <2> QED BY <2>1, <1>1 DEF Awaiting, Pinned, InUse
<1>13. CountersBalance'
  BY <1>2, <1>12, CountersFrame
<1>14. PinsAreCounted'
  BY <1>2, <1>12, PinsFrame
<1> QED BY <1>4, <1>7, <1>8, <1>9, <1>10, <1>11, <1>13, <1>14 DEF Inv

----------------------------------------------------------------------------
(* The theorems.                                                           *)

LEMMA InitEstablishes ==
  Init => Inv
<1> SUFFICES ASSUME Init
             PROVE  Inv
  OBVIOUS
<1>1. /\ init = 0 /\ global = FALSE /\ ids = 0 /\ gens = 0 /\ robbed = {}
      /\ st = [s \in State |-> Down]
      /\ obj = [o \in Object |-> Unmade] /\ ptr = [o \in Object |-> "null"]
      /\ reg = {} /\ held = {} /\ queue = {} /\ chats = <<>>
      /\ ran = [o \in Object |-> 0]
  BY DEF Init
<1>2. chats \in Seq(FrameT) /\ Len(chats) = 0 /\ Taken = {}
  BY <1>1 DEF Taken
<1>3. Down \in StateT /\ Unmade \in ObjectT /\ ~Down.up /\ Unmade.is = "none"
      /\ Unmade.in = Null /\ Unmade.ref = Null
  BY DEF Down, StateT, Unmade, ObjectT, Kind, Pointer
<1>4. TypeOK
  BY <1>1, <1>2, <1>3 DEF TypeOK
<1>5. Chain
  BY <1>2 DEF Chain
<1>6. Lives
  BY <1>1, <1>2, <1>3, PoolOK DEF Lives, Life
<1>7. Refs /\ Excuses
  BY <1>1, <1>3 DEF Refs, Excuses
<1>8. Markers /\ CountersBalance /\ PinsAreCounted
  BY <1>1, <1>3 DEF Markers, MarkersServeStates, CountersBalance, PinsAreCounted
<1> QED BY <1>4, <1>5, <1>6, <1>7, <1>8 DEF Inv

\* One step, action by action.
LEMMA NextKeeps ==
  Inv /\ [Next]_vars => Inv'
<1> SUFFICES ASSUME Inv, [Next]_vars
             PROVE  Inv'
  OBVIOUS
<1>1. CASE \E s \in State : InitState(s) \/ Collect(s) \/ Deinit(s)
  BY <1>1, InitStateKeeps, CollectKeeps, DeinitKeeps
<1>2. CASE \E s \in State, o \in Object, kind \in Kinds : Make(s, o, kind)
  BY <1>2, MakeKeeps
<1>3. CASE \E o, r \in Object : Store(o, r)
  BY <1>3, StoreKeeps
<1>4. CASE \E o \in Object : TakePayload(o) \/ Drop(o) \/ Pin(o) \/ Unpin(o)
  BY <1>4, ReleaseKeeps, PinKeeps, UnpinKeeps
<1>5. CASE \E o \in Object : Message(o)
  BY <1>5, MessageKeeps
<1>6. CASE FreePayload \/ Resurrect \/ CallbackReturns \/ ChatEnds \/ DeinitEnds
  BY <1>6, FreePayloadKeeps, ResurrectKeeps, CallbackReturnsKeeps, ChatEndsKeeps,
     DeinitEndsKeeps
<1>7. CASE \E s \in State : MpsCollects(s)
  BY <1>7, MpsCollectsKeeps
<1>8. CASE UNCHANGED vars
  <2>1. UNCHANGED globals /\ UNCHANGED <<st, obj, ptr, reg, held, queue, chats, ran>>
    BY <1>8 DEF vars, globals
  <2> QED BY <2>1 DEF Inv, TypeOK, Chain, Lives, Life, Refs, Reports, Excuses, Ending,
                     Markers, MarkersServeStates, CountersBalance,
                     PinsAreCounted, InUse, Taken, globals
<1> QED BY <1>1, <1>2, <1>3, <1>4, <1>5, <1>6, <1>7, <1>8 DEF Next, Calls, Chat, Stopped

\* The invariant holds in every state the pool reaches.
THEOREM InvHolds ==
  Spec => []Inv
BY InitEstablishes, NextKeeps, PTL DEF Spec

\* The counters are naturals: pinned_used never falls below 0, and every activation
\* of the loop belongs to a state (managed_object_obj.c:687, 304-345).
THEOREM TypeCorrect ==
  Spec => []TypeOK
<1>1. Inv => TypeOK
  BY DEF Inv
<1> QED BY <1>1, InvHolds, PTL

\* A payload is handed to its callback once at most, also when callbacks collect,
\* make objects or resurrect them (managed_object_obj.c:308-343).
THEOREM CallbackRunsOnce ==
  Spec => []CallbackOnce
<1>1. Inv => CallbackOnce
  BY DEF Inv, Lives, Life, CallbackOnce
<1> QED BY <1>1, InvHolds, PTL

\* An object refers to freed memory while the callback that freed it runs, and never
\* after it (managed_object_obj.c:333-336).
THEOREM PayloadDangles ==
  Spec => []DanglesInCallbackOnly
<1>1. ASSUME Inv, NEW o \in Object, ptr[o] = "freed"
      PROVE  \E k \in 1..Len(chats) : chats[k].obj = o
  BY <1>1 DEF Inv, Lives, Life, Taken
<1>2. Inv => DanglesInCallbackOnly
  BY <1>1 DEF DanglesInCallbackOnly
<1> QED BY <1>2, InvHolds, PTL

\* The counters differ by the objects that await finalization and the tables
\* (managed_object_obj.c:321-327).
THEOREM CountersBalanced ==
  Spec => []CountersBalance
<1>1. Inv => CountersBalance
  BY DEF Inv
<1> QED BY <1>1, InvHolds, PTL

\* A shutdown finalizes all objects but the late and the shadowed
\* (managed_object_obj.c:846-855).
THEOREM DeinitFinalizesAll ==
  Spec => []DeinitFinalizes
<1>1. Inv => DeinitFinalizes
  BY DEF Inv, Excuses, DeinitFinalizes
<1> QED BY <1>1, InvHolds, PTL

\* The markers in a table are the global ones unless a state has ended since
\* (managed_object_obj_metadata.h:155-173, 196-204).
THEOREM MarkersServe ==
  Spec => []MarkersServeStates
<1>1. Inv => MarkersServeStates
  BY DEF Inv, Markers
<1> QED BY <1>1, InvHolds, PTL

\* Without a state there is no global state (managed_object_obj_metadata.h:198-203).
THEOREM GlobalReleased ==
  Spec => []GlobalIsReleased
<1>1. Inv => GlobalIsReleased
  BY DEF Inv, Markers, GlobalIsReleased
<1> QED BY <1>1, InvHolds, PTL

\* There are no more pinned objects than the counter says
\* (managed_object_obj.c:681-689).
THEOREM PinsCounted ==
  Spec => []PinsAreCounted
<1>1. Inv => PinsAreCounted
  BY DEF Inv
<1> QED BY <1>1, InvHolds, PTL
=============================================================================
