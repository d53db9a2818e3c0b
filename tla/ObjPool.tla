------------------------------ MODULE ObjPool ------------------------------
(***************************************************************************)
(* The states of managed_object_obj.c over the MPS: objects with payloads, *)
(* the finalization messages that managed_obj_mps_chat turns into calls of *)
(* the program's callbacks, and the global state whose two objects mark    *)
(* the free slots of every hash table.  The MPS is external: a collection  *)
(* finds some objects dead and posts a message for those it must finalize. *)
(***************************************************************************)
EXTENDS Integers, Sequences, FiniteSets

CONSTANTS
  State,    \* the program's ManagedObjStates
  Object,   \* the objects that are made
  Kinds,    \* of objects, a subset of Kind
  Null,     \* NULL
  MaxGen,   \* bound: how often the global state is initialised
  MaxPins   \* bound: pinned_used

\* What make_empty, make_table, and make with or without a scanner and a callback
\* make; "silent" is the one whose callback is NULL.
Kind    == {"empty", "table"} \cup {"plain", "scanned", "silent"}
Pointer == {"plain", "scanned", "silent"}

ASSUME PoolOK ==
  /\ IsFiniteSet(Object) /\ Kinds \subseteq Kind
  /\ Null \notin Object \cup State
  /\ MaxGen \in Nat /\ MaxPins \in Nat

VARIABLES
  init,    \* managed_obj_global_metadata_init
  global,  \* managed_obj_global_metadata has an arena
  ids,     \* the generation of managed_obj_global_metadata_ids; 0 for NULL
  gens,    \* history: how often the markers have been made
  robbed,  \* history: states that were in use when ids was last cleared
  st,      \* each state: up, with its stack root, parked, and its counters
  obj,     \* each object: its status, state, kind, reference and markers
  ptr,     \* its payload: "live", "freed", or "null" when the pointer is NULL
  reg,     \* objects registered with mps_finalize and not yet finalized
  held,    \* objects that the program's roots refer to
  queue,   \* finalization messages
  chats,   \* activations of managed_obj_mps_chat
  ran      \* history: how often each callback has run

globals == <<init, global, ids, gens, robbed>>
vars == <<init, global, ids, gens, robbed, st, obj, ptr, reg, held, queue, chats, ran>>

Down == [up |-> FALSE, rooted |-> FALSE, parked |-> FALSE, allocated |-> 0, freed |-> 0, pins |-> 0]
Unmade == [is |-> "none", in |-> Null, kind |-> "empty", ref |-> Null, marks |-> 0,
           pinned |-> FALSE, excuse |-> "none"]

Top      == chats[Len(chats)]
InChat   == chats # <<>>
Callback == InChat /\ Top.obj # Null   \* the program runs inside a callback
Running  == ~InChat \/ Callback
Frame(s, why) == [state |-> s, obj |-> Null, why |-> why]

Ending(s) == \E k \in 1..Len(chats) : chats[k].state = s /\ chats[k].why = "deinit"
InUse(s)  == {o \in Object : obj[o].is = "made" /\ obj[o].in = s}

----------------------------------------------------------------------------
(* The MPS.                                                                *)

\* The scanner of a payload reports the reference in it.
Reports(o) ==
  IF obj[o].kind = "scanned" /\ ptr[o] = "live" THEN {obj[o].ref} \ {Null} ELSE {}

Reach(S) ==
  {x \in Object : \A T \in SUBSET Object :
     S \subseteq T /\ (\A o \in T : Reports(o) \subseteq T) => x \in T}

\* The objects whose messages managed_obj_mps_chat has taken and not discarded.
Taken == {chats[k].obj : k \in {l \in 1..Len(chats) : chats[l].obj # Null}}

\* The stack root, if the state has one and until it ends, and the messages that
\* are not discarded.
Roots(s) ==
  (IF st[s].rooted /\ ~Ending(s) THEN held ELSE {}) \cup queue \cup Taken

\* A collection keeps what the roots reach, and what ambiguous words may refer
\* to; it posts the registered dead, except some that other posted ones reach.
Collection(s, roots, more) ==
  LET dead == InUse(s) \ Reach(roots \cup more)
      due  == dead \cap reg
  IN  \E posted \in SUBSET due :
        LET kept == Reach(queue \cup posted \cup Taken)
        IN  /\ due \subseteq kept
            /\ queue' = queue \cup posted /\ reg' = reg \ posted
            /\ obj' = [o \in Object |->
                 IF o \in dead \ kept THEN [obj[o] EXCEPT !.is = "gone"]
                 ELSE IF obj[o].in = s /\ o \in (reg \ posted) \cap kept
                 THEN [obj[o] EXCEPT !.excuse = "shadowed"]
                 ELSE IF obj[o].in = s /\ ~Ending(s)
                 THEN [obj[o] EXCEPT !.excuse = "none"] ELSE obj[o]]

\* A collection that the MPS starts by itself, in an allocation.
MpsCollects(s) ==
  /\ Running /\ st[s].up /\ ~st[s].parked
  /\ \E more \in SUBSET InUse(s) : Collection(s, Roots(s), more)
  /\ UNCHANGED <<globals, st, ptr, held, chats, ran>>

----------------------------------------------------------------------------
(* Initialisation.                                                         *)

Init ==
  /\ init = 0 /\ global = FALSE /\ ids = 0 /\ gens = 0 /\ robbed = {}
  /\ st = [s \in State |-> Down]
  /\ obj = [o \in Object |-> Unmade] /\ ptr = [o \in Object |-> "null"]
  /\ reg = {} /\ held = {} /\ queue = {} /\ chats = <<>>
  /\ ran = [o \in Object |-> 0]

\* Each state makes the markers anew.
GlobalInitAlways ==
  init' = 2 /\ global' = TRUE /\ gens' = gens + 1 /\ ids' = gens'

\* The first state makes the global one, which sees init = 1 and sets it to 2.
GlobalInit ==
  \/ /\ init = 0 /\ init' = 2 /\ global' = TRUE
     /\ gens' = gens + 1 /\ ids' = gens'
  \/ init # 0 /\ UNCHANGED <<init, global, gens, ids>>

\* What cannot be created aborts the program, except the stack root: without it the
\* state is up all the same.
InitState(s) ==
  /\ ~InChat /\ ~st[s].up /\ gens < MaxGen
  /\ \E rooted \in BOOLEAN :
       st' = [st EXCEPT ![s] = [Down EXCEPT !.up = TRUE, !.rooted = rooted]]
  /\ GlobalInit /\ robbed' = robbed \ {s}
  /\ UNCHANGED <<obj, ptr, reg, held, queue, chats, ran>>

\* The markers go and the counter stays.
GlobalDeinitKeepsInit(s) ==
  \/ /\ init = 2 /\ ids' = 0 /\ global' = FALSE
     /\ robbed' = {t \in State : t # s /\ st[t].up} /\ UNCHANGED <<init, gens>>
  \/ init # 2 /\ UNCHANGED globals

\* Any state that ends takes the global one with it.
GlobalDeinit(s) ==
  \/ /\ init = 2 /\ init' = 0 /\ ids' = 0 /\ global' = FALSE
     /\ robbed' = {t \in State : t # s /\ st[t].up} /\ UNCHANGED gens
  \/ init # 2 /\ UNCHANGED globals

----------------------------------------------------------------------------
(* The program's calls.  What a call does to an object that was reclaimed   *)
(* while the program referred to it is undefined, and left out.            *)

Make(s, o, kind) ==
  /\ Running /\ st[s].up /\ obj[o].is = "none"
  /\ obj' = [obj EXCEPT ![o] =
       [is |-> "made", in |-> s, kind |-> kind, ref |-> Null, pinned |-> FALSE,
        marks |-> IF kind = "table" THEN ids ELSE 0,
        excuse |-> IF Ending(s) THEN "late" ELSE "none"]]
  /\ ptr' = [ptr EXCEPT ![o] = IF kind \in Pointer THEN "live" ELSE "null"]
  /\ st' = [st EXCEPT ![s].allocated = @ + 1]
  /\ reg' = reg \cup {o} /\ held' = held \cup {o}
  /\ UNCHANGED <<globals, queue, chats, ran>>

\* The program stores a reference in a payload.
Store(o, r) ==
  /\ Running /\ {o, r} \subseteq held \cap InUse(obj[o].in)
  /\ obj[o].kind = "scanned" /\ ptr[o] = "live" /\ obj[o].ref # r
  /\ obj' = [obj EXCEPT ![o].ref = r]
  /\ UNCHANGED <<globals, st, ptr, reg, held, queue, chats, ran>>

\* The program takes the payload back and sets the field to NULL.
TakePayload(o) ==
  /\ ~InChat /\ o \in held /\ obj[o].is = "made" /\ ptr[o] = "live"
  /\ ptr' = [ptr EXCEPT ![o] = "null"]
  /\ UNCHANGED <<globals, st, obj, reg, held, queue, chats, ran>>

Drop(o) ==
  /\ ~InChat /\ o \in held /\ held' = held \ {o}
  /\ UNCHANGED <<globals, st, obj, ptr, reg, queue, chats, ran>>

\* A pin that only the first time sets the flag.
PinUncounted(o) ==
  /\ ~InChat /\ o \in held /\ obj[o].is = "made" /\ st[obj[o].in].pins < MaxPins
  /\ obj' = [obj EXCEPT ![o].pinned = TRUE]
  /\ UNCHANGED <<globals, st, ptr, reg, held, queue, chats, ran>>

Pin(o) ==
  /\ ~InChat /\ o \in held /\ obj[o].is = "made" /\ st[obj[o].in].pins < MaxPins
  /\ obj' = [obj EXCEPT ![o].pinned = TRUE]
  /\ st' = [st EXCEPT ![obj[o].in].pins = @ + 1]
  /\ UNCHANGED <<globals, ptr, reg, held, queue, chats, ran>>

\* The program unpins what it has pinned.
Unpin(o) ==
  /\ ~InChat /\ o \in held /\ obj[o].is = "made" /\ obj[o].pinned
  /\ obj' = [obj EXCEPT ![o].pinned = FALSE]
  /\ st' = [st EXCEPT ![obj[o].in].pins = @ - 1]
  /\ UNCHANGED <<globals, ptr, reg, held, queue, chats, ran>>

\* mps_arena_collect leaves the arena parked.
Collect(s) ==
  /\ Running /\ st[s].up
  /\ st' = [st EXCEPT ![s].parked = TRUE]
  /\ \E more \in SUBSET InUse(s) : Collection(s, Roots(s), more)
  /\ chats' = Append(chats, Frame(s, "collect"))
  /\ UNCHANGED <<globals, ptr, held, ran>>

\* A shutdown that collects before it destroys the roots.
DeinitCollectsFirst(s) ==
  /\ ~InChat /\ st[s].up
  /\ st' = [st EXCEPT ![s].parked = TRUE]
  /\ held' = held \ InUse(s)
  /\ Collection(s, held \cup queue, {})
  /\ chats' = <<Frame(s, "deinit")>>
  /\ UNCHANGED <<globals, ptr, ran>>

\* Up to the chat: no root, no thread and no stack refers to an object any more.
Deinit(s) ==
  /\ ~InChat /\ st[s].up
  /\ st' = [st EXCEPT ![s].parked = TRUE]
  /\ held' = held \ InUse(s)
  /\ Collection(s, queue, {})
  /\ chats' = <<Frame(s, "deinit")>>
  /\ UNCHANGED <<globals, ptr, ran>>

----------------------------------------------------------------------------
(* managed_obj_mps_chat.                                                   *)

SetTop(o) == chats' = [chats EXCEPT ![Len(chats)].obj = o]

\* Only an object that still has its payload counts as freed.
CountsLivePayload(s, o) ==
  st' = [st EXCEPT ![s].freed = IF obj[o].kind \in Pointer /\ ptr[o] = "null" THEN @ ELSE @ + 1]

Counts(s, o) ==
  st' = [st EXCEPT ![s].freed = IF obj[o].kind = "table" THEN @ ELSE @ + 1]

\* A message is read but stays in the queue until its callback has returned.
PeekMessage(o) ==
  /\ InChat /\ Top.obj = Null /\ o \in queue /\ obj[o].in = Top.state
  /\ Counts(Top.state, o)
  /\ \/ /\ obj[o].kind \in {"plain", "scanned"} /\ ptr[o] # "null"
        /\ SetTop(o) /\ ran' = [ran EXCEPT ![o] = @ + 1] /\ UNCHANGED <<ptr, queue>>
     \/ /\ obj[o].kind = "silent" \/ ptr[o] = "null"
        /\ ptr' = [ptr EXCEPT ![o] = "null"]
        /\ queue' = queue \ {o} /\ UNCHANGED <<chats, ran>>
  /\ UNCHANGED <<globals, obj, reg, held>>

\* A message is taken: a payload with a callback is handed to it, one without is
\* forgotten, and an object without a payload is only counted.
Message(o) ==
  /\ InChat /\ Top.obj = Null /\ o \in queue /\ obj[o].in = Top.state
  /\ queue' = queue \ {o} /\ Counts(Top.state, o)
  /\ \/ /\ obj[o].kind \in {"plain", "scanned"} /\ ptr[o] # "null"
        /\ SetTop(o) /\ ran' = [ran EXCEPT ![o] = @ + 1] /\ UNCHANGED ptr
     \/ /\ obj[o].kind = "silent" \/ ptr[o] = "null"
        /\ ptr' = [ptr EXCEPT ![o] = "null"] /\ UNCHANGED <<chats, ran>>
  /\ UNCHANGED <<globals, obj, reg, held>>

\* The callback frees the payload, or keeps it.
FreePayload ==
  /\ Callback /\ ptr[Top.obj] = "live"
  /\ ptr' = [ptr EXCEPT ![Top.obj] = "freed"]
  /\ UNCHANGED <<globals, st, obj, reg, held, queue, chats, ran>>

\* The callback resurrects the object that its payload refers to.
Resurrect ==
  /\ Callback /\ ptr[Top.obj] = "live" /\ obj[Top.obj].ref \in Object \ held
  /\ held' = held \cup {obj[Top.obj].ref}
  /\ UNCHANGED <<globals, st, obj, ptr, reg, queue, chats, ran>>

\* The pointer is set to NULL after the callback has returned.
CallbackReturns ==
  /\ Callback /\ SetTop(Null)
  /\ ptr' = [ptr EXCEPT ![Top.obj] = "null"]
  /\ UNCHANGED <<globals, st, obj, reg, held, queue, ran>>

NoMessage == \A o \in queue : obj[o].in # Top.state

ChatEnds ==
  /\ InChat /\ Top.obj = Null /\ NoMessage /\ Top.why = "collect"
  /\ chats' = SubSeq(chats, 1, Len(chats) - 1)
  /\ UNCHANGED <<globals, st, obj, ptr, reg, held, queue, ran>>

\* The rest of managed_obj_deinit.
DeinitEnds ==
  LET s == Top.state
  IN  /\ InChat /\ Top.obj = Null /\ NoMessage /\ Top.why = "deinit"
      /\ GlobalDeinit(s)
      /\ st' = [st EXCEPT ![s] = Down]
      /\ obj' = [o \in Object |-> IF obj[o].in = s
                                  THEN [obj[o] EXCEPT !.is = "gone", !.in = Null]
                                  ELSE obj[o]]
      /\ held' = {o \in held : obj[o].in # s} /\ chats' = <<>>
      /\ UNCHANGED <<ptr, reg, queue, ran>>

----------------------------------------------------------------------------
Calls ==
  \/ \E s \in State : InitState(s) \/ Collect(s) \/ Deinit(s)
  \/ \E s \in State, o \in Object, kind \in Kinds : Make(s, o, kind)
  \/ \E o, r \in Object : Store(o, r)
  \/ \E o \in Object : TakePayload(o) \/ Drop(o) \/ Pin(o) \/ Unpin(o)

Chat ==
  \/ \E o \in Object : Message(o)
  \/ FreePayload \/ Resurrect \/ CallbackReturns \/ ChatEnds \/ DeinitEnds

\* The program has ended all its states.
Stopped == (\A s \in State : ~st[s].up) /\ gens = MaxGen /\ UNCHANGED vars

Next == Calls \/ Chat \/ (\E s \in State : MpsCollects(s)) \/ Stopped

Spec == Init /\ [][Next]_vars

----------------------------------------------------------------------------
(* Properties.                                                             *)

StateT  == [up : BOOLEAN, rooted : BOOLEAN, parked : BOOLEAN, allocated : Nat,
            freed : Nat, pins : Nat]
ObjectT == [is : {"none", "made", "gone"}, in : State \cup {Null}, kind : Kind,
            ref : Object \cup {Null}, marks : Nat, pinned : BOOLEAN,
            excuse : {"none", "late", "shadowed"}]
FrameT  == [state : State, obj : Object \cup {Null}, why : {"collect", "deinit"}]

TypeOK ==
  /\ init \in {0, 2} /\ global \in BOOLEAN /\ ids \in Nat /\ gens \in Nat
  /\ robbed \subseteq State /\ st \in [State -> StateT]
  /\ obj \in [Object -> ObjectT] /\ ptr \in [Object -> {"live", "freed", "null"}]
  /\ reg \subseteq Object /\ held \subseteq Object /\ queue \subseteq Object
  /\ chats \in Seq(FrameT) /\ ran \in [Object -> Nat]

\* A payload is finalized at most once, also when its callback collects, makes
\* objects or resurrects (managed_object_obj.c:308-343).
CallbackOnce == \A o \in Object : ran[o] <= 1

\* An object refers to freed memory only while the callback that frees it runs
\* (managed_object_obj.c:333-336).
DanglesInCallbackOnly ==
  \A o \in Object : ptr[o] = "freed" => \E k \in 1..Len(chats) : chats[k].obj = o

\* The difference of the counters is the number of objects that await
\* finalization, and of tables, which are counted when made only
\* (managed_object_obj.c:321-327, metadata.h:273).
CountersBalance ==
  \A s \in State : st[s].up =>
    st[s].allocated - st[s].freed =
      Cardinality({o \in Object : obj[o].in = s /\
                     (obj[o].kind = "table" \/ o \in reg \cup queue)})

\* managed_obj_deinit finalizes every object, except those that its own callbacks
\* make and those that the MPS keeps for a later collection because another dead
\* object refers to them (managed_object_obj.c:846-855).
DeinitFinalizes ==
  \A o \in Object : obj[o].is = "gone" /\ o \in reg => obj[o].excuse # "none"

\* An object that the program refers to is not reclaimed, unless a callback made
\* or resurrected it in a state that is ending: a collection "should not collect p"
\* while p is on the stack (managed_object_tests.cpp:339).
RootsProtect ==
  \A o \in held : obj[o].is = "gone" => Ending(obj[o].in)

\* A state that was initialised since the markers were last cleared has them,
\* and its tables hold no others (metadata.h:155-173, 196-204).
MarkersServeStates ==
  \A s \in State : st[s].up /\ s \notin robbed =>
    /\ global /\ ids # 0
    /\ \A o \in InUse(s) : obj[o].kind = "table" => obj[o].marks = ids

\* The global state goes with the last of the program's (metadata.h:198-203).
GlobalIsReleased == (\A s \in State : ~st[s].up) => ~global /\ init = 0 /\ ids = 0

\* pinned_used counts at least the pinned objects (managed_object_obj.c:681-689).
PinsAreCounted ==
  \A s \in State : st[s].up =>
    Cardinality({o \in InUse(s) : obj[o].pinned}) <= st[s].pins
=============================================================================
