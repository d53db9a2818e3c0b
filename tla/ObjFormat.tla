----------------------------- MODULE ObjFormat -----------------------------
(***************************************************************************)
(* The object format of managed_object_obj.c: the methods by which the MPS *)
(* walks a segment of memory, replaces an object by a forwarding object    *)
(* and pads what it reclaims.  Addresses and sizes are in bytes; mem[a] is *)
(* the object that starts at a, or Inside when a lies inside one.          *)
(***************************************************************************)
EXTENDS Integers

CONSTANTS
  SizeOf,   \* sizeof each structure; the fixed part of strings and buckets
  Lengths,  \* of strings and buckets
  Copies,   \* where the MPS copies an object to
  Null,     \* NULL
  Inside,   \* no object starts here
  Limit     \* bound: the size of the segment

Ordinary == {"empty", "scanned_pointer", "bucket", "hashtable", "string"}
Type     == Ordinary \cup {"fwd2", "fwd", "pad1", "pad"}

Alignment == 8

\* Align size upwards to the next multiple of the word size.
AlignWord(n) == ((n + Alignment - 1) \div Alignment) * Alignment

ASSUME LayoutOK ==
  /\ SizeOf \in [Type -> Nat \ {0}]
  /\ SizeOf["pad1"] <= Alignment /\ SizeOf["pad"] <= 2 * Alignment
  /\ SizeOf["fwd2"] <= SizeOf["fwd"]

\* Rounding without room for a forwarding object.
AlignObjAsWord(n) == AlignWord(n)

AlignObj(n) ==
  IF AlignWord(n) >= AlignWord(SizeOf["fwd"]) THEN AlignWord(n) ELSE AlignWord(SizeOf["fwd"])

Object == [type : Type, len : Nat, size : Nat, fwd : Copies \cup {Null}]

ASSUME BoundsOK == Lengths \subseteq Nat /\ Limit \in Nat /\ Inside \notin Object

VARIABLES
  mem,   \* the objects of the segment
  fill,  \* the end of the last object
  moved  \* history: where the object that started at a has been copied to

vars == <<mem, fill, moved>>

Address == 0..Limit - 1
Start(a) == a \in Address /\ a < fill /\ mem[a] # Inside

----------------------------------------------------------------------------
(* The methods of the format.                                              *)

StructSize(o) ==
  IF o.type = "bucket" THEN SizeOf["bucket"] + o.len * 8
  ELSE IF o.type = "string" THEN SizeOf["string"] + o.len + 1
  ELSE SizeOf[o.type]

Skip(o) ==
  IF o.type \in Ordinary THEN AlignObj(StructSize(o))
  ELSE IF o.type \in {"fwd2", "pad1"} THEN AlignWord(SizeOf[o.type])
  ELSE AlignWord(o.size)

\* A scan that takes a forwarding object for one of the smallest size.
ScanFixedFwd(o) ==
  IF o.type = "fwd" THEN AlignWord(SizeOf["fwd"]) ELSE Skip(o)

\* How far scan advances past an object.
ScanSize(o) ==
  CASE o.type = "bucket" -> AlignObj(SizeOf["bucket"] + o.len * 8)
    [] o.type = "string" -> AlignObj(SizeOf["string"] + o.len + 1)
    [] o.type \in {"empty", "scanned_pointer", "hashtable"} -> AlignObj(SizeOf[o.type])
    [] o.type \in {"fwd2", "pad1"} -> AlignWord(SizeOf[o.type])
    [] o.type \in {"fwd", "pad"} -> AlignWord(o.size)

\* A test that knows one kind of forwarding object only.
IsFwdTwo(o) == IF o.type = "fwd2" THEN o.fwd ELSE Null

IsFwd(o) == IF o.type \in {"fwd2", "fwd"} THEN o.fwd ELSE Null

\* A forwarding object without the size of the object it replaces.
FwdUnsized(o, new) == [o EXCEPT !.type = "fwd", !.fwd = new, !.size = SizeOf["fwd"]]

\* A two-word object has no room for a size.
Fwd(o, new) ==
  LET size == Skip(o)
  IN  IF size = AlignWord(SizeOf["fwd2"])
      THEN [type |-> "fwd2", len |-> o.len, size |-> o.size, fwd |-> new]
      ELSE [type |-> "fwd", len |-> o.len, size |-> size, fwd |-> new]

Padding(size) ==
  [type |-> IF size = AlignWord(SizeOf["pad1"]) THEN "pad1" ELSE "pad",
   len |-> 0, size |-> size, fwd |-> Null]

----------------------------------------------------------------------------
(* What the MPS does with a segment.                                       *)

Init ==
  /\ mem = [a \in Address |-> Inside] /\ fill = 0
  /\ moved = [a \in Address |-> Null]

\* One of the functions that make an object: reserve, fill in, commit.
MakeObject(type, len) ==
  LET o    == [type |-> type, len |-> len, size |-> 0, fwd |-> Null]
      size == AlignObj(StructSize(o))
  IN  /\ fill + size <= Limit
      /\ mem' = [mem EXCEPT ![fill] = o] /\ fill' = fill + size
      /\ UNCHANGED moved

Forward(a, new) ==
  /\ Start(a) /\ mem[a].type \in Ordinary
  /\ mem' = [mem EXCEPT ![a] = Fwd(mem[a], new)]
  /\ moved' = [moved EXCEPT ![a] = new]
  /\ UNCHANGED fill

\* The objects from a up to b have been reclaimed.
PadReclaimed(a, b) ==
  /\ Start(a) /\ a < b /\ (Start(b) \/ b = fill)
  /\ mem' = [x \in Address |-> IF x = a THEN Padding(b - a)
                               ELSE IF a < x /\ x < b THEN Inside ELSE mem[x]]
  /\ moved' = [x \in Address |-> IF a <= x /\ x < b THEN Null ELSE moved[x]]
  /\ UNCHANGED fill

\* What an allocation point leaves unused at the end of its buffer.
PadRest(words) ==
  LET size == words * Alignment
  IN  /\ words > 0 /\ fill + size <= Limit
      /\ mem' = [mem EXCEPT ![fill] = Padding(size)] /\ fill' = fill + size
      /\ UNCHANGED moved

\* The segment is full.
Stopped == fill = Limit /\ UNCHANGED vars

Next ==
  \/ \E type \in Ordinary, len \in Lengths : MakeObject(type, len)
  \/ \E a \in Address, new \in Copies : Forward(a, new)
  \/ \E a \in Address, b \in 1..Limit : PadReclaimed(a, b)
  \/ \E words \in 1..Limit : PadRest(words)
  \/ Stopped

Spec == Init /\ [][Next]_vars

----------------------------------------------------------------------------
(* Properties.                                                             *)

TypeOK ==
  /\ mem \in [Address -> Object \cup {Inside}] /\ fill \in 0..Limit
  /\ moved \in [Address -> Copies \cup {Null}]

\* Stepping from the object at a by n bytes leads over its inside to the next
\* object, or to the end of the segment.
LeadsOn(a, n) ==
  /\ n > 0 /\ a + n <= fill
  /\ a + n < fill => mem[a + n] # Inside
  /\ \A x \in Address : a < x /\ x < a + n => mem[x] = Inside

\* skip() returns the start of the next object, whatever has been forwarded and
\* padded (managed_object_obj.c:104-112).
SkipFindsNext == \A a \in Address : Start(a) => LeadsOn(a, Skip(mem[a]))

\* scan() visits the same objects as skip() (managed_object_obj.c:66-101).
ScanFindsNext == \A a \in Address : Start(a) => LeadsOn(a, ScanSize(mem[a]))

\* The bytes that the fields of an object take.
Extent(o) == AlignWord(StructSize(o))

\* A forwarding or padding object fits in what it replaces, so that writing it
\* leaves the next object alone (managed_object_obj.c:176-183, 189, 215).
FitsInPlace ==
  \A a \in Address : Start(a) =>
    /\ Extent(mem[a]) <= Skip(mem[a])
    /\ mem[a].type \in Ordinary => Extent(Fwd(mem[a], Null)) <= Skip(mem[a])

\* isfwd() tells the objects that have been copied from those that have not
\* (managed_object_obj.c:143-148, 180-181).
CopiesAreFound == \A a \in Address : Start(a) => IsFwd(mem[a]) = moved[a]
=============================================================================
