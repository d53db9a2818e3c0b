-------------------------- MODULE ObjFormat_proofs --------------------------
(* Proofs about the object format, for every layout of the structures.      *)
EXTENDS ObjFormat, TLAPS

\* Rounding up to words.
LEMMA AlignWordRounds ==
  ASSUME NEW n \in Nat
  PROVE  /\ AlignWord(n) \in Nat /\ AlignWord(n) >= n /\ AlignWord(n) < n + 8
         /\ AlignWord(n) % 8 = 0
         /\ n % 8 = 0 => AlignWord(n) = n
BY DEF AlignWord, Alignment

\* Rounding keeps the order.
LEMMA AlignWordMonotone ==
  ASSUME NEW m \in Nat, NEW n \in Nat, m <= n
  PROVE  AlignWord(m) <= AlignWord(n)
BY DEF AlignWord, Alignment


\* The fixed sizes after rounding.
LEMMA FixedSizes ==
  /\ AlignWord(SizeOf["pad1"]) = 8
  /\ AlignWord(SizeOf["pad"]) \in Nat /\ AlignWord(SizeOf["pad"]) <= 16
  /\ \A t \in Type : AlignWord(SizeOf[t]) \in Nat \ {0} /\ AlignWord(SizeOf[t]) % 8 = 0
  /\ AlignWord(SizeOf["fwd2"]) <= AlignWord(SizeOf["fwd"])
<1>1. \A t \in Type : SizeOf[t] \in Nat \ {0}
  BY LayoutOK
<1>2. {"pad1", "pad", "fwd2", "fwd"} \subseteq Type
  BY DEF Type
<1>3. SizeOf["pad1"] \in 1..8 /\ SizeOf["pad"] \in 1..16
  BY <1>1, <1>2, LayoutOK DEF Alignment
<1>4. AlignWord(SizeOf["pad1"]) = 8 /\ AlignWord(SizeOf["pad"]) \in 1..16
  BY <1>3 DEF AlignWord, Alignment
<1>5. ASSUME NEW t \in Type
      PROVE  AlignWord(SizeOf[t]) \in Nat \ {0} /\ AlignWord(SizeOf[t]) % 8 = 0
  BY <1>1, AlignWordRounds
<1>6. AlignWord(SizeOf["fwd2"]) <= AlignWord(SizeOf["fwd"])
  BY <1>1, <1>2, LayoutOK, AlignWordMonotone
<1> QED BY <1>4, <1>5, <1>6

\* An object's size is a positive number of words, with room for a forwarding object.
LEMMA AlignObjRounds ==
  ASSUME NEW n \in Nat \ {0}
  PROVE  /\ AlignObj(n) \in Nat \ {0} /\ AlignObj(n) % 8 = 0
         /\ AlignObj(n) >= AlignWord(n) /\ AlignObj(n) >= AlignWord(SizeOf["fwd"])
<1>1. AlignWord(n) \in Nat \ {0} /\ AlignWord(n) % 8 = 0
  BY AlignWordRounds
<1>2. AlignWord(SizeOf["fwd"]) \in Nat \ {0} /\ AlignWord(SizeOf["fwd"]) % 8 = 0
  BY FixedSizes DEF Type
<1> QED BY <1>1, <1>2 DEF AlignObj

\* A structure is never empty.
LEMMA StructSizeIsPositive ==
  ASSUME NEW o \in Object
  PROVE  StructSize(o) \in Nat \ {0}
<1>1. \A t \in Type : SizeOf[t] \in Nat \ {0}
  BY LayoutOK
<1>2. o.type \in Type /\ o.len \in Nat
  BY DEF Object
<1>3. SizeOf["bucket"] \in Nat \ {0} /\ SizeOf["string"] \in Nat \ {0} /\ SizeOf[o.type] \in Nat \ {0}
  BY <1>1, <1>2 DEF Type, Ordinary
<1> QED BY <1>2, <1>3 DEF StructSize

\* scan() and skip() compute the same size of every object.
LEMMA ScanSizeIsSkip ==
  ASSUME NEW o \in Object
  PROVE  ScanSize(o) = Skip(o)
<1>1. o.type \in Type
  BY DEF Object
<1>2. CASE o.type = "bucket"
  BY <1>2 DEF ScanSize, Skip, StructSize, Ordinary
<1>3. CASE o.type = "string"
  BY <1>3 DEF ScanSize, Skip, StructSize, Ordinary
<1>4. CASE o.type \in {"empty", "scanned_pointer", "hashtable"}
  BY <1>4 DEF ScanSize, Skip, StructSize, Ordinary
<1>5. CASE o.type \in {"fwd2", "pad1"}
  BY <1>5 DEF ScanSize, Skip, Ordinary
<1>6. CASE o.type \in {"fwd", "pad"}
  BY <1>6 DEF ScanSize, Skip, Ordinary
<1> QED BY <1>1, <1>2, <1>3, <1>4, <1>5, <1>6 DEF Type, Ordinary

\* The sizes that fwd() and pad() store.
Sound(o) ==
  /\ o.type = "fwd" => o.size % 8 = 0 /\ o.size >= AlignWord(SizeOf["fwd"])
  /\ o.type = "pad" => o.size % 8 = 0 /\ o.size >= 16

\* skip() advances by whole words, past every field of the object.
LEMMA SkipIsSound ==
  ASSUME NEW o \in Object, Sound(o)
  PROVE  Skip(o) \in Nat \ {0} /\ Skip(o) % 8 = 0 /\ Extent(o) <= Skip(o)
<1>1. o.type \in Type /\ o.size \in Nat
  BY DEF Object
<1>2. CASE o.type \in Ordinary
  <2>1. StructSize(o) \in Nat \ {0}
    BY StructSizeIsPositive
  <2>2. Skip(o) = AlignObj(StructSize(o)) /\ Extent(o) = AlignWord(StructSize(o))
    BY <1>2 DEF Skip, Extent
  <2>3. QED BY <2>1, <2>2, AlignObjRounds
<1>3. CASE o.type \in {"fwd2", "pad1"}
  <2>1. Skip(o) = AlignWord(SizeOf[o.type]) /\ Extent(o) = AlignWord(SizeOf[o.type])
    BY <1>3 DEF Skip, Extent, StructSize, Ordinary
  <2>2. QED BY <1>1, <2>1, FixedSizes
<1>4. CASE o.type = "fwd"
  <2>1. Skip(o) = AlignWord(o.size) /\ Extent(o) = AlignWord(SizeOf["fwd"])
    BY <1>4 DEF Skip, Extent, StructSize, Ordinary
  <2>2. o.size % 8 = 0 /\ o.size >= AlignWord(SizeOf["fwd"])
    BY <1>4 DEF Sound
  <2>3. AlignWord(SizeOf["fwd"]) \in Nat \ {0}
    BY <1>1, <1>4, FixedSizes
  <2>4. QED BY <1>1, <2>1, <2>2, <2>3, AlignWordRounds
<1>5. CASE o.type = "pad"
  <2>1. Skip(o) = AlignWord(o.size) /\ Extent(o) = AlignWord(SizeOf["pad"])
    BY <1>5 DEF Skip, Extent, StructSize, Ordinary
  <2>2. o.size % 8 = 0 /\ o.size >= 16
    BY <1>5 DEF Sound
  <2>3. QED BY <1>1, <2>1, <2>2, FixedSizes, AlignWordRounds
<1> QED BY <1>1, <1>2, <1>3, <1>4, <1>5 DEF Type, Ordinary

\* A forwarding object takes the place of the object, and is found.
LEMMA FwdIsSound ==
  ASSUME NEW o \in Object, o.type \in Ordinary, NEW new \in Copies \cup {Null}
  PROVE  /\ Fwd(o, new) \in Object /\ Sound(Fwd(o, new))
         /\ Skip(Fwd(o, new)) = Skip(o) /\ Extent(Fwd(o, new)) <= Skip(o)
         /\ IsFwd(Fwd(o, new)) = new
<1> DEFINE size == Skip(o)
           f == Fwd(o, new)
<1>1. o.len \in Nat /\ o.size \in Nat
  BY DEF Object
<1>2. size = AlignObj(StructSize(o))
  BY DEF Skip
<1>3. size \in Nat \ {0} /\ size % 8 = 0 /\ size >= AlignWord(SizeOf["fwd"])
  BY <1>2, StructSizeIsPositive, AlignObjRounds
<1>4. CASE size = AlignWord(SizeOf["fwd2"])
  <2>1. f = [type |-> "fwd2", len |-> o.len, size |-> o.size, fwd |-> new]
    BY <1>4 DEF Fwd
  <2>2. f \in Object /\ f.type = "fwd2" /\ f.fwd = new
    BY <1>1, <2>1 DEF Object, Type
  <2>3. Sound(f) /\ IsFwd(f) = new
    BY <2>2 DEF Sound, IsFwd
  <2>4. Skip(f) = AlignWord(SizeOf["fwd2"])
    BY <2>2 DEF Skip, Ordinary
  <2>5. QED BY <1>4, <2>2, <2>3, <2>4, SkipIsSound
<1>5. CASE size # AlignWord(SizeOf["fwd2"])
  <2>1. f = [type |-> "fwd", len |-> o.len, size |-> size, fwd |-> new]
    BY <1>5 DEF Fwd
  <2>2. f \in Object /\ f.type = "fwd" /\ f.fwd = new /\ f.size = size
    BY <1>1, <1>3, <2>1 DEF Object, Type
  <2>3. Sound(f) /\ IsFwd(f) = new
    BY <1>3, <2>2 DEF Sound, IsFwd
  <2>4. Skip(f) = AlignWord(size)
    BY <2>2 DEF Skip, Ordinary
  <2>5. Skip(f) = size
    BY <1>3, <2>4, AlignWordRounds
  <2>6. QED BY <2>2, <2>3, <2>5, SkipIsSound
<1> QED BY <1>4, <1>5

\* A padding object takes as much as is padded.
LEMMA PaddingIsSound ==
  ASSUME NEW n \in Nat, n > 0, n % 8 = 0
  PROVE  /\ Padding(n) \in Object /\ Sound(Padding(n)) /\ Skip(Padding(n)) = n
         /\ IsFwd(Padding(n)) = Null
<1> DEFINE p == Padding(n)
<1>1. CASE n = 8
  <2>1. p \in Object /\ p.type = "pad1"
    BY <1>1, FixedSizes DEF Padding, Object, Type
  <2>2. QED BY <1>1, <2>1, FixedSizes DEF Sound, Skip, IsFwd, Ordinary
<1>2. CASE n # 8
  <2>1. p \in Object /\ p.type = "pad" /\ p.size = n
    BY <1>2, FixedSizes DEF Padding, Object, Type
  <2>2. n >= 16
    BY <1>2
  <2>3. Skip(p) = AlignWord(n)
    BY <2>1 DEF Skip, Ordinary
  <2>4. QED BY <2>1, <2>2, <2>3, AlignWordRounds DEF Sound, IsFwd
<1> QED BY <1>1, <1>2

-----------------------------------------------------------------------------
(* The inductive invariant.                                                  *)

\* Objects start at words and have sound sizes; nothing starts at or after fill.
Tidy ==
  /\ fill % 8 = 0
  /\ \A a \in Address : Start(a) => a % 8 = 0 /\ Sound(mem[a])
  /\ \A a \in Address : a >= fill => mem[a] = Inside /\ moved[a] = Null

Inv == TypeOK /\ Tidy /\ SkipFindsNext /\ CopiesAreFound

\* The empty segment.
LEMMA InitInv == Init => Inv
<1> SUFFICES ASSUME Init PROVE Inv
  OBVIOUS
<1>1. TypeOK
  BY BoundsOK DEF Init, TypeOK
<1>2. \A a \in Address : ~Start(a)
  BY DEF Init, Start, Address
<1>3. Tidy
  BY <1>2, BoundsOK DEF Init, Tidy, Address
<1>4. SkipFindsNext /\ CopiesAreFound
  BY <1>2 DEF SkipFindsNext, CopiesAreFound
<1> QED BY <1>1, <1>3, <1>4 DEF Inv

\* An object that is Sound put at the end of the others.
LEMMA AppendInv ==
  ASSUME Inv, NEW o \in Object, Sound(o), IsFwd(o) = Null, fill + Skip(o) <= Limit,
         mem' = [mem EXCEPT ![fill] = o], fill' = fill + Skip(o), UNCHANGED moved
  PROVE  Inv'
<1> USE DEF Address
<1>1. Skip(o) \in Nat \ {0} /\ Skip(o) % 8 = 0
  BY SkipIsSound
<1>2. fill \in Nat /\ fill <= Limit /\ fill % 8 = 0 /\ Limit \in Nat
  BY BoundsOK DEF Inv, TypeOK, Tidy
<1>3. fill \in Address /\ fill' \in 0..Limit /\ fill' % 8 = 0 /\ fill < fill'
  BY <1>1, <1>2
<1>4. mem \in [Address -> Object \cup {Inside}]
  BY DEF Inv, TypeOK
<1>5. mem'[fill] = o /\ \A a \in Address : a # fill => mem'[a] = mem[a]
  BY <1>3, <1>4
<1>6. TypeOK'
  BY <1>3, <1>4 DEF Inv, TypeOK
<1>7. \A a \in Address : Start(a)' <=> Start(a) \/ a = fill
  <2>1. \A a \in Address : a >= fill => mem[a] = Inside
    BY DEF Inv, Tidy
  <2>2. o # Inside
    BY BoundsOK
  <2>3. QED BY <1>2, <1>3, <1>5, <2>1, <2>2 DEF Start
<1>8. Tidy'
  <2>1. \A a \in Address : Start(a)' => a % 8 = 0 /\ Sound(mem'[a])
    <3>1. \A a \in Address : Start(a) => a % 8 = 0 /\ Sound(mem[a]) /\ a # fill
      BY <1>2 DEF Inv, Tidy, Start
    <3>2. QED BY <1>2, <1>5, <1>7, <3>1
  <2>2. \A a \in Address : a >= fill' => mem'[a] = Inside /\ moved'[a] = Null
    <3>1. \A a \in Address : a >= fill' => a >= fill /\ a # fill
      BY <1>1, <1>2, <1>3
    <3>2. QED BY <1>5, <3>1 DEF Inv, Tidy
  <2>3. \A a \in Address : Sound(mem[a])' <=> Sound(mem'[a])
    BY DEF Sound
  <2>4. QED BY <1>3, <2>1, <2>2, <2>3 DEF Tidy
<1>9. SkipFindsNext'
  <2> SUFFICES ASSUME NEW a \in Address, Start(a)' PROVE LeadsOn(a, Skip(mem[a]))'
    BY DEF SkipFindsNext
  <2>1. CASE a = fill
    <3>1. Skip(mem'[a]) = Skip(o) /\ a + Skip(o) = fill'
      BY <1>5, <2>1
    <3>2. \A x \in Address : a < x => mem'[x] = Inside
      BY <1>2, <1>5, <2>1 DEF Inv, Tidy
    <3>3. QED BY <1>1, <1>2, <1>3, <3>1, <3>2 DEF LeadsOn
  <2>2. CASE a # fill
    <3> DEFINE n == Skip(mem[a])
    <3>1. Start(a) /\ mem'[a] = mem[a]
      BY <1>5, <1>7, <2>2
    <3>2. mem[a] \in Object /\ Sound(mem[a]) /\ LeadsOn(a, n)
      BY <1>4, <3>1 DEF Start, Inv, Tidy, SkipFindsNext
    <3>3. n \in Nat \ {0}
      BY <3>2, SkipIsSound
    <3> HIDE DEF n
    <3>4. n > 0 /\ a + n <= fill /\ (a + n < fill => mem[a + n] # Inside)
          /\ \A x \in Address : a < x /\ x < a + n => mem[x] = Inside
      BY <3>2 DEF LeadsOn
    <3>5. a + n < fill' => mem'[a + n] # Inside
      <4>1. CASE a + n = fill
        BY <1>5, <4>1, BoundsOK
      <4>2. CASE a + n < fill
        BY <1>2, <1>5, <3>3, <3>4, <4>2
      <4> QED BY <1>2, <3>3, <3>4, <4>1, <4>2
    <3>6. \A x \in Address : a < x /\ x < a + n => mem'[x] = Inside
      BY <1>2, <1>5, <3>3, <3>4
    <3>7. LeadsOn(a, n)'
      BY <1>2, <1>3, <3>3, <3>4, <3>5, <3>6 DEF LeadsOn, n
    <3> QED BY <3>1, <3>7 DEF n, LeadsOn
  <2> QED BY <2>1, <2>2
<1>10. CopiesAreFound'
  <2> SUFFICES ASSUME NEW a \in Address, Start(a)' PROVE IsFwd(mem'[a]) = moved'[a]
    BY DEF CopiesAreFound, IsFwd
  <2>1. CASE a = fill
    BY <1>2, <1>3, <1>5, <2>1 DEF Inv, Tidy
  <2>2. CASE a # fill
    BY <1>5, <1>7, <2>2 DEF Inv, CopiesAreFound
  <2> QED BY <2>1, <2>2
<1> QED BY <1>6, <1>8, <1>9, <1>10 DEF Inv

\* Making an object appends one.
LEMMA MakeObjectInv ==
  ASSUME Inv, NEW type \in Ordinary, NEW len \in Lengths, MakeObject(type, len)
  PROVE  Inv'
<1> DEFINE o == [type |-> type, len |-> len, size |-> 0, fwd |-> Null]
<1>1. o \in Object /\ o.type \in Ordinary
  BY BoundsOK DEF Object, Type
<1>2. Sound(o) /\ IsFwd(o) = Null /\ Skip(o) = AlignObj(StructSize(o))
  BY <1>1 DEF Sound, IsFwd, Skip, Ordinary
<1> QED BY <1>1, <1>2, AppendInv DEF MakeObject

\* Padding the rest of a buffer appends an object.
LEMMA PadRestInv ==
  ASSUME Inv, NEW words \in 1..Limit, PadRest(words)
  PROVE  Inv'
<1>1. words * 8 \in Nat /\ words * 8 > 0 /\ (words * 8) % 8 = 0
  BY BoundsOK
<1> QED BY <1>1, PaddingIsSound, AppendInv DEF PadRest, Alignment

\* Forwarding changes no boundary.
LEMMA ForwardInv ==
  ASSUME Inv, NEW a \in Address, NEW new \in Copies, Forward(a, new)
  PROVE  Inv'
<1> DEFINE f == Fwd(mem[a], new)
<1>1. mem \in [Address -> Object \cup {Inside}] /\ fill' = fill
      /\ moved \in [Address -> Copies \cup {Null}]
  BY DEF Inv, TypeOK, Forward
<1>2. Start(a) /\ mem[a] \in Object /\ mem[a].type \in Ordinary
  BY <1>1 DEF Forward, Start
<1>3. f \in Object /\ Sound(f) /\ Skip(f) = Skip(mem[a]) /\ IsFwd(f) = new
  BY <1>2, FwdIsSound
<1>4. mem' = [mem EXCEPT ![a] = f] /\ moved' = [moved EXCEPT ![a] = new]
  BY DEF Forward
<1> HIDE DEF f
<1>5. mem'[a] = f /\ \A x \in Address : x # a => mem'[x] = mem[x] /\ moved'[x] = moved[x]
  BY <1>1, <1>4
<1>6. \A x \in Address : mem'[x] = Inside <=> mem[x] = Inside
  BY <1>2, <1>3, <1>5, BoundsOK
<1>7. \A x \in Address : Start(x)' <=> Start(x)
  BY <1>1, <1>6 DEF Start
<1>8. TypeOK'
  BY <1>1, <1>3, <1>4 DEF Inv, TypeOK
<1>9. Tidy'
  <2>1. \A x \in Address : Start(x)' => x % 8 = 0 /\ Sound(mem'[x])
    BY <1>3, <1>5, <1>7 DEF Inv, Tidy
  <2>2. \A x \in Address : x >= fill' => mem'[x] = Inside /\ moved'[x] = Null
    <3>1. a < fill
      BY <1>2 DEF Start
    <3>2. \A x \in Address : x >= fill => x # a
      BY <1>1, <3>1, BoundsOK DEF Inv, TypeOK, Address
    <3>3. QED BY <1>1, <1>5, <3>2 DEF Inv, Tidy
  <2>3. fill' % 8 = 0
    BY <1>1 DEF Inv, Tidy
  <2>4. QED BY <2>1, <2>2, <2>3 DEF Tidy, Sound
<1>10. SkipFindsNext'
  <2> SUFFICES ASSUME NEW x \in Address, Start(x)' PROVE LeadsOn(x, Skip(mem[x]))'
    BY DEF SkipFindsNext
  <2>1. Skip(mem'[x]) = Skip(mem[x]) /\ LeadsOn(x, Skip(mem[x]))
    BY <1>3, <1>5, <1>7 DEF Inv, SkipFindsNext
  <2>2. mem[x] \in Object /\ Sound(mem[x])
    BY <1>1, <1>7 DEF Start, Inv, Tidy
  <2>3. Skip(mem[x]) \in Nat \ {0}
    BY <2>2, SkipIsSound
  <2> DEFINE n == Skip(mem[x])
  <2> HIDE DEF n
  <2>4. n > 0 /\ x + n <= fill /\ (x + n < fill => mem[x + n] # Inside)
        /\ \A y \in Address : x < y /\ y < x + n => mem[y] = Inside
    BY <2>1 DEF LeadsOn, n
  <2>5. x + n < fill => x + n \in Address
    BY <1>1, <2>3, BoundsOK DEF Inv, TypeOK, Address, n
  <2>6. LeadsOn(x, n)'
    BY <1>1, <1>6, <2>1, <2>4, <2>5 DEF LeadsOn, n
  <2>7. QED BY <2>1, <2>6 DEF n, LeadsOn
<1>11. CopiesAreFound'
  <2> SUFFICES ASSUME NEW x \in Address, Start(x)' PROVE IsFwd(mem'[x]) = moved'[x]
    BY DEF CopiesAreFound, IsFwd
  <2>1. CASE x = a
    BY <1>1, <1>3, <1>4, <1>5, <2>1
  <2>2. CASE x # a
    BY <1>5, <1>7, <2>2 DEF Inv, CopiesAreFound
  <2> QED BY <2>1, <2>2
<1> QED BY <1>8, <1>9, <1>10, <1>11 DEF Inv

\* Padding what was reclaimed leaves the objects around it.
LEMMA PadReclaimedInv ==
  ASSUME Inv, NEW a \in Address, NEW b \in 1..Limit, PadReclaimed(a, b)
  PROVE  Inv'
<1> DEFINE p == Padding(b - a)
<1>1. mem \in [Address -> Object \cup {Inside}] /\ fill' = fill /\ fill \in 0..Limit
      /\ moved \in [Address -> Copies \cup {Null}] /\ Limit \in Nat /\ Inside \notin Object
  BY BoundsOK DEF Inv, TypeOK, PadReclaimed
<1>2. Start(a) /\ a < b /\ ((b \in Address /\ Start(b)) \/ b = fill) /\ b <= fill /\ a < fill
  BY <1>1 DEF PadReclaimed, Start, Address
<1>3. a % 8 = 0 /\ b % 8 = 0
  BY <1>2 DEF Inv, Tidy
<1>4. b - a \in Nat /\ b - a > 0 /\ (b - a) % 8 = 0
  BY <1>2, <1>3 DEF Address
<1>5. p \in Object /\ Sound(p) /\ Skip(p) = b - a /\ IsFwd(p) = Null
  BY <1>4, PaddingIsSound
<1> HIDE DEF p
<1>6. /\ mem' = [x \in Address |-> IF x = a THEN p
                                   ELSE IF a < x /\ x < b THEN Inside ELSE mem[x]]
      /\ moved' = [x \in Address |-> IF a <= x /\ x < b THEN Null ELSE moved[x]]
  BY DEF PadReclaimed, p
<1>7. /\ mem'[a] = p /\ moved'[a] = Null
      /\ \A x \in Address : a < x /\ x < b => mem'[x] = Inside
      /\ \A x \in Address : x < a \/ b <= x => mem'[x] = mem[x] /\ moved'[x] = moved[x]
  BY <1>2, <1>6 DEF Address
<1>8. \A x \in Address : Start(x)' => x = a \/ (Start(x) /\ (x < a \/ b <= x))
  BY <1>1, <1>2, <1>7 DEF Start, Address
<1>9. TypeOK'
  BY <1>1, <1>5, <1>6 DEF TypeOK
<1>10. Tidy'
  <2>1. \A x \in Address : Start(x)' => x % 8 = 0 /\ Sound(mem'[x])
    BY <1>3, <1>5, <1>7, <1>8 DEF Inv, Tidy
  <2>2. \A x \in Address : x >= fill' => mem'[x] = Inside /\ moved'[x] = Null
    BY <1>1, <1>2, <1>7 DEF Inv, Tidy, Address
  <2>3. QED BY <1>1, <2>1, <2>2 DEF Inv, Tidy, Sound
<1>11. SkipFindsNext'
  <2> SUFFICES ASSUME NEW x \in Address, Start(x)' PROVE LeadsOn(x, Skip(mem[x]))'
    BY DEF SkipFindsNext
  <2>1. CASE x = a
    <3>1. Skip(mem'[x]) = b - a /\ x + (b - a) = b
      BY <1>2, <1>5, <1>7, <2>1 DEF Address
    <3>2. b < fill' => mem'[b] # Inside
      BY <1>1, <1>2, <1>7 DEF Start, Address
    <3>3. QED BY <1>1, <1>2, <1>4, <1>7, <2>1, <3>1, <3>2 DEF LeadsOn
  <2>2. CASE x # a
    <3> DEFINE n == Skip(mem[x])
    <3>1. Start(x) /\ (x < a \/ b <= x) /\ mem'[x] = mem[x]
      BY <1>7, <1>8, <2>2
    <3>2. mem[x] \in Object /\ Sound(mem[x]) /\ LeadsOn(x, n)
      BY <1>1, <3>1 DEF Start, Inv, Tidy, SkipFindsNext
    <3>3. n \in Nat \ {0}
      BY <3>2, SkipIsSound
    <3> HIDE DEF n
    <3>4. n > 0 /\ x + n <= fill /\ (x + n < fill => mem[x + n] # Inside)
          /\ \A y \in Address : x < y /\ y < x + n => mem[y] = Inside
      BY <3>2 DEF LeadsOn
    <3>5. x < a => x + n <= a
      BY <1>2, <3>3, <3>4 DEF Start, Address
    <3>6. x + n < fill' => mem'[x + n] # Inside
      <4> SUFFICES ASSUME x + n < fill PROVE mem'[x + n] # Inside
        BY <1>1
      <4>1. x + n \in Address /\ mem[x + n] # Inside
        BY <1>1, <3>3, <3>4 DEF Address
      <4>2. x + n = a \/ x + n < a \/ b <= x + n
        BY <1>1, <1>2, <3>1, <3>3, <3>5 DEF Address
      <4> QED BY <1>1, <1>5, <1>7, <4>1, <4>2
    <3>7. \A y \in Address : x < y /\ y < x + n => mem'[y] = Inside
      BY <1>1, <1>2, <1>7, <3>1, <3>3, <3>4, <3>5 DEF Address
    <3>8. LeadsOn(x, n)'
      BY <1>1, <3>1, <3>4, <3>6, <3>7 DEF LeadsOn, n
    <3> QED BY <3>1, <3>8 DEF n, LeadsOn
  <2> QED BY <2>1, <2>2
<1>12. CopiesAreFound'
  <2> SUFFICES ASSUME NEW x \in Address, Start(x)' PROVE IsFwd(mem'[x]) = moved'[x]
    BY DEF CopiesAreFound, IsFwd
  <2>1. CASE x = a
    BY <1>5, <1>7, <2>1
  <2>2. CASE x # a
    BY <1>7, <1>8, <2>2 DEF Inv, CopiesAreFound
  <2> QED BY <2>1, <2>2
<1> QED BY <1>9, <1>10, <1>11, <1>12 DEF Inv

\* Every step preserves the invariant.
LEMMA StepInv == Inv /\ [Next]_vars => Inv'
<1> SUFFICES ASSUME Inv, [Next]_vars PROVE Inv'
  OBVIOUS
<1>1. CASE \E type \in Ordinary, len \in Lengths : MakeObject(type, len)
  BY <1>1, MakeObjectInv
<1>2. CASE \E a \in Address, new \in Copies : Forward(a, new)
  BY <1>2, ForwardInv
<1>3. CASE \E a \in Address, b \in 1..Limit : PadReclaimed(a, b)
  BY <1>3, PadReclaimedInv
<1>4. CASE \E words \in 1..Limit : PadRest(words)
  BY <1>4, PadRestInv
<1>5. CASE UNCHANGED vars
  <2>1. UNCHANGED <<mem, fill, moved>>
    BY <1>5 DEF vars
  <2>2. QED BY <2>1 DEF Inv, TypeOK, Tidy, SkipFindsNext, CopiesAreFound, Start, LeadsOn,
                       Sound, Skip, StructSize, IsFwd
<1> QED BY <1>1, <1>2, <1>3, <1>4, <1>5 DEF Next, Stopped

\* The invariant holds in every reachable state.
LEMMA SpecInv == Spec => []Inv
BY InitInv, StepInv, PTL DEF Spec

-----------------------------------------------------------------------------
(* The theorems.                                                             *)

\* The segment stays within its bounds, whatever the structures' sizes are.
THEOREM TypeCorrect == Spec => []TypeOK
<1>1. Inv => TypeOK
  BY DEF Inv
<1> QED BY <1>1, SpecInv, PTL

\* skip() finds the next object after any sequence of makes, copies and paddings
\* (managed_object_obj.c:113-140).
THEOREM SkipWalksSegment == Spec => []SkipFindsNext
<1>1. Inv => SkipFindsNext
  BY DEF Inv
<1> QED BY <1>1, SpecInv, PTL

\* scan() walks over the same objects (managed_object_obj.c:66-101).
THEOREM ScanWalksSegment == Spec => []ScanFindsNext
<1>1. Inv => ScanFindsNext
  <2> SUFFICES ASSUME Inv, NEW a \in Address, Start(a) PROVE LeadsOn(a, ScanSize(mem[a]))
    BY DEF ScanFindsNext
  <2>1. mem[a] \in Object
    BY DEF Inv, TypeOK, Start
  <2>2. ScanSize(mem[a]) = Skip(mem[a])
    BY <2>1, ScanSizeIsSkip
  <2>3. QED BY <2>2 DEF Inv, SkipFindsNext
<1> QED BY <1>1, SpecInv, PTL

\* A forwarding or padding object never writes past the object it replaces
\* (managed_object_obj.c:185-223).
THEOREM ReplacementsFit == Spec => []FitsInPlace
<1>1. Inv => FitsInPlace
  <2> SUFFICES ASSUME Inv, NEW a \in Address, Start(a)
               PROVE  /\ Extent(mem[a]) <= Skip(mem[a])
                      /\ mem[a].type \in Ordinary => Extent(Fwd(mem[a], Null)) <= Skip(mem[a])
    BY DEF FitsInPlace
  <2>1. mem[a] \in Object /\ Sound(mem[a])
    BY DEF Inv, TypeOK, Tidy, Start
  <2>2. QED BY <2>1, SkipIsSound, FwdIsSound
<1> QED BY <1>1, SpecInv, PTL

\* isfwd() recognises the copied objects and no others
\* (managed_object_obj.c:150-160).
THEOREM ForwardingIsFound == Spec => []CopiesAreFound
<1>1. Inv => CopiesAreFound
  BY DEF Inv
<1> QED BY <1>1, SpecInv, PTL
=============================================================================
