----------------------------- MODULE FramesProofs -----------------------------
(***************************************************************************)
(* What compiled functions pass to each other arrives, for every set of     *)
(* signatures, any number of frames, closures and arrays, and arrays of any *)
(* length: the layout of buffers, environments and blocks never makes two   *)
(* values share a byte, and every load finds what the store at its offset   *)
(* left there.                                                              *)
(***************************************************************************)
EXTENDS Frames, SequenceTheorems, TLAPS

\* The values of registers, main's own and pointers to what was made since,
\* and their types.
Value == Beginnings \cup [type : {"closure", "array"}, name : Nat]
Types == {v.type : v \in Value}
Content == Value \cup {Torn, Null} \cup [type : {"code"}, name : DOMAIN Signatures] \cup [type : {"usize"}, name : Nat]
Byte == [of : Content, nth : Int]
Memory == UNION {[0..n - 1 -> Byte] : n \in Nat}

RegisterType == [type : Types, is : Value, meant : Value]
Frame == [function : DOMAIN Signatures \cup {"main"}, registers : SUBSET RegisterType,
          tail : BOOLEAN, leaving : BOOLEAN]
Closures == [function : DOMAIN Signatures, parts : Seq(Value), bytes : Memory]
Arrays == [of : Types, parts : Seq(Value), bytes : Memory]

FramesTypeOK ==
    /\ frames \in Seq(Frame) /\ frames # <<>>
    /\ objects \in Seq(Closures \cup Arrays)

\* The bytes of v are at this offset, one behind the other.
Holds(b, v, at) ==
    /\ at + SizeOf(v.type) - 1 \in DOMAIN b
    /\ \A n \in 0..SizeOf(v.type) - 1 : b[at + n] = [of |-> v, nth |-> n]

\* A block holds what its maker, and whoever stored in it since, meant it to.
ClosureHolds(o) ==
    /\ DOMAIN o.parts = DOMAIN Signatures[o.function].captures
    /\ Holds(o.bytes, Typed("code", o.function), 0)
    /\ \A i \in DOMAIN o.parts : /\ o.parts[i].type = Signatures[o.function].captures[i]
                                 /\ Holds(o.bytes, o.parts[i], CaptureAt(i))
ArrayHolds(o) ==
    /\ DOMAIN o.bytes = 0..7 + Len(o.parts) * SizeOf(o.of)
    /\ Holds(o.bytes, Typed("usize", Len(o.parts)), 0)
    /\ \A i \in DOMAIN o.parts : /\ o.parts[i].type = o.of
                                 /\ Holds(o.bytes, o.parts[i], ElementAt(o.of, i))

\* A pointer points to a block of its kind.
Live(v) ==
    /\ v.type = "closure" => v.name \in DOMAIN objects /\ objects[v.name] \in Closures
    /\ v.type = "array" => v.name \in DOMAIN objects /\ objects[v.name] \in Arrays

ObjectsHold ==
    \A n \in DOMAIN objects :
        /\ objects[n] \in Closures => ClosureHolds(objects[n])
        /\ objects[n] \in Arrays => ArrayHolds(objects[n])
        /\ \A i \in DOMAIN objects[n].parts : Live(objects[n].parts[i])

RegisterOK(r) == r \in RegisterType /\ r.is = r.meant /\ r.is.type = r.type /\ Live(r.is)
RegistersOK == \A k \in DOMAIN frames : \A r \in frames[k].registers : RegisterOK(r)

FramesInv == FramesTypeOK /\ ObjectsHold /\ RegistersOK

-----------------------------------------------------------------------------
(* Bytes. *)

\* The sizes of values.
LEMMA Sizes ==
    /\ \A t : SizeOf(t) \in {1, 4, 8}
    /\ \A t \in {"closure", "array", "i64", "code", "usize"} : SizeOf(t) = 8
BY DEF SizeOf

\* The bytes of a value just stored.
LEMMA StoredHolds ==
    ASSUME NEW len \in Nat, NEW b, DOMAIN b = 0..len - 1,
           NEW v, NEW at \in Nat, at + SizeOf(v.type) <= len
    PROVE  Holds(Stored(b, v, at), v, at)
<1> DEFINE size == SizeOf(v.type)
<1>1. size \in {1, 4, 8}
  BY Sizes
<1> HIDE DEF size
<1>2. \A n \in 0..size - 1 : at + n \in 0..len - 1 /\ at + n \in at..at + size - 1 /\ (at + n) - at = n
  BY <1>1 DEF size
<1>3. \A k \in 0..len - 1 :
         Stored(b, v, at)[k] = IF k \in at..at + size - 1 THEN [of |-> v, nth |-> k - at] ELSE b[k]
  BY DEF Stored, size
<1>4. \A n \in 0..size - 1 : Stored(b, v, at)[at + n] = [of |-> v, nth |-> n]
  BY <1>2, <1>3
<1>5. at + size - 1 \in DOMAIN Stored(b, v, at)
  BY <1>1, <1>2 DEF Stored
<1> QED
  BY <1>4, <1>5 DEF Holds, size

\* A store leaves alone what does not overlap with it.
LEMMA StoredKeeps ==
    ASSUME NEW len \in Nat, NEW b, DOMAIN b = 0..len - 1,
           NEW v, NEW at \in Nat, NEW w, NEW p \in Nat, Holds(b, w, p),
           p + SizeOf(w.type) <= at \/ at + SizeOf(v.type) <= p
    PROVE  Holds(Stored(b, v, at), w, p)
<1> DEFINE size == SizeOf(v.type)
           other == SizeOf(w.type)
<1>1. size \in {1, 4, 8} /\ other \in {1, 4, 8}
  BY Sizes
<1>2. p + other - 1 \in 0..len - 1 /\ (p + other <= at \/ at + size <= p)
  BY DEF Holds
<1>3. \A n \in 0..other - 1 : b[p + n] = [of |-> w, nth |-> n]
  BY DEF Holds
<1> HIDE DEF size, other
<1>4. \A n \in 0..other - 1 : p + n \in 0..len - 1 /\ p + n \notin at..at + size - 1
  BY <1>1, <1>2
<1>5. \A k \in 0..len - 1 : k \notin at..at + size - 1 => Stored(b, v, at)[k] = b[k]
  BY DEF Stored, size
<1>6. \A n \in 0..other - 1 : Stored(b, v, at)[p + n] = [of |-> w, nth |-> n]
  BY <1>3, <1>4, <1>5
<1> QED
  BY <1>2, <1>6 DEF Holds, other, Stored

\* A load of a value's size finds the value.
LEMMA HoldsLoaded ==
    ASSUME NEW b, NEW v, NEW at \in Nat, Holds(b, v, at), NEW t, SizeOf(t) = SizeOf(v.type)
    PROVE  Loaded(b, t, at) = v
<1> DEFINE size == SizeOf(v.type)
<1>1. size \in {1, 4, 8}
  BY Sizes
<1>2. at + size - 1 \in DOMAIN b /\ \A n \in 0..size - 1 : b[at + n] = [of |-> v, nth |-> n]
  BY DEF Holds
<1>3. b[at] = [of |-> v, nth |-> 0]
  <2>1. 0 \in 0..size - 1 /\ at + 0 = at
    BY <1>1
  <2> QED
    BY <1>2, <2>1
<1>4. b[at].of = v
  BY <1>3
<1>5. Whole(b, size, at)
  BY <1>2, <1>4 DEF Whole
<1> QED
  BY <1>4, <1>5 DEF Loaded

\* Slots of eight bytes do not overlap.
LEMMA InSlotsHolds ==
    ASSUME NEW len \in Nat, NEW b, DOMAIN b = 0..len - 1,
           NEW n \in Nat, NEW vs, NEW at \in Nat, at + 8 * n <= len,
           NEW kept \in SUBSET (1..n), NEW i \in kept
    PROVE  Holds(InSlots(b, vs, at, kept), vs[i], at + 8 * (i - 1))
<1> DEFINE size == SizeOf(vs[i].type)
           c == InSlots(b, vs, at, kept)
           p == at + 8 * (i - 1)
<1>1. size \in {1, 4, 8}
  BY Sizes
<1>2. i \in 1..n
  OBVIOUS
<1> HIDE DEF size
<1>3. \A m \in 0..size - 1 : /\ p + m \in 0..len - 1
                             /\ ((p + m) - at) \div 8 + 1 = i
                             /\ ((p + m) - at) % 8 = m
                             /\ m < size
  BY <1>1, <1>2
<1>4. \A k \in 0..len - 1 :
         (k - at) \div 8 + 1 = i /\ (k - at) % 8 < size => c[k] = [of |-> vs[i], nth |-> (k - at) % 8]
  BY DEF InSlots, size
<1>5. \A m \in 0..size - 1 : c[p + m] = [of |-> vs[i], nth |-> m]
  BY <1>3, <1>4
<1>6. DOMAIN c = 0..len - 1
  BY DEF InSlots
<1>7. p + size - 1 \in DOMAIN c
  BY <1>1, <1>2, <1>6
<1> QED
  BY <1>5, <1>7 DEF Holds, size

\* Nor do they reach in front of the first one.
LEMMA InSlotsKeeps ==
    ASSUME NEW len \in Nat, NEW b, DOMAIN b = 0..len - 1,
           NEW n \in Nat, NEW vs, NEW at \in Nat, NEW kept \in SUBSET (1..n),
           NEW w, NEW p \in Nat, Holds(b, w, p), p + SizeOf(w.type) <= at
    PROVE  Holds(InSlots(b, vs, at, kept), w, p)
<1> DEFINE other == SizeOf(w.type)
           c == InSlots(b, vs, at, kept)
<1>1. other \in {1, 4, 8}
  BY Sizes
<1>2. p + other - 1 \in 0..len - 1 /\ p + other <= at
  BY DEF Holds
<1>3. \A m \in 0..other - 1 : b[p + m] = [of |-> w, nth |-> m]
  BY DEF Holds
<1> HIDE DEF other
<1>4. \A m \in 0..other - 1 : p + m \in 0..len - 1 /\ ((p + m) - at) \div 8 + 1 < 1
  BY <1>1, <1>2
<1>5. \A k \in 0..len - 1 : (k - at) \div 8 + 1 < 1 => c[k] = b[k]
  BY DEF InSlots
<1>6. \A m \in 0..other - 1 : c[p + m] = [of |-> w, nth |-> m]
  BY <1>3, <1>4, <1>5
<1> QED
  BY <1>2, <1>6 DEF Holds, other, InSlots

\* Elements of one size are packed behind the length.
LEMMA ElementRange ==
    ASSUME NEW t, NEW i \in Nat \ {0}, NEW n \in Nat
    PROVE  /\ ElementAt(t, i) \in Nat /\ ElementAt(t, i) >= 8
           /\ n * SizeOf(t) \in Nat
           /\ i <= n => ElementAt(t, i) + SizeOf(t) <= 8 + n * SizeOf(t)
           /\ ElementAt(t, n + i) = ElementAt(t, i) + n * SizeOf(t)
           /\ \A j \in Nat \ {0} : i < j => ElementAt(t, i) + SizeOf(t) <= ElementAt(t, j)
<1> DEFINE size == SizeOf(t)
<1>1. size \in {1, 4, 8} /\ \A j \in Nat \ {0} : ElementAt(t, j) = 8 + size * (j - 1)
  BY Sizes DEF ElementAt
<1> HIDE DEF size
<1>a. n + i \in Nat \ {0}
  OBVIOUS
<1>2. CASE size = 1
  BY <1>1, <1>2, <1>a DEF size
<1>3. CASE size = 4
  BY <1>1, <1>3, <1>a DEF size
<1>4. CASE size = 8
  BY <1>1, <1>4, <1>a DEF size
<1> QED
  BY <1>1, <1>2, <1>3, <1>4

\* An array filled with a value holds it at every index, and its header as before.
LEMMA FilledHolds ==
    ASSUME NEW n \in Nat, NEW v, NEW b, DOMAIN b = 0..7 + n * SizeOf(v.type)
    PROVE  /\ DOMAIN Filled(b, v, n) = DOMAIN b
           /\ \A i \in 1..n : Holds(Filled(b, v, n), v, ElementAt(v.type, i))
           /\ \A w : Holds(b, w, 0) /\ SizeOf(w.type) = 8 => Holds(Filled(b, v, n), w, 0)
<1> DEFINE size == SizeOf(v.type)
           c == Filled(b, v, n)
<1>1. size \in {1, 4, 8} /\ size = SizeOf(v.type)
  BY Sizes
<1> HIDE DEF size
<1>2. /\ DOMAIN c = 0..7 + n * size
      /\ \A k \in 0..7 + n * size :
            c[k] = IF k \in 8..7 + n * size THEN [of |-> v, nth |-> (k - 8) % size] ELSE b[k]
  BY <1>1 DEF Filled
<1> HIDE DEF c
<1>3. ASSUME NEW i \in 1..n PROVE Holds(c, v, ElementAt(v.type, i))
  <2>1. ElementAt(v.type, i) = 8 + size * (i - 1)
    BY <1>1 DEF ElementAt
  <2>2. \A m \in 0..size - 1 : /\ 8 + size * (i - 1) + m \in 8..7 + n * size
                               /\ ((8 + size * (i - 1) + m) - 8) % size = m
    <3>1. CASE size = 1
      BY <3>1
    <3>2. CASE size = 4
      BY <3>2
    <3>3. CASE size = 8
      BY <3>3
    <3> QED
      BY <1>1, <3>1, <3>2, <3>3
  <2>3. n * size \in Nat /\ size - 1 \in 0..size - 1
    BY <1>1
  <2>4. \A m \in 0..size - 1 : c[8 + size * (i - 1) + m] = [of |-> v, nth |-> m]
    BY <1>2, <2>2, <2>3
  <2>5. 8 + size * (i - 1) + (size - 1) \in DOMAIN c
    BY <1>2, <2>2, <2>3
  <2>6. 8 + size * (i - 1) + size - 1 \in DOMAIN c
    BY <1>1, <2>5
  <2> QED
    BY <1>1, <2>1, <2>4, <2>6 DEF Holds
<1>4. ASSUME NEW w, Holds(b, w, 0), SizeOf(w.type) = 8 PROVE Holds(c, w, 0)
  <2>1. \A m \in 0..7 : 0 + m \in 0..7 + n * size /\ 0 + m \notin 8..7 + n * size
    <3>1. n * size \in Nat
      BY <1>1
    <3> QED
      BY <3>1
  <2> QED
    BY <1>1, <1>2, <1>4, <2>1 DEF Holds
<1>5. DOMAIN c = DOMAIN b
  BY <1>1, <1>2
<1> QED
  BY <1>3, <1>4, <1>5 DEF c

\* The bytes of two arrays in a row.
LEMMA Together ==
    ASSUME NEW n \in Nat, NEW m \in Nat, NEW size \in {1, 4, 8}
    PROVE  n * size \in Nat /\ m * size \in Nat /\ n * size + m * size = (n + m) * size
<1>1. CASE size = 1
  BY <1>1
<1>2. CASE size = 4
  BY <1>2
<1>3. CASE size = 8
  BY <1>3
<1> QED
  BY <1>1, <1>2, <1>3

\* The same of elements of one type.
LEMMA LengthsOf ==
    ASSUME NEW t, NEW n \in Nat, NEW m \in Nat
    PROVE  \E l, r \in Nat : l = n * SizeOf(t) /\ r = m * SizeOf(t) /\ l + r = (n + m) * SizeOf(t)
<1>1. PICK size \in {1, 4, 8} : size = SizeOf(t)
  BY Sizes
<1> QED
  BY <1>1, Together

\* An index of a concatenation is one of the left array or one of the right.
LEMMA Halves ==
    ASSUME NEW n \in Nat, NEW m \in Nat, NEW k \in 1..n + m
    PROVE  k \in 1..n \/ \E i \in 1..m : k = n + i
<1>1. CASE k <= n
  BY <1>1
<1>2. CASE k > n
  <2>1. k - n \in 1..m /\ k = n + (k - n)
    BY <1>2
  <2> QED
    BY <2>1
<1> QED
  BY <1>1, <1>2

\* A number of elements.
LEMMA Count ==
    ASSUME NEW n \in Nat
    PROVE  /\ Typed("usize", n) \in Content /\ Typed("usize", n).type = "usize"
           /\ SizeOf(Typed("usize", n).type) = 8
  BY Sizes DEF Content, Typed

\* Copied behind l bytes, a value is l bytes further on.
LEMMA BehindShifts ==
    ASSUME NEW l \in Nat, NEW r \in Nat, NEW left, NEW right, NEW w, NEW p \in Nat,
           p >= 8, p + SizeOf(w.type) <= 8 + r, Holds(right, w, p)
    PROVE  Holds(Behind(left, right, l, r), w, p + l)
<1> DEFINE size == SizeOf(w.type)
           c == Behind(left, right, l, r)
<1>1. size \in {1, 4, 8} /\ p + size <= 8 + r
  BY Sizes
<1>2. \A k \in 0..size - 1 : right[p + k] = [of |-> w, nth |-> k]
  BY DEF Holds
<1>3. /\ DOMAIN c = 0..7 + l + r
      /\ \A k \in 0..7 + l + r : c[k] = IF k < 8 + l THEN left[k] ELSE right[k - l]
  BY DEF Behind
<1>s. size = SizeOf(w.type)
  OBVIOUS
<1> HIDE DEF size, c
<1>4. ASSUME NEW k \in 0..size - 1 PROVE c[p + l + k] = [of |-> w, nth |-> k]
  <2>1. p + l + k \in 0..7 + l + r /\ ~ (p + l + k < 8 + l) /\ (p + l + k) - l = p + k
    BY <1>1
  <2>2. c[p + l + k] = right[(p + l + k) - l]
    BY <1>3, <2>1
  <2> QED
    BY <1>2, <2>1, <2>2
<1>5. p + l + size - 1 \in DOMAIN c
  BY <1>1, <1>3
<1> QED
  BY <1>4, <1>5, <1>s DEF Holds, c

\* The bytes of one array behind those of another.
LEMMA BehindHolds ==
    ASSUME NEW t, NEW n \in Nat, NEW m \in Nat, NEW left, NEW right,
           DOMAIN left = 0..7 + n * SizeOf(t), DOMAIN right = 0..7 + m * SizeOf(t),
           NEW w, SizeOf(w.type) = SizeOf(t)
    PROVE  LET c == Behind(left, right, n * SizeOf(t), m * SizeOf(t))
           IN  /\ DOMAIN c = 0..7 + (n + m) * SizeOf(t)
               /\ \A i \in 1..n : Holds(left, w, ElementAt(t, i)) => Holds(c, w, ElementAt(t, i))
               /\ \A i \in 1..m : Holds(right, w, ElementAt(t, i)) => Holds(c, w, ElementAt(t, n + i))
<1> DEFINE size == SizeOf(t)
           l == n * size
           r == m * size
           c == Behind(left, right, l, r)
<1>1. size \in {1, 4, 8}
  BY Sizes
<1> HIDE DEF size
<1>2. l \in Nat /\ r \in Nat /\ l + r = (n + m) * size
  BY <1>1, Together
<1>a. l \in Nat /\ r \in Nat
  BY <1>2
<1>3. ASSUME NEW i \in 1..n
      PROVE  ElementAt(t, i) \in Nat /\ ElementAt(t, i) >= 8 /\ ElementAt(t, i) + size <= 8 + l
  <2>1. i \in Nat \ {0} /\ i <= n
    OBVIOUS
  <2> QED
    BY <2>1, ElementRange DEF size
<1>b. ASSUME NEW i \in 1..m
      PROVE  /\ ElementAt(t, i) \in Nat /\ ElementAt(t, i) >= 8 /\ ElementAt(t, i) + size <= 8 + r
             /\ ElementAt(t, n + i) = ElementAt(t, i) + l
  <2>1. i \in Nat \ {0} /\ i <= m
    OBVIOUS
  <2>2. ElementAt(t, i) \in Nat /\ ElementAt(t, i) >= 8 /\ ElementAt(t, i) + size <= 8 + r
    BY <2>1, ElementRange DEF size
  <2>3. ElementAt(t, n + i) = ElementAt(t, i) + l
    BY <2>1, ElementRange DEF size
  <2> QED
    BY <2>2, <2>3
<1> HIDE DEF l, r
<1>4. /\ DOMAIN c = 0..7 + l + r
      /\ \A k \in 0..7 + l + r : c[k] = IF k < 8 + l THEN left[k] ELSE right[k - l]
  BY DEF Behind
<1> HIDE DEF c
<1>5. DOMAIN c = 0..7 + (n + m) * size
  BY <1>1, <1>2, <1>4
<1>6. ASSUME NEW i \in 1..n, Holds(left, w, ElementAt(t, i)) PROVE Holds(c, w, ElementAt(t, i))
  <2>1. PICK p \in Nat : p = ElementAt(t, i) /\ p + size <= 8 + l
    BY <1>3
  <2>2. \A k \in 0..size - 1 : left[p + k] = [of |-> w, nth |-> k]
    BY <1>6, <2>1 DEF Holds, size
  <2>3. \A k \in 0..size - 1 : p + k \in 0..7 + l + r /\ p + k < 8 + l
    BY <1>1, <1>2, <2>1
  <2>4. \A k \in 0..size - 1 : c[p + k] = [of |-> w, nth |-> k]
    BY <1>4, <2>2, <2>3
  <2>5. p + size - 1 \in 0..7 + l + r
    BY <1>1, <1>2, <2>1
  <2> QED
    BY <1>4, <2>1, <2>4, <2>5 DEF Holds, size
<1>7. ASSUME NEW i \in 1..m, Holds(right, w, ElementAt(t, i)) PROVE Holds(c, w, ElementAt(t, n + i))
  BY <1>7, <1>a, <1>b, BehindShifts DEF c, size
<1> QED
  BY <1>5, <1>6, <1>7 DEF c, l, r, size

-----------------------------------------------------------------------------
(* Types of memory and values. *)

LEMMA UnitValue == \A v \in Value : v.type \in Types /\ (v.type = "unit" => v = UnitWord)
<1>1. \A v \in Beginnings : v.type = "unit" => v = UnitWord
  BY BeginningsAssumption DEF UnitWord, Typed
<1>2. \A v \in [type : {"closure", "array"}, name : Nat] : v.type # "unit"
  OBVIOUS
<1> QED
  BY <1>1, <1>2 DEF Value, Types

LEMMA SignatureTypes ==
    \A f \in DOMAIN Signatures : /\ Signatures[f].captures \in Seq(STRING)
                                 /\ Signatures[f].params \in Seq(STRING)
                                 /\ Signatures[f].ret \in STRING
BY FramesAssumption

LEMMA MemoryTypes ==
    /\ \A n \in Nat : Blank(n) \in Memory /\ DOMAIN Blank(n) = 0..n - 1
    /\ \A b \in Memory, v \in Content, at \in Int : Stored(b, v, at) \in Memory
    /\ \A b, v, at : DOMAIN Stored(b, v, at) = DOMAIN b
<1>1. ASSUME NEW n \in Nat PROVE Blank(n) \in Memory /\ DOMAIN Blank(n) = 0..n - 1
  <2>1. \A k \in 0..n - 1 : [of |-> Torn, nth |-> k] \in Byte
    BY DEF Byte, Content
  <2> QED
    BY <2>1 DEF Blank, Memory
<1>2. ASSUME NEW b \in Memory, NEW v \in Content, NEW at \in Int PROVE Stored(b, v, at) \in Memory
  <2>1. PICK n \in Nat : b \in [0..n - 1 -> Byte]
    BY DEF Memory
  <2>2. \A k \in 0..n - 1 : [of |-> v, nth |-> k - at] \in Byte
    BY DEF Byte
  <2>3. Stored(b, v, at) \in [0..n - 1 -> Byte]
    BY <2>1, <2>2 DEF Stored
  <2> QED
    BY <2>3 DEF Memory
<1>3. \A b, v, at : DOMAIN Stored(b, v, at) = DOMAIN b
  BY DEF Stored
<1> QED
  BY <1>1, <1>2, <1>3

LEMMA InSlotsType ==
    ASSUME NEW b \in Memory, NEW vs, NEW at \in Int, NEW kept \in SUBSET Int,
           \A i \in kept : vs[i] \in Content
    PROVE  InSlots(b, vs, at, kept) \in Memory
<1>1. PICK n \in Nat : b \in [0..n - 1 -> Byte]
  BY DEF Memory
<1>2. \A i \in kept : \A m \in Int : [of |-> vs[i], nth |-> m] \in Byte
  BY DEF Byte
<1>3. \A k \in 0..n - 1 : (k - at) % 8 \in Int
  OBVIOUS
<1>4. InSlots(b, vs, at, kept) \in [0..n - 1 -> Byte]
  BY <1>1, <1>2, <1>3 DEF InSlots
<1> QED
  BY <1>4 DEF Memory

LEMMA FilledType ==
    ASSUME NEW b \in Memory, NEW v \in Content, NEW n \in Nat
    PROVE  Filled(b, v, n) \in Memory
<1>1. PICK l \in Nat : b \in [0..l - 1 -> Byte]
  BY DEF Memory
<1>2. PICK size \in {1, 4, 8} : size = SizeOf(v.type)
  BY Sizes
<1>3. \A k \in 0..l - 1 : (k - 8) % size \in Int
  BY <1>2
<1>4. \A m \in Int : [of |-> v, nth |-> m] \in Byte
  BY DEF Byte
<1>5. Filled(b, v, n) = [k \in 0..l - 1 |-> IF k \in 8..7 + n * size THEN [of |-> v, nth |-> (k - 8) % size] ELSE b[k]]
  BY <1>1, <1>2 DEF Filled
<1>6. Filled(b, v, n) \in [0..l - 1 -> Byte]
  BY <1>1, <1>3, <1>4, <1>5
<1> QED
  BY <1>6 DEF Memory

LEMMA BehindType ==
    ASSUME NEW l \in Nat, NEW r \in Nat, NEW left \in Memory, NEW right \in Memory,
           DOMAIN left = 0..7 + l, DOMAIN right = 0..7 + r
    PROVE  Behind(left, right, l, r) \in Memory
<1>1. (\A k \in 0..7 + l : left[k] \in Byte) /\ (\A k \in 0..7 + r : right[k] \in Byte)
  BY DEF Memory
<1>2. \A k \in 0..7 + l + r : IF k < 8 + l THEN k \in 0..7 + l ELSE k - l \in 0..7 + r
  OBVIOUS
<1>3. Behind(left, right, l, r) \in [0..7 + l + r -> Byte]
  BY <1>1, <1>2 DEF Behind
<1>4. 8 + l + r \in Nat /\ 0..7 + l + r = 0..(8 + l + r) - 1
  OBVIOUS
<1> QED
  BY <1>3, <1>4 DEF Memory

-----------------------------------------------------------------------------
(* Frames and objects. *)

\* The frame that runs, and its registers.
LEMMA TopOK ==
    ASSUME FramesInv
    PROVE  /\ Len(frames) \in Nat \ {0} /\ Len(frames) \in DOMAIN frames /\ Top \in Frame
           /\ \A r \in Top.registers : RegisterOK(r) /\ r.is \in Value /\ r.is.type \in Types
<1>1. Len(frames) \in Nat \ {0} /\ Len(frames) \in DOMAIN frames /\ Top \in Frame
  BY DEF FramesInv, FramesTypeOK, Top
<1>2. \A r \in Top.registers : RegisterOK(r)
  BY <1>1 DEF FramesInv, RegistersOK, Top
<1> QED
  BY <1>1, <1>2, UnitValue DEF RegisterOK, RegisterType

LEMMA KindsApart == \A o : ~ (o \in Closures /\ o \in Arrays)
<1>1. \A o \in Closures : "of" \notin DOMAIN o
  BY DEF Closures
<1>2. \A o \in Arrays : "of" \in DOMAIN o
  BY DEF Arrays
<1> QED
  BY <1>1, <1>2

\* A step that puts one more register into the innermost frame.
LEMMA PutInv ==
    ASSUME FramesInv, \A v : Live(v) => Live(v)', NEW r, RegisterOK(r)', Put(r)
    PROVE  frames' \in Seq(Frame) /\ frames' # <<>> /\ RegistersOK'
<1> DEFINE n == Len(frames)
<1>1. n \in DOMAIN frames /\ Top \in Frame /\ frames \in Seq(Frame) /\ Top = frames[n]
  BY TopOK DEF FramesInv, FramesTypeOK, Top
<1>2. r \in RegisterType
  BY DEF RegisterOK, RegisterType
<1>3. frames' = [frames EXCEPT ![n] = [Top EXCEPT !.registers = @ \cup {r}]]
  BY <1>1 DEF Put
<1>4. [Top EXCEPT !.registers = @ \cup {r}] \in Frame
  BY <1>1, <1>2 DEF Frame
<1>5. frames' \in Seq(Frame) /\ DOMAIN frames' = DOMAIN frames
  BY <1>1, <1>3, <1>4
<1>6. \A k \in DOMAIN frames : frames'[k].registers \subseteq frames[k].registers \cup {r}
  BY <1>1, <1>3 DEF Frame
<1>7. \A q : RegisterOK(q) => RegisterOK(q)'
  BY DEF RegisterOK
<1> QED
  BY <1>1, <1>5, <1>6, <1>7 DEF FramesInv, FramesTypeOK, RegistersOK

\* One more object, sound by itself, leaves the others sound.
LEMMA NewObjectInv ==
    ASSUME FramesInv, NEW o \in Closures \cup Arrays, objects' = Append(objects, o),
           o \in Closures => ClosureHolds(o), o \in Arrays => ArrayHolds(o),
           \A i \in DOMAIN o.parts : Live(o.parts[i])
    PROVE  /\ objects' \in Seq(Closures \cup Arrays) /\ ObjectsHold'
           /\ Len(objects) + 1 \in DOMAIN objects' /\ objects'[Len(objects) + 1] = o
           /\ \A v : Live(v) => Live(v)'
<1>1. objects \in Seq(Closures \cup Arrays)
  BY DEF FramesInv, FramesTypeOK
<1>2. /\ objects' \in Seq(Closures \cup Arrays)
      /\ Len(objects) + 1 \in DOMAIN objects' /\ objects'[Len(objects) + 1] = o
      /\ \A n \in DOMAIN objects : n \in DOMAIN objects' /\ objects'[n] = objects[n]
      /\ \A n \in DOMAIN objects' : n \in DOMAIN objects \/ objects'[n] = o
  BY <1>1
<1>3. \A v : Live(v) => Live(v)'
  BY <1>2 DEF Live
<1>4. ObjectsHold'
  <2> SUFFICES ASSUME NEW n \in DOMAIN objects', NEW x, x = objects'[n]
               PROVE  /\ x \in Closures => ClosureHolds(x)
                      /\ x \in Arrays => ArrayHolds(x)
                      /\ \A i \in DOMAIN x.parts : Live(x.parts[i])'
    BY DEF ObjectsHold, Live
  <2>1. CASE n \in DOMAIN objects
    <3>1. x = objects[n]
      BY <1>2, <2>1
    <3>2. /\ x \in Closures => ClosureHolds(x)
          /\ x \in Arrays => ArrayHolds(x)
          /\ \A i \in DOMAIN x.parts : Live(x.parts[i])
      BY <2>1, <3>1 DEF FramesInv, ObjectsHold
    <3> QED
      BY <1>3, <3>2
  <2>2. CASE objects'[n] = o
    <3>1. x = o
      BY <2>2
    <3> QED
      BY <1>3, <3>1
  <2> QED
    BY <1>2, <2>1, <2>2
<1> QED
  BY <1>2, <1>3, <1>4

-----------------------------------------------------------------------------
(* Closures. *)

\* Registers chosen for a row of types, and what they hold.
LEMMA ChosenOK ==
    ASSUME FramesInv, NEW types \in Seq(STRING), NEW rs \in RegistersOf(types)
    PROVE  /\ Len(types) \in Nat /\ DOMAIN types = 1..Len(types)
           /\ DOMAIN rs = 1..Len(types) /\ Len(rs) = Len(types)
           /\ Actual(rs) = MeantOf(rs) /\ MeantOf(rs) \in Seq(Value)
           /\ DOMAIN MeantOf(rs) = 1..Len(types) /\ Len(MeantOf(rs)) = Len(types)
           /\ \A i \in 1..Len(types) : /\ MeantOf(rs)[i] \in Value /\ MeantOf(rs)[i] = rs[i].meant
                                       /\ MeantOf(rs)[i].type = types[i]
                                       /\ Live(MeantOf(rs)[i])
<1>1. Len(types) \in Nat /\ DOMAIN types = 1..Len(types)
  OBVIOUS
<1>2. rs \in [1..Len(types) -> Top.registers] /\ \A i \in 1..Len(types) : rs[i].type = types[i]
  BY <1>1 DEF RegistersOf
<1>3. \A i \in 1..Len(types) : RegisterOK(rs[i])
  BY <1>2, TopOK
<1>4. \A i \in 1..Len(types) : /\ rs[i].meant \in Value /\ rs[i].is = rs[i].meant
                              /\ rs[i].meant.type = types[i] /\ Live(rs[i].meant)
  BY <1>2, <1>3 DEF RegisterOK, RegisterType
<1>5. Actual(rs) = MeantOf(rs)
  BY <1>2, <1>4 DEF Actual, MeantOf
<1>6. MeantOf(rs) \in [1..Len(types) -> Value]
  BY <1>2, <1>4 DEF MeantOf
<1>7. MeantOf(rs) \in Seq(Value) /\ Len(MeantOf(rs)) = Len(types)
  BY <1>1, <1>6
<1>8. Len(rs) = Len(types)
  BY <1>1, <1>2
<1> QED
  BY <1>1, <1>2, <1>4, <1>5, <1>6, <1>7, <1>8 DEF MeantOf

\* The block of a new closure.
LEMMA ClosureBlock ==
    ASSUME NEW code \in Content, NEW count \in Content, code.type = "code", count.type = "usize",
           NEW n \in Nat, NEW vs, DOMAIN vs = 1..n, \A i \in 1..n : vs[i] \in Content,
           NEW b, b = StoreCaptures(Stored(Stored(Blank(16 + 8 * n), code, 0), count, 8), vs, 16)
    PROVE  /\ b \in Memory
           /\ Holds(b, code, 0)
           /\ \A i \in 1..n : Holds(b, vs[i], CaptureAt(i))
<1>1. PICK len \in Nat : len = 16 + 8 * n
  OBVIOUS
<1>2. PICK b1 \in Memory : b1 = Stored(Blank(len), code, 0) /\ DOMAIN b1 = 0..len - 1
  <2>1. Blank(len) \in Memory /\ DOMAIN Blank(len) = 0..len - 1
    BY MemoryTypes
  <2> QED
    BY <2>1, MemoryTypes
<1>3. PICK b2 \in Memory : b2 = Stored(b1, count, 8) /\ DOMAIN b2 = 0..len - 1
  BY <1>2, MemoryTypes
<1>4. b = InSlots(b2, vs, 16, 1..n)
  BY <1>1, <1>2, <1>3 DEF StoreCaptures
<1>5. SizeOf(code.type) = 8 /\ SizeOf(count.type) = 8
  BY Sizes
<1>6. Holds(b1, code, 0)
  <2>1. DOMAIN Blank(len) = 0..len - 1
    BY MemoryTypes
  <2>2. 0 + SizeOf(code.type) <= len
    BY <1>1, <1>5
  <2> QED
    BY <1>2, <2>1, <2>2, StoredHolds
<1>7. Holds(b2, code, 0)
  <2>1. 0 + SizeOf(code.type) <= 8
    BY <1>5
  <2> QED
    BY <1>2, <1>3, <1>6, <2>1, StoredKeeps
<1>8. Holds(b, code, 0)
  <2>1. 0 + SizeOf(code.type) <= 16
    BY <1>5
  <2>2. 1..n \in SUBSET (1..n)
    OBVIOUS
  <2>3. Holds(InSlots(b2, vs, 16, 1..n), code, 0)
    BY <1>3, <1>7, <2>1, <2>2, InSlotsKeeps
  <2> QED
    BY <1>4, <2>3
<1>9. ASSUME NEW i \in 1..n PROVE Holds(b, vs[i], CaptureAt(i))
  <2>1. 16 + 8 * n <= len
    BY <1>1
  <2>2. Holds(InSlots(b2, vs, 16, 1..n), vs[i], 16 + 8 * (i - 1))
    BY <1>3, <2>1, InSlotsHolds
  <2> QED
    BY <1>4, <2>2 DEF CaptureAt
<1>10. b \in Memory
  <2>1. InSlots(b2, vs, 16, 1..n) \in Memory
    BY InSlotsType
  <2> QED
    BY <1>4, <2>1
<1> QED
  BY <1>8, <1>9, <1>10

\* A pointer to the object that is about to be made.
LEMMA FreshPointer ==
    ASSUME FramesInv, NEW kind \in {"closure", "array"},
           Len(objects) + 1 \in DOMAIN objects',
           kind = "closure" => objects'[Len(objects) + 1] \in Closures,
           kind = "array" => objects'[Len(objects) + 1] \in Arrays,
           NEW r, r = Register(kind, Fresh(kind), Fresh(kind))
    PROVE  RegisterOK(r)'
<1>1. Len(objects) + 1 \in Nat
  BY DEF FramesInv, FramesTypeOK
<1>2. PICK p : p = [type |-> kind, name |-> Len(objects) + 1]
  OBVIOUS
<1>3. p \in Value /\ p.type = kind /\ p.name = Len(objects) + 1
  BY <1>1, <1>2 DEF Value
<1>4. p.type \in Types
  BY <1>3 DEF Types
<1>5. Live(p)'
  BY <1>3 DEF Live
<1>6. r = [type |-> kind, is |-> p, meant |-> p]
  BY <1>2 DEF Register, Fresh, Typed
<1>7. r \in RegisterType /\ r.is = p /\ r.meant = p /\ r.type = kind
  BY <1>3, <1>4, <1>6 DEF RegisterType
<1> QED
  BY <1>3, <1>5, <1>7 DEF RegisterOK

LEMMA MakeClosureStep ==
    ASSUME FramesInv, NEW f \in DOMAIN Signatures,
           NEW cs \in RegistersOf(Signatures[f].captures), MakeClosure(f, cs)
    PROVE  FramesInv'
<1>1. PICK n \in Nat : n = Len(Signatures[f].captures)
  BY SignatureTypes
<1>2. PICK vs \in Seq(Value) : vs = MeantOf(cs)
  BY SignatureTypes, ChosenOK
<1>3. /\ DOMAIN Signatures[f].captures = 1..n /\ Len(cs) = n /\ Actual(cs) = vs /\ DOMAIN vs = 1..n
      /\ \A i \in 1..n : /\ vs[i] \in Value /\ vs[i].type = Signatures[f].captures[i]
                          /\ Live(vs[i])
  BY <1>1, <1>2, SignatureTypes, ChosenOK
<1>4. PICK code, count : code = Typed("code", f) /\ count = Typed("usize", n)
  OBVIOUS
<1>5. code \in Content /\ count \in Content /\ code.type = "code" /\ count.type = "usize"
  BY <1>4 DEF Content, Typed
<1>6. PICK b : b = StoreCaptures(Stored(Stored(Blank(16 + 8 * n), code, 0), count, 8), vs, 16)
  OBVIOUS
<1>7. b \in Memory /\ Holds(b, code, 0) /\ \A i \in 1..n : Holds(b, vs[i], CaptureAt(i))
  <2>1. \A i \in 1..n : vs[i] \in Content
    BY <1>3 DEF Content
  <2> QED
    BY <1>3, <1>5, <1>6, <2>1, ClosureBlock
<1>8. PICK o : o = [function |-> f, parts |-> vs, bytes |-> b]
  OBVIOUS
<1>9. PICK r : r = Register("closure", Fresh("closure"), Fresh("closure"))
  OBVIOUS
<1>10. objects' = Append(objects, o) /\ Put(r)
  BY <1>2, <1>3, <1>4, <1>6, <1>8, <1>9 DEF MakeClosure, NewObject
<1>11. o \in Closures /\ o.function = f /\ o.parts = vs /\ o.bytes = b
  BY <1>7, <1>8 DEF Closures
<1>12. ClosureHolds(o)
  BY <1>3, <1>4, <1>7, <1>11 DEF ClosureHolds
<1>13. o \notin Arrays /\ \A i \in DOMAIN o.parts : Live(o.parts[i])
  BY <1>3, <1>11, KindsApart
<1>14. /\ objects' \in Seq(Closures \cup Arrays) /\ ObjectsHold'
       /\ Len(objects) + 1 \in DOMAIN objects' /\ objects'[Len(objects) + 1] = o
       /\ \A v : Live(v) => Live(v)'
  BY <1>10, <1>11, <1>12, <1>13, NewObjectInv
<1>15. RegisterOK(r)'
  BY <1>9, <1>11, <1>14, FreshPointer
<1>16. frames' \in Seq(Frame) /\ frames' # <<>> /\ RegistersOK'
  BY <1>10, <1>14, <1>15, PutInv
<1> QED
  BY <1>14, <1>16 DEF FramesInv, FramesTypeOK

-----------------------------------------------------------------------------
(* Calls. *)

\* A callee finds its environment and its arguments in the buffer.
LEMMA BufferHolds ==
    ASSUME NEW env, SizeOf(env.type) = 8, NEW n \in Nat, NEW vs, DOMAIN vs = 1..n,
           \A i \in 1..n : vs[i] \in Value,
           NEW b, b = StoreArguments(Stored(Blank(8 * (n + 1)), env, 0), vs, 8)
    PROVE  /\ \A t \in {"i64", "closure"} : LoadPrimitive(b, t, 0) = env
           /\ \A i \in 1..n : LoadPrimitive(b, vs[i].type, 8 * i) = vs[i]
<1>1. PICK len \in Nat : len = 8 * (n + 1)
  OBVIOUS
<1>2. PICK b1 : b1 = Stored(Blank(len), env, 0) /\ DOMAIN b1 = 0..len - 1
  BY MemoryTypes
<1>3. PICK kept \in SUBSET (1..n) : kept = {i \in DOMAIN vs : vs[i].type # "unit"}
  OBVIOUS
<1>4. b = InSlots(b1, vs, 8, kept)
  BY <1>1, <1>2, <1>3 DEF StoreArguments, StoreEach
<1>5. Holds(b1, env, 0)
  <2>1. DOMAIN Blank(len) = 0..len - 1
    BY MemoryTypes
  <2>2. 0 + SizeOf(env.type) <= len
    BY <1>1
  <2> QED
    BY <1>2, <2>1, <2>2, StoredHolds
<1>6. Holds(b, env, 0)
  <2>1. 0 + SizeOf(env.type) <= 8
    OBVIOUS
  <2>2. Holds(InSlots(b1, vs, 8, kept), env, 0)
    BY <1>2, <1>5, <2>1, InSlotsKeeps
  <2> QED
    BY <1>4, <2>2
<1>7. ASSUME NEW t \in {"i64", "closure"} PROVE LoadPrimitive(b, t, 0) = env
  <2>1. SizeOf(t) = SizeOf(env.type) /\ t # "unit"
    BY Sizes
  <2> QED
    BY <1>6, <2>1, HoldsLoaded DEF LoadPrimitive
<1>8. ASSUME NEW i \in 1..n PROVE LoadPrimitive(b, vs[i].type, 8 * i) = vs[i]
  <2>1. CASE vs[i].type = "unit"
    BY <2>1, UnitValue DEF LoadPrimitive
  <2>2. CASE vs[i].type # "unit"
    <3>1. i \in kept /\ 8 + 8 * n <= len
      BY <1>1, <1>3, <2>2
    <3>2. Holds(InSlots(b1, vs, 8, kept), vs[i], 8 + 8 * (i - 1))
      BY <1>2, <3>1, InSlotsHolds
    <3>3. 8 + 8 * (i - 1) = 8 * i /\ 8 * i \in Nat
      OBVIOUS
    <3>4. Loaded(b, vs[i].type, 8 * i) = vs[i]
      BY <1>4, <3>2, <3>3, HoldsLoaded
    <3> QED
      BY <2>2, <3>4 DEF LoadPrimitive
  <2> QED
    BY <2>1, <2>2
<1> QED
  BY <1>7, <1>8

LEMMA BeginInv ==
    ASSUME FramesInv, NEW f \in DOMAIN Signatures, NEW env, SizeOf(env.type) = 8,
           NEW args \in RegistersOf(Signatures[f].params), NEW captures, NEW tail \in BOOLEAN,
           DOMAIN Signatures[f].captures # {} =>
               /\ env.name \in DOMAIN objects /\ objects[env.name] \in Closures
               /\ objects[env.name].function = f /\ objects[env.name].parts = captures,
           Begin(f, env, args, captures, tail), UNCHANGED objects
    PROVE  FramesInv'
<1>1. PICK n \in Nat : n = Len(Signatures[f].params)
  BY SignatureTypes
<1>2. PICK vs \in Seq(Value) : vs = MeantOf(args)
  BY SignatureTypes, ChosenOK
<1>3. /\ DOMAIN Signatures[f].params = 1..n /\ Len(args) = n /\ Actual(args) = vs /\ DOMAIN vs = 1..n
      /\ \A i \in 1..n : /\ vs[i] \in Value /\ vs[i].type = Signatures[f].params[i]
                          /\ Live(vs[i])
  BY <1>1, <1>2, SignatureTypes, ChosenOK
<1>4. PICK b : b = StoreArguments(Stored(Blank(8 * (n + 1)), env, 0), vs, 8)
  OBVIOUS
<1>5. b = ArgumentsOf(env, args)
  BY <1>3, <1>4 DEF ArgumentsOf
<1>6. /\ \A t \in {"i64", "closure"} : LoadPrimitive(b, t, 0) = env
      /\ \A i \in 1..n : LoadPrimitive(b, vs[i].type, 8 * i) = vs[i]
  BY SMTT(30), <1>3, <1>4, BufferHolds
<1>7. LoadPrimitive(b, IF captures = <<>> THEN "i64" ELSE "closure", 0) = env
  BY <1>6
<1>8. ASSUME NEW i \in DOMAIN Signatures[f].params
      PROVE  RegisterOK(Register(Signatures[f].params[i], LoadPrimitive(b, Signatures[f].params[i], 8 * i), vs[i]))
  <2>1. LoadPrimitive(b, Signatures[f].params[i], 8 * i) = vs[i]
    BY <1>3, <1>6
  <2>2. vs[i] \in Value /\ vs[i].type = Signatures[f].params[i] /\ Live(vs[i]) /\ vs[i].type \in Types
    BY <1>3, UnitValue
  <2> QED
    BY <2>1, <2>2 DEF Register, RegisterOK, RegisterType
<1>9. ASSUME NEW i \in DOMAIN Signatures[f].captures
      PROVE  RegisterOK(Register(Signatures[f].captures[i],
                                 IF env.name \in DOMAIN objects
                                 THEN Loaded(objects[env.name].bytes, Signatures[f].captures[i], CaptureAt(i))
                                 ELSE Torn, captures[i]))
  <2>1. PICK o \in Closures : o = objects[env.name] /\ o.function = f /\ o.parts = captures
    BY <1>9
  <2>2. env.name \in DOMAIN objects /\ ClosureHolds(o)
    BY <1>9, <2>1 DEF FramesInv, ObjectsHold
  <2>3. /\ i \in DOMAIN o.parts /\ o.parts[i].type = Signatures[f].captures[i]
        /\ Holds(o.bytes, o.parts[i], CaptureAt(i))
    BY <2>1, <2>2 DEF ClosureHolds
  <2>4. Live(o.parts[i]) /\ o.parts[i] \in Value
    BY <2>1, <2>2, <2>3 DEF FramesInv, ObjectsHold, Closures
  <2>5. CaptureAt(i) \in Nat
    BY SignatureTypes DEF CaptureAt
  <2>6. Loaded(o.bytes, Signatures[f].captures[i], CaptureAt(i)) = o.parts[i]
    BY <2>3, <2>5, HoldsLoaded
  <2>7. o.parts[i].type \in Types
    BY <2>4, UnitValue
  <2> QED
    BY <2>1, <2>2, <2>3, <2>4, <2>6, <2>7 DEF Register, RegisterOK, RegisterType
<1>10. PICK regs : regs = Entered(f, ArgumentsOf(env, args), MeantOf(args), captures)
  OBVIOUS
<1>11. \A r \in regs : RegisterOK(r)
  BY <1>2, <1>5, <1>7, <1>8, <1>9, <1>10 DEF Entered
<1>12. PICK c : c = [function |-> f, registers |-> regs, tail |-> FALSE, leaving |-> FALSE]
  OBVIOUS
<1>13. c \in Frame /\ c.registers = regs
  BY <1>11, <1>12 DEF RegisterOK, Frame
<1>14. PICK low : low = [frames EXCEPT ![Len(frames)].tail = tail]
  OBVIOUS
<1>15. low \in Seq(Frame) /\ DOMAIN low = DOMAIN frames /\ \A k \in DOMAIN frames : low[k].registers = frames[k].registers
  <2>1. Len(frames) \in DOMAIN frames /\ frames \in Seq(Frame) /\ frames[Len(frames)] \in Frame
    BY TopOK DEF Top, FramesInv, FramesTypeOK
  <2>2. [frames[Len(frames)] EXCEPT !.tail = tail] \in Frame
    BY <2>1 DEF Frame
  <2>3. low = [frames EXCEPT ![Len(frames)] = [frames[Len(frames)] EXCEPT !.tail = tail]]
    BY <1>14, <2>1
  <2>4. [frames[Len(frames)] EXCEPT !.tail = tail].registers = frames[Len(frames)].registers
    BY <2>1 DEF Frame
  <2> QED
    BY <2>1, <2>2, <2>3, <2>4
<1>16. frames' = Append(low, c)
  BY <1>10, <1>12, <1>14 DEF Begin
<1>17. /\ frames' \in Seq(Frame) /\ frames' # <<>>
       /\ \A k \in DOMAIN frames' : \/ k \in DOMAIN low /\ frames'[k] = low[k]
                                    \/ frames'[k] = c
  BY <1>13, <1>15, <1>16
<1>18. \A q : RegisterOK(q) => RegisterOK(q)'
  BY DEF RegisterOK, Live
<1>19. \A k \in DOMAIN frames' : \A r \in frames'[k].registers : RegisterOK(r)
  BY <1>11, <1>13, <1>15, <1>17 DEF FramesInv, RegistersOK
<1>20. RegistersOK'
  BY <1>18, <1>19 DEF RegistersOK
<1>21. ObjectsHold'
  BY DEF FramesInv, ObjectsHold, Live
<1> QED
  BY <1>17, <1>20, <1>21 DEF FramesInv, FramesTypeOK

LEMMA CallNamedStep ==
    ASSUME FramesInv, NEW f \in DOMAIN Signatures, Signatures[f].captures = <<>>,
           NEW args \in RegistersOf(Signatures[f].params), CallNamed(f, args)
    PROVE  FramesInv'
<1>1. SizeOf(Null.type) = 8
  BY Sizes DEF Null, Typed
<1>2. DOMAIN Signatures[f].captures = {}
  OBVIOUS
<1> QED
  BY <1>1, <1>2, BeginInv DEF CallNamed

\* The code of a closure is its function's.
LEMMA CodeIsFunction ==
    ASSUME FramesInv, NEW c \in Pointers("closure")
    PROVE  /\ c.is.name \in DOMAIN objects /\ ObjectOf(c) = objects[c.is.name] /\ ObjectOf(c) \in Closures
           /\ ObjectOf(c).function \in DOMAIN Signatures /\ CodeOf(c) = ObjectOf(c).function
           /\ SizeOf(c.is.type) = 8
<1>1. c \in Top.registers /\ c.is.type = "closure"
  BY DEF Pointers, Points
<1>2. Live(c.is)
  BY <1>1, TopOK DEF RegisterOK
<1>3. PICK o \in Closures : o = ObjectOf(c) /\ c.is.name \in DOMAIN objects /\ o = objects[c.is.name]
  BY <1>1, <1>2 DEF Live, ObjectOf
<1>4. Holds(o.bytes, Typed("code", o.function), 0)
  BY <1>3 DEF FramesInv, ObjectsHold, ClosureHolds
<1>5. PICK code : code = Typed("code", o.function)
  OBVIOUS
<1>7. code.type = "code" /\ code.name = o.function
  BY <1>5 DEF Typed
<1>6. Loaded(o.bytes, "code", 0) = code
  BY <1>4, <1>5, <1>7, HoldsLoaded
<1> QED
  BY <1>1, <1>3, <1>6, <1>7, Sizes DEF CodeOf, Closures

LEMMA CallClosureStep ==
    ASSUME FramesInv, NEW c \in Pointers("closure"),
           NEW args \in RegistersOf(Signatures[ObjectOf(c).function].params),
           CallIndirect(c, args) \/ TailCall(c, args)
    PROVE  FramesInv'
<1>1. PICK tail \in BOOLEAN : Begin(CodeOf(c), c.is, args, ObjectOf(c).parts, tail) /\ UNCHANGED objects
  BY DEF CallIndirect, TailCall
<1> QED
  BY <1>1, CodeIsFunction, BeginInv

\* A result passes through a buffer of its size.
LEMMA ReturnedWhole == ASSUME NEW v \in Value PROVE Returned(v.type, v) = v
<1>1. CASE v.type = "unit"
  BY <1>1, UnitValue DEF Returned, LoadPrimitive
<1>2. CASE v.type # "unit"
  <2>1. PICK size \in {1, 4, 8} : size = SizeOf(v.type)
    BY Sizes
  <2>2. size \in Nat /\ 0 + SizeOf(v.type) <= size /\ 0 \in Nat
    BY <2>1
  <2>3. DOMAIN Blank(size) = 0..size - 1
    BY <2>2, MemoryTypes
  <2>4. Holds(Stored(Blank(size), v, 0), v, 0)
    BY <2>2, <2>3, StoredHolds
  <2>5. Loaded(Stored(Blank(size), v, 0), v.type, 0) = v
    BY <2>2, <2>4, HoldsLoaded
  <2> QED
    BY <1>2, <2>1, <2>5 DEF Returned, LoadPrimitive
<1> QED
  BY <1>1, <1>2

LEMMA ReturnStep ==
    ASSUME FramesInv, NEW r \in Top.registers, Return(r)
    PROVE  FramesInv'
<1>1. RegisterOK(r) /\ r.is \in Value /\ r.type = r.is.type /\ r.is = r.meant /\ r.type \in Types
  BY TopOK DEF RegisterOK
<1>2. PICK n \in Nat \ {0} : n = Len(frames) - 1
  BY TopOK DEF Return
<1>3. PICK q : q = Register(r.type, Returned(r.type, r.is), r.meant)
  OBVIOUS
<1>4. RegisterOK(q)
  <2>1. Returned(r.type, r.is) = r.is
    BY <1>1, ReturnedWhole
  <2> QED
    BY <1>1, <1>3, <2>1 DEF Register, RegisterOK, RegisterType
<1>5. PICK caller \in Frame : caller = frames[n]
  BY <1>2 DEF FramesInv, FramesTypeOK
<1>6. PICK rest \in Seq(Frame) : /\ rest = SubSeq(frames, 1, n) /\ DOMAIN rest = 1..n
                                /\ \A k \in 1..n : k \in DOMAIN frames /\ rest[k] = frames[k]
  <2>1. frames \in Seq(Frame) /\ n \in 1..Len(frames) /\ DOMAIN frames = 1..Len(frames)
    BY <1>2, TopOK DEF FramesInv, FramesTypeOK
  <2>2. SubSeq(frames, 1, n) = [k \in 1..n |-> frames[k]]
    BY <2>1
  <2>3. \A k \in 1..n : k \in DOMAIN frames /\ frames[k] \in Frame
    BY <2>1
  <2>4. [k \in 1..n |-> frames[k]] \in Seq(Frame)
    BY <2>3
  <2> QED
    BY <2>2, <2>3, <2>4
<1>7. PICK new : new = IF caller.tail THEN [caller EXCEPT !.registers = {q}, !.leaving = TRUE]
                       ELSE [caller EXCEPT !.registers = @ \cup {q}]
  OBVIOUS
<1>8. new \in Frame /\ new.registers \subseteq caller.registers \cup {q}
  BY <1>4, <1>7 DEF Frame, RegisterOK
<1>9. frames' = [rest EXCEPT ![n] = new] /\ UNCHANGED objects
  BY <1>2, <1>3, <1>5, <1>6, <1>7 DEF Return
<1>10. frames' \in Seq(Frame) /\ frames' # <<>> /\ DOMAIN frames' = 1..n
  BY <1>6, <1>8, <1>9
<1>11. \A k \in 1..n : k \in DOMAIN frames /\ frames'[k].registers \subseteq frames[k].registers \cup {q}
  BY <1>5, <1>6, <1>8, <1>9
<1>12. \A k \in DOMAIN frames' : \A p \in frames'[k].registers : RegisterOK(p)
  BY <1>4, <1>10, <1>11 DEF FramesInv, RegistersOK
<1>13. \A p : RegisterOK(p) => RegisterOK(p)'
  BY <1>9 DEF RegisterOK, Live
<1>14. RegistersOK'
  BY <1>12, <1>13 DEF RegistersOK
<1>15. ObjectsHold'
  BY <1>9 DEF FramesInv, ObjectsHold, Live
<1> QED
  BY <1>9, <1>10, <1>14, <1>15 DEF FramesInv, FramesTypeOK

-----------------------------------------------------------------------------
(* Arrays. *)

\* What a pointer to an array leads to.
LEMMA ArrayPointer ==
    ASSUME FramesInv, NEW a \in Pointers("array")
    PROVE  /\ a \in Top.registers /\ a.is.name \in DOMAIN objects /\ ObjectOf(a) = objects[a.is.name]
           /\ ObjectOf(a) \in Arrays /\ ArrayHolds(ObjectOf(a))
           /\ \A i \in DOMAIN ObjectOf(a).parts : Live(ObjectOf(a).parts[i]) /\ ObjectOf(a).parts[i] \in Value
           /\ LengthOf(a) = Len(ObjectOf(a).parts) /\ LengthOf(a) \in Nat
<1>1. a \in Top.registers /\ a.is.type = "array"
  BY DEF Pointers, Points
<1>2. Live(a.is)
  BY <1>1, TopOK DEF RegisterOK
<1>3. PICK o \in Arrays : o = ObjectOf(a) /\ a.is.name \in DOMAIN objects /\ o = objects[a.is.name]
  BY <1>1, <1>2 DEF Live, ObjectOf
<1>4. ArrayHolds(o) /\ \A i \in DOMAIN o.parts : Live(o.parts[i]) /\ o.parts[i] \in Value
  BY <1>3 DEF FramesInv, ObjectsHold, Arrays
<1>5. PICK count : count = Typed("usize", Len(o.parts))
  OBVIOUS
<1>6. count.type = "usize" /\ count.name = Len(o.parts) /\ Len(o.parts) \in Nat
  BY <1>5 DEF Typed, Arrays
<1>7. Loaded(o.bytes, "usize", 0) = count
  BY <1>4, <1>5, <1>6, HoldsLoaded DEF ArrayHolds
<1> QED
  BY <1>1, <1>3, <1>4, <1>6, <1>7 DEF LengthOf

\* Making an array out of sound parts is sound.
LEMMA NewArrayStep ==
    ASSUME FramesInv, NEW o \in Arrays, ArrayHolds(o), \A i \in DOMAIN o.parts : Live(o.parts[i]),
           objects' = Append(objects, o), Put(Register("array", Fresh("array"), Fresh("array")))
    PROVE  FramesInv'
<1>1. PICK r : r = Register("array", Fresh("array"), Fresh("array"))
  OBVIOUS
<1>2. o \notin Closures
  BY KindsApart
<1>3. /\ objects' \in Seq(Closures \cup Arrays) /\ ObjectsHold'
      /\ Len(objects) + 1 \in DOMAIN objects' /\ objects'[Len(objects) + 1] = o
      /\ \A v : Live(v) => Live(v)'
  BY <1>2, NewObjectInv
<1>4. RegisterOK(r)'
  BY <1>1, <1>3, FreshPointer
<1>5. frames' \in Seq(Frame) /\ frames' # <<>> /\ RegistersOK'
  BY <1>1, <1>3, <1>4, PutInv
<1> QED
  BY <1>3, <1>5 DEF FramesInv, FramesTypeOK

LEMMA ArrayAllocStep ==
    ASSUME FramesInv, NEW r \in Top.registers, NEW n \in Nat, ArrayAlloc(n, r)
    PROVE  FramesInv'
<1>1. PICK v \in Value : v = r.is /\ v = r.meant /\ v.type = r.type /\ v.type \in Types /\ Live(v)
  BY TopOK DEF RegisterOK
<1>2. PICK len \in Nat : len = 8 + n * SizeOf(v.type)
  <2>1. PICK size \in {1, 4, 8} : size = SizeOf(v.type)
    BY Sizes
  <2>2. n * size \in Nat
    BY <2>1, Together
  <2> QED
    BY <2>1, <2>2
<1>3. PICK count : count = Typed("usize", n)
  OBVIOUS
<1>4. count \in Content /\ count.type = "usize" /\ SizeOf(count.type) = 8
  BY <1>3, Sizes DEF Content, Typed
<1>5. PICK b1 \in Memory : b1 = Stored(Blank(len), count, 0) /\ DOMAIN b1 = 0..len - 1 /\ Holds(b1, count, 0)
  <2>1. Blank(len) \in Memory /\ DOMAIN Blank(len) = 0..len - 1
    BY MemoryTypes
  <2>2. 0 + SizeOf(count.type) <= len
    <3>1. PICK size \in {1, 4, 8} : size = SizeOf(v.type)
      BY Sizes
    <3>2. n * size \in Nat
      BY Together
    <3> QED
      BY <1>2, <1>4, <3>1, <3>2
  <2>3. Holds(Stored(Blank(len), count, 0), count, 0)
    BY <2>1, <2>2, StoredHolds
  <2> QED
    BY <1>4, <2>1, <2>3, MemoryTypes
<1>6. PICK b \in Memory : b = Filled(b1, v, n)
  BY <1>5, FilledType DEF Content
<1>7. /\ DOMAIN b = 0..7 + n * SizeOf(v.type)
      /\ \A i \in 1..n : Holds(b, v, ElementAt(v.type, i))
      /\ Holds(b, count, 0)
  <2>1. DOMAIN b1 = 0..7 + n * SizeOf(v.type)
    <3>1. PICK size \in {1, 4, 8} : size = SizeOf(v.type)
      BY Sizes
    <3>2. n * size \in Nat
      BY Together
    <3> QED
      BY <1>2, <1>5, <3>1, <3>2
  <2> QED
    BY <1>4, <1>5, <1>6, <2>1, FilledHolds
<1>8. PICK ps \in Seq(Value) : ps = [i \in 1..n |-> v] /\ Len(ps) = n /\ DOMAIN ps = 1..n
  <2>1. [i \in 1..n |-> v] \in Seq(Value)
    OBVIOUS
  <2>2. Len([i \in 1..n |-> v]) = n
    OBVIOUS
  <2> QED
    BY <2>1, <2>2
<1>9. PICK o : o = [of |-> v.type, parts |-> ps, bytes |-> b]
  OBVIOUS
<1>10. o \in Arrays /\ o.of = v.type /\ o.parts = ps /\ o.bytes = b
  BY <1>1, <1>9 DEF Arrays
<1>11. ArrayHolds(o)
  BY <1>3, <1>7, <1>8, <1>10 DEF ArrayHolds
<1>12. \A i \in DOMAIN o.parts : Live(o.parts[i])
  BY <1>1, <1>8, <1>10
<1>13. objects' = Append(objects, o) /\ Put(Register("array", Fresh("array"), Fresh("array")))
  BY <1>1, <1>2, <1>3, <1>5, <1>6, <1>8, <1>9 DEF ArrayAlloc, NewObject
<1> QED
  BY <1>10, <1>11, <1>12, <1>13, NewArrayStep

LEMMA ArrayGetStep ==
    ASSUME FramesInv, NEW a \in Pointers("array"), NEW i \in DOMAIN ObjectOf(a).parts, ArrayGet(a, i)
    PROVE  FramesInv'
<1>1. PICK o \in Arrays : o = ObjectOf(a) /\ ArrayHolds(o) /\ Live(o.parts[i]) /\ o.parts[i] \in Value
  BY ArrayPointer
<1>2. i \in Nat \ {0} /\ i \in DOMAIN o.parts
  BY <1>1 DEF Arrays
<1>3. PICK v \in Value : v = o.parts[i] /\ v.type = o.of /\ v.type \in Types /\ Live(v)
                         /\ Holds(o.bytes, v, ElementAt(o.of, i))
  BY <1>1, <1>2, UnitValue DEF ArrayHolds
<1>4. Loaded(o.bytes, o.of, ElementAt(o.of, i)) = v
  <2>1. ElementAt(o.of, i) \in Nat
    BY <1>2, ElementRange
  <2> QED
    BY <1>3, <2>1, HoldsLoaded
<1>5. PICK r : r = Register(o.of, v, v)
  OBVIOUS
<1>6. Put(r) /\ UNCHANGED objects
  BY <1>1, <1>3, <1>4, <1>5 DEF ArrayGet
<1>7. RegisterOK(r)
  BY <1>3, <1>5 DEF Register, RegisterOK, RegisterType
<1>8. (\A q : Live(q) => Live(q)') /\ RegisterOK(r)'
  BY <1>6, <1>7 DEF RegisterOK, Live
<1>9. frames' \in Seq(Frame) /\ frames' # <<>> /\ RegistersOK'
  BY <1>6, <1>8, PutInv
<1>10. ObjectsHold'
  BY <1>6 DEF FramesInv, ObjectsHold, Live
<1> QED
  BY <1>6, <1>9, <1>10 DEF FramesInv, FramesTypeOK

\* A store into one element leaves the length and the other elements.
LEMMA ElementStored ==
    ASSUME NEW o \in Arrays, ArrayHolds(o), NEW v \in Value, v.type = o.of, NEW i \in DOMAIN o.parts,
           NEW p, p = [of |-> o.of, parts |-> [o.parts EXCEPT ![i] = v],
                       bytes |-> Stored(o.bytes, v, ElementAt(o.of, i))]
    PROVE  p \in Arrays /\ ArrayHolds(p)
<1>1. PICK n \in Nat : /\ n = Len(o.parts) /\ DOMAIN o.parts = 1..n
  BY DEF Arrays
<1>2. PICK at \in Nat : at = ElementAt(o.of, i) /\ at >= 8
  BY <1>1, ElementRange
<1>3. PICK c : c = Stored(o.bytes, v, at)
  OBVIOUS
<1>4. PICK len \in Nat : DOMAIN o.bytes = 0..len - 1 /\ at + SizeOf(v.type) <= len
  <2>1. PICK m \in Nat : m = n * SizeOf(o.of)
    BY LengthsOf
  <2>2. DOMAIN o.bytes = 0..7 + m
    BY <1>1, <2>1 DEF ArrayHolds
  <2>3. at + SizeOf(v.type) <= 8 + m
    <3>1. i \in Nat \ {0} /\ i <= n
      BY <1>1
    <3> QED
      BY <1>2, <2>1, <3>1, ElementRange
  <2>4. 8 + m \in Nat /\ 0..7 + m = 0..(8 + m) - 1
    OBVIOUS
  <2> QED
    BY <2>2, <2>3, <2>4
<1>5. PICK ps \in Seq(Value) : /\ ps = [o.parts EXCEPT ![i] = v] /\ Len(ps) = n /\ DOMAIN ps = 1..n
                               /\ ps[i] = v /\ \A j \in 1..n : j # i => ps[j] = o.parts[j]
  BY <1>1 DEF Arrays
<1>6. /\ p \in Arrays /\ p.of = o.of /\ p.parts = ps /\ p.bytes = c
  <2>1. c \in Memory
    BY <1>2, <1>3, MemoryTypes DEF Arrays, Content
  <2>2. p = [of |-> o.of, parts |-> ps, bytes |-> c]
    BY <1>2, <1>3, <1>5
  <2>3. o.of \in Types
    BY DEF Arrays
  <2> QED
    BY <2>1, <2>2, <2>3 DEF Arrays
<1>7. DOMAIN c = 0..7 + n * SizeOf(o.of)
  BY <1>1, <1>3, MemoryTypes DEF ArrayHolds
<1>8. Holds(c, Typed("usize", n), 0)
  <2>1. PICK count : count = Typed("usize", n)
    OBVIOUS
  <2>2. Holds(o.bytes, count, 0)
    BY <1>1, <2>1 DEF ArrayHolds
  <2>3. SizeOf(count.type) = 8
    BY <2>1, Sizes DEF Typed
  <2>4. 0 + SizeOf(count.type) <= at
    BY <1>2, <2>3
  <2> QED
    BY <1>3, <1>4, <2>1, <2>2, <2>4, StoredKeeps
<1>9. ASSUME NEW j \in 1..n PROVE ps[j].type = o.of /\ Holds(c, ps[j], ElementAt(o.of, j))
  <2>1. CASE j = i
    <3>1. Holds(c, v, at)
      BY <1>3, <1>4, StoredHolds
    <3> QED
      BY <1>2, <1>5, <2>1, <3>1
  <2>2. CASE j # i
    <3>1. PICK w : w = o.parts[j] /\ w.type = o.of /\ Holds(o.bytes, w, ElementAt(o.of, j))
      BY <1>1 DEF ArrayHolds
    <3>2. PICK q \in Nat : q = ElementAt(o.of, j)
      BY ElementRange
    <3>3. q + SizeOf(w.type) <= at \/ at + SizeOf(v.type) <= q
      <4>1. i \in Nat \ {0} /\ j \in Nat \ {0} /\ (j < i \/ i < j)
        BY <1>1, <2>2
      <4>2. j < i => q + SizeOf(w.type) <= at
        BY <1>2, <3>1, <3>2, <4>1, ElementRange
      <4>3. i < j => at + SizeOf(v.type) <= q
        BY <1>2, <3>2, <4>1, ElementRange
      <4> QED
        BY <4>1, <4>2, <4>3
    <3>4. Holds(c, w, q)
      BY <1>3, <1>4, <3>1, <3>2, <3>3, StoredKeeps
    <3> QED
      BY <1>5, <2>2, <3>1, <3>2, <3>4
  <2> QED
    BY <2>1, <2>2
<1> QED
  BY <1>5, <1>6, <1>7, <1>8, <1>9 DEF ArrayHolds

LEMMA ArraySetStep ==
    ASSUME FramesInv, NEW a \in Pointers("array"), NEW i \in DOMAIN ObjectOf(a).parts,
           NEW r \in Top.registers, ArraySet(a, i, r)
    PROVE  FramesInv'
<1>1. PICK n \in DOMAIN objects : n = a.is.name /\ ObjectOf(a) = objects[n]
  BY ArrayPointer
<1>2. PICK o \in Arrays : o = objects[n] /\ ArrayHolds(o) /\ \A j \in DOMAIN o.parts : Live(o.parts[j])
  BY <1>1, ArrayPointer
<1>3. PICK v \in Value : v = r.is /\ v = r.meant /\ Live(v) /\ v.type = o.of /\ r.type = o.of
  BY <1>1, <1>2, TopOK DEF ArraySet, RegisterOK
<1>4. PICK p : p = [of |-> o.of, parts |-> [o.parts EXCEPT ![i] = v],
                    bytes |-> Stored(o.bytes, v, ElementAt(o.of, i))]
  OBVIOUS
<1>5. p \in Arrays /\ ArrayHolds(p) /\ p \notin Closures
  BY <1>1, <1>2, <1>3, <1>4, ElementStored, KindsApart
<1>6. objects' = [objects EXCEPT ![n] = p] /\ UNCHANGED frames
  BY <1>1, <1>2, <1>3, <1>4 DEF ArraySet, Arrays
<1>7. /\ objects \in Seq(Closures \cup Arrays) /\ objects' \in Seq(Closures \cup Arrays)
      /\ DOMAIN objects' = DOMAIN objects
      /\ \A m \in DOMAIN objects : objects'[m] = IF m = n THEN p ELSE objects[m]
  BY <1>5, <1>6 DEF FramesInv, FramesTypeOK
<1>8. \A q : Live(q) => Live(q)'
  BY <1>2, <1>5, <1>7, KindsApart DEF Live
<1>9. \A j \in DOMAIN p.parts : Live(p.parts[j])
  BY <1>1, <1>2, <1>3, <1>4 DEF Arrays
<1>10. ObjectsHold'
  <2> SUFFICES ASSUME NEW m \in DOMAIN objects', NEW x, x = objects'[m]
               PROVE  /\ x \in Closures => ClosureHolds(x)
                      /\ x \in Arrays => ArrayHolds(x)
                      /\ \A j \in DOMAIN x.parts : Live(x.parts[j])'
    BY DEF ObjectsHold, Live
  <2>1. CASE m = n
    BY <1>5, <1>7, <1>8, <1>9, <2>1
  <2>2. CASE m # n
    <3>1. x = objects[m] /\ m \in DOMAIN objects
      BY <1>7, <2>2
    <3> QED
      BY <1>8, <3>1 DEF FramesInv, ObjectsHold
  <2> QED
    BY <2>1, <2>2
<1>11. \A q : RegisterOK(q) => RegisterOK(q)'
  BY <1>8 DEF RegisterOK
<1>12. RegistersOK'
  BY <1>6, <1>11 DEF FramesInv, RegistersOK
<1> QED
  BY <1>6, <1>7, <1>10, <1>12 DEF FramesInv, FramesTypeOK

\* The concatenation of two arrays of one type.
LEMMA ConcatHolds ==
    ASSUME NEW o \in Arrays, NEW p \in Arrays, ArrayHolds(o), ArrayHolds(p), o.of = p.of,
           NEW n \in Nat, DOMAIN o.parts = 1..n, NEW m \in Nat, DOMAIN p.parts = 1..m,
           NEW ps \in Seq(Value), Len(ps) = n + m,
           \A i \in 1..n : ps[i] = o.parts[i], \A i \in 1..m : ps[n + i] = p.parts[i]
    PROVE  LET c == [of |-> o.of, parts |-> ps,
                     bytes |-> Stored(Behind(o.bytes, p.bytes, n * SizeOf(o.of), m * SizeOf(o.of)),
                                      Typed("usize", n + m), 0)]
           IN  c \in Arrays /\ ArrayHolds(c)
<1>1. n \in Nat /\ m \in Nat /\ o.parts \in Seq(Value) /\ p.parts \in Seq(Value)
      /\ o.bytes \in Memory /\ p.bytes \in Memory /\ o.of \in Types
      /\ n = Len(o.parts) /\ m = Len(p.parts)
  BY DEF Arrays
<1>2. PICK t \in Types : t = o.of /\ t = p.of
  BY <1>1
<1>3. PICK l \in Nat, r \in Nat : l = n * SizeOf(t) /\ r = m * SizeOf(t) /\ l + r = (n + m) * SizeOf(t)
  <2>1. \E l, r \in Nat : l = n * SizeOf(t) /\ r = m * SizeOf(t) /\ l + r = (n + m) * SizeOf(t)
    BY LengthsOf
  <2> QED
    BY <2>1
<1>4. DOMAIN o.bytes = 0..7 + l /\ DOMAIN p.bytes = 0..7 + r
  BY <1>2, <1>3 DEF ArrayHolds
<1>5. PICK b \in Memory : b = Behind(o.bytes, p.bytes, l, r)
  BY <1>1, <1>4, BehindType
<1>6. PICK count : count = Typed("usize", n + m)
  OBVIOUS
<1>7. count \in Content /\ count.type = "usize" /\ SizeOf(count.type) = 8
  <2>1. n + m \in Nat
    OBVIOUS
  <2> QED
    BY <1>6, <2>1, Count
<1>8. PICK d \in Memory : d = Stored(b, count, 0)
  BY <1>7, MemoryTypes
<1>9. DOMAIN ps = 1..n + m
  OBVIOUS
<1>10. PICK c : c = [of |-> t, parts |-> ps, bytes |-> d]
  OBVIOUS
<1>11. c \in Arrays /\ c.of = t /\ c.parts = ps /\ c.bytes = d
  BY <1>10 DEF Arrays
<1>12. DOMAIN b = 0..7 + l + r /\ DOMAIN d = 0..7 + l + r
  BY <1>5, <1>8, MemoryTypes DEF Behind
<1>13. PICK len \in Nat : len = 8 + l + r /\ DOMAIN b = 0..len - 1
  <2>1. 8 + l + r \in Nat /\ 0..7 + l + r = 0..(8 + l + r) - 1
    OBVIOUS
  <2> QED
    BY <1>12, <2>1
<1>14. Holds(d, count, 0)
  <2>1. 0 \in Nat /\ 0 + SizeOf(count.type) <= len
    BY <1>7, <1>13
  <2> QED
    BY <1>8, <1>13, <2>1, StoredHolds
<1>15. ASSUME NEW w, NEW at \in Nat, at >= 8, Holds(b, w, at) PROVE Holds(d, w, at)
  <2>1. 0 + SizeOf(count.type) <= at
    BY <1>7, <1>15
  <2> QED
    BY <1>8, <1>13, <1>15, <2>1, StoredKeeps
<1>16. ASSUME NEW i \in 1..n PROVE ps[i].type = t /\ Holds(d, ps[i], ElementAt(t, i))
  <2>1. PICK w : w = o.parts[i] /\ w.type = t /\ Holds(o.bytes, w, ElementAt(t, i))
    BY <1>1, <1>2 DEF ArrayHolds
  <2>2. Holds(b, w, ElementAt(t, i))
    BY <1>1, <1>3, <1>4, <1>5, <2>1, BehindHolds
  <2>3. ElementAt(t, i) \in Nat /\ ElementAt(t, i) >= 8
    <3>1. i \in Nat \ {0}
      OBVIOUS
    <3> QED
      BY <3>1, ElementRange
  <2> QED
    BY <1>9, <1>15, <2>1, <2>2, <2>3
<1>17. ASSUME NEW i \in 1..m PROVE ps[n + i].type = t /\ Holds(d, ps[n + i], ElementAt(t, n + i))
  <2>1. PICK w : w = p.parts[i] /\ w.type = t /\ Holds(p.bytes, w, ElementAt(t, i))
    BY <1>1, <1>2 DEF ArrayHolds
  <2>2. Holds(b, w, ElementAt(t, n + i))
    BY <1>1, <1>3, <1>4, <1>5, <2>1, BehindHolds
  <2>3. ElementAt(t, n + i) \in Nat /\ ElementAt(t, n + i) >= 8
    <3>1. n + i \in Nat \ {0}
      BY <1>1
    <3> QED
      BY <3>1, ElementRange
  <2> QED
    BY <1>9, <1>15, <2>1, <2>2, <2>3
<1>18. \A k \in 1..n + m : k \in 1..n \/ \E i \in 1..m : k = n + i
  BY <1>1, Halves
<1>19. \A k \in 1..n + m : ps[k].type = t /\ Holds(d, ps[k], ElementAt(t, k))
  <2> SUFFICES ASSUME NEW k \in 1..n + m PROVE ps[k].type = t /\ Holds(d, ps[k], ElementAt(t, k))
    OBVIOUS
  <2>1. CASE k \in 1..n
    BY <1>16, <2>1
  <2>2. CASE \E i \in 1..m : k = n + i
    <3>1. PICK i \in 1..m : k = n + i
      BY <2>2
    <3> QED
      BY <1>17, <3>1
  <2> QED
    BY <1>18, <2>1, <2>2
<1>20. DOMAIN d = 0..7 + (n + m) * SizeOf(t)
  <2>1. 7 + l + r = 7 + (l + r)
    OBVIOUS
  <2> QED
    BY <1>3, <1>12, <2>1
<1>21. c \in Arrays /\ ArrayHolds(c)
  BY <1>6, <1>9, <1>11, <1>14, <1>19, <1>20 DEF ArrayHolds
<1>22. c = [of |-> o.of, parts |-> ps,
            bytes |-> Stored(Behind(o.bytes, p.bytes, n * SizeOf(o.of), m * SizeOf(o.of)),
                             Typed("usize", n + m), 0)]
  BY <1>2, <1>3, <1>5, <1>6, <1>8, <1>9, <1>10
<1> QED
  BY <1>21, <1>22

LEMMA ArrayConcatStep ==
    ASSUME FramesInv, NEW a \in Pointers("array"), NEW b \in Pointers("array"), ArrayConcat(a, b)
    PROVE  FramesInv'
<1>1. PICK o \in Arrays : o = ObjectOf(a) /\ ArrayHolds(o) /\ LengthOf(a) = Len(o.parts)
                          /\ \A i \in DOMAIN o.parts : Live(o.parts[i])
  BY ArrayPointer
<1>2. PICK p \in Arrays : p = ObjectOf(b) /\ ArrayHolds(p) /\ LengthOf(b) = Len(p.parts)
                          /\ \A i \in DOMAIN p.parts : Live(p.parts[i])
  BY ArrayPointer
<1>3. PICK n \in Nat, m \in Nat : /\ n = Len(o.parts) /\ m = Len(p.parts)
                                  /\ DOMAIN o.parts = 1..n /\ DOMAIN p.parts = 1..m
  BY DEF Arrays
<1>4. PICK ps \in Seq(Value) :
         /\ ps = o.parts \o p.parts /\ Len(ps) = n + m /\ DOMAIN ps = 1..n + m
         /\ \A i \in 1..n + m : ps[i] = IF i <= n THEN o.parts[i] ELSE p.parts[i - n]
  <2>1. o.parts \o p.parts \in Seq(Value)
    BY DEF Arrays
  <2>2. /\ Len(o.parts \o p.parts) = n + m
        /\ DOMAIN (o.parts \o p.parts) = 1..n + m
        /\ \A i \in 1..n + m : (o.parts \o p.parts)[i] = IF i <= n THEN o.parts[i] ELSE p.parts[i - n]
    BY <1>3 DEF Arrays
  <2> QED
    BY <2>1, <2>2
<1>5. PICK c : c = [of |-> o.of, parts |-> ps,
                    bytes |-> Stored(Behind(o.bytes, p.bytes, n * SizeOf(o.of), m * SizeOf(o.of)),
                                     Typed("usize", n + m), 0)]
  OBVIOUS
<1>6. /\ o.of = p.of /\ objects' = Append(objects, c)
      /\ Put(Register("array", Fresh("array"), Fresh("array")))
  BY <1>1, <1>2, <1>3, <1>4, <1>5 DEF ArrayConcat, NewObject
<1>7. (\A i \in 1..n : ps[i] = o.parts[i]) /\ (\A i \in 1..m : ps[n + i] = p.parts[i])
  <2>1. ASSUME NEW i \in 1..n PROVE ps[i] = o.parts[i]
    <3>1. i \in 1..n + m /\ i <= n
      OBVIOUS
    <3> QED
      BY <1>4, <3>1
  <2>2. ASSUME NEW i \in 1..m PROVE ps[n + i] = p.parts[i]
    <3>1. n + i \in 1..n + m /\ ~ (n + i <= n) /\ (n + i) - n = i
      OBVIOUS
    <3> QED
      BY <1>4, <3>1
  <2> QED
    BY <2>1, <2>2
<1>8. c \in Arrays /\ ArrayHolds(c)
  <2>1. /\ ArrayHolds(o) /\ ArrayHolds(p) /\ o.of = p.of /\ Len(ps) = n + m
        /\ DOMAIN o.parts = 1..n /\ DOMAIN p.parts = 1..m
    BY <1>1, <1>2, <1>3, <1>4, <1>6
  <2>2. LET d == [of |-> o.of, parts |-> ps,
                  bytes |-> Stored(Behind(o.bytes, p.bytes, n * SizeOf(o.of), m * SizeOf(o.of)),
                                   Typed("usize", n + m), 0)]
        IN  d \in Arrays /\ ArrayHolds(d)
    BY <1>7, <2>1, ConcatHolds, Zenon
  <2> QED
    BY <1>5, <2>2
<1>9. \A i \in DOMAIN c.parts : Live(c.parts[i])
  <2>1. \A i \in 1..n + m : IF i <= n THEN i \in 1..n ELSE i - n \in 1..m
    OBVIOUS
  <2> QED
    <3>1. c.parts = ps
      BY <1>5
    <3>2. ASSUME NEW i \in 1..n + m PROVE Live(ps[i])
      <4>1. CASE i <= n
        BY <1>1, <1>3, <1>4, <2>1, <4>1
      <4>2. CASE ~ (i <= n)
        BY <1>2, <1>3, <1>4, <2>1, <4>2
      <4> QED
        BY <4>1, <4>2
    <3> QED
      BY <1>4, <3>1, <3>2
<1> QED
  BY <1>6, <1>8, <1>9, NewArrayStep

-----------------------------------------------------------------------------
LEMMA FramesInitInv == FramesInit => FramesInv
<1> SUFFICES ASSUME FramesInit PROVE FramesInv
  OBVIOUS
<1>1. PICK regs : regs = {Register(c.type, c, c) : c \in Beginnings}
  OBVIOUS
<1>2. ASSUME NEW c \in Beginnings PROVE RegisterOK(Register(c.type, c, c))
  BY BeginningsAssumption DEF RegisterOK, Register, RegisterType, Types, Value, Live
<1>3. \A r \in regs : RegisterOK(r)
  BY <1>1, <1>2
<1>4. PICK f : f = [function |-> "main", registers |-> regs, tail |-> FALSE, leaving |-> FALSE]
  OBVIOUS
<1>5. frames = <<f>> /\ objects = <<>>
  BY <1>1, <1>4 DEF FramesInit
<1>f. f \in Frame /\ f.registers = regs
  <2>1. regs \subseteq RegisterType
    BY <1>3 DEF RegisterOK
  <2> QED
    BY <1>4, <2>1 DEF Frame
<1>6. FramesTypeOK
  <2>1. frames \in Seq(Frame) /\ frames # <<>>
    BY <1>5, <1>f
  <2>2. objects \in Seq(Closures \cup Arrays)
    BY <1>5
  <2> QED
    BY <2>1, <2>2 DEF FramesTypeOK
<1>7. ObjectsHold
  BY <1>5 DEF ObjectsHold
<1>8. RegistersOK
  BY <1>3, <1>f, <1>5 DEF RegistersOK
<1> QED
  BY <1>6, <1>7, <1>8 DEF FramesInv

LEMMA FramesStep == FramesInv /\ [FramesNext]_framesVars => FramesInv'
<1> SUFFICES ASSUME FramesInv, [FramesNext]_framesVars PROVE FramesInv'
  OBVIOUS
<1>1. CASE UNCHANGED framesVars
  BY <1>1 DEF framesVars, FramesInv, FramesTypeOK, ObjectsHold, RegistersOK, RegisterOK, Live
<1>2. ASSUME NEW f \in DOMAIN Signatures,
             \/ \E cs \in RegistersOf(Signatures[f].captures) : MakeClosure(f, cs)
             \/ /\ Signatures[f].captures = <<>>
                /\ \E args \in RegistersOf(Signatures[f].params) : CallNamed(f, args)
      PROVE  FramesInv'
  BY <1>2, MakeClosureStep, CallNamedStep
<1>3. ASSUME NEW c \in Pointers("closure"),
             NEW args \in RegistersOf(Signatures[ObjectOf(c).function].params),
             CallIndirect(c, args) \/ TailCall(c, args)
      PROVE  FramesInv'
  BY <1>3, CallClosureStep
<1>4. ASSUME NEW r \in Top.registers, Return(r) \/ \E n \in 1..MaxLength : ArrayAlloc(n, r)
      PROVE  FramesInv'
  BY <1>4, ReturnStep, ArrayAllocStep
<1>5. ASSUME NEW a \in Pointers("array"),
             \/ \E i \in DOMAIN ObjectOf(a).parts :
                   ArrayGet(a, i) \/ \E r \in Top.registers : ArraySet(a, i, r)
             \/ \E b \in Pointers("array") : ArrayConcat(a, b)
      PROVE  FramesInv'
  BY <1>5, ArrayGetStep, ArraySetStep, ArrayConcatStep
<1> QED
  BY <1>1, <1>2, <1>3, <1>4, <1>5 DEF FramesNext

\* Registers have their types, pointers lead to blocks of their kind, and every
\* block holds its parts where the compiled code reads them.
THEOREM FramesInductive == FramesSpec => []FramesInv
BY FramesInitInv, FramesStep, PTL DEF FramesSpec

\* Every argument, capture, result and element is, where it is used, the value
\* the program put there.
THEOREM ValuesArrive == FramesSpec => []EverythingArrives
<1>1. FramesInv => EverythingArrives
  BY DEF FramesInv, RegistersOK, RegisterOK, EverythingArrives
<1> QED
  BY <1>1, FramesInductive, PTL
=============================================================================
