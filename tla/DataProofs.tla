------------------------------ MODULE DataProofs ------------------------------
(***************************************************************************)
(* Proofs about the values of the compiled code and the matches on them:   *)
(* Numbers, RecordLayout, Matching and Comparison.                         *)
(*                                                                         *)
(* A literal that says a number of its type is that number in the compiled *)
(* program, and operations on it give what arithmetic gives, for any       *)
(* literals and any ascending widths.  The number of words of a width is a *)
(* recursive function: that it is defined, positive and ascending is proved *)
(* by induction.                                                           *)
(*                                                                         *)
(* A field of a record is found where the literal has put it exactly when  *)
(* no field in front of it was dropped from the type, and a record is      *)
(* freed with its own bytes and its own counted fields under the like      *)
(* conditions, for any fields and sizes.  Where a field lies depends only  *)
(* on the sum of the sizes in front of it, and rows over one alphabet are  *)
(* compared through it.                                                    *)
(*                                                                         *)
(* A match of any length over any types takes the first arm that matches,  *)
(* and a match on a tag type that was accepted finds one.                  *)
(*                                                                         *)
(* Two values are compared by what they hold: fields of a payload are      *)
(* found by their offsets, which ascend, and blocks in blocks are one      *)
(* value where their addresses are one, so that they are equal at any      *)
(* depth.                                                                  *)
(***************************************************************************)
EXTENDS Numbers, RecordLayout, Matching, Comparison, NaturalRecursion, FiniteSetTheorems, TLAPS
-----------------------------------------------------------------------------
(* Numbers: powers of two. *)

\* The recursive definition of TwoTo has a solution, and its values are positive.
LEMMA Powers == /\ TwoTo = [n \in Nat |-> IF n = 0 THEN 1 ELSE 2 * TwoTo[n - 1]]
                /\ \A n \in Nat : TwoTo[n] \in Nat \ {0}
<1>1. PICK step : step = [n \in Nat \ {0} |-> [v \in Nat |-> 2 * v]]
  OBVIOUS
<1>2. step \in [Nat \ {0} -> [Nat -> Nat]]
  BY <1>1
<1>3. PICK f \in [Nat -> Nat] : FollowsOn(f, 1, step)
  <2>1. 1 \in Nat
    OBVIOUS
  <2> QED  BY <2>1, <1>2, Recursion
<1>4. ASSUME NEW n \in Nat \ {0} PROVE f[n] = 2 * f[n - 1]
  <2>1. n - 1 \in Nat /\ n - 1 + 1 = n /\ f[n - 1] \in Nat
    OBVIOUS
  <2> QED  BY <2>1, <1>1, <1>3 DEF FollowsOn
<1>5. f = [n \in Nat |-> IF n = 0 THEN 1 ELSE 2 * f[n - 1]]
  BY <1>3, <1>4 DEF FollowsOn
<1>6. TwoTo = [n \in Nat |-> IF n = 0 THEN 1 ELSE 2 * TwoTo[n - 1]]
  BY <1>5 DEF TwoTo
<1> DEFINE T == {i \in Nat : TwoTo[i] \in Nat \ {0}}
<1>7. 0 \in T
  BY <1>6
<1>8. ASSUME NEW i \in Nat, i \in T PROVE i + 1 \in T
  <2>1. TwoTo[i + 1] = 2 * TwoTo[i]
    BY <1>6
  <2> QED  BY <1>8, <2>1
<1> HIDE DEF T
<1>9. Nat \subseteq T
  BY <1>7, <1>8, Induction
<1> QED  BY <1>6, <1>9 DEF T

\* The powers of two double.
LEMMA Doubles == \A n \in Nat \ {0} : TwoTo[n - 1] \in Nat \ {0} /\ TwoTo[n] = 2 * TwoTo[n - 1]
<1> SUFFICES ASSUME NEW n \in Nat \ {0}
             PROVE  TwoTo[n - 1] \in Nat \ {0} /\ TwoTo[n] = 2 * TwoTo[n - 1]
  OBVIOUS
<1>1. n - 1 \in Nat /\ n \in Nat /\ n # 0
  OBVIOUS
<1> QED  BY <1>1, Powers

\* A wider word has twice as many values, or more.
LEMMA Ascends ==
    ASSUME NEW m \in Nat, NEW n \in Nat, m < n
    PROVE  2 * TwoTo[m] <= TwoTo[n]
<1> DEFINE T == {i \in Nat : m < i => 2 * TwoTo[m] <= TwoTo[i]}
<1>1. 0 \in T
  OBVIOUS
<1>2. ASSUME NEW i \in Nat, i \in T PROVE i + 1 \in T
  <2> SUFFICES ASSUME m < i + 1 PROVE 2 * TwoTo[m] <= TwoTo[i + 1]
    OBVIOUS
  <2>1. TwoTo[i + 1] = 2 * TwoTo[i] /\ TwoTo[i] \in Nat /\ TwoTo[m] \in Nat
    BY Powers
  <2>2. CASE m = i
    BY <2>1, <2>2
  <2>3. CASE m < i
    BY <1>2, <2>1, <2>3
  <2> QED  BY <2>2, <2>3
<1> HIDE DEF T
<1>3. Nat \subseteq T
  BY <1>1, <1>2, Induction
<1> QED  BY <1>3 DEF T
-----------------------------------------------------------------------------
(* Remainders. *)

\* A number is determined, up to multiples, by its remainder.
LEMMA RemainderUnique ==
    ASSUME NEW w \in Nat \ {0}, NEW x \in Int, NEW k \in Int, NEW r \in 0 .. w - 1, x = k * w + r
    PROVE  x % w = r
<1> DEFINE q == x \div w
           s == x % w
<1>1. q \in Int /\ s \in 0 .. w - 1 /\ x = q * w + s
  OBVIOUS
<1> HIDE DEF q, s
<1>2. (q - k) * w = r - s
  BY <1>1
<1>3. r - s < w /\ r - s > -w
  BY <1>1
<1>4. q - k = 0
  <2>1. CASE q - k >= 1
    <3>1. (q - k) * w >= w
      BY <2>1, <1>1
    <3> QED  BY <3>1, <1>1, <1>2, <1>3
  <2>2. CASE q - k <= -1
    <3>1. (q - k) * w <= -w
      BY <2>2, <1>1
    <3> QED  BY <3>1, <1>1, <1>2, <1>3
  <2> QED  BY <2>1, <2>2, <1>1
<1>5. r = s
  BY <1>2, <1>4, <1>1
<1> QED  BY <1>5 DEF s

\* A remainder is not changed by multiples of the divisor.
LEMMA RemainderShift ==
    ASSUME NEW w \in Nat \ {0}, NEW x \in Int, NEW k \in Int
    PROVE  (x + k * w) % w = x % w
<1>1. PICK q \in Int, r \in 0 .. w - 1 : x = q * w + r /\ x % w = r
  <2>1. x = (x \div w) * w + (x % w) /\ x \div w \in Int /\ x % w \in 0 .. w - 1
    OBVIOUS
  <2> QED  BY <2>1
<1>2. x + k * w = (q + k) * w + r
  BY <1>1
<1>3. x + k * w \in Int /\ q + k \in Int
  OBVIOUS
<1> QED  BY <1>1, <1>2, <1>3, RemainderUnique
-----------------------------------------------------------------------------
(* Words and numbers of a type. *)

Types == IntSuffixes

\* The words of a type.
Words(t) == 0 .. TwoTo[WidthOf(t)] - 1

LEMMA WidthType == \A t \in Types : WidthOf(t) \in Nat \ {0}
BY NumbersAssumption DEF WidthOf

\* Half the words of a type, and all of them.
LEMMA Halves ==
    ASSUME NEW t \in Types
    PROVE  /\ TwoTo[WidthOf(t) - 1] \in Nat \ {0}
           /\ TwoTo[WidthOf(t)] = 2 * TwoTo[WidthOf(t) - 1]
           /\ TwoTo[WidthOf(t)] \in Nat \ {0}
<1>1. WidthOf(t) \in Nat \ {0}
  BY WidthType
<1> QED  BY <1>1, Doubles

\* A signed type other than i64 is narrower than i64, and i32 than i128.
LEMMA Narrower ==
    ASSUME NEW t \in Types, ~Unsigned(t)
    PROVE  /\ TwoTo[WidthOf(t) - 1] <= TwoTo[Width[64] - 1]
           /\ t # "i64" => 2 * TwoTo[WidthOf(t) - 1] <= TwoTo[Width[64] - 1]
           /\ 2 * TwoTo[WidthOf("i32") - 1] <= TwoTo[Width[128] - 1]
           /\ TwoTo[Width[64] - 1] \in Nat \ {0} /\ TwoTo[Width[128] - 1] \in Nat \ {0}
           /\ TwoTo[Width[64] - 1] <= TwoTo[Width[128] - 1]
<1>1. /\ Width[64] - 1 \in Nat /\ Width[128] - 1 \in Nat
      /\ WidthOf(t) - 1 \in Nat /\ WidthOf("i32") - 1 \in Nat
  BY NumbersAssumption, WidthType DEF Types, IntSuffixes
<1>2. /\ WidthOf("i32") - 1 < Width[128] - 1
      /\ Width[64] - 1 < Width[128] - 1
  BY NumbersAssumption DEF WidthOf
<1>3. IF t = "i64" THEN WidthOf(t) = Width[64] ELSE WidthOf(t) - 1 < Width[64] - 1
  BY NumbersAssumption DEF WidthOf, Types, IntSuffixes, Unsigned
<1>4. 2 * TwoTo[WidthOf("i32") - 1] <= TwoTo[Width[128] - 1]
  BY <1>1, <1>2, Ascends
<1>5. 2 * TwoTo[Width[64] - 1] <= TwoTo[Width[128] - 1]
  BY <1>1, <1>2, Ascends
<1>6. t # "i64" => 2 * TwoTo[WidthOf(t) - 1] <= TwoTo[Width[64] - 1]
  BY <1>1, <1>3, Ascends
<1>7. \A n \in Nat : TwoTo[n] \in Nat \ {0}
  BY Powers
<1> QED  BY <1>1, <1>3, <1>4, <1>5, <1>6, <1>7

\* A number of a type is found again in its word.
LEMMA NumberOfWord ==
    ASSUME NEW t \in Types, NEW x \in Int, InType(x, t)
    PROVE  NumberIn(WordOf(x, t), t) = x
<1> DEFINE h == TwoTo[WidthOf(t) - 1]
           w == TwoTo[WidthOf(t)]
<1>1. h \in Nat \ {0} /\ w = 2 * h
  BY Halves
<1>2. Unsigned(t) => x \in 0 .. w - 1
  BY DEF InType, Bounded
<1>3. ~Unsigned(t) => x \in -h .. h - 1
  BY DEF InType, Bounded
<1> HIDE DEF h, w
<1>4. x >= 0 => x % w = x
  <2> SUFFICES ASSUME x >= 0 PROVE x % w = x
    OBVIOUS
  <2>1. x \in 0 .. w - 1 /\ x = 0 * w + x
    BY <1>1, <1>2, <1>3
  <2> QED  BY <2>1, <1>1, RemainderUnique
<1>5. x < 0 => x % w = x + w
  <2> SUFFICES ASSUME x < 0 PROVE x % w = x + w
    OBVIOUS
  <2>1. x + w \in 0 .. w - 1 /\ x = (-1) * w + (x + w)
    BY <1>1, <1>2, <1>3
  <2> QED  BY <2>1, <1>1, RemainderUnique
<1>6. WordOf(x, t) = x % w
  BY DEF WordOf, w
<1>7. NumberIn(x % w, t) = IF ~Unsigned(t) /\ x % w >= h THEN (x % w) - w ELSE x % w
  BY DEF NumberIn, h, w
<1> QED  BY <1>1, <1>2, <1>3, <1>4, <1>5, <1>6, <1>7

\* Reading a word as a number changes it by a multiple of the number of words.
LEMMA ReadWord ==
    ASSUME NEW t \in Types, NEW v \in Int
    PROVE  \E e \in {0, -1} : NumberIn(v, t) = v + e * TwoTo[WidthOf(t)]
<1>1. TwoTo[WidthOf(t)] \in Nat
  BY Halves
<1> QED  BY <1>1 DEF NumberIn

LEMMA WordType ==
    ASSUME NEW t \in Types, NEW x \in Int
    PROVE  WordOf(x, t) \in 0 .. TwoTo[WidthOf(t)] - 1 /\ WordOf(x, t) \in Int
BY Halves DEF WordOf

\* A word is the word of itself.
LEMMA OwnWord ==
    ASSUME NEW t \in Types, NEW x \in Words(t)
    PROVE  WordOf(x, t) = x
<1>1. PICK w \in Nat \ {0} : w = TwoTo[WidthOf(t)]
  BY Halves
<1>2. x \in 0 .. w - 1 /\ x \in Int /\ x = 0 * w + x
  BY <1>1 DEF Words
<1>3. x % w = x
  BY <1>2, RemainderUnique
<1> QED  BY <1>1, <1>3 DEF WordOf

\* A word stands for a number up to multiples of its size.
LEMMA WordShift ==
    ASSUME NEW t \in Types, NEW x \in Int, NEW k \in Int
    PROVE  WordOf(x + k * TwoTo[WidthOf(t)], t) = WordOf(x, t)
BY Halves, RemainderShift DEF WordOf

\* The word of what a word is read as is the word.
LEMMA WordOfNumber ==
    ASSUME NEW t \in Types, NEW x \in Int
    PROVE  /\ NumberIn(WordOf(x, t), t) \in Int
           /\ WordOf(NumberIn(WordOf(x, t), t), t) = WordOf(x, t)
<1> DEFINE w == TwoTo[WidthOf(t)]
<1>1. w \in Nat \ {0} /\ WordOf(x, t) \in Int
  BY Halves, WordType
<1>2. PICK e \in {0, -1} : NumberIn(WordOf(x, t), t) = WordOf(x, t) + e * w
  BY <1>1, ReadWord
<1>3. WordOf(WordOf(x, t) + e * w, t) = WordOf(WordOf(x, t), t)
  <2>1. WordOf(x, t) \in Int /\ e \in Int
    BY <1>1
  <2> HIDE DEF w
  <2>2. \A y, k \in Int : WordOf(y + k * w, t) = WordOf(y, t)
    BY WordShift DEF w
  <2> QED  BY <2>1, <2>2
<1>4. WordOf(WordOf(x, t), t) = WordOf(x, t)
  BY <1>1, WordType, OwnWord DEF Words
<1> HIDE DEF w
<1> QED  BY <1>1, <1>2, <1>3, <1>4
-----------------------------------------------------------------------------
(* The operations. *)

\* What is added in words is added, where the sum is a number of the type.
LEMMA AddExact ==
    ASSUME NEW t \in Types, NEW v \in Words(t), NEW w \in Words(t)
    PROVE  /\ WordOf(NumberIn(v, t) + NumberIn(w, t), t) = WordOf(v + w, t)
           /\ WordOf(NumberIn(v, t) - NumberIn(w, t), t) = WordOf(v - w, t)
<1>1. PICK M \in Nat : M = TwoTo[WidthOf(t)]
  BY Halves
<1>2. v \in Int /\ w \in Int
  BY <1>1 DEF Words
<1>3. PICK d \in {0, -1} : NumberIn(v, t) = v + d * M
  BY <1>1, <1>2, ReadWord
<1>4. PICK e \in {0, -1} : NumberIn(w, t) = w + e * M
  BY <1>1, <1>2, ReadWord
<1>5. \A x, k \in Int : WordOf(x + k * M, t) = WordOf(x, t)
  BY <1>1, WordShift
<1>6. /\ NumberIn(v, t) + NumberIn(w, t) = (v + w) + (d + e) * M
      /\ NumberIn(v, t) - NumberIn(w, t) = (v - w) + (d - e) * M
  BY <1>1, <1>2, <1>3, <1>4
<1>7. v + w \in Int /\ v - w \in Int /\ d + e \in Int /\ d - e \in Int
  BY <1>2
<1> QED  BY <1>5, <1>6, <1>7

\* The same of a product.
LEMMA MultiplyExact ==
    ASSUME NEW t \in Types, NEW v \in Words(t), NEW w \in Words(t)
    PROVE  WordOf(NumberIn(v, t) * NumberIn(w, t), t) = WordOf(v * w, t)
<1>1. PICK M \in Nat : M = TwoTo[WidthOf(t)]
  BY Halves
<1>2. v \in Int /\ w \in Int
  BY <1>1 DEF Words
<1>3. PICK d \in {0, -1} : NumberIn(v, t) = v + d * M
  BY <1>1, <1>2, ReadWord
<1>4. PICK e \in {0, -1} : NumberIn(w, t) = w + e * M
  BY <1>1, <1>2, ReadWord
<1>5. \A x, k \in Int : WordOf(x + k * M, t) = WordOf(x, t)
  BY <1>1, WordShift
<1>6. PICK k \in Int : (v + d * M) * (w + e * M) = v * w + k * M
  <2>1. (v + d * M) * (w + e * M) = v * w + (v * e + d * w + d * e * M) * M
    <3>1. CASE d = 0 /\ e = 0
      BY <3>1, <1>1, <1>2
    <3>2. CASE d = 0 /\ e = -1
      BY <3>2, <1>1, <1>2
    <3>3. CASE d = -1 /\ e = 0
      BY <3>3, <1>1, <1>2
    <3>4. CASE d = -1 /\ e = -1
      BY <3>4, <1>1, <1>2
    <3> QED  BY <3>1, <3>2, <3>3, <3>4
  <2>2. v * e + d * w + d * e * M \in Int
    BY <1>1, <1>2
  <2> QED  BY <2>1, <2>2
<1>7. v * w \in Int
  BY <1>2
<1>8. PICK y \in Int : y = v * w
  BY <1>7
<1>9. NumberIn(v, t) * NumberIn(w, t) = (v + d * M) * (w + e * M)
  BY <1>3, <1>4, Zenon
<1>10. NumberIn(v, t) * NumberIn(w, t) = y + k * M
  BY <1>6, <1>8, <1>9, Zenon
<1>11. WordOf(y + k * M, t) = WordOf(y, t)
  BY <1>5, <1>8, Zenon
<1> QED  BY <1>8, <1>10, <1>11, Zenon

LEMMA DivisionLaw ==
    ASSUME NEW a \in Nat, NEW b \in Nat \ {0}
    PROVE  /\ a \div b \in Nat /\ a \div b <= a
           /\ a % b \in 0 .. b - 1
           /\ a = (a \div b) * b + (a % b)
<1>1. a \div b \in Int /\ a % b \in 0 .. b - 1 /\ a = (a \div b) * b + (a % b)
  OBVIOUS
<1>2. PICK q \in Int, r \in 0 .. b - 1 : q = a \div b /\ r = a % b /\ a = q * b + r
  BY <1>1
<1>3. q >= 0
  <2>1. q <= -1 => q * b <= -b
    BY <1>2
  <2> QED  BY <2>1, <1>2
<1>4. q <= a
  <2>1. q * b >= q
    BY <1>3
  <2> QED  BY <2>1, <1>2
<1> QED  BY <1>1, <1>2, <1>3, <1>4

\* Division truncates: what is left is smaller than the divisor and has the sign
\* of the dividend.
LEMMA QuotientLaw ==
    ASSUME NEW m \in Int, NEW n \in Int, n # 0
    PROVE  /\ Quotient(m, n) \in -Absolute(m) .. Absolute(m)
           /\ m - Quotient(m, n) * n \in 1 - Absolute(n) .. Absolute(n) - 1
           /\ m * (m - Quotient(m, n) * n) >= 0
<1>1. PICK a \in Nat, b \in Nat \ {0} : a = Absolute(m) /\ b = Absolute(n)
  BY DEF Absolute
<1>2. PICK q \in Nat, r \in 0 .. b - 1 : q = a \div b /\ q <= a /\ a = q * b + r
  BY DivisionLaw
<1>3. Quotient(m, n) = IF (m < 0) = (n < 0) THEN q ELSE -q
  BY <1>1, <1>2 DEF Quotient
<1>4. m = IF m < 0 THEN -a ELSE a
  BY <1>1 DEF Absolute
<1>5. n = IF n < 0 THEN -b ELSE b
  BY <1>1 DEF Absolute
<1>6. Quotient(m, n) * n = IF m < 0 THEN -(q * b) ELSE q * b
  <2>1. q * (-b) = -(q * b) /\ (-q) * b = -(q * b) /\ (-q) * (-b) = q * b
    OBVIOUS
  <2>2. CASE m < 0 /\ n < 0
    BY <2>1, <2>2, <1>3, <1>5
  <2>3. CASE m < 0 /\ ~(n < 0)
    BY <2>1, <2>3, <1>3, <1>5
  <2>4. CASE ~(m < 0) /\ n < 0
    BY <2>1, <2>4, <1>3, <1>5
  <2>5. CASE ~(m < 0) /\ ~(n < 0)
    BY <2>1, <2>5, <1>3, <1>5
  <2> QED  BY <2>2, <2>3, <2>4, <2>5
<1>7. m - Quotient(m, n) * n = IF m < 0 THEN -r ELSE r
  <2>1. PICK p \in Int : p = q * b
    OBVIOUS
  <2> QED  BY <2>1, <1>2, <1>4, <1>6
<1>8. m * (m - Quotient(m, n) * n) >= 0
  <2>1. CASE m < 0
    <3>1. m * (-r) >= 0
      BY <2>1
    <3> QED  BY <3>1, <2>1, <1>7
  <2>2. CASE ~(m < 0)
    <3>1. m * r >= 0
      BY <2>2
    <3> QED  BY <3>1, <2>2, <1>7
  <2> QED  BY <2>1, <2>2
<1>9. Quotient(m, n) \in -a .. a /\ m - Quotient(m, n) * n \in 1 - b .. b - 1
  <2>1. Quotient(m, n) \in -a .. a
    BY <1>2, <1>3
  <2>2. (IF m < 0 THEN -r ELSE r) \in 1 - b .. b - 1
    OBVIOUS
  <2> QED  BY <2>1, <2>2, <1>7
<1> QED  BY <1>1, <1>8, <1>9

\* Division of words is division, where it is defined.
LEMMA UnsignedDivision ==
    ASSUME NEW t \in Types, Unsigned(t), NEW op \in {"/", "%"},
           NEW v \in Words(t), NEW w \in Words(t), w # 0,
           NEW u, u = IF op = "/" THEN v \div w ELSE v % w
    PROVE  u \in Int /\ Exactly(op, NumberIn(v, t), NumberIn(w, t), NumberIn(u, t), t)
<1>1. PICK M \in Nat \ {0} : M = TwoTo[WidthOf(t)]
  BY Halves
<1>2. v \in 0 .. M - 1 /\ w \in 1 .. M - 1
  BY <1>1 DEF Words
<1>3. PICK q \in Nat, r \in 0 .. w - 1 : q = v \div w /\ r = v % w /\ q <= v /\ v = q * w + r
  <2>1. v \in Nat /\ w \in Nat \ {0}
    BY <1>2
  <2> QED  BY <2>1, DivisionLaw
<1>4. u = IF op = "/" THEN q ELSE r
  BY <1>3
<1>5. NumberIn(v, t) = v /\ NumberIn(w, t) = w /\ NumberIn(u, t) = u
  BY DEF NumberIn
<1>6. Absolute(w) = w
  BY <1>2 DEF Absolute
<1>7. CASE op = "/"
  <2>1. r \in (1 - Absolute(w)) .. (Absolute(w) - 1) /\ v = u * w + r
    BY <1>2, <1>3, <1>4, <1>6, <1>7
  <2>2. v * r >= 0
    BY <1>2, <1>3
  <2> QED  BY <2>1, <2>2, <1>4, <1>5, <1>7 DEF Exactly
<1>8. CASE op = "%"
  <2>1. v - u = q * w + 0 /\ v - u \in Int
    <3>1. PICK p \in Int : p = q * w
      BY <1>2
    <3> QED  BY <3>1, <1>2, <1>3, <1>4, <1>8
  <2>2. (v - u) % w = 0
    <3>1. 0 \in 0 .. w - 1 /\ w \in Nat \ {0} /\ q \in Int
      BY <1>2
    <3> QED  BY <2>1, <3>1, RemainderUnique
  <2>3. Absolute(u) < Absolute(w)
    BY <1>2, <1>3, <1>4, <1>6, <1>8 DEF Absolute
  <2>4. v * u >= 0
    <3>1. v * r >= 0
      BY <1>2, <1>3
    <3> QED  BY <3>1, <1>4, <1>8
  <2> QED  BY <2>2, <2>3, <2>4, <1>2, <1>3, <1>4, <1>5, <1>6, <1>8 DEF Exactly
<1> QED  BY <1>7, <1>8

\* The same with signs: towards zero.
LEMMA SignedDivision ==
    ASSUME NEW t \in Types, ~Unsigned(t), NEW op \in {"/", "%"},
           NEW v \in Words(t), NEW w \in Words(t), NEW u \in DivideSigned(op, v, w, t)
    PROVE  u \in Int /\ Exactly(op, NumberIn(v, t), NumberIn(w, t), NumberIn(u, t), t)
<1>1. PICK h \in Nat \ {0} : h = TwoTo[WidthOf(t) - 1] /\ TwoTo[WidthOf(t)] = 2 * h
  BY Halves
<1>2. v \in 0 .. 2 * h - 1 /\ w \in 0 .. 2 * h - 1
  BY <1>1 DEF Words
<1>3. PICK m \in -h .. h - 1, n \in -h .. h - 1 :
          /\ m = NumberIn(v, t) /\ m = IF v >= h THEN v - 2 * h ELSE v
          /\ n = NumberIn(w, t) /\ n = IF w >= h THEN w - 2 * h ELSE w
  <2>1. \A x \in 0 .. 2 * h - 1 : NumberIn(x, t) = IF x >= h THEN x - 2 * h ELSE x
    BY <1>1 DEF NumberIn
  <2>2. \A x \in 0 .. 2 * h - 1 : (IF x >= h THEN x - 2 * h ELSE x) \in -h .. h - 1
    OBVIOUS
  <2> QED  BY <2>1, <2>2, <1>2
<1>4. /\ n # 0 /\ (op = "/" => Quotient(m, n) # h)
      /\ u = WordOf(IF op = "/" THEN Quotient(m, n) ELSE m - Quotient(m, n) * n, t)
  BY <1>1, <1>3 DEF DivideSigned
<1>5. PICK a \in 0 .. h, b \in 1 .. h : a = Absolute(m) /\ b = Absolute(n)
  BY <1>3, <1>4 DEF Absolute
<1>6. PICK q \in -a .. a, r \in 1 - b .. b - 1 :
          q = Quotient(m, n) /\ r = m - q * n /\ m * r >= 0
  <2>1. m \in Int /\ n \in Int /\ n # 0
    BY <1>4
  <2>2. /\ Quotient(m, n) \in -a .. a
        /\ m - Quotient(m, n) * n \in 1 - b .. b - 1
        /\ m * (m - Quotient(m, n) * n) >= 0
    BY <2>1, <1>5, QuotientLaw
  <2> QED  BY <2>2
<1>7. \A x \in -h .. h - 1 : NumberIn(WordOf(x, t), t) = x
  BY <1>1, NumberOfWord DEF InType, Bounded
<1>8. u \in Int
  <2>1. q \in Int /\ r \in Int
    BY <1>5
  <2> QED  BY <2>1, <1>4, <1>6, WordType
<1>9. PICK p \in Int : p = q * n
  BY <1>3, <1>5
<1>10. CASE op = "/"
  <2>1. NumberIn(u, t) = q
    <3>1. q # h
      BY <1>4, <1>6, <1>10
    <3>2. q \in -h .. h
      OBVIOUS
    <3>3. q \in -h .. h - 1
      BY <3>1, <3>2
    <3> QED  BY <3>3, <1>4, <1>6, <1>7, <1>10
  <2>2. m = q * n + r
    BY <1>3, <1>6, <1>9
  <2> QED  BY <2>1, <2>2, <1>3, <1>5, <1>6, <1>8, <1>10 DEF Exactly
<1>11. CASE op = "%"
  <2>1. NumberIn(u, t) = r
    BY <1>4, <1>5, <1>6, <1>7, <1>11
  <2>2. (m - r) % b = 0
    <3>1. m - r = q * n
      BY <1>3, <1>6, <1>9
    <3>2. PICK k \in Int : q * n = k * b + 0
      <4>1. CASE n < 0
        <5>1. n = -b
          BY <4>1, <1>3, <1>5 DEF Absolute
        <5>2. q * n = (-q) * b + 0
          BY <5>1, <1>5
        <5> QED  BY <5>2, <1>5
      <4>2. CASE ~(n < 0)
        <5>1. n = b
          BY <4>2, <1>3, <1>5 DEF Absolute
        <5>2. q * n = q * b + 0
          BY <5>1, <1>5
        <5> QED  BY <5>2, <1>5
      <4> QED  BY <4>1, <4>2
    <3>3. 0 \in 0 .. b - 1 /\ b \in Nat \ {0} /\ m - r \in Int
      BY <1>3, <1>5
    <3> QED  BY <3>1, <3>2, <3>3, RemainderUnique
  <2>3. Absolute(r) < b
    BY <1>5 DEF Absolute
  <2> QED  BY <2>1, <2>2, <2>3, <1>3, <1>5, <1>6, <1>8, <1>11 DEF Exactly
<1> QED  BY <1>10, <1>11

\* All operations, from the words of their operands.
LEMMA ComputeExact ==
    ASSUME NEW t \in Types, NEW op \in Operations,
           NEW v \in Words(t), NEW w \in Words(t), NEW u \in Compute(op, v, w, t)
    PROVE  u \in Int /\ Exactly(op, NumberIn(v, t), NumberIn(w, t), NumberIn(u, t), t)
<1>1. v \in Int /\ w \in Int
  BY Halves DEF Words
<1>2. CASE op = "+"
  <2>1. u = WordOf(v + w, t) /\ v + w \in Int
    BY <1>1, <1>2 DEF Compute
  <2> QED  BY <2>1, <1>2, AddExact, WordOfNumber, WordType DEF Exactly
<1>3. CASE op = "-"
  <2>1. u = WordOf(v - w, t) /\ v - w \in Int
    BY <1>1, <1>3 DEF Compute
  <2> QED  BY <2>1, <1>3, AddExact, WordOfNumber, WordType DEF Exactly
<1>4. CASE op = "*"
  <2>1. u = WordOf(v * w, t) /\ v * w \in Int
    BY <1>1, <1>4 DEF Compute
  <2> QED  BY <2>1, <1>4, MultiplyExact, WordOfNumber, WordType DEF Exactly
<1>5. CASE op \in {"/", "%"} /\ Unsigned(t)
  <2>1. u \in Divide(op, v, w, t)
    BY <1>5 DEF Compute
  <2>2. w # 0 /\ u = IF op = "/" THEN v \div w ELSE v % w
    BY <2>1, <1>5 DEF Divide
  <2> QED  BY <2>2, <1>5, UnsignedDivision
<1>6. CASE op \in {"/", "%"} /\ ~Unsigned(t)
  <2>1. u \in DivideSigned(op, v, w, t)
    BY <1>6 DEF Compute, Divide
  <2> QED  BY <2>1, <1>6, SignedDivision
<1> QED  BY <1>2, <1>3, <1>4, <1>5, <1>6 DEF Operations

\* An operation traps only where arithmetic has no answer of the type.
LEMMA TrapsRightly ==
    ASSUME NEW t \in Types, NEW op \in Operations,
           NEW v \in Words(t), NEW w \in Words(t), Compute(op, v, w, t) = {}
    PROVE  /\ op \in {"/", "%"}
           /\ \/ NumberIn(w, t) = 0
              \/ op = "/" /\ ~InType(Quotient(NumberIn(v, t), NumberIn(w, t)), t)
<1>1. op \in {"/", "%"}
  BY DEF Compute, Operations
<1>2. Divide(op, v, w, t) = {}
  BY <1>1 DEF Compute
<1>3. CASE Unsigned(t)
  BY <1>1, <1>2, <1>3 DEF Divide, NumberIn
<1>4. CASE ~Unsigned(t)
  <2>1. PICK h \in Nat \ {0} : h = TwoTo[WidthOf(t) - 1] /\ TwoTo[WidthOf(t)] = 2 * h
    BY Halves
  <2>2. /\ NumberIn(v, t) = IF v >= h THEN v - 2 * h ELSE v
        /\ NumberIn(w, t) = IF w >= h THEN w - 2 * h ELSE w
    BY <1>4, <2>1 DEF NumberIn
  <2>3. NumberIn(w, t) = 0 \/ (op = "/" /\ Quotient(NumberIn(v, t), NumberIn(w, t)) = h)
    BY <1>2, <1>4, <2>1, <2>2 DEF Divide, DivideSigned
  <2>4. ~InType(h, t)
    BY <1>4, <2>1 DEF InType, Bounded
  <2> QED  BY <1>1, <2>3, <2>4
<1> QED  BY <1>1, <1>3, <1>4
-----------------------------------------------------------------------------
(* The literal. *)

WrittenLiterals == [digits : Written, form : {"decimal", "radix", "separated"},
             suffix : IntSuffixes \cup {"none"}, minus : BOOLEAN,
             step : [op : Operations \cup {"none"}, with : Int]]

LEMMA TypeOfLiteral == \A l \in WrittenLiterals : LiteralType(l) \in Types /\ l.digits \in Nat
<1>1. ASSUME NEW l \in WrittenLiterals PROVE l.digits \in Nat /\ l.suffix \in IntSuffixes \cup {"none"}
  BY NumbersAssumption DEF WrittenLiterals
<1>2. ASSUME NEW l \in WrittenLiterals PROVE LiteralType(l) \in Types
  BY <1>1 DEF LiteralType, Types, IntSuffixes
<1> QED  BY <1>1, <1>2

\* What a well-written literal says fits its type; its digits alone may be one more.
LEMMA WrittenBounds ==
    ASSUME NEW l \in WrittenLiterals, WellWritten(l), NEW h, h = TwoTo[WidthOf(LiteralType(l)) - 1]
    PROVE  /\ Unsigned(LiteralType(l)) => ~l.minus /\ l.digits \in 0 .. 2 * h - 1
           /\ ~Unsigned(LiteralType(l)) => l.digits \in 0 .. h /\ (~l.minus => l.digits # h)
           /\ h \in Nat \ {0} /\ TwoTo[WidthOf(LiteralType(l))] = 2 * h
<1>1. LiteralType(l) \in Types /\ l.digits \in Nat /\ l.minus \in BOOLEAN
  BY TypeOfLiteral DEF WrittenLiterals
<1>2. h \in Nat \ {0} /\ TwoTo[WidthOf(LiteralType(l))] = 2 * h
  BY <1>1, Halves
<1>3. /\ InType(IF l.minus THEN -l.digits ELSE l.digits, LiteralType(l))
      /\ (l.minus => ~Unsigned(LiteralType(l)))
  BY DEF WellWritten, Signed
<1>4. CASE Unsigned(LiteralType(l))
  BY <1>1, <1>2, <1>3, <1>4 DEF InType, Bounded
<1>5. CASE ~Unsigned(LiteralType(l))
  <2>1. (IF l.minus THEN -l.digits ELSE l.digits) \in -h .. h - 1
    BY <1>3, <1>5 DEF InType, Bounded
  <2> QED  BY <2>1, <1>1, <1>2, <1>5
<1> QED  BY <1>2, <1>4, <1>5

\* The checker rejects the plain literals that say no number of their type, and no others.
LEMMA RejectedRightly ==
    ASSUME NEW l \in WrittenLiterals, WellWritten(l)
    PROVE  ~WithinRange(l) <=> /\ l.suffix = "none" /\ l.form = "decimal"
                               /\ ~InType(l.digits, LiteralType(l))
<1>1. LiteralType(l) \in Types /\ l.digits \in Nat
  BY TypeOfLiteral
<1>2. PICK h \in Nat \ {0} : h = TwoTo[WidthOf(LiteralType(l)) - 1]
  BY <1>1, Halves
<1>3. l.suffix = "usize" => InType(l.digits, LiteralType(l))
  <2> SUFFICES ASSUME l.suffix = "usize" PROVE InType(l.digits, LiteralType(l))
    OBVIOUS
  <2>1. LiteralType(l) = "usize" /\ Unsigned(LiteralType(l))
    BY DEF LiteralType, Unsigned
  <2>2. ~l.minus /\ Signed(l) = l.digits
    BY <2>1 DEF WellWritten, Signed
  <2> QED  BY <2>2 DEF WellWritten
<1>4. l.suffix = "none" => Bounded(l.digits, Width[128], FALSE)
  <2> SUFFICES ASSUME l.suffix = "none" PROVE Bounded(l.digits, Width[128], FALSE)
    OBVIOUS
  <2>1. LiteralType(l) = "i32" /\ ~Unsigned("i32")
    BY DEF LiteralType, Unsigned
  <2>2. PICK g \in Nat \ {0} : g = TwoTo[Width[128] - 1] /\ 2 * h <= g
    BY <1>1, <1>2, <2>1, Narrower
  <2>3. l.digits \in 0 .. h
    BY <1>2, <2>1, WrittenBounds
  <2>4. l.digits \in -g .. g - 1
    BY <2>2, <2>3
  <2> QED  BY <2>2, <2>4 DEF Bounded
<1> QED  BY <1>3, <1>4 DEF WithinRange, ReadByCheck

\* A literal is parsed as what it says, and that is a word of its type.
LEMMA ParsedRightly ==
    ASSUME NEW l \in WrittenLiterals, WellWritten(l), ~SmallestI64(l)
    PROVE  /\ ParseIntLiteral(l) = l.digits
           /\ l.digits \in Words(LiteralType(l))
<1> DEFINE t == LiteralType(l)
<1>1. t \in Types /\ l.digits \in Nat /\ l.form # "separated"
  BY TypeOfLiteral DEF WellWritten
<1>2. PICK h \in Nat \ {0} : h = TwoTo[WidthOf(t) - 1] /\ TwoTo[WidthOf(t)] = 2 * h
  BY <1>1, Halves
<1>3. /\ Unsigned(t) => l.digits \in 0 .. 2 * h - 1
      /\ ~Unsigned(t) => l.digits \in 0 .. h /\ (~l.minus => l.digits # h)
  BY <1>2, WrittenBounds
<1>4. l.digits \in 0 .. 2 * h - 1
  BY <1>1, <1>3
<1>5. WordOf(l.digits, t) = l.digits
  BY <1>1, <1>2, <1>4, OwnWord DEF Words
<1>6. CASE Unsigned(t)
  <2>1. Parsed(l, WidthOf(t), TRUE) = l.digits
    BY <1>1, <1>2, <1>4 DEF Parsed, Bounded
  <2> QED  BY <2>1, <1>2, <1>4, <1>5, <1>6 DEF ParseIntLiteral, Words
<1>7. CASE ~Unsigned(t)
  <2>1. PICK g \in Nat \ {0} : g = TwoTo[Width[64] - 1] /\ h <= g /\ (t # "i64" => 2 * h <= g)
    BY <1>1, <1>2, <1>7, Narrower
  <2>2. t = "i64" => h = g
    BY <1>2, <2>1 DEF WidthOf
  <2>3. t = "i64" /\ l.minus => l.digits # g
    BY <2>1 DEF SmallestI64, LiteralType
  <2>4. l.digits \in -g .. g - 1
    BY <1>1, <1>3, <1>7, <2>1, <2>2, <2>3 DEF WrittenLiterals
  <2>5. Parsed(l, Width[64], FALSE) = l.digits
    BY <1>1, <2>1, <2>4 DEF Parsed, Bounded
  <2> QED  BY <2>5, <1>2, <1>4, <1>5, <1>7 DEF ParseIntLiteral, Words
<1> QED  BY <1>6, <1>7
-----------------------------------------------------------------------------
(* The invariant. *)

NumbersType ==
    /\ literal \in WrittenLiterals /\ word \in Int
    /\ reached \in {"written", "checked", "rejected", "constant", "operand", "computed", "trapped"}

\* A literal beyond the first stage has passed it.
Passed == reached \notin {"written", "rejected"} => WithinRange(literal)
Failed == reached = "rejected" => ~WithinRange(literal)

\* An operand is a word of its type.
Held == reached = "operand" => word \in Words(LiteralType(literal))

\* A constant is the digits, an operand the number.
Arrived ==
    WellWritten(literal) /\ ~SmallestI64(literal) =>
        /\ reached = "constant" => literal.minus /\ word = literal.digits
        /\ reached = "operand" => NumberIn(word, LiteralType(literal)) = Signed(literal)

\* What an operation has given, or why it has none.
Done ==
    LET t == LiteralType(literal)
        m == Signed(literal)
        op == literal.step.op
        n == NumberIn(literal.step.with, t)
    IN WellWritten(literal) /\ ~SmallestI64(literal) =>
         /\ reached = "computed" => Exactly(op, m, n, NumberIn(word, t), t)
         /\ reached = "trapped" => op \in {"/", "%"} /\ (n = 0 \/ (op = "/" /\ ~InType(Quotient(m, n), t)))

NumbersInv == NumbersType /\ Passed /\ Failed /\ Held /\ Arrived /\ Done

LEMMA NumbersStart == NumbersInit => NumbersInv
<1> SUFFICES ASSUME NumbersInit PROVE NumbersInv
  OBVIOUS
<1>1. reached = "written" /\ word = 0
  BY DEF NumbersInit
<1>2. literal \in WrittenLiterals
  BY DEF NumbersInit, WrittenLiterals, NoOperation
<1> QED  BY <1>1, <1>2 DEF NumbersInv, NumbersType, Passed, Failed, Held, Arrived, Done

LEMMA CheckKeeps == NumbersInv /\ CheckLiteral => NumbersInv'
<1> SUFFICES ASSUME NumbersInv, CheckLiteral PROVE NumbersInv'
  OBVIOUS
<1>1. /\ literal' = literal /\ word' = word
      /\ reached' = IF WithinRange(literal) THEN "checked" ELSE "rejected"
  BY DEF CheckLiteral
<1>2. NumbersType'
  BY <1>1 DEF NumbersInv, NumbersType
<1>3. Passed' /\ Failed'
  BY <1>1 DEF Passed, Failed
<1>4. Held' /\ Arrived' /\ Done'
  BY <1>1 DEF Held, Arrived, Done
<1> QED  BY <1>2, <1>3, <1>4 DEF NumbersInv

LEMMA LowerKeeps == NumbersInv /\ LowerLiteral => NumbersInv'
<1> SUFFICES ASSUME NumbersInv, LowerLiteral PROVE NumbersInv'
  OBVIOUS
<1>1. /\ literal' = literal /\ word' = ParseIntLiteral(literal) /\ reached = "checked"
      /\ reached' = IF literal.minus THEN "constant" ELSE "operand"
  BY DEF LowerLiteral
<1>2. literal \in WrittenLiterals /\ literal.minus \in BOOLEAN /\ literal.digits \in Nat
  BY TypeOfLiteral DEF NumbersInv, NumbersType, WrittenLiterals
<1>3. NumbersType' /\ Held'
  <2>1. ParseIntLiteral(literal) \in Words(LiteralType(literal)) /\ ParseIntLiteral(literal) \in Int
    <3>1. \A bits, unsigned : Parsed(literal, bits, unsigned) \in {0, literal.digits}
      BY DEF Parsed
    <3>2. PICK d \in Int : ParseIntLiteral(literal) = WordOf(d, LiteralType(literal))
      <4>1. PICK d \in {0, literal.digits} : ParseIntLiteral(literal) = WordOf(d, LiteralType(literal))
        BY <3>1 DEF ParseIntLiteral
      <4> QED  BY <4>1, <1>2
    <3> QED  BY <3>2, <1>2, TypeOfLiteral, WordType DEF Words
  <2> QED  BY <2>1, <1>1, <1>2 DEF NumbersInv, NumbersType, Held
<1>4. Passed' /\ Failed'
  BY <1>1 DEF NumbersInv, Passed, Failed
<1>5. Arrived'
  <2> SUFFICES ASSUME WellWritten(literal), ~SmallestI64(literal)
               PROVE  /\ reached' = "constant" => literal.minus /\ word' = literal.digits
                      /\ reached' = "operand" => NumberIn(word', LiteralType(literal)) = Signed(literal)
    BY <1>1 DEF Arrived
  <2>1. word' = literal.digits /\ literal.digits \in Words(LiteralType(literal))
    BY <1>1, <1>2, ParsedRightly
  <2>2. CASE literal.minus
    BY <2>1, <2>2, <1>1
  <2>3. CASE ~literal.minus
    <3>1. Signed(literal) = literal.digits /\ InType(literal.digits, LiteralType(literal))
      BY <2>3 DEF WellWritten, Signed
    <3>2. NumberIn(WordOf(literal.digits, LiteralType(literal)), LiteralType(literal)) = literal.digits
      BY <3>1, <1>2, TypeOfLiteral, NumberOfWord
    <3>3. WordOf(literal.digits, LiteralType(literal)) = literal.digits
      BY <2>1, <1>2, TypeOfLiteral, OwnWord
    <3> QED  BY <3>1, <3>2, <3>3, <2>1, <2>3, <1>1
  <2> QED  BY <2>2, <2>3
<1>6. Done'
  BY <1>1 DEF Done
<1> QED  BY <1>3, <1>4, <1>5, <1>6 DEF NumbersInv

LEMMA NegateKeeps == NumbersInv /\ Negate => NumbersInv'
<1> SUFFICES ASSUME NumbersInv, Negate PROVE NumbersInv'
  OBVIOUS
<1>1. /\ literal' = literal /\ reached = "constant" /\ reached' = "operand"
      /\ word' = WordOf(-word, LiteralType(literal))
  BY DEF Negate
<1>2. literal \in WrittenLiterals /\ literal.digits \in Nat /\ word \in Int /\ -word \in Int
  BY TypeOfLiteral DEF NumbersInv, NumbersType
<1>3. NumbersType' /\ Held'
  BY <1>1, <1>2, TypeOfLiteral, WordType DEF NumbersType, Held, Words
<1>4. Passed' /\ Failed'
  BY <1>1 DEF NumbersInv, Passed, Failed
<1>5. Arrived'
  <2> SUFFICES ASSUME WellWritten(literal), ~SmallestI64(literal)
               PROVE  NumberIn(word', LiteralType(literal)) = Signed(literal)
    BY <1>1 DEF Arrived
  <2>1. literal.minus /\ word = literal.digits
    BY <1>1 DEF NumbersInv, Arrived
  <2>2. Signed(literal) = -word /\ InType(-word, LiteralType(literal))
    BY <2>1 DEF WellWritten, Signed
  <2>3. NumberIn(WordOf(-word, LiteralType(literal)), LiteralType(literal)) = -word
    BY <2>2, <1>2, TypeOfLiteral, NumberOfWord
  <2> QED  BY <2>2, <2>3, <1>1
<1>6. Done'
  BY <1>1 DEF Done
<1> QED  BY <1>3, <1>4, <1>5, <1>6 DEF NumbersInv

LEMMA OperateKeeps ==
    ASSUME NumbersInv, NEW op \in Operations, NEW w \in Words(LiteralType(literal)), Operate(op, w)
    PROVE  NumbersInv'
<1>1. PICK t \in Types : t = LiteralType(literal)
  BY TypeOfLiteral DEF NumbersInv, NumbersType
<1>2. /\ literal' = [literal EXCEPT !.step = [op |-> op, with |-> w]] /\ reached = "operand"
      /\ reached' = IF Compute(op, word, w, t) = {} THEN "trapped" ELSE "computed"
      /\ word' \in IF Compute(op, word, w, t) = {} THEN {0} ELSE Compute(op, word, w, t)
  BY <1>1 DEF Operate
<1>3. literal \in WrittenLiterals /\ word \in Int /\ w \in Int
  BY <1>1, Halves DEF NumbersInv, NumbersType, Words
<1>4. /\ literal' \in WrittenLiterals
      /\ literal'.digits = literal.digits /\ literal'.form = literal.form
      /\ literal'.suffix = literal.suffix /\ literal'.minus = literal.minus
      /\ literal'.step = [op |-> op, with |-> w]
  BY <1>2, <1>3 DEF WrittenLiterals
<1>5. /\ LiteralType(literal') = t /\ Signed(literal') = Signed(literal)
      /\ WellWritten(literal') <=> WellWritten(literal)
      /\ SmallestI64(literal') <=> SmallestI64(literal)
      /\ WithinRange(literal') <=> WithinRange(literal)
  BY <1>1, <1>4 DEF LiteralType, Signed, WellWritten, SmallestI64, WithinRange, ReadByCheck
<1>6. word \in Words(t) /\ w \in Words(t)
  BY <1>1, <1>2 DEF NumbersInv, Held
<1>7. NumbersType'
  <2>1. word' \in Int
    BY <1>2, <1>6, ComputeExact
  <2> QED  BY <2>1, <1>2, <1>4 DEF NumbersType
<1>8. Passed' /\ Failed' /\ Held' /\ Arrived'
  BY <1>2, <1>5 DEF NumbersInv, Passed, Failed, Held, Arrived
<1>9. Done'
  <2> SUFFICES ASSUME WellWritten(literal), ~SmallestI64(literal)
               PROVE  /\ reached' = "computed" =>
                            Exactly(op, Signed(literal), NumberIn(w, t), NumberIn(word', t), t)
                      /\ reached' = "trapped" =>
                            /\ op \in {"/", "%"}
                            /\ \/ NumberIn(w, t) = 0
                               \/ op = "/" /\ ~InType(Quotient(Signed(literal), NumberIn(w, t)), t)
    BY <1>4, <1>5 DEF Done
  <2>1. NumberIn(word, t) = Signed(literal)
    BY <1>1, <1>2 DEF NumbersInv, Arrived
  <2>2. CASE Compute(op, word, w, t) = {}
    BY <2>1, <2>2, <1>2, <1>6, TrapsRightly
  <2>3. CASE Compute(op, word, w, t) # {}
    BY <2>1, <2>3, <1>2, <1>6, ComputeExact
  <2> QED  BY <2>2, <2>3
<1> QED  BY <1>7, <1>8, <1>9 DEF NumbersInv

\* The invariant holds in every reachable state, for any literals and ascending
\* widths (infer.rs:443, lower.rs:1569, jit.rs:1256).
THEOREM NumbersInductive == NumbersSpec => []NumbersInv
<1>1. NumbersInit => NumbersInv
  BY NumbersStart
<1>2. NumbersInv /\ [NumbersNext]_numberVars => NumbersInv'
  <2> SUFFICES ASSUME NumbersInv, [NumbersNext]_numberVars PROVE NumbersInv'
    OBVIOUS
  <2>1. CASE CheckLiteral
    BY <2>1, CheckKeeps
  <2>2. CASE LowerLiteral
    BY <2>2, LowerKeeps
  <2>3. CASE Negate
    BY <2>3, NegateKeeps
  <2>4. CASE \E op \in Operations, w \in 0 .. TwoTo[WidthOf(LiteralType(literal))] - 1 : Operate(op, w)
    BY <2>4, OperateKeeps DEF Words
  <2>5. CASE UNCHANGED numberVars
    BY <2>5 DEF numberVars, NumbersInv, NumbersType, Passed, Failed, Held, Arrived, Done
  <2> QED  BY <2>1, <2>2, <2>3, <2>4, <2>5 DEF NumbersNext
<1> QED  BY <1>1, <1>2, PTL DEF NumbersSpec

\* A literal that says a number of its type is that number in the program, but for
\* the two exceptions that ComputesAsWritten names, and what is computed with it is
\* what arithmetic gives up to the width: for any literals and ascending widths
\* (infer.rs:443, lower.rs:1569, jit.rs:1256).
THEOREM NumbersCompute == NumbersSpec => []ComputesAsWritten
<1>1. NumbersInv => ComputesAsWritten
  <2> SUFFICES ASSUME NumbersInv, WellWritten(literal), ~SmallestI64(literal)
               PROVE  reached = "rejected" <=>
                        /\ reached # "written" /\ literal.suffix = "none" /\ literal.form = "decimal"
                        /\ ~InType(literal.digits, LiteralType(literal))
    BY DEF NumbersInv, Arrived, Done, ComputesAsWritten
  <2>1. ~WithinRange(literal) <=> /\ literal.suffix = "none" /\ literal.form = "decimal"
                                  /\ ~InType(literal.digits, LiteralType(literal))
    BY RejectedRightly DEF NumbersInv, NumbersType
  <2> QED  BY <2>1 DEF NumbersInv, Passed, Failed
<1> QED  BY <1>1, NumbersInductive, PTL
-----------------------------------------------------------------------------
(* RecordLayout: where fields lie. *)

Names == Range(FieldNames)
\* Fields in a row, each with its size.
Rows == Seq(Names)

SizesOf(fs) == [n \in 1 .. Len(fs) |-> Size[fs[n]]]

\* The sizes of the fields of a row.
LEMMA RowSizes ==
    ASSUME NEW fs \in Rows
    PROVE  /\ SizesOf(fs) \in Seq(Nat \ {0}) /\ SizesOf(fs) \in Seq(Nat)
           /\ Len(SizesOf(fs)) = Len(fs)
           /\ \A n \in 1 .. Len(fs) : SizesOf(fs)[n] = Size[fs[n]]
<1>1. PICK k \in Nat : k = Len(fs) /\ DOMAIN fs = 1 .. k
  BY DEF Rows
<1>2. \A n \in 1 .. k : Size[fs[n]] \in Nat \ {0}
  BY <1>1, SizesPositive DEF Rows, Names
<1>3. PICK xs : xs = SizesOf(fs)
  OBVIOUS
<1>4. xs \in [1 .. k -> Nat \ {0}] /\ \A n \in 1 .. k : xs[n] = Size[fs[n]]
  BY <1>1, <1>2, <1>3 DEF SizesOf
<1>5. xs \in Seq(Nat \ {0}) /\ xs \in Seq(Nat) /\ Len(xs) = k
  BY <1>4
<1> QED  BY <1>1, <1>3, <1>4, <1>5

\* Fields lie one behind the other, none on another.
LEMMA OffsetsAscend ==
    ASSUME NEW fs \in Rows
    PROVE  \A i, j \in 1 .. Len(fs) + 1 :
              Before(fs, i) \in Nat /\ (i < j => Before(fs, i) < Before(fs, j))
<1>1. \A i : Before(fs, i) = SumBefore(SizesOf(fs), i)
  BY DEF Before, SizesOf
<1> QED  BY <1>1, RowSizes, SumsAre, SumsAscend

\* The offset of a field depends on the fields before it only.
LEMMA OffsetOfPrefix ==
    ASSUME NEW fs \in Rows, NEW gs \in Rows, Len(fs) <= Len(gs),
           \A n \in 1 .. Len(fs) : fs[n] = gs[n]
    PROVE  \A i \in 1 .. Len(fs) + 1 : Before(fs, i) = Before(gs, i)
<1>1. \A i : Before(fs, i) = SumBefore(SizesOf(fs), i) /\ Before(gs, i) = SumBefore(SizesOf(gs), i)
  BY DEF Before, SizesOf
<1>2. PICK k \in Nat, l \in Nat : k = Len(fs) /\ l = Len(gs) /\ k <= l
  BY DEF Rows
<1>3. \A n \in 1 .. k : n \in 1 .. l
  BY <1>2
<1>4. \A n \in 1 .. k : SizesOf(fs)[n] = SizesOf(gs)[n]
  <2>1. ASSUME NEW n \in 1 .. k PROVE SizesOf(fs)[n] = SizesOf(gs)[n]
    <3>1. fs[n] = gs[n] /\ n \in 1 .. l
      BY <1>2, <1>3
    <3>2. SizesOf(fs)[n] = Size[fs[n]] /\ SizesOf(gs)[n] = Size[gs[n]]
      BY <3>1, <1>2, RowSizes
    <3> QED  BY <3>1, <3>2
  <2> QED  BY <2>1
<1>5. \A i \in 1 .. k + 1 : SumBefore(SizesOf(fs), i) = SumBefore(SizesOf(gs), i)
  BY <1>2, <1>4, RowSizes, SumsOfPrefix
<1> QED  BY <1>1, <1>2, <1>5
-----------------------------------------------------------------------------
(* The fields of a type. *)

\* What Alphabetical makes of the first field names.
Among(fs, among) ==
    /\ DOMAIN among = 0 .. Len(FieldNames) /\ among[0] = << >>
    /\ \A n \in 1 .. Len(FieldNames) :
          among[n] = IF FieldNames[n] \in fs THEN Append(among[n - 1], FieldNames[n]) ELSE among[n - 1]

\* What the recursive function picks of the field names.
LEMMA AmongOf ==
    ASSUME NEW fs
    PROVE  \E among : Among(fs, among) /\ Alphabetical(fs) = among[Len(FieldNames)]
<1>1. PICK k \in Nat : k = Len(FieldNames) /\ DOMAIN FieldNames = 1 .. k
  BY FieldsAreNamed
<1>2. \A n \in 1 .. k : FieldNames[n] \in Names
  BY <1>1 DEF Names, Range
<1>3. PICK step : step = [n \in 1 .. k |-> [a \in Rows |->
                            IF FieldNames[n] \in fs THEN Append(a, FieldNames[n]) ELSE a]]
  OBVIOUS
<1>4. step \in [1 .. k -> [Rows -> Rows]]
  <2>1. ASSUME NEW n \in 1 .. k, NEW a \in Rows
        PROVE  (IF FieldNames[n] \in fs THEN Append(a, FieldNames[n]) ELSE a) \in Rows
    BY <1>2 DEF Rows
  <2> QED  BY <2>1, <1>3
<1>5. PICK f \in [0 .. k -> Rows] : Follows(f, k, << >>, step)
  <2>1. << >> \in Rows
    BY DEF Rows
  <2> QED  BY <2>1, <1>4, RecursionUpTo
<1>6. ASSUME NEW n \in 1 .. k
      PROVE  f[n] = IF FieldNames[n] \in fs THEN Append(f[n - 1], FieldNames[n]) ELSE f[n - 1]
  <2>1. f[n - 1] \in Rows /\ f[n] = step[n][f[n - 1]]
    BY <1>5 DEF Follows
  <2> QED  BY <2>1, <1>3
<1>7. f[0] = << >>
  BY <1>5 DEF Follows
<1> DEFINE R(among) == among = [n \in 0 .. Len(FieldNames) |->
                          IF n = 0 THEN << >>
                          ELSE IF FieldNames[n] \in fs THEN Append(among[n - 1], FieldNames[n])
                          ELSE among[n - 1]]
           A == CHOOSE among : R(among)
<1>8. R(f)
  BY SMTT(30), <1>1, <1>6, <1>7
<1>9. R(A)
  BY <1>8
<1>10. Alphabetical(fs) = A[Len(FieldNames)]
  BY DEF Alphabetical
<1> HIDE DEF A
<1>11. Among(fs, A)
  <2>1. DOMAIN A = 0 .. k /\ A[0] = << >>
    BY <1>1, <1>9
  <2>2. ASSUME NEW n \in 1 .. k
        PROVE  A[n] = IF FieldNames[n] \in fs THEN Append(A[n - 1], FieldNames[n]) ELSE A[n - 1]
    <3>1. n \in 0 .. k /\ n # 0
      OBVIOUS
    <3> QED  BY <3>1, <1>1, <1>9
  <2> QED  BY <2>1, <2>2, <1>1 DEF Among
<1> QED  BY <1>10, <1>11

\* The alphabetical row of a set of fields is a row of those fields.
LEMMA AlphabeticalFields ==
    ASSUME NEW fs
    PROVE  Alphabetical(fs) \in Rows /\ Range(Alphabetical(fs)) = fs \cap Names
<1>1. PICK k \in Nat : k = Len(FieldNames) /\ DOMAIN FieldNames = 1 .. k
  BY FieldsAreNamed
<1>2. \A n \in 1 .. k : FieldNames[n] \in Names
  BY <1>1 DEF Names, Range
<1>3. PICK a : Among(fs, a) /\ Alphabetical(fs) = a[k]
  BY <1>1, AmongOf
<1> DEFINE T == {n \in Nat : n <= k =>
                   /\ a[n] \in Rows
                   /\ Range(a[n]) = {FieldNames[m] : m \in 1 .. n} \cap fs}
<1>4. 0 \in T
  <2>1. a[0] = << >> /\ << >> \in Rows /\ Range(<< >>) = {} /\ 1 .. 0 = {}
    BY <1>3 DEF Among, Rows, Range
  <2> QED  BY <2>1
<1>5. ASSUME NEW n \in Nat, n \in T PROVE n + 1 \in T
  <2> SUFFICES ASSUME n + 1 <= k
               PROVE  /\ a[n + 1] \in Rows
                      /\ Range(a[n + 1]) = {FieldNames[m] : m \in 1 .. n + 1} \cap fs
    OBVIOUS
  <2>1. PICK after \in 1 .. k : after = n + 1 /\ after - 1 = n /\ n <= k
    OBVIOUS
  <2>2. a[n] \in Rows /\ Range(a[n]) = {FieldNames[m] : m \in 1 .. n} \cap fs
    BY <2>1, <1>5
  <2>3. {FieldNames[m] : m \in 1 .. n + 1} = {FieldNames[m] : m \in 1 .. n} \cup {FieldNames[n + 1]}
    <3>1. 1 .. n + 1 = (1 .. n) \cup {n + 1}
      OBVIOUS
    <3> QED  BY <3>1
  <2>4. CASE FieldNames[n + 1] \in fs
    <3>1. a[n + 1] = Append(a[n], FieldNames[n + 1]) /\ FieldNames[n + 1] \in Names
      <4>1. a[after] = Append(a[after - 1], FieldNames[after])
        BY <2>1, <2>4, <1>1, <1>3 DEF Among
      <4> QED  BY <4>1, <2>1, <1>2
    <3>2. a[n + 1] \in Rows
      BY <3>1, <2>2 DEF Rows
    <3>3. Range(a[n + 1]) = Range(a[n]) \cup {FieldNames[n + 1]}
      <4>1. PICK l \in Nat : l = Len(a[n]) /\ DOMAIN a[n] = 1 .. l
        BY <2>2 DEF Rows
      <4>2. /\ DOMAIN a[n + 1] = 1 .. l + 1 /\ a[n + 1][l + 1] = FieldNames[n + 1]
            /\ \A m \in 1 .. l : a[n + 1][m] = a[n][m]
        BY <3>1, <4>1, <2>2 DEF Rows
      <4>3. 1 .. l + 1 = (1 .. l) \cup {l + 1}
        OBVIOUS
      <4> QED  BY SMTT(30), <4>1, <4>2, <4>3 DEF Range
    <3> QED  BY <3>2, <3>3, <2>2, <2>3, <2>4
  <2>5. CASE FieldNames[n + 1] \notin fs
    <3>1. a[n + 1] = a[n]
      <4>1. a[after] = a[after - 1]
        BY <2>1, <2>5, <1>1, <1>3 DEF Among
      <4> QED  BY <4>1, <2>1
    <3> QED  BY <3>1, <2>2, <2>3, <2>5
  <2> QED  BY <2>4, <2>5
<1> HIDE DEF T
<1>6. Nat \subseteq T
  BY <1>4, <1>5, Induction
<1>7. a[k] \in Rows /\ Range(a[k]) = {FieldNames[m] : m \in 1 .. k} \cap fs
  BY <1>6 DEF T
<1>8. Names = {FieldNames[m] : m \in 1 .. k}
  BY <1>1 DEF Names, Range
<1> QED  BY <1>3, <1>7, <1>8
-----------------------------------------------------------------------------
(* Where the fields of a type lie, seen from the alphabet of all names. *)

\* The sizes of all names, zero for those that are no fields of a type.
Masked(fs) == [n \in 1 .. Len(FieldNames) |-> IF FieldNames[n] \in fs THEN Size[FieldNames[n]] ELSE 0]
\* The bytes of the fields of a type that come before a name.
InFront(fs, n) == SumBefore(Masked(fs), n)

LEMMA InFrontIs ==
    ASSUME NEW fs
    PROVE  /\ InFront(fs, 1) = 0
           /\ \A n \in 1 .. Len(FieldNames) + 1 : InFront(fs, n) \in Nat
           /\ \A n \in 1 .. Len(FieldNames) :
                 InFront(fs, n + 1) = InFront(fs, n) + (IF FieldNames[n] \in fs THEN Size[FieldNames[n]] ELSE 0)
<1>1. PICK k \in Nat : k = Len(FieldNames) /\ DOMAIN FieldNames = 1 .. k
  BY FieldsAreNamed
<1>2. \A n \in 1 .. k : FieldNames[n] \in Names /\ Size[FieldNames[n]] \in Nat
  BY <1>1, SizesPositive DEF Names, Range
<1>3. PICK xs : xs = Masked(fs)
  OBVIOUS
<1>4. /\ xs \in [1 .. k -> Nat]
      /\ \A n \in 1 .. k : xs[n] = IF FieldNames[n] \in fs THEN Size[FieldNames[n]] ELSE 0
  BY <1>1, <1>2, <1>3 DEF Masked
<1>5. xs \in Seq(Nat) /\ Len(xs) = k
  BY <1>4
<1>6. /\ SumBefore(xs, 1) = 0
      /\ \A n \in 1 .. k + 1 : SumBefore(xs, n) \in Nat
      /\ \A n \in 1 .. k : SumBefore(xs, n + 1) = SumBefore(xs, n) + xs[n]
  BY <1>5, SumsAre
<1> QED  BY <1>1, <1>3, <1>4, <1>6 DEF InFront

\* A field's offset is the bytes of the fields of its type before it.
LEMMA Offsets ==
    ASSUME NEW fs
    PROVE  /\ \A p \in 1 .. Len(Alphabetical(fs)) : \E m \in 1 .. Len(FieldNames) :
                 /\ Alphabetical(fs)[p] = FieldNames[m]
                 /\ Before(Alphabetical(fs), p) = InFront(fs, m)
           /\ Bytes(Alphabetical(fs)) = InFront(fs, Len(FieldNames) + 1)
<1>1. PICK k \in Nat : k = Len(FieldNames) /\ DOMAIN FieldNames = 1 .. k
  BY FieldsAreNamed
<1>2. \A n \in 1 .. k : FieldNames[n] \in Names
  BY <1>1 DEF Names, Range
<1>3. PICK a : Among(fs, a) /\ Alphabetical(fs) = a[k]
  BY <1>1, AmongOf
<1> DEFINE Lies(r, n) == \A p \in 1 .. Len(r) : \E m \in 1 .. n :
                            r[p] = FieldNames[m] /\ Before(r, p) = InFront(fs, m)
           T == {n \in Nat : n <= k =>
                   a[n] \in Rows /\ Lies(a[n], n) /\ Before(a[n], Len(a[n]) + 1) = InFront(fs, n + 1)}
<1>4. 0 \in T
  <2>1. PICK e : e = a[0]
    OBVIOUS
  <2>2. e = << >> /\ e \in Rows /\ Len(e) = 0
    BY <1>3, <2>1 DEF Among, Rows
  <2>3. Before(e, 1) = 0
    <3>1. SizesOf(e) \in Seq(Nat) /\ Before(e, 1) = SumBefore(SizesOf(e), 1)
      BY <2>2, RowSizes DEF Before, SizesOf
    <3> QED  BY <3>1, SumsAre
  <2>4. InFront(fs, 1) = 0
    BY InFrontIs
  <2>5. Lies(e, 0)
    BY <2>2
  <2>6. Before(e, Len(e) + 1) = InFront(fs, 0 + 1)
    BY <2>2, <2>3, <2>4
  <2> HIDE DEF Lies
  <2> QED  BY <2>1, <2>2, <2>5, <2>6
<1>5. ASSUME NEW n \in Nat, n \in T PROVE n + 1 \in T
  <2> SUFFICES ASSUME n + 1 <= k
               PROVE  /\ a[n + 1] \in Rows /\ Lies(a[n + 1], n + 1)
                      /\ Before(a[n + 1], Len(a[n + 1]) + 1) = InFront(fs, n + 2)
    <3>1. n + 1 + 1 = n + 2
      OBVIOUS
    <3> QED  BY <3>1
  <2>1. PICK after \in 1 .. k : after = n + 1 /\ after - 1 = n /\ after + 1 = n + 2 /\ n <= k
    OBVIOUS
  <2>2. PICK r \in Rows : r = a[n] /\ Lies(r, n) /\ Before(r, Len(r) + 1) = InFront(fs, after)
    BY <2>1, <1>5
  <2>3. PICK l \in Nat : l = Len(r)
    BY DEF Rows
  <2>4. CASE FieldNames[after] \in fs
    <3>1. PICK f \in Names : f = FieldNames[after]
      BY <1>2
    <3>2. PICK s : s = a[n + 1] /\ s = Append(r, f)
      BY <2>1, <2>2, <2>4, <3>1, <1>1, <1>3 DEF Among
    <3>3. s \in Rows /\ Len(s) = l + 1 /\ s[l + 1] = f /\ \A p \in 1 .. l : s[p] = r[p]
      BY <3>2, <2>3 DEF Rows
    <3>4. \A p \in 1 .. l + 1 : Before(s, p) = Before(r, p)
      <4>1. Len(r) <= Len(s) /\ \A p \in 1 .. Len(r) : r[p] = s[p]
        BY <2>3, <3>3
      <4> QED  BY <4>1, <2>3, <3>3, OffsetOfPrefix
    <3>5. Lies(s, n + 1)
      <4>1. ASSUME NEW p \in 1 .. l
            PROVE  \E m \in 1 .. n + 1 : s[p] = FieldNames[m] /\ Before(s, p) = InFront(fs, m)
        <5>1. PICK m \in 1 .. n : r[p] = FieldNames[m] /\ Before(r, p) = InFront(fs, m)
          BY <2>2, <2>3
        <5>2. m \in 1 .. n + 1 /\ p \in 1 .. l + 1
          OBVIOUS
        <5> QED  BY <5>1, <5>2, <3>3, <3>4
      <4>2. s[l + 1] = FieldNames[after] /\ Before(s, l + 1) = InFront(fs, after)
        <5>1. l + 1 \in 1 .. l + 1
          OBVIOUS
        <5> QED  BY <5>1, <2>2, <2>3, <3>1, <3>3, <3>4
      <4>3. ASSUME NEW p \in 1 .. Len(s)
            PROVE  \E m \in 1 .. n + 1 : s[p] = FieldNames[m] /\ Before(s, p) = InFront(fs, m)
        <5>1. p \in 1 .. l \/ p = l + 1
          BY <3>3
        <5>2. after \in 1 .. n + 1
          BY <2>1
        <5> QED  BY <5>1, <5>2, <4>1, <4>2
      <4> QED  BY <4>3
    <3>6. Before(s, l + 2) = Before(s, l + 1) + Size[f]
      <4>1. SizesOf(s) \in Seq(Nat) /\ Len(SizesOf(s)) = l + 1 /\ SizesOf(s)[l + 1] = Size[f]
        <5>1. l + 1 \in 1 .. Len(s)
          BY <3>3
        <5> QED  BY <5>1, <3>3, RowSizes
      <4>2. l + 1 \in 1 .. Len(SizesOf(s)) /\ l + 1 + 1 = l + 2
        BY <4>1
      <4>3. SumBefore(SizesOf(s), l + 2) = SumBefore(SizesOf(s), l + 1) + SizesOf(s)[l + 1]
        BY <4>1, <4>2, SumsAre
      <4> QED  BY <4>1, <4>3 DEF Before, SizesOf
    <3>7. InFront(fs, after + 1) = InFront(fs, after) + Size[f]
      BY <2>4, <3>1, <1>1, InFrontIs
    <3>8. Before(s, Len(s) + 1) = InFront(fs, n + 2)
      <4>1. Len(s) + 1 = l + 2 /\ l + 1 \in 1 .. l + 1
        BY <3>3
      <4> QED  BY <4>1, <3>4, <3>6, <3>7, <2>1, <2>2, <2>3
    <3> QED  BY <3>2, <3>3, <3>5, <3>8
  <2>5. CASE FieldNames[after] \notin fs
    <3>1. a[n + 1] = r
      BY <2>1, <2>2, <2>5, <1>1, <1>3 DEF Among
    <3>2. InFront(fs, after + 1) = InFront(fs, after)
      <4>1. after \in 1 .. k + 1
        OBVIOUS
      <4>2. InFront(fs, after) \in Nat /\ InFront(fs, after + 1) = InFront(fs, after) + 0
        BY <4>1, <2>5, <1>1, InFrontIs
      <4> QED  BY <4>2
    <3>3. Lies(r, n + 1)
      <4>1. \A m \in 1 .. n : m \in 1 .. n + 1
        OBVIOUS
      <4> QED  BY <4>1, <2>2
    <3> QED  BY <3>1, <3>2, <3>3, <2>1, <2>2
  <2> QED  BY <2>1, <2>4, <2>5
<1> HIDE DEF T
<1>6. Nat \subseteq T
  BY <1>4, <1>5, Induction
<1>7. a[k] \in Rows /\ Lies(a[k], k) /\ Before(a[k], Len(a[k]) + 1) = InFront(fs, k + 1)
  BY <1>6 DEF T
<1> QED  BY <1>1, <1>3, <1>7 DEF Bytes

\* A type with fewer fields has fewer bytes in front, unless it has kept all there.
LEMMA FewerInFront ==
    ASSUME NEW fs, NEW gs, fs \subseteq gs
    PROVE  \A n \in 1 .. Len(FieldNames) + 1 :
              /\ InFront(fs, n) <= InFront(gs, n)
              /\ InFront(fs, n) = InFront(gs, n) <=>
                    \A m \in 1 .. Len(FieldNames) : m < n /\ FieldNames[m] \in gs => FieldNames[m] \in fs
<1>1. PICK k \in Nat : k = Len(FieldNames) /\ DOMAIN FieldNames = 1 .. k
  BY FieldsAreNamed
<1>2. \A n \in 1 .. k : Size[FieldNames[n]] \in Nat \ {0}
  BY <1>1, SizesPositive DEF Range
<1> DEFINE All(n) == \A m \in 1 .. k : m < n /\ FieldNames[m] \in gs => FieldNames[m] \in fs
           T == {n \in Nat : n <= k =>
                   /\ InFront(fs, n + 1) <= InFront(gs, n + 1)
                   /\ InFront(fs, n + 1) = InFront(gs, n + 1) <=> All(n + 1)}
<1>3. 0 \in T
  BY InFrontIs
<1>4. ASSUME NEW n \in Nat, n \in T PROVE n + 1 \in T
  <2> SUFFICES ASSUME n + 1 <= k
               PROVE  /\ InFront(fs, n + 2) <= InFront(gs, n + 2)
                      /\ InFront(fs, n + 2) = InFront(gs, n + 2) <=> All(n + 2)
    <3>1. n + 1 + 1 = n + 2
      OBVIOUS
    <3> QED  BY <3>1
  <2>1. PICK here \in 1 .. k : here = n + 1 /\ here + 1 = n + 2 /\ here \in 1 .. k + 1
    OBVIOUS
  <2>2. InFront(fs, here) <= InFront(gs, here) /\ (InFront(fs, here) = InFront(gs, here) <=> All(here))
    BY <2>1, <1>4
  <2>3. /\ InFront(fs, here) \in Nat /\ InFront(gs, here) \in Nat
        /\ InFront(fs, here + 1) = InFront(fs, here) + (IF FieldNames[here] \in fs THEN Size[FieldNames[here]] ELSE 0)
        /\ InFront(gs, here + 1) = InFront(gs, here) + (IF FieldNames[here] \in gs THEN Size[FieldNames[here]] ELSE 0)
    BY <2>1, <1>1, InFrontIs
  <2>4. Size[FieldNames[here]] \in Nat \ {0}
    BY <1>2
  <2>5. All(here + 1) <=> All(here) /\ (FieldNames[here] \in gs => FieldNames[here] \in fs)
    <3>1. \A m \in 1 .. k : m < here + 1 <=> m < here \/ m = here
      OBVIOUS
    <3> QED  BY <3>1
  <2> HIDE DEF All
  <2>6. FieldNames[here] \in fs => FieldNames[here] \in gs
    OBVIOUS
  <2>7. /\ InFront(fs, here + 1) <= InFront(gs, here + 1)
        /\ InFront(fs, here + 1) = InFront(gs, here + 1) <=> All(here + 1)
    BY <2>2, <2>3, <2>4, <2>5, <2>6
  <2> QED  BY <2>1, <2>7
<1> HIDE DEF T
<1>5. Nat \subseteq T
  BY <1>3, <1>4, Induction
<1>6. ASSUME NEW n \in 1 .. k + 1
      PROVE  InFront(fs, n) <= InFront(gs, n) /\ (InFront(fs, n) = InFront(gs, n) <=> All(n))
  <2>1. PICK b \in Nat : n = b + 1 /\ b <= k
    <3>1. n - 1 \in Nat /\ n = n - 1 + 1 /\ n - 1 <= k
      OBVIOUS
    <3> QED  BY <3>1
  <2> QED  BY <2>1, <1>5 DEF T
<1> QED  BY <1>1, <1>6

\* A field has fewer bytes in front than what comes after it.
LEMMA InFrontAscends ==
    ASSUME NEW fs, NEW m \in 1 .. Len(FieldNames), NEW n \in 1 .. Len(FieldNames)
    PROVE  /\ m <= n => InFront(fs, m) <= InFront(fs, n)
           /\ m < n /\ FieldNames[m] \in fs => InFront(fs, m) < InFront(fs, n)
<1>1. PICK k \in Nat : k = Len(FieldNames) /\ DOMAIN FieldNames = 1 .. k
  BY FieldsAreNamed
<1>2. ASSUME NEW i \in 1 .. k
      PROVE  /\ InFront(fs, i) \in Nat /\ InFront(fs, i + 1) \in Nat /\ InFront(fs, i) <= InFront(fs, i + 1)
             /\ FieldNames[i] \in fs => InFront(fs, i) < InFront(fs, i + 1)
  <2>1. Size[FieldNames[i]] \in Nat \ {0}
    BY <1>1, SizesPositive DEF Range
  <2>2. i \in 1 .. k + 1 /\ i + 1 \in 1 .. k + 1
    OBVIOUS
  <2>3. InFront(fs, i) \in Nat /\ InFront(fs, i + 1) \in Nat
    BY <2>2, <1>1, InFrontIs
  <2>4. InFront(fs, i + 1) = InFront(fs, i) + (IF FieldNames[i] \in fs THEN Size[FieldNames[i]] ELSE 0)
    BY <1>1, InFrontIs
  <2> QED  BY <2>1, <2>3, <2>4
<1> DEFINE T == {d \in Nat : \A i \in 1 .. k : i + d <= k => InFront(fs, i) <= InFront(fs, i + d)}
<1>3. 0 \in T
  BY <1>2
<1>4. ASSUME NEW d \in Nat, d \in T PROVE d + 1 \in T
  <2> SUFFICES ASSUME NEW i \in 1 .. k, i + (d + 1) <= k PROVE InFront(fs, i) <= InFront(fs, i + (d + 1))
    OBVIOUS
  <2>1. InFront(fs, i) <= InFront(fs, i + d)
    BY <1>4
  <2>2. PICK j \in 1 .. k : j = i + d /\ j + 1 = i + (d + 1)
    OBVIOUS
  <2> QED  BY <2>1, <2>2, <1>2
<1> HIDE DEF T
<1>5. Nat \subseteq T
  BY <1>3, <1>4, Induction
<1>6. ASSUME NEW i \in 1 .. k, NEW j \in 1 .. k, i <= j PROVE InFront(fs, i) <= InFront(fs, j)
  <2>1. PICK d \in Nat : i + d = j
    <3>1. j - i \in Nat /\ i + (j - i) = j
      BY <1>6
    <3> QED  BY <3>1
  <2>2. d \in T
    BY <1>5
  <2>3. \A p \in 1 .. k : p + d <= k => InFront(fs, p) <= InFront(fs, p + d)
    BY <2>2 DEF T
  <2> QED  BY <2>1, <2>3
<1>7. ASSUME m < n, FieldNames[m] \in fs PROVE InFront(fs, m) < InFront(fs, n)
  <2>1. m + 1 \in 1 .. k /\ m + 1 <= n
    BY <1>1, <1>7
  <2> QED  BY <2>1, <1>1, <1>2, <1>6, <1>7
<1> QED  BY <1>1, <1>6, <1>7
-----------------------------------------------------------------------------
(* The block, and what is read and released under a type that has lost fields. *)

\* The block has the fields of the literal, by the alphabet.
BlockOK == block \in Rows /\ block = Alphabetical(Range(block))
RecordTypeOK == BlockOK /\ static \subseteq Range(block) /\ freed \in Nat
RecordInv == RecordTypeOK /\ ReadsInOrder /\ FreesWhole

LEMMA BlockOrder ==
    ASSUME BlockOK, NEW i \in 1 .. Len(block), NEW j \in 1 .. Len(block),
           NEW m \in 1 .. Len(FieldNames), NEW n \in 1 .. Len(FieldNames),
           block[i] = FieldNames[m], block[j] = FieldNames[n]
    PROVE  /\ Before(block, i) = InFront(Range(block), m)
           /\ i < j <=> m < n
           /\ i = j <=> m = n
<1>1. PICK k \in Nat, l \in Nat : /\ k = Len(FieldNames) /\ DOMAIN FieldNames = 1 .. k
                                  /\ l = Len(block) /\ DOMAIN block = 1 .. l
  BY FieldsAreNamed DEF BlockOK, Rows
<1>2. PICK b : b = Range(block) /\ block = Alphabetical(b)
  BY DEF BlockOK
<1>3. ASSUME NEW p \in 1 .. l, NEW q \in 1 .. k, block[p] = FieldNames[q]
      PROVE  Before(block, p) = InFront(b, q) /\ FieldNames[q] \in b
  <2>1. PICK r \in 1 .. k : block[p] = FieldNames[r] /\ Before(block, p) = InFront(b, r)
    BY <1>1, <1>2, Offsets
  <2>2. r = q
    BY <2>1, <1>1, <1>3, FieldsAreDistinct DEF IsInjective
  <2> QED  BY <2>1, <2>2, <1>1, <1>2, <1>3 DEF Range
<1>4. /\ Before(block, i) \in Nat /\ Before(block, j) \in Nat
      /\ i < j => Before(block, i) < Before(block, j)
      /\ j < i => Before(block, j) < Before(block, i)
  <2>1. i \in 1 .. Len(block) + 1 /\ j \in 1 .. Len(block) + 1
    BY <1>1
  <2> QED  BY <2>1, OffsetsAscend DEF BlockOK
<1>5. /\ m < n => InFront(b, m) < InFront(b, n)
      /\ n < m => InFront(b, n) < InFront(b, m)
  BY <1>1, <1>3, InFrontAscends
<1>6. Before(block, i) = InFront(b, m) /\ Before(block, j) = InFront(b, n)
  BY <1>1, <1>3
<1>7. (i < j <=> m < n) /\ (i = j <=> m = n)
  BY <1>1, <1>4, <1>5, <1>6
<1> QED  BY <1>2, <1>6, <1>7

\* Each field of the block is a name, and is there once.
LEMMA BlockNames ==
    ASSUME BlockOK, NEW i \in 1 .. Len(block)
    PROVE  \E m \in 1 .. Len(FieldNames) : block[i] = FieldNames[m]
  BY Offsets DEF BlockOK

LEMMA BlockDistinct ==
    ASSUME BlockOK, NEW i \in 1 .. Len(block), NEW j \in 1 .. Len(block), block[i] = block[j]
    PROVE  i = j
<1>1. PICK m \in 1 .. Len(FieldNames) : block[i] = FieldNames[m]
  BY BlockNames
<1> QED  BY <1>1, BlockOrder

\* A field's offset under a type is not beyond its own, and its own exactly when the
\* type has kept the fields in front of it.
LEMMA KeptIs ==
    ASSUME RecordTypeOK, NEW i \in 1 .. Len(Alphabetical(static))
    PROVE  \E j \in 1 .. Len(block) :
              /\ block[j] = Alphabetical(static)[i]
              /\ Before(Alphabetical(static), i) <= Before(block, j)
              /\ Before(Alphabetical(static), i) = Before(block, j) <=> Kept(block[j])
<1>1. PICK k \in Nat, l \in Nat : /\ k = Len(FieldNames) /\ DOMAIN FieldNames = 1 .. k
                                  /\ l = Len(block) /\ DOMAIN block = 1 .. l
  BY FieldsAreNamed DEF RecordTypeOK, BlockOK, Rows
<1>2. PICK t \in Rows : t = Alphabetical(static) /\ Range(t) \subseteq static
  BY AlphabeticalFields
<1>3. PICK m \in 1 .. k : t[i] = FieldNames[m] /\ Before(t, i) = InFront(static, m)
  BY <1>1, <1>2, Offsets
<1>4. t[i] \in static
  <2>1. i \in DOMAIN t
    BY <1>2 DEF Rows
  <2> QED  BY <2>1, <1>2 DEF Range
<1>5. PICK j \in 1 .. l : block[j] = FieldNames[m]
  BY <1>1, <1>3, <1>4 DEF RecordTypeOK, Range
<1>6. PICK b : b = Range(block) /\ static \subseteq b
  BY DEF RecordTypeOK
<1>7. Before(block, j) = InFront(b, m)
  BY <1>1, <1>5, <1>6, BlockOrder DEF RecordTypeOK
<1>8. /\ InFront(static, m) <= InFront(b, m)
      /\ InFront(static, m) = InFront(b, m) <=>
            \A q \in 1 .. k : q < m /\ FieldNames[q] \in b => FieldNames[q] \in static
  <2>1. m \in 1 .. Len(FieldNames) + 1
    BY <1>1
  <2>2. static \subseteq b
    BY <1>6
  <2>3. /\ InFront(static, m) <= InFront(b, m)
        /\ InFront(static, m) = InFront(b, m) <=>
              \A q \in 1 .. Len(FieldNames) : q < m /\ FieldNames[q] \in b => FieldNames[q] \in static
    BY <2>1, <2>2, FewerInFront
  <2> QED  BY <2>3, <1>1
<1>9. ASSUME Kept(block[j]), NEW q \in 1 .. k, q < m, FieldNames[q] \in b PROVE FieldNames[q] \in static
  <2>1. PICK p \in 1 .. l : block[p] = FieldNames[q]
    BY <1>1, <1>6, <1>9 DEF Range
  <2>2. p < j
    BY <2>1, <1>1, <1>5, <1>9, BlockOrder DEF RecordTypeOK
  <2> QED  BY <2>1, <2>2, <1>1, <1>9 DEF Kept
<1>10. ASSUME \A q \in 1 .. k : q < m /\ FieldNames[q] \in b => FieldNames[q] \in static,
              NEW p \in 1 .. l, NEW p2 \in 1 .. l, p < p2, block[p2] = block[j]
       PROVE  block[p] \in static
  <2>1. PICK q \in 1 .. k : block[p] = FieldNames[q]
    BY <1>1, BlockNames DEF RecordTypeOK
  <2>2. q < m
    BY <2>1, <1>1, <1>5, <1>10, BlockOrder DEF RecordTypeOK
  <2>3. FieldNames[q] \in b
    BY <2>1, <1>1, <1>6 DEF Range
  <2> QED  BY <2>1, <2>2, <2>3, <1>10
<1>11. Kept(block[j]) <=> \A q \in 1 .. k : q < m /\ FieldNames[q] \in b => FieldNames[q] \in static
  <2>1. Kept(block[j]) => \A q \in 1 .. k : q < m /\ FieldNames[q] \in b => FieldNames[q] \in static
    BY <1>9
  <2>2. ASSUME \A q \in 1 .. k : q < m /\ FieldNames[q] \in b => FieldNames[q] \in static
        PROVE  Kept(block[j])
    BY <2>2, <1>1, <1>10 DEF Kept
  <2> QED  BY <2>1, <2>2
<1> QED  BY <1>1, <1>2, <1>3, <1>5, <1>7, <1>8, <1>11

\* A load of a field that has kept its place finds it, ...
LEMMA LoadFinds ==
    ASSUME RecordTypeOK, NEW i \in 1 .. Len(Alphabetical(static)), Kept(Alphabetical(static)[i])
    PROVE  Load(i) = {Alphabetical(static)[i]}
<1>1. PICK t \in Rows : t = Alphabetical(static)
  BY AlphabeticalFields
<1>2. PICK j \in 1 .. Len(block) : block[j] = t[i] /\ Before(t, i) = Before(block, j)
  BY <1>1, KeptIs
<1>3. i \in DOMAIN t
  BY <1>1 DEF Rows
<1>4. Load(i) = CellAt(Before(block, j), Size[block[j]])
  BY <1>1, <1>2, <1>3 DEF Load
<1>5. DOMAIN block = 1 .. Len(block) /\ Len(block) \in Nat
  BY DEF RecordTypeOK, BlockOK, Rows
<1>6. ASSUME NEW p \in 1 .. Len(block), Before(block, p) = Before(block, j) PROVE p = j
  <2>1. /\ Before(block, p) \in Nat /\ Before(block, j) \in Nat
        /\ p < j => Before(block, p) < Before(block, j)
        /\ j < p => Before(block, j) < Before(block, p)
    BY <1>5, OffsetsAscend DEF RecordTypeOK, BlockOK
  <2> QED  BY <2>1, <1>5, <1>6
<1>7. CellAt(Before(block, j), Size[block[j]]) = {block[j]}
  BY <1>5, <1>6 DEF CellAt
<1> QED  BY <1>1, <1>2, <1>4, <1>7

\* ... and whatever a load finds begins there.
LEMMA LoadTells ==
    ASSUME RecordTypeOK, NEW i \in 1 .. Len(Alphabetical(static)),
           NEW j \in 1 .. Len(block), block[j] \in Load(i)
    PROVE  Before(block, j) = Before(Alphabetical(static), i)
<1>1. DOMAIN block = 1 .. Len(block)
  BY DEF RecordTypeOK, BlockOK, Rows
<1>2. PICK p \in DOMAIN block : block[p] = block[j] /\ Before(block, p) = Before(Alphabetical(static), i)
  <2>1. PICK size : block[j] \in CellAt(Before(Alphabetical(static), i), size)
    BY DEF Load
  <2> QED  BY <2>1 DEF CellAt
<1>3. p = j
  BY <1>1, <1>2, BlockDistinct DEF RecordTypeOK
<1> QED  BY <1>2, <1>3

\* Where a field of a type is.
LEMMA PlaceOf ==
    ASSUME RecordTypeOK, NEW f \in static
    PROVE  \E i \in 1 .. Len(Alphabetical(static)) :
              /\ i = FieldIndexOf(f) /\ Alphabetical(static)[i] = f
              /\ \E j \in 1 .. Len(block) :
                    /\ block[j] = f
                    /\ Before(Alphabetical(static), i) = Before(block, j) <=> Kept(f)
<1>1. PICK t \in Rows : t = Alphabetical(static) /\ Range(t) = static \cap Names
  BY AlphabeticalFields
<1>2. f \in Names
  <2>1. PICK j \in DOMAIN block : block[j] = f
    BY DEF RecordTypeOK, Range
  <2> QED  BY <2>1 DEF RecordTypeOK, BlockOK, Rows
<1>3. DOMAIN t = 1 .. Len(t)
  BY DEF Rows
<1>4. \E i \in DOMAIN t : t[i] = f
  BY <1>1, <1>2 DEF Range
<1>5. PICK i \in DOMAIN t : i = FieldIndexOf(f) /\ t[i] = f
  BY <1>1, <1>4 DEF FieldIndexOf
<1> QED  BY <1>1, <1>3, <1>5, KeptIs

\* What a load at a place finds when a field is asked for.
LEMMA AskedFor ==
    ASSUME RecordTypeOK, NEW f \in static, NEW i, Kept(f) \/ FieldIndexOf(f) = i
    PROVE  Load(i) = {f} <=> Kept(f) /\ FieldIndexOf(f) = i
<1>1. PICK t \in Rows : t = Alphabetical(static)
  BY AlphabeticalFields
<1>2. PICK own \in 1 .. Len(t), j \in 1 .. Len(block) :
          /\ own = FieldIndexOf(f) /\ t[own] = f /\ block[j] = f
          /\ Before(t, own) = Before(block, j) <=> Kept(f)
  BY <1>1, PlaceOf
<1>3. DOMAIN t = 1 .. Len(t) /\ Len(t) \in Nat
  BY DEF Rows
<1>4. ASSUME Kept(f), own = i PROVE Load(i) = {f}
  BY <1>1, <1>2, <1>4, LoadFinds
<1>5. ASSUME Load(i) = {f} PROVE Kept(f) /\ own = i
  <2>1. i \in 1 .. Len(t)
    BY <1>1, <1>3, <1>5 DEF Load
  <2>2. Before(block, j) = Before(t, i)
    BY <2>1, <1>1, <1>2, <1>5, LoadTells
  <2>3. CASE own = i
    BY <2>2, <2>3, <1>2
  <2>4. CASE own # i /\ Kept(f)
    <3>1. Before(t, own) = Before(t, i)
      BY <2>2, <2>4, <1>2
    <3>2. /\ Before(t, own) \in Nat /\ Before(t, i) \in Nat
          /\ own < i => Before(t, own) < Before(t, i)
          /\ i < own => Before(t, i) < Before(t, own)
      BY <2>1, <1>2, <1>3, OffsetsAscend
    <3> QED  BY <3>1, <3>2, <2>1, <2>4, <1>2, <1>3
  <2> QED  BY <2>3, <2>4, <1>2
<1> QED  BY <1>2, <1>4, <1>5

\* What is freed with the bytes of the type is all of it exactly under the whole type.
LEMMA BytesOfType ==
    ASSUME RecordTypeOK
    PROVE  /\ Bytes(Alphabetical(static)) \in Nat /\ Bytes(block) \in Nat
           /\ Bytes(Alphabetical(static)) = Bytes(block) <=> static = Range(block)
<1>1. PICK k \in Nat : k = Len(FieldNames) /\ DOMAIN FieldNames = 1 .. k
  BY FieldsAreNamed
<1>2. PICK b : b = Range(block) /\ static \subseteq b /\ block = Alphabetical(b)
  BY DEF RecordTypeOK, BlockOK
<1>3. Bytes(Alphabetical(static)) = InFront(static, k + 1) /\ Bytes(block) = InFront(b, k + 1)
  BY <1>1, <1>2, Offsets
<1>4. k + 1 \in 1 .. k + 1
  OBVIOUS
<1>5. InFront(static, k + 1) \in Nat /\ InFront(b, k + 1) \in Nat
  BY <1>1, <1>4, InFrontIs
<1>6. InFront(static, k + 1) = InFront(b, k + 1) <=>
         \A m \in 1 .. k : m < k + 1 /\ FieldNames[m] \in b => FieldNames[m] \in static
  <2>1. static \subseteq b /\ k + 1 \in 1 .. Len(FieldNames) + 1
    BY <1>1, <1>2
  <2>2. InFront(static, k + 1) = InFront(b, k + 1) <=>
           \A m \in 1 .. Len(FieldNames) : m < k + 1 /\ FieldNames[m] \in b => FieldNames[m] \in static
    BY <2>1, FewerInFront
  <2> QED  BY <2>2, <1>1
<1>7. b \subseteq Names
  BY <1>2, AlphabeticalFields DEF RecordTypeOK
<1>8. (\A m \in 1 .. k : m < k + 1 /\ FieldNames[m] \in b => FieldNames[m] \in static) => b \subseteq static
  BY <1>1, <1>7 DEF Names, Range
<1>9. b \subseteq static => (\A m \in 1 .. k : m < k + 1 /\ FieldNames[m] \in b => FieldNames[m] \in static)
  OBVIOUS
<1> QED  BY <1>2, <1>3, <1>5, <1>6, <1>8, <1>9

\* What freeing releases are the counted fields exactly when all of them have kept
\* their places: the last one that has not is not found by those behind it, which
\* have, nor by itself or those in front of it, which are read too far in front.
LEMMA ReleasedCounted ==
    ASSUME RecordTypeOK, NEW cells,
           cells = UNION {Load(i) : i \in {j \in DOMAIN Alphabetical(static) : Alphabetical(static)[j] \in Counted}}
    PROVE  cells = Counted \cap Range(block) <=>
              \A f \in Counted \cap Range(block) : f \in static /\ Kept(f)
<1>1. PICK t \in Rows : t = Alphabetical(static) /\ Range(t) = static \cap Names
  BY AlphabeticalFields
<1>2. DOMAIN t = 1 .. Len(t) /\ Len(t) \in Nat /\ DOMAIN block = 1 .. Len(block) /\ Len(block) \in Nat
  BY DEF RecordTypeOK, BlockOK, Rows
<1>3. cells = UNION {Load(i) : i \in {j \in DOMAIN t : t[j] \in Counted}}
  BY <1>1
<1>4. ASSUME \A f \in Counted \cap Range(block) : f \in static /\ Kept(f)
      PROVE  cells = Counted \cap Range(block)
  <2>1. ASSUME NEW i \in DOMAIN t, t[i] \in Counted PROVE t[i] \in Range(block) /\ Load(i) = {t[i]}
    <3>1. t[i] \in static
      BY <1>1 DEF Range
    <3>2. t[i] \in Range(block) /\ Kept(t[i])
      BY <3>1, <2>1, <1>4 DEF RecordTypeOK
    <3> QED  BY <3>2, <1>1, <1>2, LoadFinds
  <2>2. cells \subseteq Counted \cap Range(block)
    BY <2>1, <1>3
  <2>3. ASSUME NEW f \in Counted \cap Range(block) PROVE f \in cells
    <3>1. f \in static
      BY <1>4
    <3>2. PICK i \in DOMAIN t : t[i] = f
      BY <3>1, <1>1, <1>2, PlaceOf
    <3> QED  BY <3>2, <2>1, <1>3
  <2> QED  BY <2>2, <2>3
<1>5. ASSUME cells = Counted \cap Range(block)
      PROVE  \A f \in Counted \cap Range(block) : f \in static /\ Kept(f)
  <2> DEFINE Lost == {j \in 1 .. Len(block) : block[j] \in Counted /\ ~(block[j] \in static /\ Kept(block[j]))}
  <2>1. SUFFICES ASSUME Lost # {} PROVE FALSE
    BY <1>2 DEF Range
  <2>2. PICK last \in Lost : \A j \in Lost : j <= last
    <3>1. Lost \subseteq 0 .. Len(block)
      BY <1>2
    <3> HIDE DEF Lost
    <3> QED  BY <3>1, <2>1, <1>2, Greatest
  <2>3. block[last] \in cells
    BY <1>2, <1>5 DEF Range
  <2>4. PICK i \in 1 .. Len(t) : t[i] \in Counted /\ block[last] \in Load(i)
    BY <2>3, <1>2, <1>3
  <2>5. Before(block, last) = Before(t, i)
    BY <2>4, <1>1, LoadTells
  <2>6. PICK j \in 1 .. Len(block) : /\ block[j] = t[i] /\ Before(t, i) <= Before(block, j)
                                     /\ Before(t, i) = Before(block, j) <=> Kept(block[j])
    BY <1>1, KeptIs
  <2>7. /\ Before(block, last) \in Nat /\ Before(block, j) \in Nat
        /\ j < last => Before(block, j) < Before(block, last)
        /\ last < j => Before(block, last) < Before(block, j)
    BY <1>2, OffsetsAscend DEF RecordTypeOK, BlockOK
  <2>8. block[j] \in static
    BY <2>6, <1>1, <1>2 DEF Range
  <2>9. CASE j = last
    BY <2>5, <2>6, <2>8, <2>9
  <2>10. CASE j # last
    <3>1. last < j
      BY <2>5, <2>6, <2>7, <2>10, <1>2
    <3>2. Before(t, i) # Before(block, j)
      BY <3>1, <2>5, <2>7
    <3>3. j \in Lost
      BY <3>2, <2>4, <2>6
    <3> QED  BY <3>1, <3>3, <2>2, <1>2
  <2> QED  BY <2>9, <2>10
<1> QED  BY <1>4, <1>5
-----------------------------------------------------------------------------
(* The invariant. *)

LEMMA RecordStart == RecordInit => RecordInv
<1> SUFFICES ASSUME RecordInit PROVE RecordInv
  OBVIOUS
<1>1. PICK fs \in SUBSET Names : written \in SetToSeqs(fs)
  BY DEF RecordInit, Names
<1>2. Range(written) \subseteq Names
  <2>1. written \in [1 .. Cardinality(fs) -> fs]
    BY <1>1 DEF SetToSeqs
  <2> QED  BY <2>1, <1>1 DEF Range
<1>3. block = Alphabetical(Range(written)) /\ static = Range(written) /\ got = {} /\ freed = 0
  BY DEF RecordInit, Layout
<1>4. block \in Rows /\ Range(block) = Range(written)
  BY <1>2, <1>3, AlphabeticalFields
<1> QED  BY <1>3, <1>4 DEF RecordInv, RecordTypeOK, BlockOK, FreesWhole, ReadsInOrder

LEMMA PassKeeps ==
    ASSUME RecordInv, NEW fs \in SUBSET static, Pass(fs)
    PROVE  RecordInv'
<1>1. static' = fs /\ block' = block /\ got' = {} /\ freed' = freed /\ freed = 0
  BY DEF Pass
<1>2. RecordTypeOK'
  BY <1>1 DEF RecordInv, RecordTypeOK, BlockOK
<1> QED  BY <1>1, <1>2 DEF RecordInv, FreesWhole, ReadsInOrder

LEMMA AccessKeeps ==
    ASSUME RecordInv, NEW f \in static, Access(f)
    PROVE  RecordInv'
<1>1. /\ static' = static /\ block' = block /\ freed' = freed /\ freed = 0
      /\ got' = {[asked |-> f, inPlace |-> TRUE, cell |-> Load(FieldIndexOf(f))]}
  BY DEF Access
<1>2. RecordTypeOK'
  BY <1>1 DEF RecordInv, RecordTypeOK, BlockOK
<1>3. Kept(f)' <=> Kept(f)
  BY <1>1 DEF Kept
<1>4. Load(FieldIndexOf(f)) = {f} <=> Kept(f)
  BY AskedFor DEF RecordInv
<1>5. ReadsInOrder'
  BY <1>1, <1>3, <1>4 DEF ReadsInOrder
<1> QED  BY <1>1, <1>2, <1>5 DEF RecordInv, FreesWhole

LEMMA MatchKeeps ==
    ASSUME RecordInv, NEW p \in FieldPatterns, Match(p)
    PROVE  RecordInv'
<1>1. /\ static' = static /\ block' = block /\ freed' = freed /\ freed = 0
      /\ got' = {[asked |-> p[i], inPlace |-> FieldIndexOf(p[i]) = i, cell |-> Load(i)] : i \in DOMAIN p}
  BY DEF Match
<1>2. RecordTypeOK'
  BY <1>1 DEF RecordInv, RecordTypeOK, BlockOK
<1>3. ASSUME NEW i \in DOMAIN p PROVE p[i] \in static
  <2>1. PICK fs \in SUBSET static : p \in [1 .. Cardinality(fs) -> fs]
    BY DEF FieldPatterns, SetToSeqs
  <2> QED  BY <2>1
<1>4. ASSUME NEW i \in DOMAIN p, Kept(p[i])' \/ FieldIndexOf(p[i]) = i
      PROVE  Load(i) = {p[i]} <=> Kept(p[i])' /\ FieldIndexOf(p[i]) = i
  <2>1. Kept(p[i])' <=> Kept(p[i])
    BY <1>1 DEF Kept
  <2> QED  BY <2>1, <1>3, <1>4, AskedFor DEF RecordInv
<1>5. ReadsInOrder'
  <2>1. ASSUME NEW g \in got', Kept(g.asked)' \/ g.inPlace
        PROVE  g.cell = {g.asked} <=> Kept(g.asked)' /\ g.inPlace
    <3>1. PICK i \in DOMAIN p : g = [asked |-> p[i], inPlace |-> FieldIndexOf(p[i]) = i, cell |-> Load(i)]
      BY <1>1
    <3>2. g.asked = p[i] /\ (g.inPlace <=> FieldIndexOf(p[i]) = i) /\ g.cell = Load(i)
      BY <3>1
    <3> QED  BY <3>2, <2>1, <1>4
  <2> QED  BY <2>1 DEF ReadsInOrder
<1> QED  BY <1>1, <1>2, <1>5 DEF RecordInv, FreesWhole

LEMMA FreeKeeps == ASSUME RecordInv, Free PROVE RecordInv'
<1>1. /\ static' = static /\ block' = block /\ got' = got
      /\ freed' = 8 + Bytes(Alphabetical(static))
      /\ released' = UNION {Load(i) : i \in {j \in DOMAIN Alphabetical(static) : Alphabetical(static)[j] \in Counted}}
  BY DEF Free
<1>2. RecordTypeOK
  BY DEF RecordInv
<1>3. /\ Bytes(Alphabetical(static)) \in Nat /\ Bytes(block) \in Nat
      /\ Bytes(Alphabetical(static)) = Bytes(block) <=> static = Range(block)
  BY <1>2, BytesOfType
<1>4. RecordTypeOK'
  BY <1>1, <1>2, <1>3 DEF RecordTypeOK, BlockOK
<1>5. \A f : Kept(f)' <=> Kept(f)
  BY <1>1 DEF Kept
<1>6. ReadsInOrder'
  BY <1>1, <1>5 DEF RecordInv, ReadsInOrder
<1>7. freed' = 8 + Bytes(block) <=> static = Range(block)
  BY <1>1, <1>3
<1>8. released' = Counted \cap Range(block) <=> \A f \in Counted \cap Range(block) : f \in static /\ Kept(f)
  BY <1>1, <1>2, ReleasedCounted
<1>9. (Bytes(block))' = Bytes(block) /\ Range(block)' = Range(block)
  BY <1>1
<1>10. FreesWhole'
  BY <1>1, <1>5, <1>7, <1>8, <1>9 DEF FreesWhole
<1> QED  BY <1>4, <1>6, <1>10 DEF RecordInv

\* The invariant holds in every reachable state, for any fields of any sizes.
THEOREM RecordsInductive == RecordSpec => []RecordInv
<1>1. RecordInit => RecordInv
  BY RecordStart
<1>2. RecordInv /\ [RecordNext]_recordVars => RecordInv'
  <2> SUFFICES ASSUME RecordInv, [RecordNext]_recordVars PROVE RecordInv'
    OBVIOUS
  <2>1. CASE \E fs \in SUBSET static : Pass(fs)
    BY <2>1, PassKeeps
  <2>2. CASE \E f \in static : Access(f)
    BY <2>2, AccessKeeps
  <2>3. CASE \E p \in FieldPatterns : Match(p)
    BY <2>3, MatchKeeps
  <2>4. CASE Free
    BY <2>4, FreeKeeps
  <2>5. CASE UNCHANGED recordVars
    BY <2>5 DEF recordVars, RecordInv, RecordTypeOK, BlockOK, ReadsInOrder, FreesWhole, Kept
  <2> QED  BY <2>1, <2>2, <2>3, <2>4, <2>5 DEF RecordNext
<1> QED  BY <1>1, <1>2, PTL DEF RecordSpec

\* However a record is narrowed and in whatever order a pattern lists its fields, a use
\* gets the field it names exactly when nothing in front of the field was dropped and
\* the pattern has it in its place, for any fields of any sizes (lower.rs:991,
\* lower.rs:1485, jit.rs:2408).
THEOREM FieldsAreNamedRightly == RecordSpec => []ReadsInOrder
<1>1. RecordInv => ReadsInOrder
  BY DEF RecordInv
<1> QED  BY <1>1, RecordsInductive, PTL

\* However a record is narrowed before it is freed, its bytes are returned exactly when
\* no field was dropped, and its counted fields are released, these and no others,
\* exactly when each has kept its place (jit.rs:4911).
THEOREM FreedWhole == RecordSpec => []FreesWhole
<1>1. RecordInv => FreesWhole
  BY DEF RecordInv
<1> QED  BY <1>1, RecordsInductive, PTL
-----------------------------------------------------------------------------
(* Matching. *)

USE VariantsAssumption, LiteralsAssumption, AnyAssumption, MaxArmsAssumption, KindsAssumption

(* A sequence is a function on 1..Len; what adding to an end does to it.       *)
LEMMA SeqFacts ==
  ASSUME NEW S, NEW s \in Seq(S)
  PROVE  Len(s) \in Nat /\ DOMAIN s = 1 .. Len(s) /\ \A i \in DOMAIN s : s[i] \in S
  OBVIOUS

LEMMA AppendFacts ==
  ASSUME NEW S, NEW s \in Seq(S), NEW e \in S
  PROVE  /\ Append(s, e) \in Seq(S) /\ DOMAIN Append(s, e) = DOMAIN s \cup {Len(s) + 1}
         /\ Append(s, e)[Len(s) + 1] = e /\ Len(s) + 1 \notin DOMAIN s
         /\ \A i \in DOMAIN s : Append(s, e)[i] = s[i] /\ i < Len(s) + 1
  OBVIOUS

LEMMA PrependFacts ==
  ASSUME NEW S, NEW s \in Seq(S), NEW e \in S
  PROVE  /\ <<e>> \o s \in Seq(S) /\ DOMAIN (<<e>> \o s) = 1 .. Len(s) + 1
         /\ (<<e>> \o s)[1] = e
         /\ \A i \in DOMAIN s : (<<e>> \o s)[i + 1] = s[i]
  OBVIOUS

LEMMA FrontFacts ==
  ASSUME NEW S, NEW s \in Seq(S), s # <<>>
  PROVE  /\ SubSeq(s, 1, Len(s) - 1) \in Seq(S) /\ Len(s) \in DOMAIN s
         /\ DOMAIN SubSeq(s, 1, Len(s) - 1) = 1 .. Len(s) - 1
         /\ \A i \in 1 .. Len(s) - 1 : i \in DOMAIN s /\ SubSeq(s, 1, Len(s) - 1)[i] = s[i]
  OBVIOUS

(* What a pattern of each kind of subject can be.                            *)
LEMMA PatternShape ==
  ASSUME NEW k \in Kinds, NEW p \in Patterns(k)
  PROVE  /\ p.form = "any" \/ (p.form = Form(k) /\ p.head \in Heads(k))
         /\ p.head \in Int
         /\ Form(k) = IF k = "tag" THEN "ctor" ELSE IF k = "prim" THEN "lit" ELSE k
         /\ k \in {"tuple", "record"} => p.head = 0
  BY DEF Patterns, Form, Heads

LEMMA InitOK == Init => IndInv
  <1> SUFFICES ASSUME Init PROVE IndInv
    OBVIOUS
  <1>1. arms \in Seq(Patterns(kind))
    BY DEF Init
  <1>2. TypeOK
    BY <1>1 DEF Init, TypeOK, Phases
  <1>3. CasesOK /\ DefaultOK /\ LiteralsOK
    BY DEF Init, CasesOK, DefaultOK, LiteralsOK, Lowered
  <1>4. StageOK
    BY <1>1 DEF Init, StageOK
  <1> QED
    BY <1>2, <1>3, <1>4 DEF Init, IndInv, FirstMatch, TagsNeverTrap

LEMMA CheckOK == IndInv /\ Check => IndInv'
  <1> SUFFICES ASSUME IndInv, Check PROVE IndInv'
    OBVIOUS
  <1> USE DEF IndInv
  <1>1. TypeOK'
    BY DEF Check, TypeOK, Phases, ValuesOf, Patterns
  <1>2. CasesOK' /\ DefaultOK' /\ LiteralsOK'
    BY DEF Check, CasesOK, DefaultOK, LiteralsOK, Lowered
  <1>3. StageOK'
    BY DEF Check, StageOK, Exhaustive, Duplicate
  <1> QED
    BY <1>1, <1>2, <1>3 DEF Check, FirstMatch, TagsNeverTrap

LEMMA LowerArmOK == IndInv /\ LowerArm => IndInv'
  <1> SUFFICES ASSUME IndInv, LowerArm PROVE IndInv'
    OBVIOUS
  <1> USE DEF IndInv
  <1> DEFINE p == arms[next]
  <1>1. /\ arms \in Seq(Patterns(kind)) /\ kind \in Kinds
        /\ next \in DOMAIN arms /\ next \in Nat /\ p \in Patterns(kind)
        /\ Lowered' = Lowered \cup {next} /\ next \notin Lowered /\ \A i \in Lowered : i \in Nat /\ i < next
    <2>1. /\ arms \in Seq(Patterns(kind)) /\ kind \in Kinds /\ next \in Nat
          /\ next \in 1 .. Len(arms) + 1 /\ next <= Len(arms) /\ next' = next + 1
      BY DEF LowerArm, SetDefault, TypeOK, StageOK
    <2>2. next \in DOMAIN arms /\ p \in Patterns(kind)
      BY <2>1, SeqFacts
    <2>3. Lowered' = Lowered \cup {next} /\ next \notin Lowered /\ \A i \in Lowered : i \in Nat /\ i < next
      BY <2>1 DEF Lowered
    <2> QED
      BY <2>1, <2>2, <2>3
  <1>2. UNCHANGED <<kind, arms, phase, chain, value, at>> /\ next' = next + 1 /\ phase = "lower"
    BY DEF LowerArm, SetDefault
  <1>3. TypeOK'
    <2>1. CASE p.form \in {"any", "record"} /\ default' = next /\ UNCHANGED <<cases, lits>>
      BY <1>1, <1>2, <2>1 DEF TypeOK, ValuesOf, Patterns
    <2>2. CASE p.form = "lit" /\ lits' = Append(lits, next) /\ UNCHANGED <<cases, default>>
      BY <1>1, <1>2, <2>2 DEF TypeOK, ValuesOf, Patterns
    <2>3. CASE p.form = "ctor" /\ cases' = Append(cases, [disc |-> p.head, arm |-> next]) /\ UNCHANGED <<lits, default>>
      BY <1>1, <1>2, <2>3, PatternShape DEF TypeOK, ValuesOf
    <2>4. CASE p.form = "tuple" /\ cases' = Append(cases, [disc |-> Len(cases), arm |-> next]) /\ UNCHANGED <<lits, default>>
      BY <1>1, <1>2, <2>4 DEF TypeOK, ValuesOf
    <2> QED
      BY <2>1, <2>2, <2>3, <2>4 DEF LowerArm, SetDefault
  <1>4. CasesOK'
    <2>1. CASE UNCHANGED cases /\ p.form \notin {"ctor", "tuple"}
      BY <1>1, <1>2, <2>1 DEF CasesOK
    <2>2. CASE /\ p.form = "ctor" /\ kind # "tuple"
               /\ cases' = Append(cases, [disc |-> p.head, arm |-> next])
      <3> DEFINE e == [disc |-> p.head, arm |-> next]
      <3>1. e \in [disc : Int, arm : Nat] /\ cases \in Seq([disc : Int, arm : Nat])
        BY <1>1, PatternShape DEF TypeOK
      <3>2. /\ DOMAIN cases' = DOMAIN cases \cup {Len(cases) + 1} /\ cases'[Len(cases) + 1] = e
            /\ \A c \in DOMAIN cases : cases'[c] = cases[c] /\ c < Len(cases) + 1
            /\ Len(cases) \in Nat /\ DOMAIN cases = 1 .. Len(cases)
        BY <2>2, <3>1, AppendFacts, SeqFacts
      <3> QED
        BY <1>1, <1>2, <2>2, <3>2 DEF CasesOK
    <2>3. CASE /\ p.form = "tuple" /\ kind = "tuple"
               /\ cases' = Append(cases, [disc |-> Len(cases), arm |-> next])
      <3> DEFINE e == [disc |-> Len(cases), arm |-> next]
      <3>1. e \in [disc : Int, arm : Nat] /\ cases \in Seq([disc : Int, arm : Nat])
        BY <1>1, SeqFacts DEF TypeOK
      <3>2. /\ DOMAIN cases' = DOMAIN cases \cup {Len(cases) + 1} /\ cases'[Len(cases) + 1] = e
            /\ \A c \in DOMAIN cases : cases'[c] = cases[c] /\ c < Len(cases) + 1
            /\ Len(cases) \in Nat /\ DOMAIN cases = 1 .. Len(cases)
        BY <2>3, <3>1, AppendFacts, SeqFacts
      <3> QED
        BY <1>1, <1>2, <2>3, <3>2 DEF CasesOK
    <2> QED
      BY <1>1, <2>1, <2>2, <2>3, PatternShape DEF LowerArm, SetDefault
  <1>5. DefaultOK'
    <2>1. CASE p.form \in {"any", "record"} /\ default' = next
      <3>1. default' \in Lowered' /\ arms'[default'].form \in {"any", "record"}
        BY <1>1, <1>2, <2>1
      <3>2. \A i \in Lowered' : i <= default'
        BY <1>1, <2>1
      <3> QED
        BY <3>1, <3>2 DEF DefaultOK
    <2>2. CASE p.form \notin {"any", "record"} /\ default' = default
      BY <1>1, <1>2, <2>2 DEF DefaultOK
    <2> QED
      BY <2>1, <2>2 DEF LowerArm, SetDefault
  <1>6. LiteralsOK'
    <2>0. chain = <<>>
      BY DEF LowerArm, SetDefault, StageOK
    <2>1. CASE UNCHANGED lits /\ p.form # "lit"
      BY <1>1, <1>2, <2>0, <2>1 DEF LiteralsOK
    <2>2. CASE lits' = Append(lits, next) /\ p.form = "lit"
      <3>1. /\ DOMAIN lits' = DOMAIN lits \cup {Len(lits) + 1} /\ lits'[Len(lits) + 1] = next
            /\ \A a \in DOMAIN lits : lits'[a] = lits[a] /\ a < Len(lits) + 1
            /\ Len(lits) \in Nat
        BY <1>1, <2>2, AppendFacts, SeqFacts, SMTT(30) DEF TypeOK
      <3>2. \A a \in DOMAIN lits' : /\ lits'[a] \in Lowered' /\ arms[lits'[a]].form = "lit"
                                   /\ \A b \in DOMAIN lits' : a < b => lits'[a] < lits'[b]
        BY <1>1, <2>2, <3>1 DEF LiteralsOK
      <3>3. \A i \in Lowered' : arms[i].form = "lit" => \E a \in DOMAIN lits' : lits'[a] = i
        BY <1>1, <2>0, <2>2, <3>1 DEF LiteralsOK
      <3> QED
        BY <1>1, <1>2, <2>0, <3>2, <3>3 DEF LiteralsOK
    <2> QED
      BY <2>1, <2>2 DEF LowerArm, SetDefault
  <1>7. StageOK'
    BY <1>1, <1>2 DEF LowerArm, SetDefault, StageOK, Exhaustive, Heads
  <1> QED
    BY <1>2, <1>3, <1>4, <1>5, <1>6, <1>7 DEF FirstMatch, TagsNeverTrap

LEMMA BuildCheckOK == IndInv /\ BuildCheck => IndInv'
  <1> SUFFICES ASSUME IndInv, BuildCheck PROVE IndInv'
    OBVIOUS
  <1> USE DEF IndInv
  <1> DEFINE n == Len(lits)
  <1>1. /\ lits \in Seq(Nat) /\ chain \in Seq(Nat) /\ n \in Nat /\ n > 0
        /\ phase = "lower" /\ next > Len(arms)
        /\ UNCHANGED <<kind, arms, phase, cases, default, next, value, at>>
    BY DEF BuildCheck, TypeOK
  <1>2. /\ chain' \in Seq(Nat) /\ DOMAIN chain' = 1 .. Len(chain) + 1
        /\ chain'[1] = lits[n]
        /\ \A b \in DOMAIN chain : b + 1 \in DOMAIN chain' /\ chain'[b + 1] = chain[b]
        /\ \A b \in DOMAIN chain' : b # 1 => b - 1 \in DOMAIN chain /\ chain'[b] = chain[b - 1]
    <2>1. /\ lits[n] \in Nat /\ Len(chain) \in Nat /\ DOMAIN chain = 1 .. Len(chain)
          /\ chain' = <<lits[n]>> \o chain
      BY <1>1, SeqFacts DEF BuildCheck
    <2>2. /\ chain' \in Seq(Nat) /\ DOMAIN chain' = 1 .. Len(chain) + 1 /\ chain'[1] = lits[n]
          /\ \A b \in DOMAIN chain : chain'[b + 1] = chain[b]
      BY <1>1, <2>1, PrependFacts, SMTT(30)
    <2>3. \A b \in DOMAIN chain' : b # 1 => b - 1 \in DOMAIN chain /\ chain'[b] = chain[b - 1]
      <3> TAKE b \in DOMAIN chain'
      <3> HAVE b # 1
      <3>1. b - 1 \in DOMAIN chain /\ (b - 1) + 1 = b
        BY <2>1, <2>2
      <3> QED
        BY <2>2, <3>1
    <2> QED
      BY <2>1, <2>2, <2>3, SMTT(30)
  <1>3. /\ lits' \in Seq(Nat) /\ n \in DOMAIN lits
        /\ \A a \in DOMAIN lits' : a \in DOMAIN lits /\ a < n /\ lits'[a] = lits[a]
        /\ \A a \in DOMAIN lits : a # n => a \in DOMAIN lits' /\ lits'[a] = lits[a]
    <2>1. /\ lits # <<>> /\ lits' = SubSeq(lits, 1, n - 1) /\ DOMAIN lits = 1 .. n
      BY <1>1, SeqFacts DEF BuildCheck
    <2>2. /\ lits' \in Seq(Nat) /\ n \in DOMAIN lits /\ DOMAIN lits' = 1 .. n - 1
          /\ \A a \in 1 .. n - 1 : a \in DOMAIN lits /\ lits'[a] = lits[a]
      BY <1>1, <2>1, FrontFacts
    <2>3. \A a \in 1 .. n - 1 : a < n
      BY <1>1
    <2>4. \A a \in 1 .. n : a # n => a \in 1 .. n - 1
      BY <1>1
    <2> HIDE DEF n
    <2>5. \A a \in DOMAIN lits' : a \in DOMAIN lits /\ a < n /\ lits'[a] = lits[a]
      BY <2>2, <2>3
    <2>6. \A a \in DOMAIN lits : a # n => a \in DOMAIN lits' /\ lits'[a] = lits[a]
      BY <2>1, <2>2, <2>4
    <2> QED
      BY <2>2, <2>5, <2>6
  <1>4. TypeOK'
    BY <1>1, <1>2, <1>3 DEF TypeOK, ValuesOf
  <1>5. CasesOK' /\ DefaultOK'
    BY <1>1 DEF CasesOK, DefaultOK, Lowered
  <1>6. LiteralsOK'
    <2>1. \A a \in DOMAIN lits' : /\ lits'[a] \in Lowered /\ arms[lits'[a]].form = "lit"
                                  /\ \A b \in DOMAIN lits' : a < b => lits'[a] < lits'[b]
      BY <1>3 DEF LiteralsOK
    <2>2. \A b \in DOMAIN chain' : chain'[b] \in Lowered /\ arms[chain'[b]].form = "lit"
      <3> TAKE b \in DOMAIN chain'
      <3>1. CASE b = 1
        BY <1>2, <1>3, <3>1 DEF LiteralsOK
      <3>2. CASE b # 1
        BY <1>2, <3>2 DEF LiteralsOK
      <3> QED
        BY <3>1, <3>2
    <2>3. \A a, b \in DOMAIN chain' : a < b => chain'[a] < chain'[b]
      <3> TAKE a, b \in DOMAIN chain'
      <3> HAVE a < b
      <3>0. a \in 1 .. Len(chain) + 1 /\ b \in 1 .. Len(chain) + 1 /\ Len(chain) \in Nat
        BY <1>1, <1>2, SeqFacts
      <3>1. b # 1 /\ b - 1 \in DOMAIN chain /\ chain'[b] = chain[b - 1]
        BY <1>2, <3>0
      <3>2. CASE a = 1
        BY <1>1, <1>2, <3>1, <3>2, SMTT(30) DEF LiteralsOK
      <3>3. CASE a # 1
        <4>1. a - 1 \in DOMAIN chain /\ chain'[a] = chain[a - 1] /\ a - 1 < b - 1
          BY <1>2, <3>0, <3>3
        <4> QED
          BY <3>1, <4>1 DEF LiteralsOK
      <3> QED
        BY <3>2, <3>3
    <2>4. \A a \in DOMAIN lits', b \in DOMAIN chain' : lits'[a] < chain'[b]
      <3> TAKE a \in DOMAIN lits', b \in DOMAIN chain'
      <3>1. lits'[a] = lits[a] /\ a \in DOMAIN lits /\ a < n /\ n \in DOMAIN lits
        BY <1>1, <1>3
      <3>2. CASE b = 1
        BY <1>2, <3>1, <3>2 DEF LiteralsOK
      <3>3. CASE b # 1
        BY <1>2, <3>1, <3>3 DEF LiteralsOK
      <3> QED
        BY <3>2, <3>3
    <2>5. \A i \in Lowered : arms[i].form = "lit" => \/ \E a \in DOMAIN lits' : lits'[a] = i
                                                     \/ \E b \in DOMAIN chain' : chain'[b] = i
      <3> TAKE i \in Lowered
      <3> HAVE arms[i].form = "lit"
      <3>1. CASE \E a \in DOMAIN lits : lits[a] = i
        <4>1. PICK a \in DOMAIN lits : lits[a] = i
          BY <3>1
        <4>2. CASE a = n
          <5>1. 1 \in DOMAIN chain' /\ chain'[1] = i
            BY <1>1, <1>2, <4>1, <4>2, SeqFacts
          <5> QED
            BY <5>1
        <4>3. CASE a # n
          BY <1>3, <4>1, <4>3
        <4> QED
          BY <4>2, <4>3
      <3>2. CASE \E b \in DOMAIN chain : chain[b] = i
        <4>1. PICK b \in DOMAIN chain : chain[b] = i
          BY <3>2
        <4>2. b + 1 \in DOMAIN chain' /\ chain'[b + 1] = i
          BY <1>1, <1>2, <4>1, SeqFacts
        <4> QED
          BY <4>2
      <3> QED
        BY <3>1, <3>2 DEF LiteralsOK
    <2> QED
      BY <1>1, <2>1, <2>2, <2>3, <2>4, <2>5 DEF LiteralsOK, Lowered
  <1>7. StageOK'
    BY <1>1 DEF StageOK, Exhaustive
  <1> QED
    BY <1>1, <1>4, <1>5, <1>6, <1>7 DEF FirstMatch, TagsNeverTrap

LEMMA CompileOK == IndInv /\ Compile => IndInv'
  <1> SUFFICES ASSUME IndInv, Compile PROVE IndInv'
    OBVIOUS
  <1> USE DEF IndInv
  <1>1. TypeOK'
    BY DEF Compile, TypeOK, Phases, ValuesOf
  <1>2. CasesOK' /\ DefaultOK' /\ LiteralsOK'
    BY DEF Compile, CasesOK, DefaultOK, LiteralsOK, Lowered
  <1>3. StageOK'
    BY DEF Compile, StageOK, Exhaustive, Duplicate, TypeOK
  <1> QED
    BY <1>1, <1>2, <1>3 DEF Compile, FirstMatch, TagsNeverTrap

LEMMA StartOK == IndInv /\ Start => IndInv'
  <1> SUFFICES ASSUME IndInv, Start PROVE IndInv'
    OBVIOUS
  <1> USE DEF IndInv
  <1>1. TypeOK'
    BY DEF Start, TypeOK, Phases, ValuesOf
  <1>2. CasesOK' /\ DefaultOK' /\ LiteralsOK'
    BY DEF Start, CasesOK, DefaultOK, LiteralsOK, Lowered
  <1>3. StageOK'
    <2>1. /\ UNCHANGED <<kind, arms, cases, lits, default, next, chain>> /\ phase = "ready"
          /\ value' \in ValuesOf(kind) /\ at' = 1 /\ kind \in Kinds
          /\ phase' = IF kind \in {"tag", "tuple"} THEN "switch" ELSE "test"
      BY DEF Start, TypeOK
    <2>2. /\ arms # <<>> /\ next \in 1 .. Len(arms) + 1 /\ next = Len(arms) + 1 /\ lits = <<>>
          /\ next <= Len(arms) => chain = <<>>
          /\ Exhaustive /\ ~Duplicate
      BY <2>1 DEF StageOK
    <2>3. Exhaustive' /\ ~Duplicate' /\ value' \in ValuesOf(kind)'
      BY <2>1, <2>2 DEF Exhaustive, Duplicate, ValuesOf
    <2>4. chain \in Seq(Nat)
      BY DEF TypeOK
    <2>5. \A k \in DOMAIN chain : ~(k < 1)
      BY <2>4, SeqFacts
    <2>6. kind \notin {"tag", "tuple"} => kind \in {"record", "prim"}
      BY <2>1
    <2> QED
      BY <2>1, <2>2, <2>3, <2>5, <2>6 DEF StageOK
  <1> QED
    BY <1>1, <1>2, <1>3 DEF Start, FirstMatch, TagsNeverTrap

(* A switch or a chain that ended without a match leaves the default, and the   *)
(* arms before the default do not match either.                              *)
LEMMA FallbackFirst ==
  ASSUME IndInv, NEW v \in ValuesOf(kind), next = Len(arms) + 1, default # 0, Plain,
         \A i \in DOMAIN arms : arms[i].form \in {"ctor", "lit"} => arms[i].head # v.head,
         \A i \in DOMAIN arms : arms[i].form # "tuple"
  PROVE  Matches(arms[default], v) /\ \A j \in 1 .. default - 1 : ~Matches(arms[j], v)
  <1>1. /\ default \in DOMAIN arms /\ arms[default].form \in {"any", "record"}
        /\ DOMAIN arms = 1 .. Len(arms) /\ kind \in Kinds /\ Len(arms) \in Nat
        /\ \A i \in DOMAIN arms : arms[i] \in Patterns(kind) /\ arms[i].sub = AnySub
    BY DEF IndInv, TypeOK, DefaultOK, Lowered, Plain
  <1>2. Matches(arms[default], v)
    BY <1>1, PatternShape DEF Matches, ValuesOf, Heads
  <1>3. ASSUME NEW j \in 1 .. default - 1 PROVE ~Matches(arms[j], v)
    <2>1. j \in DOMAIN arms /\ j # Len(arms)
      <3>1. default \in 1 .. Len(arms) /\ Len(arms) \in Nat /\ j \in 1 .. default - 1
        BY <1>1, <1>3
      <3>2. j \in 1 .. Len(arms) /\ j # Len(arms)
        BY <3>1
      <3> QED
        BY <1>1, <3>2
    <2>2. ~Irrefutable(arms[j])
      BY <2>1 DEF Plain
    <2>3. arms[j].form \in {"ctor", "lit"}
      <3>1. arms[j] \in Patterns(kind) /\ arms[j].sub = AnySub /\ arms[j].form # "tuple"
        BY <1>1, <2>1
      <3>2. arms[j].form \notin {"any", "record"}
        BY <2>2, <3>1 DEF Irrefutable
      <3>3. arms[j].form = Form(kind)
        BY <1>1, <3>1, <3>2, PatternShape
      <3>4. kind \in {"tag", "prim", "tuple", "record"}
        BY <1>1, KindsAssumption
      <3>5. Form(kind) \in {"ctor", "lit", "tuple", "record"}
        BY <3>4 DEF Form
      <3> QED
        BY <3>1, <3>2, <3>3, <3>5
    <2> QED
      BY <2>1, <2>3 DEF Matches
  <1> QED
    BY <1>2, <1>3

LEMMA SwitchOK == IndInv /\ Switch => IndInv'
  <1> SUFFICES ASSUME IndInv, Switch PROVE IndInv'
    OBVIOUS
  <1> USE DEF IndInv
  <1>1. /\ UNCHANGED <<kind, arms, cases, lits, default, next, chain, value>>
        /\ phase = "switch" /\ kind \in {"tag", "tuple"} /\ kind \in Kinds
        /\ next = Len(arms) + 1 /\ value \in ValuesOf(kind) /\ ~Duplicate /\ Exhaustive
        /\ arms \in Seq(Patterns(kind)) /\ Lowered = DOMAIN arms
    BY DEF Switch, StageOK, TypeOK, Lowered
  <1>2. phase' \in {"taken", "trap"} /\ at' \in Nat
    <2>1. /\ default \in Nat /\ at \in Nat /\ phase = "switch"
          /\ \A c \in DOMAIN cases : cases[c].arm \in Nat
      <3>1. cases \in Seq([disc : Int, arm : Nat]) /\ default \in Nat /\ at \in Nat
        BY DEF TypeOK
      <3>2. \A c \in DOMAIN cases : cases[c] \in [disc : Int, arm : Nat]
        BY <3>1, SeqFacts
      <3> QED
        BY <1>1, <3>1, <3>2
    <2> QED
      BY <2>1 DEF Switch, Fallback
  <1>3. TypeOK'
    BY <1>1, <1>2 DEF TypeOK, Phases, ValuesOf
  <1>4. CasesOK' /\ DefaultOK' /\ LiteralsOK'
    BY <1>1 DEF CasesOK, DefaultOK, LiteralsOK, Lowered
  <1>5. StageOK'
    BY <1>1, <1>2 DEF StageOK, Exhaustive, Duplicate, ValuesOf
  <1>6. TagsNeverTrap'
    <2> SUFFICES ASSUME phase' = "trap" PROVE FALSE
      BY DEF TagsNeverTrap
    <2>1. default = 0 /\ \A c \in DOMAIN cases : cases[c].disc # value.head
      BY DEF Switch, Fallback
    <2>2. \A i \in DOMAIN arms : arms[i].form \notin {"any", "record"}
      BY <1>1, <2>1 DEF DefaultOK
    <2>3. \A i \in DOMAIN arms : arms[i].form \in {"ctor", "tuple"}
      BY <1>1, <2>2, PatternShape
    <2>4. CASE kind = "tag"
      <3>1. value.head \in Heads(kind)
        BY <1>1 DEF ValuesOf
      <3>2. PICK i \in DOMAIN arms : arms[i].head = value.head
        BY <1>1, <2>2, <2>4, <3>1 DEF Exhaustive
      <3>3. PICK c \in DOMAIN cases : cases[c].arm = i
        BY <1>1, <2>3 DEF CasesOK
      <3> QED
        BY <2>1, <2>4, <3>2, <3>3 DEF CasesOK
    <2>5. CASE kind = "tuple"
      <3>1. 1 \in DOMAIN arms
        BY <1>1 DEF StageOK, Switch
      <3>2. PICK c \in DOMAIN cases : cases[c].arm = 1
        BY <1>1, <2>3, <3>1 DEF CasesOK
      <3>3. c = 1
        <4>1. c \in 1 .. Len(cases) /\ 1 \in DOMAIN cases /\ Len(cases) \in Nat
          BY SMTT(30), <3>2, SeqFacts DEF TypeOK
        <4>2. cases[1].arm \in 1 .. Len(arms) /\ Len(arms) \in Nat
          BY <1>1, <4>1, SeqFacts DEF CasesOK
        <4>3. 1 < c => cases[1].arm < cases[c].arm
          BY <4>1 DEF CasesOK
        <4> QED
          BY <3>2, <4>1, <4>2, <4>3
      <3>4. value.head = 0
        BY <1>1, <2>5 DEF ValuesOf, Heads
      <3> QED
        BY <2>1, <2>5, <3>2, <3>3, <3>4 DEF CasesOK
    <2> QED
      BY <1>1, <2>4, <2>5
  <1>7. FirstMatch'
    <2> SUFFICES ASSUME phase' = "taken", Plain PROVE IsFirst(at)'
      BY <1>1 DEF FirstMatch, Plain, Irrefutable
    <2>1. CASE \E c \in DOMAIN cases : cases[c].disc = value.head /\ at' = cases[c].arm
      <3>1. PICK c \in DOMAIN cases : cases[c].disc = value.head /\ at' = cases[c].arm
        BY <2>1
      <3>2. at' \in DOMAIN arms /\ arms[at'] \in Patterns(kind) /\ arms[at'].sub = AnySub
            /\ arms[at'].form \in {"ctor", "tuple"}
        BY <1>1, <3>1, SeqFacts DEF CasesOK, Plain
      <3>3. Matches(arms[at'], value)
        BY <1>1, <3>1, <3>2, PatternShape DEF CasesOK, Matches, ValuesOf, Heads
      <3>4. ASSUME NEW j \in 1 .. at' - 1 PROVE ~Matches(arms[j], value)
        <4>1. j \in DOMAIN arms /\ j # Len(arms) /\ j < at' /\ arms[j] \in Patterns(kind) /\ arms[j].sub = AnySub
          BY <1>1, <3>2, <3>4, SeqFacts DEF Plain
        <4>2. arms[j].form = "ctor" /\ kind = "tag"
          BY <1>1, <4>1, PatternShape DEF Plain, Irrefutable
        <4>3. PICK d \in DOMAIN cases : cases[d].arm = j
          BY <1>1, <4>1, <4>2 DEF CasesOK
        <4>4. d # c /\ cases[d].disc = arms[j].head
          BY <3>1, <4>1, <4>2, <4>3 DEF CasesOK
        <4> QED
          BY <1>1, <3>1, <4>2, <4>4 DEF Duplicate, Matches
      <3> QED
        BY <1>1, <3>3, <3>4 DEF IsFirst
    <2>2. CASE (\A c \in DOMAIN cases : cases[c].disc # value.head) /\ Fallback
      <3>1. default # 0 /\ at' = default
        BY <2>2 DEF Fallback
      <3>2. \A i \in DOMAIN arms : arms[i].form = "ctor" => arms[i].head # value.head
        <4> SUFFICES ASSUME NEW i \in DOMAIN arms, arms[i].form = "ctor" PROVE arms[i].head # value.head
          OBVIOUS
        <4>1. PICK c \in DOMAIN cases : cases[c].arm = i
          BY <1>1 DEF CasesOK
        <4>2. kind = "tag"
          BY <1>1, SeqFacts, PatternShape
        <4> QED
          BY <2>2, <4>1, <4>2 DEF CasesOK
      <3>3. \A i \in DOMAIN arms : arms[i].form # "tuple"
        <4> SUFFICES ASSUME NEW i \in DOMAIN arms, arms[i].form = "tuple" PROVE FALSE
          OBVIOUS
        <4>1. kind = "tuple"
          BY <1>1, SeqFacts, PatternShape
        <4>2. \A k \in DOMAIN arms : k = Len(arms)
          BY <1>1, <4>1, SeqFacts, PatternShape DEF Plain, Irrefutable
        <4>3. default \in DOMAIN arms /\ arms[default].form \in {"any", "record"}
          BY <1>1, <3>1 DEF DefaultOK
        <4> QED
          BY <4>2, <4>3
      <3>4. \A i \in DOMAIN arms : arms[i].form # "lit"
        BY <1>1, SeqFacts, PatternShape
      <3>5. Matches(arms[default], value) /\ \A j \in 1 .. default - 1 : ~Matches(arms[j], value)
        BY <1>1, <3>1, <3>2, <3>3, <3>4, FallbackFirst
      <3> QED
        BY <1>1, <3>1, <3>5 DEF IsFirst
    <2> QED
      BY <2>1, <2>2 DEF Switch
  <1> QED
    BY <1>3, <1>4, <1>5, <1>6, <1>7

LEMMA TestLiteralOK == IndInv /\ TestLiteral => IndInv'
  <1> SUFFICES ASSUME IndInv, TestLiteral PROVE IndInv'
    OBVIOUS
  <1> USE DEF IndInv
  <1>1. /\ UNCHANGED <<kind, arms, cases, lits, default, next, chain, value>>
        /\ phase = "test" /\ kind \in {"record", "prim"} /\ kind \in Kinds
        /\ next = Len(arms) + 1 /\ value \in ValuesOf(kind) /\ ~Duplicate /\ Exhaustive
        /\ arms \in Seq(Patterns(kind)) /\ Lowered = DOMAIN arms /\ lits = <<>>
        /\ at \in Nat /\ at >= 1 /\ chain \in Seq(Nat)
    BY DEF TestLiteral, StageOK, TypeOK, Lowered
  <1>2. phase' \in {"test", "taken", "trap"} /\ at' \in Nat
    BY <1>1, SeqFacts DEF TestLiteral, Fallback, TypeOK
  <1>3. TypeOK'
    BY <1>1, <1>2 DEF TypeOK, Phases, ValuesOf
  <1>4. CasesOK' /\ DefaultOK' /\ LiteralsOK'
    BY <1>1 DEF CasesOK, DefaultOK, LiteralsOK, Lowered
  <1>5. StageOK'
    <2>1. phase' = "test" => /\ at' >= 1
                             /\ \A k \in DOMAIN chain : k < at' => arms[chain[k]].head # value.head
      <3> SUFFICES ASSUME phase' = "test"
                   PROVE  /\ at' >= 1
                          /\ \A k \in DOMAIN chain : k < at' => arms[chain[k]].head # value.head
        OBVIOUS
      <3>1. at' = at + 1 /\ arms[chain[at]].head # value.head
        BY DEF TestLiteral, Fallback
      <3>2. \A k \in DOMAIN chain : k < at => arms[chain[k]].head # value.head
        BY <1>1 DEF StageOK
      <3>3. \A k \in DOMAIN chain : k < at + 1 => k = at \/ k < at
        BY <1>1, SeqFacts
      <3> QED
        BY <1>1, <3>1, <3>2, <3>3
    <2> QED
      BY <1>1, <1>2, <2>1 DEF StageOK, Exhaustive, Duplicate, ValuesOf
  <1>6. TagsNeverTrap'
    <2> SUFFICES ASSUME phase' = "trap", kind = "record" PROVE FALSE
      BY <1>1 DEF TagsNeverTrap
    <2>1. default = 0
      BY DEF TestLiteral, Fallback
    <2>2. 1 \in DOMAIN arms
      BY <1>1, SeqFacts DEF StageOK
    <2>3. arms[1].form \in {"any", "record"}
      BY <1>1, <2>2, SeqFacts, PatternShape
    <2> QED
      BY <1>1, <2>1, <2>2, <2>3 DEF DefaultOK
  <1>7. FirstMatch'
    <2> SUFFICES ASSUME phase' = "taken", Plain PROVE IsFirst(at)'
      BY <1>1 DEF FirstMatch, Plain, Irrefutable
    <2>0. /\ Len(chain) \in Nat /\ DOMAIN chain = 1 .. Len(chain)
          /\ \A k \in DOMAIN chain : k < at => arms[chain[k]].head # value.head
          /\ \A i \in DOMAIN arms : arms[i].form = "lit" => \E b \in DOMAIN chain : chain[b] = i
      BY <1>1, SeqFacts DEF StageOK, LiteralsOK
    <2>1. CASE at <= Len(chain) /\ arms[chain[at]].head = value.head /\ at' = chain[at]
      <3>1. /\ at \in DOMAIN chain /\ at' \in DOMAIN arms /\ arms[at'].form = "lit"
            /\ arms[at'].sub = AnySub
        BY <1>1, <2>0, <2>1 DEF LiteralsOK, Plain
      <3>2. Matches(arms[at'], value)
        BY <2>1, <3>1 DEF Matches
      <3>3. ASSUME NEW j \in 1 .. at' - 1 PROVE ~Matches(arms[j], value)
        <4>1. j \in DOMAIN arms /\ j # Len(arms) /\ j < at' /\ arms[j] \in Patterns(kind)
          BY <1>1, <3>1, <3>3, SeqFacts
        <4>2. arms[j].form = "lit"
          BY <1>1, <3>1, <4>1, SeqFacts, PatternShape DEF Plain, Irrefutable
        <4>3. PICK b \in DOMAIN chain : chain[b] = j
          BY <2>0, <4>1, <4>2
        <4>4. b < at
          <5>1. b # at
            BY <2>1, <4>1, <4>3
          <5>2. ~(at < b)
            BY <2>1, <3>1, <4>1, <4>3, <1>1 DEF LiteralsOK
          <5> QED
            BY <1>1, <2>0, <5>1, <5>2
        <4> QED
          BY <2>0, <4>2, <4>3, <4>4 DEF Matches
      <3> QED
        BY <1>1, <3>2, <3>3 DEF IsFirst
    <2>2. CASE at > Len(chain) /\ Fallback
      <3>1. default # 0 /\ at' = default
        BY <2>2 DEF Fallback
      <3>2. \A i \in DOMAIN arms : arms[i].form = "lit" => arms[i].head # value.head
        <4> SUFFICES ASSUME NEW i \in DOMAIN arms, arms[i].form = "lit" PROVE arms[i].head # value.head
          OBVIOUS
        <4>1. PICK b \in DOMAIN chain : chain[b] = i
          BY <2>0
        <4>2. b < at
          BY <1>1, <2>0, <2>2
        <4> QED
          BY <2>0, <4>1, <4>2
      <3>3. \A i \in DOMAIN arms : arms[i].form \notin {"tuple", "ctor"}
        BY <1>1, SeqFacts, PatternShape
      <3>4. Matches(arms[default], value) /\ \A j \in 1 .. default - 1 : ~Matches(arms[j], value)
        BY <1>1, <3>1, <3>2, <3>3, FallbackFirst
      <3> QED
        BY <1>1, <3>1, <3>4 DEF IsFirst
    <2> QED
      BY <2>1, <2>2 DEF TestLiteral
  <1> QED
    BY <1>3, <1>4, <1>5, <1>6, <1>7

(* The accumulators and the stages fit together in every reachable state.       *)
THEOREM MatchInductive == Spec => []IndInv
  <1>1. IndInv /\ [Next]_vars => IndInv'
    <2> SUFFICES ASSUME IndInv, [Next]_vars PROVE IndInv'
      OBVIOUS
    <2>1. CASE UNCHANGED vars
      <3> USE <2>1 DEF vars, IndInv
      <3>1. TypeOK'
        BY DEF TypeOK, ValuesOf
      <3>2. CasesOK' /\ DefaultOK' /\ LiteralsOK'
        BY DEF CasesOK, DefaultOK, LiteralsOK, Lowered
      <3>3. StageOK'
        BY DEF StageOK, Exhaustive, Duplicate, ValuesOf
      <3>4. FirstMatch' /\ TagsNeverTrap'
        BY DEF FirstMatch, Plain, IsFirst, TagsNeverTrap
      <3> QED
        BY <3>1, <3>2, <3>3, <3>4
    <2> QED
      BY <2>1, CheckOK, LowerArmOK, BuildCheckOK, CompileOK, StartOK, SwitchOK, TestLiteralOK DEF Next
  <1> QED
    BY <1>1, InitOK, PTL DEF Spec

(* Of any number of arms over any types, a plain match takes the first one that *)
(* matches the value (lower.rs:771-925, jit.rs:1127-1165).                    *)
THEOREM TakesFirst == Spec => []FirstMatch
  BY MatchInductive, PTL DEF IndInv

(* A match on a tag type, a tuple or a record that was accepted never reaches   *)
(* the trap (exhaustiveness.rs:25-60).                                       *)
THEOREM AcceptedNeverTraps == Spec => []TagsNeverTrap
  BY MatchInductive, PTL DEF IndInv

(* Only a constructor named twice keeps an accepted match from compiling        *)
(* (jit.rs:1199-1220).                                                      *)
THEOREM CompilesUnlessDuplicate == Spec => []ErrorIsDuplicate
  <1>1. IndInv => ErrorIsDuplicate
    <2> SUFFICES ASSUME IndInv, phase = "error"
                 PROVE  \E i, j \in DOMAIN arms : /\ i # j /\ arms[i].form = "ctor" /\ arms[j].form = "ctor"
                                                 /\ arms[i].head = arms[j].head
      BY DEF ErrorIsDuplicate
    <2> USE DEF IndInv
    <2>1. PICK c, d \in DOMAIN cases : c # d /\ cases[c].disc = cases[d].disc
      BY DEF StageOK, Duplicate
    <2>2. /\ arms \in Seq(Patterns(kind)) /\ kind \in Kinds /\ Lowered = DOMAIN arms
          /\ c \in Int /\ d \in Int
      BY SeqFacts, SMTT(30) DEF TypeOK, StageOK, Lowered
    <2>3. kind # "tuple"
      BY <2>1, <2>2 DEF CasesOK
    <2>4. \A k \in DOMAIN cases : /\ cases[k].arm \in DOMAIN arms /\ arms[cases[k].arm].form = "ctor"
                                  /\ cases[k].disc = arms[cases[k].arm].head
      <3> TAKE k \in DOMAIN cases
      <3>1. /\ cases[k].arm \in DOMAIN arms /\ arms[cases[k].arm].form \in {"ctor", "tuple"}
            /\ cases[k].disc = arms[cases[k].arm].head
        BY <2>2, <2>3 DEF CasesOK
      <3>2. arms[cases[k].arm] \in Patterns(kind)
        BY <2>2, <3>1, SeqFacts
      <3>3. arms[cases[k].arm].form # "tuple"
        BY <2>2, <2>3, <3>2, PatternShape
      <3> QED
        BY <3>1, <3>3
    <2>5. cases[c].arm # cases[d].arm
      <3>1. \A k \in DOMAIN cases : cases[k].arm \in Int
        BY <2>2, SeqFacts DEF CasesOK
      <3> QED
        BY <2>1, <2>2, <3>1 DEF CasesOK
    <2> QED
      BY <2>1, <2>4, <2>5
  <1> QED
    BY <1>1, MatchInductive, PTL
-----------------------------------------------------------------------------
(* Comparison: the values that are compared. *)

\* What a value is compared with: the value itself, and with it the parts.
LEMMA WithinIs ==
    ASSUME NEW o
    PROVE  /\ o \in Within(o) /\ PartsOf(o) \subseteq Within(o)
           /\ \A s : /\ o \in s
                     /\ \A p \in s \cap Within(o) : PartsOf(p) \cap Within(o) \subseteq s
                     => Within(o) \subseteq s
<1> DEFINE Met(met, m) == met = [k \in 0 .. m |-> IF k = 0 THEN {o} ELSE met[k - 1] \cup UNION {PartsOf(p) : p \in met[k - 1]}]
           T == {m \in Nat : \E met : Met(met, m)}
           B == CHOOSE met : Met(met, Deep)
<1>1. Deep \in Nat /\ Deep >= 1
  BY ComparisonAssumption
<1>2. 0 \in T
  <2>1. Met([k \in 0 .. 0 |-> {o}], 0)
    OBVIOUS
  <2> QED  BY <2>1
<1>3. ASSUME NEW m \in Nat, m \in T PROVE m + 1 \in T
  <2>1. PICK f : Met(f, m)
    BY <1>3
  <2>2. PICK g : g = [k \in 0 .. m + 1 |-> IF k = m + 1 THEN f[m] \cup UNION {PartsOf(p) : p \in f[m]} ELSE f[k]]
    OBVIOUS
  <2>3. f[0] = {o} /\ \A k \in 1 .. m : f[k] = f[k - 1] \cup UNION {PartsOf(p) : p \in f[k - 1]}
    <3>1. 0 \in 0 .. m /\ \A k \in 1 .. m : k \in 0 .. m /\ k # 0
      OBVIOUS
    <3> QED  BY <2>1, <3>1
  <2>4. g[0] = {o} /\ \A k \in 1 .. m + 1 : g[k] = g[k - 1] \cup UNION {PartsOf(p) : p \in g[k - 1]}
    <3>1. g[0] = {o}
      BY <2>2, <2>3
    <3>2. ASSUME NEW k \in 1 .. m + 1 PROVE g[k] = g[k - 1] \cup UNION {PartsOf(p) : p \in g[k - 1]}
      <4>1. CASE k = m + 1
        <5>1. g[k - 1] = f[m] /\ g[k] = f[m] \cup UNION {PartsOf(p) : p \in f[m]}
          BY <2>2, <4>1
        <5> QED  BY <5>1
      <4>2. CASE k # m + 1
        <5>1. k \in 1 .. m /\ g[k - 1] = f[k - 1] /\ g[k] = f[k]
          BY <2>2, <4>2
        <5> QED  BY <5>1, <2>3
      <4> QED  BY <4>1, <4>2
    <3> QED  BY <3>1, <3>2
  <2>5. Met(g, m + 1)
    <3>1. \A k \in 0 .. m + 1 : k = 0 \/ k \in 1 .. m + 1
      OBVIOUS
    <3>2. g = [k \in 0 .. m + 1 |-> g[k]]
      BY <2>2
    <3> QED  BY <3>1, <3>2, <2>4
  <2> QED  BY <2>5
<1> HIDE DEF T
<1>4. Deep \in T
  BY <1>1, <1>2, <1>3, Induction
<1>5. Met(B, Deep)
  BY <1>4 DEF T
<1>6. Within(o) = B[Deep]
  BY DEF Within
<1> HIDE DEF B
<1>7. B[0] = {o} /\ \A k \in 1 .. Deep : B[k] = B[k - 1] \cup UNION {PartsOf(p) : p \in B[k - 1]}
  <2>1. 0 \in 0 .. Deep /\ \A k \in 1 .. Deep : k \in 0 .. Deep /\ k # 0
    BY <1>1
  <2> QED  BY <1>5, <2>1
<1> HIDE DEF Met
<1> DEFINE U == {n \in Nat : n <= Deep => \A k \in 0 .. n : B[k] \subseteq B[n]}
<1>8. Nat \subseteq U
  <2>1. 0 \in U
    OBVIOUS
  <2>2. ASSUME NEW n \in Nat, n \in U PROVE n + 1 \in U
    <3> SUFFICES ASSUME n + 1 <= Deep, NEW k \in 0 .. n + 1 PROVE B[k] \subseteq B[n + 1]
      OBVIOUS
    <3>1. n + 1 \in 1 .. Deep /\ n + 1 - 1 = n
      BY <1>1
    <3>2. B[n] \subseteq B[n + 1]
      BY <3>1, <1>7
    <3>3. k = n + 1 \/ B[k] \subseteq B[n]
      BY <2>2, <1>1
    <3> QED  BY <3>2, <3>3
  <2> HIDE DEF U
  <2> QED  BY <2>1, <2>2, Induction
<1>9. \A k \in 0 .. Deep : B[k] \subseteq Within(o)
  BY <1>1, <1>6, <1>8
<1>10. o \in Within(o) /\ PartsOf(o) \subseteq Within(o)
  <2>1. 0 \in 0 .. Deep /\ 1 \in 0 .. Deep /\ 1 \in 1 .. Deep /\ 1 - 1 = 0
    BY <1>1
  <2>2. o \in B[0] /\ B[1] = B[0] \cup UNION {PartsOf(p) : p \in B[0]}
    BY <1>7, <2>1
  <2> QED  BY <2>1, <2>2, <1>9
<1>11. ASSUME NEW s, o \in s, \A p \in s \cap Within(o) : PartsOf(p) \cap Within(o) \subseteq s
       PROVE  Within(o) \subseteq s
  <2> DEFINE V == {n \in Nat : n <= Deep => B[n] \subseteq s}
  <2>1. 0 \in V
    BY <1>7, <1>11
  <2>2. ASSUME NEW n \in Nat, n \in V PROVE n + 1 \in V
    <3> SUFFICES ASSUME n + 1 <= Deep PROVE B[n + 1] \subseteq s
      OBVIOUS
    <3>1. n + 1 \in 1 .. Deep /\ n + 1 - 1 = n /\ n \in 0 .. Deep /\ n + 1 \in 0 .. Deep /\ n <= Deep
      BY <1>1
    <3>2. B[n] \subseteq s /\ B[n] \subseteq Within(o) /\ B[n + 1] \subseteq Within(o)
      BY <2>2, <3>1, <1>9
    <3>3. B[n + 1] = B[n] \cup UNION {PartsOf(p) : p \in B[n]}
      BY <1>7, <3>1
    <3> QED  BY <3>2, <3>3, <1>11
  <2> HIDE DEF V
  <2>3. Nat \subseteq V
    BY <2>1, <2>2, Induction
  <2>4. Deep <= Deep
    BY <1>1
  <2> QED  BY <1>1, <1>6, <2>3, <2>4 DEF V
<1> QED  BY <1>10, <1>11

\* A value without parts is compared alone, and where parts have none, the
\* value and its parts are all that is compared.
LEMMA ComparedFlat ==
    ASSUME NEW o, \A p \in PartsOf(o) : PartsOf(p) = {}
    PROVE  Within(o) = {o} \cup PartsOf(o)
<1>1. Within(o) \subseteq {o} \cup PartsOf(o)
  <2>1. \A p \in ({o} \cup PartsOf(o)) \cap Within(o) : PartsOf(p) \cap Within(o) \subseteq {o} \cup PartsOf(o)
    OBVIOUS
  <2> DEFINE s == {o} \cup PartsOf(o)
  <2>2. o \in s /\ \A p \in s \cap Within(o) : PartsOf(p) \cap Within(o) \subseteq s
    BY <2>1
  <2> HIDE DEF s
  <2>3. Within(o) \subseteq s
    BY <2>2, WithinIs
  <2> QED  BY <2>3 DEF s
<1> QED  BY <1>1, WithinIs

\* Two values that are one value have the same parts.
LEMMA PartsOfOne ==
    ASSUME NEW o, o.left = o.right
    PROVE  \A p \in PartsOf(o) : p.left = p.right
BY DEF PartsOf

\* Where each part is one value or one without parts that is alike, equal is
\* what is alike.
LEMMA EqualOver ==
    ASSUME NEW o, Alike(o, TRUE),
           \A p \in PartsOf(o) : p.left = p.right \/ (~NeedsHeapBoxing(p.type) /\ Alike(p, TRUE))
    PROVE  Equal(o, TRUE)
<1> DEFINE s == {p \in Within(o) : p = o \/ p.left = p.right \/ (PartsOf(p) = {} /\ Alike(p, TRUE))}
<1>1. \A p \in PartsOf(o) : p.left = p.right \/ (PartsOf(p) = {} /\ Alike(p, TRUE))
  BY DEF PartsOf, HasParts, NeedsHeapBoxing
<1>2. ASSUME NEW p \in s \cap Within(o), NEW q \in PartsOf(p) \cap Within(o) PROVE q \in s
  <2>1. p = o \/ p.left = p.right
    BY <1>2
  <2>2. CASE p = o
    BY <2>2, <1>1
  <2>3. CASE p.left = p.right
    BY <2>3, PartsOfOne
  <2> QED  BY <2>1, <2>2, <2>3
<1>3. o \in s
  BY WithinIs
<1>4. \A p \in s : Alike(p, TRUE)
  <2>1. ASSUME NEW p, p.left = p.right PROVE Alike(p, TRUE)
    BY <2>1 DEF Alike
  <2> QED  BY <2>1
<1> HIDE DEF s
<1>5. Within(o) \subseteq s
  BY <1>2, <1>3, WithinIs
<1> QED  BY <1>4, <1>5 DEF Equal

-----------------------------------------------------------------------------
(* What is compiled for two values in registers. *)

\* The answer for a part p.  Exact says that the part is compared by content.
Judged(p, exact, answers) ==
    /\ answers = {"yes"} \/ answers = {"no"}
    /\ "yes" \in answers => p.left = p.right \/ (~NeedsHeapBoxing(p.type) /\ Alike(p, TRUE))
    /\ exact => ("yes" \in answers <=> Alike(p, FALSE))

LEMMA YesOrNo ==
    ASSUME NEW c \in BOOLEAN
    PROVE  /\ Holds(c) = {"yes"} \/ Holds(c) = {"no"}
           /\ "yes" \in Holds(c) <=> c
           /\ "no" \in Holds(c) <=> ~c
BY DEF Holds

LEMMA FieldJudged ==
    ASSUME NEW p, p.left # Garbage, p.right # Garbage,
           NeedsHeapBoxing(p.type) /\ p.left.place = p.right.place => p.left = p.right
    PROVE  Judged(p, ~NeedsHeapBoxing(p.type), FieldEqual(p.type, p.left, p.right))
<1>1. Garbage \notin {p.left, p.right}
  OBVIOUS
<1>2. CASE IsFloat(p.type)
  <2>1. ~NeedsHeapBoxing(p.type)
    BY <1>2 DEF IsFloat, NeedsHeapBoxing
  <2>2. FieldEqual(p.type, p.left, p.right) = Holds(FloatOrdered("==", p.left, p.right))
    BY <1>1, <1>2, <2>1 DEF FieldEqual
  <2>3. FloatOrdered("==", p.left, p.right) \in BOOLEAN
    BY DEF FloatOrdered, Ordered
  <2>4. Alike(p, FALSE) <=> FloatOrdered("==", p.left, p.right)
    BY <1>2 DEF Alike, IsFloat
  <2>5. FloatOrdered("==", p.left, p.right) => Alike(p, TRUE)
    BY <1>2 DEF Alike, IsFloat
  <2> QED  BY <2>1, <2>2, <2>3, <2>4, <2>5, YesOrNo DEF Judged
<1>3. CASE NeedsHeapBoxing(p.type)
  <2>1. ~IsFloat(p.type)
    BY <1>3 DEF IsFloat, NeedsHeapBoxing
  <2>2. FieldEqual(p.type, p.left, p.right) = Holds(p.left.place = p.right.place)
    BY <1>1, <1>3, <2>1 DEF FieldEqual
  <2> QED  BY <1>3, <2>2, YesOrNo DEF Judged
<1>4. CASE ~IsFloat(p.type) /\ ~NeedsHeapBoxing(p.type)
  <2>1. FieldEqual(p.type, p.left, p.right) = Holds(p.left = p.right)
    BY <1>1, <1>4 DEF FieldEqual
  <2>2. \A nan : Alike(p, nan) <=> p.left = p.right
    BY <1>4 DEF Alike, NeedsHeapBoxing
  <2> QED  BY <1>4, <2>1, <2>2, YesOrNo DEF Judged
<1> QED  BY <1>2, <1>3, <1>4

LEMMA ElementJudged ==
    ASSUME NEW p, p.left # Garbage, p.right # Garbage,
           NeedsHeapBoxing(p.type) /\ p.left.place = p.right.place => p.left = p.right
    PROVE  Judged(p, ~NeedsHeapBoxing(p.type) /\ ~IsFloat(p.type), ElementEqual(p.type, p.left, p.right))
<1>1. CASE IsFloat(p.type)
  <2>1. ElementEqual(p.type, p.left, p.right) = Holds(p.left = p.right)
    BY <1>1 DEF ElementEqual
  <2> QED  BY <1>1, <2>1, YesOrNo DEF Judged
<1>2. CASE ~IsFloat(p.type)
  <2>1. ElementEqual(p.type, p.left, p.right) = FieldEqual(p.type, p.left, p.right)
    BY <1>2 DEF ElementEqual
  <2>2. Judged(p, ~NeedsHeapBoxing(p.type), FieldEqual(p.type, p.left, p.right))
    BY FieldJudged
  <2> QED  BY <1>2, <2>1, <2>2 DEF Judged
<1> QED  BY <1>1, <1>2

\* The answers for the parts of a block, all of them yes or no, taken together.
LEMMA EveryIs ==
    ASSUME NEW answers, \A i \in DOMAIN answers : answers[i] = {"yes"} \/ answers[i] = {"no"}
    PROVE  /\ Every(answers) \subseteq {"yes", "no"}
           /\ "yes" \in Every(answers) <=> \A i \in DOMAIN answers : "yes" \in answers[i]
           /\ "no" \in Every(answers) <=> \E i \in DOMAIN answers : ~("yes" \in answers[i])
BY DEF Every
-----------------------------------------------------------------------------
(* What is compiled for two blocks. *)

\* What the assumption says of the operands.
Readable(o) == IsRead(o.left, o.type) /\ IsRead(o.right, o.type) /\ SharesBlocks(o)
SameShape(o) == HasParts(o.type) /\ (o.type.is = "tag" => o.left.disc = o.right.disc)
Both(o) == DOMAIN o.left.parts \cap DOMAIN o.right.parts
PartAt(o, i) == [type |-> PartType(o.type, o.left, i), left |-> o.left.parts[i], right |-> o.right.parts[i]]

LEMMA FitsWhole ==
    ASSUME NEW n, NEW t, Fits(n, t)
    PROVE  n # Garbage
BY DEF Fits, Garbage, Word, Real

LEMMA PartsFit ==
    ASSUME NEW o, Readable(o), SameShape(o)
    PROVE  /\ PartsOf(o) = {PartAt(o, i) : i \in Both(o)}
           /\ \A i \in Both(o) :
                 /\ PartAt(o, i).left # Garbage /\ PartAt(o, i).right # Garbage
                 /\ NeedsHeapBoxing(PartAt(o, i).type) /\ PartAt(o, i).left.place = PartAt(o, i).right.place
                    => PartAt(o, i).left = PartAt(o, i).right
                 /\ PartAt(o, i).type \in PartTypes(o.type)
<1>1. PartsOf(o) = {PartAt(o, i) : i \in Both(o)}
  BY DEF PartsOf, SameShape, Both, PartAt
<1> SUFFICES ASSUME NEW i \in Both(o)
             PROVE  /\ PartAt(o, i).left # Garbage /\ PartAt(o, i).right # Garbage
                    /\ NeedsHeapBoxing(PartAt(o, i).type) /\ PartAt(o, i).left.place = PartAt(o, i).right.place
                       => PartAt(o, i).left = PartAt(o, i).right
                    /\ PartAt(o, i).type \in PartTypes(o.type)
  BY <1>1
<1>2. /\ PartAt(o, i).left = o.left.parts[i] /\ PartAt(o, i).right = o.right.parts[i]
      /\ PartAt(o, i).type = PartType(o.type, o.left, i)
  BY DEF PartAt
<1>3. i \in DOMAIN o.left.parts /\ i \in DOMAIN o.right.parts
  BY DEF Both
<1>4. PartType(o.type, o.right, i) = PartType(o.type, o.left, i)
  BY DEF SameShape, HasParts, PartType
<1>5. o.left.parts[i] # Garbage /\ o.right.parts[i] # Garbage
  BY <1>3, FitsWhole DEF Readable, IsRead, SameShape
<1>6. NeedsHeapBoxing(PartType(o.type, o.left, i)) /\ o.left.parts[i].place = o.right.parts[i].place
      => o.left.parts[i] = o.right.parts[i]
  BY <1>3, <1>4 DEF Readable, SharesBlocks, SameShape
<1>7. PartType(o.type, o.left, i) \in PartTypes(o.type)
  <2>1. CASE o.type.is = "array"
    BY <2>1 DEF PartType, PartTypes
  <2>2. CASE o.type.is = "record"
    <3>1. i \in DOMAIN o.type.fields
      BY <1>3, <2>2 DEF Readable, IsRead, Fits, IsInteger, IsFloat
    <3> QED  BY <2>2, <3>1 DEF PartType, PartTypes
  <2>3. CASE o.type.is = "tag"
    <3>1. o.left.disc + 1 \in DOMAIN o.type.variants /\ i \in DOMAIN o.type.variants[o.left.disc + 1]
      BY <1>3, <2>3 DEF Readable, IsRead, Fits, IsInteger, IsFloat
    <3>2. PartType(o.type, o.left, i) = o.type.variants[o.left.disc + 1][i]
      BY <2>3 DEF PartType
    <3>3. PartTypes(o.type) = UNION {{vs[j] : j \in DOMAIN vs} : vs \in {o.type.variants[d] : d \in DOMAIN o.type.variants}}
      BY <2>3 DEF PartTypes
    <3> QED  BY <3>1, <3>2, <3>3
  <2> QED  BY <2>1, <2>2, <2>3 DEF SameShape, HasParts
<1> QED  BY <1>2, <1>5, <1>6, <1>7

\* The answer for all parts of a block.
Summed(o, exact, answers) ==
    /\ answers \subseteq {"yes", "no"}
    /\ "yes" \in answers => \A p \in PartsOf(o) : p.left = p.right \/ (~NeedsHeapBoxing(p.type) /\ Alike(p, TRUE))
    /\ exact => /\ "yes" \in answers => \A p \in PartsOf(o) : Alike(p, FALSE)
                /\ "no" \in answers => \E p \in PartsOf(o) : ~Alike(p, FALSE)

LEMMA PartsSummed ==
    ASSUME NEW o, NEW exact, NEW answers, DOMAIN answers = Both(o), PartsOf(o) = {PartAt(o, i) : i \in Both(o)},
           \A i \in Both(o) : Judged(PartAt(o, i), exact, answers[i])
    PROVE  Summed(o, exact, Every(answers))
<1>1. \A i \in DOMAIN answers : answers[i] = {"yes"} \/ answers[i] = {"no"}
  BY DEF Judged
<1>2. /\ Every(answers) \subseteq {"yes", "no"}
      /\ "yes" \in Every(answers) <=> \A i \in DOMAIN answers : "yes" \in answers[i]
      /\ "no" \in Every(answers) <=> \E i \in DOMAIN answers : ~("yes" \in answers[i])
  BY <1>1, EveryIs
<1>3. "yes" \in Every(answers) => \A p \in PartsOf(o) : p.left = p.right \/ (~NeedsHeapBoxing(p.type) /\ Alike(p, TRUE))
  BY <1>2, Zenon DEF Judged
<1>4. ASSUME exact
      PROVE  /\ "yes" \in Every(answers) => \A p \in PartsOf(o) : Alike(p, FALSE)
             /\ "no" \in Every(answers) => \E p \in PartsOf(o) : ~Alike(p, FALSE)
  <2>1. \A i \in Both(o) : "yes" \in answers[i] <=> Alike(PartAt(o, i), FALSE)
    BY <1>4 DEF Judged
  <2> QED  BY <1>2, <2>1, Zenon
<1> QED  BY <1>2, <1>3, <1>4 DEF Summed

\* Blocks that a program compares are equal as their parts are.
LEMMA ArraysSummed ==
    ASSUME NEW o, Readable(o), o.type.is = "array", Len(o.left.parts) = Len(o.right.parts)
    PROVE  Summed(o, ByContent(o.type), ArrayEqual(o.type, o.left, o.right))
<1> DEFINE answers == [i \in DOMAIN o.left.parts |-> ElementEqual(o.type.of, o.left.parts[i], o.right.parts[i])]
<1>1. SameShape(o)
  BY DEF SameShape, HasParts
<1>2. DOMAIN o.left.parts = DOMAIN o.right.parts
  BY DEF Readable, IsRead, Fits, IsRow, IsInteger, IsFloat
<1>3. DOMAIN answers = Both(o)
  BY <1>2 DEF Both
<1>4. ASSUME NEW i \in Both(o) PROVE Judged(PartAt(o, i), ByContent(o.type), answers[i])
  <2> DEFINE p == PartAt(o, i)
  <2>1. p.type = o.type.of /\ p.left = o.left.parts[i] /\ p.right = o.right.parts[i]
    BY DEF PartAt, PartType
  <2>2. /\ p.left # Garbage /\ p.right # Garbage /\ p.type \in PartTypes(o.type)
        /\ NeedsHeapBoxing(p.type) /\ p.left.place = p.right.place => p.left = p.right
    BY <1>1, PartsFit
  <2>3. answers[i] = ElementEqual(p.type, p.left, p.right)
    BY <1>3, <2>1
  <2> HIDE DEF p
  <2>4. Judged(p, ~NeedsHeapBoxing(p.type) /\ ~IsFloat(p.type), ElementEqual(p.type, p.left, p.right))
    BY <2>2, ElementJudged
  <2>5. ByContent(o.type) => ~NeedsHeapBoxing(p.type) /\ ~IsFloat(p.type)
    BY <2>1, <2>2 DEF ByContent
  <2>6. Judged(p, ByContent(o.type), ElementEqual(p.type, p.left, p.right))
    BY <2>4, <2>5 DEF Judged
  <2> QED  BY <2>3, <2>6 DEF p
<1> HIDE DEF answers
<1>5. Summed(o, ByContent(o.type), Every(answers))
  BY <1>1, <1>3, <1>4, PartsFit, PartsSummed
<1>6. ArrayEqual(o.type, o.left, o.right) = Every(answers)
  BY DEF ArrayEqual, answers
<1> QED  BY <1>5, <1>6

LEMMA RecordsSummed ==
    ASSUME NEW o, Readable(o), o.type.is = "record"
    PROVE  Summed(o, ByContent(o.type), RecordEqual(o.type, o.left, o.right))
<1> DEFINE answers == [i \in DOMAIN o.type.fields |-> FieldEqual(o.type.fields[i].of, o.left.parts[i], o.right.parts[i])]
<1>1. SameShape(o)
  BY DEF SameShape, HasParts
<1>2. DOMAIN o.left.parts = DOMAIN o.type.fields /\ DOMAIN o.right.parts = DOMAIN o.type.fields
  BY DEF Readable, IsRead, Fits, IsInteger, IsFloat
<1>3. DOMAIN answers = Both(o)
  BY <1>2 DEF Both
<1>4. ASSUME NEW i \in Both(o) PROVE Judged(PartAt(o, i), ByContent(o.type), answers[i])
  <2> DEFINE p == PartAt(o, i)
  <2>1. p.type = o.type.fields[i].of /\ p.left = o.left.parts[i] /\ p.right = o.right.parts[i]
    BY DEF PartAt, PartType
  <2>2. /\ p.left # Garbage /\ p.right # Garbage /\ p.type \in PartTypes(o.type)
        /\ NeedsHeapBoxing(p.type) /\ p.left.place = p.right.place => p.left = p.right
    BY <1>1, PartsFit
  <2>3. answers[i] = FieldEqual(p.type, p.left, p.right)
    BY <1>3, <2>1
  <2> HIDE DEF p
  <2>4. Judged(p, ~NeedsHeapBoxing(p.type), FieldEqual(p.type, p.left, p.right))
    BY <2>2, FieldJudged
  <2>5. ByContent(o.type) => ~NeedsHeapBoxing(p.type)
    BY <2>2 DEF ByContent
  <2>6. Judged(p, ByContent(o.type), FieldEqual(p.type, p.left, p.right))
    BY <2>4, <2>5 DEF Judged
  <2> QED  BY <2>3, <2>6 DEF p
<1> HIDE DEF answers
<1>5. Summed(o, ByContent(o.type), Every(answers))
  BY <1>1, <1>3, <1>4, PartsFit, PartsSummed
<1>6. RecordEqual(o.type, o.left, o.right) = Every(answers)
  BY DEF RecordEqual, answers
<1> QED  BY <1>5, <1>6

\* Each field of a payload has an offset of its own.
LEMMA OffsetsDiffer ==
    ASSUME NEW types, IsRow(types), NEW i \in DOMAIN types, NEW j \in DOMAIN types,
           PayloadOffset(types, i) = PayloadOffset(types, j)
    PROVE  i = j
<1> DEFINE xs == [k \in DOMAIN types |-> StorageSize(types[k])]
<1>1. PICK n \in Nat : DOMAIN types = 1 .. n
  BY DEF IsRow
<1>2. \A t : StorageSize(t) \in Nat \ {0}
  BY DEF StorageSize
<1>3. xs \in Seq(Nat \ {0}) /\ Len(xs) = n
  <2>1. \A k \in 1 .. n : xs[k] \in Nat \ {0}
    BY <1>1, <1>2
  <2>2. xs = [k \in 1 .. n |-> xs[k]]
    BY <1>1
  <2> HIDE DEF xs
  <2> QED  BY <2>1, <2>2
<1>4. PayloadOffset(types, i) = 4 + SumBefore(xs, i) /\ PayloadOffset(types, j) = 4 + SumBefore(xs, j)
  BY DEF PayloadOffset
<1> HIDE DEF xs
<1>5. i \in 1 .. n + 1 /\ j \in 1 .. n + 1
  BY <1>1
<1>6. xs \in Seq(Nat)
  BY <1>3
<1>7. SumBefore(xs, i) \in Nat /\ SumBefore(xs, j) \in Nat
  BY <1>3, <1>5, <1>6, SumsAre
<1>8. SumBefore(xs, i) = SumBefore(xs, j)
  <2>1. PICK a \in Nat, b \in Nat : a = SumBefore(xs, i) /\ b = SumBefore(xs, j)
    BY <1>7
  <2>2. 4 + a = 4 + b
    BY <1>4, <2>1
  <2> QED  BY <2>1, <2>2
<1>9. (i < j => SumBefore(xs, i) < SumBefore(xs, j)) /\ (j < i => SumBefore(xs, j) < SumBefore(xs, i))
  BY <1>3, <1>5, SumsAscend
<1> QED  BY <1>5, <1>7, <1>8, <1>9

\* A load by the variant that a block has finds the field.
LEMMA OwnField ==
    ASSUME NEW t, NEW v, IsRow(t.variants[v.disc + 1]), NEW i \in DOMAIN t.variants[v.disc + 1]
    PROVE  PayloadField(t, t.variants[v.disc + 1], i, v) = v.parts[i]
<1> DEFINE own == t.variants[v.disc + 1]
           same == {j \in DOMAIN own : own[j] = own[i] /\ PayloadOffset(own, j) = PayloadOffset(own, i)}
<1>1. same = {i}
  BY OffsetsDiffer
<1>2. PayloadField(t, own, i, v) = IF same = {} THEN Garbage ELSE v.parts[CHOOSE j \in same : TRUE]
  BY DEF PayloadField
<1> HIDE DEF same, own
<1>3. (CHOOSE j \in same : TRUE) = i
  BY <1>1
<1>4. same # {}
  BY <1>1
<1>5. PayloadField(t, own, i, v) = v.parts[i]
  BY <1>2, <1>3, <1>4
<1> QED  BY <1>5 DEF own

\* Only a string that is none makes a comparison crash.
LEMMA OnlyStringsCrash ==
    ASSUME NEW types, NEW as, NEW t, NEW b, \A i \in DOMAIN types : types[i].is # "str"
    PROVE  "crash" \notin PayloadEqual(t, types, as, b)
<1>1. \A u, m, n : u.is # "str" => "crash" \notin FieldEqual(u, m, n)
  BY DEF FieldEqual, Holds
<1> QED  BY <1>1 DEF PayloadEqual, Every

LEMMA TagsSummed ==
    ASSUME NEW o, Readable(o), o.type.is = "tag", SameVariant(o)
    PROVE  Summed(o, ByContent(o.type), TagEqual(o.type, o.left, o.right))
<1> DEFINE own == o.type.variants[o.left.disc + 1]
           answers == [i \in DOMAIN own |-> FieldEqual(own[i], PayloadField(o.type, own, i, o.left), PayloadField(o.type, own, i, o.right))]
           payloads == [d \in DOMAIN o.type.variants |-> PayloadEqual(o.type, o.type.variants[d], o.left, o.right)]
<1>1. SameShape(o) /\ o.left.disc = o.right.disc
  BY DEF SameShape, HasParts, SameVariant
<1>2. /\ o.left.disc + 1 \in DOMAIN o.type.variants /\ IsRow(own)
      /\ DOMAIN o.left.parts = DOMAIN own /\ DOMAIN o.right.parts = DOMAIN own
  BY <1>1 DEF Readable, IsRead, Fits, IsInteger, IsFloat
<1>3. DOMAIN answers = Both(o) /\ Both(o) = DOMAIN own
  BY <1>2 DEF Both
<1>4. ASSUME NEW i \in Both(o) PROVE Judged(PartAt(o, i), ByContent(o.type), answers[i])
  <2> DEFINE p == PartAt(o, i)
  <2>1. p.type = own[i] /\ p.left = o.left.parts[i] /\ p.right = o.right.parts[i]
    BY DEF PartAt, PartType
  <2>2. /\ p.left # Garbage /\ p.right # Garbage /\ p.type \in PartTypes(o.type)
        /\ NeedsHeapBoxing(p.type) /\ p.left.place = p.right.place => p.left = p.right
    BY <1>1, PartsFit
  <2>3. PayloadField(o.type, own, i, o.left) = p.left /\ PayloadField(o.type, own, i, o.right) = p.right
    <3>1. i \in DOMAIN own /\ own = o.type.variants[o.right.disc + 1]
      BY <1>1, <1>3
    <3>2. PayloadField(o.type, own, i, o.left) = o.left.parts[i]
      BY <1>2, <3>1, OwnField
    <3>3. PayloadField(o.type, own, i, o.right) = o.right.parts[i]
      BY <1>2, <3>1, OwnField
    <3> QED  BY <2>1, <3>2, <3>3
  <2>4. answers[i] = FieldEqual(p.type, p.left, p.right)
    BY <1>3, <2>1, <2>3
  <2> HIDE DEF p
  <2>5. Judged(p, ~NeedsHeapBoxing(p.type), FieldEqual(p.type, p.left, p.right))
    BY <2>2, FieldJudged
  <2>6. ByContent(o.type) => ~NeedsHeapBoxing(p.type)
    BY <2>2 DEF ByContent
  <2>7. Judged(p, ByContent(o.type), FieldEqual(p.type, p.left, p.right))
    BY <2>5, <2>6 DEF Judged
  <2> QED  BY <2>4, <2>7 DEF p
<1>5. payloads[o.left.disc + 1] = Every(answers)
  BY <1>2 DEF PayloadEqual
<1> HIDE DEF answers
<1>6. Summed(o, ByContent(o.type), Every(answers))
  BY <1>1, <1>3, <1>4, PartsFit, PartsSummed
<1>7. Every(answers) \subseteq {"yes", "no"}
  BY <1>6 DEF Summed
<1>8. ASSUME NEW d \in DOMAIN payloads PROVE "crash" \notin payloads[d]
  <2>1. CASE d = o.left.disc + 1
    BY <2>1, <1>5, <1>7
  <2>2. CASE d # o.left.disc + 1
    <3>1. \A i \in DOMAIN o.type.variants[d] : o.type.variants[d][i].is # "str"
      BY <1>8, <2>2 DEF SameVariant
    <3>2. payloads[d] = PayloadEqual(o.type, o.type.variants[d], o.left, o.right)
      BY <1>8
    <3> QED  BY <3>1, <3>2, OnlyStringsCrash
  <2> QED  BY <2>1, <2>2
<1>9. TagEqual(o.type, o.left, o.right) =
      (payloads[o.left.disc + 1] \cap {"yes", "no"})
      \cup (IF \E d \in DOMAIN payloads : "crash" \in payloads[d] THEN {"crash"} ELSE {})
  BY DEF TagEqual
<1> HIDE DEF payloads, own
<1>10. TagEqual(o.type, o.left, o.right) = Every(answers)
  BY <1>5, <1>7, <1>8, <1>9
<1> QED  BY <1>6, <1>10

-----------------------------------------------------------------------------
(* Comparisons. *)

\* The answers for two blocks are those for their contents, or come near them.
LEMMA BlocksCompared ==
    ASSUME NEW o, Readable(o), HasParts(o.type), o.type.is = "tag" => SameVariant(o)
    PROVE  LET answers == BlocksEqual(o.type, o.left, o.right)
           IN  /\ answers \subseteq {"yes", "no"}
               /\ "yes" \in answers => Equal(o, TRUE)
               /\ ByContent(o.type) => /\ "yes" \in answers => Equal(o, FALSE)
                                       /\ "no" \in answers => ~Equal(o, FALSE)
<1> DEFINE answers == BlocksEqual(o.type, o.left, o.right)
<1>1. \/ /\ Alike(o, TRUE) /\ Alike(o, FALSE)
         /\ Summed(o, ByContent(o.type), answers)
      \/ /\ answers = {"no"}
         /\ ~Alike(o, FALSE)
  <2>1. CASE o.type.is = "array"
    <3>1. answers = ArrayEqual(o.type, o.left, o.right)
      BY <2>1 DEF BlocksEqual
    <3>2. \A nan : Alike(o, nan) <=> Len(o.left.parts) = Len(o.right.parts)
      BY <2>1 DEF Alike, IsFloat
    <3>3. CASE Len(o.left.parts) = Len(o.right.parts)
      BY <2>1, <3>1, <3>2, <3>3, ArraysSummed
    <3>4. CASE Len(o.left.parts) # Len(o.right.parts)
      BY <3>1, <3>2, <3>4 DEF ArrayEqual
    <3> QED  BY <3>3, <3>4
  <2>2. CASE o.type.is = "record"
    <3>1. answers = RecordEqual(o.type, o.left, o.right)
      BY <2>2 DEF BlocksEqual
    <3>2. \A nan : Alike(o, nan)
      BY <2>2 DEF Alike, IsFloat
    <3> QED  BY <2>2, <3>1, <3>2, RecordsSummed
  <2>3. CASE o.type.is = "tag"
    <3>1. answers = TagEqual(o.type, o.left, o.right)
      BY <2>3 DEF BlocksEqual
    <3>2. o.left.disc = o.right.disc
      BY <2>3 DEF SameVariant
    <3>3. \A nan : Alike(o, nan)
      BY <2>3, <3>2 DEF Alike, IsFloat
    <3> QED  BY <2>3, <3>1, <3>3, TagsSummed
  <2> QED  BY <2>1, <2>2, <2>3 DEF HasParts
<1> HIDE DEF answers
<1>2. CASE answers = {"no"} /\ ~Alike(o, FALSE)
  <2>1. ~Equal(o, FALSE)
    BY <1>2, WithinIs DEF Equal
  <2> QED  BY <1>2, <2>1 DEF answers
<1>3. CASE Alike(o, TRUE) /\ Alike(o, FALSE) /\ Summed(o, ByContent(o.type), answers)
  <2>1. answers \subseteq {"yes", "no"}
    BY <1>3 DEF Summed
  <2>2. "yes" \in answers => Equal(o, TRUE)
    BY <1>3, EqualOver DEF Summed
  <2>3. ASSUME ByContent(o.type)
        PROVE  ("yes" \in answers => Equal(o, FALSE)) /\ ("no" \in answers => ~Equal(o, FALSE))
    <3>1. \A p \in PartsOf(o) : ~NeedsHeapBoxing(p.type)
      <4>1. SameShape(o)
        BY DEF SameShape, SameVariant
      <4>2. \A i \in Both(o) : PartAt(o, i).type \in PartTypes(o.type)
        BY <4>1, PartsFit
      <4> QED  BY <2>3, <4>1, <4>2, PartsFit DEF ByContent
    <3>2. \A p \in PartsOf(o) : PartsOf(p) = {}
      BY <3>1 DEF PartsOf, HasParts, NeedsHeapBoxing
    <3>3. Within(o) = {o} \cup PartsOf(o)
      BY <3>2, ComparedFlat
    <3> QED  BY <1>3, <2>3, <3>3, Zenon DEF Summed, Equal
  <2> QED  BY <2>1, <2>2, <2>3 DEF answers
<1> QED  BY <1>1, <1>2, <1>3

\* What an operator answers is by value.
ByValue(op, o, a) ==
    /\ a \in {"yes", "no"}
    /\ IF ByContent(o.type) THEN (a = "yes") = Intended(op, o)
       ELSE (a = "yes") = (op = "==") => Equal(o, TRUE)

LEMMA OrderedBool ==
    ASSUME NEW m, NEW n, NEW op \in Equalities \cup Orderings
    PROVE  Ordered(op, m, n) \in BOOLEAN
<1>1. CASE op = "=="
  BY <1>1 DEF Ordered
<1>2. CASE op = "!="
  BY <1>2 DEF Ordered
<1>3. CASE op = "<"
  BY <1>3 DEF Ordered
<1>4. CASE op = "<="
  BY <1>4 DEF Ordered
<1>5. CASE op = ">"
  BY <1>5 DEF Ordered
<1>6. CASE op = ">="
  BY <1>6 DEF Ordered
<1> QED  BY <1>1, <1>2, <1>3, <1>4, <1>5, <1>6 DEF Equalities, Orderings

LEMMA Answered ==
    ASSUME NEW o, Readable(o), NEW op \in Equalities \cup Orderings, Proper(op, o),
           NEW a \in Compiled(op, o.type, o.left, o.right)
    PROVE  ByValue(op, o, a)
<1>1. CASE IsInteger(o.type)
  <2>1. a \in Holds(Ordered(op, AsSigned(o.type, o.left), AsSigned(o.type, o.right)))
    BY <1>1 DEF Compiled, IsInteger, IsFloat
  <2>2. Ordered(op, AsSigned(o.type, o.left), AsSigned(o.type, o.right)) \in BOOLEAN
    BY OrderedBool
  <2>3. ByContent(o.type)
    BY <1>1 DEF ByContent, PartTypes, IsInteger
  <2>4. Intended(op, o) = Ordered(op, AsSigned(o.type, o.left), AsSigned(o.type, o.right))
    BY <1>1 DEF Intended, IsInteger, IsFloat
  <2> QED  BY <2>1, <2>2, <2>3, <2>4 DEF ByValue, Holds
<1>2. CASE IsFloat(o.type)
  <2>0. ~IsInteger(o.type)
    BY <1>2 DEF IsInteger, IsFloat
  <2>1. a \in Holds(FloatOrdered(op, o.left, o.right))
    BY <1>2, <2>0 DEF Compiled, IsFloat
  <2>2. FloatOrdered(op, o.left, o.right) \in BOOLEAN
    BY OrderedBool DEF FloatOrdered
  <2>3. ByContent(o.type)
    BY <1>2 DEF ByContent, PartTypes, IsFloat
  <2>4. Intended(op, o) = FloatOrdered(op, o.left, o.right)
    BY <1>2, <2>0 DEF Intended
  <2> QED  BY <2>1, <2>2, <2>3, <2>4 DEF ByValue, Holds
<1>3. CASE ~IsInteger(o.type) /\ ~IsFloat(o.type)
  <2>1. /\ op \in Equalities /\ o.type.is \notin {"unit", "closure"}
        /\ o.type.is = "tag" => SameVariant(o)
    BY <1>3 DEF Proper
  <2>2. Intended(op, o) = (Equal(o, FALSE) = (op = "=="))
    BY <1>3 DEF Intended
  <2>3. Equal(o, FALSE) \in BOOLEAN /\ Equal(o, TRUE) \in BOOLEAN
    BY DEF Equal
  <2>4. op \in {"==", "!="}
    BY <2>1 DEF Equalities
  <2>5. CASE o.type.is \in {"bool", "str"}
    <3>1. a \in Holds(Ordered(op, o.left, o.right))
      BY <1>3, <2>4, <2>5 DEF Compiled, Orderings
    <3>2. Ordered(op, o.left, o.right) = ((o.left = o.right) = (op = "=="))
      BY <2>4 DEF Ordered
    <3>3. ByContent(o.type) /\ PartsOf(o) = {}
      BY <2>5 DEF ByContent, PartTypes, PartsOf, HasParts
    <3>4. Within(o) = {o}
      BY <3>3, ComparedFlat
    <3>5. Equal(o, FALSE) <=> o.left = o.right
      BY <2>5, <3>4 DEF Equal, Alike, IsFloat
    <3> QED  BY <2>2, <2>3, <2>4, <3>1, <3>2, <3>3, <3>5 DEF ByValue, Holds
  <2>6. CASE HasParts(o.type)
    <3> DEFINE answers == BlocksEqual(o.type, o.left, o.right)
    <3>1. a \in IF op = "!=" THEN Negated(answers) ELSE answers
      BY <1>3, <2>6 DEF Compiled, HasParts
    <3>2. /\ answers \subseteq {"yes", "no"}
          /\ "yes" \in answers => Equal(o, TRUE)
          /\ ByContent(o.type) => /\ "yes" \in answers => Equal(o, FALSE)
                                  /\ "no" \in answers => ~Equal(o, FALSE)
      BY <2>1, <2>6, BlocksCompared
    <3> HIDE DEF answers
    <3>3. CASE op = "=="
      BY <2>2, <2>3, <3>1, <3>2, <3>3 DEF ByValue
    <3>4. CASE op = "!="
      <4>1. (a = "yes" /\ "no" \in answers) \/ (a = "no" /\ "yes" \in answers)
        BY <3>1, <3>2, <3>4 DEF Negated
      <4> QED  BY <2>2, <2>3, <3>2, <3>4, <4>1 DEF ByValue
    <3> QED  BY <2>4, <3>3, <3>4
  <2>7. o.type.is \in {"bool", "str"} \/ HasParts(o.type)
    BY <1>3, <2>1 DEF Readable, IsRead, Fits, HasParts
  <2> QED  BY <2>5, <2>6, <2>7
<1> QED  BY <1>1, <1>2, <1>3

\* The operands stay as they are, and the answer is one that the code can give.
AsCompiled ==
    /\ \E t \in DOMAIN Operands : operands \in Operands[t]
    /\ asked \in {"none"} \cup Equalities \cup Orderings
    /\ asked # "none" => answer \in Compiled(asked, operands.type, operands.left, operands.right)

\* A comparison answers, and by value, for any operands that are what their types
\* say, with one block at an address, blocks in blocks to any depth.
THEOREM ComparisonsByValue == ComparisonSpec => []ComparesByValue
<1>1. ComparisonInit => AsCompiled
  BY DEF ComparisonInit, AsCompiled
<1>2. AsCompiled /\ [ComparisonNext]_comparisonVars => AsCompiled'
  <2> SUFFICES ASSUME AsCompiled, [ComparisonNext]_comparisonVars PROVE AsCompiled'
    OBVIOUS
  <2>1. CASE UNCHANGED comparisonVars
    BY <2>1 DEF comparisonVars, AsCompiled
  <2>2. ASSUME NEW op \in Equalities \cup Orderings, Compare(op) PROVE AsCompiled'
    BY <2>2 DEF Compare, AsCompiled
  <2> QED  BY <2>1, <2>2 DEF ComparisonNext
<1>3. AsCompiled => ComparesByValue
  <2> SUFFICES ASSUME AsCompiled, asked # "none", Proper(asked, operands)
               PROVE  ByValue(asked, operands, answer)
    BY DEF ComparesByValue, ByValue
  <2>1. Readable(operands)
    BY ComparisonAssumption DEF AsCompiled, Readable
  <2> QED  BY <2>1, Answered DEF AsCompiled
<1> QED  BY <1>1, <1>2, <1>3, PTL DEF ComparisonSpec
=============================================================================
