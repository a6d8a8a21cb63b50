-------------------------- MODULE NaturalRecursion --------------------------
(***************************************************************************)
(* Induction over the natural numbers and functions defined by recursion   *)
(* over them.  The library states both for operators; here they are about  *)
(* sets and functions, and rest on its theorem that the natural numbers    *)
(* are well-founded.  The sums of PrefixSums are such a function.          *)
(***************************************************************************)
EXTENDS PrefixSums, WellFoundedInduction, TLAPS

\* A set of natural numbers that is not empty has a least one.
LEMMA Least ==
    ASSUME NEW T, T \subseteq Nat, T # {}
    PROVE  \E x \in T : \A y \in T : x <= y
<1>1. IsWellFoundedOn(OpToRel(<, Nat), Nat)
  BY NatLessThanWellFounded
<1>2. PICK x \in T : \A y \in T : <<y, x>> \notin OpToRel(<, Nat)
  BY <1>1, WFMin
<1>3. ASSUME NEW y \in T PROVE x <= y
  <2>1. ~(y < x)
    BY <1>2 DEF OpToRel
  <2> QED  BY <2>1, SMT
<1> QED  BY <1>3

\* A set that has zero, and with a number the next, has all of them.
LEMMA Induction ==
    ASSUME NEW T, 0 \in T, \A n \in Nat : n \in T => n + 1 \in T
    PROVE  Nat \subseteq T
<1> SUFFICES ASSUME NEW z \in Nat, z \notin T PROVE FALSE
  OBVIOUS
<1>1. PICK x \in Nat \ T : \A y \in Nat \ T : x <= y
  <2>1. Nat \ T \subseteq Nat /\ Nat \ T # {}
    OBVIOUS
  <2> QED  BY <2>1, Least
<1>2. x - 1 \in Nat /\ x - 1 \in T
  BY <1>1
<1>3. x - 1 + 1 \in T
  BY <1>2
<1> QED  BY <1>3

\* A set of natural numbers below a bound that is not empty has a greatest one.
LEMMA Greatest ==
    ASSUME NEW m \in Nat, NEW T, T \subseteq 0 .. m, T # {}
    PROVE  \E x \in T : \A y \in T : y <= x
<1> DEFINE U == {n \in Nat : \A y \in T : y <= n}
<1>1. U \subseteq Nat /\ m \in U
  OBVIOUS
<1> HIDE DEF U
<1>2. PICK x \in U : \A n \in U : x <= n
  BY <1>1, Least
<1>3. x \in Nat /\ \A y \in T : y <= x
  BY <1>2 DEF U
<1>4. x \in T
  <2> SUFFICES ASSUME x \notin T PROVE FALSE
    OBVIOUS
  <2>1. \A y \in T : y <= x - 1
    BY <1>3
  <2>2. x - 1 \in Nat
    <3>1. PICK y \in T : y <= x /\ y # x /\ y \in 0 .. m
      BY <1>3
    <3> QED  BY <3>1, <1>3
  <2>3. x - 1 \in U
    BY <2>1, <2>2 DEF U
  <2> QED  BY <2>3, <1>2, <1>3
<1> QED  BY <1>3, <1>4

\* The values f[0] to f[n] of the function that starts with c and goes on with step.
Follows(f, n, c, step) == f[0] = c /\ \A i \in 1 .. n : f[i] = step[i][f[i - 1]]

\* There is a function that starts with c and goes on with step up to n.
LEMMA RecursionUpTo ==
    ASSUME NEW S, NEW c \in S, NEW n \in Nat, NEW step \in [1 .. n -> [S -> S]]
    PROVE  \E f \in [0 .. n -> S] : Follows(f, n, c, step)
<1> DEFINE T == {m \in Nat : m <= n => \E f \in [0 .. m -> S] : Follows(f, m, c, step)}
<1>1. 0 \in T
  <2>1. [i \in 0 .. 0 |-> c] \in [0 .. 0 -> S]
    OBVIOUS
  <2>2. Follows([i \in 0 .. 0 |-> c], 0, c, step)
    BY DEF Follows
  <2> QED  BY <2>1, <2>2
<1>2. ASSUME NEW m \in Nat, m \in T PROVE m + 1 \in T
  <2> SUFFICES ASSUME m + 1 <= n PROVE \E f \in [0 .. m + 1 -> S] : Follows(f, m + 1, c, step)
    OBVIOUS
  <2>1. PICK f \in [0 .. m -> S] : Follows(f, m, c, step)
    BY <1>2
  <2>2. PICK g : g = [i \in 0 .. m + 1 |-> IF i = m + 1 THEN step[m + 1][f[m]] ELSE f[i]]
    OBVIOUS
  <2>3. m + 1 \in 1 .. n /\ m \in 0 .. m /\ f[m] \in S
    OBVIOUS
  <2>4. g \in [0 .. m + 1 -> S]
    BY <2>2, <2>3
  <2>5. Follows(g, m + 1, c, step)
    <3>1. g[0] = c /\ g[m + 1] = step[m + 1][g[m]]
      BY <2>1, <2>2 DEF Follows
    <3>2. ASSUME NEW i \in 1 .. m PROVE g[i] = step[i][g[i - 1]]
      BY <2>1, <2>2 DEF Follows
    <3> QED  BY <3>1, <3>2 DEF Follows
  <2> QED  BY <2>4, <2>5
<1> HIDE DEF T
<1>3. Nat \subseteq T
  BY <1>1, <1>2, Induction
<1> QED  BY <1>3 DEF T

\* There is one only, as far as both go.
LEMMA RecursionUnique ==
    ASSUME NEW c, NEW step, NEW m \in Nat, NEW n \in Nat, m <= n,
           NEW f, NEW g, Follows(f, m, c, step), Follows(g, n, c, step)
    PROVE  \A i \in 0 .. m : f[i] = g[i]
<1> DEFINE T == {i \in Nat : i <= m => f[i] = g[i]}
<1>1. 0 \in T
  BY DEF Follows
<1>2. ASSUME NEW i \in Nat, i \in T PROVE i + 1 \in T
  <2> SUFFICES ASSUME i + 1 <= m PROVE f[i + 1] = g[i + 1]
    OBVIOUS
  <2>1. f[i] = g[i]
    BY <1>2
  <2>2. i + 1 \in 1 .. m /\ i + 1 \in 1 .. n /\ i + 1 - 1 = i
    OBVIOUS
  <2> QED  BY <2>1, <2>2 DEF Follows
<1> HIDE DEF T
<1>3. Nat \subseteq T
  BY <1>1, <1>2, Induction
<1> QED  BY <1>3 DEF T

\* The same without an end.
FollowsOn(f, c, step) == f[0] = c /\ \A n \in Nat : f[n + 1] = step[n + 1][f[n]]

LEMMA Recursion ==
    ASSUME NEW S, NEW c \in S, NEW step \in [Nat \ {0} -> [S -> S]]
    PROVE  \E f \in [Nat -> S] : FollowsOn(f, c, step)
<1> DEFINE G(n) == CHOOSE f \in [0 .. n -> S] : Follows(f, n, c, step)
           F == [n \in Nat |-> G(n)[n]]
<1>1. ASSUME NEW n \in Nat PROVE G(n) \in [0 .. n -> S] /\ Follows(G(n), n, c, step)
  <2>1. PICK d : d = [i \in 1 .. n |-> step[i]]
    OBVIOUS
  <2>2. d \in [1 .. n -> [S -> S]]
    BY <2>1
  <2>3. \E f \in [0 .. n -> S] : Follows(f, n, c, d)
    BY <2>2, RecursionUpTo
  <2>4. \A f : Follows(f, n, c, d) <=> Follows(f, n, c, step)
    BY <2>1 DEF Follows
  <2> QED  BY <2>3, <2>4
<1> HIDE DEF G
<1>2. F \in [Nat -> S] /\ F[0] = c
  BY <1>1 DEF Follows
<1>3. ASSUME NEW n \in Nat PROVE F[n + 1] = step[n + 1][F[n]]
  <2>1. n + 1 \in Nat /\ n <= n + 1 /\ n + 1 \in 1 .. n + 1 /\ n \in 0 .. n /\ n + 1 - 1 = n
    OBVIOUS
  <2>2. G(n)[n] = G(n + 1)[n]
    BY <2>1, <1>1, RecursionUnique
  <2>3. G(n + 1)[n + 1] = step[n + 1][G(n + 1)[n]]
    BY <2>1, <1>1 DEF Follows
  <2> QED  BY <2>1, <2>2, <2>3
<1> HIDE DEF F
<1> QED  BY <1>2, <1>3 DEF FollowsOn
-----------------------------------------------------------------------------
(* Sums. *)

\* The sums are what their recursive definition says.
LEMMA SumsAre ==
    ASSUME NEW xs \in Seq(Nat)
    PROVE  /\ SumBefore(xs, 1) = 0
           /\ \A i \in 1 .. Len(xs) + 1 : SumBefore(xs, i) \in Nat
           /\ \A i \in 1 .. Len(xs) : SumBefore(xs, i + 1) = SumBefore(xs, i) + xs[i]
<1>1. PICK k \in Nat : k = Len(xs) /\ DOMAIN xs = 1 .. k
  OBVIOUS
<1>2. \A n \in 1 .. k : xs[n] \in Nat
  BY <1>1
<1>3. PICK step : step = [n \in 1 .. k |-> [b \in Nat |-> b + xs[n]]]
  OBVIOUS
<1>4. step \in [1 .. k -> [Nat -> Nat]]
  <2>1. ASSUME NEW n \in 1 .. k PROVE [b \in Nat |-> b + xs[n]] \in [Nat -> Nat]
    <3>1. xs[n] \in Nat
      BY <1>2
    <3> QED  BY <3>1
  <2> QED  BY <2>1, <1>3
<1>5. PICK f \in [0 .. k -> Nat] : Follows(f, k, 0, step)
  <2>1. 0 \in Nat
    OBVIOUS
  <2> QED  BY <2>1, <1>4, RecursionUpTo
<1>6. ASSUME NEW n \in 1 .. k PROVE f[n] = f[n - 1] + xs[n]
  <2>1. f[n - 1] \in Nat /\ f[n] = step[n][f[n - 1]]
    BY <1>5 DEF Follows
  <2> QED  BY <2>1, <1>3
<1>7. f[0] = 0
  BY <1>5 DEF Follows
<1> DEFINE R(sum) == sum = [n \in 0 .. Len(xs) |-> IF n = 0 THEN 0 ELSE sum[n - 1] + xs[n]]
           B == CHOOSE sum : R(sum)
<1>8. R(f)
  BY <1>1, <1>6, <1>7
<1>9. R(B)
  BY <1>8
<1>10. \A i : SumBefore(xs, i) = B[i - 1]
  BY DEF SumBefore
<1> HIDE DEF B
<1>11. B[0] = 0 /\ \A n \in 1 .. k : B[n] = B[n - 1] + xs[n]
  <2>1. B = [n \in 0 .. k |-> IF n = 0 THEN 0 ELSE B[n - 1] + xs[n]]
    BY <1>1, <1>9
  <2>2. 0 \in 0 .. k /\ \A n \in 1 .. k : n \in 0 .. k /\ n # 0
    OBVIOUS
  <2> QED  BY <2>1, <2>2
<1> DEFINE T == {n \in Nat : n <= k => B[n] \in Nat}
<1>12. 0 \in T
  BY <1>11
<1>13. ASSUME NEW n \in Nat, n \in T PROVE n + 1 \in T
  <2> SUFFICES ASSUME n + 1 <= k PROVE B[n + 1] \in Nat
    OBVIOUS
  <2>1. B[n + 1] = B[n] + xs[n + 1]
    BY <1>11
  <2> QED  BY SMTT(30), <2>1, <1>2, <1>13
<1> HIDE DEF T
<1>14. Nat \subseteq T
  BY <1>12, <1>13, Induction
<1>15. \A n \in 0 .. k : B[n] \in Nat
  BY <1>14 DEF T
<1>16. SumBefore(xs, 1) = 0
  BY <1>10, <1>11
<1>17. ASSUME NEW i \in 1 .. k + 1 PROVE SumBefore(xs, i) \in Nat
  BY SMTT(30), <1>10, <1>15
<1>18. ASSUME NEW i \in 1 .. k PROVE SumBefore(xs, i + 1) = SumBefore(xs, i) + xs[i]
  <2>1. PICK j : j = i + 1 /\ j - 1 = i
    OBVIOUS
  <2>2. SumBefore(xs, j) = B[j - 1] /\ SumBefore(xs, i) = B[i - 1] /\ B[i] = B[i - 1] + xs[i]
    BY <1>10, <1>11
  <2> QED  BY <2>1, <2>2
<1> QED  BY <1>1, <1>16, <1>17, <1>18

\* Sums of positive numbers ascend.
LEMMA SumsAscend ==
    ASSUME NEW xs \in Seq(Nat \ {0})
    PROVE  \A i, j \in 1 .. Len(xs) + 1 : i < j => SumBefore(xs, i) < SumBefore(xs, j)
<1>1. PICK k \in Nat : k = Len(xs) /\ xs \in Seq(Nat) /\ \A n \in 1 .. k : xs[n] \in Nat \ {0}
  OBVIOUS
<1>2. /\ \A i \in 1 .. k + 1 : SumBefore(xs, i) \in Nat
      /\ \A i \in 1 .. k : SumBefore(xs, i + 1) = SumBefore(xs, i) + xs[i]
  BY <1>1, SumsAre
<1>3. ASSUME NEW i \in 1 .. k + 1, NEW j \in 1 .. k + 1, i < j PROVE SumBefore(xs, i) < SumBefore(xs, j)
  <2> DEFINE T == {m \in Nat : i < m /\ m <= k + 1 => SumBefore(xs, i) < SumBefore(xs, m)}
  <2>1. 0 \in T
    OBVIOUS
  <2>2. ASSUME NEW m \in Nat, m \in T PROVE m + 1 \in T
    <3> SUFFICES ASSUME i < m + 1, m + 1 <= k + 1 PROVE SumBefore(xs, i) < SumBefore(xs, m + 1)
      OBVIOUS
    <3>1. m \in 1 .. k /\ m \in 1 .. k + 1
      OBVIOUS
    <3>2. /\ SumBefore(xs, m + 1) = SumBefore(xs, m) + xs[m] /\ xs[m] \in Nat \ {0}
          /\ SumBefore(xs, i) \in Nat /\ SumBefore(xs, m) \in Nat
      BY <3>1, <1>1, <1>2
    <3>3. i = m \/ SumBefore(xs, i) < SumBefore(xs, m)
      BY <3>1, <2>2
    <3> QED  BY <3>2, <3>3
  <2> HIDE DEF T
  <2>3. Nat \subseteq T
    BY <2>1, <2>2, Induction
  <2>4. j \in Nat
    OBVIOUS
  <2> QED  BY <2>3, <2>4, <1>3 DEF T
<1> QED  BY <1>1, <1>3

\* Sums of rows that begin alike are alike.
LEMMA SumsOfPrefix ==
    ASSUME NEW xs \in Seq(Nat), NEW ys \in Seq(Nat), Len(xs) <= Len(ys),
           \A n \in 1 .. Len(xs) : xs[n] = ys[n]
    PROVE  \A i \in 1 .. Len(xs) + 1 : SumBefore(xs, i) = SumBefore(ys, i)
<1>1. PICK k \in Nat, l \in Nat : k = Len(xs) /\ l = Len(ys) /\ k <= l
  OBVIOUS
<1>2. SumBefore(xs, 1) = 0 /\ \A i \in 1 .. k : SumBefore(xs, i + 1) = SumBefore(xs, i) + xs[i]
  BY <1>1, SumsAre
<1>3. SumBefore(ys, 1) = 0 /\ \A i \in 1 .. l : SumBefore(ys, i + 1) = SumBefore(ys, i) + ys[i]
  BY <1>1, SumsAre
<1> DEFINE T == {n \in Nat : n <= k => SumBefore(xs, n + 1) = SumBefore(ys, n + 1)}
<1>4. 0 \in T
  BY <1>2, <1>3
<1>5. ASSUME NEW n \in Nat, n \in T PROVE n + 1 \in T
  <2> SUFFICES ASSUME n + 1 <= k PROVE SumBefore(xs, n + 1 + 1) = SumBefore(ys, n + 1 + 1)
    OBVIOUS
  <2>1. PICK m \in 1 .. k : m = n + 1 /\ m \in 1 .. l
    BY <1>1
  <2>2. SumBefore(xs, m + 1) = SumBefore(xs, m) + xs[m] /\ SumBefore(ys, m + 1) = SumBefore(ys, m) + ys[m]
    BY <2>1, <1>2, <1>3
  <2>3. SumBefore(xs, m) = SumBefore(ys, m) /\ xs[m] = ys[m]
    BY <2>1, <1>1, <1>5
  <2> QED  BY <2>1, <2>2, <2>3
<1> HIDE DEF T
<1>6. Nat \subseteq T
  BY <1>4, <1>5, Induction
<1>7. ASSUME NEW i \in 1 .. k + 1 PROVE SumBefore(xs, i) = SumBefore(ys, i)
  <2>1. PICK n \in Nat : n + 1 = i /\ n <= k
    <3>1. i - 1 \in Nat /\ i - 1 + 1 = i /\ i - 1 <= k
      OBVIOUS
    <3> QED  BY <3>1
  <2> QED  BY <2>1, <1>6 DEF T
<1> QED  BY <1>1, <1>7
=============================================================================
