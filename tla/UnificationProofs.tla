------------------------- MODULE UnificationProofs -------------------------
(***************************************************************************)
(* Proofs about Unification: following the bindings comes to an end, what  *)
(* unify has accepted is solved, and no solution is lost.                  *)
(*                                                                         *)
(* The recursion of apply, occurs_in and the others goes over types and    *)
(* through bindings at once, and nothing but the occurs check makes it     *)
(* end.  So the argument rests on a set of types, the universe of a state, *)
(* in which a rank falls from every type to those it is made of and from   *)
(* every bound variable to what it stands for.  Each step of unify has to  *)
(* build the universe of the next state out of this one.                   *)
(***************************************************************************)
EXTENDS Unification, NaturalRecursion, SequenceTheorems, TLAPS

Ranks(s, types, m, rank) ==
    /\ rank \in [types -> 0 .. m]
    /\ \A p \in types : MonoType(p, types)
    /\ \A p \in types : \A q \in Onward(s, p) : q \in types /\ rank[q] < rank[p]
-----------------------------------------------------------------------------
(* What a recursion meets. *)

\* The steps in which a recursion meets its types.
LEMMA MetIs ==
    ASSUME NEW s, NEW types, NEW t \in types, \A p \in types : Onward(s, p) \subseteq types
    PROVE  /\ Met(s, t)[0] = {t}
           /\ \A n \in Nat : Met(s, t)[n + 1] = Met(s, t)[n] \cup UNION {Onward(s, p) : p \in Met(s, t)[n]}
           /\ \A n \in Nat : Met(s, t)[n] \subseteq types
<1> DEFINE More(ts) == ts \cup UNION {Onward(s, p) : p \in ts}
           R(f) == f = [n \in Nat |-> IF n = 0 THEN {t} ELSE More(f[n - 1])]
           M == CHOOSE f : R(f)
<1>1. ASSUME NEW ts \in SUBSET types PROVE More(ts) \in SUBSET types
  OBVIOUS
<1>2. Met(s, t) = M
  BY DEF Met
<1> HIDE DEF More
<1>3. PICK step : step = [n \in Nat \ {0} |-> [ts \in SUBSET types |-> More(ts)]]
  OBVIOUS
<1>4. step \in [Nat \ {0} -> [SUBSET types -> SUBSET types]]
  BY <1>1, <1>3
<1>5. PICK f \in [Nat -> SUBSET types] : FollowsOn(f, {t}, step)
  <2>1. {t} \in SUBSET types
    OBVIOUS
  <2> QED  BY <2>1, <1>4, Recursion
<1>6. f[0] = {t} /\ \A n \in Nat : f[n + 1] = More(f[n])
  <2>1. \A n \in Nat : n + 1 \in Nat \ {0} /\ f[n] \in SUBSET types
    OBVIOUS
  <2> QED  BY <2>1, <1>3, <1>5 DEF FollowsOn
<1>7. R(f)
  <2>1. ASSUME NEW n \in Nat, n # 0 PROVE f[n] = More(f[n - 1])
    <3>1. n - 1 \in Nat /\ n - 1 + 1 = n
      BY <2>1
    <3>2. PICK k \in Nat : k + 1 = n /\ n - 1 = k
      BY <3>1
    <3> QED  BY <3>2, <1>6
  <2> QED  BY <2>1, <1>6
<1>8. R(M)
  BY <1>7
<1> HIDE DEF M
<1>9. M[0] = {t}
  BY <1>8
<1>10. ASSUME NEW n \in Nat PROVE M[n + 1] = More(M[n])
  <2>1. PICK k \in Nat : k = n + 1 /\ k # 0 /\ k - 1 = n
    OBVIOUS
  <2>2. M[k] = More(M[k - 1])
    BY <2>1, <1>8
  <2> QED  BY <2>1, <2>2
<1> DEFINE T == {n \in Nat : M[n] \in SUBSET types}
<1>11. 0 \in T
  BY <1>9
<1>12. ASSUME NEW n \in Nat, n \in T PROVE n + 1 \in T
  BY <1>10, <1>1, <1>12
<1> HIDE DEF T
<1>13. Nat \subseteq T
  BY <1>11, <1>12, Induction
<1>14. \A n \in Nat : M[n] \subseteq types
  BY <1>13 DEF T
<1> QED  BY <1>2, <1>9, <1>10, <1>14 DEF More

\* What is met is closed under going on, and is the least such set.
LEMMA ReachedIs ==
    ASSUME NEW s, NEW types, NEW m \in Nat, NEW rank, Ranks(s, types, m, rank), NEW t \in types
    PROVE  /\ t \in Reached(s, t) /\ Reached(s, t) \subseteq types
           /\ \A p \in Reached(s, t) : Onward(s, p) \subseteq Reached(s, t)
           /\ \A ts : t \in ts /\ (\A p \in ts \cap types : Onward(s, p) \subseteq ts)
                        => Reached(s, t) \subseteq ts
<1>1. \A p \in types : Onward(s, p) \subseteq types
  BY DEF Ranks
<1>0. PICK met : met = Met(s, t)
  OBVIOUS
<1>2. /\ met[0] = {t}
      /\ \A n \in Nat : met[n + 1] = met[n] \cup UNION {Onward(s, p) : p \in met[n]}
      /\ \A n \in Nat : met[n] \subseteq types
  <2>1. /\ Met(s, t)[0] = {t}
        /\ \A n \in Nat : Met(s, t)[n + 1] = Met(s, t)[n] \cup UNION {Onward(s, p) : p \in Met(s, t)[n]}
        /\ \A n \in Nat : Met(s, t)[n] \subseteq types
    BY <1>1, MetIs
  <2> QED  BY <2>1, <1>0
<1> DEFINE U == UNION {met[n] : n \in Nat}
<1>3. \A p \in U : Onward(s, p) \subseteq U
  <2> SUFFICES ASSUME NEW n \in Nat, NEW p \in met[n] PROVE Onward(s, p) \subseteq U
    OBVIOUS
  <2>1. Onward(s, p) \subseteq met[n + 1] /\ n + 1 \in Nat
    BY <1>2
  <2> QED  BY <2>1
<1>4. ASSUME NEW ts, t \in ts, \A p \in ts \cap types : Onward(s, p) \subseteq ts PROVE U \subseteq ts
  <2> DEFINE T == {n \in Nat : met[n] \subseteq ts}
  <2>1. 0 \in T
    BY <1>2, <1>4
  <2>2. ASSUME NEW n \in Nat, n \in T PROVE n + 1 \in T
    BY <2>2, <1>2, <1>4
  <2> HIDE DEF T
  <2>3. Nat \subseteq T
    BY <2>1, <2>2, Induction
  <2> QED  BY <2>3 DEF T
<1>5. ASSUME NEW n \in Nat, Closed(s, met[n]) PROVE met[n] = U
  <2>1. t \in met[n]
    <3> DEFINE T == {k \in Nat : t \in met[k]}
    <3>1. 0 \in T
      BY <1>2
    <3>2. ASSUME NEW k \in Nat, k \in T PROVE k + 1 \in T
      BY <3>2, <1>2
    <3> HIDE DEF T
    <3>3. Nat \subseteq T
      BY <3>1, <3>2, Induction
    <3> QED  BY <3>3 DEF T
  <2>2. \A p \in met[n] \cap types : Onward(s, p) \subseteq met[n]
    BY <1>5 DEF Closed
  <2>3. U \subseteq met[n]
    BY <2>1, <2>2, <1>4
  <2> QED  BY <2>3
\* A type met in the n-th step that leads to a new one is n below t.
<1>6. PICK N \in Nat : Closed(s, met[N])
  <2> DEFINE T == {n \in Nat : \A p \in met[n] : ~(Onward(s, p) \subseteq met[n]) => rank[p] + n <= rank[t]}
  <2>1. \A p \in types : rank[p] \in 0 .. m
    BY DEF Ranks
  <2>2. 0 \in T
    BY <2>1, <1>2
  <2>3. ASSUME NEW n \in Nat, n \in T PROVE n + 1 \in T
    <3> SUFFICES ASSUME NEW p \in met[n + 1], ~(Onward(s, p) \subseteq met[n + 1])
                 PROVE  rank[p] + (n + 1) <= rank[t]
      OBVIOUS
    <3>1. p \notin met[n]
      BY <1>2
    <3>2. PICK q \in met[n] : p \in Onward(s, q)
      BY <1>2, <3>1
    <3>3. rank[q] + n <= rank[t]
      BY <3>1, <3>2, <2>3
    <3>4. q \in types /\ p \in types /\ rank[p] < rank[q]
      BY <3>2, <1>2 DEF Ranks
    <3> QED  BY <3>3, <3>4, <2>1
  <2> HIDE DEF T
  <2>4. Nat \subseteq T
    BY <2>2, <2>3, Induction
  <2>5. PICK n \in Nat : n = rank[t] + 1
    BY <2>1
  <2>6. ASSUME NEW p \in met[n] PROVE Onward(s, p) \subseteq met[n]
    <3>1. rank[p] \in 0 .. m /\ rank[t] \in 0 .. m
      BY <2>1, <1>2
    <3>2. ~(rank[p] + n <= rank[t])
      BY <3>1, <2>5
    <3> QED  BY <3>2, <2>4 DEF T
  <2> QED  BY <2>6 DEF Closed
<1> HIDE DEF U
<1> DEFINE R(f) == f = [n \in Nat |-> IF Closed(s, met[n]) THEN met[n] ELSE f[n + 1]]
           W == CHOOSE f : R(f)
<1>7. Reached(s, t) = W[0]
  BY <1>0 DEF Reached
<1>8. R([n \in Nat |-> U])
  <2>1. \A n \in Nat : n + 1 \in Nat
    OBVIOUS
  <2> QED  BY <2>1, <1>5
<1>9. R(W)
  BY <1>8
<1> HIDE DEF W
<1> DEFINE T == {n \in Nat : W[0] = U \/ W[0] = W[n]}
<1>10. 0 \in T
  OBVIOUS
<1>11. ASSUME NEW n \in Nat, n \in T PROVE n + 1 \in T
  <2>1. W[n] = IF Closed(s, met[n]) THEN met[n] ELSE W[n + 1]
    BY <1>9
  <2> QED  BY <2>1, <1>5, <1>11
<1> HIDE DEF T
<1>12. Nat \subseteq T
  BY <1>10, <1>11, Induction
<1>13. W[N] = U
  BY <1>9, <1>6, <1>5
<1>14. W[0] = U
  BY <1>12, <1>13 DEF T
<1>15. t \in U /\ U \subseteq types
  BY <1>2 DEF U
<1>16. Reached(s, t) = U
  BY <1>7, <1>14
<1> QED  BY <1>16, <1>15, <1>3, <1>4

\* What holds of a type when it holds of all that it leads to holds of every type.
LEMMA RankInduction ==
    ASSUME NEW s, NEW types, NEW m \in Nat, NEW rank, Ranks(s, types, m, rank),
           NEW T, \A p \in types : (\A q \in Onward(s, p) : q \in T) => p \in T
    PROVE  types \subseteq T
<1> SUFFICES ASSUME NEW z \in types, z \notin T PROVE FALSE
  OBVIOUS
<1>1. \A p \in types : rank[p] \in 0 .. m
  BY DEF Ranks
<1>2. PICK ranks : ranks = {rank[p] : p \in types \ T}
  OBVIOUS
<1>3. ranks \subseteq Nat /\ ranks # {}
  BY <1>1, <1>2
<1>4. PICK k \in ranks : \A l \in ranks : k <= l
  BY <1>3, Least
<1>5. PICK p \in types \ T : rank[p] = k
  BY <1>2, <1>4
<1>6. ASSUME NEW q \in Onward(s, p) PROVE q \in T
  <2>1. q \in types /\ rank[q] < rank[p]
    BY DEF Ranks
  <2>2. q \notin T => rank[q] \in ranks
    BY <2>1, <1>2
  <2>3. rank[q] \in 0 .. m /\ rank[p] \in 0 .. m
    BY <2>1, <1>1
  <2> QED  BY <2>1, <2>2, <2>3, <1>4, <1>5
<1> QED  BY <1>5, <1>6

\* The recursion of apply as the source has it: through a bound variable, and
\* part by part otherwise.
Recurs(s, g, t) ==
    /\ ~IsVar(t) => Replaced(s, g, t) = Rebuild(t, [q \in Parts(t) |-> Replaced(s, g, q)])
    /\ IsVar(t) /\ t.id \in DOMAIN s => Replaced(s, g, t) = Replaced(s, g, s[t.id])
    /\ IsVar(t) /\ t.id \notin DOMAIN s => Replaced(s, g, t) = Free(g, t)

\* Replaced is that recursion, at every type of a universe.
LEMMA ReplacedIs ==
    ASSUME NEW s, NEW types, NEW m \in Nat, NEW rank, Ranks(s, types, m, rank), NEW g, NEW t \in types
    PROVE  Recurs(s, g, t)
<1> DEFINE Body(h, p) == IF ~IsVar(p) THEN Rebuild(p, [q \in Parts(p) |-> h[q]])
                         ELSE IF p.id \in DOMAIN s THEN h[s[p.id]] ELSE Free(g, p)
           R(h, ps) == h = [p \in ps |-> Body(h, p)]
           Whole(u) == CHOOSE h : R(h, Reached(s, u))
<1>1. \A u : Replaced(s, g, u) = Whole(u)[u]
  BY DEF Replaced
<1>2. ASSUME NEW h, NEW f, NEW p, \A q \in Onward(s, p) : h[q] = f[q] PROVE Body(h, p) = Body(f, p)
  <2>1. CASE ~IsVar(p)
    <3>1. [q \in Parts(p) |-> h[q]] = [q \in Parts(p) |-> f[q]]
      BY <1>2, <2>1 DEF Onward
    <3> QED  BY <2>1, <3>1
  <2>2. CASE IsVar(p) /\ p.id \in DOMAIN s
    <3>1. s[p.id] \in Onward(s, p)
      BY <2>2 DEF Onward
    <3> QED  BY <2>2, <3>1, <1>2
  <2>3. CASE IsVar(p) /\ p.id \notin DOMAIN s
    BY <2>3
  <2> QED  BY <2>1, <2>2, <2>3
<1>3. ASSUME NEW u \in types
      PROVE  /\ u \in Reached(s, u) /\ Reached(s, u) \subseteq types
             /\ \A p \in Reached(s, u) : Onward(s, p) \subseteq Reached(s, u)
  BY ReachedIs
<1>4. /\ \A p \in types : rank[p] \in 0 .. m
      /\ \A p \in types : \A q \in Onward(s, p) : q \in types /\ rank[q] < rank[p]
  BY DEF Ranks
<1> HIDE DEF Body
<1>5. ASSUME NEW u \in types PROVE \E h : R(h, Reached(s, u))
  <2> DEFINE D(n) == {p \in Reached(s, u) : rank[p] < n}
             T == {n \in Nat : \E h : R(h, D(n))}
  <2>1. 0 \in T
    <3>1. D(0) = {}
      BY <1>3, <1>4
    <3>2. R([p \in {} |-> p], D(0))
      BY <3>1
    <3> QED  BY <3>2
  <2>2. ASSUME NEW n \in Nat, n \in T PROVE n + 1 \in T
    <3>1. PICK h : R(h, D(n))
      BY <2>2
    <3>2. PICK f : f = [p \in D(n + 1) |-> Body(h, p)]
      OBVIOUS
    <3>3. ASSUME NEW p \in D(n + 1), NEW q \in Onward(s, p) PROVE f[q] = h[q]
      <4>1. q \in D(n)
        BY <1>3, <1>4
      <4>2. q \in D(n + 1)
        BY <4>1, <1>3, <1>4
      <4> QED  BY <4>1, <4>2, <3>1, <3>2
    <3>4. \A p \in D(n + 1) : Body(f, p) = Body(h, p)
      BY <3>3, <1>2
    <3>5. R(f, D(n + 1))
      BY <3>2, <3>4
    <3> QED  BY <3>5
  <2> HIDE DEF T
  <2>3. Nat \subseteq T
    BY <2>1, <2>2, Induction
  <2>4. m + 1 \in T
    BY <2>3
  <2>5. D(m + 1) = Reached(s, u)
    BY <1>3, <1>4
  <2> QED  BY <2>4, <2>5 DEF T
<1>6. ASSUME NEW u \in types, NEW p \in Reached(s, u) PROVE Whole(u)[p] = Body(Whole(u), p)
  <2>1. R(Whole(u), Reached(s, u))
    BY <1>5
  <2> QED  BY <2>1
<1> HIDE DEF Whole
<1> DEFINE T == {p \in types : \A u, v \in types :
                    p \in Reached(s, u) \cap Reached(s, v) => Whole(u)[p] = Whole(v)[p]}
<1>7. ASSUME NEW p \in types, \A q \in Onward(s, p) : q \in T PROVE p \in T
  <2> SUFFICES ASSUME NEW u \in types, NEW v \in types, p \in Reached(s, u) \cap Reached(s, v)
               PROVE  Whole(u)[p] = Whole(v)[p]
    OBVIOUS
  <2>1. \A q \in Onward(s, p) : q \in Reached(s, u) \cap Reached(s, v)
    BY <1>3
  <2>2. \A q \in Onward(s, p) : Whole(u)[q] = Whole(v)[q]
    BY <2>1, <1>7
  <2>3. Body(Whole(u), p) = Body(Whole(v), p)
    BY <2>2, <1>2
  <2> QED  BY <2>3, <1>6
<1>8. types \subseteq T
  <2> HIDE DEF T
  <2> QED  BY <1>7, RankInduction
<1>9. ASSUME NEW q \in Onward(s, t) PROVE Whole(t)[q] = Replaced(s, g, q)
  <2>1. q \in types /\ q \in Reached(s, t) /\ q \in Reached(s, q)
    BY <1>3, <1>4
  <2>2. Whole(t)[q] = Whole(q)[q]
    BY <2>1, <1>8
  <2> QED  BY <2>2, <1>1
<1>10. Replaced(s, g, t) = Body(Whole(t), t)
  BY <1>1, <1>3, <1>6
<1>11. CASE ~IsVar(t)
  <2>1. Onward(s, t) = Parts(t)
    BY <1>11 DEF Onward
  <2>2. [q \in Parts(t) |-> Whole(t)[q]] = [q \in Parts(t) |-> Replaced(s, g, q)]
    BY <2>1, <1>9
  <2>3. Body(Whole(t), t) = Rebuild(t, [q \in Parts(t) |-> Whole(t)[q]])
    BY <1>11 DEF Body
  <2> QED  BY <2>2, <2>3, <1>10, <1>11 DEF Recurs
<1>12. CASE IsVar(t) /\ t.id \in DOMAIN s
  <2>1. s[t.id] \in Onward(s, t)
    BY <1>12 DEF Onward
  <2>2. Body(Whole(t), t) = Whole(t)[s[t.id]]
    BY <1>12 DEF Body
  <2> QED  BY <2>1, <2>2, <1>9, <1>10, <1>12 DEF Recurs
<1>13. CASE IsVar(t) /\ t.id \notin DOMAIN s
  <2>1. Body(Whole(t), t) = Free(g, t)
    BY <1>13 DEF Body
  <2> QED  BY <2>1, <1>10, <1>13 DEF Recurs
<1> QED  BY <1>11, <1>12, <1>13 DEF Recurs
-----------------------------------------------------------------------------
(* Types one level at a time. *)

Names == {FieldNames[i] : i \in DOMAIN FieldNames}

\* The two kinds of type: a variable, which is its id, or parts put together.
LEMMA MonoTypeIs ==
    ASSUME NEW types, NEW t, MonoType(t, types)
    PROVE  /\ IsVar(t) => \/ t = Var(t.id) /\ t.con = "Var" /\ t.id \in Variables
                          \/ t.con \in {"IntVar", "FloatVar"} /\ t.id \in Literals
           /\ ~IsVar(t) => Parts(t) \subseteq types
<1>1. CASE t \in [con : {"Var"}, id : Variables]
  BY <1>1 DEF IsVar, Var
<1>2. CASE t \in [con : {"IntVar", "FloatVar"}, id : Literals]
  BY <1>2 DEF IsVar
<1>3. CASE t \in [con : Primitives, args : {<<>>}]
  <2>1. ~IsVar(t) /\ t.con # "Record" /\ t.args = <<>>
    BY <1>3 DEF IsVar, Primitives, Ints
  <2> QED  BY <2>1 DEF Parts, Inside
<1>4. CASE t \in [con : {"Array", "Effect"}, args : [1 .. 1 -> types]]
  <2>1. ~IsVar(t) /\ t.con # "Record" /\ t.args \in [1 .. 1 -> types]
    BY <1>4 DEF IsVar
  <2> QED  BY <2>1 DEF Parts, Inside
<1>5. CASE t \in [con : {"Func"}, args : Seq(types)] \cup [con : {"Tag"}, name : STRING, args : Seq(types)]
  <2>1. ~IsVar(t) /\ t.con # "Record" /\ t.args \in Seq(types)
    BY <1>5 DEF IsVar
  <2>2. \A i \in DOMAIN t.args : t.args[i] \in types
    BY <2>1
  <2> QED  BY <2>1, <2>2 DEF Parts, Inside
<1>6. ASSUME NEW names \in SUBSET Names, t \in [con : {"Record"}, fields : [names -> types]]
      PROVE  ~IsVar(t) /\ Parts(t) \subseteq types
  <2>1. ~IsVar(t) /\ t.con = "Record" /\ t.fields \in [names -> types]
    BY <1>6 DEF IsVar
  <2> QED  BY <2>1 DEF Parts, Inside
<1> QED  BY <1>1, <1>2, <1>3, <1>4, <1>5, <1>6 DEF MonoType, Names

\* A type put together again of other parts is a type of the same variant.
LEMMA RebuildIs ==
    ASSUME NEW types, NEW t, MonoType(t, types), ~IsVar(t),
           NEW others, NEW f, \A q \in Parts(t) : f[q] \in others
    PROVE  /\ MonoType(Rebuild(t, f), others)
           /\ ~IsVar(Rebuild(t, f)) /\ Rebuild(t, f).con = t.con
           /\ t.con = "Tag" => Rebuild(t, f).name = t.name
           /\ Inside(Rebuild(t, f)) = [i \in DOMAIN Inside(t) |-> f[Inside(t)[i]]]
           /\ Parts(Rebuild(t, f)) = {f[q] : q \in Parts(t)}
<1>1. PICK row : row = [i \in DOMAIN Inside(t) |-> f[Inside(t)[i]]]
  OBVIOUS
<1>2. \A i \in DOMAIN Inside(t) : row[i] \in others
  BY <1>1 DEF Parts
<1>3. /\ MonoType(Rebuild(t, f), others)
      /\ ~IsVar(Rebuild(t, f)) /\ Rebuild(t, f).con = t.con
      /\ t.con = "Tag" => Rebuild(t, f).name = t.name
      /\ Inside(Rebuild(t, f)) = row
  <2>1. CASE t \in [con : Primitives, args : {<<>>}]
    <3>1. t.con # "Record" /\ t = [con |-> t.con, args |-> <<>>] /\ t.con \in Primitives
      BY <2>1 DEF Primitives, Ints
    <3>2. row = <<>> /\ Rebuild(t, f) = t
      BY <3>1, <1>1 DEF Rebuild, Inside
    <3>3. t.con # "Tag"
      BY <3>1 DEF Primitives, Ints
    <3>4. MonoType(t, others)
      BY <2>1 DEF MonoType
    <3> QED  BY <3>1, <3>2, <3>3, <3>4 DEF Inside
  <2>2. CASE t \in [con : {"Array", "Effect"}, args : [1 .. 1 -> types]]
    <3>1. t = [con |-> t.con, args |-> t.args] /\ t.con \in {"Array", "Effect"} /\ DOMAIN t.args = 1 .. 1
      BY <2>2
    <3>2. Inside(t) = t.args
      BY <3>1 DEF Inside
    <3>3. row = [i \in DOMAIN t.args |-> f[t.args[i]]]
      BY <1>1, <3>2
    <3>4. Rebuild(t, f) = [con |-> t.con, args |-> row]
      BY <3>1, <3>3 DEF Rebuild
    <3>5. row \in [1 .. 1 -> others]
      BY <3>1, <3>2, <3>3, <1>2
    <3>6. Rebuild(t, f) \in [con : {"Array", "Effect"}, args : [1 .. 1 -> others]]
      BY <3>1, <3>4, <3>5
    <3> QED  BY <3>1, <3>4, <3>6 DEF Inside, IsVar, MonoType
  <2>3. CASE t \in [con : {"Func"}, args : Seq(types)]
    <3>1. t = [con |-> t.con, args |-> t.args] /\ t.con = "Func" /\ t.args \in Seq(types)
      BY <2>3
    <3>2. Inside(t) = t.args
      BY <3>1 DEF Inside
    <3>3. row = [i \in DOMAIN t.args |-> f[t.args[i]]]
      BY <1>1, <3>2
    <3>4. Rebuild(t, f) = [con |-> t.con, args |-> row]
      BY <3>1, <3>3 DEF Rebuild
    <3>5. row \in Seq(others)
      BY <3>1, <3>2, <3>3, <1>2
    <3>6. Rebuild(t, f) \in [con : {"Func"}, args : Seq(others)]
      BY <3>1, <3>4, <3>5
    <3> QED  BY <3>1, <3>4, <3>6 DEF Inside, IsVar, MonoType
  <2>4. CASE t \in [con : {"Tag"}, name : STRING, args : Seq(types)]
    <3>1. /\ t = [con |-> t.con, name |-> t.name, args |-> t.args]
          /\ t.con = "Tag" /\ t.name \in STRING /\ t.args \in Seq(types)
      BY <2>4
    <3>2. Inside(t) = t.args
      BY <3>1 DEF Inside
    <3>3. row = [i \in DOMAIN t.args |-> f[t.args[i]]]
      BY <1>1, <3>2
    <3>4. Rebuild(t, f) = [con |-> t.con, name |-> t.name, args |-> row]
      BY <3>1, <3>3 DEF Rebuild
    <3>5. row \in Seq(others)
      BY <3>1, <3>2, <3>3, <1>2
    <3>6. Rebuild(t, f) \in [con : {"Tag"}, name : STRING, args : Seq(others)]
      BY <3>1, <3>4, <3>5
    <3> QED  BY <3>1, <3>4, <3>6 DEF Inside, IsVar, MonoType
  <2>5. ASSUME NEW names \in SUBSET Names, t \in [con : {"Record"}, fields : [names -> types]]
        PROVE  /\ MonoType(Rebuild(t, f), others)
               /\ ~IsVar(Rebuild(t, f)) /\ Rebuild(t, f).con = t.con
               /\ t.con = "Tag" => Rebuild(t, f).name = t.name
               /\ Inside(Rebuild(t, f)) = row
    <3>1. t = [con |-> t.con, fields |-> t.fields] /\ t.con = "Record" /\ DOMAIN t.fields = names
      BY <2>5
    <3>2. Inside(t) = t.fields
      BY <3>1 DEF Inside
    <3>3. row = [i \in DOMAIN t.fields |-> f[t.fields[i]]]
      BY <1>1, <3>2
    <3>4. Rebuild(t, f) = [con |-> t.con, fields |-> row]
      BY <3>1, <3>3 DEF Rebuild
    <3>5. row \in [names -> others]
      BY <3>1, <3>2, <3>3, <1>2
    <3>6. Rebuild(t, f) \in [con : {"Record"}, fields : [names -> others]]
      BY <3>1, <3>4, <3>5
    <3> QED  BY <3>1, <3>4, <3>6 DEF Inside, IsVar, MonoType, Names
  <2>6. t \notin [con : {"Var"}, id : Variables] /\ t \notin [con : {"IntVar", "FloatVar"}, id : Literals]
    BY DEF IsVar
  <2> QED  BY <2>1, <2>2, <2>3, <2>4, <2>5, <2>6 DEF MonoType, Names
<1>4. Parts(Rebuild(t, f)) = {row[i] : i \in DOMAIN row}
  BY <1>3 DEF Parts
<1>5. {row[i] : i \in DOMAIN row} = {f[q] : q \in Parts(t)}
  BY <1>1 DEF Parts
<1> QED  BY <1>1, <1>3, <1>4, <1>5

\* Two types of one variant with the same parts are the same.
LEMMA SameType ==
    ASSUME NEW types, NEW a, NEW b, MonoType(a, types), MonoType(b, types), ~IsVar(a), ~IsVar(b),
           a.con = b.con, a.con = "Tag" => a.name = b.name, Inside(a) = Inside(b)
    PROVE  a = b
<1>1. ASSUME NEW t, MonoType(t, types), ~IsVar(t)
      PROVE  t = CASE t.con = "Record" -> [con |-> t.con, fields |-> Inside(t)]
                   [] t.con = "Tag" -> [con |-> t.con, name |-> t.name, args |-> Inside(t)]
                   [] OTHER -> [con |-> t.con, args |-> Inside(t)]
  BY <1>1 DEF MonoType, Inside, IsVar, Primitives, Ints
<1>2. CASE a.con = "Record"
  BY <1>1, <1>2
<1>3. CASE a.con = "Tag"
  BY <1>1, <1>3
<1>4. CASE a.con \notin {"Record", "Tag"}
  BY <1>1, <1>4
<1> QED  BY <1>2, <1>3, <1>4

\* A type with parts out of a set has its parts out of any larger one.
LEMMA MonoTypeMore ==
    ASSUME NEW types, NEW more, types \subseteq more, NEW t, MonoType(t, types)
    PROVE  MonoType(t, more)
<1>1. ASSUME t \in [con : {"Array", "Effect"}, args : [1 .. 1 -> types]]
      PROVE  t \in [con : {"Array", "Effect"}, args : [1 .. 1 -> more]]
  BY <1>1
<1>2. ASSUME t \in [con : {"Func"}, args : Seq(types)] PROVE t \in [con : {"Func"}, args : Seq(more)]
  BY <1>2
<1>3. ASSUME t \in [con : {"Tag"}, name : STRING, args : Seq(types)]
      PROVE  t \in [con : {"Tag"}, name : STRING, args : Seq(more)]
  BY <1>3
<1>4. ASSUME NEW names, t \in [con : {"Record"}, fields : [names -> types]]
      PROVE  t \in [con : {"Record"}, fields : [names -> more]]
  BY <1>4
<1> QED  BY <1>1, <1>2, <1>3, <1>4 DEF MonoType
-----------------------------------------------------------------------------
(* Universes. *)

\* Types of finite depth, unbound, may join the universe of a substitution.
LEMMA UniverseJoined ==
    ASSUME NEW s, NEW types, NEW m \in Nat, NEW rank, Ranks(s, types, m, rank),
           \A v \in DOMAIN s : s[v] \in types,
           NEW more, NEW k \in Nat, NEW depth, Ranks(<<>>, more, k, depth)
    PROVE  \E r : Ranks(s, types \cup more, m + k + 1, r)
<1>1. PICK all : all = types \cup more
  OBVIOUS
<1>2. PICK r : r = [p \in all |-> IF p \in types THEN rank[p] ELSE m + 1 + depth[p]]
  OBVIOUS
<1>3. /\ \A p \in types : rank[p] \in 0 .. m
      /\ \A p \in more : depth[p] \in 0 .. k
  BY DEF Ranks
<1>4. r \in [all -> 0 .. m + k + 1]
  <2>1. ASSUME NEW p \in all PROVE r[p] \in 0 .. m + k + 1
    <3>1. CASE p \in types
      BY <3>1, <1>2, <1>3
    <3>2. CASE p \notin types
      <4>1. r[p] = m + 1 + depth[p] /\ depth[p] \in 0 .. k
        BY <3>2, <1>1, <1>2, <1>3
      <4> QED  BY <4>1
    <3> QED  BY <3>1, <3>2
  <2> QED  BY <2>1, <1>2
<1>5. ASSUME NEW p \in all PROVE MonoType(p, all)
  <2>1. types \subseteq all /\ more \subseteq all
    BY <1>1
  <2>2. CASE p \in types
    BY <2>1, <2>2, MonoTypeMore DEF Ranks
  <2>3. CASE p \in more
    BY <2>1, <2>3, MonoTypeMore DEF Ranks
  <2> QED  BY <2>2, <2>3, <1>1
<1>6. ASSUME NEW p \in all, NEW q \in Onward(s, p) PROVE q \in all /\ r[q] < r[p]
  <2>1. CASE p \in types
    <3>1. q \in types /\ rank[q] < rank[p]
      BY <2>1 DEF Ranks
    <3> QED  BY <3>1, <2>1, <1>1, <1>2
  <2>2. CASE p \notin types /\ IsVar(p)
    <3>1. q \in types
      BY <2>2 DEF Onward
    <3>2. r[q] = rank[q] /\ rank[q] \in 0 .. m /\ r[p] = m + 1 + depth[p] /\ depth[p] \in 0 .. k
      BY <3>1, <2>2, <1>1, <1>2, <1>3
    <3> QED  BY <3>1, <3>2, <1>1
  <2>3. CASE p \notin types /\ ~IsVar(p)
    <3>1. q \in Onward(<<>>, p) /\ p \in more
      BY <2>3, <1>1 DEF Onward
    <3>2. q \in more /\ depth[q] < depth[p]
      BY <3>1 DEF Ranks
    <3>3. r[p] = m + 1 + depth[p] /\ depth[p] \in 0 .. k /\ depth[q] \in 0 .. k
      BY <3>1, <3>2, <2>3, <1>1, <1>2, <1>3
    <3>4. r[q] \in 0 .. m \/ r[q] = m + 1 + depth[q]
      BY <3>2, <1>1, <1>2, <1>3
    <3> QED  BY <3>2, <3>3, <3>4, <1>1
  <2> QED  BY <2>1, <2>2, <2>3
<1> QED  BY <1>1, <1>4, <1>5, <1>6 DEF Ranks

\* A binding that has passed the occurs check leaves the universe one.
LEMMA UniverseBound ==
    ASSUME NEW s, NEW types, NEW m \in Nat, NEW rank, Ranks(s, types, m, rank),
           NEW v, v \notin DOMAIN s, NEW t \in types, ~OccursIn(s, v, t)
    PROVE  \E r : Ranks(Insert(s, v, t), types, m + m + 1, r)
<1>1. PICK below : below = Reached(s, t)
  OBVIOUS
<1>2. /\ t \in below /\ below \subseteq types
      /\ \A p \in below : Onward(s, p) \subseteq below
  BY <1>1, ReachedIs
<1>3. \A p \in types : rank[p] \in 0 .. m
  BY DEF Ranks
<1>4. ASSUME NEW p \in below PROVE rank[p] <= rank[t]
  <2> DEFINE ts == {q \in types : rank[q] <= rank[t]}
  <2>1. t \in ts
    BY <1>3
  <2>2. ASSUME NEW q \in ts \cap types PROVE Onward(s, q) \subseteq ts
    <3> SUFFICES ASSUME NEW o \in Onward(s, q) PROVE o \in ts
      OBVIOUS
    <3>1. o \in types /\ rank[o] < rank[q]
      BY DEF Ranks
    <3> QED  BY <3>1, <1>3
  <2> HIDE DEF ts
  <2>3. below \subseteq ts
    BY <2>1, <2>2, <1>1, ReachedIs
  <2> QED  BY <2>3 DEF ts
<1>5. \A p \in below : IsVar(p) => p.id # v
  BY <1>1 DEF OccursIn
<1>6. PICK r : r = [p \in types |-> IF p \in below THEN rank[p] ELSE rank[p] + rank[t] + 1]
  OBVIOUS
<1>7. r \in [types -> 0 .. m + m + 1]
  <2>1. ASSUME NEW p \in types PROVE r[p] \in 0 .. m + m + 1
    <3>1. rank[p] \in 0 .. m /\ rank[t] \in 0 .. m
      BY <1>3
    <3>2. r[p] = rank[p] \/ r[p] = rank[p] + rank[t] + 1
      BY <1>6
    <3> QED  BY <3>1, <3>2
  <2> QED  BY <2>1, <1>6
<1>8. ASSUME NEW p \in types, NEW q \in Onward(Insert(s, v, t), p) PROVE q \in types /\ r[q] < r[p]
  <2>1. CASE IsVar(p) /\ p.id = v
    <3>1. q = t
      BY <2>1 DEF Onward, Insert
    <3>2. p \notin below
      BY <2>1, <1>5
    <3>3. r[q] = rank[t] /\ r[p] = rank[p] + rank[t] + 1 /\ rank[p] \in 0 .. m /\ rank[t] \in 0 .. m
      BY <3>1, <3>2, <1>2, <1>3, <1>6
    <3> QED  BY <3>1, <3>3
  <2>2. CASE ~(IsVar(p) /\ p.id = v)
    <3>1. q \in Onward(s, p)
      BY <2>2 DEF Onward, Insert
    <3>2. q \in types /\ rank[q] < rank[p]
      BY <3>1 DEF Ranks
    <3>3. p \in below => q \in below
      BY <3>1, <1>2
    <3>4. rank[p] \in 0 .. m /\ rank[q] \in 0 .. m /\ rank[t] \in 0 .. m
      BY <3>2, <1>3
    <3>5. CASE p \in below
      BY <3>2, <3>3, <3>5, <1>6
    <3>6. CASE p \notin below
      <4>1. r[p] = rank[p] + rank[t] + 1 /\ (r[q] = rank[q] \/ r[q] = rank[q] + rank[t] + 1)
        BY <3>2, <3>6, <1>6
      <4> QED  BY <4>1, <3>2, <3>4
    <3> QED  BY <3>5, <3>6
  <2> QED  BY <2>1, <2>2
<1>9. \A p \in types : MonoType(p, types)
  BY DEF Ranks
<1> QED  BY <1>7, <1>8, <1>9 DEF Ranks

\* What a type is with its variables replaced belongs to a universe, together
\* with the values they are replaced by.
Valued(s, g, types) == {Replaced(s, g, p) : p \in types}
\* The rank of what several types come to is the least of theirs.
LEMMA UniverseReplaced ==
    ASSUME NEW s, NEW types, NEW m \in Nat, NEW rank, Ranks(s, types, m, rank),
           NEW g, NEW ground, NEW k \in Nat, NEW depth, Ranks(<<>>, ground, k, depth),
           \A v \in DOMAIN g : g[v] \in ground
    PROVE  \E r : Ranks(<<>>, ground \cup Valued(s, g, types), k + m + 1, r)
<1>0. \A p \in types : Recurs(s, g, p)
  BY ReplacedIs
<1>1. PICK all : all = ground \cup {Replaced(s, g, p) : p \in types}
  OBVIOUS
<1> DEFINE Of(x) == {rank[p] : p \in {q \in types : Replaced(s, g, q) = x}}
           Low(x) == CHOOSE n \in Of(x) : \A l \in Of(x) : n <= l
<1>2. /\ \A p \in types : rank[p] \in 0 .. m
      /\ \A p \in ground : depth[p] \in 0 .. k
  BY DEF Ranks
<1>3. ASSUME NEW x \in all, x \notin ground
      PROVE  /\ \E p \in types : Replaced(s, g, p) = x /\ rank[p] = Low(x)
             /\ \A p \in types : Replaced(s, g, p) = x => Low(x) <= rank[p]
  <2>1. Of(x) \subseteq Nat /\ Of(x) # {}
    BY <1>1, <1>2, <1>3
  <2>2. \E n \in Of(x) : \A l \in Of(x) : n <= l
    <3> HIDE DEF Of
    <3> QED  BY <2>1, Least
  <2>3. Low(x) \in Of(x) /\ \A l \in Of(x) : Low(x) <= l
    BY <2>2
  <2> HIDE DEF Low
  <2> QED  BY <2>3
<1> HIDE DEF Low
<1>4. ASSUME NEW x \in all, x \notin ground PROVE Low(x) \in 0 .. m
  BY <1>2, <1>3, <1>4
<1>5. PICK r : r = [x \in all |-> IF x \in ground THEN depth[x] ELSE k + 1 + Low(x)]
  OBVIOUS
<1>6. r \in [all -> 0 .. k + m + 1]
  <2>1. ASSUME NEW x \in all PROVE r[x] \in 0 .. k + m + 1
    <3>1. CASE x \in ground
      <4>1. r[x] = depth[x] /\ depth[x] \in 0 .. k
        BY <3>1, <1>2, <1>5
      <4> QED  BY <4>1
    <3>2. CASE x \notin ground
      <4>1. r[x] = k + 1 + Low(x) /\ Low(x) \in 0 .. m
        BY <3>2, <1>4, <1>5
      <4> QED  BY <4>1
    <3> QED  BY <3>1, <3>2
  <2> QED  BY <2>1, <1>5
<1>7. ASSUME NEW x \in all
      PROVE  MonoType(x, all) /\ \A y \in Onward(<<>>, x) : y \in all /\ r[y] < r[x]
  <2>1. CASE x \in ground
    <3>1. MonoType(x, all)
      BY <2>1, <1>1, MonoTypeMore DEF Ranks
    <3>2. \A y \in Onward(<<>>, x) : y \in ground /\ depth[y] < depth[x]
      BY <2>1 DEF Ranks
    <3>3. \A y \in ground : y \in all /\ r[y] = depth[y]
      BY <1>1, <1>5
    <3> QED  BY <3>1, <3>2, <3>3, <2>1
  <2>2. CASE x \notin ground
    <3>1. PICK p \in types : Replaced(s, g, p) = x /\ rank[p] = Low(x)
      BY <2>2, <1>3
    <3>2. r[x] = k + 1 + rank[p] /\ rank[p] \in 0 .. m
      BY <2>2, <3>1, <1>2, <1>5
    <3>3. MonoType(p, types) /\ \A q \in Onward(s, p) : q \in types /\ rank[q] < rank[p]
      BY DEF Ranks
    <3>4. CASE ~IsVar(p)
      <4>1. PICK f : f = [q \in Parts(p) |-> Replaced(s, g, q)]
        OBVIOUS
      <4>2. x = Rebuild(p, f)
        BY <3>1, <3>4, <4>1, <1>0 DEF Recurs
      <4>3. ASSUME NEW q \in Parts(p) PROVE q \in types /\ rank[q] < rank[p] /\ f[q] = Replaced(s, g, q) /\ f[q] \in all
        BY <3>3, <3>4, <4>1, <1>1 DEF Onward
      <4>4. MonoType(x, all) /\ ~IsVar(x) /\ Parts(x) = {f[q] : q \in Parts(p)}
        BY <4>2, <4>3, <3>3, <3>4, RebuildIs
      <4>5. ASSUME NEW y \in Onward(<<>>, x) PROVE y \in all /\ r[y] < r[x]
        <5>1. PICK q \in Parts(p) : y = f[q]
          BY <4>4 DEF Onward
        <5>2. CASE y \in ground
          BY <5>1, <5>2, <4>3, <3>2, <1>2, <1>5
        <5>3. CASE y \notin ground
          <6>1. y \in all /\ Low(y) <= rank[q] /\ Low(y) \in 0 .. m /\ rank[q] < rank[p] /\ rank[q] \in 0 .. m
            BY <5>1, <5>3, <4>3, <1>2, <1>3, <1>4
          <6>2. r[y] = k + 1 + Low(y)
            BY <6>1, <5>3, <1>5
          <6> QED  BY <6>1, <6>2, <3>2
        <5> QED  BY <5>2, <5>3
      <4> QED  BY <4>4, <4>5
    <3>5. CASE IsVar(p) /\ p.id \in DOMAIN s
      <4>1. s[p.id] \in Onward(s, p)
        BY <3>5 DEF Onward
      <4>2. x = Replaced(s, g, s[p.id])
        <5>1. Replaced(s, g, p) = Replaced(s, g, s[p.id])
          BY <3>5, <1>0 DEF Recurs
        <5> QED  BY <5>1, <3>1
      <4>3. s[p.id] \in types /\ rank[s[p.id]] < rank[p] /\ rank[s[p.id]] \in 0 .. m
        BY <4>1, <3>3, <1>2
      <4>4. Low(x) <= rank[s[p.id]]
        BY <4>2, <4>3, <2>2, <1>3
      <4> QED  BY <4>3, <4>4, <3>1, <3>2
    <3>6. CASE IsVar(p) /\ p.id \notin DOMAIN s
      <4>1. x = Unresolved(p)
        <5>1. Replaced(s, g, p) = Free(g, p)
          BY <3>6, <1>0 DEF Recurs
        <5> QED  BY <5>1, <3>1, <2>2 DEF Free
      <4>2. CASE p.con = "Var"
        <5>1. x = p /\ MonoType(p, all)
          <6>1. p \in [con : {"Var"}, id : Variables]
            BY <4>2, <3>3 DEF MonoType, Primitives, Ints
          <6> QED  BY <4>1, <4>2, <6>1 DEF MonoType, Unresolved
        <5>2. Onward(<<>>, x) = {}
          BY <5>1, <3>6 DEF Onward
        <5> QED  BY <5>1, <5>2
      <4>3. CASE p.con # "Var"
        <5>1. x \in {Prim("I32"), Prim("F64")}
          BY <4>1, <4>3, <3>6 DEF IsVar, Unresolved
        <5>2. x \in [con : Primitives, args : {<<>>}] /\ ~IsVar(x) /\ x.con # "Record" /\ x.args = <<>>
          BY <5>1 DEF Prim, Primitives, Ints, IsVar
        <5>3. Onward(<<>>, x) = {}
          BY <5>2 DEF Onward, Parts, Inside
        <5> QED  BY <5>2, <5>3 DEF MonoType
      <4> QED  BY <4>2, <4>3
    <3> QED  BY <3>4, <3>5, <3>6
  <2> QED  BY <2>1, <2>2
<1>8. all = ground \cup Valued(s, g, types)
  BY <1>1 DEF Valued
<1>9. Ranks(<<>>, all, k + m + 1, r)
  BY <1>6, <1>7 DEF Ranks
<1> QED  BY <1>8, <1>9
-----------------------------------------------------------------------------
(* The pairs unify goes on with. *)

Grown(S, q, x, z) == /\ z \in Seq(S)
                     /\ \E i \in DOMAIN z : z[i] = x
                     /\ \A i \in DOMAIN q : i \in DOMAIN z /\ z[i] = q[i]
\* An appended element is there, and the others stay where they are.
LEMMA AppendIs ==
    ASSUME NEW S, NEW q \in Seq(S), NEW x \in S
    PROVE  Grown(S, q, x, Append(q, x))
<1>0. PICK z : z = Append(q, x)
  OBVIOUS
<1>1. z \in Seq(S) /\ Len(z) = Len(q) + 1 /\ z[Len(q) + 1] = x /\ \A i \in 1 .. Len(q) : z[i] = q[i]
  BY <1>0
<1>2. DOMAIN z = 1 .. Len(q) + 1 /\ DOMAIN q = 1 .. Len(q) /\ Len(q) \in Nat
  BY <1>1
<1>3. Len(q) + 1 \in DOMAIN z
  BY <1>2
<1>4. Grown(S, q, x, z)
  BY <1>1, <1>2, <1>3 DEF Grown
<1> QED  BY <1>4, <1>0

\* All fields are taken, and no others.
LEMMA FieldOrderIs ==
    ASSUME NEW fs, fs \subseteq Names
    PROVE  /\ FieldOrder(fs) \in Seq(fs)
           /\ \A name \in fs : \E i \in DOMAIN FieldOrder(fs) : FieldOrder(fs)[i] = name
<1> DEFINE More(n, q) == IF FieldNames[n] \in fs THEN Append(q, FieldNames[n]) ELSE q
           R(f) == f = [n \in Nat |-> IF n = 0 THEN <<>> ELSE More(n, f[n - 1])]
           W == CHOOSE f : R(f)
<1>1. FieldOrder(fs) = W[Len(FieldNames)]
  BY DEF FieldOrder
<1>2. \A n : \A q \in Seq(fs) : More(n, q) \in Seq(fs)
  OBVIOUS
<1> HIDE DEF More
<1>3. PICK step : step = [n \in Nat \ {0} |-> [q \in Seq(fs) |-> More(n, q)]]
  OBVIOUS
<1>4. step \in [Nat \ {0} -> [Seq(fs) -> Seq(fs)]]
  <2>1. ASSUME NEW n \in Nat \ {0} PROVE [q \in Seq(fs) |-> More(n, q)] \in [Seq(fs) -> Seq(fs)]
    BY <1>2
  <2> QED  BY <2>1, <1>3
<1>5. PICK f \in [Nat -> Seq(fs)] : FollowsOn(f, <<>>, step)
  <2>1. <<>> \in Seq(fs)
    OBVIOUS
  <2> QED  BY <2>1, <1>4, Recursion
<1>6. f[0] = <<>> /\ \A n \in Nat : f[n + 1] = More(n + 1, f[n])
  <2>1. \A n \in Nat : n + 1 \in Nat \ {0} /\ f[n] \in Seq(fs)
    OBVIOUS
  <2> QED  BY <2>1, <1>3, <1>5 DEF FollowsOn
<1>7. R(f)
  <2>1. ASSUME NEW n \in Nat, n # 0 PROVE f[n] = More(n, f[n - 1])
    <3>1. n - 1 \in Nat /\ n - 1 + 1 = n
      BY <2>1
    <3>2. PICK k \in Nat : k + 1 = n /\ n - 1 = k
      BY <3>1
    <3> QED  BY <3>2, <1>6
  <2> QED  BY <2>1, <1>6
<1>8. R(W)
  BY <1>7
<1> HIDE DEF W
<1>9. W[0] = <<>> /\ \A n \in Nat : W[n + 1] = More(n + 1, W[n])
  <2>1. W[0] = <<>>
    BY <1>8
  <2>2. ASSUME NEW n \in Nat PROVE W[n + 1] = More(n + 1, W[n])
    <3>1. PICK k \in Nat : k = n + 1 /\ k # 0 /\ k - 1 = n
      OBVIOUS
    <3>2. W[k] = More(k, W[k - 1])
      BY <3>1, <1>8
    <3> QED  BY <3>1, <3>2
  <2> QED  BY <2>1, <2>2
<1> DEFINE T == {n \in Nat : /\ W[n] \in Seq(fs)
                             /\ \A k \in 1 .. n : FieldNames[k] \in fs =>
                                    \E i \in DOMAIN W[n] : W[n][i] = FieldNames[k]}
<1>10. 0 \in T
  <2>1. W[0] \in Seq(fs) /\ 1 .. 0 = {}
    BY <1>9
  <2> QED  BY <2>1
<1>11. ASSUME NEW n \in Nat, n \in T PROVE n + 1 \in T
  <2>1. PICK k1 \in Nat : k1 = n + 1
    OBVIOUS
  <2>2. PICK q \in Seq(fs) : q = W[n]
    BY <1>11
  <2>3. PICK z : z = More(k1, q)
    OBVIOUS
  <2>4. W[k1] = z
    <3>1. W[n + 1] = More(n + 1, W[n])
      BY <1>9
    <3> QED  BY <3>1, <2>1, <2>2, <2>3
  <2>5. /\ z \in Seq(fs)
        /\ FieldNames[k1] \in fs => \E i \in DOMAIN z : z[i] = FieldNames[k1]
        /\ \A i \in DOMAIN q : i \in DOMAIN z /\ z[i] = q[i]
    <3>1. CASE FieldNames[k1] \in fs
      <4>1. z = Append(q, FieldNames[k1])
        BY <2>3, <3>1 DEF More
      <4>2. Grown(fs, q, FieldNames[k1], z)
        BY <4>1, <3>1, AppendIs
      <4> QED  BY <4>2 DEF Grown
    <3>2. CASE FieldNames[k1] \notin fs
      BY <2>3, <3>2 DEF More
    <3> QED  BY <3>1, <3>2
  <2>6. \A k \in 1 .. n : FieldNames[k] \in fs => \E i \in DOMAIN q : q[i] = FieldNames[k]
    BY <2>2, <1>11
  <2>7. ASSUME NEW k \in 1 .. k1, FieldNames[k] \in fs PROVE \E i \in DOMAIN z : z[i] = FieldNames[k]
    <3>1. CASE k = k1
      BY <3>1, <2>5, <2>7
    <3>2. CASE k \in 1 .. n
      BY <3>2, <2>5, <2>6, <2>7
    <3> QED  BY <3>1, <3>2, <2>1
  <2>8. k1 \in T
    BY <2>4, <2>5, <2>7
  <2> QED  BY <2>8, <2>1
<1> HIDE DEF T
<1>12. Nat \subseteq T
  BY <1>10, <1>11, Induction
<1>13. PICK n \in Nat : n = Len(FieldNames) /\ DOMAIN FieldNames = 1 .. n
  BY FieldNamesAreNames
<1>14. n \in T
  BY <1>12
<1>15. \A name \in fs : \E k \in 1 .. n : FieldNames[k] = name
  BY <1>13 DEF Names
<1>16. PICK q : q = W[n] /\ q = FieldOrder(fs)
  BY <1>1, <1>13
<1>17. q \in Seq(fs) /\ \A k \in 1 .. n : FieldNames[k] \in fs => \E i \in DOMAIN q : q[i] = FieldNames[k]
  BY <1>14, <1>16 DEF T
<1>18. \A name \in fs : \E i \in DOMAIN q : q[i] = name
  BY <1>15, <1>17
<1> QED  BY <1>16, <1>17, <1>18

\* The parts of a type in their places.
LEMMA InsideIs ==
    ASSUME NEW types, NEW t, MonoType(t, types), ~IsVar(t)
    PROVE  /\ t.con = "Record" => Inside(t) \in [DOMAIN Inside(t) -> types] /\ DOMAIN Inside(t) \subseteq Names
           /\ t.con # "Record" => Inside(t) \in Seq(types)
<1>1. CASE t \in [con : Primitives, args : {<<>>}]
  <2>1. t.con # "Record" /\ t.args = <<>>
    BY <1>1 DEF Primitives, Ints
  <2> QED  BY <2>1 DEF Inside
<1>2. CASE t \in [con : {"Array", "Effect"}, args : [1 .. 1 -> types]]
  <2>1. t.con # "Record" /\ t.args \in [1 .. 1 -> types]
    BY <1>2
  <2>2. t.args \in Seq(types)
    BY <2>1, SeqDef
  <2> QED  BY <2>1, <2>2 DEF Inside
<1>3. CASE t \in [con : {"Func"}, args : Seq(types)] \cup [con : {"Tag"}, name : STRING, args : Seq(types)]
  BY <1>3 DEF Inside
<1>4. ASSUME NEW names \in SUBSET Names, t \in [con : {"Record"}, fields : [names -> types]]
      PROVE  t.con = "Record" /\ Inside(t) \in [DOMAIN Inside(t) -> types] /\ DOMAIN Inside(t) \subseteq Names
  <2>1. t.con = "Record" /\ t.fields \in [names -> types]
    BY <1>4
  <2> QED  BY <2>1 DEF Inside
<1>5. t \notin [con : {"Var"}, id : Variables] /\ t \notin [con : {"IntVar", "FloatVar"}, id : Literals]
  BY DEF IsVar
<1> QED  BY <1>1, <1>2, <1>3, <1>4, <1>5 DEF MonoType, Names

\* The parts that are compared are parts of the left side, and every part that
\* has a counterpart is compared.
LEMMA OrderIs ==
    ASSUME NEW types, NEW a, NEW b, MonoType(a, types), MonoType(b, types), ~IsVar(a), ~IsVar(b), a.con = b.con
    PROVE  /\ Order(a, b) \in Seq(DOMAIN Inside(a))
           /\ \A at \in DOMAIN Inside(a) : a.con = "Record" \/ at \in DOMAIN Inside(b)
                  => \E i \in DOMAIN Order(a, b) : Order(a, b)[i] = at
<1>1. CASE a.con = "Record"
  <2>1. Inside(a) = a.fields /\ DOMAIN a.fields \subseteq Names
    BY <1>1, InsideIs DEF Inside
  <2>2. Order(a, b) = FieldOrder(DOMAIN a.fields)
    BY <1>1 DEF Order
  <2> QED  BY <2>1, <2>2, FieldOrderIs
<1>2. CASE a.con # "Record"
  <2>1. Inside(a) = a.args /\ Inside(b) = b.args /\ a.args \in Seq(types) /\ b.args \in Seq(types)
    BY <1>2, InsideIs DEF Inside
  <2>2. PICK k \in Nat, l \in Nat : k = Len(a.args) /\ l = Len(b.args)
    BY <2>1
  <2>3. PICK n \in Nat : n = SeqMin(k, l) /\ n <= k /\ n <= l /\ (n = k \/ n = l)
    BY DEF SeqMin
  <2>4. DOMAIN a.args = 1 .. k /\ DOMAIN b.args = 1 .. l
    BY <2>1, <2>2
  <2>5. PICK row : row = [i \in 1 .. n |-> i]
    OBVIOUS
  <2>6. Order(a, b) = row
    BY <1>2, <2>2, <2>3, <2>5 DEF Order
  <2>7. row \in Seq(1 .. k) /\ DOMAIN row = 1 .. n
    BY <2>3, <2>5
  <2>8. ASSUME NEW at \in 1 .. k, at \in 1 .. l PROVE at \in DOMAIN row /\ row[at] = at
    BY <2>8, <2>3, <2>5
  <2> QED  BY <1>2, <2>1, <2>4, <2>6, <2>7, <2>8
<1> QED  BY <1>1, <1>2

\* What unify goes on with: parts of the two, in the same place of both.
PairAt(a, b, i) ==
    LET at == Order(a, b)[i]
    IN  /\ at \in DOMAIN Inside(a) /\ Inside(a)[at] \in Parts(a) /\ SubPairs(a, b)[i][1] = Inside(a)[at]
        /\ SubPairs(a, b)[i][2] = IF at \in DOMAIN Inside(b) THEN Inside(b)[at] ELSE Prim("missing")
\* The same, for all pairs.
LEMMA SubPairsIs ==
    ASSUME NEW types, NEW a, NEW b, MonoType(a, types), MonoType(b, types), ~IsVar(a), ~IsVar(b), a.con = b.con
    PROVE  /\ SubPairs(a, b) \in Seq(types \X (types \cup {Prim("missing")}))
           /\ DOMAIN SubPairs(a, b) = DOMAIN Order(a, b)
           /\ \A i \in DOMAIN SubPairs(a, b) : PairAt(a, b, i)
<1>1. PICK order : order = Order(a, b)
  OBVIOUS
<1>2. order \in Seq(DOMAIN Inside(a))
  BY <1>1, OrderIs
<1>3. Parts(a) \subseteq types /\ Parts(b) \subseteq types
  BY MonoTypeIs
<1> DEFINE Right(at) == IF at \in DOMAIN Inside(b) THEN Inside(b)[at] ELSE Prim("missing")
<1>4. ASSUME NEW at \in DOMAIN Inside(a)
      PROVE  Inside(a)[at] \in Parts(a) /\ Inside(a)[at] \in types /\ Right(at) \in types \cup {Prim("missing")}
  BY <1>3 DEF Parts
<1>5. PICK pairs : pairs = [i \in DOMAIN order |-> <<Inside(a)[order[i]], Right(order[i])>>]
  OBVIOUS
<1>6. SubPairs(a, b) = pairs
  BY <1>1, <1>5 DEF SubPairs
<1> HIDE DEF Right
<1>7. PICK k \in Nat : DOMAIN order = 1 .. k
  BY <1>2
<1>8. ASSUME NEW i \in 1 .. k
      PROVE  /\ order[i] \in DOMAIN Inside(a)
             /\ pairs[i] \in types \X (types \cup {Prim("missing")})
             /\ pairs[i][1] = Inside(a)[order[i]] /\ pairs[i][2] = Right(order[i])
  <2>1. order[i] \in DOMAIN Inside(a)
    BY <1>2, <1>7
  <2>2. pairs[i] = <<Inside(a)[order[i]], Right(order[i])>>
    BY <1>5, <1>7
  <2> QED  BY <2>1, <2>2, <1>4
<1>9. pairs \in [1 .. k -> types \X (types \cup {Prim("missing")})]
  BY <1>5, <1>7, <1>8
<1>10. pairs \in Seq(types \X (types \cup {Prim("missing")}))
  BY <1>9
<1>11. ASSUME NEW i \in DOMAIN pairs
       PROVE  /\ order[i] \in DOMAIN Inside(a)
              /\ Inside(a)[order[i]] \in Parts(a)
              /\ pairs[i][1] = Inside(a)[order[i]] /\ pairs[i][2] = Right(order[i])
  <2>1. i \in 1 .. k
    BY <1>9
  <2> QED  BY <2>1, <1>4, <1>8
<1>12. DOMAIN pairs = DOMAIN order
  BY <1>5
<1>13. ASSUME NEW i \in DOMAIN SubPairs(a, b) PROVE PairAt(a, b, i)
  BY <1>1, <1>6, <1>11 DEF Right, PairAt
<1> QED  BY <1>1, <1>6, <1>10, <1>12, <1>13

\* A lacking field is told from every type.
LEMMA MissingIs ==
    ASSUME NEW types, NEW t, MonoType(t, types)
    PROVE  t # Prim("missing")
<1> SUFFICES ASSUME t = Prim("missing") PROVE FALSE
  OBVIOUS
<1>1. t.con = "missing" /\ "missing" \notin Primitives
  BY DEF Prim, Primitives, Ints
<1> QED  BY <1>1 DEF MonoType

\* The types a set of finite types is made of are a universe.
LEMMA FiniteUniverse ==
    ASSUME NEW ts, \A t \in ts : FiniteType(t)
    PROVE  \E all, r : ts \subseteq all /\ Ranks(<<>>, all, Depth, r)
<1>1. PICK all : all = UNION {Reached(<<>>, t) : t \in ts}
  OBVIOUS
<1> DEFINE Good(t, rank) == \A p \in Reached(<<>>, t) :
                               /\ rank[p] \in 0 .. Depth /\ MonoType(p, Reached(<<>>, t))
                               /\ \A q \in Onward(<<>>, p) : rank[q] < rank[p]
           Rank(t) == CHOOSE rank : Good(t, rank)
<1>2. ASSUME NEW t \in ts PROVE Good(t, Rank(t)) /\ t \in Reached(<<>>, t)
  <2>1. PICK rank \in [Reached(<<>>, t) -> 0 .. Depth] : \A p \in Reached(<<>>, t) :
          MonoType(p, Reached(<<>>, t)) /\ \A q \in Onward(<<>>, p) : rank[q] < rank[p]
    BY DEF FiniteType
  <2>2. Good(t, rank)
    BY <2>1
  <2>3. Good(t, Rank(t))
    <3> HIDE DEF Good
    <3> QED  BY <2>2
  <2> QED  BY <2>3 DEF FiniteType
<1>3. ASSUME NEW t \in ts, NEW p \in Reached(<<>>, t), NEW q \in Onward(<<>>, p) PROVE q \in Reached(<<>>, t)
  <2>1. MonoType(p, Reached(<<>>, t))
    BY <1>2
  <2>2. q \in Parts(p) /\ ~IsVar(p)
    BY DEF Onward
  <2> QED  BY <2>1, <2>2, MonoTypeIs
<1> DEFINE Of(p) == {Rank(t)[p] : t \in {u \in ts : p \in Reached(<<>>, u)}}
           Low(p) == CHOOSE n \in Of(p) : \A l \in Of(p) : n <= l
<1> HIDE DEF Rank
<1>4. ASSUME NEW p \in all
      PROVE  /\ \E t \in ts : p \in Reached(<<>>, t) /\ Rank(t)[p] = Low(p)
             /\ \A t \in ts : p \in Reached(<<>>, t) => Low(p) <= Rank(t)[p]
  <2>1. Of(p) \subseteq Nat /\ Of(p) # {}
    BY <1>1, <1>2
  <2>2. \E n \in Of(p) : \A l \in Of(p) : n <= l
    <3> HIDE DEF Of
    <3> QED  BY <2>1, Least
  <2>3. Low(p) \in Of(p) /\ \A l \in Of(p) : Low(p) <= l
    BY <2>2
  <2> HIDE DEF Low
  <2> QED  BY <2>3
<1> HIDE DEF Low
<1>5. PICK r : r = [p \in all |-> Low(p)]
  OBVIOUS
<1>6. ASSUME NEW p \in all
      PROVE  /\ r[p] \in 0 .. Depth /\ MonoType(p, all)
             /\ \A q \in Onward(<<>>, p) : q \in all /\ r[q] < r[p]
  <2>1. PICK t \in ts : p \in Reached(<<>>, t) /\ Rank(t)[p] = Low(p)
    BY <1>4
  <2>2. Reached(<<>>, t) \subseteq all
    BY <1>1
  <2>3. r[p] = Rank(t)[p] /\ r[p] \in 0 .. Depth /\ MonoType(p, Reached(<<>>, t))
    BY <2>1, <1>2, <1>5
  <2>4. ASSUME NEW q \in Onward(<<>>, p) PROVE q \in all /\ r[q] < r[p]
    <3>1. q \in Reached(<<>>, t) /\ Rank(t)[q] < Rank(t)[p] /\ Rank(t)[q] \in 0 .. Depth
      BY <2>1, <1>2, <1>3
    <3>2. q \in all /\ r[q] = Low(q) /\ Low(q) <= Rank(t)[q]
      BY <3>1, <2>2, <1>4, <1>5
    <3>3. Low(q) \in 0 .. Depth
      BY <3>2, <1>2, <1>4
    <3>4. Depth \in Nat
      BY TypesAreFinite
    <3> QED  BY <3>1, <3>2, <3>3, <3>4, <2>3
  <2> QED  BY <2>2, <2>3, <2>4, MonoTypeMore
<1>7. ts \subseteq all
  BY <1>1, <1>2
<1>8. r \in [all -> 0 .. Depth]
  BY <1>5, <1>6
<1>9. Ranks(<<>>, all, Depth, r)
  BY <1>6, <1>8 DEF Ranks
<1> QED  BY <1>7, <1>9

\* The types of a universe with the substitution applied are in a universe without it.
LEMMA AppliedUniverse ==
    ASSUME NEW s, NEW types, NEW m \in Nat, NEW rank, Ranks(s, types, m, rank)
    PROVE  \E k, r : k \in Nat /\ Ranks(<<>>, {Apply(s, p) : p \in types}, k, r)
<1>0. PICK zero \in Nat : zero = 0
  OBVIOUS
<1>1. PICK none, ground, g : none = [p \in {} |-> p] /\ ground = {} /\ g = <<>>
  OBVIOUS
<1>2. Ranks(<<>>, ground, zero, none) /\ \A v \in DOMAIN g : g[v] \in ground
  BY <1>0, <1>1 DEF Ranks
<1>3. PICK applied : applied = ground \cup Valued(s, g, types)
  OBVIOUS
<1>4. PICK k \in Nat : k = zero + m + 1
  OBVIOUS
<1>6. PICK r : Ranks(<<>>, applied, k, r)
  <2>1. \E r : Ranks(<<>>, ground \cup Valued(s, g, types), zero + m + 1, r)
    BY <1>2, UniverseReplaced
  <2> QED  BY <2>1, <1>3, <1>4
<1>7. applied = {Apply(s, p) : p \in types}
  BY <1>1, <1>3 DEF Apply, Valued
<1> QED  BY <1>4, <1>6, <1>7

\* A universe, and the types in it with the substitution applied.
LEMMA UniverseApplied ==
    ASSUME NEW s, NEW types, NEW m \in Nat, NEW rank, Ranks(s, types, m, rank), \A v \in DOMAIN s : s[v] \in types
    PROVE  \E k, r : k \in Nat /\ Ranks(s, types \cup {Apply(s, p) : p \in types}, k, r)
<1>1. PICK applied : applied = {Apply(s, p) : p \in types}
  OBVIOUS
<1>2. PICK k, r : k \in Nat /\ Ranks(<<>>, applied, k, r)
  <2>1. \E k, r : k \in Nat /\ Ranks(<<>>, {Apply(s, p) : p \in types}, k, r)
    BY AppliedUniverse
  <2> QED  BY <2>1, <1>1
<1>3. \E r2 : Ranks(s, types \cup applied, m + k + 1, r2)
  BY <1>2, UniverseJoined
<1>4. m + k + 1 \in Nat
  BY <1>2
<1> QED  BY <1>1, <1>3, <1>4
-----------------------------------------------------------------------------
(* Types with the substitution applied. *)

\* A type of a universe that is no variable, replaced: its parts replaced.
PartByPart(s, g, t) ==
    /\ ~IsVar(Replaced(s, g, t)) /\ Replaced(s, g, t).con = t.con
    /\ t.con = "Tag" => Replaced(s, g, t).name = t.name
    /\ Inside(Replaced(s, g, t)) = [i \in DOMAIN Inside(t) |-> Replaced(s, g, Inside(t)[i])]
    /\ MonoType(Replaced(s, g, t), {Replaced(s, g, q) : q \in Parts(t)})
\* So it is with every type of a universe that is no variable.
LEMMA ReplacedParts ==
    ASSUME NEW s, NEW types, NEW m \in Nat, NEW rank, Ranks(s, types, m, rank), NEW g, NEW t \in types, ~IsVar(t)
    PROVE  PartByPart(s, g, t)
<1>1. Recurs(s, g, t) /\ MonoType(t, types)
  BY ReplacedIs DEF Ranks
<1>2. PICK f : f = [q \in Parts(t) |-> Replaced(s, g, q)]
  OBVIOUS
<1>3. Replaced(s, g, t) = Rebuild(t, f)
  BY <1>1, <1>2 DEF Recurs
<1>4. PICK others : others = {Replaced(s, g, q) : q \in Parts(t)}
  OBVIOUS
<1>5. \A q \in Parts(t) : f[q] \in others
  BY <1>2, <1>4
<1>6. /\ MonoType(Rebuild(t, f), others) /\ ~IsVar(Rebuild(t, f)) /\ Rebuild(t, f).con = t.con
      /\ t.con = "Tag" => Rebuild(t, f).name = t.name
      /\ Inside(Rebuild(t, f)) = [i \in DOMAIN Inside(t) |-> f[Inside(t)[i]]]
  BY <1>1, <1>5, RebuildIs
<1>7. \A i \in DOMAIN Inside(t) : f[Inside(t)[i]] = Replaced(s, g, Inside(t)[i])
  BY <1>2 DEF Parts
<1>8. [i \in DOMAIN Inside(t) |-> f[Inside(t)[i]]] = [i \in DOMAIN Inside(t) |-> Replaced(s, g, Inside(t)[i])]
  BY <1>7
<1> QED  BY <1>3, <1>4, <1>6, <1>8 DEF PartByPart

\* What stays a variable is not bound.
LEMMA AppliedVars ==
    ASSUME NEW s, NEW types, NEW m \in Nat, NEW rank, Ranks(s, types, m, rank),
           NEW t \in types, IsVar(Apply(s, t))
    PROVE  \E v \in Variables : Apply(s, t) = Var(v) /\ v \notin DOMAIN s
<1> DEFINE T == {p \in types : IsVar(Apply(s, p)) => \E v \in Variables : Apply(s, p) = Var(v) /\ v \notin DOMAIN s}
<1>1. ASSUME NEW p \in types, \A q \in Onward(s, p) : q \in T PROVE p \in T
  <2> SUFFICES ASSUME IsVar(Apply(s, p)) PROVE \E v \in Variables : Apply(s, p) = Var(v) /\ v \notin DOMAIN s
    OBVIOUS
  <2>1. Recurs(s, <<>>, p) /\ MonoType(p, types)
    BY ReplacedIs DEF Ranks
  <2>2. CASE ~IsVar(p)
    BY <2>2, ReplacedParts DEF PartByPart, Apply
  <2>3. CASE IsVar(p) /\ p.id \in DOMAIN s
    <3>1. Apply(s, p) = Apply(s, s[p.id])
      BY <2>1, <2>3 DEF Recurs, Apply
    <3>2. s[p.id] \in Onward(s, p)
      BY <2>3 DEF Onward
    <3> QED  BY <3>1, <3>2, <1>1
  <2>4. CASE IsVar(p) /\ p.id \notin DOMAIN s
    <3>1. Apply(s, p) = Unresolved(p)
      BY <2>1, <2>4 DEF Recurs, Apply, Free
    <3>2. CASE p.con = "Var"
      <4>1. p = Var(p.id) /\ p.id \in Variables
        BY <2>1, <2>4, <3>2, MonoTypeIs
      <4> QED  BY <4>1, <3>1, <3>2, <2>4 DEF Unresolved
    <3>3. CASE p.con # "Var"
      <4>1. Unresolved(p) \in {Prim("I32"), Prim("F64")}
        BY <3>3, <2>4 DEF IsVar, Unresolved
      <4> QED  BY <4>1, <3>1 DEF IsVar, Prim
    <3> QED  BY <3>2, <3>3
  <2> QED  BY <2>2, <2>3, <2>4
<1>2. types \subseteq T
  <2> HIDE DEF T
  <2> QED  BY <1>1, RankInduction
<1> QED  BY <1>2

\* To replace variables in a type with the substitution applied is to replace
\* them in the type, when what replaces them agrees with the substitution.
LEMMA ReplacedTwice ==
    ASSUME NEW s, NEW types, NEW m \in Nat, NEW rank, Ranks(s, types, m, rank), DOMAIN s \subseteq Variables,
           NEW s2, NEW more, NEW k \in Nat, NEW depth, Ranks(s2, more, k, depth), DOMAIN s2 \subseteq Variables,
           types \subseteq more, \A p \in types : Apply(s, p) \in more, NEW g, DOMAIN g \subseteq Variables,
           \A p \in types : IsVar(p) /\ p.id \in DOMAIN s => Replaced(s2, g, p) = Replaced(s2, g, s[p.id])
    PROVE  \A p \in types : Replaced(s2, g, Apply(s, p)) = Replaced(s2, g, p)
<1> DEFINE T == {p \in types : Replaced(s2, g, Apply(s, p)) = Replaced(s2, g, p)}
<1>1. ASSUME NEW p \in types, \A q \in Onward(s, p) : q \in T PROVE p \in T
  <2>1. Recurs(s, <<>>, p) /\ MonoType(p, types)
    BY ReplacedIs DEF Ranks
  <2>2. CASE ~IsVar(p)
    <3>1. PICK x, y, z : x = Apply(s, p) /\ y = Replaced(s2, g, x) /\ z = Replaced(s2, g, p)
      OBVIOUS
    <3>2. /\ ~IsVar(x) /\ x.con = p.con
          /\ p.con = "Tag" => x.name = p.name
          /\ Inside(x) = [i \in DOMAIN Inside(p) |-> Apply(s, Inside(p)[i])]
      <4>1. PartByPart(s, <<>>, p)
        BY <2>2, ReplacedParts
      <4> QED  BY <4>1, <3>1 DEF PartByPart, Apply
    <3>3. x \in more /\ p \in more
      BY <3>1
    <3>4. /\ ~IsVar(y) /\ y.con = x.con
          /\ x.con = "Tag" => y.name = x.name
          /\ Inside(y) = [i \in DOMAIN Inside(x) |-> Replaced(s2, g, Inside(x)[i])]
          /\ MonoType(y, {Replaced(s2, g, q) : q \in Parts(x)})
      <4>1. PartByPart(s2, g, x)
        BY <3>2, <3>3, ReplacedParts
      <4> QED  BY <4>1, <3>1 DEF PartByPart
    <3>5. /\ ~IsVar(z) /\ z.con = p.con
          /\ p.con = "Tag" => z.name = p.name
          /\ Inside(z) = [i \in DOMAIN Inside(p) |-> Replaced(s2, g, Inside(p)[i])]
          /\ MonoType(z, {Replaced(s2, g, q) : q \in Parts(p)})
      <4>1. PartByPart(s2, g, p)
        BY <2>2, <3>3, ReplacedParts
      <4> QED  BY <4>1, <3>1 DEF PartByPart
    <3>6. ASSUME NEW i \in DOMAIN Inside(p)
          PROVE  Replaced(s2, g, Inside(x)[i]) = Replaced(s2, g, Inside(p)[i])
      <4>1. Inside(p)[i] \in Onward(s, p)
        BY <2>2 DEF Onward, Parts
      <4>2. Replaced(s2, g, Apply(s, Inside(p)[i])) = Replaced(s2, g, Inside(p)[i])
        BY <4>1, <1>1
      <4> QED  BY <4>2, <3>2
    <3>7. Inside(y) = Inside(z)
      <4>1. DOMAIN Inside(x) = DOMAIN Inside(p)
        BY <3>2
      <4> QED  BY <4>1, <3>4, <3>5, <3>6
    <3>8. PICK all : all = {Replaced(s2, g, q) : q \in Parts(x)} \cup {Replaced(s2, g, q) : q \in Parts(p)}
      OBVIOUS
    <3>9. MonoType(y, all) /\ MonoType(z, all)
      <4>1. PICK one, two : one = {Replaced(s2, g, q) : q \in Parts(x)} /\ two = {Replaced(s2, g, q) : q \in Parts(p)}
        OBVIOUS
      <4>2. one \subseteq all /\ two \subseteq all
        BY <4>1, <3>8
      <4>3. MonoType(y, one) /\ MonoType(z, two)
        BY <4>1, <3>4, <3>5
      <4> QED  BY <4>2, <4>3, MonoTypeMore
    <3>10. y = z
      BY <3>2, <3>4, <3>5, <3>7, <3>9, SameType
    <3> QED  BY <3>1, <3>10
  <2>3. CASE IsVar(p) /\ p.id \in DOMAIN s
    <3>1. Apply(s, p) = Apply(s, s[p.id])
      BY <2>1, <2>3 DEF Recurs, Apply
    <3>2. s[p.id] \in T
      BY <2>3, <1>1 DEF Onward
    <3> QED  BY <2>3, <3>1, <3>2
  <2>4. CASE IsVar(p) /\ p.id \notin DOMAIN s
    <3>1. Apply(s, p) = Unresolved(p)
      BY <2>1, <2>4 DEF Recurs, Apply, Free
    <3>2. CASE p.con = "Var"
      BY <3>1, <3>2 DEF Unresolved
    <3>3. CASE p.con # "Var"
      <4>1. PICK x : x = Unresolved(p)
        OBVIOUS
      <4>2. x \in [con : Primitives, args : {<<>>}]
        BY <4>1, <3>3, <2>4 DEF IsVar, Unresolved, Prim, Primitives, Ints
      <4>3. x \in more /\ p \in more
        BY <4>1, <3>1
      <4>4. Replaced(s2, g, x) = x
        <5>1. PICK f : f = [q \in Parts(x) |-> Replaced(s2, g, q)]
          OBVIOUS
        <5>2. ~IsVar(x) /\ x.con # "Record" /\ x = [con |-> x.con, args |-> <<>>]
          BY <4>2 DEF IsVar, Primitives, Ints
        <5>3. Replaced(s2, g, x) = Rebuild(x, f)
          BY <5>1, <5>2, <4>3, ReplacedIs DEF Recurs
        <5>4. [i \in DOMAIN x.args |-> f[x.args[i]]] = <<>>
          BY <5>2
        <5>5. Rebuild(x, f) = [x EXCEPT !.args = <<>>]
          BY <5>2, <5>4 DEF Rebuild
        <5> QED  BY <5>2, <5>3, <5>5
      <4>5. p.id \in Literals
        BY <2>1, <2>4, <3>3, MonoTypeIs
      <4>6. p.id \notin DOMAIN s2 /\ p.id \notin DOMAIN g
        BY <4>5, IdsApart
      <4>7. Replaced(s2, g, p) = Unresolved(p)
        <5>1. Recurs(s2, g, p)
          BY <4>3, ReplacedIs
        <5> QED  BY <5>1, <4>6, <2>4 DEF Recurs, Free
      <4> QED  BY <4>1, <4>4, <4>7, <3>1
    <3> QED  BY <3>2, <3>3
  <2> QED  BY <2>2, <2>3, <2>4
<1>2. types \subseteq T
  <2> HIDE DEF T
  <2> QED  BY <1>1, RankInduction
<1> QED  BY <1>2

\* How a call of unify ends or goes on, once the bindings are walked through.
LEMMA OutcomeIs ==
    ASSUME NEW s, NEW types, NEW m \in Nat, NEW rank, Ranks(s, types, m, rank), NEW a \in types, NEW b \in types,
           NEW x, x = Apply(s, a), NEW y, y = Apply(s, b), NEW r, r = UnifyWalked(s, x, y)
    PROVE  \/ x = y /\ r = Done(s)
           \/ \E v \in Variables \ DOMAIN s : x = Var(v) /\ x # y /\ r = Bind(s, v, y)
           \/ \E v \in Variables \ DOMAIN s : y = Var(v) /\ x # y /\ r = Bind(s, v, x)
           \/ ~IsVar(x) /\ ~IsVar(y) /\ r = UnifyParts(s, x, y)
<1>1. IsVar(x) => \E v \in Variables : x = Var(v) /\ v \notin DOMAIN s
  BY AppliedVars
<1>2. IsVar(y) => \E v \in Variables : y = Var(v) /\ v \notin DOMAIN s
  BY AppliedVars
<1>3. \A v : Var(v).con = "Var" /\ Var(v).id = v
  BY DEF Var
<1>4. x.con \notin {"IntVar", "FloatVar"} /\ y.con \notin {"IntVar", "FloatVar"}
  BY <1>1, <1>2, <1>3 DEF IsVar
<1>5. r = IF x = y THEN Done(s)
          ELSE IF x.con = "Var" THEN Bind(s, x.id, y)
          ELSE IF y.con = "Var" THEN Bind(s, y.id, x)
          ELSE UnifyParts(s, x, y)
  BY <1>4 DEF UnifyWalked
<1>6. CASE x = y
  BY <1>5, <1>6
<1>7. CASE x # y /\ IsVar(x)
  <2>1. PICK v \in Variables : x = Var(v) /\ v \notin DOMAIN s
    BY <1>1, <1>7
  <2>2. r = Bind(s, v, y)
    BY <2>1, <1>3, <1>5, <1>7
  <2> QED  BY <2>1, <2>2, <1>7
<1>8. CASE x # y /\ ~IsVar(x) /\ IsVar(y)
  <2>1. PICK v \in Variables : y = Var(v) /\ v \notin DOMAIN s
    BY <1>2, <1>8
  <2>2. x.con # "Var"
    BY <1>8 DEF IsVar
  <2>3. r = Bind(s, v, x)
    BY <2>1, <2>2, <1>3, <1>5, <1>8
  <2> QED  BY <2>1, <2>3, <1>8
<1>9. CASE x # y /\ ~IsVar(x) /\ ~IsVar(y)
  <2>1. x.con # "Var" /\ y.con # "Var"
    BY <1>9 DEF IsVar
  <2> QED  BY <2>1, <1>5, <1>9
<1> QED  BY <1>6, <1>7, <1>8, <1>9
-----------------------------------------------------------------------------
(* One pair of types. *)

Universe(s, types) ==
    /\ DOMAIN s \subseteq Variables
    /\ \A v \in DOMAIN s : s[v] \in types
    /\ \E m, rank : m \in Nat /\ Ranks(s, types, m, rank)
Pairs(types) == types \X (types \cup {Prim("missing")})

\* What a variable's binding to t comes to.
Bound(s, v, t) == IF OccursIn(s, v, t) THEN Fail(s, "InfiniteType") ELSE Done(Insert(s, v, t))

\* What unify of the types x and y, which are walked through, comes to.
Outcome(s, more, x, y, r) ==
    \/ x = y /\ r = Done(s)
    \/ \E v \in Variables \ DOMAIN s, t \in more :
          t # Var(v) /\ <<x, y>> \in {<<Var(v), t>>, <<t, Var(v)>>} /\ r = Bound(s, v, t)
    \/ ~IsVar(x) /\ ~IsVar(y) /\ r = UnifyParts(s, x, y)

\* A universe serves before and after, and has the types walked through.
Taken(s, types, more, a, b, r) ==
    /\ types \subseteq more /\ \A p \in types : Apply(s, p) \in more
    /\ Universe(s, more) /\ Universe(r.sub, more)
    /\ Outcome(s, more, Apply(s, a), Apply(s, b), r)
    /\ r.todo \in Seq(Pairs(more))

\* There always is such a universe.
LEMMA PairTaken ==
    ASSUME NEW s, NEW types, Universe(s, types), NEW a \in types, NEW b \in types,
           NEW r, r = UnifyWalked(s, Apply(s, a), Apply(s, b))
    PROVE  \E more : Taken(s, types, more, a, b, r)
<1>1. PICK m, rank : m \in Nat /\ Ranks(s, types, m, rank)
  BY DEF Universe
<1>2. PICK more : more = types \cup {Apply(s, p) : p \in types}
  OBVIOUS
<1>3. PICK k, depth : k \in Nat /\ Ranks(s, more, k, depth)
  <2>1. \A v \in DOMAIN s : s[v] \in types
    BY DEF Universe
  <2>2. \E k, depth : k \in Nat /\ Ranks(s, types \cup {Apply(s, p) : p \in types}, k, depth)
    BY <1>1, <2>1, UniverseApplied
  <2> QED  BY <2>2, <1>2
<1>4. PICK x, y : x = Apply(s, a) /\ y = Apply(s, b)
  OBVIOUS
<1>5. x \in more /\ y \in more /\ types \subseteq more /\ \A p \in types : Apply(s, p) \in more
  BY <1>2, <1>4
<1>6. Universe(s, more)
  BY <1>3, <1>5 DEF Universe
<1>7. \A v, t : t # Var(v) => Bind(s, v, t) = Bound(s, v, t)
  BY DEF Bind, Bound
<1>8. \/ x = y /\ r = Done(s)
      \/ \E v \in Variables \ DOMAIN s : x = Var(v) /\ x # y /\ r = Bind(s, v, y)
      \/ \E v \in Variables \ DOMAIN s : y = Var(v) /\ x # y /\ r = Bind(s, v, x)
      \/ ~IsVar(x) /\ ~IsVar(y) /\ r = UnifyParts(s, x, y)
  BY <1>1, <1>4, OutcomeIs
<1>9. Outcome(s, more, x, y, r)
  BY <1>5, <1>7, <1>8 DEF Outcome
<1>10. Universe(r.sub, more) /\ r.todo \in Seq(Pairs(more))
  <2>0. <<>> \in Seq(Pairs(more))
    OBVIOUS
  <2>1. CASE r = Done(s)
    BY <2>0, <2>1, <1>6 DEF Done, GoesOn
  <2>2. CASE \E v \in Variables \ DOMAIN s, t \in more : r = Bound(s, v, t)
    <3>1. PICK v \in Variables \ DOMAIN s, t \in more : r = Bound(s, v, t)
      BY <2>2
    <3>2. CASE OccursIn(s, v, t)
      BY <2>0, <3>1, <3>2, <1>6 DEF Bound, Fail
    <3>3. CASE ~OccursIn(s, v, t)
      <4>1. r.sub = Insert(s, v, t) /\ r.todo = <<>>
        BY <3>1, <3>3 DEF Bound, Done, GoesOn
      <4>2. \E r2 : Ranks(Insert(s, v, t), more, k + k + 1, r2)
        BY <1>3, <3>3, UniverseBound
      <4>3. DOMAIN Insert(s, v, t) \subseteq Variables /\ \A w \in DOMAIN Insert(s, v, t) : Insert(s, v, t)[w] \in more
        BY <1>6 DEF Universe, Insert
      <4>4. k + k + 1 \in Nat
        BY <1>3
      <4> QED  BY <2>0, <4>1, <4>2, <4>3, <4>4 DEF Universe
    <3> QED  BY <3>2, <3>3
  <2>3. CASE ~IsVar(x) /\ ~IsVar(y) /\ r = UnifyParts(s, x, y)
    <3>1. CASE \E e : r = Fail(s, e)
      BY <2>0, <3>1, <1>6 DEF Fail
    <3>2. CASE r = GoesOn(s, SubPairs(x, y)) /\ x.con = y.con
      <4>1. MonoType(x, more) /\ MonoType(y, more)
        BY <1>3, <1>5 DEF Ranks
      <4>2. SubPairs(x, y) \in Seq(Pairs(more))
        BY <4>1, <2>3, <3>2, SubPairsIs DEF Pairs
      <4> QED  BY <3>2, <4>2, <1>6 DEF GoesOn
    <3> QED  BY <2>3, <3>1, <3>2 DEF UnifyParts
  <2> QED  BY <2>1, <2>2, <2>3, <1>9 DEF Outcome
<1>11. Taken(s, types, more, a, b, r)
  BY <1>4, <1>5, <1>6, <1>9, <1>10 DEF Taken
<1> QED  BY <1>11
-----------------------------------------------------------------------------
(* The universe of a state, and that no chain of bindings leads back. *)

Within(types) == /\ Universe(sub, types)
                 /\ work \in Seq(Pairs(types)) /\ asked \in Seq(types \X types)
IInv == \E types : Within(types)

\* A step of unify, in terms of its pair.
LEMMA TakeIs ==
    ASSUME NEW types, Within(types), Take, NEW a, NEW b, a = Head(work)[1], b = Head(work)[2]
    PROVE  /\ UNCHANGED asked /\ err = "none"
           /\ Head(work) = <<a, b>> /\ a \in types /\ Tail(work) \in Seq(Pairs(types))
           /\ \/ b = Prim("missing") /\ UNCHANGED sub /\ work' = Tail(work) /\ err' # "none"
              \/ b \in types /\ b # Prim("missing") /\ \E more, r :
                    /\ Taken(sub, types, more, a, b, r)
                    /\ sub' = r.sub /\ work' = r.todo \o Tail(work) /\ err' = r.err
<1>1. work \in Seq(Pairs(types)) /\ work # <<>> /\ err = "none" /\ UNCHANGED asked /\ Universe(sub, types)
  BY DEF Within, Take
<1>2. Head(work) \in Pairs(types) /\ Tail(work) \in Seq(Pairs(types))
  BY <1>1
<1>3. Head(work) = <<a, b>> /\ a \in types /\ (b \in types \/ b = Prim("missing"))
  BY <1>2 DEF Pairs
<1>4. PICK r : r = UnifyPair(sub, <<a, b>>)
  OBVIOUS
<1>5. sub' = r.sub /\ work' = r.todo \o Tail(work) /\ err' = r.err
  BY <1>3, <1>4 DEF Take, UnifyStep
<1>6. CASE b = Prim("missing")
  <2>1. r = Fail(sub, "UnificationFailed")
    BY <1>4, <1>6 DEF UnifyPair
  <2>2. r.sub = sub /\ r.todo = <<>> /\ r.err = "UnificationFailed"
    BY <2>1 DEF Fail
  <2>3. <<>> \o Tail(work) = Tail(work)
    BY <1>2
  <2> QED  BY <2>2, <2>3, <1>1, <1>2, <1>3, <1>5, <1>6
<1>7. CASE b # Prim("missing")
  <2>1. r = UnifyWalked(sub, Apply(sub, a), Apply(sub, b))
    BY <1>4, <1>7 DEF UnifyPair, Walked
  <2>2. \E more : Taken(sub, types, more, a, b, r)
    BY <2>1, <1>1, <1>3, <1>7, PairTaken
  <2> QED  BY <2>2, <1>1, <1>2, <1>3, <1>5, <1>7
<1> QED  BY <1>6, <1>7

\* Before the first call there is no type.
LEMMA NoCallsWithin == NoCalls => IInv
<1> SUFFICES ASSUME NoCalls PROVE IInv
  OBVIOUS
<1>1. PICK none, types : none = [p \in {} |-> p] /\ types = {}
  OBVIOUS
<1>2. Ranks(<<>>, types, 0, none)
  BY <1>1 DEF Ranks
<1>3. Universe(<<>>, types)
  BY <1>2 DEF Universe
<1>4. Within(types)
  BY <1>3 DEF NoCalls, Within
<1> QED  BY <1>4 DEF IInv

\* A call of unify brings the types it is asked about into the universe.
LEMMA AskWithin ==
    ASSUME NEW types, Within(types), NEW i \in DOMAIN Calls, NEW call \in Calls[i], Ask(call[1], call[2])
    PROVE  \E more : types \subseteq more /\ Within(more)'
<1>1. PICK a, b : a = call[1] /\ b = call[2] /\ FiniteType(a) /\ FiniteType(b)
  BY TypesAreFinite
<1>2. PICK ts : ts = {a, b}
  OBVIOUS
<1>3. PICK all, r : ts \subseteq all /\ Ranks(<<>>, all, Depth, r)
  <2>1. \A t \in ts : FiniteType(t)
    BY <1>1, <1>2
  <2> QED  BY <2>1, FiniteUniverse
<1>4. PICK m, rank : m \in Nat /\ Ranks(sub, types, m, rank)
  BY DEF Within, Universe
<1>5. Universe(sub, types) /\ work = <<>> /\ asked \in Seq(types \X types)
  BY DEF Within, Ask
<1>6. PICK more : more = types \cup all
  OBVIOUS
<1>7. \E k, r2 : k \in Nat /\ Ranks(sub, more, k, r2)
  <2>1. Depth \in Nat
    BY TypesAreFinite
  <2>2. \E r2 : Ranks(sub, types \cup all, m + Depth + 1, r2)
    BY <2>1, <1>3, <1>4, <1>5, UniverseJoined DEF Universe
  <2>3. m + Depth + 1 \in Nat
    BY <2>1, <1>4
  <2> QED  BY <2>2, <2>3, <1>6
<1>8. Universe(sub, more)
  BY <1>5, <1>6, <1>7 DEF Universe
<1>9. work' = <<<<a, b>>>> /\ asked' = Append(asked, <<a, b>>) /\ sub' = sub
  BY <1>1 DEF Ask, Begun
<1>10. a \in more /\ b \in more /\ types \subseteq more
  BY <1>2, <1>3, <1>6
<1>11. <<a, b>> \in Pairs(more) /\ <<a, b>> \in more \X more /\ types \X types \subseteq more \X more
  BY <1>10 DEF Pairs
<1>12. asked \in Seq(more \X more)
  BY <1>5, <1>11, SeqMonotonic
<1>13. work' \in Seq(Pairs(more)) /\ asked' \in Seq(more \X more)
  BY <1>9, <1>11, <1>12
<1>14. Within(more)'
  BY <1>8, <1>9, <1>13 DEF Within
<1> QED  BY <1>10, <1>14

\* A state after a step of unify, within the larger universe.
LEMMA TakenWithin ==
    ASSUME NEW types, Within(types), UNCHANGED asked, NEW more, NEW a, NEW b, NEW r, Taken(sub, types, more, a, b, r),
           sub' = r.sub, work' = r.todo \o Tail(work), Tail(work) \in Seq(Pairs(types))
    PROVE  Within(more)'
<1>1. types \subseteq more /\ Universe(r.sub, more) /\ r.todo \in Seq(Pairs(more))
  BY DEF Taken
<1>2. Pairs(types) \subseteq Pairs(more) /\ types \X types \subseteq more \X more
  BY <1>1 DEF Pairs
<1>3. Tail(work) \in Seq(Pairs(more))
  BY <1>2, SeqMonotonic
<1>4. asked \in Seq(more \X more)
  BY <1>2, SeqMonotonic DEF Within
<1>5. work' \in Seq(Pairs(more))
  BY <1>1, <1>3
<1> QED  BY <1>1, <1>4, <1>5 DEF Within

\* Every step leaves a universe.
LEMMA NextCallWithin == IInv /\ [NextCall]_unifyVars => IInv'
<1> SUFFICES ASSUME NEW types, Within(types), [NextCall]_unifyVars PROVE IInv'
  BY DEF IInv
<1>1. ASSUME NEW call \in Calls[Len(asked) + 1], Len(asked) < Len(Calls), Ask(call[1], call[2]) PROVE IInv'
  <2>1. Len(asked) + 1 \in DOMAIN Calls
    BY <1>1, TypesAreFinite DEF Within
  <2>2. \E more : Within(more)'
    BY <2>1, <1>1, AskWithin
  <2> QED  BY <2>2 DEF IInv
<1>2. CASE Take
  <2>1. PICK a, b : a = Head(work)[1] /\ b = Head(work)[2]
    OBVIOUS
  <2>2. UNCHANGED asked /\ Tail(work) \in Seq(Pairs(types))
    BY <2>1, <1>2, TakeIs
  <2>3. CASE b = Prim("missing") /\ UNCHANGED sub /\ work' = Tail(work)
    BY <2>2, <2>3 DEF Within, IInv
  <2>4. CASE \E more, r : /\ Taken(sub, types, more, a, b, r)
                          /\ sub' = r.sub /\ work' = r.todo \o Tail(work)
    <3>1. PICK more, r : /\ Taken(sub, types, more, a, b, r)
                         /\ sub' = r.sub /\ work' = r.todo \o Tail(work)
      BY <2>4
    <3>2. Within(more)'
      BY <3>1, <2>2, TakenWithin
    <3> QED  BY <3>2 DEF IInv
  <2>5. \/ b = Prim("missing") /\ UNCHANGED sub /\ work' = Tail(work)
        \/ \E more, r : Taken(sub, types, more, a, b, r) /\ sub' = r.sub /\ work' = r.todo \o Tail(work)
    BY <2>1, <1>2, TakeIs
  <2> QED  BY <2>3, <2>4, <2>5
<1>3. CASE UNCHANGED unifyVars
  <2>1. Within(types)'
    BY <1>3 DEF unifyVars, Within
  <2> QED  BY <2>1 DEF IInv
<1> QED  BY <1>1, <1>2, <1>3 DEF NextCall

\* Whatever unify is asked, and wherever it has got to or given up, no chain of
\* bindings leads back to its start.
THEOREM BindingsAreAcyclic == UnificationSpec => []Acyclic
<1>1. IInv => Acyclic
  <2> SUFFICES ASSUME NEW types, Within(types), NEW v \in DOMAIN sub, NEW p \in Reached(sub, sub[v]),
                      IsVar(p), p.id = v
               PROVE  FALSE
    BY DEF IInv, Acyclic
  <2>1. PICK m, rank : m \in Nat /\ Ranks(sub, types, m, rank)
    BY DEF Within, Universe
  <2>2. PICK t \in types : t = sub[v]
    BY DEF Within, Universe
  <2>3. \A q \in types : rank[q] \in 0 .. m
    BY <2>1 DEF Ranks
  <2> DEFINE ts == {q \in types : rank[q] <= rank[t]}
  <2>4. t \in ts
    BY <2>3
  <2>5. ASSUME NEW q \in ts \cap types PROVE Onward(sub, q) \subseteq ts
    <3> SUFFICES ASSUME NEW o \in Onward(sub, q) PROVE o \in ts
      OBVIOUS
    <3>1. o \in types /\ rank[o] < rank[q]
      BY <2>1 DEF Ranks
    <3> QED  BY <3>1, <2>3
  <2>6. p \in ts
    <3> HIDE DEF ts
    <3> QED  BY <2>1, <2>2, <2>4, <2>5, ReachedIs
  <2>7. t \in Onward(sub, p)
    BY <2>2 DEF Onward
  <2>8. rank[t] < rank[p]
    BY <2>1, <2>6, <2>7 DEF Ranks
  <2> QED  BY <2>3, <2>6, <2>8
<1> QED  BY <1>1, NoCallsWithin, NextCallWithin, PTL DEF UnificationSpec
-----------------------------------------------------------------------------
(* Solutions. *)

Agrees(g, s) == \A v \in DOMAIN s : g[v] = Value(g, s[v])
AllEqual(g, pairs) ==
    \A i \in DOMAIN pairs : pairs[i][2] # Prim("missing") /\ Value(g, pairs[i][1]) = Value(g, pairs[i][2])

\* A universe is one without the substitution, too.
LEMMA RanksUnbound ==
    ASSUME NEW s, NEW types, NEW m \in Nat, NEW rank, Ranks(s, types, m, rank)
    PROVE  Ranks(<<>>, types, m, rank)
<1>1. ASSUME NEW p \in types, NEW q \in Onward(<<>>, p) PROVE q \in Onward(s, p)
  BY <1>1 DEF Onward
<1> QED  BY <1>1 DEF Ranks

\* The value of a variable, of a bound variable under a solution, and of other types.
LEMMA ValueIs ==
    ASSUME NEW s, NEW types, Universe(s, types), NEW g \in [Variables -> Ground], Agrees(g, s), NEW p \in types
    PROVE  /\ \A v \in Variables : p = Var(v) => Value(g, p) = g[v]
           /\ IsVar(p) /\ p.id \in DOMAIN s => Value(g, p) = Value(g, s[p.id])
           /\ ~IsVar(p) => PartByPart(<<>>, g, p)
<1>1. PICK m, rank : m \in Nat /\ Ranks(s, types, m, rank)
  BY DEF Universe
<1>2. Ranks(<<>>, types, m, rank) /\ MonoType(p, types)
  BY <1>1, RanksUnbound DEF Ranks
<1>3. Recurs(<<>>, g, p)
  BY <1>1, <1>2, ReplacedIs
<1>4. ASSUME NEW v \in Variables, p = Var(v) PROVE Value(g, p) = g[v]
  <2>1. IsVar(p) /\ p.con = "Var" /\ p.id = v /\ v \in DOMAIN g
    BY <1>4 DEF IsVar, Var
  <2> QED  BY <2>1, <1>3 DEF Recurs, Free, Value
<1>5. ASSUME IsVar(p), p.id \in DOMAIN s PROVE Value(g, p) = Value(g, s[p.id])
  <2>1. p.id \in Variables
    BY <1>5 DEF Universe
  <2>2. p = Var(p.id)
    BY <2>1, <1>2, <1>5, MonoTypeIs, IdsApart
  <2> QED  BY <2>1, <2>2, <1>4, <1>5 DEF Agrees
<1>6. ASSUME ~IsVar(p) PROVE PartByPart(<<>>, g, p)
  BY <1>1, <1>2, <1>6, ReplacedParts
<1> QED  BY <1>4, <1>5, <1>6

\* The values of the types of a universe are in a universe.
LEMMA ValueUniverse ==
    ASSUME NEW s, NEW types, Universe(s, types), NEW g \in [Variables -> Ground]
    PROVE  \E values, k, depth : k \in Nat /\ Ranks(<<>>, values, k, depth) /\ \A p \in types : Value(g, p) \in values
<1>1. PICK m, rank : m \in Nat /\ Ranks(<<>>, types, m, rank)
  BY RanksUnbound DEF Universe
<1>2. PICK ground, low : Ground \subseteq ground /\ Ranks(<<>>, ground, Depth, low)
  BY TypesAreFinite, FiniteUniverse
<1>3. \A v \in DOMAIN g : g[v] \in ground
  BY <1>2
<1>4. Depth \in Nat
  BY TypesAreFinite
<1>5. PICK empty : empty = <<>>
  OBVIOUS
<1>6. \E r : Ranks(<<>>, ground \cup Valued(<<>>, g, types), Depth + m + 1, r)
  <2>1. \E r : Ranks(<<>>, ground \cup Valued(empty, g, types), Depth + m + 1, r)
    BY <1>1, <1>2, <1>3, <1>4, <1>5, UniverseReplaced
  <2> QED  BY <2>1, <1>5
<1>7. Depth + m + 1 \in Nat
  BY <1>1, <1>4
<1>8. PICK values : values = ground \cup Valued(<<>>, g, types)
  OBVIOUS
<1>9. \A p \in types : Value(g, p) \in values
  BY <1>8 DEF Value, Valued
<1>10. \E r : Ranks(<<>>, values, Depth + m + 1, r)
  BY <1>6, <1>8
<1> QED  BY <1>7, <1>9, <1>10

\* Under a solution, a type and the type with the substitution applied have one value.
LEMMA ValueApplied ==
    ASSUME NEW s, NEW types, Universe(s, types), NEW more, Universe(s, more),
           types \subseteq more, \A p \in types : Apply(s, p) \in more,
           NEW g \in [Variables -> Ground], Agrees(g, s)
    PROVE  \A p \in types : Value(g, Apply(s, p)) = Value(g, p)
<1>1. PICK m, rank : m \in Nat /\ Ranks(s, types, m, rank)
  BY DEF Universe
<1>2. PICK k, depth : k \in Nat /\ Ranks(<<>>, more, k, depth)
  BY RanksUnbound DEF Universe
<1>3. PICK empty : empty = <<>>
  OBVIOUS
<1>4. Ranks(empty, more, k, depth) /\ DOMAIN empty \subseteq Variables /\ DOMAIN g \subseteq Variables /\ DOMAIN s \subseteq Variables
  BY <1>2, <1>3 DEF Universe
<1>5. ASSUME NEW p \in types, IsVar(p), p.id \in DOMAIN s PROVE Replaced(empty, g, p) = Replaced(empty, g, s[p.id])
  <2>1. Value(g, p) = Value(g, s[p.id])
    BY <1>5, ValueIs
  <2> QED  BY <2>1, <1>3 DEF Value
<1>6. \A p \in types : Replaced(empty, g, Apply(s, p)) = Replaced(empty, g, p)
  BY <1>1, <1>2, <1>4, <1>5, ReplacedTwice
<1> QED  BY <1>3, <1>6 DEF Value

\* The occurs check fails only where there is no solution: a type is larger than its parts.
LEMMA NotInside ==
    ASSUME NEW s, NEW types, Universe(s, types), NEW g \in [Variables -> Ground], Agrees(g, s),
           NEW v \in Variables \ DOMAIN s, NEW t \in types, t # Var(v), IsVar(t) => t.id \notin DOMAIN s,
           g[v] = Value(g, t)
    PROVE  ~OccursIn(s, v, t)
<1> SUFFICES ASSUME NEW p \in Reached(s, t), IsVar(p), p.id = v PROVE FALSE
  BY DEF OccursIn
<1>1. PICK m, rank : m \in Nat /\ Ranks(s, types, m, rank)
  BY DEF Universe
<1>2. PICK values, k, depth : k \in Nat /\ Ranks(<<>>, values, k, depth) /\ \A q \in types : Value(g, q) \in values
  BY ValueUniverse
<1>3. \A q \in types : Value(g, q) \in values /\ depth[Value(g, q)] \in 0 .. k
  BY <1>2 DEF Ranks
<1> DEFINE ts == {q \in types : q = t \/ depth[Value(g, q)] < depth[Value(g, t)]}
<1>4. ASSUME NEW q \in ts \cap types PROVE Onward(s, q) \subseteq ts
  <2> SUFFICES ASSUME NEW o \in Onward(s, q) PROVE o \in ts
    OBVIOUS
  <2>1. o \in types
    BY <1>1 DEF Ranks
  <2>2. CASE IsVar(q)
    <3>1. q.id \in DOMAIN s /\ o = s[q.id] /\ q # t
      BY <2>2 DEF Onward
    <3>2. Value(g, q) = Value(g, o)
      BY <3>1, <2>2, ValueIs
    <3> QED  BY <3>1, <3>2, <2>1
  <2>3. CASE ~IsVar(q)
    <3>1. PICK i \in DOMAIN Inside(q) : o = Inside(q)[i]
      BY <2>3 DEF Onward, Parts
    <3>2. PartByPart(<<>>, g, q)
      BY <2>3, ValueIs
    <3>3. PICK x : x = Value(g, q)
      OBVIOUS
    <3>4. ~IsVar(x) /\ i \in DOMAIN Inside(x) /\ Inside(x)[i] = Value(g, o)
      BY <3>1, <3>2, <3>3 DEF PartByPart, Value
    <3>5. Value(g, o) \in Onward(<<>>, x)
      BY <3>4 DEF Onward, Parts
    <3>6. x \in values
      BY <3>3, <1>3
    <3>7. depth[Value(g, o)] < depth[x]
      BY <3>5, <3>6, <1>2 DEF Ranks
    <3>8. depth[Value(g, q)] <= depth[Value(g, t)]
      BY <1>3
    <3> QED  BY <3>3, <3>7, <3>8, <2>1, <1>3
  <2> QED  BY <2>2, <2>3
<1>5. p \in ts
  <2>1. t \in ts
    OBVIOUS
  <2> HIDE DEF ts
  <2> QED  BY <2>1, <1>1, <1>4, ReachedIs
<1>6. p = Var(v)
  <2>1. MonoType(p, types)
    BY <1>1, <1>5 DEF Ranks
  <2> QED  BY <2>1, MonoTypeIs, IdsApart
<1>7. Value(g, p) = g[v]
  BY <1>5, <1>6, ValueIs
<1> QED  BY <1>3, <1>5, <1>6, <1>7

\* Two types of one value that are no variables go together part by part.
LEMMA PartsKept ==
    ASSUME NEW s, NEW types, Universe(s, types), NEW g \in [Variables -> Ground], Agrees(g, s),
           NEW x \in types, NEW y \in types, ~IsVar(x), ~IsVar(y), Value(g, x) = Value(g, y)
    PROVE  UnifyParts(s, x, y) = GoesOn(s, SubPairs(x, y)) /\ AllEqual(g, SubPairs(x, y))
<1>1. PICK m, rank : m \in Nat /\ Ranks(s, types, m, rank)
  BY DEF Universe
<1>2. MonoType(x, types) /\ MonoType(y, types)
  BY <1>1 DEF Ranks
<1>3. PICK z : z = Value(g, x)
  OBVIOUS
<1>4. PartByPart(<<>>, g, x) /\ PartByPart(<<>>, g, y)
  BY ValueIs
<1>5. /\ z.con = x.con /\ z.con = y.con
      /\ (x.con = "Tag" => z.name = x.name) /\ (y.con = "Tag" => z.name = y.name)
      /\ Inside(z) = [i \in DOMAIN Inside(x) |-> Value(g, Inside(x)[i])]
      /\ Inside(z) = [i \in DOMAIN Inside(y) |-> Value(g, Inside(y)[i])]
  BY <1>3, <1>4 DEF PartByPart, Value
<1>6. DOMAIN Inside(x) = DOMAIN Inside(y) /\ \A i \in DOMAIN Inside(x) : Value(g, Inside(x)[i]) = Value(g, Inside(y)[i])
  BY <1>5
<1>7. x.con # "Record" => Len(x.args) = Len(y.args)
  <2> SUFFICES ASSUME x.con # "Record" PROVE Len(x.args) = Len(y.args)
    OBVIOUS
  <2>1. Inside(x) = x.args /\ Inside(y) = y.args /\ x.args \in Seq(types) /\ y.args \in Seq(types)
    BY <1>2, <1>5, InsideIs DEF Inside
  <2> QED  BY <2>1, <1>6
<1>8. UnifyParts(s, x, y) = GoesOn(s, SubPairs(x, y))
  BY <1>5, <1>7 DEF UnifyParts
<1>9. AllEqual(g, SubPairs(x, y))
  <2> SUFFICES ASSUME NEW i \in DOMAIN SubPairs(x, y)
               PROVE  /\ SubPairs(x, y)[i][2] # Prim("missing")
                      /\ Value(g, SubPairs(x, y)[i][1]) = Value(g, SubPairs(x, y)[i][2])
    BY DEF AllEqual
  <2>1. PICK at, l, r : at = Order(x, y)[i] /\ l = SubPairs(x, y)[i][1] /\ r = SubPairs(x, y)[i][2]
    OBVIOUS
  <2>2. at \in DOMAIN Inside(x) /\ l = Inside(x)[at] /\ r = Inside(y)[at]
    <3>1. PairAt(x, y, i)
      BY <1>2, <1>5, SubPairsIs
    <3> QED  BY <3>1, <2>1, <1>6 DEF PairAt
  <2>3. r \in Parts(y)
    BY <2>2, <1>6 DEF Parts
  <2>4. r \in types
    BY <2>3, <1>2, MonoTypeIs
  <2>5. MonoType(r, types)
    BY <2>4, <1>1 DEF Ranks
  <2>6. r # Prim("missing")
    BY <2>5, MissingIs
  <2> QED  BY <2>1, <2>2, <2>6, <1>6
<1> QED  BY <1>8, <1>9

\* Unify of one pair keeps a solution that solves the pair.
LEMMA PairKept ==
    ASSUME NEW s, NEW types, Universe(s, types), NEW g \in [Variables -> Ground], Agrees(g, s),
           NEW a \in types, NEW b \in types, Value(g, a) = Value(g, b),
           NEW more, NEW r, Taken(s, types, more, a, b, r)
    PROVE  r.err = "none" /\ Agrees(g, r.sub) /\ AllEqual(g, r.todo)
<1>1. /\ types \subseteq more /\ \A p \in types : Apply(s, p) \in more
      /\ Universe(s, more) /\ Outcome(s, more, Apply(s, a), Apply(s, b), r)
  BY DEF Taken
<1>2. PICK x, y : x = Apply(s, a) /\ y = Apply(s, b)
  OBVIOUS
<1>3. x \in more /\ y \in more /\ Outcome(s, more, x, y, r)
  BY <1>1, <1>2
<1>4. Value(g, x) = Value(g, y)
  BY <1>1, <1>2, ValueApplied
<1>5. CASE r = Done(s)
  BY <1>5 DEF Done, GoesOn, AllEqual
<1>6. ASSUME NEW v \in Variables \ DOMAIN s, NEW t \in more, t # Var(v),
             <<x, y>> \in {<<Var(v), t>>, <<t, Var(v)>>}, r = Bound(s, v, t)
      PROVE  r.err = "none" /\ Agrees(g, r.sub) /\ AllEqual(g, r.todo)
  <2>1. (x = Var(v) /\ y = t) \/ (x = t /\ y = Var(v))
    BY <1>6
  <2>2. g[v] = Value(g, t)
    <3>1. Var(v) \in more
      BY <2>1, <1>3
    <3>2. Value(g, Var(v)) = g[v]
      BY <3>1, <1>1, ValueIs
    <3> QED  BY <3>2, <2>1, <1>4
  <2>3. IsVar(t) => t.id \notin DOMAIN s
    <3>1. PICK m, rank : m \in Nat /\ Ranks(s, types, m, rank)
      BY DEF Universe
    <3>2. t \in {Apply(s, a), Apply(s, b)}
      BY <2>1, <1>2
    <3>3. IsVar(t) => \E w \in Variables : t = Var(w) /\ w \notin DOMAIN s
      BY <3>1, <3>2, AppliedVars
    <3> QED  BY <3>3 DEF Var
  <2>4. ~OccursIn(s, v, t)
    BY <2>2, <2>3, <1>1, <1>6, NotInside
  <2>5. r.err = "none" /\ r.sub = Insert(s, v, t) /\ r.todo = <<>>
    BY <2>4, <1>6 DEF Bound, Done, GoesOn
  <2>6. Agrees(g, Insert(s, v, t))
    BY <2>2 DEF Agrees, Insert
  <2> QED  BY <2>5, <2>6 DEF AllEqual
<1>7. ASSUME ~IsVar(x), ~IsVar(y), r = UnifyParts(s, x, y)
      PROVE  r.err = "none" /\ Agrees(g, r.sub) /\ AllEqual(g, r.todo)
  <2>1. r = GoesOn(s, SubPairs(x, y)) /\ AllEqual(g, SubPairs(x, y))
    BY <1>1, <1>3, <1>4, <1>7, PartsKept
  <2> QED  BY <2>1 DEF GoesOn
<1> QED  BY <1>3, <1>5, <1>6, <1>7 DEF Outcome

\* What holds of every solution while a call is under way.
Kept(g) == err = "none" /\ Agrees(g, sub) /\ AllEqual(g, work)
SolutionsKept == \A g \in Solutions : Kept(g)

\* A solution of what is asked from now on solves what has been asked before.
LEMMA AskKept ==
    ASSUME SolutionsKept, NEW types, Within(types), NEW a, NEW b, Ask(a, b), FiniteType(b)
    PROVE  SolutionsKept'
<1> SUFFICES ASSUME NEW g \in Solutions' PROVE Kept(g)'
  BY DEF SolutionsKept
<1>1. asked \in Seq(types \X types) /\ asked' = Append(asked, <<a, b>>) /\ work' = <<<<a, b>>>> /\ sub' = sub /\ err' = err
  BY DEF Within, Ask, Begun
<1>2. PICK n \in Nat : n = Len(asked) /\ DOMAIN asked = 1 .. n
  BY <1>1
<1>3. DOMAIN asked' = 1 .. n + 1 /\ asked'[n + 1] = <<a, b>> /\ \A i \in 1 .. n : asked'[i] = asked[i]
  BY <1>1, <1>2
<1>4. g \in [Variables -> Ground] /\ \A i \in DOMAIN asked' : Value(g, asked'[i][1]) = Value(g, asked'[i][2])
  BY DEF Solutions
<1>5. \A i \in DOMAIN asked : i \in DOMAIN asked' /\ asked'[i] = asked[i]
  BY <1>2, <1>3
<1>6. g \in Solutions
  BY <1>4, <1>5 DEF Solutions
<1>7. Value(g, a) = Value(g, b)
  <2>1. n + 1 \in DOMAIN asked'
    BY <1>3
  <2> QED  BY <2>1, <1>3, <1>4
<1>8. b # Prim("missing")
  <2>1. MonoType(b, Reached(<<>>, b))
    BY DEF FiniteType
  <2> QED  BY <2>1, MissingIs
<1>9. AllEqual(g, work')
  BY <1>1, <1>7, <1>8 DEF AllEqual
<1>10. err = "none" /\ Agrees(g, sub)
  BY <1>6 DEF SolutionsKept, Kept
<1> QED  BY <1>1, <1>9, <1>10 DEF Kept

\* A step of unify loses no solution.
LEMMA TakeKept ==
    ASSUME SolutionsKept, NEW types, Within(types), Take
    PROVE  SolutionsKept'
<1>1. PICK a, b : a = Head(work)[1] /\ b = Head(work)[2]
  OBVIOUS
<1>2. /\ UNCHANGED asked /\ Head(work) = <<a, b>> /\ a \in types /\ Tail(work) \in Seq(Pairs(types))
      /\ \/ b = Prim("missing")
         \/ b \in types /\ \E more, r : Taken(sub, types, more, a, b, r)
              /\ sub' = r.sub /\ work' = r.todo \o Tail(work) /\ err' = r.err
  BY <1>1, TakeIs
<1> SUFFICES ASSUME NEW g \in Solutions' PROVE Kept(g)'
  BY DEF SolutionsKept
<1>3. g \in Solutions /\ g \in [Variables -> Ground]
  BY <1>2 DEF Solutions
<1>4. err = "none" /\ Agrees(g, sub) /\ AllEqual(g, work)
  BY <1>3 DEF SolutionsKept, Kept
<1>5. work \in Seq(Pairs(types)) /\ work # <<>>
  BY DEF Within, Take
<1>6. PICK rest : rest = Tail(work)
  OBVIOUS
<1>7. PICK k \in Nat : DOMAIN rest = 1 .. k /\ \A i \in 1 .. k : i + 1 \in DOMAIN work /\ rest[i] = work[i + 1]
  BY <1>5, <1>6
<1>8. AllEqual(g, rest)
  BY <1>4, <1>7 DEF AllEqual
<1>9. b # Prim("missing") /\ Value(g, a) = Value(g, b)
  <2>1. 1 \in DOMAIN work /\ work[1] = <<a, b>>
    BY <1>2, <1>5
  <2> QED  BY <2>1, <1>4 DEF AllEqual
<1>10. PICK more, r : Taken(sub, types, more, a, b, r) /\ sub' = r.sub /\ work' = r.todo \o rest /\ err' = r.err
  BY <1>2, <1>6, <1>9
<1>11. r.err = "none" /\ Agrees(g, r.sub) /\ AllEqual(g, r.todo)
  BY <1>2, <1>3, <1>4, <1>9, <1>10, PairKept DEF Within
<1>12. AllEqual(g, r.todo \o rest)
  <2>1. r.todo \in Seq(Pairs(more)) /\ rest \in Seq(Pairs(types))
    BY <1>2, <1>6, <1>10 DEF Taken
  <2>2. PICK q : q = r.todo
    OBVIOUS
  <2>4. q \in Seq(Pairs(more))
    BY <2>1, <2>2
  <2>3. ASSUME NEW i \in DOMAIN (q \o rest)
        PROVE  (i \in DOMAIN q /\ (q \o rest)[i] = q[i]) \/ (\E j \in DOMAIN rest : (q \o rest)[i] = rest[j])
    BY <2>1, <2>4
  <2> QED  BY <2>2, <2>3, <1>8, <1>11 DEF AllEqual
<1> QED  BY <1>10, <1>11, <1>12 DEF Kept

\* A solution of what unify has been asked is never lost, so it fails only
\* where there is none, and binds no variable more tightly than it must.
THEOREM SubstitutionIsMostGeneral == UnificationSpec => []MostGeneral
<1>1. NoCalls => SolutionsKept
  <2> SUFFICES ASSUME NoCalls, NEW g \in Solutions PROVE Kept(g)
    BY DEF SolutionsKept
  <2>1. sub = <<>> /\ work = <<>> /\ err = "none"
    BY DEF NoCalls
  <2>2. DOMAIN sub = {} /\ DOMAIN work = {}
    BY <2>1
  <2> QED  BY <2>1, <2>2 DEF Kept, Agrees, AllEqual
<1>2. IInv /\ SolutionsKept /\ [NextCall]_unifyVars => SolutionsKept'
  <2> SUFFICES ASSUME NEW types, Within(types), SolutionsKept, [NextCall]_unifyVars PROVE SolutionsKept'
    BY DEF IInv
  <2>1. ASSUME NEW call \in Calls[Len(asked) + 1], Len(asked) < Len(Calls), Ask(call[1], call[2]) PROVE SolutionsKept'
    <3>1. Len(asked) + 1 \in DOMAIN Calls
      BY <2>1, TypesAreFinite DEF Within
    <3>2. FiniteType(call[2])
      BY <3>1, TypesAreFinite
    <3> QED  BY <3>2, <2>1, AskKept
  <2>2. CASE Take
    BY <2>2, TakeKept
  <2>3. CASE UNCHANGED unifyVars
    <3>1. sub' = sub /\ work' = work /\ asked' = asked /\ err' = err
      BY <2>3 DEF unifyVars
    <3>2. Solutions' = Solutions
      BY <3>1 DEF Solutions
    <3>3. ASSUME NEW g \in Solutions PROVE Kept(g)'
      <4>1. Kept(g)
        BY DEF SolutionsKept
      <4> QED  BY <4>1, <3>1 DEF Kept
    <3> QED  BY <3>2, <3>3 DEF SolutionsKept
  <2> QED  BY <2>1, <2>2, <2>3 DEF NextCall
<1>3. SolutionsKept => MostGeneral
  BY DEF SolutionsKept, Kept, Agrees, MostGeneral
<1> QED  BY <1>1, <1>2, <1>3, NoCallsWithin, NextCallWithin, PTL DEF UnificationSpec
-----------------------------------------------------------------------------
(* Equations that are solved. *)

\* The recursion of Fits, of two types of a universe.
FitsAsParts(a, b) == \A i \in DOMAIN SubPairs(a, b) : Fits(SubPairs(a, b)[i][1], SubPairs(a, b)[i][2])

\* Parts that are compared are parts of both, when the two are alike.
LEMMA AlikeParts ==
    ASSUME NEW types, NEW a, NEW b, MonoType(a, types), MonoType(b, types), Alike(a, b),
           NEW i \in DOMAIN SubPairs(a, b)
    PROVE  /\ SubPairs(a, b)[i] = <<SubPairs(a, b)[i][1], SubPairs(a, b)[i][2]>>
           /\ SubPairs(a, b)[i][1] \in Parts(a) /\ SubPairs(a, b)[i][2] \in Parts(b)
<1>1. ~IsVar(a) /\ ~IsVar(b) /\ a.con = b.con
  BY DEF Alike
<1>2. /\ SubPairs(a, b) \in Seq(types \X (types \cup {Prim("missing")}))
      /\ DOMAIN SubPairs(a, b) = DOMAIN Order(a, b) /\ PairAt(a, b, i)
  BY <1>1, SubPairsIs
<1>3. SubPairs(a, b)[i] \in types \X (types \cup {Prim("missing")})
  BY <1>2
<1>4. PICK at : at = Order(a, b)[i]
  OBVIOUS
<1>5. at \in DOMAIN Inside(b)
  <2>1. CASE a.con = "Record"
    <3>1. at \in DOMAIN a.fields
      BY <2>1, <1>2, <1>4 DEF PairAt, Inside
    <3> QED  BY <3>1, <2>1, <1>1 DEF Alike, Inside
  <2>2. CASE a.con # "Record"
    <3>1. Inside(a) = a.args /\ Inside(b) = b.args /\ a.args \in Seq(types) /\ b.args \in Seq(types)
      BY <2>2, <1>1, InsideIs DEF Inside
    <3>2. PICK k \in Nat, l \in Nat : k = Len(a.args) /\ l = Len(b.args)
      BY <3>1
    <3>3. PICK n \in Nat : n = SeqMin(k, l) /\ n <= k /\ n <= l
      BY DEF SeqMin
    <3>4. Order(a, b) = [j \in 1 .. n |-> j]
      BY <2>2, <3>2, <3>3 DEF Order
    <3>5. i \in 1 .. n /\ at = i
      BY <3>4, <1>2, <1>4
    <3>6. DOMAIN b.args = 1 .. l
      BY <3>1, <3>2
    <3> QED  BY <3>1, <3>3, <3>5, <3>6
  <2> QED  BY <2>1, <2>2
<1>6. SubPairs(a, b)[i][1] \in Parts(a) /\ SubPairs(a, b)[i][2] = Inside(b)[at]
  BY <1>2, <1>4, <1>5 DEF PairAt
<1> QED  BY <1>3, <1>5, <1>6 DEF Parts

\* Fits is what its recursive definition says, at all types of a universe.
LEMMA FitsIs ==
    ASSUME NEW types, NEW m \in Nat, NEW rank, Ranks(<<>>, types, m, rank), NEW a \in types, NEW b \in types
    PROVE  Fits(a, b) <=> a = b \/ (Alike(a, b) /\ FitsAsParts(a, b))
<1> DEFINE Body(h, e) == \/ e[1] = e[2]
                         \/ Alike(e[1], e[2]) /\ \A i \in DOMAIN SubPairs(e[1], e[2]) : h[SubPairs(e[1], e[2])[i]]
           R(h, es) == h = [e \in es |-> Body(h, e)]
           Both(u, v) == Reached(<<>>, u) \X Reached(<<>>, v)
           Whole(u, v) == CHOOSE h : R(h, Both(u, v))
           SameParts(h, f, x, y) == \A p \in Parts(x), q \in Parts(y) :
                                       ~IsVar(x) /\ ~IsVar(y) => h[<<p, q>>] = f[<<p, q>>]
<1>1. \A u, v : Fits(u, v) = Whole(u, v)[<<u, v>>]
  BY DEF Fits
<1>2. ASSUME NEW h, NEW f, NEW x \in types, NEW y \in types, SameParts(h, f, x, y)
      PROVE  Body(h, <<x, y>>) = Body(f, <<x, y>>)
  <2>1. MonoType(x, types) /\ MonoType(y, types)
    BY DEF Ranks
  <2>2. CASE Alike(x, y)
    <3>1. ASSUME NEW i \in DOMAIN SubPairs(x, y) PROVE h[SubPairs(x, y)[i]] = f[SubPairs(x, y)[i]]
      <4>1. PICK p \in Parts(x), q \in Parts(y) : SubPairs(x, y)[i] = <<p, q>>
        BY <2>1, <2>2, AlikeParts
      <4>2. ~IsVar(x) /\ ~IsVar(y)
        BY <2>2 DEF Alike
      <4> QED  BY <4>1, <4>2, <1>2
    <3> QED  BY <3>1
  <2>3. CASE ~Alike(x, y)
    BY <2>3
  <2> QED  BY <2>2, <2>3
<1>3. ASSUME NEW u \in types
      PROVE  /\ u \in Reached(<<>>, u) /\ Reached(<<>>, u) \subseteq types
             /\ \A p \in Reached(<<>>, u) : Onward(<<>>, p) \subseteq Reached(<<>>, u)
  BY ReachedIs
<1>4. /\ \A p \in types : rank[p] \in 0 .. m
      /\ \A p \in types : \A q \in Onward(<<>>, p) : q \in types /\ rank[q] < rank[p]
  BY DEF Ranks
<1> HIDE DEF Body, SameParts
<1>5. ASSUME NEW u \in types, NEW v \in types PROVE \E h : R(h, Both(u, v))
  <2> DEFINE D(n) == {e \in Both(u, v) : rank[e[1]] < n}
             T == {n \in Nat : \E h : R(h, D(n))}
  <2>1. 0 \in T
    <3>1. D(0) = {}
      BY <1>3, <1>4
    <3>2. R([p \in {} |-> p], D(0))
      BY <3>1
    <3> QED  BY <3>2
  <2>2. ASSUME NEW n \in Nat, n \in T PROVE n + 1 \in T
    <3>1. PICK h : R(h, D(n))
      BY <2>2
    <3>2. PICK f : f = [e \in D(n + 1) |-> Body(h, e)]
      OBVIOUS
    <3>3. ASSUME NEW e \in D(n + 1) PROVE Body(f, e) = Body(h, e)
      <4>1. PICK x \in Reached(<<>>, u), y \in Reached(<<>>, v) : e = <<x, y>> /\ rank[x] < n + 1
        OBVIOUS
      <4>2. ASSUME NEW p \in Parts(x), NEW q \in Parts(y), ~IsVar(x), ~IsVar(y)
            PROVE  f[<<p, q>>] = h[<<p, q>>]
        <5>1. p \in Onward(<<>>, x) /\ q \in Onward(<<>>, y)
          BY <4>2 DEF Onward
        <5>2. p \in Reached(<<>>, u) /\ q \in Reached(<<>>, v) /\ rank[p] < rank[x] /\ rank[p] \in 0 .. m /\ rank[x] \in 0 .. m
          BY <5>1, <1>3, <1>4
        <5>3. <<p, q>> \in D(n) /\ <<p, q>> \in D(n + 1)
          BY <5>2, <4>1
        <5> QED  BY <5>3, <3>1, <3>2
      <4>3. x \in types /\ y \in types
        BY <1>3
      <4>4. SameParts(f, h, x, y)
        BY <4>2 DEF SameParts
      <4> QED  BY <4>1, <4>3, <4>4, <1>2
    <3>4. R(f, D(n + 1))
      BY <3>2, <3>3
    <3>5. \E z : R(z, D(n + 1))
      <4> HIDE DEF R, D
      <4> QED  BY <3>4
    <3>6. n + 1 \in Nat
      OBVIOUS
    <3> QED  BY <3>5, <3>6
  <2> HIDE DEF T
  <2>3. Nat \subseteq T
    BY <2>1, <2>2, Induction
  <2>4. m + 1 \in T
    BY <2>3
  <2>5. D(m + 1) = Both(u, v)
    BY <1>3, <1>4
  <2> QED  BY <2>4, <2>5 DEF T
<1>6. ASSUME NEW u \in types, NEW v \in types, NEW e \in Both(u, v) PROVE Whole(u, v)[e] = Body(Whole(u, v), e)
  <2>1. R(Whole(u, v), Both(u, v))
    BY <1>5
  <2> QED  BY <2>1
<1> HIDE DEF Whole
<1> DEFINE Same(e) == \A u \in types, v \in types, w \in types, z \in types :
                         e \in Both(u, v) \cap Both(w, z) => Whole(u, v)[e] = Whole(w, z)[e]
           T == {p \in types : \A q \in types : Same(<<p, q>>)}
<1>7. ASSUME NEW p \in types, \A q \in Onward(<<>>, p) : q \in T PROVE p \in T
  <2> SUFFICES ASSUME NEW q \in types, NEW u \in types, NEW v \in types, NEW w \in types, NEW z \in types,
                      <<p, q>> \in Both(u, v) \cap Both(w, z)
               PROVE  Whole(u, v)[<<p, q>>] = Whole(w, z)[<<p, q>>]
    OBVIOUS
  <2>1. ASSUME NEW o \in Parts(p), NEW l \in Parts(q), ~IsVar(p), ~IsVar(q)
        PROVE  Whole(u, v)[<<o, l>>] = Whole(w, z)[<<o, l>>]
    <3>1. o \in Onward(<<>>, p) /\ l \in Onward(<<>>, q)
      BY <2>1 DEF Onward
    <3>2. <<o, l>> \in Both(u, v) \cap Both(w, z)
      BY <3>1, <1>3
    <3>3. o \in T /\ l \in types
      BY <3>1, <1>4, <1>7
    <3> QED  BY <3>2, <3>3
  <2>2. SameParts(Whole(u, v), Whole(w, z), p, q)
    BY <2>1 DEF SameParts
  <2>3. Body(Whole(u, v), <<p, q>>) = Body(Whole(w, z), <<p, q>>)
    BY <2>2, <1>2
  <2> QED  BY <2>3, <1>6
<1>8. types \subseteq T
  <2> HIDE DEF T
  <2> QED  BY <1>7, RankInduction
<1>9. ASSUME NEW p \in Parts(a), NEW q \in Parts(b), ~IsVar(a), ~IsVar(b)
      PROVE  Whole(a, b)[<<p, q>>] = Fits(p, q)
  <2>1. p \in Onward(<<>>, a) /\ q \in Onward(<<>>, b)
    BY <1>9 DEF Onward
  <2>2. p \in types /\ q \in types /\ <<p, q>> \in Both(a, b) /\ <<p, q>> \in Both(p, q)
    BY <2>1, <1>3, <1>4
  <2>3. Whole(a, b)[<<p, q>>] = Whole(p, q)[<<p, q>>]
    BY <2>2, <1>8
  <2> QED  BY <2>3, <1>1
<1>10. Fits(a, b) = Body(Whole(a, b), <<a, b>>)
  <2>1. <<a, b>> \in Both(a, b)
    BY <1>3
  <2> QED  BY <2>1, <1>1, <1>6
<1>11. MonoType(a, types) /\ MonoType(b, types)
  BY DEF Ranks
<1>12. CASE Alike(a, b)
  <2>1. ASSUME NEW i \in DOMAIN SubPairs(a, b)
        PROVE  Whole(a, b)[SubPairs(a, b)[i]] = Fits(SubPairs(a, b)[i][1], SubPairs(a, b)[i][2])
    <3>1. PICK p \in Parts(a), q \in Parts(b) : SubPairs(a, b)[i] = <<p, q>> /\ p = SubPairs(a, b)[i][1] /\ q = SubPairs(a, b)[i][2]
      BY <1>11, <1>12, AlikeParts
    <3>2. ~IsVar(a) /\ ~IsVar(b)
      BY <1>12 DEF Alike
    <3> QED  BY <3>1, <3>2, <1>9
  <2>2. Body(Whole(a, b), <<a, b>>) <=> (a = b \/ FitsAsParts(a, b))
    BY <2>1, <1>12 DEF Body, FitsAsParts
  <2> QED  BY <2>2, <1>10, <1>12
<1>13. CASE ~Alike(a, b)
  <2>1. Body(Whole(a, b), <<a, b>>) <=> a = b
    BY <1>13 DEF Body
  <2> QED  BY <2>1, <1>10, <1>13
<1> QED  BY <1>12, <1>13

\* Two types that unify goes on with part by part.
SameHead(x, y) == /\ ~IsVar(x) /\ ~IsVar(y) /\ x.con = y.con
                  /\ x.con = "Tag" => x.name = y.name
                  /\ x.con \in {"Func", "Array", "Effect"} => Len(x.args) = Len(y.args)

\* An equation is settled that holds already, or holds as soon as those that
\* unify has gone on with do; all has these.
Settled(s, types, all, d) ==
    \/ Apply(s, d[1]) = Apply(s, d[2])
    \/ \E x \in types, y \in types :
          /\ SameHead(x, y) /\ Apply(s, d[1]) = Apply(s, x) /\ Apply(s, d[2]) = Apply(s, y)
          /\ \A i \in DOMAIN SubPairs(x, y) : SubPairs(x, y)[i] \in all

\* To apply the substitution and then a later one is to apply the later one.
LEMMA AppliedLater ==
    ASSUME NEW s, NEW types, Universe(s, types), NEW more, NEW a, NEW b, NEW r, Taken(s, types, more, a, b, r)
    PROVE  \A p \in types : Apply(r.sub, Apply(s, p)) = Apply(r.sub, p)
<1>1. PICK s2 : s2 = r.sub
  OBVIOUS
<1>2. /\ types \subseteq more /\ \A p \in types : Apply(s, p) \in more
      /\ Universe(s2, more) /\ Outcome(s, more, Apply(s, a), Apply(s, b), r)
  BY <1>1 DEF Taken
<1>3. \A v \in DOMAIN s : v \in DOMAIN s2 /\ s2[v] = s[v]
  <2>1. CASE r.sub = s
    BY <2>1, <1>1
  <2>2. CASE \E v, t : v \notin DOMAIN s /\ r.sub = Insert(s, v, t)
    BY <2>2, <1>1 DEF Insert
  <2>3. CASE r = Done(s)
    BY <2>1, <2>3 DEF Done, GoesOn
  <2>4. ASSUME NEW v \in Variables \ DOMAIN s, NEW t, r = Bound(s, v, t)
        PROVE  r.sub = s \/ r.sub = Insert(s, v, t)
    BY <2>4 DEF Bound, Fail, Done, GoesOn
  <2>5. ASSUME NEW x, NEW y, r = UnifyParts(s, x, y) PROVE r.sub = s
    BY <2>5 DEF UnifyParts, Fail, GoesOn
  <2> QED  BY <2>1, <2>2, <2>3, <2>4, <2>5, <1>2 DEF Outcome
<1>4. PICK m, rank, k, depth : m \in Nat /\ k \in Nat /\ Ranks(s, types, m, rank) /\ Ranks(s2, more, k, depth)
  BY <1>2 DEF Universe
<1>5. PICK g : g = <<>>
  OBVIOUS
<1>6. DOMAIN g \subseteq Variables /\ DOMAIN s \subseteq Variables /\ DOMAIN s2 \subseteq Variables
  BY <1>2, <1>5 DEF Universe
<1>7. ASSUME NEW p \in types, IsVar(p), p.id \in DOMAIN s PROVE Replaced(s2, g, p) = Replaced(s2, g, s[p.id])
  <2>1. Recurs(s2, g, p)
    BY <1>2, <1>4, ReplacedIs
  <2> QED  BY <2>1, <1>3, <1>7 DEF Recurs
<1>8. \A p \in types : Replaced(s2, g, Apply(s, p)) = Replaced(s2, g, p)
  BY <1>2, <1>4, <1>6, <1>7, ReplacedTwice
<1> QED  BY <1>1, <1>5, <1>8 DEF Apply

\* What is settled stays so.
LEMMA SettledLater ==
    ASSUME NEW s, NEW types, Universe(s, types), NEW more, NEW a, NEW b, NEW r, Taken(s, types, more, a, b, r),
           NEW all, NEW later, all \subseteq later, NEW d \in types \X types, Settled(s, types, all, d)
    PROVE  Settled(r.sub, more, later, d)
<1>1. PICK s2 : s2 = r.sub
  OBVIOUS
<1>2. \A p \in types : Apply(s2, Apply(s, p)) = Apply(s2, p)
  BY <1>1, AppliedLater
<1>3. types \subseteq more
  BY DEF Taken
<1>4. PICK l, m : l = d[1] /\ m = d[2] /\ l \in types /\ m \in types
  OBVIOUS
<1>5. CASE Apply(s, l) = Apply(s, m)
  <2>1. Apply(s2, l) = Apply(s2, m)
    BY <1>2, <1>4, <1>5
  <2> QED  BY <2>1, <1>1, <1>4 DEF Settled
<1>6. ASSUME NEW x \in types, NEW y \in types,
             SameHead(x, y), Apply(s, l) = Apply(s, x), Apply(s, m) = Apply(s, y),
             \A i \in DOMAIN SubPairs(x, y) : SubPairs(x, y)[i] \in all
      PROVE  Settled(r.sub, more, later, d)
  <2>1. Apply(s2, l) = Apply(s2, x) /\ Apply(s2, m) = Apply(s2, y)
    BY <1>2, <1>4, <1>6
  <2>2. x \in more /\ y \in more /\ \A i \in DOMAIN SubPairs(x, y) : SubPairs(x, y)[i] \in later
    BY <1>3, <1>6
  <2> QED  BY <2>1, <2>2, <1>1, <1>4, <1>6 DEF Settled
<1> QED  BY <1>4, <1>5, <1>6 DEF Settled

\* An equation that unify has taken is settled.
LEMMA PairSettled ==
    ASSUME NEW s, NEW types, Universe(s, types), NEW a \in types, NEW b \in types,
           NEW more, NEW r, Taken(s, types, more, a, b, r), r.err = "none",
           NEW all, \A i \in DOMAIN r.todo : r.todo[i] \in all
    PROVE  Settled(r.sub, more, all, <<a, b>>)
<1>1. PICK s2, x, y : s2 = r.sub /\ x = Apply(s, a) /\ y = Apply(s, b)
  OBVIOUS
<1>2. x \in more /\ y \in more /\ Universe(s2, more) /\ Outcome(s, more, x, y, r)
  BY <1>1 DEF Taken
<1>3. Apply(s2, x) = Apply(s2, a) /\ Apply(s2, y) = Apply(s2, b)
  BY <1>1, AppliedLater
<1>4. Apply(s2, x) = Apply(s2, y) => Settled(s2, more, all, <<a, b>>)
  BY <1>3 DEF Settled
<1>5. CASE x = y
  BY <1>1, <1>4, <1>5
<1>6. ASSUME NEW v \in Variables \ DOMAIN s, NEW t \in more,
             <<x, y>> \in {<<Var(v), t>>, <<t, Var(v)>>}, r = Bound(s, v, t)
      PROVE  Apply(s2, x) = Apply(s2, y)
  <2>1. (x = Var(v) /\ y = t) \/ (x = t /\ y = Var(v))
    BY <1>6
  <2>2. s2 = Insert(s, v, t)
    BY <1>1, <1>6 DEF Bound, Fail, Done, GoesOn
  <2>3. PICK z : z = Var(v)
    OBVIOUS
  <2>4. z \in more
    BY <2>1, <2>3, <1>2
  <2>5. PICK k, depth : k \in Nat /\ Ranks(s2, more, k, depth)
    BY <1>2 DEF Universe
  <2>6. Recurs(s2, <<>>, z)
    BY <2>4, <2>5, ReplacedIs
  <2>7. IsVar(z) /\ z.id = v
    BY <2>3 DEF Var, IsVar
  <2>8. v \in DOMAIN s2 /\ s2[v] = t
    BY <2>2 DEF Insert
  <2>9. Apply(s2, z) = Apply(s2, t)
    BY <2>6, <2>7, <2>8 DEF Recurs, Apply
  <2> QED  BY <2>1, <2>3, <2>9
<1>7. ASSUME ~IsVar(x), ~IsVar(y), r = UnifyParts(s, x, y)
      PROVE  Settled(s2, more, all, <<a, b>>)
  <2>1. /\ r = GoesOn(s, SubPairs(x, y)) /\ x.con = y.con /\ ~(x.con = "Tag" /\ x.name # y.name)
        /\ ~(x.con = "Func" /\ Len(x.args) # Len(y.args))
    BY <1>7 DEF UnifyParts, Fail
  <2>2. ASSUME x.con \in {"Array", "Effect"} PROVE Len(x.args) = Len(y.args)
    <3>1. MonoType(x, more) /\ MonoType(y, more)
      BY <1>2 DEF Universe, Ranks
    <3>2. ASSUME NEW z, MonoType(z, more), z.con \in {"Array", "Effect"} PROVE Len(z.args) = 1
      <4>1. z \in [con : {"Array", "Effect"}, args : [1 .. 1 -> more]]
        BY <3>2 DEF MonoType, Primitives, Ints
      <4>2. PICK q : q = z.args
        OBVIOUS
      <4>3. q \in [1 .. 1 -> more]
        BY <4>1, <4>2
      <4>4. q \in Seq(more)
        BY <4>3, SeqDef
      <4> QED  BY <4>2, <4>3, <4>4
    <3> QED  BY <3>1, <3>2, <2>1, <2>2
  <2>3. SameHead(x, y)
    BY <2>1, <2>2, <1>7 DEF SameHead
  <2>4. \A i \in DOMAIN SubPairs(x, y) : SubPairs(x, y)[i] \in all
    BY <2>1 DEF GoesOn
  <2> QED  BY <2>3, <2>4, <1>2, <1>3 DEF Settled
<1> QED  BY <1>1, <1>2, <1>4, <1>5, <1>6, <1>7 DEF Outcome

\* The pairs of two types come from equations in D.
PairsApplied(s, D, z, u) == \A i \in DOMAIN SubPairs(z, u) : \E d \in D :
    SubPairs(z, u)[i][1] = Apply(s, d[1]) /\ SubPairs(z, u)[i][2] = Apply(s, d[2])

\* Two types with the same head that unify has gone on with are alike once the
\* substitution is applied, and go on with the same equations.
LEMMA AppliedPairs ==
    ASSUME NEW s, NEW types, Universe(s, types), NEW x \in types, NEW y \in types, SameHead(x, y),
           NEW D, D \subseteq types \X types, \A i \in DOMAIN SubPairs(x, y) : SubPairs(x, y)[i] \in D,
           NEW z, z = Apply(s, x), NEW u, u = Apply(s, y),
           NEW all, MonoType(z, all), MonoType(u, all)
    PROVE  Alike(z, u) /\ PairsApplied(s, D, z, u)
<1>1. PICK m, rank : m \in Nat /\ Ranks(s, types, m, rank)
  BY DEF Universe
<1>2. MonoType(x, types) /\ MonoType(y, types) /\ ~IsVar(x) /\ ~IsVar(y) /\ x.con = y.con
  BY <1>1 DEF Ranks, SameHead
<1>3. PartByPart(s, <<>>, x) /\ PartByPart(s, <<>>, y)
  BY <1>1, <1>2, ReplacedParts
<1>4. /\ ~IsVar(z) /\ ~IsVar(u) /\ z.con = x.con /\ u.con = y.con
      /\ (x.con = "Tag" => z.name = x.name) /\ (y.con = "Tag" => u.name = y.name)
      /\ Inside(z) = [i \in DOMAIN Inside(x) |-> Apply(s, Inside(x)[i])]
      /\ Inside(u) = [i \in DOMAIN Inside(y) |-> Apply(s, Inside(y)[i])]
  BY <1>3 DEF PartByPart, Apply
<1>5. DOMAIN Inside(z) = DOMAIN Inside(x) /\ DOMAIN Inside(u) = DOMAIN Inside(y)
  BY <1>4
<1>6. ASSUME NEW i \in DOMAIN SubPairs(x, y)
      PROVE  /\ Order(x, y)[i] \in DOMAIN Inside(x) /\ Order(x, y)[i] \in DOMAIN Inside(y)
             /\ SubPairs(x, y)[i][1] = Inside(x)[Order(x, y)[i]]
             /\ SubPairs(x, y)[i][2] = Inside(y)[Order(x, y)[i]]
  <2>1. PairAt(x, y, i)
    BY <1>2, SubPairsIs
  <2>2. MonoType(SubPairs(x, y)[i][2], types)
    <3>1. SubPairs(x, y)[i][2] \in types
      BY <1>6
    <3> QED  BY <3>1, <1>1 DEF Ranks
  <2>3. SubPairs(x, y)[i][2] # Prim("missing")
    BY <2>2, MissingIs
  <2> QED  BY <2>1, <2>3 DEF PairAt
<1>7. DOMAIN SubPairs(x, y) = DOMAIN Order(x, y) /\ DOMAIN SubPairs(z, u) = DOMAIN Order(z, u)
  BY DEF SubPairs
<1>8. x.con = "Record" => DOMAIN z.fields \subseteq DOMAIN u.fields
  <2> SUFFICES ASSUME x.con = "Record", NEW at \in DOMAIN z.fields PROVE at \in DOMAIN u.fields
    OBVIOUS
  <2>1. at \in DOMAIN Inside(x)
    BY <1>4, <1>5 DEF Inside
  <2>2. PICK i \in DOMAIN Order(x, y) : Order(x, y)[i] = at
    BY <2>1, <1>2, OrderIs
  <2>3. at \in DOMAIN Inside(u)
    BY <2>2, <1>5, <1>6, <1>7
  <2> QED  BY <2>3, <1>2, <1>4 DEF Inside
<1>9. x.con # "Record" => Len(z.args) = Len(x.args) /\ Len(u.args) = Len(y.args)
  <2> SUFFICES ASSUME x.con # "Record" PROVE Len(z.args) = Len(x.args) /\ Len(u.args) = Len(y.args)
    OBVIOUS
  <2>1. Inside(x) = x.args /\ Inside(y) = y.args /\ Inside(z) = z.args /\ Inside(u) = u.args
    BY <1>2, <1>4 DEF Inside
  <2>2. x.args \in Seq(types) /\ y.args \in Seq(types) /\ z.args \in Seq(all) /\ u.args \in Seq(all)
    BY <2>1, <1>2, <1>4, InsideIs
  <2> QED  BY <2>1, <2>2, <1>5
<1>10. Alike(z, u)
  BY <1>2, <1>4, <1>8, <1>9 DEF Alike, SameHead
<1>11. Order(z, u) = Order(x, y)
  <2>1. CASE x.con = "Record"
    <3>1. DOMAIN z.fields = DOMAIN x.fields
      BY <2>1, <1>4, <1>5 DEF Inside
    <3> QED  BY <3>1, <2>1, <1>4 DEF Order
  <2>2. CASE x.con # "Record"
    BY <2>2, <1>4, <1>9 DEF Order
  <2> QED  BY <2>1, <2>2
<1>12. ASSUME NEW i \in DOMAIN SubPairs(z, u)
       PROVE  \E d \in D : SubPairs(z, u)[i][1] = Apply(s, d[1]) /\ SubPairs(z, u)[i][2] = Apply(s, d[2])
  <2>1. PairAt(z, u, i)
    BY <1>2, <1>4, SubPairsIs
  <2>2. PICK at : at = Order(x, y)[i]
    OBVIOUS
  <2>3. i \in DOMAIN SubPairs(x, y)
    BY <1>7, <1>11
  <2>4. PICK d \in D : d = SubPairs(x, y)[i]
    BY <2>3
  <2>5. at \in DOMAIN Inside(x) /\ at \in DOMAIN Inside(y) /\ d[1] = Inside(x)[at] /\ d[2] = Inside(y)[at]
    BY <2>2, <2>3, <2>4, <1>6
  <2>6. SubPairs(z, u)[i][1] = Inside(z)[at] /\ SubPairs(z, u)[i][2] = Inside(u)[at]
    BY <2>1, <2>2, <2>5, <1>5, <1>11 DEF PairAt
  <2> QED  BY <2>5, <2>6, <1>4
<1> QED  BY <1>10, <1>12 DEF PairsApplied

\* When every equation is settled and none is left to take, every one is solved.
LEMMA SettledFit ==
    ASSUME NEW s, NEW types, Universe(s, types), NEW D, D \subseteq types \X types,
           \A d \in D : Settled(s, types, D, d)
    PROVE  \A d \in D : Fits(Apply(s, d[1]), Apply(s, d[2]))
<1>1. PICK zs, k, depth : k \in Nat /\ Ranks(<<>>, zs, k, depth) /\ \A p \in types : Apply(s, p) \in zs
  <2>1. PICK m, rank : m \in Nat /\ Ranks(s, types, m, rank)
    BY DEF Universe
  <2>2. PICK zs : zs = {Apply(s, p) : p \in types}
    OBVIOUS
  <2>3. \E k, r : k \in Nat /\ Ranks(<<>>, {Apply(s, p) : p \in types}, k, r)
    BY <2>1, AppliedUniverse
  <2> QED  BY <2>2, <2>3
<1> DEFINE T == {z \in zs : \A d \in D : Apply(s, d[1]) = z => Fits(z, Apply(s, d[2]))}
<1>2. ASSUME NEW z \in zs, \A q \in Onward(<<>>, z) : q \in T PROVE z \in T
  <2> SUFFICES ASSUME NEW d \in D, Apply(s, d[1]) = z PROVE Fits(z, Apply(s, d[2]))
    OBVIOUS
  <2>1. PICK u \in zs : u = Apply(s, d[2])
    BY <1>1
  <2>2. Fits(z, u) <=> z = u \/ (Alike(z, u) /\ FitsAsParts(z, u))
    BY <1>1, FitsIs
  <2>3. CASE z = u
    BY <2>1, <2>2, <2>3
  <2>4. ASSUME NEW x \in types, NEW y \in types, SameHead(x, y), z = Apply(s, x), u = Apply(s, y),
               \A i \in DOMAIN SubPairs(x, y) : SubPairs(x, y)[i] \in D
        PROVE  Fits(z, u)
    <3>1. MonoType(z, zs) /\ MonoType(u, zs)
      BY <1>1 DEF Ranks
    <3>2. Alike(z, u) /\ PairsApplied(s, D, z, u)
      BY <3>1, <2>4, AppliedPairs
    <3>3. ASSUME NEW i \in DOMAIN SubPairs(z, u) PROVE Fits(SubPairs(z, u)[i][1], SubPairs(z, u)[i][2])
      <4>1. PICK e \in D : SubPairs(z, u)[i][1] = Apply(s, e[1]) /\ SubPairs(z, u)[i][2] = Apply(s, e[2])
        BY <3>2 DEF PairsApplied
      <4>2. Apply(s, e[1]) \in Onward(<<>>, z)
        BY <4>1, <3>1, <3>2, AlikeParts DEF Onward, Alike
      <4>3. Apply(s, e[1]) \in T
        BY <4>2, <1>2
      <4> QED  BY <4>1, <4>3
    <3> QED  BY <2>2, <3>2, <3>3 DEF FitsAsParts
  <2>5. Fits(z, u)
    BY <2>1, <2>3, <2>4 DEF Settled
  <2> QED  BY <2>1, <2>5
<1>3. zs \subseteq T
  <2> HIDE DEF T
  <2> QED  BY <1>1, <1>2, RankInduction
<1> QED  BY <1>1, <1>3

\* What holds while unify has failed nowhere: each equation it was asked is
\* taken or still to take, and what it has taken is settled.
ToDo == {work[i] : i \in DOMAIN work}
Settling(types, D) ==
    /\ D \subseteq types \X types
    /\ \A i \in DOMAIN asked : asked[i] \in D \cup ToDo
    /\ \A d \in D : Settled(sub, types, D \cup ToDo, d)
SolvedSoFar == err = "none" => \E types, D : Within(types) /\ Settling(types, D)

\* A call adds its equation to those that are to be taken.
LEMMA AskSettles ==
    ASSUME NEW types, Within(types), NEW D, Settling(types, D),
           NEW i \in DOMAIN Calls, NEW call \in Calls[i], Ask(call[1], call[2])
    PROVE  SolvedSoFar'
<1>1. PICK more : types \subseteq more /\ Within(more)'
  BY AskWithin
<1>2. /\ work = <<>> /\ work' = <<<<call[1], call[2]>>>> /\ sub' = sub
      /\ asked' = Append(asked, <<call[1], call[2]>>) /\ asked \in Seq(types \X types)
  BY DEF Ask, Begun, Within
<1>3. PICK e : e = <<call[1], call[2]>>
  OBVIOUS
<1>4. ToDo = {} /\ ToDo' = {e}
  <2>1. PICK w : w = <<e>>
    OBVIOUS
  <2>2. DOMAIN w = {1} /\ w[1] = e
    BY <2>1
  <2>3. work' = w
    BY <2>1, <1>2, <1>3
  <2>4. ToDo' = {w[l] : l \in DOMAIN w}
    BY <2>3 DEF ToDo
  <2>5. ToDo' = {e}
    BY <2>2, <2>4
  <2>6. DOMAIN work = {}
    BY <1>2
  <2>7. ToDo = {}
    BY <2>6 DEF ToDo
  <2> QED  BY <2>5, <2>7
<1>5. ASSUME NEW j \in DOMAIN asked' PROVE asked'[j] \in D \cup {e}
  <2>1. PICK n \in Nat : n = Len(asked) /\ DOMAIN asked = 1 .. n
    BY <1>2
  <2>2. DOMAIN asked' = 1 .. n + 1 /\ asked'[n + 1] = e /\ \A l \in 1 .. n : asked'[l] = asked[l]
    BY <2>1, <1>2, <1>3
  <2>3. CASE j \in 1 .. n
    BY <2>1, <2>2, <2>3, <1>4 DEF Settling
  <2>4. CASE j = n + 1
    BY <2>2, <2>4
  <2> QED  BY <2>2, <2>3, <2>4
<1>6. ASSUME NEW d \in D PROVE Settled(sub, more, D \cup {e}, d)
  <2>1. Settled(sub, types, D, d)
    BY <1>4 DEF Settling
  <2> QED  BY <2>1, <1>1 DEF Settled
<1>7. D \subseteq more \X more
  BY <1>1 DEF Settling
<1>8. Settling(more, D)'
  BY <1>2, <1>4, <1>5, <1>6, <1>7 DEF Settling
<1> QED  BY <1>1, <1>8 DEF SolvedSoFar

\* A step of unify settles the equation it takes and unsettles none.
LEMMA TakeSettles ==
    ASSUME NEW types, Within(types), NEW D, Settling(types, D), Take
    PROVE  SolvedSoFar'
<1> SUFFICES ASSUME err' = "none" PROVE \E more, E : Within(more)' /\ Settling(more, E)'
  BY DEF SolvedSoFar
<1>1. PICK a, b : a = Head(work)[1] /\ b = Head(work)[2]
  OBVIOUS
<1>2. /\ UNCHANGED asked /\ Head(work) = <<a, b>> /\ a \in types /\ Tail(work) \in Seq(Pairs(types))
      /\ b \in types /\ \E more, r : /\ Taken(sub, types, more, a, b, r)
                                     /\ sub' = r.sub /\ work' = r.todo \o Tail(work) /\ err' = r.err
  BY <1>1, TakeIs
<1>3. PICK more, r : Taken(sub, types, more, a, b, r) /\ sub' = r.sub /\ work' = r.todo \o Tail(work) /\ err' = r.err
  BY <1>2
<1>4. Within(more)'
  BY <1>2, <1>3, TakenWithin
<1>5. PICK e, rest, q, E : e = <<a, b>> /\ rest = Tail(work) /\ q = r.todo /\ E = D \cup {e}
  OBVIOUS
<1>6. q \in Seq(Pairs(more)) /\ rest \in Seq(Pairs(types)) /\ work \in Seq(Pairs(types)) /\ work # <<>>
  BY <1>2, <1>3, <1>5 DEF Taken, Within, Take
<1>7. \A j \in DOMAIN work : work[j] = e \/ \E l \in DOMAIN rest : work[j] = rest[l]
  <2> SUFFICES ASSUME NEW j \in DOMAIN work PROVE work[j] = e \/ \E l \in DOMAIN rest : work[j] = rest[l]
    OBVIOUS
  <2>1. CASE j = 1
    BY <2>1, <1>2, <1>5, <1>6
  <2>2. CASE j # 1
    <3>1. j - 1 \in DOMAIN rest /\ rest[j - 1] = work[j]
      BY <2>2, <1>5, <1>6
    <3> QED  BY <3>1
  <2> QED  BY <2>1, <2>2
<1>8. PICK next : next = q \o rest
  OBVIOUS
<1>9. /\ \A l \in DOMAIN rest : \E j \in DOMAIN next : next[j] = rest[l]
      /\ \A l \in DOMAIN q : \E j \in DOMAIN next : next[j] = q[l]
  <2>1. PICK n \in Nat, k \in Nat : n = Len(q) /\ k = Len(rest) /\ DOMAIN q = 1 .. n /\ DOMAIN rest = 1 .. k
    BY <1>6
  <2>2. DOMAIN next = 1 .. n + k
    BY <2>1, <1>6, <1>8
  <2>3. ASSUME NEW l \in 1 .. k PROVE n + l \in DOMAIN next /\ next[n + l] = rest[l]
    BY <2>1, <2>2, <1>6, <1>8
  <2>4. ASSUME NEW l \in 1 .. n PROVE l \in DOMAIN next /\ next[l] = q[l]
    BY <2>1, <2>2, <1>6, <1>8
  <2> QED  BY <2>1, <2>3, <2>4
<1>10. PICK later : later = E \cup {next[j] : j \in DOMAIN next}
  OBVIOUS
<1>11. D \cup ToDo \subseteq later
  <2>1. \A l \in DOMAIN rest : rest[l] \in later
    BY <1>9, <1>10
  <2>2. e \in later /\ D \subseteq later
    BY <1>5, <1>10
  <2>3. ToDo \subseteq later
    BY <2>1, <2>2, <1>7 DEF ToDo
  <2> QED  BY <2>2, <2>3
<1>12. \A l \in DOMAIN q : q[l] \in later
  BY <1>9, <1>10
<1>13. work' = next /\ ToDo' = {next[j] : j \in DOMAIN next}
  BY <1>3, <1>5, <1>8 DEF ToDo
<1>14. E \cup ToDo' = later
  BY <1>10, <1>13
<1>15. E \subseteq more \X more
  <2>1. types \subseteq more
    BY <1>3 DEF Taken
  <2> QED  BY <2>1, <1>2, <1>5 DEF Settling
<1>16. \A i \in DOMAIN asked' : asked'[i] \in E \cup ToDo'
  BY <1>2, <1>11, <1>14 DEF Settling
<1>17. ASSUME NEW d \in E PROVE Settled(sub', more, later, d)
  <2>0. Universe(sub, types)
    BY DEF Within
  <2>1. CASE d \in D
    <3>1. d \in types \X types /\ Settled(sub, types, D \cup ToDo, d)
      BY <2>1 DEF Settling
    <3> QED  BY <3>1, <2>0, <1>3, <1>11, SettledLater
  <2>2. CASE d = e
    <3>1. r.err = "none" /\ \A l \in DOMAIN r.todo : r.todo[l] \in later
      BY <1>3, <1>5, <1>12
    <3>2. Settled(r.sub, more, later, <<a, b>>)
      BY <3>1, <2>0, <1>2, <1>3, PairSettled
    <3> QED  BY <3>2, <2>2, <1>3, <1>5
  <2> QED  BY <2>1, <2>2, <1>5
<1>18. Settling(more, E)'
  BY <1>14, <1>15, <1>16, <1>17 DEF Settling
<1> QED  BY <1>4, <1>18

\* Every equation unify has accepted is solved by the substitution: what it has
\* bound later has not undone an earlier one.
THEOREM EquationsAreSolved == UnificationSpec => []Solved
<1>1. NoCalls => SolvedSoFar
  <2> SUFFICES ASSUME NoCalls PROVE \E types, D : Within(types) /\ Settling(types, D)
    BY DEF SolvedSoFar
  <2>1. PICK types : Within(types)
    BY NoCallsWithin DEF IInv
  <2>2. Settling(types, {})
    <3>1. DOMAIN asked = {}
      BY DEF NoCalls
    <3> QED  BY <3>1 DEF Settling
  <2> QED  BY <2>1, <2>2
<1>2. SolvedSoFar /\ [NextCall]_unifyVars => SolvedSoFar'
  <2> SUFFICES ASSUME SolvedSoFar, [NextCall]_unifyVars PROVE SolvedSoFar'
    OBVIOUS
  <2>1. ASSUME NEW call \in Calls[Len(asked) + 1], Len(asked) < Len(Calls), Ask(call[1], call[2]) PROVE SolvedSoFar'
    <3>1. PICK types, D : Within(types) /\ Settling(types, D)
      BY <2>1 DEF SolvedSoFar, Ask
    <3>2. Len(asked) + 1 \in DOMAIN Calls
      BY <2>1, <3>1, TypesAreFinite DEF Within
    <3> QED  BY <3>1, <3>2, <2>1, AskSettles
  <2>2. CASE Take
    <3>1. PICK types, D : Within(types) /\ Settling(types, D)
      BY <2>2 DEF SolvedSoFar, Take
    <3> QED  BY <3>1, <2>2, TakeSettles
  <2>3. CASE UNCHANGED unifyVars
    <3> SUFFICES ASSUME err = "none" PROVE \E types, D : Within(types)' /\ Settling(types, D)'
      BY <2>3 DEF SolvedSoFar, unifyVars
    <3>1. PICK types, D : Within(types) /\ Settling(types, D)
      BY DEF SolvedSoFar
    <3>2. sub' = sub /\ work' = work /\ asked' = asked
      BY <2>3 DEF unifyVars
    <3>3. Within(types)'
      BY <3>1, <3>2 DEF Within
    <3>4. ToDo' = ToDo
      BY <3>2 DEF ToDo
    <3>5. Settling(types, D)'
      BY <3>1, <3>2, <3>4 DEF Settling
    <3> QED  BY <3>3, <3>5
  <2> QED  BY <2>1, <2>2, <2>3 DEF NextCall
<1>3. SolvedSoFar => Solved
  <2> SUFFICES ASSUME SolvedSoFar, err = "none", work = <<>>, NEW i \in DOMAIN asked
               PROVE  Fits(Apply(sub, asked[i][1]), Apply(sub, asked[i][2]))
    BY DEF Solved
  <2>1. PICK types, D : Within(types) /\ Settling(types, D)
    BY DEF SolvedSoFar
  <2>2. ToDo = {}
    BY DEF ToDo
  <2>3. asked[i] \in D /\ D \subseteq types \X types /\ \A d \in D : Settled(sub, types, D, d)
    BY <2>1, <2>2 DEF Settling
  <2>4. Universe(sub, types)
    BY <2>1 DEF Within
  <2> QED  BY <2>3, <2>4, SettledFit
<1> QED  BY <1>1, <1>2, <1>3, PTL DEF UnificationSpec
=============================================================================
