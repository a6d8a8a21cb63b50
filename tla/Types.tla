------------------------------- MODULE Types -------------------------------
(***************************************************************************)
(* Types and their unification (typechecker/src/types.rs, unify.rs).       *)
(*                                                                         *)
(* A type is a record whose field con is the variant of MonoType.  Every   *)
(* variant with positional parts has them in args (a function's result is  *)
(* the last); a record has a function from field names to types.  The      *)
(* substitution is a function from bound variables to types: the table     *)
(* never unions two keys, so each key is its own root and find(a) =        *)
(* find(b) is a = b.                                                       *)
(***************************************************************************)
EXTENDS Integers, Sequences

CONSTANT FieldNames     \* the names of fields, in their order
ASSUME FieldNamesAreNames == FieldNames \in Seq(STRING)

Prim(p) == [con |-> p, args |-> <<>>]
Var(i) == [con |-> "Var", id |-> i]
IntVar(i) == [con |-> "IntVar", id |-> i]
Array(t) == [con |-> "Array", args |-> <<t>>]
Func(params, ret) == [con |-> "Func", args |-> params \o <<ret>>]
Effect(t) == [con |-> "Effect", args |-> <<t>>]
Tag(n, payload) == [con |-> "Tag", name |-> n, args |-> payload]
RecordOf(fields) == [con |-> "Record", fields |-> fields]

IsVar(t) == t.con \in {"Var", "IntVar", "FloatVar"}
Ints == {"I8", "I16", "I32", "I64", "U8", "U16", "U32", "U64", "Usize"}
Primitives == Ints \cup {"F32", "F64", "Bool", "Str", "Unit"}

\* Types one level down, and the type rebuilt with f applied to them.
Inside(t) == IF t.con = "Record" THEN t.fields ELSE t.args
Parts(t) == {Inside(t)[i] : i \in DOMAIN Inside(t)}
Rebuild(t, f) == IF t.con = "Record"
                 THEN [t EXCEPT !.fields = [n \in DOMAIN @ |-> f[@[n]]]]
                 ELSE [t EXCEPT !.args = [i \in DOMAIN @ |-> f[@[i]]]]

\* Where apply, occurs_in and free_vars_mono go on from t: to what a bound
\* variable stands for, and to the parts of any other type.
Onward(s, t) == IF IsVar(t) THEN {s[v] : v \in {t.id} \cap DOMAIN s} ELSE Parts(t)

\* The types such a recursion meets from t: it goes on until it meets no new one.
Met(s, t) ==
    LET met[n \in Nat] == IF n = 0 THEN {t}
                          ELSE LET before == met[n - 1]
                               IN  before \cup UNION {Onward(s, p) : p \in before}
    IN  met
Closed(s, ts) == \A p \in ts : Onward(s, p) \subseteq ts
Reached(s, t) ==
    LET whole[n \in Nat] == LET ts == Met(s, t)[n] IN IF Closed(s, ts) THEN ts ELSE whole[n + 1]
    IN  whole[0]

\* free_vars_mono: variables in t, without looking through the substitution.
VarsIn(t) == {p.id : p \in {q \in Reached(<<>>, t) : IsVar(q)}}

\* What an unresolved variable stands for at once, wherever it is met.
Unresolved(t) == CASE t.con = "IntVar" -> Prim("I32")
                   [] t.con = "FloatVar" -> Prim("F64")
                   [] OTHER -> t

\* The type t with its variables replaced: those of s by what they stand for,
\* the others by what g gives.
Free(g, t) == IF t.con = "Var" /\ t.id \in DOMAIN g THEN g[t.id] ELSE Unresolved(t)
Replaced(s, g, t) ==
    LET whole[p \in Reached(s, t)] ==
          IF ~IsVar(p) THEN Rebuild(p, [q \in Parts(p) |-> whole[q]])
          ELSE IF p.id \in DOMAIN s THEN whole[s[p.id]]
          ELSE Free(g, p)
    IN  whole[t]

Apply(s, t) == Replaced(s, <<>>, t)

\* Faulty variant: looks one level down only, and takes any variable for v.
OccursAny(s, v, t) == ~IsVar(t) /\ \E p \in Parts(t) : IsVar(p)

OccursIn(s, v, t) == \E p \in Reached(s, t) : IsVar(p) /\ p.id = v /\ v \notin DOMAIN s

\* Where a call of unify ends at once, and where it goes on with pairs.
GoesOn(s, pairs) == [sub |-> s, err |-> "none", todo |-> pairs]
Done(s) == GoesOn(s, <<>>)
Fail(s, e) == [sub |-> s, err |-> e, todo |-> <<>>]
Insert(s, v, t) == [w \in DOMAIN s \cup {v} |-> IF w = v THEN t ELSE s[w]]

Bind(s, v, t) ==
    IF t = Var(v) THEN Done(s)
    ELSE IF OccursIn(s, v, t) THEN Fail(s, "InfiniteType")
    ELSE Done(Insert(s, v, t))

\* A literal's variable meets a type that is no variable of its kind.
BindLiteral(s, lit, t, concrete) ==
    IF t.con \in concrete \cup {lit.con, "Var"} THEN Bind(s, lit.id, t)
    ELSE Fail(s, "UnificationFailed")

\* The pairs unify goes on with, in the order it takes them.  A record asks
\* only for the fields of its left side, in the order of their names; tags are
\* compared over the shorter payload.
SeqMin(i, j) == IF i < j THEN i ELSE j
FieldOrder(fs) ==
    LET taken[n \in Nat] ==
          IF n = 0 THEN <<>>
          ELSE IF FieldNames[n] \in fs THEN Append(taken[n - 1], FieldNames[n]) ELSE taken[n - 1]
    IN  taken[Len(FieldNames)]
Order(a, b) == IF a.con = "Record" THEN FieldOrder(DOMAIN a.fields)
               ELSE [i \in 1 .. SeqMin(Len(a.args), Len(b.args)) |-> i]
SubPairs(a, b) ==
    [i \in DOMAIN Order(a, b) |->
        LET at == Order(a, b)[i]
        IN  <<Inside(a)[at], IF at \in DOMAIN Inside(b) THEN Inside(b)[at] ELSE Prim("missing")>>]

\* Existing bindings are walked through before the two are compared.
\* Faulty variant: not walked.
NotWalked(s, t) == t
Walked(s, t) == Apply(s, t)

UnifyParts(s, a, b) ==
    IF a.con # b.con \/ (a.con = "Tag" /\ a.name # b.name) THEN Fail(s, "UnificationFailed")
    ELSE IF a.con = "Func" /\ Len(a.args) # Len(b.args) THEN Fail(s, "ArityMismatch")
    ELSE GoesOn(s, SubPairs(a, b))
UnifyWalked(s, a, b) ==
    IF a = b THEN Done(s)
    ELSE IF a.con = "IntVar" THEN BindLiteral(s, a, b, Ints)
    ELSE IF b.con = "IntVar" THEN BindLiteral(s, b, a, Ints)
    ELSE IF a.con = "FloatVar" THEN BindLiteral(s, a, b, {"F32", "F64"})
    ELSE IF b.con = "FloatVar" THEN BindLiteral(s, b, a, {"F32", "F64"})
    ELSE IF a.con = "Var" THEN Bind(s, a.id, b)
    ELSE IF b.con = "Var" THEN Bind(s, b.id, a)
    ELSE UnifyParts(s, a, b)

\* unify of one pair; a field that the right side lacks is an error.
UnifyPair(s, pair) ==
    IF pair[2] = Prim("missing") THEN Fail(s, "UnificationFailed")
    ELSE UnifyWalked(s, Walked(s, pair[1]), Walked(s, pair[2]))

\* The recursion of unify, depth first: the pairs still to do, and the first
\* error ends it while what has been bound stays bound.
Begun(s, a, b) == [sub |-> s, work |-> <<<<a, b>>>>, err |-> "none"]
Ended(c) == c.work = <<>> \/ c.err # "none"
UnifyStep(c) ==
    LET r == UnifyPair(c.sub, Head(c.work))
    IN  [sub |-> r.sub, work |-> r.todo \o Tail(c.work), err |-> r.err]
=============================================================================
