----------------------------- MODULE Inference -----------------------------
(***************************************************************************)
(* Type inference of a program: typecheck (typechecker/src/lib.rs), the    *)
(* scopes of TypeEnv (env.rs) and infer_decl_with_map, infer, infer_stmt,  *)
(* infer_arm, bind_pattern, generalize and instantiate (infer.rs), over    *)
(* the unification of module Types.                                        *)
(*                                                                         *)
(* st holds what the Rust functions pass around by mutable reference: the  *)
(* scopes and the next type variable of TypeEnv and the substitution of    *)
(* the declaration.  type_map only records results and is left out.        *)
(* st.odd is history: in which of the ways listed at Odd this run has      *)
(* departed from Hindley-Milner inference so far.                          *)
(***************************************************************************)
EXTENDS Types, FiniteSets

VARIABLES program,     \* the declarations, [name, ann, value] each
          phase,       \* "declare", "infer", "accepted" or "rejected"
          pos,         \* the declaration it is at
          st,
          errors       \* the declarations that failed

vars == <<program, phase, pos, st, errors>>

-----------------------------------------------------------------------------
None == "none"
Odd == {"capture",      \* generalised a variable the environment depends on
        "forward",      \* used the open type of a declaration not yet inferred
        "destructure",  \* bound a pattern without looking at its value's type
        "shape"}        \* unified records or tuples of different sizes

Mono(t) == [quantified |-> {}, body |-> t]
Ok(t, s) == [err |-> None, ty |-> t, st |-> s]
Err(e, s) == [err |-> e, st |-> s]
Failed(r) == r.err # None
Mark(s, odd, is) == IF is THEN [s EXCEPT !.odd = @ \cup {odd}] ELSE s

(* TypeEnv: a stack of scopes. *)
Fresh(s) == [s EXCEPT !.next = @ + 1]
PushScope(s) == [s EXCEPT !.scopes = Append(@, <<>>)]
\* Faulty variant: the scope stays.
KeepScope(s) == s
PopScope(s) == [s EXCEPT !.scopes = SubSeq(@, 1, Len(@) - 1)]

Bindings(f, n, poly) == [m \in DOMAIN f \cup {n} |-> IF m = n THEN poly ELSE f[m]]
InsertName(s, n, poly) == [s EXCEPT !.scopes[Len(s.scopes)] = Bindings(@, n, poly)]
Holding(s, n) == {i \in DOMAIN s.scopes : n \in DOMAIN s.scopes[i]}
\* Faulty variant: the outermost binding is found first.
LookupOuter(s, n) == s.scopes[CHOOSE i \in Holding(s, n) : \A j \in Holding(s, n) : i <= j][n]
Lookup(s, n) == s.scopes[CHOOSE i \in Holding(s, n) : \A j \in Holding(s, n) : j <= i][n]

FreeIn(scopes) == UNION {UNION {VarsIn(scope[n].body) \ scope[n].quantified : n \in DOMAIN scope} :
                           scope \in {scopes[i] : i \in DOMAIN scopes}}

\* The free variables of the environment are those written in it, not those its
\* types have by now.
Generalize(s, ty) ==
    LET t == Apply(s.sub, ty)
        free == FreeIn(s.scopes)
        q == VarsIn(t) \ free
        depends == UNION {VarsIn(Apply(s.sub, Var(v))) : v \in free}
    IN  [poly |-> [quantified |-> q, body |-> t], st |-> Mark(s, "capture", q \cap depends # {})]

RECURSIVE ApplyMapping(_, _)
ApplyMapping(m, t) == IF IsVar(t) THEN (IF t.id \in DOMAIN m THEN m[t.id] ELSE t)
                      ELSE Rebuild(t, [p \in Parts(t) |-> ApplyMapping(m, p)])

Instantiate(s, poly) ==
    LET m == [q \in poly.quantified |->
                Var(s.next + Cardinality({r \in poly.quantified : r < q}))]
    IN  Ok(ApplyMapping(m, poly.body), [s EXCEPT !.next = @ + Cardinality(poly.quantified)])

\* unify, to its end.
RECURSIVE UnifyFrom(_)
UnifyFrom(c) == IF Ended(c) THEN c ELSE UnifyFrom(UnifyStep(c))
Unify(s, a, b) == UnifyFrom(Begun(s, a, b))

\* Substitution after a unification; the type is that of the left side.
AfterUnify(s, a, b, r) ==
    IF r.err # None THEN Err(r.err, [s EXCEPT !.sub = r.sub])
    ELSE Ok(a, Mark([s EXCEPT !.sub = r.sub], "shape", Apply(r.sub, a) # Apply(r.sub, b)))
-----------------------------------------------------------------------------
(* The functions of infer.rs call each other; here they do so under one     *)
(* name, Do, which takes the task, the state and what the task is about.    *)
RECURSIVE Do(_, _, _)
Infer(s, e) == Do("infer", s, e)
InferAll(s, es) == Do("all", s, [todo |-> es, tys |-> <<>>])
Unified(s, a, b) == Do("unify", s, <<a, b>>)
BindPattern(s, p) == Do("pattern", s, p)

Tuple(ts) == Tag("Tuple", ts)
Constructors == {"Some", "None"}

\* bind_pattern, a tuple: its parts from left to right.
BindParts(s, x) ==
    IF x.todo = <<>> THEN Ok(Tuple(x.tys), s)
    ELSE LET r == BindPattern(s, Head(x.todo))
         IN  IF Failed(r) THEN r
             ELSE Do("parts", r.st, [todo |-> Tail(x.todo), tys |-> Append(x.tys, r.ty)])

\* A constructor: the parts against the parameters, as far as both go.
BindFields(s, x) ==
    IF x.todo = <<>> \/ x.params = <<>> THEN Ok(x.ty, s)
    ELSE LET r == BindPattern(s, Head(x.todo))
             u == IF Failed(r) THEN r ELSE Unified(r.st, Head(x.params), r.ty)
         IN  IF Failed(u) THEN u
             ELSE Do("fields", u.st, [x EXCEPT !.todo = Tail(@), !.params = Tail(@)])

\* A record: fields named and bound under their names.
BindRecord(s, names) ==
    LET at(m) == CHOOSE i \in DOMAIN names : names[i] = m
        v(m) == Var(s.next + at(m) - 1)
        ns == {names[i] : i \in DOMAIN names}
    IN  Ok(RecordOf([n \in ns |-> v(n)]),
           [s EXCEPT !.next = @ + Len(names),
                     !.scopes[Len(s.scopes)] =
                       [m \in DOMAIN @ \cup ns |-> IF m \in ns THEN Mono(v(m)) ELSE @[m]]])

BindInner(s, p) ==
    CASE p.form = "Wildcard" -> Ok(Var(s.next), Fresh(s))
      [] p.form = "Binding" -> Ok(Var(s.next), InsertName(Fresh(s), p.name, Mono(Var(s.next))))
      [] p.form = "Int" -> Ok(IntVar(s.next), Fresh(s))
      [] p.form = "Tuple" -> Do("parts", s, [todo |-> p.parts, tys |-> <<>>])
      [] p.form = "Record" -> BindRecord(s, p.names)
      [] p.form = "Constructor" ->
            LET c == Instantiate(s, Lookup(s, p.name))
                n == IF c.ty.con = "Func" THEN Len(c.ty.args) ELSE 0
            IN  IF n = 0 THEN c
                ELSE Do("fields", c.st, [todo |-> p.parts, params |-> SubSeq(c.ty.args, 1, n - 1),
                                         ty |-> c.ty.args[n]])
-----------------------------------------------------------------------------
(* infer.  The types of the operands are inferred first, in order.          *)
Operands(e) ==
    CASE e.form = "App" -> <<e.func>> \o e.args
      [] e.form \in {"Add", "Eq", "And"} -> <<e.left, e.right>>
      [] e.form = "Neg" -> <<e.operand>>
      [] e.form = "Tuple" -> e.elems
      [] e.form = "Record" -> e.values
      [] e.form = "Field" -> <<e.object>>
      [] e.form = "Index" -> <<e.array, e.index>>
      [] OTHER -> <<>>

Covers(ty, arms) ==     \* check_exhaustive; module Matching has all of it
    \/ ty.con # "Tag" \/ ty.name # "Option"
    \/ \E i \in DOMAIN arms : arms[i].pattern.form \in {"Wildcard", "Binding"}
    \/ Constructors \subseteq {arms[i].pattern.name : i \in DOMAIN arms}

BindParams(s, ps, v) == [s EXCEPT !.scopes[Len(s.scopes)] =
    [n \in {ps[i] : i \in DOMAIN ps} |-> Mono(v[CHOOSE i \in DOMAIN ps : ps[i] = n])]]

InferIdent(s, n) ==
    IF Holding(s, n) = {} THEN Err("UnboundVariable", s)
    ELSE LET r == Instantiate(s, Lookup(s, n))
             open == n \in s.pending /\ Holding(s, n) = {1} /\ VarsIn(Lookup(s, n).body) # {}
         IN  Ok(r.ty, Mark(r.st, "forward", open))

InferLambda(s, e) ==
    LET v == [i \in DOMAIN e.params |-> Var(s.next + i - 1)]
        s1 == BindParams([PushScope(s) EXCEPT !.next = @ + Len(e.params)], e.params, v)
        r == Infer(s1, e.body)
    IN  IF Failed(r) THEN r
        ELSE Ok(Func([i \in DOMAIN v |-> Apply(r.st.sub, v[i])], r.ty), PopScope(r.st))

\* Which function a bare name stands for when its first argument has a type with
\* methods of that name is module Methods's.
InferApp(s, tys) ==
    LET ret == Var(s.next)
        u == Unified(Fresh(s), Head(tys), Func(Tail(tys), ret))
    IN  IF Failed(u) THEN u ELSE Ok(ret, u.st)

InferAnd(s, tys) ==
    LET u == Unified(s, tys[1], Prim("Bool"))
        w == IF Failed(u) THEN u ELSE Unified(u.st, tys[2], Prim("Bool"))
    IN  IF Failed(w) THEN w ELSE Ok(Prim("Bool"), w.st)

InferBinary(s, form, tys) ==
    LET u == Unified(s, tys[1], tys[2])
    IN  IF Failed(u) \/ form # "Eq" THEN u ELSE Ok(Prim("Bool"), u.st)

InferNeg(s, ty) ==
    IF ty.con \in Ints \cup {"F32", "F64", "Var"} THEN Ok(ty, s) ELSE Err("UnificationFailed", s)

InferIf(s, e) ==
    LET c == Infer(s, e.cond)
        u == IF Failed(c) THEN c ELSE Unified(c.st, c.ty, Prim("Bool"))
        r == IF Failed(u) THEN u ELSE InferAll(u.st, <<e.yes, e.no>>)
    IN  IF Failed(r) THEN r ELSE Unified(r.st, r.ty[1], r.ty[2])

InferBlock(s, e) ==
    LET b == Do("stmts", PushScope(s), e.lets)
        r == IF Failed(b) THEN b ELSE Infer(b.st, e.result)
    IN  IF Failed(r) THEN r ELSE Ok(r.ty, PopScope(r.st))

InferMatch(s, e) ==
    LET r == Infer(s, e.subject)
        a == IF Failed(r) THEN r ELSE Do("arms", r.st, [subj |-> r.ty, todo |-> e.arms, ty |-> <<>>])
    IN  IF Failed(a) \/ Covers(Apply(a.st.sub, r.ty), e.arms) THEN a
        ELSE Err("NonExhaustiveMatch", a.st)

InferRecord(s, names, tys) ==
    Ok(RecordOf([n \in {names[i] : i \in DOMAIN names} |-> tys[CHOOSE i \in DOMAIN names : names[i] = n]]), s)

\* A variable becomes a record of this one field.  infer has applied the
\* substitution, so a variable that is a record already is one of the first case,
\* and the branch of the code that would add a field to it is never taken.
InferField(s, ty, name) ==
    CASE ty.con = "Record" /\ (ty.con = "Record" => name \in DOMAIN ty.fields) -> Ok(ty.fields[name], s)
      [] ty.con = "Var" ->
           LET fv == Var(s.next)
               u == Unified(Fresh(s), ty, RecordOf([n \in {name} |-> fv]))
           IN  IF Failed(u) THEN u ELSE Ok(fv, u.st)
      [] OTHER -> Err("FieldNotFound", s)

InferIndex(s, tys) ==
    LET i32 == Unified(s, tys[2], Prim("I32"))
        idx == IF Failed(i32) THEN Unified(i32.st, tys[2], Prim("Usize")) ELSE i32
        elem == Var(idx.st.next)
        u == IF Failed(idx) THEN idx ELSE Unified(Fresh(idx.st), tys[1], Array(elem))
    IN  IF Failed(u) THEN u ELSE Ok(elem, u.st)

InferOperator(s, e, tys) ==
    CASE e.form = "App" -> InferApp(s, tys)
      [] e.form = "And" -> InferAnd(s, tys)
      [] e.form \in {"Add", "Eq"} -> InferBinary(s, e.form, tys)
      [] e.form = "Neg" -> InferNeg(s, tys[1])
      [] e.form = "Tuple" -> Ok(Tuple(tys), s)
      [] e.form = "Record" -> InferRecord(s, e.names, tys)
      [] e.form = "Field" -> InferField(s, tys[1], e.name)
      [] e.form = "Index" -> InferIndex(s, tys)

InferInner(s, e) ==
    CASE e.form = "Int" -> Ok(IntVar(s.next), Fresh(s))
      [] e.form \in {"Str", "Bool"} -> Ok(Prim(e.form), s)
      [] e.form = "Ident" -> InferIdent(s, e.name)
      [] e.form = "Lambda" -> InferLambda(s, e)
      [] e.form = "If" -> InferIf(s, e)
      [] e.form = "Block" -> InferBlock(s, e)
      [] e.form = "Match" -> InferMatch(s, e)
      [] e.form = "Array" -> Do("elems", Fresh(s), [todo |-> e.elems, elem |-> Var(s.next)])
      [] OTHER -> LET r == InferAll(s, Operands(e))
                  IN  IF Failed(r) THEN r ELSE InferOperator(r.st, e, r.ty)

InferEach(s, x) ==
    IF x.todo = <<>> THEN Ok([i \in DOMAIN x.tys |-> Apply(s.sub, x.tys[i])], s)
    ELSE LET r == Infer(s, Head(x.todo))
         IN  IF Failed(r) THEN r
             ELSE Do("all", r.st, [todo |-> Tail(x.todo), tys |-> Append(x.tys, r.ty)])

InferElems(s, x) ==
    IF x.todo = <<>> THEN Ok(Array(x.elem), s)
    ELSE LET r == Infer(s, Head(x.todo))
             u == IF Failed(r) THEN r ELSE Unified(r.st, r.ty, x.elem)
         IN  IF Failed(u) THEN u ELSE Do("elems", u.st, [x EXCEPT !.todo = Tail(@)])

\* let: the value's type is generalised; a name takes it, any other pattern is
\* given a type of its own.
BindLet(p, g) ==
    CASE p.form = "Binding" -> Ok(g.poly.body, InsertName(g.st, p.name, g.poly))
      [] p.form = "Wildcard" -> Ok(g.poly.body, g.st)
      [] OTHER -> BindPattern(Mark(g.st, "destructure", TRUE), p)
AfterValue(p, r) == IF Failed(r) THEN r ELSE BindLet(p, Generalize(r.st, r.ty))
InferStmts(s, lets) ==
    IF lets = <<>> THEN Ok(Prim("Unit"), s)
    ELSE LET b == AfterValue(Head(lets).pattern, Infer(s, Head(lets).value))
         IN  IF Failed(b) THEN b ELSE Do("stmts", b.st, Tail(lets))

InferArms(s, x) ==
    IF x.todo = <<>> THEN Ok(x.ty[1], s)
    ELSE LET p == BindPattern(PushScope(s), Head(x.todo).pattern)
             u == IF Failed(p) THEN p ELSE Unified(p.st, x.subj, p.ty)
             b == IF Failed(u) THEN u ELSE Infer(u.st, Head(x.todo).body)
             w == IF Failed(b) THEN b
                  ELSE IF x.ty = <<>> THEN [b EXCEPT !.st = PopScope(@)]
                  ELSE Unified(PopScope(b.st), x.ty[1], b.ty)
         IN  IF Failed(w) THEN w ELSE Do("arms", w.st, [x EXCEPT !.todo = Tail(@), !.ty = <<w.ty>>])

Resolved(r) == IF Failed(r) THEN r ELSE Ok(Apply(r.st.sub, r.ty), r.st)
Do(task, s, x) ==
    CASE task = "infer" -> Resolved(InferInner(s, x))
      [] task = "all" -> InferEach(s, x)
      [] task = "elems" -> InferElems(s, x)
      [] task = "stmts" -> InferStmts(s, x)
      [] task = "arms" -> InferArms(s, x)
      [] task = "unify" -> AfterUnify(s, x[1], x[2], Unify(s.sub, x[1], x[2]))
      [] task = "pattern" -> BindInner(s, x)
      [] task = "parts" -> BindParts(s, x)
      [] task = "fields" -> BindFields(s, x)
-----------------------------------------------------------------------------
(* typecheck: forward declarations, then one declaration after the other. *)
Prelude == LET opt == Tag("Option", <<Var(0)>>)
           IN  [n \in Constructors |-> [quantified |-> {0},
                                        body |-> IF n = "Some" THEN Func(<<Var(0)>>, opt) ELSE opt]]

Unannotated == [con |-> "none"]

Start(p) ==
    /\ program = p
    /\ phase = "declare" /\ pos = 1 /\ errors = {}
    /\ st = [scopes |-> <<Prelude>>, next |-> 1, sub |-> <<>>, odd |-> {}, pending |-> {}]

\* forward_declare_top_level, one declaration: its annotation if it has one, the
\* open type of a function if it is a lambda, nothing otherwise.
Forward(s, d) ==
    LET n == IF d.value.form = "Lambda" THEN Len(d.value.params) ELSE 0
    IN  CASE d.ann # Unannotated -> InsertName(s, d.name, Mono(d.ann))
          [] d.ann = Unannotated /\ d.value.form = "Lambda" ->
                InsertName([s EXCEPT !.next = @ + n + 1], d.name,
                           Mono(Func([i \in 1 .. n |-> Var(s.next + i - 1)], Var(s.next + n))))
          [] OTHER -> s

Declare ==
    /\ phase = "declare"
    /\ st' = [Forward(st, program[pos]) EXCEPT !.pending = @ \cup {program[pos].name}]
    /\ IF pos < Len(program) THEN pos' = pos + 1 /\ phase' = phase
                             ELSE pos' = 1 /\ phase' = "infer"
    /\ UNCHANGED <<program, errors>>

\* infer_decl_with_map for Decl::Bind, with a substitution of its own.
Annotated(d, r) == IF Failed(r) \/ d.ann = Unannotated THEN r ELSE Unified(r.st, r.ty, d.ann)
BindDecl(d, g) == Ok(g.poly.body, [InsertName(g.st, d.name, g.poly) EXCEPT !.pending = @ \ {d.name}])
Generalized(d, r) == IF Failed(r) THEN r ELSE BindDecl(d, Generalize(r.st, r.ty))
InferDecl(s, d) == Generalized(d, Annotated(d, Infer([s EXCEPT !.sub = <<>>], d.value)))

Step == /\ phase = "infer" /\ pos <= Len(program)
        /\ \E r \in {InferDecl(st, program[pos])} :
              /\ st' = r.st
              /\ errors' = IF Failed(r) THEN errors \cup {pos} ELSE errors
        /\ pos' = pos + 1
        /\ UNCHANGED <<program, phase>>

Finish == /\ phase = "infer" /\ pos > Len(program)
          /\ phase' = IF errors = {} THEN "accepted" ELSE "rejected"
          /\ UNCHANGED <<program, pos, st, errors>>

Next == Declare \/ Step \/ Finish
-----------------------------------------------------------------------------
(* Reference: the language itself, evaluated without types.  "stuck" is a   *)
(* construct given a value it has no meaning for, "abort" a trap, a run     *)
(* out of fuel, or operands of + and - the code generator turns down.       *)
Stuck == [k |-> "stuck"]
Abort == [k |-> "abort"]
Final(v) == v.k \in {"stuck", "abort"}
Extend(env, f) == [n \in DOMAIN env \cup DOMAIN f |-> IF n \in DOMAIN f THEN f[n] ELSE env[n]]
FirstFinal(vs) == vs[CHOOSE i \in DOMAIN vs : Final(vs[i]) /\ \A j \in 1 .. i - 1 : ~Final(vs[j])]

\* Whether a pattern matches a value, and the names it binds; reading a part the
\* value does not have is stuck.
RECURSIVE MatchOne(_, _), MatchParts(_, _, _)
MatchOne(p, v) ==
    CASE p.form = "Wildcard" -> [k |-> "yes", env |-> <<>>]
      [] p.form = "Binding" -> [k |-> "yes", env |-> [n \in {p.name} |-> v]]
      [] p.form = "Int" -> IF v.k = "int" THEN [k |-> "yes", env |-> <<>>] ELSE Stuck
      [] p.form = "Tuple" -> IF v.k # "tup" \/ (v.k = "tup" /\ Len(v.parts) < Len(p.parts)) THEN Stuck
                             ELSE MatchParts(p.parts, v.parts, <<>>)
      [] p.form = "Record" ->
            IF v.k # "rec" THEN Stuck
            ELSE IF \E i \in DOMAIN p.names : p.names[i] \notin DOMAIN v.fields THEN Stuck
            ELSE [k |-> "yes", env |-> [n \in {p.names[i] : i \in DOMAIN p.names} |-> v.fields[n]]]
      [] p.form = "Constructor" ->
            IF v.k # "opt" THEN Stuck
            ELSE IF v.name # p.name THEN [k |-> "no"]
            ELSE MatchParts(p.parts, v.parts, <<>>)

MatchParts(ps, vs, env) ==
    IF ps = <<>> \/ vs = <<>> THEN [k |-> "yes", env |-> env]
    ELSE LET m == MatchOne(Head(ps), Head(vs))
         IN  IF m.k = "yes" THEN MatchParts(Tail(ps), Tail(vs), Extend(env, m.env)) ELSE m

RECURSIVE Eval(_, _, _), EvalApp(_, _, _), EvalLets(_, _, _, _), EvalArms(_, _, _, _)

\* The value of an operator whose operands have the values vs.
EvalOperator(e, vs, fuel) ==
    CASE e.form = "App" -> EvalApp(Head(vs), Tail(vs), fuel)
      [] e.form = "Add" -> IF vs[1].k # vs[2].k THEN Stuck
                           ELSE IF vs[1].k \in {"int", "str"} THEN vs[1] ELSE Abort
      [] e.form = "Eq" -> IF vs[1].k = vs[2].k THEN [k |-> "bool", b |-> TRUE] ELSE Stuck
      [] e.form = "And" -> IF vs[1].k = "bool" /\ vs[2].k = "bool" THEN vs[1] ELSE Stuck
      [] e.form = "Neg" -> IF vs[1].k = "int" THEN vs[1] ELSE Abort
      [] e.form = "Array" -> [k |-> "arr", parts |-> vs]
      [] e.form = "Tuple" -> [k |-> "tup", parts |-> vs]
      [] e.form = "Record" ->
            [k |-> "rec", fields |-> [n \in {e.names[i] : i \in DOMAIN e.names} |->
                                        vs[CHOOSE i \in DOMAIN e.names : e.names[i] = n]]]
      [] e.form = "Field" ->
            IF vs[1].k # "rec" THEN Stuck
            ELSE IF e.name \in DOMAIN vs[1].fields THEN vs[1].fields[e.name] ELSE Stuck
      [] e.form = "Index" ->
            IF vs[1].k # "arr" \/ vs[2].k # "int" THEN Stuck
            ELSE IF vs[1].parts = <<>> THEN Abort ELSE vs[1].parts[Len(vs[1].parts)]

EvalIdent(env, n, fuel) ==
    IF n \in DOMAIN env THEN env[n]
    ELSE IF n = "None" THEN [k |-> "opt", name |-> "None", parts |-> <<>>]
    ELSE IF n = "Some" THEN [k |-> "some"]
    ELSE IF fuel = 0 THEN Abort
    ELSE Eval(<<>>, program[CHOOSE i \in DOMAIN program : program[i].name = n].value, fuel - 1)

Eval(env, e, fuel) ==
    CASE e.form = "Int" -> [k |-> "int"]
      [] e.form = "Str" -> [k |-> "str"]
      [] e.form = "Bool" -> [k |-> "bool", b |-> e.b]
      [] e.form = "Ident" -> EvalIdent(env, e.name, fuel)
      [] e.form = "Lambda" -> [k |-> "clo", params |-> e.params, body |-> e.body, env |-> env]
      [] e.form = "If" -> LET c == Eval(env, e.cond, fuel)
                          IN  IF Final(c) THEN c
                              ELSE IF c.k # "bool" THEN Stuck
                              ELSE Eval(env, IF c.b THEN e.yes ELSE e.no, fuel)
      [] e.form = "Block" -> EvalLets(env, e.lets, e.result, fuel)
      [] e.form = "Match" -> LET v == Eval(env, e.subject, fuel)
                             IN  IF Final(v) THEN v ELSE EvalArms(env, v, e.arms, fuel)
      [] OTHER -> LET es == IF e.form = "Array" THEN e.elems ELSE Operands(e)
                      vs == [i \in DOMAIN es |-> Eval(env, es[i], fuel)]
                  IN  IF \E i \in DOMAIN vs : Final(vs[i]) THEN FirstFinal(vs)
                      ELSE EvalOperator(e, vs, fuel)

EvalApp(f, vs, fuel) ==
    CASE f.k = "some" /\ Len(vs) = 1 -> [k |-> "opt", name |-> "Some", parts |-> vs]
      [] f.k = "clo" /\ (f.k = "clo" => Len(f.params) = Len(vs)) ->
            IF fuel = 0 THEN Abort
            ELSE Eval(Extend(f.env, [n \in {f.params[i] : i \in DOMAIN vs} |->
                                       vs[CHOOSE i \in DOMAIN vs : f.params[i] = n]]), f.body, fuel - 1)
      [] OTHER -> Stuck

EvalLets(env, lets, result, fuel) ==
    IF lets = <<>> THEN Eval(env, result, fuel)
    ELSE LET v == Eval(env, Head(lets).value, fuel)
             m == MatchOne(Head(lets).pattern, v)
         IN  CASE Final(v) -> v
               [] ~Final(v) /\ m.k = "yes" -> EvalLets(Extend(env, m.env), Tail(lets), result, fuel)
               [] ~Final(v) /\ m.k = "no" -> Abort
               [] OTHER -> Stuck

EvalArms(env, v, arms, fuel) ==
    IF arms = <<>> THEN Abort
    ELSE LET m == MatchOne(Head(arms).pattern, v)
         IN  CASE m.k = "yes" -> Eval(Extend(env, m.env), Head(arms).body, fuel)
               [] m.k = "no" -> EvalArms(env, v, Tail(arms), fuel)
               [] OTHER -> Stuck

Fuel == 6
Run(m) == IF m.k = "clo" /\ (m.k = "clo" => m.params = <<>>) THEN EvalApp(m, <<>>, Fuel) ELSE m
Outcome == Run(Eval(<<>>, [form |-> "Ident", name |-> "main"], Fuel))
-----------------------------------------------------------------------------
\* Well-typed programs do not go wrong, unless the inference departed from
\* Hindley-Milner in one of the ways Odd lists.
Sound == phase = "accepted" /\ st.odd = {} => Outcome # Stuck

\* The same without exceptions: a program the type checker has verified runs.
AcceptedRuns == phase = "accepted" => Outcome # Stuck

\* The declarations that were inferred, and what their names are looked up to be.
Inferred == IF phase = "declare" THEN {} ELSE {program[i].name : i \in DOMAIN program} \ st.pending
\* The variables of forward-declared types are the first ones: one for each parameter
\* of each such declaration and one for its result.
ForwardVars ==
    LET Declared(i) == program[i].ann = Unannotated /\ program[i].value.form = "Lambda"
    IN  1 .. Cardinality(UNION {{<<i, j>> : j \in 0 .. Len(program[i].value.params)} :
                                i \in {k \in DOMAIN program : Declared(k)}})
\* The variables of the names in scopes that an error has left open.
LeftOpen == FreeIn([i \in 2 .. Len(st.scopes) |->
                      [n \in DOMAIN st.scopes[i] \ Inferred |-> st.scopes[i][n]]])

\* The substitution ends with its declaration, so a variable that is free in an
\* inferred type is resolved by nobody.  There are none but those of the open type of
\* a declaration that was used before it was inferred, and those of parameters that a
\* declaration with an error has left in scope (infer.rs 548, 1040).
GlobalsClosed ==
    \A n \in Inferred :
        FreeIn(<<[m \in {n} |-> Lookup(st, n)]>>) \subseteq
            (IF "forward" \in st.odd THEN ForwardVars ELSE {})
                \cup (IF errors # {} THEN LeftOpen ELSE {})
=============================================================================
