---------------------------- MODULE MCOwnership ----------------------------
(***************************************************************************)
(* Programs for Ownership: all well-scoped bodies up to a nesting depth, and   *)
(* deeper ones that reach a local through an object.                         *)
(***************************************************************************)
EXTENDS Ownership

CONSTANT Depth      \* how deep expressions nest

E(op, es)      == [op |-> op, es |-> es]
Var(x)         == [op |-> "var", x |-> x, es |-> <<>>]
Ctor(f, es)    == [op |-> "construct", f |-> f, es |-> es]
Plus(f, l, r)  == [op |-> "binary", f |-> f, es |-> <<l, r>>]
Let(p, x, e, r) == [op |-> "block", pat |-> [p |-> p, x |-> x], e |-> e, body |-> r]
Match(e, arms) == [op |-> "match", e |-> e, arms |-> arms]
Arm(p, x, b)   == [pat |-> [p |-> p, x |-> x], body |-> b]
Fun(x, b)      == [op |-> "lambda", x |-> x, body |-> b]

Params == ("s" :> "str") @@ ("o" :> "opt")

(* Expressions of type t, at most n deep, over the names and types of scope;   *)
(* of a let and its body, and of two arms of a match, only one is that deep.  *)
RECURSIVE Exprs(_, _, _)
Exprs(n, t, scope) ==
  LET names      == {Var(x) : x \in {y \in DOMAIN scope : scope[y] = t}}
      leaves     == CASE t = "str" -> {E("str", <<>>)} [] t = "int" -> {E("int", <<>>)}
                      [] t = "opt" -> {Ctor("opt", <<>>)} [] OTHER -> {}
      sub(u)     == Exprs(n - 1, u, scope)
      with(x, u) == Exprs(n - 1, t, (x :> u) @@ scope)
      thin(x, u) == Exprs(0, t, (x :> u) @@ scope)
      pairs(u)   == sub(u) \X sub(u)
      lets(x, u) == {Let("bind", x, e, r) : e \in sub(u), r \in thin(x, u)}
                      \cup {Let("bind", x, e, r) : e \in Exprs(0, u, scope), r \in with(x, u)}
      cases(e)   == {Match(e, <<Arm("sub", "x", a), Arm(q, "_", c)>>) :
                        q \in {"none", "wild"}, a \in with("x", "str"), c \in Exprs(0, t, scope)}
                      \cup {Match(e, <<Arm("sub", "x", a), Arm("bind", "y", c)>>) :
                        a \in thin("x", "str"), c \in with("y", "opt")}
      control    == {E("if", <<E("int", <<>>), q[1], q[2]>>) : q \in pairs(t)}
                      \cup {Let("wild", "_", e, r) : e \in sub("opt"), r \in Exprs(0, t, scope)}
                      \cup lets("x", "str") \cup lets("x", "opt") \cup lets("s", "str")
                      \cup {Let("sub", "x", e, r) : e \in sub("rec"), r \in thin("x", "str")}
                      \cup UNION {cases(e) : e \in Exprs(0, "opt", scope)}
      made       ==
        CASE t = "str" ->
               {Plus("+", q[1], q[2]) : q \in pairs("str")}
                 \cup {E(op, <<a>>) : op \in {"template", "call"}, a \in sub("str")}
                 \cup {E("get", <<a>>) : a \in sub("rec") \cup sub("arr")}
                 \cup {E("apply", <<f, a>>) : f \in sub("fn"), a \in Exprs(0, "str", scope)}
          [] t = "int" -> {Plus("==", q[1], q[2]) : q \in pairs("str")}
          [] t = "opt" -> {Ctor("opt", <<a>>) : a \in sub("str")}
          [] t = "rec" -> {Ctor("rec", q) : q \in pairs("str")}
          [] t = "arr" -> {E("array", q) : q \in pairs("str")}
          [] t = "fn"  -> {Fun("p", b) : b \in Exprs(n - 1, "str", ("p" :> "str") @@ scope)}
  IN names \cup leaves \cup (IF n = 0 THEN {} ELSE made \cup IF t \in {"str", "opt"} THEN control ELSE {})

(* let x = e in r, where r reads x through an array, a record or a closure.    *)
Indirect ==
  LET scope == ("x" :> "str") @@ Params
      fun   == {Fun("p", b) : b \in Exprs(1, "str", ("p" :> "str") @@ scope)}
      arg   == Exprs(0, "str", scope)
      using == {E("get", <<a>>) : a \in Exprs(1, "arr", scope) \cup Exprs(1, "rec", scope)}
                 \cup {E("apply", <<f, a>>) : f \in fun, a \in arg}
                 \cup {Let("bind", "f", f, E("apply", <<Var("f"), a>>)) : f \in fun, a \in arg}
  IN {Let("bind", "x", e, r) : e \in {Var("s"), E("call", <<Var("s")>>)}, r \in using}

Bodies == Exprs(Depth, "str", Params) \cup Indirect
=============================================================================
