---------------------------- MODULE MCInference ----------------------------
(* Programs in which every form of expression meets every kind of value:    *)
(* a value is bound by a parameter, something made of it by a let, and the  *)
(* two are used; and two declarations in either order.                      *)
EXTENDS Inference

MCFieldNames == <<"a", "b", "x", "y">>

Num == [form |-> "Int"]
Str == [form |-> "Str"]
Truth(b) == [form |-> "Bool", b |-> b]
Id(n) == [form |-> "Ident", name |-> n]
Lam(ps, b) == [form |-> "Lambda", params |-> ps, body |-> b]
App(f, as) == [form |-> "App", func |-> f, args |-> as]
Add(a, b) == [form |-> "Add", left |-> a, right |-> b]
Equal(a, b) == [form |-> "Eq", left |-> a, right |-> b]
And(a, b) == [form |-> "And", left |-> a, right |-> b]
Neg(a) == [form |-> "Neg", operand |-> a]
If(c, a, b) == [form |-> "If", cond |-> c, yes |-> a, no |-> b]
Let(p, v) == [pattern |-> p, value |-> v]
Block(ls, r) == [form |-> "Block", lets |-> ls, result |-> r]
Match(s, arms) == [form |-> "Match", subject |-> s, arms |-> arms]
Arm(p, b) == [pattern |-> p, body |-> b]
Arr(es) == [form |-> "Array", elems |-> es]
Tup(es) == [form |-> "Tuple", elems |-> es]
Rec(ns, vs) == [form |-> "Record", names |-> ns, values |-> vs]
Field(o, n) == [form |-> "Field", object |-> o, name |-> n]
Index(a, i) == [form |-> "Index", array |-> a, index |-> i]

Any == [form |-> "Wildcard"]
Name(n) == [form |-> "Binding", name |-> n]
One == [form |-> "Int"]
Both(ps) == [form |-> "Tuple", parts |-> ps]
Fields(ns) == [form |-> "Record", names |-> ns]
Con(n, ps) == [form |-> "Constructor", name |-> n, parts |-> ps]

Values == {Num, Str, Truth(TRUE), Lam(<<"z">>, Id("z")), Lam(<<"z">>, Add(Id("z"), Num)),
           Lam(<<"z">>, Index(Id("z"), Num)), Lam(<<"z">>, Field(Id("z"), "x")),
           Arr(<<>>), Arr(<<Num>>), Tup(<<Num, Str>>), Rec(<<"x">>, <<Str>>),
           Rec(<<"x", "y">>, <<Num, Str>>), App(Id("Some"), <<Num>>), Id("None"),
           Block(<<Let(Name("z"), Num), Let(Name("z"), Str)>>, Id("z"))}

Uses(ns) ==
    LET names == {Id(n) : n \in ns}
        leaves == names \cup {Num, Str}
    IN  leaves
        \cup {Add(a, b) : a \in names, b \in leaves} \cup {Equal(a, Num) : a \in names}
        \cup {And(a, b) : a \in names, b \in leaves} \cup {Neg(a) : a \in names}
        \cup {If(c, a, b) : c \in {Truth(FALSE)} \cup names, a \in names, b \in leaves}
        \cup {App(a, <<b>>) : a \in names, b \in leaves} \cup {App(a, <<>>) : a \in names}
        \cup {Index(a, Num) : a \in names} \cup {Field(a, f) : a \in names, f \in {"x", "y"}}
        \cup {Arr(<<a, b>>) : a \in names, b \in leaves}
        \cup {Tup(<<a, Num>>) : a \in names} \cup {Rec(<<"x">>, <<a>>) : a \in names}
        \cup {App(Id("Some"), <<a>>) : a \in names}
        \cup {Match(a, <<Arm(Con("Some", <<Name("z")>>), Add(Id("z"), Num)), Arm(p, Num)>>) :
                a \in names, p \in {Con("None", <<>>), Any, Con("Some", <<Any>>)}}
        \cup {Match(a, <<Arm(One, Num), Arm(Name("z"), Id("z"))>>) : a \in names}
        \cup {Match(a, <<Arm(Both(<<Name("z"), Any>>), Add(Id("z"), Num))>>) : a \in names}
        \cup {Match(a, <<Arm(Fields(<<"x">>), Id("x"))>>) : a \in names}
        \cup {Block(<<Let(Both(<<Name("z"), Any>>), a)>>, Id("z")) : a \in names}
        \cup {Lam(<<"z">>, Add(Id("z"), a)) : a \in names}
        \cup {Lam(<<"z">>, App(a, <<Id("z")>>)) : a \in names}

Decl(n, a, v) == [name |-> n, ann |-> a, value |-> v]
Main(e) == Decl("main", Unannotated, Lam(<<>>, e))
Main1(v, u, w) == <<Main(App(Lam(<<"x">>, Block(<<Let(Name("y"), u)>>, w)), <<v>>))>>

TwoLets(v, u, w) == <<Main(Block(<<Let(Name("x"), v), Let(Name("y"), u)>>, w))>>
Functions == {Lam(<<"x">>, u) : u \in Uses({"x"})} \cup Values
             \cup {Lam(<<"n">>, If(Truth(TRUE), Num, App(Id("f"), <<Id("n")>>)))}
Annotations == {Unannotated, Func(<<Prim("I32")>>, Prim("I32"))}

\* Uses of the parameter of another function, which is in scope after an error.
LeftUses == {Id("x"), Arr(<<Id("x")>>), Lam(<<"z">>, App(Id("x"), <<Id("z")>>))}

Init == \/ \E v \in Values, u \in Uses({"x"}), w \in Uses({"x", "y"}) : Start(Main1(v, u, w))
        \/ \E v \in Values, u \in Uses({"x"}), w \in Uses({"y"}) : Start(TwoLets(v, u, w))
        \/ \E a \in Annotations, d \in Functions, e \in Uses({"f"}) \cup LeftUses :
              \/ Start(<<Decl("f", a, d), Main(e)>>)
              \/ Start(<<Main(e), Decl("f", a, d)>>)
Spec == Init /\ [][Next]_vars

\* ((x) => { let y = x[0]; y + "a" })([1]): accepted, and an integer meets a string.
CaptureSpec == Start(Main1(Arr(<<Num>>), Index(Id("x"), Num), Add(Id("y"), Str))) /\ [][Next]_vars
=============================================================================
