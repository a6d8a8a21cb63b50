----------------------------- MODULE MCMonomorph -----------------------------
(***************************************************************************)
(* Three bindings: f and f_Closure_Ret, both polymorphic, and f_I32.  f at *)
(* I32 goes by the name of the third, f at () -> I32 by that of the second *)
(* at I32, and the two payloads of a tag are written alike.                *)
(***************************************************************************)
EXTENDS Monomorph, FiniteSetsExt, TLC

CONSTANTS first, second, third,
          MaxArrays    \* array levels of the deepest type that is asked for

MCDecls == {first, second, third}
MCPoly == {first, second}
W(w) == [word |-> w, arrays |-> 0]
MCIdent == (first :> <<W("f")>>) @@ (second :> <<W("f"), W("Closure"), W("Ret")>>) @@ (third :> <<W("f"), W("I32")>>)

Own(d, n) == [to |-> d, at |-> [own |-> TRUE, arrays |-> n]]
At(d, b, n) == [to |-> d, at |-> [own |-> FALSE, type |-> [base |-> b, arrays |-> n]]]

UpTo(k, S) == UNION {kSubset(n, S) : n \in 0..k}

\* Recursion, mutual recursion, mentions of a later binding, types that deepen
\* from a binding to an earlier one, or without end, and names that are taken.
MCPrograms ==
    {(first :> a) @@ (second :> b) @@ (third :> c) :
        a \in UpTo(1, {Own(first, 0), Own(second, 0), At(second, "Str", 0), Own(third, 0)}),
        b \in UpTo(2, {Own(first, 0), Own(first, 1), Own(second, 0), At(first, "Str", 1)}),
        c \in {{At(first, "I32", 0)}, {At(first, "Str", 0), At(second, "I32", 1)},
               {At(first, "() -> I32", 0), At(second, "I32", 0)},
               {At(first, "Some of Str", 0), At(first, "Some of I32", 0)}}}

MCBases == {"I32", "Str", "() -> I32", "Some of I32", "Some of Str"}
MCText == [b \in MCBases |->
              CASE b \in {"I32", "Str"} -> <<W(b)>>
                [] b = "() -> I32" -> <<W("Closure"), W("Ret"), W("I32")>>
                [] OTHER -> <<W("Tag"), W("Option")>>]

Shallow == \A i \in DOMAIN queue : queue[i].spec.arg = NoArgs \/ queue[i].spec.arg.arrays <= MaxArrays
=============================================================================
