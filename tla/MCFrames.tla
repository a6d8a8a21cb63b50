------------------------------- MODULE MCFrames -------------------------------
(* Functions whose parameters and captures are of different sizes, with units  *)
(* between them; one takes a closure, one an array.                          *)
EXTENDS Frames, TLC

Sig(cs, ps, r) == [captures |-> cs, params |-> ps, ret |-> r]
MCSignatures == ("pick" :> Sig(<<>>, <<"bool", "unit", "i32", "u8">>, "u8"))
             @@ ("mix" :> Sig(<<"i32", "unit", "u8">>, <<"unit", "i32">>, "i32"))
             @@ ("pass" :> Sig(<<"bool", "str">>, <<"closure", "i32">>, "i32"))
             @@ ("done" :> Sig(<<>>, <<"array">>, "unit"))
MCBeginnings == {Typed(t, 1) : t \in {"bool", "u8", "i32", "str"}} \cup {Typed("i32", 2), UnitWord}
=============================================================================
