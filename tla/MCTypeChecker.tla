--------------------------- MODULE MCTypeChecker ---------------------------
(* The two parts of the type checker, one or the other from the start on:   *)
(* the inference of the programs of MCInference, or any two calls of unify  *)
(* over types one constructor deep and three variables.                     *)
EXTENDS MCInference, Unification

Atoms == {Var(0), Var(1), Var(2), Prim("I32")}
Pairs == {Tag("Pair", <<s, t>>) : s \in Atoms, t \in {Var(1), Prim("I32")}}
Records == {RecordOf([n \in ns |-> IF n = "x" THEN s ELSE t]) :
              ns \in {{"x"}, {"x", "y"}}, s \in Atoms, t \in {Var(0), Prim("I32")}}
Terms == Atoms \cup {Prim("Str"), IntVar(3), Tag("Unit", <<>>), Tag("Pair", <<>>), Func(<<>>, Var(0))}
         \cup {Array(t) : t \in Atoms} \cup {Effect(t) : t \in {Var(0), Var(1)}}
         \cup {Func(<<s>>, t) : s, t \in Atoms} \cup Pairs \cup Records
         \cup {Tag("Pair", <<t>>) : t \in Atoms} \cup {Array(Array(Var(0)))}

FirstCalls == {<<Var(0), Var(1)>>, <<Var(1), Var(0)>>, <<Var(0), Array(Var(1))>>,
               <<Func(<<Var(0)>>, Var(1)), Func(<<Var(1)>>, Var(2))>>,
               <<Func(<<Var(0)>>, Var(1)), Func(<<Array(Var(1))>>, Array(Var(2)))>>,
               <<RecordOf([n \in {"x"} |-> Var(0)]), Var(1)>>,
               <<Tag("Pair", <<Var(0)>>), Tag("Pair", <<Var(1), Var(2)>>)>>,
               <<Prim("I32"), Var(2)>>}
GroundTypes == {Prim("I32"), Array(Prim("I32")),
                RecordOf([n \in {"x"} |-> Prim("I32")]), Func(<<Prim("I32")>>, Prim("I32"))}

MCVariables == {0, 1, 2}
MCLiterals == {3}
MCCalls == <<FirstCalls, Terms \X Terms>>

\* No program, and no call.
NoProgram == /\ program = <<>> /\ phase = "rejected" /\ pos = 1 /\ errors = {}
             /\ st = [scopes |-> <<Prelude>>, next |-> 1, sub |-> <<>>, odd |-> {}, pending |-> {}]

CheckerInit == NoCalls /\ (NoProgram \/ Init)
CheckerNext == \/ program # <<>> /\ Next /\ UNCHANGED unifyVars
               \/ program = <<>> /\ NextCall /\ UNCHANGED vars
CheckerSpec == CheckerInit /\ [][CheckerNext]_<<vars, unifyVars>>
=============================================================================
