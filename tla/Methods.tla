------------------------------ MODULE Methods ------------------------------
(***************************************************************************)
(* Method calls on values of builtin types.  The parser turns x.m(..) into *)
(* m(x, ..); which function m is, is decided three times: by the type      *)
(* checker (infer.rs 597-636, with the signatures of env.rs), by the       *)
(* lowering (qualify_method_name and the branches of Expr::Application in  *)
(* lower.rs) and by the name under which the standard library registers    *)
(* its builtins (prelude_builtins).  And what Some, None, Ok and Err are   *)
(* at run time is decided twice: constructors and matches in the source    *)
(* number the variants as load_prelude lists them, the builtins test for   *)
(* the tags 0 and 1.                                                       *)
(*                                                                         *)
(* A state is a value a program holds and the call it makes with it.       *)
(* Effects are left out: a bare name is never qualified for them.          *)
(***************************************************************************)
EXTENDS Integers, Sequences

CONSTANT Depth      \* method calls in a row

VARIABLES ty,       \* static type of the value, or "other"
          val,      \* the value: kind and tag at run time, and its content
          meant,    \* what it is by the documentation: variant and content
          maker,    \* "source" or "builtin": who has built it
          crossed,  \* history: a Result built by one was taken by the other
          call,     \* the call: name, arity, bound, chosen, emitted
          stage,    \* "value", "checked", "lowered" or "error"
          len       \* calls made

methodVars == <<ty, val, meant, maker, crossed, call, stage, len>>
-----------------------------------------------------------------------------
(* Names are sequences: <<"map">> is bare, <<"Option", "map">> qualified.  *)
Entries(ns, ts, k) == {[name |-> <<n>>, takes |-> ts, arity |-> k] : n \in ns}
EntriesOf(t, ns, k) == {[name |-> <<t, n>>, takes |-> {t}, arity |-> k] : n \in ns}
Named(table, n) == {e \in table : e.name = n}

TypeOf == {"Array", "Str", "I32", "Usize", "Option", "Result"}
KindOf(t) == IF t \in {"Option", "Result"} THEN "Tag" ELSE t

\* The signatures the type checker knows.
Env ==
    Entries({"len", "head", "tail"}, {"Array"}, 1)
    \cup Entries({"map", "filter", "flat_map", "concat", "prepend", "drop", "take"}, {"Array"}, 2)
    \cup Entries({"trim", "parse_i32"}, {"Str"}, 1) \cup Entries({"split"}, {"Str"}, 2)
    \cup Entries({"unwrap_or", "unwrapOr", "flatMap", "unwrap"}, {"Option"}, 2)
    \cup Entries({"to_str", "to_i32", "to_i64"}, TypeOf, 1) \cup Entries({"to_usize"}, {"I32"}, 1)
    \cup EntriesOf("Str", {"len", "trim", "parse_i32"}, 1) \cup EntriesOf("Str", {"concat", "split"}, 2)
    \cup UNION {EntriesOf(t, {"map", "flat_map", "flatMap", "unwrapOr", "unwrap_or"}, 2) :
                  t \in {"Option", "Result"}}

\* The builtins registered, and the values they take.
Registry ==
    Entries({"len", "head", "tail"}, {"Array"}, 1)
    \cup Entries({"map", "filter", "flat_map", "concat", "prepend", "drop", "take"}, {"Array"}, 2)
    \cup Entries({"trim", "parse_i32"}, {"Str"}, 1) \cup Entries({"split"}, {"Str"}, 2)
    \cup Entries({"unwrap_or"}, {"Tag"}, 2) \cup Entries({"unwrap"}, {"Tag"}, 1)
    \cup Entries({"to_str"}, {"Array", "Str", "I32", "Usize"}, 1)
    \cup Entries({"to_i32", "to_i64"}, {"I32", "Usize"}, 1)
    \cup EntriesOf("Str", {"len", "trim", "parse_i32"}, 1) \cup EntriesOf("Str", {"concat", "split"}, 2)
    \cup {[e EXCEPT !.takes = {"Tag"}] : e \in EntriesOf("Option", {"map", "flat_map", "unwrap_or"}, 2)
                                              \cup EntriesOf("Result", {"map", "flat_map"}, 2)}

MethodNames == {e.name[Len(e.name)] : e \in Env}
-----------------------------------------------------------------------------
(* Variants.                                                                 *)
VariantsOf(t) == IF t = "Option" THEN <<"None", "Some">> ELSE <<"Ok", "Err">>
Good == {"Some", "Ok"}
GoodOf(t) == IF t = "Option" THEN "Some" ELSE "Ok"
BadOf(t) == IF t = "Option" THEN "None" ELSE "Err"

\* find_tag_constructor: a variant's place in the list.
Discriminant(t, v) == (CHOOSE i \in 1 .. 2 : VariantsOf(t)[i] = v) - 1

\* What the builtins build.
BuiltinTag(v) == IF v \in Good THEN 1 ELSE 0

\* The variant a value is to a match in the source, and to a builtin.
View(who, t, tag) == IF who = "source" THEN VariantsOf(t)[tag + 1]
                     ELSE IF tag = 1 THEN GoodOf(t) ELSE BadOf(t)

Content(of) == [of |-> of, mapped |-> FALSE]
Held(v) == Content(IF v \in Good THEN "success" ELSE IF v = "Err" THEN "failure" ELSE "nothing")
Mapped(c) == [c EXCEPT !.mapped = TRUE]
PlainValue(t) == [kind |-> KindOf(t), tag |-> 0, content |-> Content("value")]
NoCall == [name |-> <<>>]

MethodInit ==
    /\ ty \in TypeOf
    /\ IF KindOf(ty) = "Tag"
       THEN \E v \in {GoodOf(ty), BadOf(ty)} :
              /\ val = [kind |-> "Tag", tag |-> Discriminant(ty, v), content |-> Held(v)]
              /\ meant = [variant |-> v, content |-> Held(v)]
       ELSE val = PlainValue(ty) /\ meant = [variant |-> "none", content |-> Content("value")]
    /\ maker = "source" /\ crossed = FALSE
    /\ call = NoCall /\ stage = "value" /\ len = 0
-----------------------------------------------------------------------------
\* infer, Expr::Application: a bare name stands for the receiver type's method if
\* there is one.  The receiver's type may be a variable still (known = FALSE):
\* then unification with the bare name's parameter finds it.  bound says
\* whether the program has a function of that name itself.
CheckCall(name, arity, bound, known) ==
    LET bare == IF bound # "no" THEN <<"user">> ELSE <<name>>
        chosen == IF known /\ Named(Env, <<ty, name>>) # {} THEN <<ty, name>> ELSE bare
    IN  /\ stage = "value" /\ len < Depth /\ ty # "other"
        /\ chosen # <<"user">> =>
             \E e \in Named(Env, chosen) : ty \in e.takes /\ e.arity = arity
        /\ call' = [name |-> name, arity |-> arity, bound |-> bound, chosen |-> chosen, emitted |-> <<>>]
        /\ stage' = "checked" /\ len' = len + 1
        /\ UNCHANGED <<ty, val, meant, maker, crossed>>

\* Faulty variant: Result is forgotten.
QualifyOptionOnly(name, t) ==
    IF name \in {"map", "flat_map"} /\ t = "Option" THEN <<t, name>> ELSE <<name>>

QualifyMethodName(name, t) ==
    IF name \in {"map", "flat_map"} /\ t \in {"Option", "Result"} THEN <<t, name>> ELSE <<name>>

\* lower_expr, Expr::Application: locals (and globals that are no lambdas) first, then the name is qualified, then
\* the program's declarations, and anything else is left to the registry.
Lower ==
    LET q == QualifyMethodName(call.name, ty)
        own == call.bound = "local" \/ (call.bound = "global" /\ q = <<call.name>>)
    IN  /\ stage = "checked"
        /\ call' = [call EXCEPT !.emitted = IF own THEN <<"user">> ELSE q]
        /\ stage' = "lowered"
        /\ UNCHANGED <<ty, val, meant, maker, crossed, len>>

Taken(e) == val.kind \in e.takes /\ e.arity = call.arity
Reached == \E e \in Named(Registry, call.emitted) : Taken(e)
Becomes(t, v, m, who) ==
    /\ ty' = t /\ val' = v /\ meant' = m /\ maker' = who
    /\ call' = NoCall /\ stage' = "value" /\ UNCHANGED len

Calls(names) == stage = "lowered" /\ Reached /\ call.name \in names

\* The variant the builtins take a tag for.  Faulty variant: exchanged.
SuccessIfZero(tag) == tag = 0
Success(tag) == tag = 1

\* Option.map, Result.map: the content of a success, anything else as it is.
RunMap ==
    /\ Calls({"map"}) /\ KindOf(ty) = "Tag"
    /\ Becomes(ty, [val EXCEPT !.content = IF Success(val.tag) THEN Mapped(@) ELSE @],
               [meant EXCEPT !.content = IF meant.variant \in Good THEN Mapped(@) ELSE @], maker)
    /\ crossed' = (crossed \/ (ty = "Result" /\ maker = "source"))

\* flat_map: what the closure returns is built by the program.
RunFlatMap ==
    /\ Calls({"flat_map"}) /\ KindOf(ty) = "Tag"
    /\ \E v \in {GoodOf(ty), BadOf(ty)} :
         LET of(c) == IF v \in Good THEN Mapped(c) ELSE Held(v)
         IN  Becomes(ty,
                     IF Success(val.tag)
                     THEN [val EXCEPT !.tag = Discriminant(ty, v), !.content = of(@)] ELSE val,
                     IF meant.variant \in Good
                     THEN [variant |-> v, content |-> of(meant.content)] ELSE meant,
                     IF Success(val.tag) THEN "source" ELSE maker)
    /\ crossed' = (crossed \/ (ty = "Result" /\ maker = "source"))

RunUnwrapOr ==
    /\ Calls({"unwrap_or"})
    /\ Becomes("I32", [PlainValue("I32") EXCEPT !.content = IF Success(val.tag) THEN val.content ELSE Content("default")],
               [variant |-> "none",
                content |-> IF meant.variant \in Good THEN meant.content ELSE Content("default")], "builtin")
    /\ crossed' = (crossed \/ (ty = "Result" /\ maker = "source"))

\* head, tail and parse_i32 build an Option or a Result.
RunBuild ==
    /\ Calls({"head", "tail", "parse_i32"})
    /\ LET t == IF call.name = "parse_i32" THEN "Result" ELSE "Option"
       IN  \E v \in {GoodOf(t), BadOf(t)} :
             Becomes(t, [kind |-> "Tag", tag |-> BuiltinTag(v), content |-> Held(v)],
                     [variant |-> v, content |-> Held(v)], "builtin")
    /\ UNCHANGED crossed

ResultOf(name) == CASE name \in {"len", "to_usize"} -> "Usize"
                    [] name \in {"to_i32", "to_i64"} -> "I32"
                    [] name \in {"trim", "to_str"} -> "Str"
                    [] name \in {"map", "filter", "flat_map", "prepend", "drop", "take", "split"} -> "Array"
                    [] OTHER -> ty

RunPlain ==
    /\ Calls(MethodNames \ {"head", "tail", "parse_i32", "unwrap_or"})
    /\ call.name \in {"map", "flat_map"} => ty = "Array"
    /\ Becomes(ResultOf(call.name), PlainValue(ResultOf(call.name)),
               [variant |-> "none", content |-> Content("value")], "builtin")
    /\ UNCHANGED crossed

\* A function of the program, whatever it does, ends what is followed here.
RunUser ==
    /\ stage = "lowered" /\ call.emitted = <<"user">>
    /\ ty' = "other" /\ stage' = "value" /\ call' = NoCall
    /\ UNCHANGED <<val, meant, maker, crossed, len>>

\* execute_builtin: "unknown builtin function", or the builtin's own complaint.
Fails ==
    /\ stage = "lowered" /\ call.emitted # <<"user">> /\ ~Reached
    /\ stage' = "error"
    /\ UNCHANGED <<ty, val, meant, maker, crossed, call, len>>

NextStage == \/ \E n \in MethodNames, k \in 1 .. 2, b \in {"no", "global", "local"}, known \in BOOLEAN :
              CheckCall(n, k, b, known)
        \/ Lower
        \/ RunMap \/ RunFlatMap \/ RunUnwrapOr \/ RunBuild \/ RunPlain \/ RunUser \/ Fails

MethodSpec == MethodInit /\ [][NextStage]_methodVars
-----------------------------------------------------------------------------
\* Calls on which the three tables disagree.
Broken ==
    {<<"Str", "len">>, <<"Str", "concat">>, <<"I32", "to_usize">>}
    \cup {"Option", "Result"} \X {"flatMap", "unwrapOr", "to_str", "to_i32", "to_i64"}
    \cup {"Array", "Str"} \X {"to_i32", "to_i64"}
    \cup {<<"Option", "unwrap">>}

\* Calls that are typed as one function and run another: the program's own
\* function is hidden from the type checker by a method of the receiver's type,
\* or from the lowering by a receiver whose type was found later.
Hidden == (call.chosen = <<"user">>) # (call.emitted = <<"user">>)

\* A call the type checker has accepted reaches a builtin that takes the receiver
\* and so many arguments, but for the pairs of Broken and for functions that are
\* hidden: the tables in three crates agree on everything else.
TablesAgree == stage = "error" => <<ty, call.name>> \in Broken \/ Hidden

\* The value is what the calls that made it are documented to return, to the side
\* that made it, as long as no Result has passed between the program and the
\* builtins (plan-main.md 7.5, 7.6).
KeepsMeaning ==
    stage = "value" /\ ty # "other" /\ ~crossed =>
        /\ val.content = meant.content
        /\ KindOf(ty) = "Tag" => View(maker, ty, val.tag) = meant.variant

\* The same without exceptions, as the program sees it.
MeansWhatItSays ==
    stage = "value" /\ ty \in {"Option", "Result"} =>
        View("source", ty, val.tag) = meant.variant /\ val.content = meant.content
=============================================================================
