------------------------------- MODULE Bridge -------------------------------
(***************************************************************************)
(* A call from compiled code to a builtin.  Compiled code holds words and   *)
(* blocks without types, the builtins hold tagged Values: arguments are     *)
(* boxed by the descriptor of their static type, results unboxed by that    *)
(* of the result, and a builtin that gets a closure calls compiled code     *)
(* again (runtime/src/jit.rs, stdlib/src/closure.rs).                       *)
(*                                                                          *)
(* The builtins are id, const, apply and flip of stdlib/src/prelude.rs,     *)
(* which only move values.  Blocks are trees; a slot that is read with      *)
(* another size or type than it was written with is Garbage.  Effects and   *)
(* null pointers are left out, and so are numbers beyond 31 bits.           *)
(***************************************************************************)
EXTENDS ValueTrees

CONSTANTS Levels,     \* the types in use, and how deep each is
          Crossing    \* for each type that crosses, the values that do

VARIABLES route,      \* the builtin called, "none" if none is
          given,      \* the value it is called with, and its type
          type,
          callee,     \* the closure apply and flip are called with
          view,       \* its type where it is passed on: as made, or as declared
          side,       \* where control is
          inside,     \* the builtin's arguments, then its result
          outcome     \* what the program gets

bridgeVars == <<route, given, type, callee, view, side, inside, outcome>>

-----------------------------------------------------------------------------
(* The values of compiled code. *)

\* The result of a call that failed unnoticed, and of one that aborted.
ZeroWord == [as |-> "zero"]
Aborted == [as |-> "aborted"]
\* The code of a closure returns its first argument or its first capture.
Closure(code, of, parts) == [as |-> "closure", code |-> code, of |-> of, parts |-> parts]

-----------------------------------------------------------------------------
(* The Values of the runtime. *)

Junk == [v |-> "junk"]
Err == [v |-> "Err"]
UnitValue == [v |-> "Unit"]
Num(kind, k) == [v |-> kind, n |-> k]
Float(r) == [v |-> "F64", r |-> r]
Str(s) == [v |-> "Str", s |-> s]
Elements(parts) == [v |-> "Array", parts |-> parts]
RecordValue(parts) == [v |-> "Record", parts |-> parts]
TagValue(d, parts) == [v |-> "Tag", disc |-> d, parts |-> parts]
JitClosure(code, captures, arity, params, ret) ==
    [v |-> "Closure", func |-> "jit", code |-> code, parts |-> captures,
     arity |-> arity, params |-> params, ret |-> ret]
BuiltinClosure(name, held, arity) ==
    [v |-> "Closure", func |-> "builtin", code |-> name, parts |-> held, arity |-> arity]

AtLeast0(k) == IF k < 0 THEN 0 ELSE k
Shorter(j, k) == IF j < k THEN j ELSE k

\* What the bytes after a slot of one byte add when four are read.
Beyond == 256

\* Drops all payload fields but one.
PayloadFirst(boxed) == IF boxed = <<>> THEN <<>> ELSE <<boxed[1]>>
\* One payload field stands for itself, more for a list; then the field is
\* turned back into a list, unless it is one already.
Payload(boxed) ==
    IF Len(boxed) # 1 THEN boxed
    ELSE CASE boxed[1].v = "Unit"  -> <<>>
           [] boxed[1].v = "Array" -> boxed[1].parts
           [] OTHER                -> boxed

\* Takes captures for arguments.
ArityOfAll(params, captures) == AtLeast0(params - 1)
\* Descriptors list captures, the environment and the arguments: the rest is
\* what a call brings.
Arity(params, captures) == AtLeast0(AtLeast0(params - captures) - 1)

BoxScalar(n, t) ==
    CASE t.is = "i8" -> Num("I32", n.n + Beyond)
      [] t.is = "i32" -> Num("I32", n.n)
      [] t.is = "usize" -> Num("Usize", n.n)
      [] t.is = "bool" -> Num("Bool", n.n)
      [] t.is = "unit" -> UnitValue
      [] t.is \in {"f32", "f64"} -> Float(n.r)
      [] t.is = "str" -> Str(n.s)
\* A Value that is none of the kind of the type becomes the empty one.
UnboxScalar(v, t) ==
    CASE t.is = "i8" -> Word(IF v.v \in {"I32", "Usize"} THEN v.n % 256 ELSE 0)
      [] t.is \in {"i32", "usize"} -> Word(IF v.v \in {"I32", "Usize"} THEN v.n ELSE 0)
      [] t.is = "bool" -> Word(IF v.v = "Bool" THEN v.n ELSE 0)
      [] t.is = "unit" -> Word(0)
      [] t.is \in {"f32", "f64"} -> Real(IF v.v = "F64" THEN v.r ELSE "0.0")
      [] t.is = "str" -> Text(IF v.v = "Str" THEN v.s ELSE "")

\* The payload of a variant; one that the type does not have has none.
FieldsOf(t, d) == IF d + 1 \in DOMAIN t.variants THEN t.variants[d + 1] ELSE <<>>
NamesOf(t) == {t.fields[i].name : i \in DOMAIN t.fields}
At(t, name) == CHOOSE i \in DOMAIN t.fields : t.fields[i].name = name

\* Boxing goes on with what is in the slots of a block, each with its type.
Contents(t, n) ==
    CASE n = Garbage -> <<>>
      [] t.is = "array" -> [i \in DOMAIN n.parts |-> <<t.of, n.parts[i]>>]
      [] t.is = "record" -> [i \in DOMAIN t.fields |-> <<t.fields[i].of, n.parts[i]>>]
      [] t.is = "tag" -> LET ts == FieldsOf(t, n.disc) IN [i \in DOMAIN ts |-> <<ts[i], n.parts[i]>>]
      [] OTHER -> <<>>
Boxed(t, n, parts) ==
    CASE n = Garbage -> Junk
      [] t.is = "array" -> Elements(parts)
      [] t.is = "record" -> RecordValue([f \in NamesOf(t) |-> parts[At(t, f)]])
      [] t.is = "tag" -> TagValue(n.disc, Payload(parts))
      [] OTHER -> BoxScalar(n, t)

\* Unboxing fills the slots: what is missing is ().
PartOrUnit(v, kind, i) == IF v.v = kind /\ i \in DOMAIN v.parts THEN v.parts[i] ELSE UnitValue
DiscOf(v) == IF v.v = "Tag" THEN v.disc ELSE 0
Wanted(t, v) ==
    CASE v = Junk -> <<>>
      [] t.is = "array" -> IF v.v = "Array" THEN [i \in DOMAIN v.parts |-> <<t.of, v.parts[i]>>] ELSE <<>>
      [] t.is = "record" ->
            [i \in DOMAIN t.fields |-> <<t.fields[i].of, PartOrUnit(v, "Record", t.fields[i].name)>>]
      [] t.is = "tag" -> LET ts == FieldsOf(t, DiscOf(v)) IN [i \in DOMAIN ts |-> <<ts[i], PartOrUnit(v, "Tag", i)>>]
      [] OTHER -> <<>>
Unboxed(t, v, parts) ==
    CASE v = Junk -> Garbage
      [] t.is \in {"array", "record"} -> Block(parts)
      [] t.is = "tag" -> Variant(DiscOf(v), parts)
      [] OTHER -> UnboxScalar(v, t)

-----------------------------------------------------------------------------
(* The recursion over a value, whatever is made of it. *)

\* What a value of compiled code is, whatever holds it.
Meant(t, n, parts) ==
    CASE t.is = "array" -> Elements(parts)
      [] t.is = "record" -> RecordValue([f \in NamesOf(t) |-> parts[At(t, f)]])
      [] t.is = "tag" -> TagValue(n.disc, parts)
      [] t.is = "i8" -> Num("I32", n.n)
      [] OTHER -> BoxScalar(n, t)

\* The values that do not arrive as they are: a byte inside a block, and a
\* variant whose only payload is () or an array, at any depth.
Alone(t, n, kinds) ==
    t.is = "tag" /\ LET ts == FieldsOf(t, n.disc) IN Len(ts) = 1 /\ ts[1].is \in kinds
HasChanged(t, n, parts) ==
    \/ \E i \in DOMAIN parts : parts[i] \/ Contents(t, n)[i][1].is = "i8"
    \/ Alone(t, n, {"unit", "array"})

\* The values that do not come back: those with an array that was the only
\* payload of a variant and is not empty.
IsEmptied(t, n, parts) ==
    (\E i \in DOMAIN parts : parts[i]) \/ (Alone(t, n, {"array"}) /\ n.parts[1].parts # <<>>)

\* The values that there are of a type.
Shaped(t, n) ==
    CASE t.is = "i8" -> n = Word(n.n) /\ n.n \in 0 .. 127
      [] t.is = "i32" -> n = Word(n.n) /\ n.n \in Int
      [] t.is = "usize" -> n = Word(n.n) /\ n.n \in Nat
      [] t.is = "bool" -> n = Word(n.n) /\ n.n \in 0 .. 1
      [] t.is = "unit" -> n = Word(0)
      [] t.is \in {"f32", "f64"} -> n = Real(n.r)
      [] t.is = "str" -> n = Text(n.s)
      [] t.is = "array" -> n = Block(n.parts) /\ IsRow(n.parts)
      [] t.is = "record" -> n = Block(n.parts) /\ n.parts = [i \in DOMAIN t.fields |-> n.parts[i]]
      [] t.is = "tag" -> /\ n = Variant(n.disc, n.parts) /\ n.disc + 1 \in DOMAIN t.variants
                         /\ n.parts = [i \in DOMAIN t.variants[n.disc + 1] |-> n.parts[i]]

SlotsOf(way, e) == IF way = "unbox" THEN Wanted(e[1], e[2]) ELSE Contents(e[1], e[2])
Made(way, e, parts) ==
    CASE way = "box" -> Boxed(e[1], e[2], parts)
      [] way = "unbox" -> Unboxed(e[1], e[2], parts)
      [] way = "mean" -> Meant(e[1], e[2], parts)
      [] way = "change" -> HasChanged(e[1], e[2], parts)
      [] way = "empty" -> IsEmptied(e[1], e[2], parts)
      [] way = "type" -> Shaped(e[1], e[2]) /\ \A i \in DOMAIN parts : parts[i]

\* All that is met on the way down from a value of type t, and what is made of it
\* on the way up.
Below(way, t, x) ==
    LET met[k \in 0 .. Levels[t]] ==
          IF k = 0 THEN {<<t, x>>}
          ELSE LET before == met[k - 1]
               IN  before \cup UNION {{SlotsOf(way, e)[i] : i \in DOMAIN SlotsOf(way, e)} : e \in before}
    IN  met[Levels[t]]
Converted(way, t, x) ==
    LET whole[e \in Below(way, t, x)] ==
          Made(way, e, [i \in DOMAIN SlotsOf(way, e) |-> whole[SlotsOf(way, e)[i]]])
    IN  whole[<<t, x>>]

Meaning(n, t) == Converted("mean", t, n)
Changed(n, t) == Converted("change", t, n)
Emptied(n, t) == Converted("empty", t, n)
IsOf(n, t) == Converted("type", t, n)

\* Closures are arguments and results, not parts of other values.
BoxClosure(n, t) ==
    JitClosure(n.code,
               [i \in 1..Shorter(Len(n.parts), Len(t.params)) |->
                   IF n.of[i] = t.params[i] THEN Converted("box", n.of[i], n.parts[i]) ELSE Junk],
               Arity(Len(t.params), Len(n.parts)), t.params, t.ret)
Box(n, t) == IF t.is = "closure" THEN BoxClosure(n, t) ELSE Converted("box", t, n)

\* Captures are written with their size taken for their type.
UnboxClosure(v) ==
    IF v.v # "Closure" THEN Closure("none", <<>>, <<>>)
    ELSE IF v.func = "builtin" THEN Closure("trampoline", <<>>, <<>>)
    ELSE Closure(v.code, [i \in DOMAIN v.parts |-> v.params[i]], [i \in DOMAIN v.parts |-> Garbage])
Unbox(v, t) == IF t.is = "closure" THEN UnboxClosure(v) ELSE Converted("unbox", t, v)

\* Types are finite trees, and the values are of their types.
Formed(t) ==
    /\ t.is \in {"i8", "i32", "usize", "bool", "unit", "f32", "f64", "str", "array", "record", "tag"}
    /\ t.is = "record" =>
          IsRow(t.fields) /\ \A i, j \in DOMAIN t.fields : t.fields[i].name = t.fields[j].name => i = j
    /\ t.is = "tag" => IsRow(t.variants) /\ \A d \in DOMAIN t.variants : IsRow(t.variants[d])
ASSUME BridgeAssumption ==
    /\ \A t \in DOMAIN Levels :
          /\ Levels[t] \in Nat /\ Formed(t)
          /\ \A p \in PartTypes(t) : p \in DOMAIN Levels /\ Levels[p] < Levels[t]
    /\ DOMAIN Crossing \cup {Of("str")} \subseteq DOMAIN Levels
    /\ \A t \in DOMAIN Crossing : \A n \in Crossing[t] : IsOf(n, t)

-----------------------------------------------------------------------------
(* From compiled code to a builtin and back. *)

Argument(n, t) == IF NeedsHeapBoxing(t) THEN Box(n, t)
                  ELSE IF t.is = "i8" THEN Num("I32", n.n) ELSE BoxScalar(n, t)
\* An f32 is loaded from the low half of an f64.
Result(v, t) == IF t.is = "f32" THEN Garbage ELSE Unbox(v, t)

\* Arguments and captures of a closure called by a builtin.
ToJit(v, t) ==
    IF t.is \in {"i8", "i32"} /\ v.v = "Usize" THEN Word(0) ELSE Unbox(v, t)
FromJit(n, t) == IF n = Garbage THEN Junk
                 ELSE IF IsHeap(t) THEN Box(n, t)
                 ELSE IF t.is = "i8" THEN Num("I32", n.n) ELSE BoxScalar(n, t)

RunJit(code, captures, args) == IF code = "first" THEN args[1] ELSE captures[1]

CallClosure(c, args) ==
    IF Len(args) # c.arity THEN Err
    ELSE LET k == Len(c.parts)
             captures == [i \in 1..k |-> ToJit(c.parts[i], c.params[i])]
             passed == [i \in DOMAIN args |-> ToJit(args[i], c.params[k + 1 + i])]
         IN FromJit(RunJit(c.code, captures, passed), c.ret)

\* The trampoline: the address of an argument's slot is boxed, where the
\* descriptor of a heap type wants the address in the slot.
Decoded(n, t) == IF IsHeap(t) THEN Junk ELSE BoxScalar(n, t)
Encoded(v, t) ==
    IF v = Err THEN ZeroWord
    ELSE IF t.is = "usize" \/ v = Junk THEN Garbage
    ELSE Unbox(v, t)

-----------------------------------------------------------------------------
(* One call. *)

EnvType == Of("i64")
TypeOfCallee(c, t) ==
    LET args == IF route = "flip" THEN <<t, t>> ELSE <<t>>
    IN ClosureOf(IF view = "made" THEN c.of \o <<EnvType>> \o args ELSE args, t)
Sample == [t \in DOMAIN Crossing |-> CHOOSE n \in Crossing[t] : TRUE]
Firsts == {Closure("first", <<>>, <<>>), Closure("first", <<Of("str")>>, <<Text("text")>>)}
Capturing(t) == {Closure("captured", <<t>>, <<n>>) : n \in Crossing[t]}

BridgeInit ==
    /\ route \in {"id", "const", "apply", "flip"}
    /\ type \in DOMAIN Crossing
    /\ \/ /\ route \in {"id", "const"} /\ callee = Garbage /\ view = "made"
          /\ given \in Crossing[type]
       \/ /\ route \in {"apply", "flip"} /\ view \in {"made", "declared"}
          /\ \/ callee \in Firsts /\ given \in Crossing[type]
             \/ callee \in Capturing(type) /\ given = Sample[type]
    /\ side = "program" /\ inside = <<>> /\ outcome = Garbage

\* compile_builtin_call and pipe_rt_call_builtin: the arguments are boxed.
\* flip gets its closure alone, the two arguments come with the second call.
Enter ==
    /\ side = "program"
    /\ inside' = CASE route \in {"id", "const"} -> <<Argument(given, type)>>
                  [] route = "apply" ->
                        <<Box(callee, TypeOfCallee(callee, type)), Argument(given, type)>>
                  [] route = "flip" -> <<Box(callee, TypeOfCallee(callee, type))>>
    /\ side' = "builtin"
    /\ UNCHANGED <<route, given, type, callee, view, outcome>>

Execute ==
    /\ side = "builtin"
    /\ inside' = CASE route = "id"    -> inside
                  [] route = "const" -> <<BuiltinClosure("const.closure", inside, 1)>>
                  [] route = "apply" -> <<CallClosure(inside[1], <<inside[2]>>)>>
                  [] route = "flip"  -> <<BuiltinClosure("flip.closure", inside, 2)>>
    /\ side' = "executed"
    /\ UNCHANGED <<route, given, type, callee, view, outcome>>

\* A failed builtin traps.  A closure is registered with its buffer.
Leave ==
    /\ side = "executed"
    /\ IF route \in {"id", "apply"}
       THEN /\ outcome' = IF inside[1] = Err THEN Aborted ELSE Result(inside[1], type)
            /\ side' = "back" /\ inside' = inside
       ELSE /\ outcome' = Unbox(inside[1], ClosureOf(<<type>>, type))
            /\ side' = "holding" /\ inside' = inside
    /\ UNCHANGED <<route, given, type, callee, view>>

\* The program calls the closure it got: const's with a number, flip's with an
\* argument that should not come back and then the given one.  Boxing the
\* address of a slot for a block is undefined.
Trampoline ==
    /\ side = "holding" /\ outcome.code = "trampoline"
    /\ LET args == IF route = "const" THEN <<Decoded(Word(1), Of("i32"))>>
                   ELSE <<Decoded(Sample[type], type), Decoded(given, type)>>
           held == inside[1].parts[1]
       IN outcome' = IF Junk \in {args[i] : i \in DOMAIN args} THEN Garbage
                     ELSE Encoded(IF route = "const" THEN held
                                  ELSE CallClosure(held, <<args[2], args[1]>>), type)
    /\ side' = "back"
    /\ UNCHANGED <<route, given, type, callee, view, inside>>

Cross == Enter \/ Execute \/ Leave \/ Trampoline
BridgeSpec == BridgeInit /\ [][Cross]_bridgeVars

-----------------------------------------------------------------------------
(* Properties *)

\* A builtin works on what the program passed to it: every value arrives as
\* what it is, but for those that Changed lists (jit.rs:3997).
ArrivesWhole ==
    side = "builtin" /\ route \in {"id", "const", "apply"} =>
        (inside[Len(inside)] = Meaning(given, type) <=> ~Changed(given, type))

\* What the program would get if the builtin were compiled like a function of
\* its own.
Direct == IF callee # Garbage /\ callee.code = "captured" THEN callee.parts[1] ELSE given

\* The calls that go wrong: the result is an f32 or loses an array; a usize
\* comes back through a builtin closure; the closure has a type without its
\* captures and environment; a builtin closure is called with an argument on
\* the heap.
GoesWrong ==
    \/ Emptied(Direct, type)
    \/ route \in {"id", "apply"} /\ type.is = "f32"
    \/ route \in {"const", "flip"} /\ type.is = "usize"
    \/ callee # Garbage /\ view = "declared"
    \/ route = "flip" /\ IsHeap(type)

\* A builtin is as good as a function of the program: the call gives what it
\* would give, but in the cases GoesWrong lists (jit.rs:1542).
SameAsDirect == side = "back" => (outcome = Direct <=> ~GoesWrong)
=============================================================================
