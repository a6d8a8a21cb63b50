-------------------------------- MODULE Frames --------------------------------
(***************************************************************************)
(* How values pass between compiled functions (runtime/src/jit.rs).  A      *)
(* function takes two pointers: to a buffer with one slot of eight bytes    *)
(* for its environment and one for each argument, and to a buffer for its   *)
(* result.  A closure is a block with a slot for its code, one for the      *)
(* number of its captures and one for each capture; its function gets the   *)
(* block for an environment.  Elements of arrays have no slots: they are    *)
(* packed by size.                                                          *)
(*                                                                          *)
(* A value is its type and a name; memory is bytes, each of which is the    *)
(* n-th byte of the value that was stored there.  Programs are rows of the  *)
(* instructions that compile_instruction takes, of the types they ask for;  *)
(* ir/src/lower.rs makes no arrays and no tail calls yet.  Nothing is       *)
(* freed: Ownership is about that.                                          *)
(***************************************************************************)
EXTENDS Integers, Sequences

CONSTANTS Signatures,  \* Signatures[f]: the types of captures and params, and of the result
          Beginnings,  \* the values main begins with
          MaxFrames,   \* functions running at a time
          MaxObjects,  \* closures and arrays made in a run
          MaxLength    \* elements of a new array

ASSUME FramesAssumption ==
    /\ {MaxFrames, MaxObjects, MaxLength} \subseteq Nat
    /\ \A f \in DOMAIN Signatures :
          Signatures[f] \in [captures : Seq(STRING), params : Seq(STRING), ret : STRING]

\* main makes its own closures and arrays, and there is one unit.
ASSUME BeginningsAssumption ==
    \A c \in Beginnings : /\ DOMAIN c = {"type", "name"}
                          /\ c.type \notin {"closure", "array"}
                          /\ c.type = "unit" => c = [type |-> "unit", name |-> 0]

VARIABLES frames,    \* the running functions, the innermost last
          objects    \* the closures and arrays made so far

framesVars == <<frames, objects>>

-----------------------------------------------------------------------------
(* Bytes. *)

SizeOf(t) == CASE t \in {"u8", "bool"} -> 1
               [] t \in {"i32", "f32", "unit"} -> 4
               [] OTHER -> 8

Typed(t, n) == [type |-> t, name |-> n]
UnitWord == Typed("unit", 0)
Null == Typed("i64", 0)

\* What a load finds that does not read one whole value.
Torn == Typed("torn", 0)

Blank(n) == [k \in 0..n - 1 |-> [of |-> Torn, nth |-> k]]
Stored(b, v, at) == [k \in DOMAIN b |-> IF k \in at..at + SizeOf(v.type) - 1 THEN [of |-> v, nth |-> k - at] ELSE b[k]]
Whole(b, size, at) ==
    /\ at + size - 1 \in DOMAIN b
    /\ SizeOf(b[at].of.type) = size
    /\ \A n \in 0..size - 1 : b[at + n] = [of |-> b[at].of, nth |-> n]
Loaded(b, t, at) == IF Whole(b, SizeOf(t), at) THEN b[at].of ELSE Torn

\* A parameter or a result: unit is not loaded at all.
LoadPrimitive(b, t, at) == IF t = "unit" THEN UnitWord ELSE Loaded(b, t, at)

\* Those of vs that are kept, each at the beginning of its slot of eight bytes.
InSlots(b, vs, at, kept) ==
    [k \in DOMAIN b |-> LET i == (k - at) \div 8 + 1
                            n == (k - at) % 8
                        IN  IF i \in kept /\ n < SizeOf(vs[i].type) THEN [of |-> vs[i], nth |-> n] ELSE b[k]]

\* The slot of a unit is left as it is.
StoreEach(b, vs, at) == InSlots(b, vs, at, {i \in DOMAIN vs : vs[i].type # "unit"})

\* Faulty variant: a unit has no slot.
StoreDense(b, vs, at) ==
    LET kept == SelectSeq(vs, LAMBDA v : v.type # "unit") IN StoreEach(b, kept, at)
StoreArguments(b, vs, at) == StoreEach(b, vs, at)

\* A capture is stored whatever its type.
StoreCaptures(b, vs, at) == InSlots(b, vs, at, DOMAIN vs)

-----------------------------------------------------------------------------
(* Registers: what the compiled code holds, and what the program means. *)

Register(t, is, meant) == [type |-> t, is |-> is, meant |-> meant]
Top == frames[Len(frames)]
Running(r) == r \in Top.registers /\ ~ Top.leaving
Actual(rs) == [i \in DOMAIN rs |-> rs[i].is]
MeantOf(rs) == [i \in DOMAIN rs |-> rs[i].meant]
RegistersOf(types) ==
    {rs \in [DOMAIN types -> Top.registers] : \A i \in DOMAIN types : rs[i].type = types[i]}

\* The object a register points to, if it is one of this kind.
Points(r, kind) == r.is.type = kind /\ r.is.name \in DOMAIN objects
Pointers(kind) == {r \in Top.registers : Points(r, kind)}
ObjectOf(r) == objects[r.is.name]
Fresh(kind) == Typed(kind, Len(objects) + 1)

FramesInit ==
    /\ frames = <<[function |-> "main", registers |-> {Register(c.type, c, c) : c \in Beginnings},
                   tail |-> FALSE, leaving |-> FALSE]>>
    /\ objects = <<>>

Put(r) == /\ r \notin Top.registers
          /\ frames' = [frames EXCEPT ![Len(frames)].registers = @ \cup {r}]
NewObject(o) == Len(objects) < MaxObjects /\ objects' = Append(objects, o)
Room == Len(frames) < MaxFrames

-----------------------------------------------------------------------------
(* Closures and calls. *)

\* Sixteen bytes in front of the captures: the code, and how many there are.
MakeClosure(f, captured) ==
    /\ ~ Top.leaving
    /\ NewObject([function |-> f, parts |-> MeantOf(captured),
                  bytes |-> StoreCaptures(Stored(Stored(Blank(16 + 8 * Len(captured)), Typed("code", f), 0),
                                                 Typed("usize", Len(captured)), 8),
                                          Actual(captured), 16)])
    /\ Put(Register("closure", Fresh("closure"), Fresh("closure")))

\* compile_function: the environment and the parameters are loaded when the
\* function begins, the captures from the environment (ClosureGet).
CaptureAt(i) == 16 + 8 * (i - 1)
Entered(f, args, meant, captures) ==
    LET env == LoadPrimitive(args, IF captures = <<>> THEN "i64" ELSE "closure", 0)
        ps == Signatures[f].params
        cs == Signatures[f].captures
    IN  {Register(ps[i], LoadPrimitive(args, ps[i], 8 * i), meant[i]) : i \in DOMAIN ps}
        \cup {Register(cs[i], IF env.name \in DOMAIN objects THEN Loaded(objects[env.name].bytes, cs[i], CaptureAt(i))
                              ELSE Torn, captures[i]) : i \in DOMAIN cs}

\* The buffer of arguments, behind an environment.
ArgumentsOf(env, args) == StoreArguments(Stored(Blank(8 * (Len(args) + 1)), env, 0), Actual(args), 8)

Begin(f, env, args, captures, tail) ==
    frames' = Append([frames EXCEPT ![Len(frames)].tail = tail],
                     [function |-> f, registers |-> Entered(f, ArgumentsOf(env, args), MeantOf(args), captures),
                      tail |-> FALSE, leaving |-> FALSE])

CallNamed(f, args) ==
    /\ Room /\ ~ Top.leaving
    /\ Begin(f, Null, args, <<>>, FALSE)
    /\ UNCHANGED objects

\* The code is what the block begins with.
CodeOf(c) == Loaded(ObjectOf(c).bytes, "code", 0).name
CallIndirect(c, args) ==
    /\ Room /\ Running(c)
    /\ Begin(CodeOf(c), c.is, args, ObjectOf(c).parts, FALSE)
    /\ UNCHANGED objects

\* The result of the callee is the result of the caller, which has nothing more
\* to do than to store it.
TailCall(c, args) ==
    /\ Room /\ Running(c) /\ Len(frames) > 1
    /\ Signatures[CodeOf(c)].ret = Signatures[Top.function].ret
    /\ Begin(CodeOf(c), c.is, args, ObjectOf(c).parts, TRUE)
    /\ UNCHANGED objects

Returned(t, v) == LoadPrimitive(Stored(Blank(SizeOf(t)), v, 0), t, 0)
Return(r) ==
    /\ Len(frames) > 1 /\ r \in Top.registers
    /\ r.type = Signatures[Top.function].ret
    /\ LET caller == frames[Len(frames) - 1]
           result == Register(r.type, Returned(r.type, r.is), r.meant)
       IN  frames' = [SubSeq(frames, 1, Len(frames) - 1) EXCEPT ![Len(frames) - 1] =
                         IF caller.tail THEN [caller EXCEPT !.registers = {result}, !.leaving = TRUE]
                         ELSE [caller EXCEPT !.registers = @ \cup {result}]]
    /\ UNCHANGED objects

-----------------------------------------------------------------------------
(* Arrays. *)

LengthOf(a) == Loaded(ObjectOf(a).bytes, "usize", 0).name
\* Faulty variant: elements in slots.
ElementInSlot(t, i) == 8 + 8 * (i - 1)
ElementAt(t, i) == 8 + SizeOf(t) * (i - 1)

Filled(b, v, n) ==
    LET size == SizeOf(v.type)
    IN  [k \in DOMAIN b |-> IF k \in 8..7 + n * size THEN [of |-> v, nth |-> (k - 8) % size] ELSE b[k]]
ArrayAlloc(n, r) ==
    /\ Running(r)
    /\ NewObject([of |-> r.type, parts |-> [i \in 1..n |-> r.meant],
                  bytes |-> Filled(Stored(Blank(8 + n * SizeOf(r.type)), Typed("usize", n), 0), r.is, n)])
    /\ Put(Register("array", Fresh("array"), Fresh("array")))

\* The index is not compared with the length: a program gives one that is less.
ArrayGet(a, i) ==
    /\ Running(a)
    /\ LET o == ObjectOf(a) IN Put(Register(o.of, Loaded(o.bytes, o.of, ElementAt(o.of, i)), o.parts[i]))
    /\ UNCHANGED objects

ArraySet(a, i, r) ==
    /\ Running(a) /\ Running(r) /\ r.type = ObjectOf(a).of
    /\ LET o == ObjectOf(a)
       IN  objects' = [objects EXCEPT ![a.is.name] = [of |-> o.of, parts |-> [o.parts EXCEPT ![i] = r.meant],
                                                      bytes |-> Stored(o.bytes, r.is, ElementAt(r.type, i))]]
    /\ UNCHANGED frames

\* The elements of one behind those of the other, byte for byte.
Behind(left, right, l, r) ==
    [k \in 0..7 + l + r |-> IF k < 8 + l THEN left[k] ELSE right[k - l]]
ArrayConcat(a, b) ==
    /\ Running(a) /\ Running(b) /\ ObjectOf(a).of = ObjectOf(b).of
    /\ LET of == ObjectOf(a).of
           n == LengthOf(a)
           m == LengthOf(b)
       IN  NewObject([of |-> of, parts |-> ObjectOf(a).parts \o ObjectOf(b).parts,
                      bytes |-> Stored(Behind(ObjectOf(a).bytes, ObjectOf(b).bytes, n * SizeOf(of), m * SizeOf(of)),
                                       Typed("usize", n + m), 0)])
    /\ Put(Register("array", Fresh("array"), Fresh("array")))

FramesNext ==
    \/ \E f \in DOMAIN Signatures : \/ \E cs \in RegistersOf(Signatures[f].captures) : MakeClosure(f, cs)
                                    \/ /\ Signatures[f].captures = <<>>
                                       /\ \E args \in RegistersOf(Signatures[f].params) : CallNamed(f, args)
    \/ \E c \in Pointers("closure") :
          \E args \in RegistersOf(Signatures[ObjectOf(c).function].params) : CallIndirect(c, args) \/ TailCall(c, args)
    \/ \E r \in Top.registers : Return(r) \/ \E n \in 1..MaxLength : ArrayAlloc(n, r)
    \/ \E a \in Pointers("array") :
          \/ \E i \in DOMAIN ObjectOf(a).parts : ArrayGet(a, i) \/ \E r \in Top.registers : ArraySet(a, i, r)
          \/ \E b \in Pointers("array") : ArrayConcat(a, b)
FramesSpec == FramesInit /\ [][FramesNext]_framesVars

-----------------------------------------------------------------------------
\* Every argument, capture, result and element is, where it is used, the value
\* the program put there: nothing is torn, shifted to another slot, or
\* overwritten by a neighbour.
EverythingArrives == \A k \in DOMAIN frames : \A r \in frames[k].registers : r.is = r.meant
=============================================================================
