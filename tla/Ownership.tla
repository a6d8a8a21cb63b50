------------------------------ MODULE Ownership ------------------------------
(***************************************************************************)
(* Who owns a counted value: the retains and releases lower_expr emits        *)
(* (crates/ir/src/lower.rs), executed on counted objects.                    *)
(*                                                                         *)
(* The first half is the lowering: a recursive translation of expressions to  *)
(* instructions that threads a FunctionBuilder.  Basic blocks become nested   *)
(* code, types shrink to "int" (not counted) and the kinds of counted value,  *)
(* names and field positions to what ownership depends on.  The second half    *)
(* runs the code of one function on a heap of counted objects, one             *)
(* instruction a step; an instruction does to the counts what jit.rs makes it  *)
(* do.  A function borrows its parameters from the caller, who holds one       *)
(* reference to each for the whole call; its result is owned.                 *)
(*                                                                         *)
(* ArcHeap assumes a client that releases only what it owns.  That client is   *)
(* the code modelled here.                                                   *)
(***************************************************************************)
EXTENDS Integers, Sequences, FiniteSets, SequencesExt, TLC

CONSTANT FunctionBodies \* bodies of functions of the parameters s: Str, o: Option<Str>

VARIABLES
  prog,       \* the body that was lowered
  hoisted,    \* the lambdas lifted out of it
  heap,       \* every object so far: its count, its fields, its function if a closure
  stack,      \* activations, innermost first: code left to run, ValueIds, where to return
  result      \* what the outermost activation returned

ownershipVars == <<prog, hoisted, heap, stack, result>>

-----------------------------------------------------------------------------
(* FunctionBuilder: types is value_types, indexed by ValueId; locals maps the  *)
(* names in scope to ValueIds; val is the ValueId lower_expr returns, vals    *)
(* those of a list of expressions.                                          *)
NewBuilder(lifted) ==
  [types |-> <<"int">>, locals |-> <<>>, code |-> <<>>, val |-> 1, vals |-> <<>>,
   lifted |-> lifted]

Bind(b, x, v) == [b EXCEPT !.locals = (x :> v) @@ @]

Instr(op, uses, k, dest, arms) ==
  [op |-> op, uses |-> uses, k |-> k, dest |-> dest, arms |-> arms]

EmitInstr(b, op, uses, k, type) ==
  LET d == Len(b.types) + 1
  IN [b EXCEPT !.types = Append(@, type), !.val = d,
               !.code = Append(@, Instr(op, uses, k, d, <<>>))]

(* emit(Retain(v)) and emit(Release(v)), guarded by is_heap_type.            *)
Counted(b, op, v) ==
  IF b.types[v] = "int" THEN b ELSE [EmitInstr(b, op, <<v>>, 0, "int") EXCEPT !.val = b.val]

Retain(b, v)     == Counted(b, "retain", v)
Release(b, v)    == Counted(b, "release", v)
ReleaseAll(b, s) == FoldLeft(Release, b, s)

RECURSIVE FreeVars(_)
FreeVars(e) ==
  CASE e.op = "var"    -> {e.x}
    [] e.op = "lambda" -> FreeVars(e.body) \ {e.x}
    [] e.op = "block"  -> FreeVars(e.e) \cup (FreeVars(e.body) \ {e.pat.x})
    [] e.op = "match"  -> FreeVars(e.e) \cup
                          UNION {FreeVars(e.arms[i].body) \ {e.arms[i].pat.x} : i \in DOMAIN e.arms}
    [] OTHER           -> UNION {FreeVars(e.es[i]) : i \in DOMAIN e.es}

(* lower_pattern and bind_pattern_local.                                     *)
BindPattern(pat, v, b) ==
  CASE pat.p = "bind" -> Bind(Retain(b, v), pat.x, v)
    [] pat.p = "sub"  -> LET g == EmitInstr(b, "get", <<v>>, 1, "str")
                         IN Bind(Retain(g, g.val), pat.x, g.val)
    [] OTHER          -> b

(* LeaveScope without the releases, for comparison.                          *)
LeaveScopeSilently(b, saved) == b

(* The end of a scope: release what it bound, except what it results in.      *)
LeaveScope(b, saved) ==
  LET names == {x \in DOMAIN b.locals \ DOMAIN saved : b.locals[x] # b.val}
  IN ReleaseAll(b, [i \in 1..Cardinality(names) |-> b.locals[SetToSeq(names)[i]]])

RECURSIVE Lower(_, _)

LowerAll(es, b) ==
  LET next(acc, e) == LET c == Lower(e, acc) IN [c EXCEPT !.vals = Append(acc.vals, c.val)]
  IN FoldLeft(next, [b EXCEPT !.vals = <<>>], es)

(* LowerIdent without the Retain, for comparison.                            *)
LowerIdentBorrowed(x, b) == [b EXCEPT !.val = b.locals[x]]

LowerIdent(x, b) == [Retain(b, b.locals[x]) EXCEPT !.val = b.locals[x]]

(* `+` on strings calls Str.concat; every other operator reads its operands.  *)
LowerBinary(e, b) ==
  LET c == LowerAll(e.es, b)
  IN IF e.f = "+" /\ c.types[c.vals[1]] = "str"
       THEN EmitInstr(c, "fresh", c.vals, 0, "str")
       ELSE EmitInstr(c, "read", c.vals, 0, "int")

Choose(b, c, op, uses, arms, type) ==
  LET d == Len(c.types) + 1
  IN [c EXCEPT !.types = Append(@, type), !.val = d, !.locals = b.locals,
               !.code = Append(b.code, Instr(op, uses, 0, d, arms))]

LowerIf(e, b) ==
  LET c == Lower(e.es[1], b)
      t == Lower(e.es[2], [c EXCEPT !.code = <<>>])
      f == Lower(e.es[3], [t EXCEPT !.code = <<>>])
  IN Choose(c, f, "if", <<c.val>>,
            <<[p |-> "any", code |-> t.code, val |-> t.val],
              [p |-> "any", code |-> f.code, val |-> f.val]>>, t.types[t.val])

(* A block of one statement (lower_stmt) and a result.                        *)
LowerBlock(e, b) ==
  LET v == Lower(e.e, b)
      s == Release(BindPattern(e.pat, v.val, v), v.val)
      r == Lower(e.body, s)
  IN [LeaveScope(r, b.locals) EXCEPT !.locals = b.locals]

LowerMatch(e, b) ==
  LET s == Lower(e.e, b)
      next(acc, arm) ==
        LET a == LeaveScope(Lower(arm.body, BindPattern(arm.pat, s.val,
                              [acc.b EXCEPT !.code = <<>>, !.locals = b.locals])), b.locals)
            r == IF a.val = s.val THEN a ELSE Release(a, s.val)
        IN [b |-> r, arms |-> Append(acc.arms, [p |-> arm.pat.p, code |-> r.code, val |-> r.val])]
      all == FoldLeft(next, [b |-> s, arms |-> <<>>], e.arms)
  IN Choose(s, all.b, "match", <<s.val>>, all.arms, all.b.types[all.arms[1].val])

(* array_literal copies its arguments; those that are not locals are dropped. *)
LowerArray(e, b) ==
  LET c     == LowerAll(e.es, b)
      bound == {c.locals[x] : x \in DOMAIN c.locals}
  IN ReleaseAll(EmitInstr(c, "copy", c.vals, 0, "arr"), SelectSeq(c.vals, LAMBDA v : v \notin bound))

(* TagConstruct and RecordAlloc: the fields become the object's.              *)
LowerConstruct(e, b) ==
  LET c == LowerAll(e.es, b) IN EmitInstr(c, "move", c.vals, 0, e.f)

(* FieldAccess and Index.                                                    *)
LowerGet(e, b) ==
  LET c == Lower(e.es[1], b)
      g == EmitInstr(c, "get", <<c.val>>, 1, "str")
  IN Release(Retain(g, g.val), c.val)

LowerTemplate(e, b) ==
  LET c == LowerAll(e.es, b) IN EmitInstr(c, "fresh", c.vals, 0, "str")

LowerLambda(e, b) ==
  LET caps  == SetToSeq((FreeVars(e.body) \ {e.x}) \cap DOMAIN b.locals)
      load(acc, k) == LET g == EmitInstr(acc, "get", <<1>>, k, b.types[b.locals[caps[k]]])
                      IN Bind(g, caps[k], g.val)
      env   == FoldLeft(load, NewBuilder(b.lifted), [k \in 1..Len(caps) |-> k])
      param == Bind([env EXCEPT !.types = Append(@, "str")], e.x, Len(env.types) + 1)
      body  == Lower(e.body, param)
      fn    == [code  |-> Append(body.code, Instr("return", <<body.val>>, 0, 0, <<>>)),
                param |-> Len(env.types) + 1]
  IN EmitInstr([b EXCEPT !.lifted = Append(body.lifted, fn)], "closure",
          [k \in 1..Len(caps) |-> b.locals[caps[k]]], Len(body.lifted) + 1, "fn")

(* CallNamed, and CallIndirect through a closure: the callee borrows.         *)
LowerCall(e, b) ==
  LET c == LowerAll(e.es, b) IN ReleaseAll(EmitInstr(c, "call", c.vals, 0, "str"), c.vals)

LowerApply(e, b) ==
  LET a == LowerAll(<<e.es[2]>>, b)
      f == Lower(e.es[1], a)
      r == EmitInstr(f, "apply", <<f.val, a.val>>, 0, "str")
  IN Release(Release(r, f.val), a.val)

Lower(e, b) ==
  CASE e.op = "int"       -> EmitInstr(b, "const", <<>>, 0, "int")
    [] e.op = "str"       -> EmitInstr(b, "const", <<>>, 0, "str")
    [] e.op = "var"       -> LowerIdent(e.x, b)
    [] e.op = "binary"    -> LowerBinary(e, b)
    [] e.op = "if"        -> LowerIf(e, b)
    [] e.op = "block"     -> LowerBlock(e, b)
    [] e.op = "match"     -> LowerMatch(e, b)
    [] e.op = "array"     -> LowerArray(e, b)
    [] e.op = "construct" -> LowerConstruct(e, b)
    [] e.op = "get"       -> LowerGet(e, b)
    [] e.op = "template"  -> LowerTemplate(e, b)
    [] e.op = "lambda"    -> LowerLambda(e, b)
    [] e.op = "call"      -> LowerCall(e, b)
    [] e.op = "apply"     -> LowerApply(e, b)

(* lower_decl_monomorphized for a lambda declaration.                         *)
LowerDecl(e) ==
  LET b == Lower(e, [NewBuilder(<<>>) EXCEPT !.types = <<"int", "str", "opt">>,
                                             !.locals = ("s" :> 2) @@ ("o" :> 3)])
  IN [b EXCEPT !.code = Append(@, Instr("return", <<b.val>>, 0, 0, <<>>))]

-----------------------------------------------------------------------------
(* Objects are indices into heap; 0 is any word that is not counted: an        *)
(* integer, or a literal whose count is u64::MAX.                             *)
Object(fields, fn) == [cnt |-> 1, fields |-> fields, fn |-> fn]

Live(o) == o # 0 /\ heap[o].cnt > 0

AddRef(h, o) == IF o = 0 THEN h ELSE [h EXCEPT ![o].cnt = @ + 1]

RECURSIVE DropRef(_, _)
DropRef(h, o) ==
  IF o = 0 \/ h[o].cnt = 0 THEN h
  ELSE LET g == [h EXCEPT ![o].cnt = @ - 1]
       IN IF g[o].cnt = 0 THEN FoldLeft(DropRef, g, g[o].fields) ELSE g

Activation(code, regs, dest) == [code |-> code, regs |-> regs, dest |-> dest]

OwnershipInit ==
  \E p \in FunctionBodies, some \in BOOLEAN :
    LET b == LowerDecl(p)
    IN /\ prog    = p
       /\ hoisted = b.lifted
       /\ heap    = <<Object(<<>>, 0), Object(IF some THEN <<3>> ELSE <<>>, 0)>>
                      \o (IF some THEN <<Object(<<>>, 0)>> ELSE <<>>)
       /\ stack   = <<Activation(b.code, (1 :> 0) @@ (2 :> 1) @@ (3 :> 2), 0)>>
       /\ result  = 0

Running   == stack # <<>>
Top       == stack[1]
Now       == Top.code[1]
Value(v)  == Top.regs[v]
Values(s) == [i \in DOMAIN s |-> Value(s[i])]

(* Go on after the current instruction, with its value if it has one.         *)
Continue(w) ==
  /\ stack' = <<[Top EXCEPT !.code = Tail(@), !.regs = (Now.dest :> w) @@ @]>> \o Tail(stack)
  /\ UNCHANGED <<prog, hoisted, result>>

Is(op) == Running /\ Now.op = op

New == Len(heap) + 1

Const ==
  /\ Is("const") \/ Is("read")
  /\ Continue(0)
  /\ UNCHANGED heap

RetainValue ==
  /\ Is("retain")
  /\ heap' = AddRef(heap, Value(Now.uses[1]))
  /\ Continue(0)

ReleaseValue ==
  /\ Is("release")
  /\ heap' = DropRef(heap, Value(Now.uses[1]))
  /\ Continue(0)

(* StrConcat and Str.concat: a new string.                                   *)
Fresh ==
  /\ Is("fresh")
  /\ heap' = Append(heap, Object(<<>>, 0))
  /\ Continue(New)

(* array_literal: the array and a copy of every element.                      *)
Copy ==
  /\ Is("copy")
  /\ LET n == Len(Now.uses)
     IN heap' = heap \o <<Object([i \in 1..n |-> Len(heap) + 1 + i], 0)>>
                     \o [i \in 1..n |-> Object(<<>>, 0)]
  /\ Continue(New)

Move ==
  /\ Is("move")
  /\ heap' = Append(heap, Object(Values(Now.uses), 0))
  /\ Continue(New)

(* MakeClosure without the retains, for comparison.                          *)
MakeClosureBorrowed ==
  /\ Is("closure")
  /\ heap' = Append(heap, Object(Values(Now.uses), Now.k))
  /\ Continue(New)

(* MakeClosure retains what it captures.                                     *)
MakeClosure ==
  /\ Is("closure")
  /\ heap' = Append(FoldLeft(AddRef, heap, Values(Now.uses)), Object(Values(Now.uses), Now.k))
  /\ Continue(New)

(* RecordGet, ArrayGet, TagGet and ClosureGet hand out the word they find.    *)
Get ==
  /\ Is("get")
  /\ Continue(heap[Value(Now.uses[1])].fields[Now.k])
  /\ UNCHANGED heap

(* Another function, which borrows and returns something it owns.             *)
CallFunction ==
  /\ Is("call")
  /\ \/ heap' = Append(heap, Object(<<>>, 0)) /\ Continue(New)
     \/ \E i \in DOMAIN Now.uses :
          /\ heap' = AddRef(heap, Value(Now.uses[i]))
          /\ Continue(Value(Now.uses[i]))

(* CallIndirect: the hoisted function, with the closure as environment.       *)
Apply ==
  /\ Is("apply")
  /\ LET fn   == hoisted[heap[Value(Now.uses[1])].fn]
         regs == (1 :> Value(Now.uses[1])) @@ (fn.param :> Value(Now.uses[2]))
     IN stack' = <<Activation(fn.code, regs, Now.dest), [Top EXCEPT !.code = Tail(@)]>> \o Tail(stack)
  /\ UNCHANGED <<prog, hoisted, heap, result>>

(* A switch takes the arm of the variant at hand, else the default.           *)
Taken(p, o) == p = "any" \/ (p = "sub" /\ heap[o].fields # <<>>) \/ (p = "none" /\ heap[o].fields = <<>>)

Branch ==
  /\ Is("if") \/ Is("match")
  /\ \E i \in DOMAIN Now.arms :
       LET arm == Now.arms[i]
           o   == Value(Now.uses[1])
           join == Instr("join", <<arm.val>>, 0, Now.dest, <<>>)
       IN /\ \/ Taken(arm.p, o)
             \/ arm.p \in {"bind", "wild"} /\ \A j \in DOMAIN Now.arms : ~Taken(Now.arms[j].p, o)
          /\ stack' = <<[Top EXCEPT !.code = arm.code \o <<join>> \o Tail(@)]>> \o Tail(stack)
  /\ UNCHANGED <<prog, hoisted, heap, result>>

Join ==
  /\ Is("join")
  /\ Continue(Value(Now.uses[1]))
  /\ UNCHANGED heap

Return ==
  /\ Is("return")
  /\ LET w == Value(Now.uses[1])
     IN IF Len(stack) = 1
          THEN stack' = <<>> /\ result' = w
          ELSE /\ stack' = <<[stack[2] EXCEPT !.regs = (Top.dest :> w) @@ @]>> \o SubSeq(stack, 3, Len(stack))
               /\ UNCHANGED result
  /\ UNCHANGED <<prog, hoisted, heap>>

OwnershipNext ==
  \/ Const \/ RetainValue \/ ReleaseValue \/ Fresh \/ Copy \/ Move \/ MakeClosure
  \/ Get \/ CallFunction \/ Apply \/ Branch \/ Join \/ Return

OwnershipSpec == OwnershipInit /\ [][OwnershipNext]_ownershipVars

-----------------------------------------------------------------------------
(* Every operand of the next instruction is alive: nothing is used, returned   *)
(* or released after the count of its object reached zero.  Each Retain of     *)
(* lower_expr exists for this: on reading a local, binding a pattern, taking   *)
(* a field out of a value that is dropped in the same breath.                 *)
NoUseAfterFree ==
  Running => \A v \in ToSet(Now.uses) : Value(v) # 0 => Live(Value(v))

(* The references to an object that must outlast the activation: the caller's  *)
(* to its arguments, the fields of live objects, the result.                  *)
Demand(o) ==
  (IF o \in {1, 2} THEN 1 ELSE 0) + (IF result = o THEN 1 ELSE 0)
    + Cardinality({<<p, i>> \in (1..Len(heap)) \X (1..2) :
                     Live(p) /\ i \in DOMAIN heap[p].fields /\ heap[p].fields[i] = o})

(* The function takes no reference that is not its own: at every moment a      *)
(* count covers the caller's references, the fields that hold the object and,  *)
(* once there is one, the result.                                            *)
NeverShort == \A o \in 1..Len(heap) : heap[o].cnt >= Demand(o)

(* The expressions whose value lower_expr forgets to release: operands of      *)
(* operators and templates, locals that are elements of an array literal,      *)
(* names bound a second time, and locals that are the result of the block or   *)
(* arm that binds them (Retain on reading them, and none of the two released). *)
RECURSIVE IsLocal(_)
IsLocal(e) == e.op = "var" \/ (e.op = "block" /\ IsLocal(e.body))

RECURSIVE Forgets(_, _)
Forgets(e, scope) ==
  LET any(es)       == \E i \in DOMAIN es : Forgets(es[i], scope)
      in(pat, body) == \/ pat.p \in {"bind", "sub"} /\ pat.x \in scope
                       \/ IsLocal(body)
                       \/ Forgets(body, scope \cup {pat.x})
  IN CASE e.op \in {"binary", "template"} -> \E i \in DOMAIN e.es : e.es[i].op \notin {"int", "str"}
       [] e.op = "array"  -> any(e.es) \/ \E i \in DOMAIN e.es : IsLocal(e.es[i])
       [] e.op = "block"  -> Forgets(e.e, scope) \/ in(e.pat, e.body)
       [] e.op = "match"  -> Forgets(e.e, scope) \/ \E i \in DOMAIN e.arms : in(e.arms[i].pat, e.arms[i].body)
       [] e.op = "lambda" -> Forgets(e.body, scope \cup {e.x})
       [] e.op \in {"int", "str", "var"} -> FALSE
       [] OTHER -> any(e.es)

(* Nothing is left over when a function has returned: counts are what the      *)
(* caller, the fields and the result account for, so the next release of each  *)
(* frees it (plan-main.md:304).  lower_expr achieves it for every program free  *)
(* of the shapes above.                                                     *)
Finished == ~Running

Balanced == \A o \in 1..Len(heap) : heap[o].cnt = Demand(o)

NoLeak == Finished /\ ~Forgets(prog, {"s", "o"}) => Balanced
=============================================================================
