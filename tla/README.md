# Verification of pipe-lang

TLA+ models of the pipe-lang compiler and runtime (`src/`, Rust), model-checked
with TLC, with theorems checked by TLAPS. Paths below are relative to
`src/crates/` unless they start with `src/`.

pipe-lang is a small functional language. A program is lexed, parsed, type
checked, lowered to a block-structured IR and compiled to machine code with
Cranelift; the compiled code runs in the same process on a reference-counted
heap. A command line and a language server drive these stages.

## 1. Inventory

| Component | State it keeps | Operations | What makes it correct |
| :-- | :-- | :-- | :-- |
| ARC heap runtime (`runtime/src/jit.rs` 3534-3660, 4843-5085) | one count word per block, the fields of blocks | retain, release, free, allocate | counts exact under concurrency, no use after free, no leak, literals immortal |
| Type descriptors, box/unbox bridge (`jit.rs` 3664-3925, 3990-4620) | none (byte codec) | serialize a descriptor, box compiled values for builtins, unbox results | unboxing inverts boxing, reads stay in the descriptor |
| Builtin closure registry (`jit.rs` 4637-4841, `stdlib/src/closure.rs`) | `BUILTIN_CLOSURES`: address to builtin | register, look up, unregister on free, trampoline | an address never dispatches to another closure's builtin |
| JIT code generation (`jit.rs` 151-3330) | per-module tables of functions and literals | `compile_ir`, one `compile_*` per instruction, `call_main` | calling convention, every accepted IR either compiles or is an error |
| IR (`ir/src/lib.rs`) | data definitions | constructors, printing | - |
| Lowering: ownership (`ir/src/lower.rs` 567-1563) | `FunctionBuilder`: blocks, locals, value types | `lower_expr`, `lower_stmt`, `lower_pattern` | retains and releases balance on every path |
| Lowering: monomorphization (`lower.rs` 369-570, 1696-1859) | worklist of specialised globals, set of names done | mangle, queue, lower | ends unless types grow; a call reaches its specialisation or one named like it |
| Pattern matching (`typechecker/src/exhaustiveness.rs`, `lower.rs` 758-929, `jit.rs` 1127-1220) | the arms sorted so far | check, lower an arm, build the chain, validate, dispatch | the first matching arm is taken, an accepted match finds an arm |
| Type inference (`typechecker/src/unify.rs`, `infer.rs`) | substitution, type map | unify, bind, apply, generalize, infer | most general types, no variable generalised that is free in the environment |
| Type environment (`typechecker/src/env.rs`, `lib.rs`) | stack of scopes, tag variants | push, pop, insert, look up, forward declare | scopes balance, also after an error |
| Language server (`pipe-lang-lsp/src/lib.rs`) | `documents` behind a `RwLock` | open, change, hover, publish diagnostics | what the client shows belongs to the last text |
| Compiler session and command line (`cli/src/session.rs`, `main.rs`) | configuration, source | load, run the pipeline, format | each failure ends in its exit code, later stages do not run |
| Builtin registry, output capture (`runtime/src/bridge.rs`, `lib.rs`) | `GLOBAL_REGISTRY`, `CAPTURE_BUF` | install, execute, capture | a run uses its own registry |
| Standard library (`stdlib/src`) | none | builtins, calls back into closures | results owned, arguments borrowed |
| Lexer, parser, formatter (`lexer`, `parser`, `formatter`) | position, token buffer, mode | next token, templates, precedence climbing, printing | templates split where the source says, formatting keeps the tree |
| Syntax tree, diagnostics, fixtures | data, wording, test infrastructure | - | - |

How they interact:

* `cli::session::run_pipeline` calls parser, type checker, lowering and code
  generation one after the other; each reads the result of the one before and the
  `type_map` of the type checker, keyed by `NodeId`.
* The lowering decides every retain and release; the code generator turns them
  into calls of `pipe_rt_retain` and `pipe_rt_release`, which know nothing of types
  but a descriptor.
* Compiled code calls builtins through `pipe_rt_call_builtin`: arguments are boxed
  from machine words to `Value`, the result is unboxed. A builtin that takes a
  closure calls back into compiled code (`stdlib/src/closure.rs`), and a builtin
  used as a value becomes a closure whose code is the trampoline, found again in
  `BUILTIN_CLOSURES` by its address.
* Process-wide state (`GLOBAL_REGISTRY`, `BUILTIN_CLOSURES`, `CAPTURE_BUF`, the
  counts of blocks) is shared by every thread that runs a `CompiledModule`, which
  is declared `Send` and `Sync` (`jit.rs` 92-93).
* The language server runs up to four handlers at a time over one document table
  behind a lock; the editor sends without waiting and reads when it likes.

Hard behaviours: concurrent compare-and-swap loops on counts, with a free that
recurses through a structure in the middle of other threads' calls; ownership
that must balance over every path of generated code; matches whose order is
split between a switch, a chain and a default; handlers that interleave at every
`await`; state that survives a failed declaration; addresses that are reused;
conversions that two parts of the program each make in their own way (literals,
positions, layouts) and that must agree.
`PROJECT.json` lists them one by one, each at its line.

## 2. Modules

| Module | Models | Role |
| :-- | :-- | :-- |
| `RefGraph` | what the language promises of shared values (`src/plan-main.md` 302-304) | abstract specification |
| `ArcHeap` | retain, release and free (`jit.rs`) step by atomic step | detailed specification, implements `RefGraph` |
| `ArcHeapProofs` | - | proofs about `ArcHeap` for all constants |
| `Ownership` | the retains and releases of `lower_expr`, and the code they become part of | the client `ArcHeap` assumes |
| `Matching` | a match from `check_exhaustive` to the arm taken | pure algorithm in stages |
| `RecordLayout` | where a field of a record lies and where later uses look for it | data layout |
| `Methods` | which function a method call means to the type checker, the lowering and the registry; tags of `Option` and `Result` | three tables against each other |
| `ValueTrees` | types, and values as compiled code holds them | vocabulary of `Bridge` and `Comparison` |
| `Bridge` | arguments and results of builtins, callbacks into compiled code | codec with its inverse |
| `Comparison` | `==`, `<` and the others on every kind of type, as compiled | the values of `ValueTrees`, with addresses |
| `Numbers` | an integer from its literal to the result of an operation | pipeline of three stages |
| `Frames` | the calling convention: arguments, environments, results, closures, arrays in bytes | memory model |
| `ClosureRegistry` | `BUILTIN_CLOSURES`: entries by address, addresses used again | shared table |
| `PrefixSums` | the bytes or units before a place in a row | helper of `RecordLayout` and `Positions` |
| `NaturalRecursion` | - | lemmas: induction over the natural numbers, functions defined by recursion, sums |
| `DataProofs` | - | proofs about `Numbers`, `RecordLayout`, `Matching` and `Comparison` for all constants |
| `FramesProofs` | - | proofs about `Frames` for all constants |
| `BuiltinProofs` | - | proofs about `Methods`, `ClosureRegistry` and `Bridge` for all constants |
| `Types`, `Unification` | `unify`, `bind`, `apply`, and a substitution in use | pure algorithm, and a state machine that takes it pair by pair |
| `UnificationProofs` | - | proofs about `Unification` for all constants |
| `Inference` | `typecheck` declaration by declaration | composed with `Types`; a reference interpreter judges it |
| `Monomorph` | the worklist of `lower()` | state machine |
| `MonomorphProofs` | - | proofs about `Monomorph` for all constants |
| `Lexer` | characters to tokens, templates in templates | state machine over a recursive scanner |
| `Syntax` | the parser's grammar over tokens | pure algorithm |
| `Formatting` | `fmt` and `fmt --check` on a file | composed with `Syntax` |
| `LanguageServer` | handlers, document table, publications | concurrent system with fairness |
| `Positions` | spans to positions and back, the node of a hover | pure algorithm, with its inverse |
| `LanguageServerProofs` | - | proofs about `LanguageServer` and `Positions` for all constants |
| `MCArcHeap`, `MCOwnership`, `MCRecordLayout`, `MCComparison`, `MCNumbers`, `MCFrames`, `MCInference`, `MCMonomorph`, `MCFormatting` | - | instances for TLC |
| `MCTypeChecker` | - | `Inference` and `Unification` as two parts of one run |
| `MCLowering` | - | `Ownership` and `Monomorph` as two parts of one run |
| `MCValues` | - | `RecordLayout`, `Methods`, `Matching`, `Bridge`, `ClosureRegistry`, `Comparison`, `Numbers` and `Frames` as eight parts of one run |
| `MCSource` | - | `Formatting`, `Lexer`, `LanguageServer` and `Positions` as four parts of one run |

The last four are not compositions: the initial state chooses the part, the
variables of the others never change. They save TLC's starts, nothing else.

Operators called a "faulty variant", "a change" or marked "for comparison" are the
definition below them with one plausible mistake; the properties are known to
notice it.

### ArcHeap

State: `heap` (blocks leaked to compiled code), `rc` (the count word), `ptr` and
`home` (what every slot holds and whose local or field it is), and per thread the
runtime call it is in: `pc`, `sub` (argument), `slot` (where the reference goes or
comes from), `seen` (the local `current` of the loop) and `frames` (the stack of
`pipe_rt_free_value` calls).

Actions: `LoadConst`, `Alloc`, `HandOff` and the first load of `Retain` and `Release`
are the generated code's; `RetainImmortal`, `RetainSwap`, `RetainRetry`,
`ReleaseImmortal`, `ReleaseSwap`, `ReleaseRetry` are the iterations of the two
loops, split by what the exchange finds (`RetainRetry` covers the spurious failure
of `compare_exchange_weak` as well); `FreeField` is one turn of the loop over
fields, `FreeBlock` the `Box::from_raw` at its end. Memory orderings are
Acquire/AcqRel on one word each, so interleaving single accesses is exact.

Abstracted: payload words that are not references, block layout, and the type
descriptor (a block's fields are the slots whose `home` it is). `RcMax` stands for
`u64::MAX`.

Properties: `CountExact`, `NoDangling`, `NoGarbage`, `ImmortalForever`, `Reclaimed`
(liveness), `LockFree` (liveness) and `ImplementsRefGraph` (refinement). The inductive
invariant `IndInv` (`CountInv` and `NoCycles`) and what follows from it, all but the
liveness, is proved.

### Ownership

The first half is `lower_expr` as a recursive translation: one operator per form of
expression, threading the `FunctionBuilder` (`types`, `locals`, `code`, `val`), with
types reduced to "not counted" and the kinds of counted value. The second half
executes the code: `stack` of activations, `heap` of objects with counts and
fields. Instructions that only read are one action (`Const`); `RetainValue`,
`ReleaseValue`, `Fresh`, `Copy`, `Move`, `MakeClosure`, `Get`, `CallFunction`, `Apply`,
`Branch`, `Join` and `Return` do to the counts what `jit.rs` makes them do. A call
of another function either returns something new or something it was given,
retained.

Properties: `NoUseAfterFree`, `NeverShort` (no reference is taken that is not
owned), `NoLeak` (bodies without the shapes in `Forgets` leave every count
balanced). `Forgets` names the shapes that leak in this code: operands of operators
and templates, locals used as array elements, shadowed names, and locals that are
the result of the block or arm that binds them.

### Matching

State: the arms and the kind of subject, `cases`, `lits`, `default` (the three
accumulators of `lower_expr`), `chain` (the literal tests built so far, from the
end), then the value and the position of the run. Actions: `Check`
(`check_exhaustive`), `LowerArm`, `BuildCheck`, `Compile` (`validate_switch_arms`),
`Start`, `Switch`, `TestLiteral`. Patterns are reduced to what they ask: a head and,
under it, a field value or anything.

Properties: `FirstMatch` (plain matches take the first arm that matches) and
`TagsNeverTrap`. `ErrorIsDuplicate` and the inductive invariant are proved.

### RecordLayout

State: `written` (the literal), `block` (the fields in memory), `static` (the fields
of the type where the record is used), `got` (what the last use of it read), `released`
and `freed`. Actions: `Pass` (a parameter whose type lists fewer fields, any of them),
`Access`, `Match` (a pattern with any of the fields in any order), `Free`. A block has no
names in it: `Load` computes the offset from the static type, as `lower.rs` and `jit.rs`
do, and reads what lies there, which may be nothing that was stored as one field.

Properties: `ReadsInOrder` says when a use gets the field it names, and when not: exactly
when the type has `Kept` every field laid out in front of it and a pattern has it in the
place of the alphabet. `FreesWhole` says the same of the bytes and the counted fields that
a free gives back. `ReadsNamed`, without exceptions, is the finding.

### Methods

State: a value with its static type, its tag at run time (`val`) and what it is by
the documentation (`meant`), who has built it, and the call being made with it.
Actions follow a call: `CheckCall` (`infer.rs` 597-636 with the signatures of `env.rs`),
`Lower` (`qualify_method_name` and the branches of `Expr::Application`), then one
`Run*` per kind of builtin, or `Fails`.

Properties: `TablesAgree` (an accepted call reaches a builtin that takes it, but for
the pairs in `Broken`) and `KeepsMeaning` (an `Option` or `Result`
stays what the documentation says until a `Result` crosses between the program and
the builtins).

### Bridge

State: one call of a builtin, `side` says where control is. Compiled code's values
are trees of words and blocks without types, the builtins' are tagged; `Box` and
`Unbox` go from one to the other by type as `pipe_rt_box_value_jit` and
`pipe_rt_unbox_value_jit` do by descriptor, and a slot that is read with another size
or type than it was written with is `Garbage`. Actions: `Enter`
(`pipe_rt_call_builtin`), `Execute` (the builtin, with `call_closure`), `Leave`
(unboxing the result), `Trampoline` (the call of a closure that a builtin returned).
The builtins are `id`, `const`, `apply` and `flip`, which do nothing to values but
move them, so that whatever changes was changed by crossing.

`Levels` has the types in use, each with its depth, `Crossing` the values that cross, by
type; `BridgeAssumption` says that types are finite trees and that values are of their
types (`IsOf`; bytes are not negative). Boxing, unboxing and everything said of a value
at any depth is one recursion, `Converted`: what is in the slots of a block (`Contents`,
or `Wanted` of a Value that is unboxed) is converted with its type, and `Boxed`, `Unboxed`,
`Meant`, `HasChanged` and the others say what is made of a block from that.

Properties: `ArrivesWhole` (a builtin gets what was passed, exactly but for the values
of `Changed`), `SameAsDirect` (the program gets what a function of its own would
return, exactly but for the calls of `GoesWrong`). Both are equivalences: a listed
exception that would work is an error too.

### ClosureRegistry

State: `buffers` (a buffer or nothing at each address, with its count), `registered`
(the table), `called` (the last call). Actions: `Arrive` (unboxing makes a buffer and
registers it), `CrossAgain` (a copy, not registered), `Allocate` (any other block),
`Retain`, `Release` (the last one removes the entry), `Dispatch`.

Property: `NeverAnother`, no call runs the function that had the address before.

### Comparison

State: `operands` (a static type and two values of it), `asked`, `answer`. The one
action `Compare` is `compile_comparison`: `Compiled` has a line per kind of type, with
`ArrayEqual` (`compile_arr_cmp`), `RecordEqual` and `TagEqual` below it. Values are those
of `ValueTrees`, their blocks with an address, so that two equal blocks may be one or two.
`Operands` are any values of their types, with one block at one address
(`ComparisonAssumption`). `Equal` compares what `Within` collects: the two values, their
parts side by side, and so on, `Deep` levels down.
A payload is loaded by the types of every variant, not only of the value's own
(`compile_tag_cmp` has no branches): what lies where no field of that type begins is
`Garbage`, of which the answer may be anything, and for a string a crash.

Property: `ComparesByValue`. It is exact where parts are numbers and strings, one-sided
where they are blocks or floats in arrays, and leaves out tags of different variants,
which are the finding `tag_equality`.

### Numbers

State: `literal` (what its digits say, their form, suffix and sign), `reached`, `word`.
Actions: `CheckLiteral` (`check_int_overflow`), `LowerLiteral` (`parse_int_literal`),
`Negate`, `Operate` (`compile_numeric_binary`). Each of the three stages reads the literal by
itself, as the three crates do; `Divide` traps as Cranelift's instructions do.

Property: `ComputesAsWritten`: a literal of its type arrives as that number, and what is
computed with it is what integer arithmetic gives up to the width. The two exceptions
are named in it.

### Frames

State: `frames` (the running functions, each with what its registers hold) and `objects`
(closures and arrays as bytes). Actions: `MakeClosure`, `CallNamed`, `CallIndirect`,
`TailCall`, `Return`, `ArrayAlloc`, `ArrayGet`, `ArraySet`, `ArrayConcat`, each the `compile_*` of
its name. Memory is bytes that know which byte of which value they are, so that a load
at another offset or of another size than the store is seen as such (`Torn`). A register
carries, beside what the code put in it, what the program meant to be in it; actions
carry the latter along, and no guard looks at it.

Property: `EverythingArrives`. The instructions are composed in any order that their
types allow, which is more than the lowering uses: `lower.rs` emits no
`ArrayAlloc`, `ArraySet`, `ArrayConcat` or `TailCall`, but `jit.rs` compiles them.

### Types, Unification, Inference

A type is a constructor with parts, a substitution a function from bound variables.
The recursion of `apply`, `occurs_in` and `free_vars_mono` goes down into types and on
through bindings: `Onward` is where one step of it leads, `Reached` all that it meets,
and `Replaced` is a recursive function on what is reached. `unify` is depth first and stops
at the first error: `UnifyPair` is one call of it with its order of cases, up to the
calls it makes in turn (`SubPairs`), and `UnifyStep` puts those before the rest.

State of `Unification`: the substitution `sub`, the pairs in `work` of the call under way,
the calls made (`asked`), and `err`. Actions: `Ask` begins a call, `Take` is the next of
its pairs, so that the properties speak of every moment in the middle of a call too. The
constants are `Variables`, `Literals` (the variables of number literals, disjoint from
them as `fresh` counts: `IdsApart`), `FieldNames` in the order of the `BTreeMap`, `Calls`
with `Depth`, how deep the types in it are (`TypesAreFinite`: a Rust value has a depth),
and `Ground`, the types that the reference of `MostGeneral` gives to variables.

`Inference` calls the same operators until a call has ended (`Unify`). It has `program`,
`phase`, the position in it, `errors` and `st`, which is what the Rust functions pass around
by mutable reference: scopes, next variable, substitution. Its actions are one per
declaration: forward declaration, then `infer_decl_with_map` with everything it calls, as a
recursive function of the expression.

`st.odd` is history: it records in which of four ways a run has departed from
Hindley-Milner inference. `Sound` says that a program that was accepted without any
of them never applies a construct to a value it has no meaning for, as judged by an
interpreter that knows no types. The other properties: `Acyclic`, `Solved` (what was
unified stays unified), `MostGeneral` (no solution is lost) and `GlobalsClosed`: a variable
that is free in an inferred type is one of a type used before it was inferred, or of a
parameter that a declaration with an error has left in scope, and there are no others.

### Monomorph

State: `queue`, `generated`, `current` and the mentions its body still has to
resolve, the emitted `module`. Actions: `Take`, `Resolve`
(`resolve_and_queue_global`), `Emit`, `Fail`. The roots are queued in any order, as
the hash map gives them. `Mangle` gives names as lists of the words that `_`
separates, so that names that clash in the code clash in the model: `Ident` and `Text`,
how bindings and base types are written, are any words.

Properties: `DefinedOnce`; `RightOne`, a call reaches the specialisation it was inferred
for or one that is `Alike`, in two ways and no other: the binding at another type that is
written the same, or a binding that is named like a specialisation (`NamedLike`), and a
name that is a binding's own reaches that binding; `LeastClosure`, what is emitted holds
the roots and whatever its members mention, itself or one that is `Alike`, and nothing
that no chain of mentions leads to; and `Terminates`: lowering ends exactly when no
type `Grows` along a cycle of mentions.

### Syntax, Formatting

A token is its text and whether a line break precedes it. `ParseProgram` is the
recursive descent of `parser.rs`, production by production, with precedence climbing
and its lookaheads for lambdas and records. `Format` is what the formatter prints for
every form, as tokens. `Formatting` has a `file`, the program its author meant, and
the actions `Fmt` and `FmtCheck` with their exit codes.

Properties: `Understood`; `FormatKeeps`, a formatted file is the program it was exactly
when that can be written without parentheses (`Plain`); `Settles`, a formatted file stays
as it is and passes `--check` exactly when it has no `if`.

### Lexer

State: `written` (the source as the tokens its author meant, each with its characters),
`lexer` (characters consumed, the tokens that wait in `pending`, `done`) and `tokens`.
Actions: `GivePending`, `GiveToken`, `GiveTemplate`, `GiveEnd`, the cases of `Iterator::next`.
`ReadToken` has the rules of its `match`; `TemplateTokens` and `HoleTokens` are
`read_template`, which finds the end of a hole by counting braces, lexes what is between
with a lexer of its own and moves the spans. Characters have one or two bytes, because
the hole is skipped as often as it has bytes.

Property: `TokensAsWritten`: the tokens are the ones meant, each at its place, exactly when
no hole holds a character of two bytes or braces that do not balance (`Misread`).

### LanguageServer, Positions

State of `LanguageServer`: of the editor, `sent`, `asked` and `shown`; of the framework,
`queue`, `started` and `outbox`; of the server, `documents`; and `hover`, the last answer.
Actions: `Edit`, `Ask`, `Show` (the editor), `Start` (the framework polls a handler up to
its first wait), `StoreAndPublish`, `AnswerHover`, `IgnoreEmpty` (a handler from the lock
on). What is external, and taken from how `lib.rs` uses it: `tower-lsp` has at most
`InFlight` handlers under way and polls them on one task in the order of their messages;
`tokio`'s `RwLock` is handed out in the order of the calls; a publication occupies its
handler until the editor takes it.

Properties: `ReadYourEdits`, `NeverBack`, `Converges` (liveness).

`Positions` has a document (`text`, `nodes`), the `place` the editor asks about and what it
`found`. `ToPosition`, `ToOffset` and `LastOf` are `byte_offset_to_position`,
`position_to_byte_offset` and `build_lsp_type_map`; the action `HoverAt` is
`hover_for_position`, with the order of a hash map left open.

Properties: `ShownWhereItIs`, `FindsInnermost`, both against the editor's own count of
lines and UTF-16 units.

## 3. Runs

| Run | Shows | Bounds and why they suffice |
| :-- | :-- | :-- |
| `heap_shared` | counts exact, nothing dangling, no garbage, immortality, in every interleaving of two threads | two threads are enough for every race between two loops; two counted blocks nest; four slots allow counts up to saturation at `RcMax` = 4 |
| `heap_sequential` | every unreferenced block is reclaimed; `RefGraph` is implemented | one thread, three blocks: structures three deep are freed recursively; `RcMax` out of reach |
| `heap_contended` | lock-freedom | two threads, one counted block, one literal |
| `lowering` | no use after free, no reference taken too many, no leak outside the listed shapes; the worklist emits what is reachable, once, under the right name, and ends | every well-scoped body `Depth` = 2 deep over two parameters, a fuller set below one `let` through arrays, records and closures, both variants of the option; two polymorphic bindings and a third, five base types, two of them written alike, with recursion, mutual recursion, forward mentions, bindings named like specialisations of others, and types that grow without end, followed to `MaxArrays` = 3 levels |
| `types` | unification, in the middle of calls too, and inference as above | a call chosen for what it binds, then any pair of types one constructor deep, or two in an array (`Depth` = 2), over three variables and a literal; four closed types as values; some 14,000 programs in which every form of expression meets every kind of value, and two declarations in either order |
| `values` | what `Matching`, `RecordLayout`, `Methods`, `Bridge`, `ClosureRegistry`, `Comparison`, `Numbers` and `Frames` promise | see below |
| `source` | what `Syntax`, `Formatting`, `Lexer`, `LanguageServer` and `Positions` promise | see below |
| `infer_capture` | finding: a let generalises a variable its environment depends on | one program |
| `method_results` | finding: the `Ok` of a builtin is an `Err` to a match | two calls |
| `layout_pattern` | finding: a record pattern binds by position | patterns with all fields |
| `tag_equality` | finding: `None == Some(x)` can be true | one integer per payload |
| `literal_range` | finding: literals with a suffix that ends in digits are not checked | as in `values` |

Bounds of `values`. Matches: three arms, variants and literals, two field values, so every
order of arms with the default anywhere. Records: four fields of three sizes, in every
written order, under every narrower type, in every order of a pattern. Methods: `Depth` = 4
calls, enough to build, map, flat_map and unwrap. Crossing: the types of `CrossingTypes`, up
to three blocks deep, every scalar kind, all their values with arrays up to `MaxElems` = 2
and the numbers `Ints`. Registry: two addresses, so that one is used again while the other
lives, two functions, counts to `MaxRefs` = 2. Comparison: integers of `Bits` = 2, which has
both signs of each order; every block at an address of its own or shared, no deeper than
`Deep` = 3. Numbers: `MCWidth` scales 8, 16, 32, 64 and 128 bits down to 2 to 6, keeping
their order, with the digits around every bound and every second operand. Frames: signatures
that put units and small types between large ones, `MaxFrames` = 3 (a tail call from a
callee), `MaxObjects` = 2 (one array behind another), `MaxLength` = 2 (a concatenation of
four).

Bounds of `source`. Files: trees two to three deep with every form inside every other,
rows of up to four operands, any row of up to `MaxSoup` = 4 of nine tokens; `MaxRuns` = 2
uses of the command, which is what idempotence takes. Lexer: one token or template
(`MaxTokens`), with up to two tokens or templates in each hole (`MaxInHole`): templates
three deep, and spans moved twice. Server: two documents, `MaxSent` = 2 messages each,
`InFlight` = 4 as in `tower-lsp`, the second text of each with an error: two texts of a
document under way at once, with a hover on either side. Documents: up to two characters
(`MaxLength`), of one, two and four bytes and of one and two units, or newlines, and up to
two nodes (`MaxNodes`), asked about everywhere, past the ends of lines and of the text.

Deadlock is not checked where the system stops by design: a function that has
returned, a match that has been decided, a program that has been lowered.

Fairness. `ArcHeap!FairSpec` assumes weak fairness of `Runtime(t)`: a thread inside a
runtime call runs straight-line code and loops that never block, so it keeps taking steps.
Nothing obliges generated code to call again. A failed exchange counts as a step, so
fairness does not promise that one thread's loop ends: the loops are lock-free, not
wait-free. `LockFree` says that not all threads stay inside, and `Reclaimed` is checked with
one thread, where no exchange fails for ever. `Monomorph!Spec` assumes weak fairness of
`Progress`: `lower()` is a sequential loop. `Terminates` says of programs whose types grow
that they do not end, and is checked of them as far as `Shallow` goes.
`LanguageServer!ServerSpec` assumes that the editor reads what it is sent (`Show`), that the
framework polls the next message when it has room (`Start`), and that a handler that can go
on does (`Serve`): the server has a single task whose handlers run to their next wait, and
the lock is fair. Nothing obliges the editor to send. Without `Show`, `InFlight`
publications that nobody takes stop the server, and `Converges` fails. `MCSource` states the
same three conditions of the part it runs. No other specification needs fairness.

## 4. Proofs

Every proof is for all values of the constants, under the assumptions the modules
name. Each follows one plan: the properties the runs check are strengthened to an
inductive invariant, which the initial states have and every action keeps, one lemma
or step per action; the property follows from it.

`ArcHeapProofs` proves, for any finite set of slots, any threads, blocks and
`RcMax >= 2`: `Inductive` (`Spec => []IndInv`), `TypeCorrect`, `CountsExact`,
`NeverDangling`, `NeverGarbage`, `Immortality` and `Implementation` (`Spec =>
ImplementsRefGraph`).

`CountExact` and `NoDangling` are not inductive alone. A release may free a block
while another thread is between its load and its exchange, so `IndInv` adds: a block
is allocated exactly while it is counted or being freed (`HeapAccounted`); blocks
being freed have count zero and are freed by one call (`FrameZero`, `FrameOnce`);
slots with an address have a home, fields sit in allocated blocks (`SlotHomed`); a
call in progress still has the reference it started from, in a local or in a field
of a block held by a local (`CallsOK`); a call that has read `RcMax` is right to
believe it (`SeenOK`). The counting step needs that changing one slot changes the
cardinality of `RefsTo` by one, which is where `SlotsFinite` is used. The other
assumptions: `StaticsInBlocks`, `NilApart`, `HomesApart` keep the sorts of values
apart.

`NoGarbage` is about all that can be reached, a closure, and no step changes a closure in
a simple way. The proof goes around it: `NoCycles` says that of any blocks one is no field
of another of them. A block is made after everything its fields refer to, so `Alloc` keeps
that, and no other step adds a field. Were some blocks out of reach, one of them would be
a field of none of the others; it is counted, so something refers to it: a thread, or a
field of a block that is reached, and so it is reached.

`MonomorphProofs` proves, for any finite set of bindings, any names of them
(`NamesDistinct`), any base types and ways to write them, programs and order of the roots:
`TypeCorrect`, `NamesDefinedOnce`, `CallsAreDefined`, `CallsAreRight` and
`EmitsLeastClosure`. The invariant says that whatever waits, is in hand, is emitted or
called goes by the name `Mangle` gives its specialisation (`Named`); that a name is in
`generated` exactly when it waits, is in hand or is emitted (`Accounted`), in only one of
these ways (`Apart`), and once (`DefinedOnce`); and that called names are in `generated`
(`Called`). `Mangle` is not injective, and nothing is assumed that would make it so:
`OneName` proves that two specialisations have one name exactly when they are `Alike`, by
comparing the lengths of the two identifiers and splitting the longer one (`SplitApart`,
`Joined`). `CallsAreRight` follows, and that a binding's own name reaches the binding,
because no root is ever lost (`RootsReached`) and a name is in one place. For
`LeastClosure`, `ReachInv` follows every specialisation back to where it came from: every
set that has the roots and is closed under mentions has all that waits, is in hand or is
emitted, and what an emitted function mentions has been queued, itself or under its name.
When nothing waits, what is emitted is closed and in every closed set.

`UnificationProofs` proves, for any calls on types of finite depth, any variables, fields
and any closed types as values: `BindingsAreAcyclic` (`UnificationSpec => []Acyclic`),
`SubstitutionIsMostGeneral` (`UnificationSpec => []MostGeneral`) and `EquationsAreSolved`
(`UnificationSpec => []Solved`). Nothing but the occurs check makes the recursion of
`apply` and `occurs_in` end, so the invariant `IInv` says why it ends: there is a set of
types, the universe of the state, that holds every type in `sub`, `work` and `asked`, is closed
under `Onward`, and has a rank that falls from every type to where the recursion goes from
it (`Universe`, `Ranks`). It is an existential over infinitely many sets, out of
TLC's reach; `Acyclic`, which it implies, is what the run checks.

* Under a rank, `Reached` is the least closed set, and `Replaced` exists and is unique
  (`MetIs`, `ReachedIs`, `ReplacedIs`).
* What `apply` makes of a universe can be added to it (`UniverseApplied`). A binding that
  the occurs check lets through keeps a rank: whatever reaches the variable is lifted above
  whatever its new type reaches (`UniverseBound`). So every step of `unify` builds the
  universe of the next state (`PairTaken`), and `IInv` is inductive.
* `MostGeneral`: a solution of what was asked agrees with all bindings and solves all
  pairs that wait (`SolutionsKept`). That a failure has no solution needs that a
  type is not its own part, which again is a rank; that a step keeps solutions needs that
  walking a type through bindings that a solution agrees with does not change its value.
* `Solved` holds only between calls, and the equations that are done depend on pairs
  that are still waiting. `SolvedSoFar` keeps a set of equations of which each is solved or
  is settled by equations in the set or in `work` (`Settling`, `Settled`). A later
  binding keeps it, since to apply a substitution and then a later one is to apply the
  later one (`AppliedLater`). When nothing waits, `Fits` follows by induction over the
  ranks of both sides.

`FramesProofs` proves, for any signatures, sizes, values and depth of calls:
`FramesInductive` and `ValuesArrive` (`FramesSpec => []EverythingArrives`). The invariant
looks into memory: a closure's bytes are its code and its captures, each where
`CaptureAt` says, and an array's are its length and its elements (`ObjectsHold`); a
register's value has its type, is what was meant, and points to a block of its kind
(`RegistersOK`). Its steps rest on lemmas about bytes: what a store leaves of the others
(`StoredHolds`), that a store of all arguments leaves each at its slot, that a filled and
a joined array hold their elements. Assumed are the types of the constants
(`FramesAssumption`) and that main begins with values that are neither closures nor
arrays (`BeginningsAssumption`).

`BuiltinProofs` proves `MethodsInductive`, `CallsReach` (`MethodSpec => []TablesAgree`) and
`MeaningKept` (`MethodSpec => []KeepsMeaning`) for any number of calls in a row: the value
has the kind of its type and, until a `Result` crosses, the content and variant meant
(`ValueKept`, `ViewKept`), and a call under way is as the type checker and the lowering
have left it (`Accepted`, `Emitted`). The tables of names are the code's, and finite; that
they agree but for `Broken` is proved by their definitions. It also proves
`CallsFindTheirs` for any addresses, functions and counts of `ClosureRegistry`: the
invariant says that the table has an entry exactly at the addresses of live buffers that
were registered, with their function.

Of `Bridge` it proves `ArriveWhole` (`BridgeSpec => []ArrivesWhole`) and `CallsAsDirect`
(`BridgeSpec => []SameAsDirect`) for any types, however deep, and any values of them. The
invariant is short (`BridgeInv`: what is inside is what the builtin makes of the
arguments); the work is in what a value becomes. `Converted` is defined by recursion over
whatever is met below the value; that it unfolds slot by slot (`Unfold`) is proved by
showing that such a function exists and is unique (`WholeExists`, `WholeUnique`). By
induction over the depth of types (`TypeInduction`), a value is boxed to its meaning
exactly when `Changed` does not hold of it (`ArrivesOrChanged`), and boxed and unboxed, once
or twice, is itself exactly when `Emptied` does not (`ComesBack`). The hard cases are the
exact ones: an array alone in its variant is never boxed to what it means by chance
(`NeverNested`), and one that is not empty never becomes itself again, not even when it
crosses a second time (`WrappedDiffers`).

`DataProofs` proves `NumbersInductive` and `NumbersCompute` (`NumbersSpec =>
[]ComputesAsWritten`) for any literals and any positive widths, as long as wider types
are wider (`NumbersAssumption`): the arithmetic of words is that of numbers up to
multiples of `TwoTo[width]`, and a number of the type is the only one with its word. It
proves `RecordsInductive`, `FieldsAreNamedRightly` (`RecordSpec => []ReadsInOrder`) and
`FreedWhole` (`RecordSpec => []FreesWhole`) for any fields with names of their own and any
positive sizes (`FieldsAreNamed`, `FieldsAreDistinct`, `SizesPositive`), however the type
is narrowed and in whatever order a pattern lists its fields. The type's alphabet and the
block's are both rows of the alphabet of all names, so where a field lies under either is
a sum over the fields in front of it there (`InFrontIs`, `Offsets`). A type that has lost
one of them counts fewer bytes (`FewerInFront`) and finds another cell (`KeptIs`,
`LoadFinds`, `LoadTells`). That counted fields are released exactly when each is kept needs
the last one that is not: what would have to be read for it lies further on
(`ReleasedCounted`).

It proves of `Matching`, for any number of arms, variants, literals and field
values, `MatchInductive`, `TakesFirst`, `AcceptedNeverTraps`,
`CompilesUnlessDuplicate`. The invariant says that the accumulators together hold
every arm lowered so far, each where its form says, cases and literals in order of
their arms, the default the last of its kind; the switch argument needs that a
compiled match has no case twice, the chain argument that tests already made failed.

`LanguageServerProofs` proves, for any documents, any number of handlers under way and any
choice of texts with errors: `HoversReadEdits` (`ServerSpec => []ReadYourEdits`) and
`ShownNeverGoesBack` (`ServerSpec => NeverBack`). A hover says which text it means only when
it is sent, so the invariant follows texts through every place they can be in: for each
document, the messages that wait are in the order of their versions (`Ordered`), newer
than what is stored (`Newer`), and what is stored is the last one sent unless one waits
(`Kept`); what is stored when a hover has its turn is what was sent before it (`Before`);
source and types are of one text (`Paired`); publications are in order, newer than what is
shown and not newer than what is stored (`Published`). A handler that leaves takes its
message out of the middle of the queue, which `Removal` and `Leaving` are about. No
assumption about the constants is used.

It also proves `PositionsInductive`, `PlacesAgree` (`PositionsSpec => []ShownWhereItIs`) and
`HoversFind` (`PositionsSpec => []FindsInnermost`) for documents of any length, characters
of any positive numbers of bytes and units, and any nodes inside each other or apart.
`PositionOf` goes through the characters as the code does, `EditorPosition` counts lines
and units; that they are the same is an induction over the characters (`EditorStep`,
`Same`). From then on positions ascend (`PositionsAscend`) and so do bytes, which makes the
first character reached the right one (`OffsetOfPlace`). Of the nodes around a character
one is inside the other (`OneInside`), so the smallest is the innermost.

It proves `ComparisonsByValue` (`ComparisonSpec => []ComparesByValue`) for any operands
that are of their types, any number of bits and any `Deep`. The invariant says that the
answer is one that the compiled code can give for the operands; the rest is about the
code. A payload's field is found by its own variant, because offsets ascend
(`OffsetsDiffer`, `OwnField`), and each part is answered by its content or its address
(`Judged`, `Summed`). Blocks with one address are one block, and what is below one block
twice is equal, by induction over the levels of `Within` (`WithinIs`, `EqualOver`). What is
assumed of operands holds of memory that `ArcHeap` keeps alive: values are of their
static types, and an address has one block.

How induction is done. The library's induction theorems take an operator, which the
provers cannot instantiate. `NaturalRecursion` derives induction for sets (`Induction`)
from the library's theorem that the natural numbers are well-founded, and from it that a
function defined by recursion exists and is unique (`RecursionUpTo`, `Recursion`): in
TLA+ such a function is a `CHOOSE`, of which nothing is known before. `TwoTo`,
`SumBefore`, `Alphabetical`, `PositionOf`, `FieldOrder`, `Met`, `Within`, `Below` and `Replaced`
are such functions; the last one and `Fits` recurse over types, by `RankInduction`, and
`Converted` over values, by the depth of their types.

Only model-checked: the liveness properties (`Reclaimed`, `LockFree`, `Terminates`,
`Converges`), because the prover has no ENABLED, and the invariants of `Ownership`
(`NoUseAfterFree`, `NeverShort`, `NoLeak`), `Inference` (`Sound`, `GlobalsClosed`), `Lexer` and
`Formatting`. What those compute is recursive over terms, values
or source, and written with recursive operators, which the prover does not take;
induction over trees would have to go by a rank, as it does in `UnificationProofs` and for
`Bridge`, with functions in place of the operators.

## 5. Findings

* `infer_capture`: `generalize` reads the environment's types without applying the
  substitution (`typechecker/src/infer.rs` 58), so in
  `(x) => { let y = x[0]; y + "a" }` the type of `y` is generalised although the type of
  `x` fixes it, and the function is accepted for `[1]`.
* `method_results`: `load_prelude` lists `Ok` before `Err` (`typechecker/src/env.rs` 195),
  so programs give `Ok` the discriminant 0; the builtins build and test it as 1
  (`stdlib/src/result.rs` 46-58). A match takes the `Err` arm for a successful
  `parse_i32`.
* `layout_pattern`: `lower_pattern` reads the i-th field of a record pattern at
  position i (`ir/src/lower.rs` 1488), blocks are laid out alphabetically: the pattern
  `{ name: n, age }` of `src/plan-main.md` 175 binds `n` to the age.
* `tag_equality`: a comment in `compile_tag_cmp` (`runtime/src/jit.rs` 2950) says the result
  is `disc_eq` and the payload's equality; the loop below it replaces `disc_eq` by the
  answer for the payload of the left value's variant. `None == Some(1)` is true, since
  `None` has no payload, and `Some(1) == None` is what lies behind the discriminant.
* `literal_range`: `check_int_overflow` (`typechecker/src/infer.rs` 443) cuts only letters from
  the end of a literal. With a suffix that ends in digits, or in another base, the rest is
  no decimal number and nothing is checked: `300u8` becomes 0, `200i8` becomes -56, where
  `typechecker/src/error.rs` 52 has an error for "A numeric literal overflowed its type".

## 6. Known departures

What the models do not promise because the code does not, found while modelling.
Each is part of a model, as a listed exception or a precondition, unless marked.

Type checker
* Four ways to accept a program that goes wrong (`Odd`): generalising a captured
  variable, using the open type of a declaration not yet inferred, destructuring in a
  `let` without looking at the value's type, unifying records or tuples of different
  sizes.
* An error inside a lambda or an arm leaves its scope open (`infer.rs` 548), so that later
  declarations see its parameters (`LeftOpen` in `Inference`).
* A literal does not narrow: `let x: i64 = 5` and `let x: u8 = 42` are rejected, although a
  comment (`typechecker/src/infer.rs` 511) has the second as its example.
* `-2147483648` is rejected: the digits are compared with the range before the minus is
  seen.
* Two arms for one constructor pass the checker and end in an error of the code
  generator (`jit.rs` 1212).

Lowering
* Shapes that leak (`Forgets` in `Ownership`), among them a local as the element of an
  array: a comment in `lower.rs` 947-948 leaves its release to the block's cleanup, which
  releases the binding's reference and not the one taken on reading it.
* Literal matches on primitive types are not checked for exhaustiveness and may trap
  (`src/plan-main.md` 160 asks for it); nested patterns bind but do not test
  (`src/plan-main.md` 444).
* A record narrowed to a type that lacks one of its fields is read at wrong offsets behind
  that field, and freed with the wrong size (`ReadsInOrder` and `FreesWhole` say exactly
  when).
* `id` at `(i32, i32)` and at `(str, str)` get one name, and `id` at `i32` has the name of
  a user's `id_I32`, which is then called instead (`Alike`). `f = (x) => g([x])` with
  `g = (y) => f(y)` is specialised without end (`lower.rs` 540; `Grows`).
* A literal that does not parse is lowered to 0 (`lower.rs` 1303): `1_000`, and
  `9223372036854775808i64` behind a minus.

Comparisons
* Blocks inside records, tags and arrays are compared by address, floats in arrays by
  their bits; `<` on records, tags and arrays is compiled like `==`.
* The payload of a variant that holds a string is followed as one, whatever the block
  holds there: comparing two other variants may crash.

Compiled calls
* An index is not compared with the length (`Frames` asks only for indices that are
  less). Comments on `CallIndirect` that say captures are packed by size and followed by
  the arguments describe an older layout.
* `call_main` reads results of `I64`, `U64` and the floats as exit code 0, against its
  documentation (`jit.rs` 100-104; not modelled).

Methods
* `Broken` lists the calls that are accepted and fail when they run; `"abc".len()`
  calls the length of arrays.

Bridge
* A variant whose only payload is `()` or an array is flattened (`jit.rs` 4213-4224):
  `Some([1, 2])` comes back as `Some([])`.
* An `i8` or `i16` inside a block is boxed from four bytes (`jit.rs` 4010).
* An `f32` result is taken from the low half of an `f64`; a `usize` that a builtin closure
  returns is an address (`encode_value_to_ret_buf` has no case 18).
* A closure that is passed on as a parameter has its declared type, from which
  captures and environment are subtracted all the same (`jit.rs` 4099): its call is
  refused.
* Heap arguments of builtin closures are boxed from the address of their slot
  (`jit.rs` 4708-4724).
* A builtin closure that crosses again is copied to a buffer that is not registered,
  and nobody looks at the code its failed call returns.

Lexer, parser and formatter
* The end of a template's hole is found by counting braces, inside strings, comments and
  the texts of inner templates, too; and a character of several bytes in a hole moves
  what follows it (`lexer.rs` 261, 296; `Misread` in `Lexer` says exactly when).
* After an expression that ends in a field, a `(` on a new line is a method call
  (`parser.rs` 745): a match arm that ends so swallows a following tuple pattern.
* `fmt` drops parentheses that are needed (`(a + b) * c` becomes `a + b * c`), the comma of
  one-tuples, the difference between `(x.f)(a)` and `x.f(a)`, parentheses around a sum
  type in an arrow, and comments; it writes strings without their escapes (the last
  two not modelled). Every `fmt` adds braces to an `if`, which therefore never passes
  `--check`.

## 7. Plan

Done: the heap, ownership, matching, monomorphization, types and inference, records,
methods, the bridge and its registry, comparisons, numbers, the calling convention,
lexer, parser, formatter and language server; proofs of the heap, of matching, of
unification, of the worklist, of the registry, of the language server and its
positions, of records, numbers, comparisons, method calls, the bridge and the calling
convention. Next, in order:

1. The registry composed with the heap's free, so that removal of an entry and reuse of
   its address interleave with other threads' calls.
2. The byte encoding of descriptors, with bounds of reads.
3. What is left of code generation: `RecordSet`, casts, floats, exit codes.
4. Nested patterns that test, once the lowering makes them.

Proofs still worth having: that what is formatted twice stays the same (`Formatting`), and
that inference is sound for every program (`Inference`).

## 8. Not modelled

* Cranelift's instruction selection and register allocation.
* The IR and the syntax tree: data definitions and their printing. They appear in the
  models as what the lowering makes and the code generator reads.
* The session beyond `fmt`: the stages run one after the other on values they own, and
  a process has one session, so that the replacement of `GLOBAL_REGISTRY` never meets a
  call. (`execute_builtin` holds its read lock while compiled code calls back into it;
  that would matter only with a second session in the process.) `CAPTURE_BUF` is for
  tests.
* Numeric builtins and string functions of the standard library: pure functions on
  copied values.
* The wording and layout of diagnostics, and the test infrastructure.
