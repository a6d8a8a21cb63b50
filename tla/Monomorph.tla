------------------------------ MODULE Monomorph ------------------------------
(***************************************************************************)
(* The worklist of lower() (ir/src/lower.rs).  Every top-level binding is  *)
(* queued once under its own name, with no type arguments; lowering the    *)
(* body of a queued item meets mentions of other bindings, works out the   *)
(* type each is wanted at, names that specialisation (mangle_name) and     *)
(* queues it unless the name was queued before.                            *)
(*                                                                         *)
(* A binding has one type parameter or none.  A type is an array nest of   *)
(* some depth over a base type, deep enough for a specialisation to ask    *)
(* for another one of itself; a mention is of a binding at a fixed type or *)
(* at the mentioning binding's own type argument under some array levels.  *)
(***************************************************************************)
EXTENDS Naturals, Sequences, FiniteSets

CONSTANTS Decls,      \* the top-level bindings, one per name: global_decls
          Poly,       \* the ones whose type has a type variable
          Ident,      \* Ident[d]: the words of d's name, as "_" separates them
          Bases,      \* the types that are not arrays
          Text,       \* Text[b]: the words format_ir_type_mangled writes for b
          I32,        \* the type an unresolved variable defaults to
          NoArgs,     \* no type arguments: the base name
          Programs    \* the programs to lower: the mentions in each body

Type == [base : Bases, arrays : Nat]
Arg == Type \cup {NoArgs}
Specialisation == [decl : Decls, arg : Arg]
OwnAt == [own : {TRUE}, arrays : Nat]
FixedAt == [own : {FALSE}, type : Type]
Mention == [to : Decls, at : OwnAt \cup FixedAt]

\* A name as "_" separates its words; the "Arr"s of an array are written in front
\* of its first word.
Names == Seq([word : STRING, arrays : Nat])

ASSUME NamesDistinct ==
    \A d, e \in Decls : Ident[d] = Ident[e] => d = e
ASSUME ProgramsTyped ==
    /\ Programs \subseteq [Decls -> SUBSET Mention]
    /\ Poly \subseteq Decls
    /\ I32 \in Bases
    /\ Text \in [Bases -> Names \ {<<>>}]
    /\ Ident \in [Decls -> Names]
    /\ NoArgs \notin Type /\ NoArgs \notin Specialisation
ASSUME DeclsFinite == IsFiniteSet(Decls)

VARIABLES program,    \* the mentions in each body, as the type map records them
          queue,      \* items waiting, first in first out
          generated,  \* the names queued so far
          current,    \* the item being lowered, or Idle
          todo,       \* specialisations its body still has to name
          calls,      \* the names its body refers to, with what each was for
          module,     \* the functions emitted
          failed      \* lower_expr returned an error, and lower() with it
vars == <<program, queue, generated, current, todo, calls, module, failed>>

\* A change to mangle_name that leaves out the type arguments.
MangleBase(s) == Ident[s.decl]

TextOf(arg) == IF arg = NoArgs THEN <<>>
               ELSE [Text[arg.base] EXCEPT ![1].arrays = @ + arg.arrays]
Mangle(s) == Ident[s.decl] \o TextOf(s.arg)

\* mono_to_ir of a mention's type under the type arguments of the item in hand.
TypeAt(at, arg) ==
    IF ~at.own THEN at.type
    ELSE LET own == IF arg = NoArgs THEN [base |-> I32, arrays |-> 0] ELSE arg
         IN  [own EXCEPT !.arrays = @ + at.arrays]

Wanted(m, arg) ==
    [decl |-> m.to, arg |-> IF m.to \in Poly THEN TypeAt(m.at, arg) ELSE NoArgs]

Needs(p, s) == {Wanted(m, s.arg) : m \in p[s.decl]}

Item(s) == [name |-> Mangle(s), spec |-> s]
Root(d) == [decl |-> d, arg |-> NoArgs]
Roots == {Root(d) : d \in Decls}
Idle == [name |-> <<>>, spec |-> NoArgs]

\* The roots come out of a hash map, so in any order.
Init ==
    /\ program \in Programs
    /\ \E order \in [1..Cardinality(Decls) -> Decls] :
          /\ \A i, j \in DOMAIN order : order[i] = order[j] => i = j
          /\ \A d \in Decls : \E i \in DOMAIN order : order[i] = d
          /\ queue = [i \in 1..Cardinality(Decls) |-> Item(Root(order[i]))]
    /\ generated = {Mangle(s) : s \in Roots}
    /\ current = Idle /\ todo = {} /\ calls = {}
    /\ module = <<>>
    /\ failed = FALSE

Take ==
    /\ ~failed /\ current = Idle /\ queue # <<>>
    /\ current' = Head(queue)
    /\ queue' = Tail(queue)
    /\ todo' = Needs(program, Head(queue).spec)
    /\ calls' = {}
    /\ UNCHANGED <<program, generated, module, failed>>

\* Faulty variants of Resolve: queueing without the check, marking without
\* queueing, and waiting at a name that is known.
ResolveAgain(s) ==
    /\ ~failed /\ current # Idle /\ s \in todo
    /\ generated' = generated \cup {Mangle(s)}
    /\ queue' = Append(queue, Item(s))
    /\ calls' = calls \cup {Item(s)}
    /\ todo' = todo \ {s}
    /\ UNCHANGED <<program, current, module, failed>>
ResolveMarked(s) ==
    /\ ~failed /\ current # Idle /\ s \in todo
    /\ generated' = generated \cup {Mangle(s)}
    /\ calls' = calls \cup {Item(s)}
    /\ todo' = todo \ {s}
    /\ UNCHANGED <<program, queue, current, module, failed>>
ResolveUnknown(s) ==
    /\ ~failed /\ current # Idle /\ s \in todo
    /\ Mangle(s) \notin generated
    /\ generated' = generated \cup {Mangle(s)}
    /\ queue' = Append(queue, Item(s))
    /\ calls' = calls \cup {Item(s)}
    /\ todo' = todo \ {s}
    /\ UNCHANGED <<program, current, module, failed>>

\* resolve_and_queue_global, for one mention met in the body.
Resolve(s) ==
    /\ ~failed /\ current # Idle /\ s \in todo
    /\ IF Mangle(s) \in generated
       THEN UNCHANGED <<generated, queue>>
       ELSE /\ generated' = generated \cup {Mangle(s)}
            /\ queue' = Append(queue, Item(s))
    /\ calls' = calls \cup {Item(s)}
    /\ todo' = todo \ {s}
    /\ UNCHANGED <<program, current, module, failed>>

Emit ==
    /\ ~failed /\ current # Idle /\ todo = {}
    /\ module' = Append(module, [name |-> current.name, spec |-> current.spec, calls |-> calls])
    /\ current' = Idle
    /\ calls' = {}
    /\ UNCHANGED <<program, queue, generated, todo, failed>>

\* A body that cannot be lowered ends the whole of lower() with its error.
Fail ==
    /\ ~failed /\ current # Idle
    /\ failed' = TRUE
    /\ UNCHANGED <<program, queue, generated, current, todo, calls, module>>

Progress == Take \/ (\E s \in todo : Resolve(s)) \/ Emit
Next == Progress \/ Fail
Spec == Init /\ [][Next]_vars /\ WF_vars(Progress)

Done == queue = <<>> /\ current = Idle

-----------------------------------------------------------------------------
Call == [name : Names, spec : Specialisation]

TypeOK ==
    /\ program \in Programs
    /\ queue \in Seq(Call)
    /\ generated \subseteq Names
    /\ current \in Call \cup {Idle}
    /\ todo \subseteq Specialisation
    /\ calls \subseteq Call
    /\ module \in Seq([name : Names, spec : Specialisation, calls : SUBSET Call])
    /\ failed \in BOOLEAN

\* No two functions are emitted under one name, whatever the mentions and
\* whatever the order the hash map gave the roots: the JIT declares each name.
DefinedOnce ==
    \A i, j \in DOMAIN module : module[i].name = module[j].name => i = j

\* When the worklist is empty every name a body calls has been emitted, so no
\* call is left for the run time to look up among the builtins.
AllDefined ==
    Done => \A i \in DOMAIN module : \A c \in module[i].calls :
                \E j \in DOMAIN module : module[j].name = c.name

\* The binding of s is named as that of t with the beginning of t's type behind
\* it, and the rest is the type of s.
NamedLike(s, t) ==
    \E w \in {SubSeq(TextOf(t.arg), 1, n) : n \in DOMAIN TextOf(t.arg)} :
        Ident[s.decl] = Ident[t.decl] \o w /\ w \o TextOf(s.arg) = TextOf(t.arg)

\* The ways in which two specialisations come to have one name: one binding at two
\* types that are written the same, as all payloads of a tag are, and a binding
\* that the programmer has named like a specialisation, as id_I32.
Alike(s, t) ==
    \/ s.decl = t.decl /\ TextOf(s.arg) = TextOf(t.arg)
    \/ NamedLike(s, t)
    \/ NamedLike(t, s)

\* A call reaches the function lowered for the binding and the type it was inferred
\* at, and in the two ways above, and in no other, it may reach another one; what
\* goes by the name of a binding reaches that binding (lower.rs 504, 540, 1828).
RightOne ==
    \A i, j \in DOMAIN module : \A c \in module[i].calls :
        module[j].name = c.name =>
            /\ module[j].spec = c.spec \/ Alike(module[j].spec, c.spec)
            /\ \A d \in Decls : Root(d) = c.spec \/ Alike(Root(d), c.spec) => module[j].spec = Root(d)

Emitted == {module[i].spec : i \in DOMAIN module}

\* What is emitted holds the roots and, for all that its members mention, the
\* specialisation or one that goes by its name; and nothing is emitted that no
\* chain of mentions leads to from a root (lower.rs 540-543, 1827-1857).
LeastClosure ==
    Done => /\ Roots \subseteq Emitted
            /\ \A s \in Emitted : \A t \in Needs(program, s) :
                   \E e \in Emitted : e = t \/ Alike(e, t)
            /\ \A S \in SUBSET (Emitted \ Roots) :
                   (\A s \in Roots \cup S : Needs(program, s) \cap Emitted \subseteq Roots \cup S)
                       => S = Emitted \ Roots

\* Bindings that mention one another at their own type, the first one under array
\* levels: each round asks for a deeper specialisation.
Grows(p) ==
    \E n \in 1 .. Cardinality(Decls) : \E round \in [0 .. n - 1 -> Poly] :
        \A i \in 0 .. n - 1 : \E m \in p[round[i]] :
            m.to = round[(i + 1) % n] /\ m.at.own /\ (i = 0 => m.at.arrays > 0)

\* Lowering ends exactly when no type grows: recursion and mutual recursion at types
\* that come back never keep it going, and a type that grows always does, unless
\* a body cannot be lowered (lower.rs 540).
Terminates ==
    /\ [](Done => ~Grows(program))
    /\ ~Grows(program) => <>(failed \/ Done)
=============================================================================
