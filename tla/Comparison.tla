----------------------------- MODULE Comparison -----------------------------
(***************************************************************************)
(* A comparison of two values of one static type, as compile_comparison of *)
(* runtime/src/jit.rs compiles it: numbers by value, strings and arrays by *)
(* a call of the runtime, records field by field, tags by a blend over all *)
(* variants, and blocks inside blocks by their address.                    *)
(*                                                                         *)
(* A block is a value with its address; what a load finds where no field   *)
(* of its type begins is Garbage.                                          *)
(***************************************************************************)
EXTENDS ValueTrees, PrefixSums

CONSTANTS Operands,    \* for each type, what is compared: two values and the type
          Bits,        \* bits of an integer
          Deep         \* bound: how deep equality by content looks into blocks

VARIABLES operands,    \* the static type and the two values
          asked,       \* the operator, "none" before the comparison
          answer       \* what the program gets: yes or no, a crash, or an error
                       \* of the compiler

comparisonVars == <<operands, asked, answer>>

Equalities == {"==", "!="}
Orderings == {"<", "<=", ">", ">="}
-----------------------------------------------------------------------------
(* Values. *)

IsInteger(t) == t.is \in {"i8", "u8"}
IsFloat(t) == t.is = "f64"

\* What a value of a type is in a register: a word, or a block with its address.
Fits(n, t) ==
    CASE IsInteger(t) -> n \in {Word(k) : k \in 0 .. 2 ^ Bits - 1}
      [] t.is = "bool" -> n \in {Word(0), Word(1)}
      [] t.is = "unit" -> n = Word(0)
      [] IsFloat(t) -> n \in {Real(r) : r \in {"0.0", "-0.0", "1.5", "nan"}}
      [] t.is = "str" -> n.as = "text"
      [] t.is = "closure" -> n.as = "block"
      [] t.is = "array" -> n.as = "block" /\ IsRow(n.parts)
      [] t.is = "record" -> n.as = "block" /\ DOMAIN n.parts = DOMAIN t.fields
      [] t.is = "tag" -> /\ n.as = "variant" /\ n.disc + 1 \in DOMAIN t.variants
                         /\ DOMAIN n.parts = DOMAIN t.variants[n.disc + 1]
      [] OTHER -> FALSE

\* The parts of both values that lie at the same place in their blocks.
PartType(t, n, i) == CASE t.is = "array" -> t.of
                       [] t.is = "record" -> t.fields[i].of
                       [] t.is = "tag" -> t.variants[n.disc + 1][i]
HasParts(t) == t.is \in {"array", "record", "tag"}
PartsOf(o) ==
    IF HasParts(o.type) /\ (o.type.is = "tag" => o.left.disc = o.right.disc)
    THEN {[type |-> PartType(o.type, o.left, i), left |-> o.left.parts[i], right |-> o.right.parts[i]] :
             i \in DOMAIN o.left.parts \cap DOMAIN o.right.parts}
    ELSE {}

\* The values at hand are of their type, each block that a comparison reads and
\* each of its parts, and what both have at one address is one block.
IsRead(n, t) ==
    /\ Fits(n, t)
    /\ t.is = "tag" => \A d \in DOMAIN t.variants : IsRow(t.variants[d])
    /\ HasParts(t) => \A i \in DOMAIN n.parts : Fits(n.parts[i], PartType(t, n, i))
SharesBlocks(o) ==
    HasParts(o.type) =>
        \A i \in DOMAIN o.left.parts, j \in DOMAIN o.right.parts :
           /\ NeedsHeapBoxing(PartType(o.type, o.left, i)) /\ NeedsHeapBoxing(PartType(o.type, o.right, j))
           /\ o.left.parts[i].place = o.right.parts[j].place
           => o.left.parts[i] = o.right.parts[j]

ASSUME ComparisonAssumption ==
    /\ Bits \in Nat \ {0} /\ Deep \in Nat \ {0}
    /\ \A t \in DOMAIN Operands : \A o \in Operands[t] : IsRead(o.left, o.type) /\ IsRead(o.right, o.type) /\ SharesBlocks(o)

ComparisonInit ==
    /\ \E t \in DOMAIN Operands : operands \in Operands[t]
    /\ asked = "none" /\ answer = "none"
-----------------------------------------------------------------------------
(* What is compiled. Several answers stand for what Garbage may hold. *)

Holds(condition) == IF condition THEN {"yes"} ELSE {"no"}
Every(answers) ==
    (IF \A i \in DOMAIN answers : "yes" \in answers[i] THEN {"yes"} ELSE {})
    \cup (IF \E i \in DOMAIN answers : "no" \in answers[i] THEN {"no"} ELSE {})
    \cup (IF \E i \in DOMAIN answers : "crash" \in answers[i] THEN {"crash"} ELSE {})
Negated(answers) == {CASE a = "yes" -> "no" [] a = "no" -> "yes" [] OTHER -> a : a \in answers}

AsSigned(t, w) == IF t.is = "i8" /\ w.n >= 2 ^ (Bits - 1) THEN w.n - 2 ^ Bits ELSE w.n
Magnitude(r) == IF r.r = "1.5" THEN 1 ELSE 0
Ordered(op, m, n) == CASE op = "==" -> m = n [] op = "!=" -> m # n [] op = "<" -> m < n
                       [] op = "<=" -> m <= n [] op = ">" -> m > n [] op = ">=" -> m >= n
FloatOrdered(op, a, b) == IF a.r = "nan" \/ b.r = "nan" THEN op = "!=" ELSE Ordered(op, Magnitude(a), Magnitude(b))

\* Two values in registers, as fields of a record or of a payload.
FieldEqual(t, a, b) ==
    CASE Garbage \in {a, b} -> {"yes", "no"} \cup (IF t.is = "str" THEN {"crash"} ELSE {})
      [] IsFloat(t) /\ Garbage \notin {a, b} -> Holds(FloatOrdered("==", a, b))
      [] NeedsHeapBoxing(t) /\ Garbage \notin {a, b} -> Holds(a.place = b.place)
      [] OTHER -> Holds(a = b)

\* Faulty variant: strings in arrays, too, by their address.
ElementByAddress(t, a, b) == IF IsHeap(t) THEN {"no"} ELSE FieldEqual(t, a, b)
\* Elements of an array: floats by their bits.
ElementEqual(t, a, b) == IF IsFloat(t) THEN Holds(a = b) ELSE FieldEqual(t, a, b)

ArrayEqual(t, a, b) ==
    IF Len(a.parts) # Len(b.parts) THEN {"no"}
    ELSE Every([i \in DOMAIN a.parts |-> ElementEqual(t.of, a.parts[i], b.parts[i])])

RecordEqual(t, a, b) == Every([i \in DOMAIN t.fields |-> FieldEqual(t.fields[i].of, a.parts[i], b.parts[i])])

StorageSize(t) == CASE t.is \in {"i8", "u8", "bool"} -> 1 [] t.is = "unit" -> 4 [] OTHER -> 8
PayloadOffset(types, i) == 4 + SumBefore([j \in DOMAIN types |-> StorageSize(types[j])], i)

\* What a load of field i of a variant with these fields finds in a block.
PayloadField(t, types, i, v) ==
    LET own == t.variants[v.disc + 1]
        same == {j \in DOMAIN own : own[j] = types[i] /\ PayloadOffset(own, j) = PayloadOffset(types, i)}
    IN IF same = {} THEN Garbage ELSE v.parts[CHOOSE j \in same : TRUE]
PayloadEqual(t, types, a, b) ==
    Every([i \in DOMAIN types |-> FieldEqual(types[i], PayloadField(t, types, i, a), PayloadField(t, types, i, b))])

\* Faulty variant: the payload of the left value's variant is not looked at.
TagEqualByDiscriminant(t, a, b) == Holds(a.disc = b.disc)
\* The payloads of every variant are loaded and compared, and the answer for the
\* variant of the left value is taken; it replaces that of the discriminants.
TagEqual(t, a, b) ==
    LET payloads == [d \in DOMAIN t.variants |-> PayloadEqual(t, t.variants[d], a, b)]
    IN (payloads[a.disc + 1] \cap {"yes", "no"})
       \cup (IF \E d \in DOMAIN payloads : "crash" \in payloads[d] THEN {"crash"} ELSE {})

BlocksEqual(t, a, b) == CASE t.is = "array" -> ArrayEqual(t, a, b)
                          [] t.is = "record" -> RecordEqual(t, a, b)
                          [] t.is = "tag" -> TagEqual(t, a, b)

\* compile_comparison: an ordering of blocks is compiled like ==.
Compiled(op, t, a, b) ==
    CASE IsInteger(t) -> Holds(Ordered(op, AsSigned(t, a), AsSigned(t, b)))
      [] IsFloat(t) -> Holds(FloatOrdered(op, a, b))
      [] t.is \in {"bool", "str"} -> IF op \in Orderings THEN {"error"} ELSE Holds(Ordered(op, a, b))
      [] t.is \in {"array", "record", "tag"} ->
           IF op = "!=" THEN Negated(BlocksEqual(t, a, b)) ELSE BlocksEqual(t, a, b)
      [] t.is \in {"unit", "closure"} -> {"error"}

Compare(op) == /\ asked = "none"
               /\ asked' = op
               /\ answer' \in Compiled(op, operands.type, operands.left, operands.right)
               /\ UNCHANGED operands

ComparisonNext == \E op \in Equalities \cup Orderings : Compare(op)
ComparisonSpec == ComparisonInit /\ [][ComparisonNext]_comparisonVars
-----------------------------------------------------------------------------
(* What a comparison means. *)

\* Equality by content, whatever the addresses; a nan equals itself if asked so.
Alike(o, nan) ==
    CASE IsFloat(o.type) -> FloatOrdered("==", o.left, o.right) \/ (nan /\ o.left = o.right)
      [] o.type.is = "array" -> Len(o.left.parts) = Len(o.right.parts)
      [] o.type.is = "record" -> TRUE
      [] o.type.is = "tag" -> o.left.disc = o.right.disc
      [] OTHER -> o.left = o.right
Within(o) ==
    LET met[k \in 0 .. Deep] == IF k = 0 THEN {o} ELSE met[k - 1] \cup UNION {PartsOf(p) : p \in met[k - 1]}
    IN  met[Deep]
Equal(o, nan) == \A p \in Within(o) : Alike(p, nan)

\* Blocks in blocks are told apart by address, floats in arrays by their bits.
ByContent(t) == /\ \A p \in PartTypes(t) : ~NeedsHeapBoxing(p)
                /\ t.is = "array" => ~IsFloat(t.of)

\* Tags of one variant, and no string in another, which would be followed.
SameVariant(o) ==
    /\ o.left.disc = o.right.disc
    /\ \A d \in DOMAIN o.type.variants \ {o.left.disc + 1} :
          \A i \in DOMAIN o.type.variants[d] : o.type.variants[d][i].is # "str"
\* The type has this comparison: numbers have all, other types equality.
Proper(op, o) == \/ IsInteger(o.type) \/ IsFloat(o.type)
                 \/ /\ op \in Equalities /\ o.type.is \notin {"unit", "closure"}
                    /\ o.type.is = "tag" => SameVariant(o)
Intended(op, o) ==
    CASE IsInteger(o.type) -> Ordered(op, AsSigned(o.type, o.left), AsSigned(o.type, o.right))
      [] IsFloat(o.type) -> FloatOrdered(op, o.left, o.right)
      [] OTHER -> Equal(o, FALSE) = (op = "==")

\* A comparison its type has answers, and by the contents: exactly, where the
\* parts are numbers and strings, and elsewhere at least never takes for equal what
\* differs in a number, a string, a length or a variant (jit.rs:2762).
ComparesByValue ==
    asked # "none" /\ Proper(asked, operands) =>
        /\ answer \in {"yes", "no"}
        /\ IF ByContent(operands.type) THEN (answer = "yes") = Intended(asked, operands)
           ELSE (answer = "yes") = (asked = "==") => Equal(operands, TRUE)

\* Tags of two variants are never equal.  The comment in compile_tag_cmp
\* (jit.rs:2950): "result = disc_eq AND (for variant V: disc_is_V AND payload_eq_V)".
DiscriminantsFirst ==
    asked = "==" /\ operands.type.is = "tag" /\ answer = "yes" => operands.left.disc = operands.right.disc
=============================================================================
