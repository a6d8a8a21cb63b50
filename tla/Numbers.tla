------------------------------ MODULE Numbers ------------------------------
(***************************************************************************)
(* An integer from its literal to the result of an operation: the checker  *)
(* gives the literal a type and may reject it (typechecker/src/infer.rs),  *)
(* lowering parses its digits (ir/src/lower.rs), and the compiled code     *)
(* computes with words of the type's width (runtime/src/jit.rs).           *)
(*                                                                         *)
(* A literal is what its digits say, how they are written, its suffix, and *)
(* the minus before it.  Floats are left out.                              *)
(***************************************************************************)
EXTENDS Integers

CONSTANTS Width,      \* the bits that stand for 8, 16, 32, 64 and 128
          Written     \* what the digits of a literal say

ASSUME NumbersAssumption ==
    /\ Width \in [{8, 16, 32, 64, 128} -> Nat \ {0}]
    /\ \A a, b \in {8, 16, 32, 64, 128} : a < b => Width[a] < Width[b]
    /\ Written \subseteq Nat

VARIABLES literal,    \* the literal in the source
          reached,    \* how far it is: written, rejected, constant, operand, ...
          word        \* the word that holds it or the result

numberVars == <<literal, reached, word>>

IntSuffixes == {"i8", "i16", "i32", "i64", "u8", "u16", "u32", "u64", "usize"}
Operations == {"+", "-", "*", "/", "%"}
NoOperation == [op |-> "none", with |-> 0]

\* int_literal_type: without a suffix an i32.
LiteralType(l) == IF l.suffix = "none" THEN "i32" ELSE l.suffix
WidthOf(t) == Width[CASE t \in {"i8", "u8"} -> 8 [] t \in {"i16", "u16"} -> 16
                      [] t \in {"i32", "u32"} -> 32 [] OTHER -> 64]
TwoTo[n \in Nat] == IF n = 0 THEN 1 ELSE 2 * TwoTo[n - 1]
Unsigned(t) == t \in {"u8", "u16", "u32", "u64", "usize"}
Bounded(n, bits, unsigned) == IF unsigned THEN n \in 0 .. TwoTo[bits] - 1
                              ELSE n \in -TwoTo[bits - 1] .. TwoTo[bits - 1] - 1
InType(n, t) == Bounded(n, WidthOf(t), Unsigned(t))
WordOf(n, t) == n % TwoTo[WidthOf(t)]
NumberIn(w, t) == IF ~Unsigned(t) /\ w >= TwoTo[WidthOf(t) - 1] THEN w - TwoTo[WidthOf(t)] ELSE w

NumbersInit ==
    /\ literal \in [digits : Written, form : {"decimal", "radix", "separated"},
                    suffix : IntSuffixes \cup {"none"}, minus : BOOLEAN, step : {NoOperation}]
    /\ reached = "written" /\ word = 0
-----------------------------------------------------------------------------
(* The checker. *)

\* Faulty variant: digits in another base are read as decimal ones.
ReadAnyBase(l) == l.suffix \in {"none", "usize"} /\ l.form # "separated"
\* check_int_overflow cuts the letters at the end: a suffix that ends in digits
\* stays, and what is not a decimal number then is not looked at.
ReadByCheck(l) == /\ l.form = "decimal" /\ l.suffix \in {"none", "usize"}
                  /\ Bounded(l.digits, Width[128], FALSE)

\* The literal alone: a minus is an operator before it.
WithinRange(l) == ReadByCheck(l) => InType(l.digits, LiteralType(l))
CheckLiteral == /\ reached = "written"
                /\ reached' = IF WithinRange(literal) THEN "checked" ELSE "rejected"
                /\ UNCHANGED <<literal, word>>
-----------------------------------------------------------------------------
(* Lowering. *)

\* Digits that do not parse, with a separator or too large, are 0.
Parsed(l, bits, unsigned) ==
    IF l.form = "separated" \/ ~Bounded(l.digits, bits, unsigned) THEN 0 ELSE l.digits
\* Faulty variant: every literal is parsed as the signed type of its width.
ParseSigned(l) == WordOf(Parsed(l, WidthOf(LiteralType(l)), FALSE), LiteralType(l))
\* parse_int_literal: signed types are cut from an i64, the others parsed as they are.
ParseIntLiteral(l) ==
    LET t == LiteralType(l)
    IN WordOf(IF Unsigned(t) THEN Parsed(l, WidthOf(t), TRUE) ELSE Parsed(l, Width[64], FALSE), t)

LowerLiteral == /\ reached = "checked"
                /\ reached' = IF literal.minus THEN "constant" ELSE "operand"
                /\ word' = ParseIntLiteral(literal)
                /\ UNCHANGED literal
-----------------------------------------------------------------------------
(* Compiled code: the type of the left operand decides. *)

\* ineg
Negate == /\ reached = "constant" /\ reached' = "operand"
          /\ word' = WordOf(-word, LiteralType(literal))
          /\ UNCHANGED literal

Absolute(n) == IF n < 0 THEN -n ELSE n
Quotient(m, n) == IF (m < 0) = (n < 0) THEN Absolute(m) \div Absolute(n) ELSE -(Absolute(m) \div Absolute(n))
\* udiv and sdiv, urem and srem: a division by zero traps, and one whose quotient
\* has no word.
DivideSigned(op, v, w, t) ==
    LET half == TwoTo[WidthOf(t) - 1]
        m == IF v >= half THEN v - 2 * half ELSE v
        n == IF w >= half THEN w - 2 * half ELSE w
    IN IF n = 0 \/ (op = "/" /\ Quotient(m, n) = half) THEN {}
       ELSE {WordOf(IF op = "/" THEN Quotient(m, n) ELSE m - Quotient(m, n) * n, t)}
Divide(op, v, w, t) ==
    IF Unsigned(t) THEN IF w = 0 THEN {} ELSE {IF op = "/" THEN v \div w ELSE v % w}
    ELSE DivideSigned(op, v, w, t)

\* The words an operation can give: none if it traps.
Compute(op, v, w, t) ==
    CASE op = "+" -> {WordOf(v + w, t)}
      [] op = "-" -> {WordOf(v - w, t)}
      [] op = "*" -> {WordOf(v * w, t)}
      [] op \in {"/", "%"} -> Divide(op, v, w, t)

Operate(op, w) ==
    LET results == Compute(op, word, w, LiteralType(literal))
    IN /\ reached = "operand"
       /\ reached' = IF results = {} THEN "trapped" ELSE "computed"
       /\ word' \in IF results = {} THEN {0} ELSE results
       /\ literal' = [literal EXCEPT !.step = [op |-> op, with |-> w]]

NumbersNext ==
    \/ CheckLiteral \/ LowerLiteral \/ Negate
    \/ \E op \in Operations, w \in 0 .. TwoTo[WidthOf(LiteralType(literal))] - 1 : Operate(op, w)
NumbersSpec == NumbersInit /\ [][NumbersNext]_numberVars
-----------------------------------------------------------------------------
(* Properties *)

Signed(l) == IF l.minus THEN -l.digits ELSE l.digits
\* Literals that say a number of their type, in digits alone.
WellWritten(l) ==
    /\ l.form # "separated" /\ InType(Signed(l), LiteralType(l))
    /\ (l.minus => ~Unsigned(LiteralType(l)))
\* The digits of the smallest i64 are no i64.
SmallestI64(l) == l.suffix = "i64" /\ l.minus /\ l.digits = TwoTo[Width[64] - 1]

\* The result is the one arithmetic gives, up to the width.
Exactly(op, m, n, r, t) ==
    CASE op = "+" -> WordOf(m + n, t) = WordOf(r, t)
      [] op = "-" -> WordOf(m - n, t) = WordOf(r, t)
      [] op = "*" -> WordOf(m * n, t) = WordOf(r, t)
      [] op = "/" -> \E rest \in (1 - Absolute(n)) .. (Absolute(n) - 1) : m = r * n + rest /\ m * rest >= 0
      [] op = "%" -> (m - r) % Absolute(n) = 0 /\ Absolute(r) < Absolute(n) /\ m * r >= 0

\* A literal that says a number of its type is that number in the program, but for
\* the smallest i32 without a suffix, which is rejected, and the smallest i64, which
\* is 0; and an operation on it gives what arithmetic gives, or traps where that has
\* no answer (lower.rs:1569, jit.rs:1284).
ComputesAsWritten ==
    LET t == LiteralType(literal)
        m == Signed(literal)
        op == literal.step.op
        n == NumberIn(literal.step.with, t)
        r == NumberIn(word, t)
    IN WellWritten(literal) /\ ~SmallestI64(literal) =>
         /\ reached = "rejected" <=> reached # "written" /\ literal.suffix = "none"
                                     /\ literal.form = "decimal" /\ ~InType(literal.digits, t)
         /\ reached = "operand" => r = m
         /\ reached = "computed" => Exactly(op, m, n, r, t)
         /\ reached = "trapped" => op \in {"/", "%"} /\ (n = 0 \/ (op = "/" /\ ~InType(Quotient(m, n), t)))

\* A literal beyond its type is rejected.  error.rs:52, of the error: "A numeric
\* literal overflowed its type."
OverflowIsRejected ==
    reached \notin {"written", "rejected"} /\ ~literal.minus => InType(literal.digits, LiteralType(literal))
=============================================================================
