---------------------------- MODULE MCComparison ----------------------------
(* Values of each kind of type, in blocks of up to two elements, each block *)
(* at a place of its own or at one that both values share.                  *)
EXTENDS Comparison, FiniteSets, TLC

CONSTANT MaxElems       \* elements of an array

Number == Of("i32")
OptionOf(t) == TagWith(<<<<>>, <<t>>>>)
Comparable ==
    {Of(s) : s \in {"i8", "u8", "bool", "unit", "f64", "str"}} \cup {ClosureOf(<<>>, Of("unit"))}
    \cup {ArrayOf(Of(s)) : s \in {"i8", "f64", "str"}} \cup {ArrayOf(OptionOf(Of("bool")))}
    \cup {RecordWith(<<[name |-> "a", of |-> Of("str")], [name |-> "b", of |-> t]>>) :
             t \in {Of("u8"), Of("f64"), ArrayOf(Of("f64"))}}
    \cup {OptionOf(Of("str")), OptionOf(Of("i8")), TagWith(<<<<Of("u8"), Of("f64")>>, <<Of("f64")>>>>)}

Addressed(place, part) == part @@ [place |-> place]
FieldTypes(t) == [i \in DOMAIN t.fields |-> t.fields[i].of]
Flat(parts) == [as |-> "block", parts |-> parts]

\* Every value of a type, its blocks at their own places or at a common one.
RECURSIVE Candidates(_, _)
RowsOf(types, places) ==
    LET all == UNION {Candidates(types[i], places) : i \in DOMAIN types}
    IN {s \in [DOMAIN types -> all] : \A i \in DOMAIN types : s[i] \in Candidates(types[i], places)}
Candidates(t, places) ==
    CASE IsInteger(t) -> {Word(k) : k \in 0 .. 2 ^ Bits - 1}
      [] t.is = "bool" -> {Word(0), Word(1)}
      [] t.is = "unit" -> {Word(0)}
      [] IsFloat(t) -> {Real(r) : r \in {"0.0", "-0.0", "1.5", "nan"}}
      [] t.is = "str" -> {Text(s) : s \in {"a", "b"}}
      [] t.is = "closure" -> {Addressed(p, Flat(<<>>)) : p \in places}
      [] t.is = "array" ->
           {Addressed(p, Flat(s)) : p \in places, s \in UNION {RowsOf([i \in 1 .. k |-> t.of], places) : k \in 0 .. MaxElems}}
      [] t.is = "record" -> {Addressed(p, Flat(s)) : p \in places, s \in RowsOf(FieldTypes(t), places)}
      [] t.is = "tag" ->
           UNION {{Addressed(p, Variant(d - 1, s)) : p \in places, s \in RowsOf(t.variants[d], places)} :
                     d \in DOMAIN t.variants}

\* The blocks at the common place: two values may share one block.
RECURSIVE Common(_)
Common(v) == IF v.as \notin {"block", "variant"} THEN {}
             ELSE (IF v.place = "common" THEN {v} ELSE {}) \cup UNION {Common(v.parts[i]) : i \in DOMAIN v.parts}

OperandsOf(t) ==
    {o \in {[type |-> t, left |-> l, right |-> r] :
                l \in Candidates(t, {"left", "common"}), r \in Candidates(t, {"right", "common"})} :
        Cardinality(Common(o.left) \cup Common(o.right)) <= 1}
MCOperands == [t \in Comparable |-> OperandsOf(t)]

NoComparison == /\ operands = [type |-> Of("unit"), left |-> Word(0), right |-> Word(0)]
                /\ asked = "none" /\ answer = "none"
=============================================================================
