----------------------------- MODULE ValueTrees -----------------------------
(* The types of values, and the values of compiled code as trees: a word,   *)
(* or a block with its parts (runtime/src/jit.rs).                          *)
EXTENDS Integers, Sequences

Of(name) == [is |-> name]
ArrayOf(t) == [is |-> "array", of |-> t]
RecordWith(fs) == [is |-> "record", fields |-> fs]
TagWith(vs) == [is |-> "tag", variants |-> vs]
ClosureOf(ps, r) == [is |-> "closure", params |-> ps, ret |-> r]

NeedsHeapBoxing(t) == t.is \in {"array", "record", "tag", "closure"}
IsHeap(t) == NeedsHeapBoxing(t) \/ t.is = "str"

\* Parts in a row.
IsRow(s) == Len(s) \in Nat /\ s = [i \in 1 .. Len(s) |-> s[i]]
PartTypes(t) == CASE t.is = "array" -> {t.of}
                  [] t.is = "record" -> {t.fields[i].of : i \in DOMAIN t.fields}
                  [] t.is = "tag" -> UNION {{vs[i] : i \in DOMAIN vs} : vs \in {t.variants[d] : d \in DOMAIN t.variants}}
                  [] OTHER -> {}

Garbage == [as |-> "garbage"]
Word(k) == [as |-> "int", n |-> k]
Real(r) == [as |-> "real", r |-> r]
Text(s) == [as |-> "text", s |-> s]
Block(parts) == [as |-> "block", parts |-> parts]
Variant(d, parts) == [as |-> "variant", disc |-> d, parts |-> parts]
=============================================================================
