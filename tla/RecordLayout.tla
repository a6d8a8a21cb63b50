---------------------------- MODULE RecordLayout ----------------------------
(***************************************************************************)
(* Records in memory.  A record literal becomes a block of fields without  *)
(* names (Expr::Record in ir/src/lower.rs, compile_record_alloc in         *)
(* jit.rs).  Every later use finds a field by counting: the index comes    *)
(* from the static type of the record or from the place of the field in a  *)
(* pattern, the offset from the sizes of the fields the static type lists  *)
(* before it.  Freeing walks the fields of a descriptor made from the      *)
(* static type (pipe_rt_free_value, type 14).                              *)
(***************************************************************************)
EXTENDS Integers, Sequences, FiniteSets, SequencesExt, PrefixSums

CONSTANTS FieldNames,    \* field names, in alphabetical order
          Size,      \* Size[f]: bytes of f's type (storage_size)
          Counted    \* fields whose type is a heap type

ASSUME FieldsAreNamed == FieldNames \in Seq(Range(FieldNames))
ASSUME FieldsAreDistinct == IsInjective(FieldNames)
ASSUME SizesPositive == \A f \in Range(FieldNames) : Size[f] \in Nat \ {0}

VARIABLES written,   \* the fields of the literal as the source writes them
          block,     \* the fields of the block, from its start
          static,    \* the fields of the record's type where it is used
          got,       \* for every field that the last use read, what it found there
          released,  \* the cells released when it was freed
          freed      \* bytes returned, 0 while the block is allocated

recordVars == <<written, block, static, got, released, freed>>
-----------------------------------------------------------------------------
\* Fields of a BTreeMap, in the order it yields them.
Alphabetical(fs) ==
    LET among[n \in 0 .. Len(FieldNames)] ==
          IF n = 0 THEN << >>
          ELSE IF FieldNames[n] \in fs THEN Append(among[n - 1], FieldNames[n]) ELSE among[n - 1]
    IN  among[Len(FieldNames)]

\* Bytes before position i.
Before(fs, i) == SumBefore([n \in 1 .. Len(fs) |-> Size[fs[n]]], i)
Bytes(fs) == Before(fs, Len(fs) + 1)

\* The field of the block that begins at an offset and has so many bytes.
CellAt(offset, size) ==
    {block[i] : i \in {j \in DOMAIN block : Before(block, j) = offset /\ Size[block[j]] = size}}

\* What a load of position i of the static type finds: a field, or nothing that
\* begins and ends there.
Load(i) ==
    LET fs == Alphabetical(static)
    IN  IF i \in DOMAIN fs THEN CellAt(Before(fs, i), Size[fs[i]]) ELSE {}
-----------------------------------------------------------------------------
Layout(order) == Alphabetical(Range(order))

RecordInit ==
    /\ \E fs \in SUBSET Range(FieldNames) : fs # {} /\ written \in SetToSeqs(fs)
    /\ block = Layout(written)
    /\ static = Range(written)
    /\ got = {} /\ released = {} /\ freed = 0

\* The record is passed to a function whose parameter's type lists fewer fields:
\* unify asks only for the fields of its left side.
Pass(fs) == /\ fs \subseteq static /\ fs # {} /\ freed = 0
            /\ static' = fs /\ got' = {}
            /\ UNCHANGED <<written, block, released, freed>>

\* Faulty variant: the index of a field among those of the literal.
IndexInLiteral(f) == CHOOSE i \in DOMAIN written : written[i] = f
FieldIndexOf(f) == CHOOSE i \in DOMAIN Alphabetical(static) : Alphabetical(static)[i] = f

Access(f) == /\ f \in static /\ freed = 0
             /\ got' = {[asked |-> f, inPlace |-> TRUE, cell |-> Load(FieldIndexOf(f))]}
             /\ UNCHANGED <<written, block, static, released, freed>>

\* A record pattern: its i-th field is read at position i, wherever the type has it.
Match(pattern) ==
    /\ freed = 0
    /\ got' = {[asked |-> pattern[i], inPlace |-> FieldIndexOf(pattern[i]) = i, cell |-> Load(i)] :
                  i \in DOMAIN pattern}
    /\ UNCHANGED <<written, block, static, released, freed>>

\* Faulty variant: the count word in front of the fields is forgotten.
FreeFields == /\ freed = 0
              /\ released' = UNION {Load(i) : i \in {j \in DOMAIN Alphabetical(static) :
                                                       Alphabetical(static)[j] \in Counted}}
              /\ freed' = Bytes(Alphabetical(static))
              /\ UNCHANGED <<written, block, static, got>>

Free == /\ freed = 0
        /\ released' = UNION {Load(i) : i \in {j \in DOMAIN Alphabetical(static) :
                                                 Alphabetical(static)[j] \in Counted}}
        /\ freed' = 8 + Bytes(Alphabetical(static))
        /\ UNCHANGED <<written, block, static, got>>

\* A match asks for all fields of the type, a let for none (bind_stmt_pattern).
FieldPatterns == UNION {SetToSeqs(fs) : fs \in SUBSET static \ {{}}}

RecordNext == \/ \E fs \in SUBSET static : Pass(fs)
              \/ \E f \in static : Access(f)
              \/ \E p \in FieldPatterns : Match(p)
              \/ Free
RecordSpec == RecordInit /\ [][RecordNext]_recordVars

\* A match with all fields, in the order the program has them.
PatternSpec == RecordInit /\ [][\E p \in SetToSeqs(static) : Match(p)]_recordVars
-----------------------------------------------------------------------------
\* The type still lists what lies in front of the field.
Kept(f) == \A i, j \in DOMAIN block : i < j /\ block[j] = f => block[i] \in static

\* A use gets the field it names, in whatever order the literal was written, exactly
\* when the type has kept the fields in front of it and a pattern has it in the place
\* of the type's alphabet; only a use that departs from both may be right by chance
\* (lower.rs 974, 991, 1485; jit.rs 2408).
ReadsInOrder ==
    \A g \in got : Kept(g.asked) \/ g.inPlace =>
        (g.cell = {g.asked} <=> Kept(g.asked) /\ g.inPlace)

\* Every use gets the field it names (plan-main.md 175).
ReadsNamed == \A g \in got : g.cell = {g.asked}

\* Freeing returns the bytes that were allocated exactly when the type has kept all
\* fields (Box::from_raw takes the size it is given), and releases the counted fields,
\* these and no others, exactly when it has kept each of them with all in front of it
\* (jit.rs 4911).
FreesWhole == freed > 0 =>
    /\ freed = 8 + Bytes(block) <=> static = Range(block)
    /\ released = Counted \cap Range(block) <=>
          \A f \in Counted \cap Range(block) : f \in static /\ Kept(f)
=============================================================================
