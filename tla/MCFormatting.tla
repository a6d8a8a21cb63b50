---------------------------- MODULE MCFormatting ----------------------------
(* Programs of one or two declarations: trees two or three forms deep, every  *)
(* form inside every other, in a spelling with all parentheses; rows of       *)
(* operators without any; and short rows of tokens of any kind.               *)
EXTENDS Formatting, FiniteSets

CONSTANT MaxSoup

a == Leaf("ident", "a")
Str == Leaf("literal", "str")
I == Leaf("named", "A")
Bin(op, l, r) == N("binary", op, <<l, r>>)
Let(v) == N("let", "", <<Leaf("binding", "a"), v>>)
Param(ts) == N("param", "a", ts)

\* Every form of expression over the parts s and t.
Over(s, t) ==
    {Bin(op, s, t) : op \in {"||", "&&", "<", "+", "-", "*"}} \cup {N("unary", op, <<s>>) : op \in Unaries}
    \cup {N("app", "", <<s>>), N("app", "", <<s, t>>), N("access", "a", <<s>>), N("index", "", <<s, t>>),
          N("tuple", "", <<s>>), N("tuple", "", <<s, t>>), N("array", "", <<>>), N("array", "", <<s, t>>),
          N("record", "", <<N("field", "a", <<s>>), N("field", "b", <<t>>)>>),
          N("if", "", <<s, t, t>>), N("block", "", <<t>>), N("block", "", <<s, t>>),
          N("block", "", <<Let(s), Unit>>), N("template", "", <<Leaf("chunk", ""), s>>),
          N("lambda", "", <<t>>), N("lambda", "", <<Param(<<>>), Param(<<I>>), t>>),
          N("lambda", "", <<N("param", "_", <<>>), N("ret", "", <<I>>), s>>),
          N("match", "", <<s, N("arm", "", <<Leaf("wildcard", ""), t>>),
                           N("arm", "", <<N("pattern tuple", "", <<Leaf("binding", "a")>>), s>>)>>)}

\* Every form of type, and of pattern.
TypesOver(s, t) ==
    {N("function", "", <<s, t>>), N("apply", "", <<s, t>>), N("types", "", <<s>>), N("types", "", <<s, t>>),
     N("typerecord", "", <<>>), N("typerecord", "", <<N("typefield", "a", <<s>>), N("typefield", "b", <<t>>)>>),
     N("sum", "", <<N("variant", "A", <<s, t>>), Leaf("variant", "B")>>)}
PatternsOver(s, t) ==
    {Leaf("wildcard", ""), Leaf("binding", "a"), Str, Leaf("constructor", "A"), N("constructor", "A", <<s, t>>),
     N("pattern tuple", "", <<s, t>>),
     N("pattern record", "", <<N("patfield", "a", <<s>>), Leaf("patfield", "b")>>)}

Small == {a, Str, Unit}
Exprs == Small \cup Over(a, a)
Deep == UNION {Over(s, a) \cup Over(a, s) : s \in Exprs}
Types == {I} \cup UNION {TypesOver(s, I) \cup TypesOver(I, s) : s \in {I} \cup TypesOver(I, I)}
Patterns == UNION {PatternsOver(s, Leaf("binding", "b")) : s \in PatternsOver(Str, Leaf("wildcard", ""))}

Declare(v) == N("bind", "a", <<v>>)
Using == N("use", "", <<Leaf("name", "a"), Leaf("name", "b")>>)
Programs(ds) == {N("program", "", <<d>>) : d \in ds} \cup {N("program", "", <<Using, d, d>>) : d \in ds}
Trees == Programs({Declare(e) : e \in Deep})
         \cup Programs({N("bind", "a", <<t, a>>) : t \in Types} \cup {N("alias", "A", <<Leaf("name", "B"), t>>) : t \in Types}
                       \cup {Declare(N("lambda", "", <<Param(<<t>>), N("ret", "", <<t>>), a>>)) : t \in Types}
                       \cup {Declare(N("match", "", <<a, N("arm", "", <<p, a>>)>>)) : p \in Patterns}
                       \cup {Declare(N("block", "", <<N("let", "", <<p, a>>), a>>)) : p \in Patterns})

\* The spelling with all parentheses: holes stand for the parts while the whole
\* is written, and are filled then.
Holes == <<"#1", "#2", "#3", "#4", "#5">>
Hole(i, k) == CASE k.form = "param" -> Leaf("param", Holes[i])
                [] k.form = "ret" -> N("ret", "", <<Leaf("named", Holes[i])>>)
                [] k.form \in {"chunk", "name"} -> k
                [] OTHER -> Leaf("ident", Holes[i])
Enclosable == {"app", "lambda", "binary", "unary", "if", "match", "block", "record", "access", "array",
               "index", "tuple", "template", "function", "apply", "types", "typerecord", "sum"}
WithBreak(nl, ts) == [ts EXCEPT ![1].nl = nl]
Fill(ts, parts) ==
    FlattenSeq([j \in DOMAIN ts |->
        IF \E i \in DOMAIN Holes : Holes[i] = ts[j].text
        THEN WithBreak(ts[j].nl, parts[CHOOSE i \in DOMAIN Holes : Holes[i] = ts[j].text])
        ELSE <<ts[j]>>])
RECURSIVE Spell(_), SpellPart(_)
SpellPart(k) == IF k.form = "ret" THEN SpellPart(k.kids[1])
                ELSE IF k.kids # <<>> /\ k.form \in Enclosable THEN Tok("(") \o Spell(k) \o Tok(")")
                ELSE Spell(k)
Spell(t) ==
    IF t.form \in {"tuple", "types"} /\ Len(t.kids) = 1
    THEN Tok("(") \o SpellPart(t.kids[1]) \o Tok(",") \o Tok(")")
    ELSE IF t.kids = <<>> THEN Format(t)
    ELSE Fill(Format([t EXCEPT !.kids = [i \in DOMAIN @ |-> Hole(i, @[i])]]),
              [i \in DOMAIN t.kids |-> SpellPart(t.kids[i])])

\* Operands in a row, some with a sign, and the tree that is meant: the last of
\* the operators that bind least is at the top.
Operand1(minus) == IF minus THEN N("unary", "-", <<a>>) ELSE a
RECURSIVE Grouped(_, _)
Grouped(xs, ops) ==
    IF ops = <<>> THEN xs[1]
    ELSE LET k == CHOOSE k \in DOMAIN ops : \A i \in DOMAIN ops :
                    Prec[ops[k]] < Prec[ops[i]] \/ (Prec[ops[k]] = Prec[ops[i]] /\ i <= k)
         IN  Bin(ops[k], Grouped(SubSeq(xs, 1, k), SubSeq(ops, 1, k - 1)),
                         Grouped(SubSeq(xs, k + 1, Len(xs)), SubSeq(ops, k + 1, Len(ops))))
Row(xs, ops) == FlattenSeq([i \in DOMAIN xs |-> Format(xs[i]) \o (IF i \in DOMAIN ops THEN Tok(ops[i]) ELSE <<>>)])
Rows == UNION {{[file |-> Row(xs, ops), tree |-> Grouped(xs, ops)] :
                   xs \in [1 .. n + 1 -> {Operand1(b) : b \in BOOLEAN}], ops \in [1 .. n -> {"||", "==", "<", "+", "-", "*"}]} : n \in 1 .. 3}

\* Tokens of any kind; what they mean is what the parser makes of them.
Scraps == {Tok(t) : t \in {"a", "(", ")", ",", "=>", "-", ".", "["}} \cup {OnNewLine(Tok("("))}
Soup == UNION {{FlattenSeq(s) : s \in [1 .. n -> Scraps]} : n \in 1 .. MaxSoup}
MeaningOf(ts) == LET p == ParseProgram(ts) IN IF Failed(p) THEN Nothing ELSE p.out[1]

LetA(ts) == Tok("let") \o Tok("a") \o Tok("=") \o ts
ProgramOf(v) == N("program", "", <<Declare(v)>>)
MCSources == {[file |-> Spell(t), tree |-> t] : t \in Trees}
             \cup {[file |-> LetA(r.file), tree |-> ProgramOf(r.tree)] : r \in Rows}
             \cup {[file |-> LetA(s), tree |-> MeaningOf(LetA(s))] : s \in Soup}
=============================================================================
