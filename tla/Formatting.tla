----------------------------- MODULE Formatting -----------------------------
(***************************************************************************)
(* pipe-lang fmt (formatter/src/lib.rs, run_fmt in cli/src/main.rs): a     *)
(* file is parsed and written again from its tree, which keeps neither     *)
(* parentheses nor comments.  Indentation is left out: it depends on       *)
(* nothing but the nesting of what is printed.                             *)
(***************************************************************************)
EXTENDS Syntax

CONSTANTS Sources,    \* [file, tree]: tokens and the program they are meant for
          MaxRuns     \* uses of the command on one file

VARIABLES file,       \* the file's tokens
          tidy,       \* whether its layout is the formatter's
          meant,      \* the program its author has in mind
          runs,       \* uses of the command so far
          exit        \* the last exit code, or -1

vars == <<file, tidy, meant, runs, exit>>

-----------------------------------------------------------------------------
Tok(text) == <<[text |-> text, nl |-> FALSE]>>
OnNewLine(s) == [s EXCEPT ![1].nl = TRUE]
Between(ss, sep) == FlattenSeq([i \in DOMAIN ss |-> IF i = 1 THEN ss[i] ELSE sep \o ss[i]])
InBraces(ss) == Tok("{") \o FlattenSeq([i \in DOMAIN ss |-> OnNewLine(ss[i])]) \o OnNewLine(Tok("}"))

RECURSIVE Format(_)
Formats(ts) == [i \in DOMAIN ts |-> Format(ts[i])]
Enclosed(open, ts, close) == Tok(open) \o Between(Formats(ts), Tok(",")) \o Tok(close)

Params(t) == SelectSeq(t.kids, LAMBDA k : k.form = "param")

FormatLambda(t) ==
    LET n == Len(t.kids)
        p == Len(Params(t))
    IN  Enclosed("(", Params(t), ")") \o FlattenSeq(Formats(SubSeq(t.kids, p + 1, n - 1)))
        \o Tok("=>") \o Format(t.kids[n])

\* Both branches of an if get braces, whether or not they have their own.
FormatIf(c, a, b) == Tok("if") \o c \o InBraces(<<a>>) \o Tok("else") \o InBraces(<<b>>)

FormatBlock(t) ==
    LET n == Len(t.kids)
        k == Formats(t.kids)
    IN  InBraces([i \in 1 .. n |-> IF i < n THEN k[i] \o Tok(";") ELSE k[i]])

\* Faulty variant: the type before an arrow never gets parentheses.
FormatArrow(from, to) == Format(from) \o Tok("->") \o Format(to)

FormatFunction(from, to) ==
    (IF from.form = "function" THEN Tok("(") \o Format(from) \o Tok(")") ELSE Format(from))
    \o Tok("->") \o Format(to)

FormatType(t) ==
    CASE t.form = "named" -> Tok(t.label)
      [] t.form = "apply" -> Format(t.kids[1]) \o Tok("<") \o Format(t.kids[2]) \o Tok(">")
      [] t.form = "function" -> FormatFunction(t.kids[1], t.kids[2])
      [] t.form = "types" -> Enclosed("(", t.kids, ")")
      [] t.form = "typerecord" -> IF t.kids = <<>> THEN Tok("{") \o Tok("}") ELSE InBraces(Formats(t.kids))
      [] t.form = "ret" -> Tok(":") \o Format(t.kids[1])
      [] t.form = "typefield" -> Tok(t.label) \o Tok(":") \o Format(t.kids[1])
      [] t.form = "sum" -> FlattenSeq([i \in DOMAIN t.kids |-> Tok("|") \o Format(t.kids[i])])
      [] t.form = "variant" -> Tok(t.label) \o (IF t.kids = <<>> THEN <<>> ELSE Enclosed("(", t.kids, ")"))

FormatPattern(t) ==
    CASE t.form = "wildcard" -> Tok("_")
      [] t.form = "binding" -> Tok(t.label)
      [] t.form = "constructor" -> Tok(t.label) \o Enclosed("(", t.kids, ")")
      [] t.form = "pattern tuple" -> Enclosed("(", t.kids, ")")
      [] t.form = "pattern record" -> Enclosed("{", t.kids, "}")
      [] t.form \in {"patfield", "param"} ->
           Tok(t.label) \o (IF t.kids = <<>> THEN <<>> ELSE Tok(":") \o Format(t.kids[1]))

FormatDecl(t) ==
    LET n == Len(t.kids)
    IN  CASE t.form = "bind" ->
               Tok("let") \o Tok(t.label) \o (IF n = 1 THEN <<>> ELSE Tok(":") \o Format(t.kids[1]))
               \o Tok("=") \o Format(t.kids[n])
          [] t.form = "alias" ->
               Tok("type") \o Tok(t.label) \o (IF n = 1 THEN <<>> ELSE Enclosed("<", SubSeq(t.kids, 1, n - 1), ">"))
               \o Tok("=") \o Format(t.kids[n])
          [] t.form = "use" -> Tok("use") \o Between(Formats(t.kids), Tok("::"))
          [] t.form = "program" -> FlattenSeq([i \in DOMAIN t.kids |-> OnNewLine(Format(t.kids[i]))])

Typed == {"named", "apply", "function", "types", "typerecord", "typefield", "sum", "variant", "ret"}
Patterned == {"wildcard", "binding", "constructor", "pattern record", "pattern tuple", "patfield", "param"}
Declared == {"bind", "alias", "use", "program"}

Format(t) ==
    CASE t.form \in Typed -> FormatType(t)
      [] t.form \in Patterned -> FormatPattern(t)
      [] t.form \in Declared -> FormatDecl(t)
      [] t.form \in {"ident", "literal", "name"} -> Tok(t.label)
      [] t.form = "chunk" -> Tok("chunk")
      [] t.form = "app" -> Format(t.kids[1]) \o Enclosed("(", Tail(t.kids), ")")
      [] t.form = "lambda" -> FormatLambda(t)
      [] t.form = "binary" -> Format(t.kids[1]) \o Tok(t.label) \o Format(t.kids[2])
      [] t.form = "unary" -> Tok(t.label) \o Format(t.kids[1])
      [] t.form = "if" -> FormatIf(Format(t.kids[1]), Format(t.kids[2]), Format(t.kids[3]))
      [] t.form = "match" -> Tok("match") \o Format(t.kids[1]) \o InBraces(Formats(Tail(t.kids)))
      [] t.form = "arm" -> Format(t.kids[1]) \o Tok("=>") \o Format(t.kids[2])
      [] t.form = "block" -> FormatBlock(t)
      [] t.form = "let" -> Tok("let") \o Format(t.kids[1]) \o Tok("=") \o Format(t.kids[2])
      [] t.form = "record" -> Enclosed("{", t.kids, "}")
      [] t.form = "field" -> Tok(t.label) \o Tok(":") \o Format(t.kids[1])
      [] t.form = "access" -> Format(t.kids[1]) \o Tok(".") \o Tok(t.label)
      [] t.form = "tuple" -> Enclosed("(", t.kids, ")")
      [] t.form = "array" -> Enclosed("[", t.kids, "]")
      [] t.form = "index" -> Format(t.kids[1]) \o Tok("[") \o Format(t.kids[2]) \o Tok("]")
      [] t.form = "template" ->
           Tok("template") \o FlattenSeq([i \in DOMAIN t.kids |->
              IF t.kids[i].form = "chunk" THEN Tok("chunk") ELSE Tok("${") \o Format(t.kids[i]) \o Tok("}$")])
           \o Tok("template end")

Formatted(p) == Format(p.out[1])
-----------------------------------------------------------------------------
Init == /\ \E source \in Sources : file = source.file /\ meant = source.tree
        /\ tidy = FALSE /\ runs = 0 /\ exit = -1

Use == runs < MaxRuns /\ runs' = runs + 1 /\ UNCHANGED meant

\* run_fmt: what does not parse is left alone.
Fmt == LET p == ParseProgram(file)
       IN  /\ Use
           /\ IF Failed(p) THEN exit' = 1 /\ UNCHANGED <<file, tidy>>
                           ELSE exit' = 0 /\ file' = Formatted(p) /\ tidy' = TRUE

\* run_fmt with --check.  Faulty variant: the two answers swapped.
Differs(p) == ~(tidy /\ file = Formatted(p))

Same(p) == tidy /\ file = Formatted(p)

FmtCheck == LET p == ParseProgram(file)
            IN  /\ Use
                /\ exit' = IF Failed(p) THEN 1 ELSE IF Same(p) THEN 0 ELSE 1
                /\ UNCHANGED <<file, tidy>>

Next == Fmt \/ FmtCheck
Spec == Init /\ [][Next]_vars
-----------------------------------------------------------------------------
\* A block of nothing but a result is that result: fmt puts one around every
\* branch of an if.
RECURSIVE Strip(_)
Strip(t) == IF t.form = "block" /\ Len(t.kids) = 1 THEN Strip(t.kids[1])
            ELSE [t EXCEPT !.kids = [i \in DOMAIN @ |-> Strip(@[i])]]

\* All trees in a tree.
RECURSIVE Subtrees(_)
Subtrees(t) == {t} \cup UNION {Subtrees(t.kids[i]) : i \in DOMAIN t.kids}

\* What stands at the end of the expression takes all that follows it.
RECURSIVE Greedy(_)
Greedy(t) == \/ t.form \in {"lambda", "if"}
             \/ t.form \in {"unary", "binary"} /\ Greedy(t.kids[Len(t.kids)])

Binary(t, p) == t.form = "binary" /\ Prec[t.label] < p
Operand(t) == t.form \in {"binary", "unary"} \/ Greedy(t)

\* What ends in a field takes a parenthesis after it, even one on a new line.
RECURSIVE EndsInField(_)
EndsInField(t) == \/ t.form = "access"
                  \/ t.form \in {"unary", "binary", "lambda"} /\ EndsInField(t.kids[Len(t.kids)])

\* The program cannot be written without parentheses, other than those around
\* the function type before an arrow.
NeedsParens(t) ==
    \/ t.form = "binary" /\ \/ Greedy(t.kids[1])
                             \/ Binary(t.kids[1], Prec[t.label])
                             \/ Binary(t.kids[2], Prec[t.label] + 1)
    \/ t.form = "unary" /\ t.kids[1].form = "binary"
    \/ t.form \in {"app", "access", "index"} /\ Operand(t.kids[1])
    \/ t.form = "app" /\ t.kids[1].form = "access"
    \/ t.form = "match" /\ \E i \in 2 .. Len(t.kids) - 1 :
          EndsInField(t.kids[i].kids[2]) /\ t.kids[i + 1].kids[1].form = "pattern tuple"
    \/ t.form \in {"tuple", "types"} /\ Len(t.kids) = 1
    \/ t.form = "apply" /\ t.kids[1].form \in {"function", "sum"}
    \/ t.form = "function" /\ \E i \in {1, 2} : t.kids[i].form = "sum"
Plain == \A t \in Subtrees(meant) : ~NeedsParens(t)
Branches == \E t \in Subtrees(meant) : t.form = "if"

\* The tokens are understood as the program t; Nothing is what does not parse.
Nothing == Leaf("nothing", "")
Reads(ts, t) == LET p == ParseProgram(ts)
                IN  IF Failed(p) THEN t = Nothing ELSE Strip(p.out[1]) = Strip(t)

\* The parser reads what was meant: operators group by precedence and to the
\* left, a parenthesis is told from a parameter list, and what begins on a line
\* of its own is no call (parser.rs 433, 799, 821).
Understood == runs = 0 => Reads(file, meant)

\* What fmt has written is read as the program it was, or another one: it is the
\* same exactly when the program can be written without parentheses, as the tree
\* holds none and the printer adds none (formatter/src/lib.rs 163-364, 224).
FormatKeeps == tidy => (Reads(file, meant) <=> Plain)

\* What fmt has written the next one leaves alone, and fmt --check accepts it,
\* exactly when there is no if in it: every time, it gets another pair of braces
\* around each branch (formatter/src/lib.rs 237-262, cli/src/main.rs 174-184).
Settles == [][tidy /\ Plain => (file' = file /\ exit' = 0 <=> ~Branches)]_vars
=============================================================================
