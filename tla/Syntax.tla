------------------------------- MODULE Syntax -------------------------------
(***************************************************************************)
(* The grammar of pipe-lang as the parser reads it (parser/src/parser.rs): *)
(* recursive descent with one token of lookahead, more for records and     *)
(* lambdas, and precedence climbing for operators.                         *)
(*                                                                         *)
(* A token is its text and whether a line break stands before it, which is *)
(* all that is left of trivia.  A tree is a form, a label (a name or an    *)
(* operator) and parts; spans and node ids are left out.                   *)
(***************************************************************************)
EXTENDS Integers, Sequences, SequencesExt

CONSTANTS Lower, Upper,     \* identifiers, by the case of their first letter
          Literals          \* tokens that are a literal; "str" is one

Idents == Lower \cup Upper
N(form, label, kids) == [form |-> form, label |-> label, kids |-> kids]
Leaf(form, label) == N(form, label, <<>>)
Unit == Leaf("tuple", "")

Prec == [op \in {"||", "&&", "==", "<", "+", "-", "*"} |->
           CASE op = "||" -> 1 [] op = "&&" -> 2 [] op \in {"==", "<"} -> 3
             [] op \in {"+", "-"} -> 5 [] OTHER -> 6]
Unaries == {"-", "!"}

-----------------------------------------------------------------------------
(* The parser's position is an index into the tokens.  What it has read is   *)
(* some trees and the position after them; position 0 is an error.           *)
R(out, at) == [out |-> out, at |-> at]
From(i) == R(<<>>, i)
Fail == From(0)
Failed(r) == r.at = 0
Onto(r, q) == IF Failed(q) THEN q ELSE R(r.out \o q.out, q.at)
Node(form, label, r) == IF Failed(r) THEN r ELSE R(<<N(form, label, r.out)>>, r.at)

Peek(ts, i) == IF i <= Len(ts) THEN ts[i].text ELSE "eof"
NewLine(ts, i) == i <= Len(ts) /\ ts[i].nl      \* is_separated_by_newline

\* is_lambda_next: the parenthesis that opens at i is a parameter list if what
\* follows its end is an arrow or a colon.
RECURSIVE Closing(_, _, _)
Closing(ts, i, depth) ==
    CASE Peek(ts, i) = "eof" -> 0
      [] Peek(ts, i) = ")" /\ depth = 1 -> i
      [] OTHER -> Closing(ts, i + 1, depth + (CASE Peek(ts, i) = "(" -> 1
                                                [] Peek(ts, i) = ")" -> -1 [] OTHER -> 0))
IsLambda(ts, i) == Closing(ts, i, 0) # 0 /\ Peek(ts, Closing(ts, i, 0) + 1) \in {"=>", ":"}
IsRecord(ts, i) == Peek(ts, i + 1) \in Idents /\ Peek(ts, i + 2) = ":"

(* Lists up to a closing token.  "comma": a comma between two items, and one  *)
(* more is allowed; "loose": commas are optional; "some": one item at least.  *)
L(item, sep, close) == [item |-> item, sep |-> sep, close |-> close]
Lists == [args |-> L("expr", "comma", ")"), elems |-> L("expr", "comma", "]"),
          tuple |-> L("expr", "loose", ")"), fields |-> L("field", "loose", "}"),
          arms |-> L("arm", "loose", "}"), params |-> L("param", "comma", ")"),
          patterns |-> L("pattern", "comma", ")"), patfields |-> L("patfield", "loose", "}"),
          types |-> L("type", "loose", ")"), typefields |-> L("typefield", "loose", "}"),
          typeargs |-> L("type", "some", ">"), payload |-> L("type", "some", ")"),
          names |-> L("name", "some", ">")]

Categories == DOMAIN Lists \cup
    {"expr", "field", "arm", "param", "result type", "stmts", "end of stmt", "chunks", "pattern",
     "patfield", "type", "arrow type", "typefield", "annotation", "variants", "name", "path",
     "subpattern", "optional semicolon"}
-----------------------------------------------------------------------------
\* One symbol of a production: a category, or a token that must come next.
RECURSIVE Parse(_, _, _), Walk(_, _, _)

\* The symbols of a production, one after the other.
Walk(ts, r, symbols) ==
    IF Failed(r) \/ symbols = <<>> THEN r
    ELSE Walk(ts, Onto(r, Parse(ts, r.at, Head(symbols))), Tail(symbols))

\* A node labelled with the identifier that comes first.
Named(form, ts, i, symbols) ==
    IF Peek(ts, i) \in Idents THEN Node(form, Peek(ts, i), Walk(ts, From(i + 1), symbols)) ELSE Fail

RECURSIVE Items(_, _, _)
AfterItem(ts, l, r) ==
    CASE Failed(r) -> r
      [] ~Failed(r) /\ Peek(ts, r.at) = "," -> Onto(r, Items(ts, r.at + 1, l))
      [] ~Failed(r) /\ Peek(ts, r.at) = l.close -> R(r.out, r.at + 1)
      [] OTHER -> IF l.sep = "loose" THEN Onto(r, Items(ts, r.at, l)) ELSE Fail
Items(ts, i, l) == IF l.sep # "some" /\ Peek(ts, i) = l.close THEN From(i + 1)
                   ELSE AfterItem(ts, l, Parse(ts, i, l.item))

\* In parentheses: a single item without a comma is the item itself.
Unwrapped(form, ts, r) ==
    IF Len(r.out) = 1 /\ Peek(ts, r.at - 2) # "," THEN r ELSE Node(form, "", r)
-----------------------------------------------------------------------------
\* parse_expr_with_precedence.  Faulty variant: an operator takes a right operand
\* of its own precedence, so operators group to the right.
GroupRight(p) == p

NextMin(p) == p + 1

RECURSIVE Climb(_, _, _), Operators(_, _, _), Unary(_, _), Postfix(_, _)
Operators(ts, min, l) ==
    LET op == Peek(ts, l.at)
    IN  IF Failed(l) THEN l
        ELSE IF op \notin DOMAIN Prec THEN l
        ELSE IF Prec[op] < min THEN l
        ELSE Operators(ts, min, Node("binary", op, Onto(l, Climb(ts, l.at + 1, NextMin(Prec[op])))))

If(ts, i) == Node("if", "", Walk(ts, From(i), <<"if", "expr", "expr", "else", "expr">>))
Match(ts, i) == Node("match", "", Walk(ts, From(i), <<"match", "expr", "{", "arms">>))
Lambda(ts, i) == Node("lambda", "", Walk(ts, From(i), <<"(", "params", "result type", "=>", "expr">>))

\* The statements of a block; without a result expression the result is ().
Stmts(ts, i) ==
    CASE Peek(ts, i) = "}" -> R(<<Unit>>, i + 1)
      [] Peek(ts, i) = "let" ->
            Walk(ts, Node("let", "", Walk(ts, From(i + 1), <<"pattern", "=", "expr">>)),
                 <<"optional semicolon", "stmts">>)
      [] OTHER -> Walk(ts, From(i), <<"expr", "end of stmt">>)
EndOfStmt(ts, i) == IF Peek(ts, i) = "}" THEN From(i + 1)
                    ELSE Walk(ts, From(i), <<"optional semicolon", "stmts">>)

\* A template: chunks of text and expressions in holes.
Chunks(ts, i) ==
    CASE Peek(ts, i) = "template end" -> From(i + 1)
      [] Peek(ts, i) = "chunk" -> Walk(ts, R(<<Leaf("chunk", "")>>, i + 1), <<"chunks">>)
      [] OTHER -> Walk(ts, From(i), <<"${", "expr", "}$", "chunks">>)

Primary(ts, i) ==
    LET t == Peek(ts, i)
    IN  CASE t = "if" -> If(ts, i)
          [] t = "match" -> Match(ts, i)
          [] t \in Idents -> R(<<Leaf("ident", t)>>, i + 1)
          [] t \in Literals -> R(<<Leaf("literal", t)>>, i + 1)
          [] t = "template" -> Node("template", "", Chunks(ts, i + 1))
          [] t = "[" -> Node("array", "", Parse(ts, i + 1, "elems"))
          [] t = "{" /\ IsRecord(ts, i) -> Node("record", "", Parse(ts, i + 1, "fields"))
          [] t = "{" /\ ~IsRecord(ts, i) -> Node("block", "", Stmts(ts, i + 1))
          [] t = "(" /\ IsLambda(ts, i) -> Lambda(ts, i)
          [] t = "(" /\ ~IsLambda(ts, i) -> Unwrapped("tuple", ts, Parse(ts, i + 1, "tuple"))
          [] OTHER -> Fail

\* Calls, fields and indices; a parenthesis or bracket on a new line begins
\* something else.  A call of a field is a method call, with the
\* object as the first argument.
Postfix(ts, l) ==
    LET t == Peek(ts, l.at)
        f == Peek(ts, l.at + 1)
    IN  CASE ~Failed(l) /\ t = "(" /\ ~NewLine(ts, l.at) ->
               Postfix(ts, Node("app", "", Walk(ts, l, <<"(", "args">>)))
          [] ~Failed(l) /\ t = "[" /\ ~NewLine(ts, l.at) ->
               Postfix(ts, Node("index", "", Walk(ts, l, <<"[", "expr", "]">>)))
          [] ~Failed(l) /\ t = "." ->
               IF f \notin Idents THEN Fail
               ELSE IF Peek(ts, l.at + 2) # "(" THEN Postfix(ts, R(<<N("access", f, l.out)>>, l.at + 2))
               ELSE Postfix(ts, Node("app", "", Walk(ts, R(<<Leaf("ident", f)>> \o l.out, l.at + 2), <<"(", "args">>)))
          [] OTHER -> l

Unary(ts, i) == IF Peek(ts, i) \in Unaries THEN Node("unary", Peek(ts, i), Unary(ts, i + 1))
                ELSE Postfix(ts, Primary(ts, i))
Climb(ts, i, min) == Operators(ts, min, Unary(ts, i))
-----------------------------------------------------------------------------
Pattern(ts, i) ==
    LET t == Peek(ts, i)
    IN  CASE t = "_" -> R(<<Leaf("wildcard", "")>>, i + 1)
          [] t \in Literals -> R(<<Leaf("literal", t)>>, i + 1)
          [] t = "template" ->
               Onto(R(<<Leaf("literal", "str")>>, i),
                    Parse(ts, IF Peek(ts, i + 1) = "chunk" THEN i + 2 ELSE i + 1, "template end"))
          [] t \in Lower -> R(<<Leaf("binding", t)>>, i + 1)
          [] t \in Upper -> IF Peek(ts, i + 1) = "(" THEN Node("constructor", t, Parse(ts, i + 2, "patterns"))
                            ELSE R(<<Leaf("constructor", t)>>, i + 1)
          [] t = "{" -> Node("pattern record", "", Parse(ts, i + 1, "patfields"))
          [] t = "(" -> Node("pattern tuple", "", Parse(ts, i + 1, "patterns"))
          [] OTHER -> Fail

TypeAtom(ts, i) ==
    LET t == Peek(ts, i)
    IN  CASE t \in Idents -> R(<<Leaf("named", t)>>, i + 1)
          [] t = "(" -> Unwrapped("types", ts, Parse(ts, i + 1, "types"))
          [] t = "{" -> Node("typerecord", "", Parse(ts, i + 1, "typefields"))
          [] OTHER -> Fail

\* T<A, B> is T<A><B>.
ApplyType(f, a) == N("apply", "", <<f, a>>)
Applied(r) == IF Failed(r) THEN r ELSE R(<<FoldLeft(ApplyType, Head(r.out), Tail(r.out))>>, r.at)
RECURSIVE TypeApply(_, _)
TypeApply(ts, r) == IF Failed(r) \/ Peek(ts, r.at) # "<" THEN r
                    ELSE TypeApply(ts, Applied(Walk(ts, r, <<"<", "typeargs">>)))
TypeFunction(ts, l) ==
    IF Failed(l) \/ Peek(ts, l.at) # "->" THEN l
    ELSE Node("function", "", Walk(ts, l, <<"->", "arrow type">>))
Variant(ts, i) ==
    Named("variant", ts, i, IF Peek(ts, i + 1) = "(" THEN <<"(", "payload">> ELSE <<>>)

\* A part that is there only behind its first token.
Optional(ts, i, first, symbols) == IF Peek(ts, i) = first THEN Walk(ts, From(i + 1), symbols) ELSE From(i)

Parse(ts, i, s) ==
    CASE s \notin Categories -> IF Peek(ts, i) = s THEN From(i + 1) ELSE Fail
      [] s \in DOMAIN Lists -> Items(ts, i, Lists[s])
      [] s = "expr" -> Climb(ts, i, 0)
      [] s = "field" -> Named("field", ts, i, <<":", "expr">>)
      [] s = "arm" -> Node("arm", "", Walk(ts, From(i), <<"pattern", "=>", "expr">>))
      [] s = "param" -> IF Peek(ts, i) = "_" THEN Node("param", "_", Parse(ts, i + 1, "annotation"))
                        ELSE Named("param", ts, i, <<"annotation">>)
      [] s = "annotation" -> Optional(ts, i, ":", <<"type">>)
      [] s = "result type" -> IF Peek(ts, i) = ":" THEN Node("ret", "", Parse(ts, i, "annotation")) ELSE From(i)
      [] s = "stmts" -> Stmts(ts, i)
      [] s = "end of stmt" -> EndOfStmt(ts, i)
      [] s = "optional semicolon" -> Optional(ts, i, ";", <<>>)
      [] s = "chunks" -> Chunks(ts, i)
      [] s = "pattern" -> Pattern(ts, i)
      [] s = "patfield" -> Named("patfield", ts, i, <<"subpattern">>)
      [] s = "subpattern" -> Optional(ts, i, ":", <<"pattern">>)
      [] s = "type" -> IF Peek(ts, i) = "|" THEN Node("sum", "", Parse(ts, i, "variants"))
                       ELSE Parse(ts, i, "arrow type")
      [] s = "variants" -> IF Peek(ts, i) # "|" THEN From(i)
                           ELSE Walk(ts, Variant(ts, i + 1), <<"variants">>)
      [] s = "arrow type" -> TypeFunction(ts, TypeApply(ts, TypeAtom(ts, i)))
      [] s = "typefield" -> Named("typefield", ts, i, <<":", "type">>)
      [] s = "name" -> Named("name", ts, i, <<>>)
      [] s = "path" -> Optional(ts, i, "::", <<"name", "path">>)
-----------------------------------------------------------------------------
\* parse_decl_into.  A binding with a type and no value has the value ().
Bind(ts, i) ==
    IF Peek(ts, i + 1) = ":" /\ Peek(ts, i) \in Idents
    THEN LET ann == Parse(ts, i + 1, "annotation")
         IN  IF ~Failed(ann) /\ Peek(ts, ann.at) # "="
             THEN Node("bind", Peek(ts, i), R(ann.out \o <<Unit>>, ann.at))
             ELSE Node("bind", Peek(ts, i), Walk(ts, ann, <<"=", "expr">>))
    ELSE Named("bind", ts, i, <<"=", "expr">>)

Alias(ts, i) == Named("alias", ts, i, IF Peek(ts, i + 1) = "<" THEN <<"<", "names", "=", "type">>
                                      ELSE <<"=", "type">>)

Decl(ts, i) ==
    CASE Peek(ts, i) = "let" -> Bind(ts, i + 1)
      [] Peek(ts, i) = "type" -> Alias(ts, i + 1)
      [] Peek(ts, i) = "use" -> Node("use", "", Walk(ts, From(i + 1), <<"name", "path">>))
      [] OTHER -> Fail

RECURSIVE Program(_, _)
Program(ts, r) == IF Failed(r) \/ Peek(ts, r.at) = "eof" THEN Node("program", "", r)
                  ELSE Program(ts, Onto(r, Decl(ts, r.at)))
ParseProgram(ts) == Program(ts, From(1))
=============================================================================
