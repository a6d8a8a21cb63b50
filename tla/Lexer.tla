------------------------------- MODULE Lexer -------------------------------
(***************************************************************************)
(* The lexer (lexer/src/lexer.rs): characters become tokens one call at a  *)
(* time, and a template becomes several, the tokens of its holes among     *)
(* them, which wait for the next calls.                                    *)
(*                                                                         *)
(* A source is written as tokens, so that what comes out can be compared   *)
(* with what was meant.  Keywords are words, operators and delimiters      *)
(* symbols; a token's text is its place in the source.  A character has    *)
(* one byte, "é" has two.                                                  *)
(***************************************************************************)
EXTENDS Integers, Sequences, SequencesExt, FiniteSets

CONSTANTS Spelled,     \* rows of tokens that are written, templates apart
          ChunkTexts,  \* the texts between the holes of a template
          MaxTokens,   \* bound: tokens or templates of a source
          MaxInHole    \* bound: those of a hole

VARIABLES written,     \* the tokens as written: kind and characters
          lexer,       \* the characters it has consumed, what waits, whether it is done
          tokens       \* what it has given

lexerVars == <<written, lexer, tokens>>

Bytes(c) == IF c = "é" THEN 2 ELSE 1
Characters(ws) == FlattenSeq([i \in DOMAIN ws |-> ws[i].chars])

\* A template of two chunks around a hole, or of one.
Template(before, hole, after) ==
    <<[kind |-> "template", chars |-> <<"tick">>], [kind |-> "chunk", chars |-> before],
      [kind |-> "${", chars |-> <<"$", "{">>]>> \o hole \o
    <<[kind |-> "}", chars |-> <<"}">>], [kind |-> "chunk", chars |-> after],
      [kind |-> "end", chars |-> <<"tick">>]>>
Constant(chunk) == <<[kind |-> "template", chars |-> <<"tick">>], [kind |-> "chunk", chars |-> chunk],
                     [kind |-> "end", chars |-> <<"tick">>]>>
Pieces(holes) == Spelled \cup {Constant(c) : c \in ChunkTexts}
                 \cup {Template(b, h, a) : b \in ChunkTexts, h \in holes, a \in ChunkTexts}
InARow(pieces, k) == {FlattenSeq(s) : s \in UNION {[1..n -> pieces] : n \in 0..k}}
\* Holes have templates in them, too.
WrittenSources == InARow(Pieces(InARow(Pieces(Spelled), MaxInHole)), MaxTokens)

LexerInit == /\ written \in WrittenSources
             /\ lexer = [at |-> 0, pending |-> <<>>, done |-> FALSE]
             /\ tokens = <<>>
-----------------------------------------------------------------------------
(* One token, from its first character on. *)

Token(kind, from, to) == [kind |-> kind, from |-> from, to |-> to]
LexError == [kind |-> "error", from |-> 0, to |-> 0]

Letters == {"a", "b", "é"}
Digits == {"0", "1"}
\* The end of the run of such characters that begins at i.
EndOfRun(s, i, such) == LET j == SelectInSubSeq(s, i, Len(s), LAMBDA c : c \notin such)
                        IN IF j = 0 THEN Len(s) ELSE j - 1
EndOfLine(s, i) == LET j == SelectInSubSeq(s, i, Len(s), LAMBDA c : c = "\n")
                   IN IF j = 0 THEN Len(s) ELSE j - 1
At(s, i) == IF i \in DOMAIN s THEN s[i] ELSE "none"

\* What may follow the first character of an operator.
Follows == [c \in {"=", "!", "<", ">", "-", ":", "|", "&"} |->
               CASE c = "=" -> {"=", ">"} [] c = "-" -> {">"} [] c \in {":", "|", "&"} -> {c} [] OTHER -> {"="}]
Alone == {"(", ")", "{", "}", "[", "]", ",", ".", "_", ";", "+", "*", "%"}

ReadNumber(s, i) ==
    LET whole == EndOfRun(s, i, Digits)
        point == At(s, whole + 1) = "." /\ At(s, whole + 2) \in Digits
        end == IF point THEN EndOfRun(s, whole + 2, Digits) ELSE whole
    IN Token(IF point THEN "float" ELSE "int", i, EndOfRun(s, end + 1, Letters \cup Digits \cup {"_"}))
\* A string's end: the first quote that no backslash skips.
RECURSIVE EndOfString(_, _)
EndOfString(s, i) == CASE i > Len(s) -> 0
                       [] s[i] = "\"" -> i
                       [] s[i] = "\\" -> EndOfString(s, i + 2)
                       [] OTHER -> EndOfString(s, i + 1)
ReadString(s, i) == IF EndOfString(s, i + 1) = 0 THEN LexError ELSE Token("str", i, EndOfString(s, i + 1))
ReadOperator(s, i) ==
    IF At(s, i + 1) \in Follows[s[i]] THEN Token("symbol", i, i + 1)
    ELSE IF s[i] = "&" THEN LexError ELSE Token("symbol", i, i)

\* The token at character i; templates are read apart.
ReadToken(s, i) ==
    CASE s[i] = "\n" -> Token("newline", i, i)
      [] s[i] = "\r" -> Token("newline", i, IF At(s, i + 1) = "\n" THEN i + 1 ELSE i)
      [] s[i] \in {" ", "\t"} -> Token("whitespace", i, EndOfRun(s, i, {" ", "\t", "\r"}))
      [] s[i] \in Alone -> Token("symbol", i, i)
      [] s[i] \in DOMAIN Follows -> ReadOperator(s, i)
      [] s[i] = "/" -> IF At(s, i + 1) # "/" THEN Token("symbol", i, i)
                       ELSE Token("comment", i, EndOfLine(s, i))
      [] s[i] = "\"" -> ReadString(s, i)
      [] s[i] \in Digits -> ReadNumber(s, i)
      [] s[i] \in Letters -> Token("word", i, EndOfRun(s, i, Letters \cup Digits \cup {"_"}))
      [] OTHER -> LexError
-----------------------------------------------------------------------------
(* Templates. *)

\* Faulty variant: the first closing brace closes the hole.
FirstBrace(s, i, depth) == IF i > Len(s) THEN 0 ELSE SelectInSubSeq(s, i, Len(s), LAMBDA c : c = "}")

\* find_hole_end: the brace that closes the hole, whatever is between.
RECURSIVE HoleEnd(_, _, _)
HoleEnd(s, i, depth) == CASE i > Len(s) -> 0
                          [] s[i] = "{" -> HoleEnd(s, i + 1, depth + 1)
                          [] s[i] = "}" -> IF depth = 1 THEN i ELSE HoleEnd(s, i + 1, depth - 1)
                          [] OTHER -> HoleEnd(s, i + 1, depth)

\* The hole's characters are skipped as often as they have bytes.
Skip(s, hole) == LET after == hole.from + SumFunctionOnSet([i \in DOMAIN s |-> Bytes(s[i])], hole.from .. hole.to)
                 IN IF after > Len(s) THEN Len(s) ELSE after
Shifted(ts, by) == [i \in DOMAIN ts |-> [ts[i] EXCEPT !.from = @ + by, !.to = @ + by]]

\* The tokens of a source, its end left out; those of a template from its chunk
\* on, and where it ends.  After an error there is nothing.
RECURSIVE AllTokens(_, _), TemplateTokens(_, _, _, _)
AllTokens(s, i) ==
    IF i > Len(s) THEN <<>>
    ELSE IF s[i] # "tick"
    THEN LET t == ReadToken(s, i) IN IF t = LexError THEN <<LexError>> ELSE <<t>> \o AllTokens(s, t.to + 1)
    ELSE LET r == TemplateTokens(s, i + 1, i + 1, <<>>)
         IN IF r.to = 0 THEN <<LexError>> ELSE <<Token("template", i, i)>> \o r.tokens \o AllTokens(s, r.to + 1)
HoleTokens(s, i, to, ts) ==
    LET inside == AllTokens(SubSeq(s, i + 2, to - 1), 1)
        end == Skip(s, [from |-> i + 2, to |-> to - 1])
    IN IF LexError \in ToSet(inside) THEN [tokens |-> <<>>, to |-> 0]
       ELSE TemplateTokens(s, end + 1, end + 1,
                           ts \o <<Token("${", i, i + 1)>> \o Shifted(inside, i + 1) \o <<Token("}", end, end)>>)
TemplateTokens(s, chunk, i, ts) ==
    CASE i > Len(s) -> [tokens |-> <<>>, to |-> 0]
      [] s[i] = "tick" -> [tokens |-> ts \o <<Token("chunk", chunk, i - 1), Token("end", i, i)>>, to |-> i]
      [] s[i] = "\\" -> TemplateTokens(s, chunk, i + 2, ts)
      [] s[i] = "$" /\ At(s, i + 1) = "{" ->
           LET to == HoleEnd(s, i + 2, 1)
           IN IF to = 0 THEN [tokens |-> <<>>, to |-> 0]
              ELSE HoleTokens(s, i, to, ts \o <<Token("chunk", chunk, i - 1)>>)
      [] OTHER -> TemplateTokens(s, chunk, i + 1, ts)

-----------------------------------------------------------------------------
(* Iterator::next, until the parser has no use for more. *)

Source == Characters(written)
Ended == tokens # <<>> /\ Last(tokens).kind \in {"error", "eof"}

GivePending ==
    /\ ~Ended /\ lexer.pending # <<>>
    /\ tokens' = Append(tokens, Head(lexer.pending))
    /\ lexer' = [lexer EXCEPT !.pending = Tail(@)]
    /\ UNCHANGED written

Give(t) == /\ ~Ended /\ lexer.pending = <<>> /\ lexer.at < Len(Source)
           /\ tokens' = Append(tokens, t)
           /\ UNCHANGED written
GiveToken ==
    /\ At(Source, lexer.at + 1) # "tick"
    /\ LET t == ReadToken(Source, lexer.at + 1)
       IN Give(t) /\ lexer' = [lexer EXCEPT !.at = IF t = LexError THEN @ ELSE t.to]
GiveTemplate ==
    /\ At(Source, lexer.at + 1) = "tick"
    /\ LET i == lexer.at + 1
           r == TemplateTokens(Source, i + 1, i + 1, <<>>)
       IN IF r.to = 0 THEN Give(LexError) /\ lexer' = lexer
          ELSE Give(Token("template", i, i)) /\ lexer' = [lexer EXCEPT !.at = r.to, !.pending = r.tokens]

GiveEnd == /\ ~Ended /\ lexer.pending = <<>> /\ lexer.at = Len(Source) /\ ~lexer.done
           /\ tokens' = Append(tokens, Token("eof", Len(Source) + 1, Len(Source)))
           /\ lexer' = [lexer EXCEPT !.done = TRUE]
           /\ UNCHANGED written

NextToken == GivePending \/ GiveToken \/ GiveTemplate \/ GiveEnd
LexerSpec == LexerInit /\ [][NextToken]_lexerVars
-----------------------------------------------------------------------------
(* Properties *)

\* The tokens a source is written in, each at its place.
EndOf(i) == FoldSeq(LAMBDA w, n : Len(w.chars) + n, 0, SubSeq(written, 1, i))
Meant == [i \in DOMAIN written |-> Token(written[i].kind, EndOf(i - 1) + 1, EndOf(i))]
\* The tokens in holes of templates: those with a hole open before them.
Opened(i) == Cardinality({j \in 1 .. i - 1 : written[j].kind = "${"})
             - Cardinality({j \in 1 .. i - 1 : written[j].kind = "}"})
InHoles == {i \in DOMAIN written : Opened(i) > 0 /\ ~(written[i].kind = "}" /\ Opened(i) = 1)}
\* Every brace that closes in there has one before it that opens, and the other way
\* round, those in strings, comments and chunks too.
Braces(s, k, c) == Cardinality({i \in 1 .. k : s[i] = c})
Balanced(s) == /\ \A k \in DOMAIN s : Braces(s, k, "}") <= Braces(s, k, "{")
               /\ Braces(s, Len(s), "}") = Braces(s, Len(s), "{")
\* What holes may not hold: characters of two bytes, and braces that do not balance.
ClosedAt(i) == CHOOSE j \in i + 1 .. Len(written) :
                  /\ written[j].kind = "}" /\ Opened(j) = Opened(i) + 1
                  /\ \A k \in i + 1 .. j - 1 : written[k].kind = "}" => Opened(k) > Opened(i) + 1
Misread == \/ \E i \in InHoles : "é" \in ToSet(written[i].chars)
           \/ \E i \in DOMAIN written : /\ written[i].kind = "${"
                                       /\ ~Balanced(Characters(SubSeq(written, i + 1, ClosedAt(i) - 1)))

\* The lexer gives the tokens a source is written in, with the places of all of
\* them in the whole source, whatever templates are in holes of templates, exactly
\* when no hole holds what it miscounts (lexer.rs 240, 267, 296).
TokensAsWritten ==
    /\ ~Misread /\ ~Ended => tokens = SubSeq(Meant, 1, Len(tokens))
    /\ Ended => (tokens = Append(Meant, Token("eof", Len(Source) + 1, Len(Source))) <=> ~Misread)
=============================================================================
