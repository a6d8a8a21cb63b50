------------------------------ MODULE MCSource ------------------------------
(* What is done with a source: the files of MCFormatting are parsed and     *)
(* formatted, short rows of tokens are lexed, an editor and a language       *)
(* server exchange texts, or find a place in one; one of these from the      *)
(* start on.                                                                *)
EXTENDS MCFormatting, Lexer, LanguageServer, Positions

Written(kind, chars) == [kind |-> kind, chars |-> chars]
Space == Written("whitespace", <<" ">>)
MCSpelled == {<<>>, <<Written("word", <<"a", "1">>), Space>>, <<Written("word", <<"é">>), Space>>,
              <<Written("symbol", <<"{">>), Written("symbol", <<"}">>)>>,
              <<Written("str", <<"\"", "}", "\"">>)>>, <<Written("str", <<"\"", "{", "\"">>)>>,
              <<Written("float", <<"1", ".", "1", "b">>), Written("symbol", <<"=", ">">>)>>,
              <<Written("comment", <<"/", "/", "a">>), Written("newline", <<"\n">>)>>}
MCChunks == {<<>>, <<"é", "$", "\\", "tick">>}

MCAlphabet == {[bytes |-> 1, units |-> 1, newline |-> FALSE], [bytes |-> 2, units |-> 1, newline |-> FALSE],
               [bytes |-> 4, units |-> 2, newline |-> FALSE], [bytes |-> 1, units |-> 1, newline |-> TRUE]}

\* One file that nobody formats, no source, an editor that sends nothing, and an
\* empty document.
NoFile == /\ file = LetA(Tok("a")) /\ meant = ProgramOf(a)
          /\ tidy = FALSE /\ runs = 0 /\ exit = -1
NoSource == /\ written = <<>> /\ tokens = <<>>
            /\ lexer = [at |-> 0, pending |-> <<>>, done |-> FALSE]
NoDocument == text = <<>> /\ nodes = <<>> /\ place = Anywhere /\ found = NotAsked

VARIABLE part
SourceInit ==
    /\ part \in {"file", "lexer", "server", "document"}
    /\ IF part = "file" THEN Init ELSE NoFile
    /\ IF part = "lexer" THEN LexerInit ELSE NoSource
    /\ IF part = "document" THEN PositionsInit ELSE NoDocument
    /\ ServerInit
Serving(step) == part = "server" /\ step /\ UNCHANGED <<part, vars, lexerVars, positionVars>>
SourceNext ==
    \/ part = "file"     /\ Next          /\ UNCHANGED <<part, lexerVars, serverVars, positionVars>>
    \/ part = "lexer"    /\ NextToken     /\ UNCHANGED <<part, vars, serverVars, positionVars>>
    \/ part = "document" /\ PositionsNext /\ UNCHANGED <<part, vars, lexerVars, serverVars>>
    \/ Serving(ServerNext)
SourceSpec ==
    /\ SourceInit /\ [][SourceNext]_<<part, vars, lexerVars, serverVars, positionVars>>
    /\ WF_serverVars(Serving(Show)) /\ WF_serverVars(Serving(Start)) /\ WF_serverVars(Serving(Serve))
=============================================================================
