----------------------------- MODULE Positions -----------------------------
(***************************************************************************)
(* Where the language server and the editor think they are                 *)
(* (pipe-lang-lsp/src/lib.rs): spans count bytes, the editor counts lines  *)
(* and UTF-16 units in them.  An error's span is sent out as positions, a  *)
(* hover's position comes in and finds the smallest span with a type       *)
(* around it.                                                              *)
(*                                                                         *)
(* A document is its characters and the nodes of its program, each between *)
(* two characters, in the order in which they are walked: a parent first.  *)
(***************************************************************************)
EXTENDS Integers, Sequences, FiniteSets, PrefixSums

CONSTANTS Alphabet,    \* with their bytes, their units, and whether they end a line
          MaxLength,     \* bound: characters of a document
          MaxNodes       \* bound: nodes of a document

ASSUME PositionsAssumption ==
    /\ \A c \in Alphabet : c.bytes \in Nat \ {0} /\ c.units \in Nat \ {0} /\ c.newline \in BOOLEAN
    /\ MaxLength \in Nat /\ MaxNodes \in Nat

VARIABLES text,          \* the characters
          nodes,         \* the nodes, each with its first character and the one after it
          place,         \* the position the editor asks about
          found          \* what it is told

positionVars == <<text, nodes, place, found>>

None == -1
NotAsked == -2
Anywhere == [line |-> 0, character |-> 0]

Boundaries == 1 .. Len(text) + 1
BytesBefore(i) == SumBefore([n \in 1 .. Len(text) |-> text[n].bytes], i)

\* Nodes are inside each other or apart.
Inside(n, m) == m.from <= n.from /\ n.to <= m.to
Apart(n, m) == n.to <= m.from \/ m.to <= n.from
PositionsInit ==
    /\ text \in UNION {[1..k -> Alphabet] : k \in 0..MaxLength}
    /\ \E k \in 0..MaxNodes :
          nodes \in {ns \in [1..k -> {n \in [from : Boundaries, to : Boundaries] : n.from <= n.to}] :
                        \A i, j \in 1..k : i < j => Inside(ns[j], ns[i]) \/ Apart(ns[i], ns[j])}
    /\ place = Anywhere /\ found = NotAsked
-----------------------------------------------------------------------------
(* The two conversions. *)

\* Faulty variant: characters are counted, not their units.
CountCharacters(i) ==
    LET lines == {j \in 1 .. i - 1 : text[j].newline}
    IN [line |-> Cardinality(lines),
        character |-> IF lines = {} THEN i - 1 ELSE i - 1 - (CHOOSE j \in lines : \A k \in lines : k <= j)]

\* The position of a character, or of the end.
Moved(p, c) == IF c.newline THEN [line |-> p.line + 1, character |-> 0]
               ELSE [p EXCEPT !.character = @ + c.units]
PositionOf(i) ==
    LET after[n \in 0 .. Len(text)] == IF n = 0 THEN Anywhere ELSE Moved(after[n - 1], text[n])
    IN  after[i - 1]

\* byte_offset_to_position: the first character that is not before the offset.
ToPosition(offset) ==
    PositionOf(CHOOSE i \in Boundaries :
                  /\ BytesBefore(i) >= offset \/ i = Len(text) + 1
                  /\ \A j \in 1 .. i - 1 : BytesBefore(j) < offset)

\* position_to_byte_offset: the column, or the end of its line; past the end of the
\* last line there is nothing.
Reached(p, i) == /\ PositionOf(i).line = p.line
                 /\ PositionOf(i).character >= p.character \/ (i <= Len(text) /\ text[i].newline)
ToOffset(p) ==
    IF \E i \in Boundaries : Reached(p, i)
    THEN BytesBefore(CHOOSE i \in Boundaries : Reached(p, i) /\ \A j \in 1 .. i - 1 : ~Reached(p, j))
    ELSE None
-----------------------------------------------------------------------------
(* A hover. *)

SpanOf(n) == [start |-> BytesBefore(n.from), end |-> BytesBefore(n.to)]
Around(span, offset) == IF span.start = span.end THEN span.start = offset
                        ELSE span.start <= offset /\ offset < span.end

\* Faulty variant: the first node with a span keeps it.
FirstOf(spans, s) == CHOOSE i \in 1..Len(nodes) : spans[i] = s /\ \A j \in 1 .. i - 1 : spans[j] # s
\* build_lsp_type_map: of nodes with one span the last.
LastOf(spans, s) == CHOOSE i \in 1..Len(nodes) : spans[i] = s /\ \A j \in i + 1 .. Len(nodes) : spans[j] # s

\* hover_for_position: one of the smallest spans around the offset, as the map has them.
HoverAt(p) ==
    LET offset == ToOffset(p)
        spans == [i \in 1..Len(nodes) |-> SpanOf(nodes[i])]
        around == {s \in {spans[i] : i \in 1..Len(nodes)} : Around(s, offset)}
        smallest == {s \in around : \A r \in around : s.end - s.start <= r.end - r.start}
    IN /\ found = NotAsked /\ place' = p
       /\ IF offset = None \/ around = {} THEN found' = None
          ELSE \E s \in smallest : found' = LastOf(spans, s)
       /\ UNCHANGED <<text, nodes>>

\* The editor asks in its lines, at or past their ends.
Places == [line : 0 .. MaxLength + 1, character : 0 .. 2 * MaxLength + 1]
PositionsNext == \E p \in Places : HoverAt(p)
PositionsSpec == PositionsInit /\ [][PositionsNext]_positionVars
-----------------------------------------------------------------------------
(* Properties *)

UnitsBefore(i) == SumBefore([n \in 1 .. Len(text) |-> text[n].units], i)
\* The editor's own position of a character: its line, and the units between the
\* beginning of the line and it.
EditorPosition(i) ==
    LET lines == {0} \cup {j \in 1 .. i - 1 : text[j].newline}
        begin == CHOOSE j \in lines : \A k \in lines : k <= j
    IN [line |-> Cardinality(lines) - 1,
        character |-> UnitsBefore(i) - UnitsBefore(begin + 1)]

\* An error is shown where the editor has its characters, and a position there comes
\* back as the same place in the program (lib.rs:355).
ShownWhereItIs ==
    \A i \in 1..Len(nodes) : \A end \in {nodes[i].from, nodes[i].to} :
        /\ ToPosition(BytesBefore(end)) = EditorPosition(end)
        /\ ToOffset(EditorPosition(end)) = BytesBefore(end)

\* The character a position is at: the last in its line, if it is past its end.
InLine(line) == {i \in Boundaries : EditorPosition(i).line = line}
CharacterAt(p) ==
    LET near == {i \in InLine(p.line) : EditorPosition(i).character >= p.character}
    IN IF near # {} THEN CHOOSE i \in near : \A j \in near : i <= j
       ELSE CHOOSE i \in InLine(p.line) : \A j \in InLine(p.line) : j <= i
PastTheEnd(p) == \/ InLine(p.line) = {}
                 \/ /\ Len(text) + 1 \in InLine(p.line)
                    /\ p.character > EditorPosition(Len(text) + 1).character
Encloses(n, i) == IF n.from = n.to THEN n.from = i ELSE n.from <= i /\ i < n.to

\* A hover is told of the innermost node at its character, the last walked of those
\* with one span; of none only where there is none, or past the end (lib.rs:334).
FindsInnermost ==
    found # NotAsked =>
        LET around == IF PastTheEnd(place) THEN {}
                      ELSE {i \in 1..Len(nodes) : Encloses(nodes[i], CharacterAt(place))}
        IN IF around = {} THEN found = None
           ELSE /\ found \in around
                /\ \A i \in around : /\ Inside(nodes[found], nodes[i])
                                     /\ nodes[i] = nodes[found] => i <= found
=============================================================================
