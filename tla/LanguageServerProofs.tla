------------------------- MODULE LanguageServerProofs -------------------------
(***************************************************************************)
(* Proofs about the language server: LanguageServer and Positions.         *)
(*                                                                         *)
(* What is sent is in order in the queue and newer than what is stored, and *)
(* a hover's text is stored or before it in the queue: so it is stored when *)
(* the hover is handled.                                                   *)
(*                                                                         *)
(* A line begins after the last newline, and a place in it is the units from *)
(* there: so positions ascend with the characters, bytes do too, and each is *)
(* taken back for the other.  Of the nodes around a character one is inside *)
(* the other, so the smallest is the innermost.                            *)
(***************************************************************************)
EXTENDS LanguageServer, Positions, NaturalRecursion, FiniteSetTheorems, TLAPS
-----------------------------------------------------------------------------
(* LanguageServer. *)

Messages == [method : {"text", "hover", "empty"}, uri : Uris, version : Nat]
Publications == [uri : Uris, version : Nat]

ServerTypeOK ==
    /\ sent \in [Uris -> Nat] /\ asked \in [Uris -> Nat]
    /\ queue \in Seq(Messages) /\ started \in 0 .. Len(queue)
    /\ documents \in [Uris -> [source : Nat, types : Nat]]
    /\ outbox \in Seq(Publications) /\ shown \in [Uris -> Nat]

\* Types belong to the source they are stored with.
Paired == \A u \in Uris : documents[u].types = TypesOf(documents[u].source)
\* A document's texts are in the order of their versions, a hover after the texts it knows.
Ordered == \A i, j \in 1..Len(queue) :
    i < j /\ queue[i].uri = queue[j].uri /\ queue[i].method = "text" =>
        /\ queue[j].method = "text" => queue[i].version < queue[j].version
        /\ queue[j].method = "hover" => queue[i].version <= queue[j].version
\* A text under way is newer than the one stored.
Newer == \A i \in 1..Len(queue) :
    queue[i].method = "text" =>
        documents[queue[i].uri].source < queue[i].version /\ queue[i].version <= sent[queue[i].uri]
\* The text the editor has is stored or under way.
Kept == \A u \in Uris :
    \/ documents[u].source = sent[u]
    \/ \E j \in 1..Len(queue) : queue[j] = Text(u, sent[u])
\* The text a hover asks about is stored or before it in the queue.
Before == \A i \in 1..Len(queue) :
    queue[i].method = "hover" =>
        \/ documents[queue[i].uri].source = queue[i].version
        \/ \E j \in 1 .. i - 1 : queue[j] = Text(queue[i].uri, queue[i].version)
QueueInv == Paired /\ Ordered /\ Newer /\ Kept /\ Before
\* Publications are in the order of their versions, up to the text stored.
Published ==
    /\ \A u \in Uris : shown[u] <= documents[u].source
    /\ \A i \in 1..Len(outbox) : shown[outbox[i].uri] <= outbox[i].version
                                 /\ outbox[i].version <= documents[outbox[i].uri].source
    /\ \A i, j \in 1..Len(outbox) :
          i < j /\ outbox[i].uri = outbox[j].uri => outbox[i].version <= outbox[j].version
ServerInv == ServerTypeOK /\ QueueInv /\ Published /\ ReadYourEdits
-----------------------------------------------------------------------------
(* The queue and what a step does to it. *)

\* Without the i-th message, the others are there in their order.
LEMMA Removal ==
    ASSUME NEW s \in Seq(Messages), NEW i \in 1..Len(s)
    PROVE  /\ Without(s, i) \in Seq(Messages)
           /\ Len(Without(s, i)) = Len(s) - 1
           /\ \A j \in 1 .. Len(s) - 1 : Without(s, i)[j] = IF j < i THEN s[j] ELSE s[j + 1]
           /\ \A j \in 1..Len(s) : j < i => Without(s, i)[j] = s[j]
           /\ \A j \in 1..Len(s) : j > i => Without(s, i)[j - 1] = s[j]
<1> DEFINE w == Without(s, i)
<1>1. w \in [1 .. Len(s) - 1 -> Messages]
  BY DEF Without
<1>2. Len(s) - 1 \in Nat
  OBVIOUS
<1>3. w \in Seq(Messages) /\ Len(w) = Len(s) - 1
  BY <1>1, <1>2
<1> QED  BY <1>3 DEF Without

\* A message that joins leaves the others where they are.
LEMMA Joining ==
    ASSUME NEW s \in Seq(Messages), NEW m \in Messages
    PROVE  /\ Append(s, m) \in Seq(Messages) /\ Len(Append(s, m)) = Len(s) + 1
           /\ \A j \in 1..Len(s) : Append(s, m)[j] = s[j]
           /\ Append(s, m)[Len(s) + 1] = m
  OBVIOUS

LEMMA KindsOfMessages ==
    ASSUME NEW u \in Uris, NEW v \in Nat
    PROVE  /\ Text(u, v) \in Messages /\ Text(u, v).method = "text"
           /\ Hover(u, v) \in Messages /\ Hover(u, v).method = "hover"
           /\ Unchanged(u) \in Messages /\ Unchanged(u).method = "empty"
           /\ Text(u, v).uri = u /\ Text(u, v).version = v
           /\ Hover(u, v).uri = u /\ Hover(u, v).version = v
           /\ \A m \in Messages : m.method = "text" => m = Text(m.uri, m.version)
  BY DEF Text, Hover, Unchanged, Messages

LEMMA PartsOfMessages ==
    ASSUME ServerTypeOK, NEW j \in 1..Len(queue)
    PROVE  /\ queue[j] \in Messages /\ queue[j].uri \in Uris /\ queue[j].version \in Nat
           /\ queue[j].method \in {"text", "hover", "empty"}
<1>1. queue[j] \in Messages
  BY DEF ServerTypeOK
<1> QED  BY <1>1 DEF Messages

\* A message that joins is in order if no text under way is newer than it.
LEMMA JoinsInOrder ==
    ASSUME ServerInv, NEW m \in Messages, queue' = Append(queue, m),
           \A i \in 1..Len(queue) : queue[i].method = "text" /\ queue[i].uri = m.uri =>
               /\ m.method = "text" => queue[i].version < m.version
               /\ m.method = "hover" => queue[i].version <= m.version
    PROVE  Ordered'
<1> SUFFICES ASSUME NEW i \in 1..Len(queue'), NEW j \in 1..Len(queue'),
                    i < j, queue'[i].uri = queue'[j].uri, queue'[i].method = "text"
             PROVE  /\ queue'[j].method = "text" => queue'[i].version < queue'[j].version
                    /\ queue'[j].method = "hover" => queue'[i].version <= queue'[j].version
  BY DEF Ordered
<1>1. i \in 1..Len(queue) /\ j \in 1 .. Len(queue) + 1 /\ queue'[i] = queue[i]
  BY Joining DEF ServerInv, ServerTypeOK
<1>2. CASE j = Len(queue) + 1
  BY <1>1, <1>2, Joining DEF ServerInv, ServerTypeOK
<1>3. CASE j # Len(queue) + 1
  <2>1. Len(queue) \in Nat
    BY DEF ServerInv, ServerTypeOK
  <2>2. j \in 1..Len(queue)
    BY <1>1, <1>3, <2>1
  <2>3. queue'[j] = queue[j]
    BY <2>2, Joining DEF ServerInv, ServerTypeOK
  <2> QED  BY <1>1, <2>2, <2>3 DEF ServerInv, QueueInv, Ordered
<1> QED  BY <1>2, <1>3

\* An edit is the newest of its document.
LEMMA EditKeeps ==
    ASSUME ServerInv, NEW u \in Uris, Edit(u)
    PROVE  ServerInv'
<1> DEFINE m == Text(u, sent[u] + 1)
<1>1. m \in Messages /\ m.method = "text" /\ m.uri = u /\ m.version = sent[u] + 1
  BY KindsOfMessages DEF ServerInv, ServerTypeOK
<1>2. queue' \in Seq(Messages) /\ Len(queue') = Len(queue) + 1
      /\ (\A j \in 1..Len(queue) : queue'[j] = queue[j]) /\ queue'[Len(queue) + 1] = m
  BY <1>1, Joining DEF Edit, ServerInv, ServerTypeOK
<1>3. ServerTypeOK' /\ sent'[u] = sent[u] + 1 /\ \A x \in Uris \ {u} : sent'[x] = sent[x]
  BY <1>2 DEF Edit, ServerInv, ServerTypeOK
<1>4. Paired'
  BY DEF Edit, ServerInv, QueueInv, Paired
<1>5. \A i \in 1..Len(queue) : queue[i].method = "text" => queue[i].version <= sent[queue[i].uri]
  BY DEF ServerInv, QueueInv, Newer
<1>6. \A j \in 1..Len(queue) : queue[j].uri \in Uris /\ queue[j].version \in Nat
  BY PartsOfMessages DEF ServerInv
<1>7. Ordered'
  <2>1. sent[u] \in Nat
    BY DEF ServerInv, ServerTypeOK
  <2>2. \A i \in 1..Len(queue) : queue[i].method = "text" /\ queue[i].uri = m.uri => queue[i].version < m.version
    BY <1>1, <1>5, <1>6, <2>1
  <2>3. queue' = Append(queue, m)
    BY DEF Edit
  <2> QED  BY <1>1, <2>2, <2>3, JoinsInOrder
<1>8. documents[u].source <= sent[u]
  <2>1. CASE documents[u].source = sent[u]
    BY <2>1 DEF ServerInv, ServerTypeOK
  <2>2. CASE \E j \in 1..Len(queue) : queue[j] = Text(u, sent[u])
    <3>1. PICK j \in 1..Len(queue) : queue[j] = Text(u, sent[u])
      BY <2>2
    <3>2. queue[j].method = "text" /\ queue[j].uri = u /\ queue[j].version = sent[u]
      BY <3>1 DEF Text
    <3>3. documents[u].source < sent[u]
      BY <3>2 DEF ServerInv, QueueInv, Newer
    <3> QED  BY <3>3 DEF ServerInv, ServerTypeOK
  <2> QED  BY <2>1, <2>2 DEF ServerInv, QueueInv, Kept
<1>9. Newer'
  <2> SUFFICES ASSUME NEW i \in 1..Len(queue'), queue'[i].method = "text"
               PROVE  documents'[queue'[i].uri].source < queue'[i].version /\ queue'[i].version <= sent'[queue'[i].uri]
    BY DEF Newer
  <2>1. documents' = documents /\ sent[u] \in Nat /\ documents[u].source \in Nat
    BY DEF Edit, ServerInv, ServerTypeOK
  <2>2. CASE i = Len(queue) + 1
    BY <1>1, <1>2, <1>3, <1>8, <2>1, <2>2
  <2>3. CASE i # Len(queue) + 1
    <3>1. i \in 1..Len(queue) /\ queue'[i] = queue[i]
      <4>1. Len(queue) \in Nat
        BY DEF ServerInv, ServerTypeOK
      <4>2. i \in 1..Len(queue)
        BY <4>1, <1>2, <2>3
      <4> QED  BY <4>2, <1>2
    <3>2. documents[queue[i].uri].source < queue[i].version /\ queue[i].version <= sent[queue[i].uri]
      BY <3>1 DEF ServerInv, QueueInv, Newer
    <3>3. sent[queue[i].uri] \in Nat /\ sent[queue[i].uri] <= sent'[queue[i].uri]
      <4>1. queue[i].uri \in Uris /\ \A x \in Uris : sent[x] \in Nat
        BY <1>6, <3>1 DEF ServerInv, ServerTypeOK
      <4>2. CASE queue[i].uri = u
        BY <1>3, <2>1, <4>2
      <4>3. CASE queue[i].uri # u
        BY <1>3, <4>1, <4>3
      <4> QED  BY <4>2, <4>3
    <3>4. sent'[queue[i].uri] \in Nat
      BY <1>3, <1>6, <3>1 DEF ServerTypeOK
    <3> QED  BY <1>6, <2>1, <3>1, <3>2, <3>3, <3>4
  <2> QED  BY <2>2, <2>3
<1>10. Kept'
  <2>1. ASSUME NEW x \in Uris
        PROVE  documents'[x].source = sent'[x] \/ \E j \in 1..Len(queue') : queue'[j] = Text(x, sent'[x])
    <3>1. CASE x = u
      BY <3>1, <1>2, <1>3
    <3>2. CASE x # u
      BY <3>2, <1>2, <1>3 DEF Edit, ServerInv, QueueInv, Kept
    <3> QED  BY <3>1, <3>2
  <2> QED  BY <2>1 DEF Kept
<1>11. Before'
  BY <1>1, <1>2 DEF Edit, ServerInv, QueueInv, Before
<1>12. Published' /\ ReadYourEdits'
  BY DEF Edit, ServerInv, Published, ReadYourEdits
<1> QED  BY <1>3, <1>4, <1>7, <1>9, <1>10, <1>11, <1>12 DEF ServerInv, QueueInv

\* A hover asks about the newest text, a change without a text about none.
LEMMA AskKeeps ==
    ASSUME ServerInv, NEW u \in Uris, Ask(u)
    PROVE  ServerInv'
<1>1. PICK m \in {Hover(u, sent[u]), Unchanged(u)} : queue' = Append(queue, m)
  BY DEF Ask
<1>2. m \in Messages /\ m.method # "text" /\ (m.method = "hover" => m = Hover(u, sent[u]))
  BY KindsOfMessages DEF ServerInv, ServerTypeOK
<1>3. queue' \in Seq(Messages) /\ Len(queue') = Len(queue) + 1
      /\ (\A j \in 1..Len(queue) : queue'[j] = queue[j]) /\ queue'[Len(queue) + 1] = m
  BY <1>1, <1>2, Joining DEF ServerInv, ServerTypeOK
<1>4. ServerTypeOK'
  BY SMTT(30), <1>3 DEF Ask, ServerInv, ServerTypeOK
<1>5. Paired' /\ Published' /\ ReadYourEdits'
  BY DEF Ask, ServerInv, QueueInv, Paired, Published, ReadYourEdits
<1>6. Hover(u, sent[u]).uri = u /\ Hover(u, sent[u]).version = sent[u]
  BY DEF Hover
<1>7. \A i \in 1..Len(queue) : queue[i].method = "text" => queue[i].version <= sent[queue[i].uri]
  BY DEF ServerInv, QueueInv, Newer
<1>8. Ordered'
  <2>1. \A i \in 1..Len(queue) : queue[i].method = "text" /\ queue[i].uri = m.uri =>
            (m.method = "hover" => queue[i].version <= m.version)
    BY <1>2, <1>6, <1>7
  <2> QED  BY <1>1, <1>2, <2>1, JoinsInOrder
<1>9. Newer'
  BY <1>2, <1>3 DEF Ask, ServerInv, QueueInv, Newer
<1>10. Kept'
  <2>1. ASSUME NEW x \in Uris
        PROVE  documents'[x].source = sent'[x] \/ \E j \in 1..Len(queue') : queue'[j] = Text(x, sent'[x])
    BY <1>3 DEF Ask, ServerInv, QueueInv, Kept
  <2> QED  BY <2>1 DEF Kept
<1>11. Before'
  BY <1>2, <1>3, <1>6 DEF Ask, ServerInv, QueueInv, Kept, Before
<1> QED  BY <1>4, <1>5, <1>8, <1>9, <1>10, <1>11 DEF ServerInv, QueueInv

\* Starting a handler changes nothing that is stored or under way.
LEMMA StartKeeps ==
    ASSUME ServerInv, Start
    PROVE  ServerInv'
<1>1. ServerTypeOK'
  BY DEF Start, ServerInv, ServerTypeOK
<1>2. QueueInv' /\ Published' /\ ReadYourEdits'
  BY DEF Start, ServerInv, QueueInv, Paired, Ordered, Newer, Kept, Before, Published, ReadYourEdits
<1> QED  BY <1>1, <1>2 DEF ServerInv

\* What the editor shows next is the first publication, the oldest of its document.
LEMMA ShowKeeps ==
    ASSUME ServerInv, Show
    PROVE  ServerInv' /\ \A u \in Uris : shown'[u] >= shown[u]
<1>1. Head(outbox) = outbox[1] /\ 1 \in 1..Len(outbox) /\ Len(outbox) \in Nat
      /\ Tail(outbox) \in Seq(Publications) /\ Len(Tail(outbox)) = Len(outbox) - 1
      /\ \A j \in 1 .. Len(outbox) - 1 : Tail(outbox)[j] = outbox[j + 1]
  BY DEF Show, ServerInv, ServerTypeOK
<1>2. \A j \in 1..Len(outbox) : outbox[j].uri \in Uris /\ outbox[j].version \in Nat
  <2> SUFFICES ASSUME NEW j \in 1..Len(outbox)
               PROVE  outbox[j].uri \in Uris /\ outbox[j].version \in Nat
    OBVIOUS
  <2>1. outbox[j] \in Publications
    BY DEF ServerInv, ServerTypeOK
  <2> QED  BY <2>1 DEF Publications
<1>3. ServerTypeOK'
  BY <1>1, <1>2 DEF Show, ServerInv, ServerTypeOK
<1>4. QueueInv' /\ ReadYourEdits'
  BY DEF Show, ServerInv, QueueInv, Paired, Ordered, Newer, Kept, Before, ReadYourEdits
<1> DEFINE p == outbox[1]
<1>5. /\ shown'[p.uri] = p.version /\ shown[p.uri] <= p.version
      /\ p.version <= documents[p.uri].source
      /\ \A u \in Uris : u # p.uri => shown'[u] = shown[u]
  BY <1>1, <1>2 DEF Show, ServerInv, ServerTypeOK, Published
<1>6. \A u \in Uris : shown'[u] >= shown[u] /\ shown'[u] <= documents[u].source
  <2> SUFFICES ASSUME NEW u \in Uris
               PROVE  shown'[u] >= shown[u] /\ shown'[u] <= documents[u].source
    OBVIOUS
  <2>1. shown[u] \in Nat /\ shown[u] <= documents[u].source
    BY DEF ServerInv, ServerTypeOK, Published
  <2>2. CASE u = p.uri
    BY <1>5, <2>1, <2>2, <1>1, <1>2
  <2>3. CASE u # p.uri
    BY <1>5, <2>1, <2>3
  <2> QED  BY <2>2, <2>3
<1>7. ASSUME NEW i \in 1..Len(outbox')
      PROVE  /\ i + 1 \in 1..Len(outbox) /\ outbox'[i] = outbox[i + 1]
             /\ shown'[outbox'[i].uri] <= outbox'[i].version
             /\ outbox'[i].version <= documents'[outbox'[i].uri].source
  <2>1. i + 1 \in 1..Len(outbox) /\ outbox'[i] = outbox[i + 1] /\ 1 < i + 1 /\ documents' = documents
    BY <1>1 DEF Show
  <2> DEFINE q == outbox[i + 1]
  <2>2. q.uri \in Uris /\ q.version \in Nat
    BY <1>2, <2>1
  <2>3. shown[q.uri] <= q.version /\ q.version <= documents[q.uri].source
    BY <2>1 DEF ServerInv, Published
  <2>4. p.uri = q.uri => p.version <= q.version
    BY <1>1, <2>1 DEF ServerInv, Published
  <2>5. shown'[q.uri] <= q.version
    BY <1>5, <2>2, <2>3, <2>4
  <2> QED  BY <2>1, <2>3, <2>5
<1>8. \A i, j \in 1..Len(outbox') :
         i < j /\ outbox'[i].uri = outbox'[j].uri => outbox'[i].version <= outbox'[j].version
  <2> SUFFICES ASSUME NEW i \in 1..Len(outbox'), NEW j \in 1..Len(outbox'),
                      i < j, outbox'[i].uri = outbox'[j].uri
               PROVE  outbox'[i].version <= outbox'[j].version
    OBVIOUS
  <2>1. i + 1 \in 1..Len(outbox) /\ j + 1 \in 1..Len(outbox) /\ i + 1 < j + 1
        /\ outbox'[i] = outbox[i + 1] /\ outbox'[j] = outbox[j + 1]
    BY <1>7
  <2> QED  BY <2>1 DEF ServerInv, Published
<1>9. Published'
  BY <1>6, <1>7, <1>8 DEF Published, Show
<1> QED  BY <1>3, <1>4, <1>6, <1>9 DEF ServerInv

\* Where a message of the queue was before one left, and where it is after.
Was(i, j) == IF j < i THEN j ELSE j + 1
Is(i, j) == IF j < i THEN j ELSE j - 1

LEMMA Leaving ==
    ASSUME ServerInv, NEW i \in 1..started, Leave(i)
    PROVE  /\ i \in 1..Len(queue) /\ started \in Nat
           /\ queue' \in Seq(Messages) /\ Len(queue') = Len(queue) - 1
           /\ started' \in 0 .. Len(queue')
           /\ \A j \in 1..Len(queue') : Was(i, j) \in 1..Len(queue) /\ queue'[j] = queue[Was(i, j)]
                                        /\ Was(i, j) # i
           /\ \A j, k \in 1..Len(queue') : j < k => Was(i, j) < Was(i, k)
           /\ \A j \in 1..Len(queue) \ {i} : /\ Is(i, j) \in 1..Len(queue') /\ queue'[Is(i, j)] = queue[j]
                                             /\ Was(i, Is(i, j)) = j
           /\ Ordered'
<1>1. queue \in Seq(Messages) /\ Len(queue) \in Nat /\ started \in 0 .. Len(queue) /\ i \in 1..Len(queue)
  BY DEF ServerInv, ServerTypeOK
<1>2. queue' = Without(queue, i) /\ started' = started - 1
  BY DEF Leave
<1>3. queue' \in Seq(Messages) /\ Len(queue') = Len(queue) - 1
      /\ (\A j \in 1 .. Len(queue) - 1 : queue'[j] = IF j < i THEN queue[j] ELSE queue[j + 1])
      /\ (\A j \in 1..Len(queue) : j < i => queue'[j] = queue[j])
      /\ (\A j \in 1..Len(queue) : j > i => queue'[j - 1] = queue[j])
  BY <1>1, <1>2, Removal
<1>4. \A j \in 1..Len(queue') : Was(i, j) \in 1..Len(queue) /\ queue'[j] = queue[Was(i, j)] /\ Was(i, j) # i
  BY <1>1, <1>3 DEF Was
<1>5. \A j, k \in 1..Len(queue') : j < k => Was(i, j) < Was(i, k)
  BY <1>1, <1>3 DEF Was
<1>6. \A j \in 1..Len(queue) \ {i} :
         Is(i, j) \in 1..Len(queue') /\ queue'[Is(i, j)] = queue[j] /\ Was(i, Is(i, j)) = j
  BY <1>1, <1>3 DEF Is, Was
<1>7. Ordered'
  <2> SUFFICES ASSUME NEW j \in 1..Len(queue'), NEW k \in 1..Len(queue'),
                      j < k, queue'[j].uri = queue'[k].uri, queue'[j].method = "text"
               PROVE  /\ queue'[k].method = "text" => queue'[j].version < queue'[k].version
                      /\ queue'[k].method = "hover" => queue'[j].version <= queue'[k].version
    BY DEF Ordered
  <2>1. Was(i, j) \in 1..Len(queue) /\ Was(i, k) \in 1..Len(queue) /\ Was(i, j) < Was(i, k)
        /\ queue'[j] = queue[Was(i, j)] /\ queue'[k] = queue[Was(i, k)]
    BY <1>4, <1>5
  <2> QED  BY <2>1 DEF ServerInv, QueueInv, Ordered
<1>8. started' \in 0 .. Len(queue')
  BY <1>1, <1>2, <1>3
<1> QED  BY <1>1, <1>3, <1>4, <1>5, <1>6, <1>7, <1>8

\* A message that is no text leaves: what is stored and known stays.
LEMMA OthersLeave ==
    ASSUME ServerInv, NEW i \in 1..started, Leave(i), queue[i].method # "text",
           UNCHANGED <<sent, documents>>
    PROVE  QueueInv'
<1>1. Paired' /\ Ordered'
  BY Leaving DEF ServerInv, QueueInv, Paired
<1>2. Newer'
  <2> SUFFICES ASSUME NEW j \in 1..Len(queue'), queue'[j].method = "text"
               PROVE  documents[queue'[j].uri].source < queue'[j].version /\ queue'[j].version <= sent[queue'[j].uri]
    BY DEF Newer
  <2>1. Was(i, j) \in 1..Len(queue) /\ queue'[j] = queue[Was(i, j)]
    BY Leaving
  <2> QED  BY <2>1 DEF ServerInv, QueueInv, Newer
<1>3. ASSUME NEW j \in 1..Len(queue), queue[j].method = "text"
      PROVE  Is(i, j) \in 1..Len(queue') /\ queue'[Is(i, j)] = queue[j] /\ Was(i, Is(i, j)) = j
  BY <1>3, Leaving
<1>4. Kept'
  <2> SUFFICES ASSUME NEW u \in Uris, documents[u].source # sent[u]
               PROVE  \E j \in 1..Len(queue') : queue'[j] = Text(u, sent[u])
    BY DEF Kept
  <2>1. PICK j \in 1..Len(queue) : queue[j] = Text(u, sent[u])
    BY DEF ServerInv, QueueInv, Kept
  <2>2. queue[j].method = "text"
    BY <2>1 DEF Text
  <2> QED  BY <1>3, <2>1, <2>2
<1>5. Before'
  <2> SUFFICES ASSUME NEW k \in 1..Len(queue'), queue'[k].method = "hover",
                      documents[queue'[k].uri].source # queue'[k].version
               PROVE  \E j \in 1 .. k - 1 : queue'[j] = Text(queue'[k].uri, queue'[k].version)
    BY DEF Before
  <2>1. Was(i, k) \in 1..Len(queue) /\ queue'[k] = queue[Was(i, k)]
    BY Leaving
  <2>2. PICK j \in 1 .. Was(i, k) - 1 : queue[j] = Text(queue'[k].uri, queue'[k].version)
    BY <2>1 DEF ServerInv, QueueInv, Before
  <2>3. j \in 1..Len(queue) /\ queue[j].method = "text" /\ j < Was(i, k) /\ j # i
    BY <2>1, <2>2 DEF Text
  <2>4. Is(i, j) \in 1..Len(queue') /\ queue'[Is(i, j)] = queue[j] /\ Was(i, Is(i, j)) = j
    BY <1>3, <2>3
  <2>5. Is(i, j) < k
    BY <2>3, <2>4, Leaving DEF Is, Was
  <2> QED  BY <2>2, <2>4, <2>5
<1> QED  BY <1>1, <1>2, <1>4, <1>5 DEF QueueInv

\* A hover at the head of the queue finds the text it asks about.
LEMMA HoverKeeps ==
    ASSUME ServerInv, NEW i \in 1..started, AnswerHover(i)
    PROVE  ServerInv'
<1>1. i = 1 /\ i \in 1..Len(queue) /\ Leave(i) /\ queue[i].method = "hover" /\ UNCHANGED <<sent, documents>>
  BY Leaving DEF AnswerHover, HasLock
<1>2. QueueInv'
  BY <1>1, OthersLeave
<1>3. ServerTypeOK'
  BY <1>1, Leaving DEF AnswerHover, ServerInv, ServerTypeOK
<1>4. Published'
  BY DEF AnswerHover, ServerInv, Published
<1>5. documents[queue[1].uri].source = queue[1].version
  BY <1>1 DEF ServerInv, QueueInv, Before
<1>6. documents[queue[1].uri].types = TypesOf(queue[1].version)
  BY <1>1, <1>5, PartsOfMessages DEF ServerInv, QueueInv, Paired
<1>7. ReadYourEdits'
  BY <1>1, <1>5, <1>6 DEF AnswerHover, ReadYourEdits
<1> QED  BY <1>2, <1>3, <1>4, <1>7 DEF ServerInv

LEMMA EmptyKeeps ==
    ASSUME ServerInv, NEW i \in 1..started, IgnoreEmpty(i)
    PROVE  ServerInv'
<1>1. Leave(i) /\ queue[i].method = "empty" /\ UNCHANGED <<sent, asked, documents, outbox, shown, hover>>
  BY DEF IgnoreEmpty
<1>2. QueueInv'
  BY <1>1, OthersLeave
<1>3. ServerTypeOK'
  BY <1>1, Leaving DEF ServerInv, ServerTypeOK
<1>4. Published' /\ ReadYourEdits'
  BY <1>1 DEF ServerInv, Published, ReadYourEdits
<1> QED  BY <1>2, <1>3, <1>4 DEF ServerInv

\* A text at the head of the queue is newer than the one stored and older than
\* the ones behind it.
LEMMA TextKeeps ==
    ASSUME ServerInv, NEW i \in 1..started, StoreAndPublish(i)
    PROVE  ServerInv'
<1> DEFINE m == queue[1]
<1>1. i = 1 /\ 1 \in 1..Len(queue) /\ Leave(1) /\ m.method = "text"
  BY Leaving DEF StoreAndPublish, HasLock
<1>2. m \in Messages /\ m.uri \in Uris /\ m.version \in Nat /\ m = Text(m.uri, m.version)
      /\ TypesOf(m.version) \in Nat
  BY <1>1, PartsOfMessages, KindsOfMessages DEF ServerInv, TypesOf
<1>3. /\ documents'[m.uri].source = m.version /\ documents'[m.uri].types = TypesOf(m.version)
      /\ \A u \in Uris \ {m.uri} : documents'[u] = documents[u]
      /\ documents' \in [Uris -> [source : Nat, types : Nat]]
  BY <1>1, <1>2 DEF StoreAndPublish, ServerInv, ServerTypeOK
<1>4. documents[m.uri].source < m.version /\ m.version <= sent[m.uri]
  BY <1>1 DEF ServerInv, QueueInv, Newer
<1>5. \A u \in Uris : documents[u].source \in Nat /\ sent[u] \in Nat /\ shown[u] \in Nat
  BY DEF ServerInv, ServerTypeOK
<1>6. ServerTypeOK'
  <2>1. [uri |-> m.uri, version |-> m.version] \in Publications
    BY <1>2 DEF Publications
  <2>2. outbox' \in Seq(Publications)
    BY <1>1, <2>1 DEF StoreAndPublish, ServerInv, ServerTypeOK
  <2>3. queue' \in Seq(Messages) /\ started' \in 0 .. Len(queue')
    BY <1>1, Leaving
  <2> QED  BY <1>3, <2>2, <2>3 DEF StoreAndPublish, ServerInv, ServerTypeOK
<1>7. Paired'
  BY <1>3 DEF ServerInv, QueueInv, Paired
<1>8. ASSUME NEW j \in 1..Len(queue')
      PROVE  /\ j + 1 \in 1..Len(queue) /\ queue'[j] = queue[j + 1]
             /\ queue'[j].uri \in Uris /\ queue'[j].version \in Nat
  <2>1. Was(1, j) = j + 1
    BY DEF Was
  <2>2. j + 1 \in 1..Len(queue) /\ queue'[j] = queue[j + 1]
    BY <1>1, <2>1, Leaving
  <2> QED  BY <2>2, PartsOfMessages DEF ServerInv
<1>9. Newer'
  <2> SUFFICES ASSUME NEW j \in 1..Len(queue'), queue'[j].method = "text"
               PROVE  documents'[queue'[j].uri].source < queue'[j].version /\ queue'[j].version <= sent'[queue'[j].uri]
    BY DEF Newer
  <2>1. j + 1 \in 1..Len(queue) /\ queue'[j] = queue[j + 1] /\ queue'[j].uri \in Uris
    BY <1>8
  <2>2. documents[queue'[j].uri].source < queue'[j].version /\ queue'[j].version <= sent[queue'[j].uri]
    BY <2>1 DEF ServerInv, QueueInv, Newer
  <2>3. queue'[j].uri = m.uri => m.version < queue'[j].version
    <3>1. 1 < j + 1
      OBVIOUS
    <3> QED  BY <1>1, <2>1, <3>1 DEF ServerInv, QueueInv, Ordered
  <2>4. sent' = sent
    BY DEF StoreAndPublish
  <2> QED  BY <1>3, <2>1, <2>2, <2>3, <2>4
<1>10. ASSUME NEW j \in 1..Len(queue), j # 1
       PROVE  j - 1 \in 1..Len(queue') /\ queue'[j - 1] = queue[j]
  <2>1. Is(1, j) = j - 1
    BY <1>10 DEF Is
  <2> QED  BY <1>1, <1>10, <2>1, Leaving
<1>11. Kept'
  <2> SUFFICES ASSUME NEW u \in Uris, documents'[u].source # sent[u]
               PROVE  \E j \in 1..Len(queue') : queue'[j] = Text(u, sent[u])
    BY DEF Kept, StoreAndPublish
  <2>1. documents[u].source # sent[u]
    BY <1>3, <1>4, <1>5
  <2>2. PICK j \in 1..Len(queue) : queue[j] = Text(u, sent[u])
    BY <2>1 DEF ServerInv, QueueInv, Kept
  <2>3. j # 1
    BY <1>3, <2>2 DEF Text
  <2> QED  BY <1>10, <2>2, <2>3
<1>12. Before'
  <2> SUFFICES ASSUME NEW k \in 1..Len(queue'), queue'[k].method = "hover",
                      documents'[queue'[k].uri].source # queue'[k].version
               PROVE  \E j \in 1 .. k - 1 : queue'[j] = Text(queue'[k].uri, queue'[k].version)
    BY DEF Before
  <2> DEFINE h == queue'[k]
  <2>1. k + 1 \in 1..Len(queue) /\ h = queue[k + 1] /\ h.uri \in Uris /\ h.version \in Nat
    BY <1>8
  <2>2. h.uri = m.uri => m.version <= h.version
    <3>1. 1 < k + 1
      OBVIOUS
    <3> QED  BY <1>1, <2>1, <3>1 DEF ServerInv, QueueInv, Ordered
  <2>3. documents[h.uri].source # h.version
    BY SMTT(30), <1>2, <1>3, <1>4, <1>5, <2>1, <2>2
  <2>4. PICK j \in 1..k : queue[j] = Text(h.uri, h.version)
    BY <2>1, <2>3 DEF ServerInv, QueueInv, Before
  <2>5. j # 1
    BY <1>3, <2>4 DEF Text
  <2>6. j - 1 \in 1 .. k - 1 /\ queue'[j - 1] = queue[j]
    BY SMTT(30), <1>10, <2>1, <2>5
  <2> QED  BY <2>4, <2>6
<1>13. Published'
  <2> DEFINE p == [uri |-> m.uri, version |-> m.version]
  <2>1. outbox' = Append(outbox, p) /\ outbox \in Seq(Publications) /\ p \in Publications
    BY <1>1, <1>2 DEF StoreAndPublish, ServerInv, ServerTypeOK, Publications
  <2>2. /\ Len(outbox') = Len(outbox) + 1 /\ Len(outbox) \in Nat
        /\ \A j \in 1..Len(outbox) : outbox'[j] = outbox[j] /\ outbox[j].uri \in Uris /\ outbox[j].version \in Nat
        /\ outbox'[Len(outbox) + 1] = p
    <3>1. \A j \in 1..Len(outbox) : outbox[j] \in Publications
      BY <2>1
    <3> QED  BY <2>1, <3>1 DEF Publications
  <2>3. ASSUME NEW u \in Uris
        PROVE  documents[u].source <= documents'[u].source /\ documents'[u].source \in Nat
    BY <1>2, <1>3, <1>4, <1>5
  <2>4. \A u \in Uris : shown'[u] <= documents'[u].source
    <3>1. shown' = shown /\ \A u \in Uris : shown[u] <= documents[u].source
      BY DEF StoreAndPublish, ServerInv, Published
    <3> QED  BY <1>5, <2>3, <3>1
  <2>5. ASSUME NEW j \in 1..Len(outbox')
        PROVE  shown'[outbox'[j].uri] <= outbox'[j].version
               /\ outbox'[j].version <= documents'[outbox'[j].uri].source
    <3>1. shown' = shown
      BY DEF StoreAndPublish
    <3>2. CASE j = Len(outbox) + 1
      <4>1. shown[m.uri] <= documents[m.uri].source
        BY <1>2 DEF ServerInv, Published
      <4> QED  BY SMTT(30), <1>2, <1>3, <1>4, <1>5, <2>2, <3>1, <3>2, <4>1
    <3>3. CASE j # Len(outbox) + 1
      <4>1. j \in 1..Len(outbox)
        BY <2>2, <3>3
      <4>2. shown[outbox[j].uri] <= outbox[j].version /\ outbox[j].version <= documents[outbox[j].uri].source
        BY <4>1 DEF ServerInv, Published
      <4>3. outbox[j].uri \in Uris /\ outbox[j].version \in Nat /\ outbox'[j] = outbox[j]
        BY <2>2, <4>1
      <4>4. documents[outbox[j].uri].source <= documents'[outbox[j].uri].source
            /\ documents'[outbox[j].uri].source \in Nat
        BY <2>3, <4>3
      <4> QED  BY <1>5, <3>1, <4>2, <4>3, <4>4
    <3> QED  BY <3>2, <3>3
  <2>6. ASSUME NEW j \in 1..Len(outbox'), NEW k \in 1..Len(outbox'),
               j < k, outbox'[j].uri = outbox'[k].uri
        PROVE  outbox'[j].version <= outbox'[k].version
    <3>1. j \in 1..Len(outbox) /\ outbox'[j] = outbox[j]
      BY <2>2, <2>6
    <3>2. CASE k = Len(outbox) + 1
      <4>1. outbox[j].uri = m.uri /\ outbox'[k].version = m.version
        BY <2>2, <2>6, <3>1, <3>2
      <4>2. outbox[j].version <= documents[m.uri].source
        BY <3>1, <4>1 DEF ServerInv, Published
      <4>3. outbox[j].version \in Nat
        BY <2>2, <3>1
      <4> QED  BY SMTT(30), <1>2, <1>4, <1>5, <3>1, <4>1, <4>2, <4>3
    <3>3. CASE k # Len(outbox) + 1
      <4>1. k \in 1..Len(outbox) /\ outbox'[k] = outbox[k]
        BY <2>2, <3>3
      <4> QED  BY <2>6, <3>1, <4>1 DEF ServerInv, Published
    <3> QED  BY <3>2, <3>3
  <2> QED  BY <2>4, <2>5, <2>6 DEF Published
<1>14. ReadYourEdits'
  BY DEF StoreAndPublish, ServerInv, ReadYourEdits
<1>15. Ordered'
  BY <1>1, Leaving
<1> QED  BY <1>6, <1>7, <1>9, <1>11, <1>12, <1>13, <1>14, <1>15 DEF ServerInv, QueueInv
-----------------------------------------------------------------------------
(* The theorems. *)

LEMMA ServerStarts == ASSUME ServerInit PROVE ServerInv
<1>1. ServerTypeOK
  BY DEF ServerInit, ServerTypeOK
<1>2. Paired
  BY DEF ServerInit, Paired, TypesOf
<1>3. Ordered /\ Newer /\ Kept /\ Before /\ Published
  BY DEF ServerInit, Ordered, Newer, Kept, Before, Published
<1>4. ReadYourEdits
  BY DEF ServerInit, ReadYourEdits
<1> QED  BY <1>1, <1>2, <1>3, <1>4 DEF ServerInv, QueueInv

LEMMA ServerSteps == ASSUME ServerInv, [ServerNext]_serverVars PROVE ServerInv'
<1>1. CASE \E u \in Uris : Edit(u) \/ Ask(u)
  BY <1>1, EditKeeps, AskKeeps
<1>2. CASE Show
  BY <1>2, ShowKeeps
<1>3. CASE Start
  BY <1>3, StartKeeps
<1>4. CASE Serve
  BY <1>4, TextKeeps, HoverKeeps, EmptyKeeps DEF Serve, Handle
<1>5. CASE UNCHANGED serverVars
  BY <1>5 DEF serverVars, ServerInv, ServerTypeOK, QueueInv, Paired, Ordered, Newer, Kept, Before,
              Published, ReadYourEdits
<1> QED  BY <1>1, <1>2, <1>3, <1>4, <1>5 DEF ServerNext

\* Every hover is answered from the text the editor had when it asked, with the
\* types of that text: for all documents, messages and handlers.
THEOREM HoversReadEdits == ServerSpec => []ReadYourEdits
<1>1. ServerInv => ReadYourEdits
  BY DEF ServerInv
<1> QED  BY <1>1, ServerStarts, ServerSteps, PTL DEF ServerSpec

\* The errors of an older text never replace those of a newer one.
THEOREM ShownNeverGoesBack == ServerSpec => NeverBack
<1>1. ASSUME ServerInv, [ServerNext]_serverVars
      PROVE  [\A u \in Uris : shown'[u] >= shown[u]]_serverVars
  <2>1. \A u \in Uris : shown[u] >= shown[u]
    BY <1>1 DEF ServerInv, ServerTypeOK
  <2>2. CASE Show
    BY <1>1, <2>2, ShowKeeps
  <2>3. CASE ~Show
    <3>1. shown' = shown
      BY <1>1, <2>3 DEF ServerNext, Edit, Ask, Start, Serve, Handle, StoreAndPublish, AnswerHover,
                        IgnoreEmpty, serverVars
    <3> QED  BY <2>1, <3>1
  <2> QED  BY <2>2, <2>3
<1> QED  BY <1>1, ServerStarts, ServerSteps, PTL DEF ServerSpec, NeverBack
-----------------------------------------------------------------------------
(* Positions. *)
-----------------------------------------------------------------------------
(* Counting. *)

Texts == Seq(Alphabet)

\* Characters have bytes and units.
LEMMA CharactersAre ==
    ASSUME text \in Texts
    PROVE  /\ Len(text) \in Nat /\ DOMAIN text = 1 .. Len(text)
           /\ \A n \in 1 .. Len(text) : /\ text[n].bytes \in Nat \ {0} /\ text[n].units \in Nat \ {0}
                                       /\ text[n].newline \in BOOLEAN
BY PositionsAssumption DEF Texts

\* The bytes before a character ascend with it.
LEMMA BytesAre ==
    ASSUME text \in Texts
    PROVE  /\ \A i \in Boundaries : BytesBefore(i) \in Nat
           /\ \A i, j \in Boundaries : i < j => BytesBefore(i) < BytesBefore(j)
<1>1. PICK xs : xs = [n \in 1 .. Len(text) |-> text[n].bytes]
  OBVIOUS
<1>2. xs \in Seq(Nat \ {0}) /\ xs \in Seq(Nat) /\ Len(xs) = Len(text)
  <2>1. xs \in [1 .. Len(text) -> Nat \ {0}] /\ Len(text) \in Nat
    BY <1>1, CharactersAre
  <2> QED  BY <2>1
<1>3. \A i : BytesBefore(i) = SumBefore(xs, i)
  BY <1>1 DEF BytesBefore
<1> QED  BY <1>2, <1>3, SumsAre, SumsAscend DEF Boundaries

\* The units before a character are those before the last and its own.
LEMMA UnitsAre ==
    ASSUME text \in Texts
    PROVE  /\ UnitsBefore(1) = 0
           /\ \A i \in Boundaries : UnitsBefore(i) \in Nat
           /\ \A i \in 1 .. Len(text) : UnitsBefore(i + 1) = UnitsBefore(i) + text[i].units
<1>1. PICK xs : xs = [n \in 1 .. Len(text) |-> text[n].units]
  OBVIOUS
<1>2. xs \in Seq(Nat) /\ Len(xs) = Len(text) /\ \A n \in 1 .. Len(text) : xs[n] = text[n].units
  <2>1. xs \in [1 .. Len(text) -> Nat] /\ Len(text) \in Nat
    BY <1>1, CharactersAre
  <2> QED  BY <2>1, <1>1
<1>3. \A i : UnitsBefore(i) = SumBefore(xs, i)
  BY <1>1 DEF UnitsBefore
<1> QED  BY <1>2, <1>3, SumsAre DEF Boundaries

Positioned == [line : Nat, character : Nat]

\* A position is moved by each character in turn.
LEMMA PositionsAre ==
    ASSUME text \in Texts
    PROVE  /\ PositionOf(1) = Anywhere
           /\ \A i \in Boundaries : PositionOf(i) \in Positioned
           /\ \A i \in 1 .. Len(text) : PositionOf(i + 1) = Moved(PositionOf(i), text[i])
<1>1. PICK k \in Nat : k = Len(text)
  BY CharactersAre
<1>2. PICK step : step = [n \in 1 .. k |-> [p \in Positioned |-> Moved(p, text[n])]]
  OBVIOUS
<1>3. ASSUME NEW n \in 1 .. k, NEW p \in Positioned PROVE Moved(p, text[n]) \in Positioned
  BY <1>1, CharactersAre DEF Moved, Positioned
<1>4. step \in [1 .. k -> [Positioned -> Positioned]]
  BY <1>2, <1>3
<1>5. PICK f \in [0 .. k -> Positioned] : Follows(f, k, Anywhere, step)
  <2>1. Anywhere \in Positioned
    BY DEF Anywhere, Positioned
  <2> QED  BY <2>1, <1>4, RecursionUpTo
<1>6. ASSUME NEW n \in 1 .. k PROVE f[n] = Moved(f[n - 1], text[n])
  <2>1. f[n - 1] \in Positioned /\ f[n] = step[n][f[n - 1]]
    BY <1>5 DEF Follows
  <2> QED  BY <2>1, <1>2
<1>7. f[0] = Anywhere
  BY <1>5 DEF Follows
<1> DEFINE R(after) == after = [n \in 0 .. Len(text) |-> IF n = 0 THEN Anywhere ELSE Moved(after[n - 1], text[n])]
           A == CHOOSE after : R(after)
<1>8. R(f)
  BY <1>1, <1>6, <1>7
<1>9. R(A)
  BY <1>8
<1>10. \A i : PositionOf(i) = A[i - 1]
  BY DEF PositionOf
<1> HIDE DEF A
<1>11. A[0] = Anywhere /\ \A n \in 1 .. k : A[n] = Moved(A[n - 1], text[n])
  <2>1. A = [n \in 0 .. k |-> IF n = 0 THEN Anywhere ELSE Moved(A[n - 1], text[n])]
    BY <1>1, <1>9
  <2>2. 0 \in 0 .. k /\ \A n \in 1 .. k : n \in 0 .. k /\ n # 0
    OBVIOUS
  <2> QED  BY <2>1, <2>2
<1> DEFINE T == {n \in Nat : n <= k => A[n] \in Positioned}
<1>12. 0 \in T
  BY <1>11 DEF Anywhere, Positioned
<1>13. ASSUME NEW n \in Nat, n \in T PROVE n + 1 \in T
  <2> SUFFICES ASSUME n + 1 <= k PROVE A[n + 1] \in Positioned
    OBVIOUS
  <2>1. PICK m \in 1 .. k : m = n + 1 /\ m - 1 = n
    OBVIOUS
  <2>2. A[m] = Moved(A[m - 1], text[m]) /\ A[m - 1] \in Positioned
    BY <2>1, <1>11, <1>13
  <2> QED  BY <2>1, <2>2, <1>3
<1> HIDE DEF T
<1>14. Nat \subseteq T
  BY <1>12, <1>13, Induction
<1>15. ASSUME NEW i \in Boundaries PROVE PositionOf(i) \in Positioned
  <2>1. i - 1 \in Nat /\ i - 1 <= k
    BY <1>1 DEF Boundaries
  <2> QED  BY <2>1, <1>10, <1>14 DEF T
<1>16. ASSUME NEW i \in 1 .. k PROVE PositionOf(i + 1) = Moved(PositionOf(i), text[i])
  <2>1. PICK j : j = i + 1 /\ j - 1 = i
    OBVIOUS
  <2>2. PositionOf(j) = A[j - 1] /\ PositionOf(i) = A[i - 1] /\ A[i] = Moved(A[i - 1], text[i])
    BY <1>10, <1>11
  <2> QED  BY <2>1, <2>2
<1>17. PositionOf(1) = Anywhere
  BY <1>10, <1>11
<1> QED  BY <1>1, <1>15, <1>16, <1>17

\* The beginning of a line is after the last newline, and a character goes on from it.
LinesTo(i) == {0} \cup {j \in 1 .. i - 1 : text[j].newline}
BeginOf(i) == CHOOSE j \in LinesTo(i) : \A k \in LinesTo(i) : k <= j

\* The lines before a character are finitely many, and the last of them has begun last.
LEMMA LinesAre ==
    ASSUME text \in Texts, NEW i \in Boundaries
    PROVE  /\ IsFiniteSet(LinesTo(i)) /\ Cardinality(LinesTo(i)) \in Nat
           /\ LinesTo(i) \subseteq 0 .. i - 1 /\ LinesTo(i) # {}
           /\ BeginOf(i) \in LinesTo(i) /\ \A k \in LinesTo(i) : k <= BeginOf(i)
           /\ EditorPosition(i) = [line |-> Cardinality(LinesTo(i)) - 1,
                                   character |-> UnitsBefore(i) - UnitsBefore(BeginOf(i) + 1)]
<1>1. i \in Nat /\ i - 1 \in Nat
  BY CharactersAre DEF Boundaries
<1>2. LinesTo(i) \subseteq 0 .. i - 1 /\ 0 \in LinesTo(i)
  BY <1>1 DEF LinesTo
<1>3. IsFiniteSet(LinesTo(i))
  <2>1. IsFiniteSet(0 .. i - 1)
    BY <1>1, FS_Interval
  <2> QED  BY <2>1, <1>2, FS_Subset
<1>4. Cardinality(LinesTo(i)) \in Nat
  BY <1>3, FS_CardinalityType
<1>5. \E j \in LinesTo(i) : \A k \in LinesTo(i) : k <= j
  BY <1>1, <1>2, Greatest
<1>6. BeginOf(i) \in LinesTo(i) /\ \A k \in LinesTo(i) : k <= BeginOf(i)
  BY <1>5 DEF BeginOf
<1>7. EditorPosition(i) = [line |-> Cardinality(LinesTo(i)) - 1,
                           character |-> UnitsBefore(i) - UnitsBefore(BeginOf(i) + 1)]
  BY DEF EditorPosition, LinesTo, BeginOf
<1> QED  BY <1>2, <1>3, <1>4, <1>6, <1>7

\* The editor's positions are moved by each character alike.
LEMMA EditorStep ==
    ASSUME text \in Texts
    PROVE  /\ EditorPosition(1) = Anywhere
           /\ \A i \in 1 .. Len(text) : EditorPosition(i + 1) = Moved(EditorPosition(i), text[i])
<1> USE CharactersAre DEF Boundaries
<1>1. EditorPosition(1) = Anywhere
  <2>1. LinesTo(1) = {0} /\ Cardinality({0}) = 1
    <3>1. 1 .. 1 - 1 = {}
      OBVIOUS
    <3> QED  BY <3>1, FS_Singleton DEF LinesTo
  <2>2. BeginOf(1) = 0 /\ EditorPosition(1) = [line |-> Cardinality(LinesTo(1)) - 1,
                           character |-> UnitsBefore(1) - UnitsBefore(BeginOf(1) + 1)]
    BY <2>1, LinesAre
  <2>3. UnitsBefore(0 + 1) = 0 /\ UnitsBefore(1) = 0
    BY UnitsAre
  <2>4. Cardinality(LinesTo(1)) = 1 /\ UnitsBefore(BeginOf(1) + 1) = 0
    BY <2>1, <2>2, <2>3
  <2> QED  BY <2>2, <2>3, <2>4 DEF Anywhere
<1>2. ASSUME NEW i \in 1 .. Len(text) PROVE EditorPosition(i + 1) = Moved(EditorPosition(i), text[i])
  <2>1. PICK next \in Boundaries : next = i + 1 /\ next - 1 = i /\ i \in Boundaries /\ i \in Nat
    OBVIOUS
  <2>2. UnitsBefore(next) = UnitsBefore(i) + text[i].units /\ UnitsBefore(i) \in Nat /\ text[i].units \in Nat
    BY <2>1, UnitsAre
  <2>3. /\ BeginOf(i) + 1 \in Boundaries /\ UnitsBefore(BeginOf(i) + 1) \in Nat
    <3>1. BeginOf(i) \in 0 .. i - 1
      BY <2>1, LinesAre
    <3>2. BeginOf(i) + 1 \in Boundaries
      BY <2>1, <3>1
    <3> QED  BY <3>2, UnitsAre
  <2>4. PICK e : e = EditorPosition(i) /\ e = [line |-> Cardinality(LinesTo(i)) - 1,
                            character |-> UnitsBefore(i) - UnitsBefore(BeginOf(i) + 1)]
    BY <2>1, LinesAre
  <2>5. EditorPosition(next) = [line |-> Cardinality(LinesTo(next)) - 1,
                            character |-> UnitsBefore(next) - UnitsBefore(BeginOf(next) + 1)]
    BY <2>1, LinesAre
  <2>6. CASE text[i].newline
    <3>1. LinesTo(next) = LinesTo(i) \cup {i} /\ i \notin LinesTo(i)
      BY <2>1, <2>6 DEF LinesTo
    <3>2. Cardinality(LinesTo(next)) = Cardinality(LinesTo(i)) + 1 /\ Cardinality(LinesTo(i)) \in Nat
      BY <2>1, <3>1, LinesAre, FS_AddElement
    <3>3. BeginOf(next) = i
      <4>1. /\ BeginOf(next) \in LinesTo(next) /\ \A k \in LinesTo(next) : k <= BeginOf(next)
            /\ LinesTo(next) \subseteq 0 .. i
        BY <2>1, LinesAre
      <4> QED  BY <4>1, <3>1, <2>1
    <3>4. EditorPosition(next) = [line |-> e.line + 1, character |-> 0]
      BY <2>1, <2>2, <2>4, <2>5, <3>2, <3>3
    <3> QED  BY <2>1, <2>4, <2>6, <3>4 DEF Moved
  <2>7. CASE ~text[i].newline
    <3>1. LinesTo(next) = LinesTo(i)
      BY <2>1, <2>7 DEF LinesTo
    <3>2. BeginOf(next) = BeginOf(i)
      BY <3>1 DEF BeginOf
    <3>3. EditorPosition(next) = [line |-> e.line, character |-> e.character + text[i].units]
      BY <2>2, <2>3, <2>4, <2>5, <3>1, <3>2
    <3>4. Moved(e, text[i]) = [line |-> e.line, character |-> e.character + text[i].units]
      BY <2>4, <2>7 DEF Moved
    <3> QED  BY <2>1, <2>4, <3>3, <3>4
  <2> QED  BY <2>6, <2>7
<1> QED  BY <1>1, <1>2

\* So the server and the editor have the same positions.
LEMMA Same ==
    ASSUME text \in Texts, NEW i \in Boundaries
    PROVE  PositionOf(i) = EditorPosition(i) /\ EditorPosition(i) \in Positioned
<1>1. PICK k \in Nat : k = Len(text)
  BY CharactersAre
<1> DEFINE T == {n \in Nat : n <= k => PositionOf(n + 1) = EditorPosition(n + 1)}
<1>2. 0 \in T
  BY PositionsAre, EditorStep
<1>3. ASSUME NEW n \in Nat, n \in T PROVE n + 1 \in T
  <2> SUFFICES ASSUME n + 1 <= k PROVE PositionOf(n + 1 + 1) = EditorPosition(n + 1 + 1)
    OBVIOUS
  <2>1. PICK m \in 1 .. k : m = n + 1
    OBVIOUS
  <2>2. PositionOf(m) = EditorPosition(m)
    BY <2>1, <1>3
  <2>3. PositionOf(m + 1) = EditorPosition(m + 1)
    BY <2>2, <1>1, PositionsAre, EditorStep
  <2> QED  BY <2>1, <2>3
<1> HIDE DEF T
<1>4. Nat \subseteq T
  BY <1>2, <1>3, Induction
<1>5. PICK n \in Nat : n <= k /\ n + 1 = i
  <2>1. i - 1 \in Nat /\ i - 1 + 1 = i /\ i - 1 <= k
    BY <1>1 DEF Boundaries
  <2> QED  BY <2>1
<1>6. PositionOf(i) = EditorPosition(i)
  BY <1>4, <1>5 DEF T
<1> QED  BY <1>6, PositionsAre

\* The positions of the characters ascend, and a line ends with its newline.
Ahead(i, j) == /\ EditorPosition(i).line <= EditorPosition(j).line
               /\ EditorPosition(i).line = EditorPosition(j).line =>
                     ~text[i].newline /\ EditorPosition(i).character < EditorPosition(j).character

LEMMA PositionsAscend ==
    ASSUME text \in Texts, NEW i \in Boundaries, NEW j \in Boundaries, i < j
    PROVE  Ahead(i, j)
<1>1. PICK k \in Nat : k = Len(text)
  BY CharactersAre
<1>2. i \in Nat /\ j \in Nat /\ i \in 1 .. k /\ j <= k + 1
  BY <1>1 DEF Boundaries
<1>3. ASSUME NEW n \in 1 .. k
      PROVE  /\ EditorPosition(n) \in Positioned /\ EditorPosition(n + 1) \in Positioned
             /\ EditorPosition(n + 1) = Moved(EditorPosition(n), text[n])
             /\ text[n].units \in Nat \ {0} /\ text[n].newline \in BOOLEAN
  BY <1>1, Same, EditorStep, CharactersAre DEF Boundaries
<1>4. ASSUME NEW n \in 1 .. k PROVE Ahead(n, n + 1)
  <2>1. PICK p \in Positioned : p = EditorPosition(n)
    BY <1>3
  <2>2. PICK q : q = EditorPosition(n + 1) /\ q = Moved(p, text[n])
    BY <1>3, <2>1
  <2>3. CASE text[n].newline
    <3>1. q = [line |-> p.line + 1, character |-> 0]
      BY <2>2, <2>3 DEF Moved
    <3> QED  BY <2>1, <2>2, <3>1 DEF Ahead, Positioned
  <2>4. CASE ~text[n].newline
    <3>1. q = [p EXCEPT !.character = p.character + text[n].units]
      BY <2>2, <2>4 DEF Moved
    <3>2. q.line = p.line /\ q.character = p.character + text[n].units /\ p.line \in Nat /\ p.character \in Nat
      BY <2>1, <3>1 DEF Positioned
    <3>3. p.character < q.character
      BY <3>2, <1>3
    <3> QED  BY <2>1, <2>2, <2>4, <3>2, <3>3 DEF Ahead
  <2> QED  BY <2>3, <2>4
<1> DEFINE T == {m \in Nat : i < m /\ m <= k + 1 => Ahead(i, m)}
<1>5. 0 \in T
  BY <1>2
<1>6. ASSUME NEW m \in Nat, m \in T PROVE m + 1 \in T
  <2> SUFFICES ASSUME i < m + 1, m + 1 <= k + 1 PROVE Ahead(i, m + 1)
    BY <1>2
  <2>1. m \in 1 .. k /\ (i = m \/ Ahead(i, m))
    BY <1>2, <1>6
  <2>2. CASE i = m
    BY <2>1, <2>2, <1>4
  <2>3. CASE Ahead(i, m)
    <3>1. Ahead(m, m + 1)
      BY <2>1, <1>4
    <3>2. EditorPosition(i) \in Positioned /\ EditorPosition(m) \in Positioned /\ EditorPosition(m + 1) \in Positioned
      BY <2>1, <1>2, <1>3
    <3> QED  BY <2>3, <3>1, <3>2 DEF Ahead, Positioned
  <2> QED  BY <2>1, <2>2, <2>3
<1> HIDE DEF T
<1>7. Nat \subseteq T
  BY <1>5, <1>6, Induction
<1> QED  BY <1>2, <1>7 DEF T
-----------------------------------------------------------------------------
(* The two conversions. *)

\* Reached, by the editor's positions.
LEMMA ReachedIs ==
    ASSUME text \in Texts, NEW p \in Positioned, NEW i \in Boundaries
    PROVE  Reached(p, i) <=> /\ EditorPosition(i).line = p.line
                             /\ \/ EditorPosition(i).character >= p.character
                                \/ i <= Len(text) /\ text[i].newline
BY Same DEF Reached

\* The first character reached is the offset's.
LEMMA FirstReached ==
    ASSUME text \in Texts, NEW p \in Positioned, NEW c \in Boundaries,
           Reached(p, c), \A j \in 1 .. c - 1 : ~Reached(p, j)
    PROVE  ToOffset(p) = BytesBefore(c)
<1> DEFINE First(i) == Reached(p, i) /\ \A j \in 1 .. i - 1 : ~Reached(p, j)
           F == CHOOSE i \in Boundaries : First(i)
<1>1. F \in Boundaries /\ First(F)
  <2>1. \E i \in Boundaries : First(i)
    OBVIOUS
  <2> QED  BY <2>1
<1>2. ToOffset(p) = BytesBefore(F)
  BY DEF ToOffset
<1> HIDE DEF F
<1>3. c \in Nat /\ F \in Nat /\ c >= 1 /\ F >= 1
  BY <1>1, CharactersAre DEF Boundaries
<1>4. ~(F < c)
  <2> SUFFICES ASSUME F < c PROVE FALSE
    OBVIOUS
  <2>1. F \in 1 .. c - 1
    BY <1>3
  <2> QED  BY <2>1, <1>1
<1>5. ~(c < F)
  <2> SUFFICES ASSUME c < F PROVE FALSE
    OBVIOUS
  <2>1. c \in 1 .. F - 1
    BY <1>3
  <2> QED  BY <2>1, <1>1
<1>6. F = c
  BY <1>3, <1>4, <1>5
<1> QED  BY <1>2, <1>6

\* What is at a character is shown there and found there.
LEMMA Shown ==
    ASSUME text \in Texts, NEW end \in Boundaries
    PROVE  /\ ToPosition(BytesBefore(end)) = EditorPosition(end)
           /\ ToOffset(EditorPosition(end)) = BytesBefore(end)
<1>1. Len(text) \in Nat /\ end \in Nat /\ end >= 1 /\ end <= Len(text) + 1
  BY CharactersAre DEF Boundaries
<1>2. ToPosition(BytesBefore(end)) = EditorPosition(end)
  <2> DEFINE At(i) == /\ BytesBefore(i) >= BytesBefore(end) \/ i = Len(text) + 1
                      /\ \A j \in 1 .. i - 1 : BytesBefore(j) < BytesBefore(end)
             P == CHOOSE i \in Boundaries : At(i)
  <2>1. At(end)
    <3>1. BytesBefore(end) \in Nat
      BY BytesAre
    <3>2. ASSUME NEW j \in 1 .. end - 1 PROVE BytesBefore(j) < BytesBefore(end)
      <4>1. j \in Boundaries /\ j < end
        BY <1>1 DEF Boundaries
      <4> QED  BY <4>1, BytesAre
    <3> QED  BY <3>1, <3>2
  <2>2. P \in Boundaries /\ At(P)
    <3>1. \E i \in Boundaries : At(i)
      BY <2>1
    <3> QED  BY <3>1
  <2>3. ToPosition(BytesBefore(end)) = PositionOf(P)
    BY DEF ToPosition
  <2> HIDE DEF P
  <2>4. P \in Nat /\ P >= 1 /\ P <= Len(text) + 1
    BY <1>1, <2>2 DEF Boundaries
  <2>5. ~(P < end)
    <3> SUFFICES ASSUME P < end PROVE FALSE
      OBVIOUS
    <3>1. BytesBefore(P) < BytesBefore(end) /\ BytesBefore(P) \in Nat /\ BytesBefore(end) \in Nat
      BY <2>2, BytesAre
    <3>2. BytesBefore(P) >= BytesBefore(end) \/ P = Len(text) + 1
      BY <2>2
    <3> QED  BY <3>1, <3>2, <1>1, <2>4
  <2>6. ~(end < P)
    <3> SUFFICES ASSUME end < P PROVE FALSE
      OBVIOUS
    <3>1. end \in 1 .. P - 1 /\ BytesBefore(end) \in Nat
      BY <1>1, <2>4, BytesAre
    <3>2. BytesBefore(end) < BytesBefore(end)
      BY <3>1, <2>2
    <3> QED  BY <3>1, <3>2
  <2>7. P = end
    BY <1>1, <2>4, <2>5, <2>6
  <2> QED  BY <2>3, <2>7, Same
<1>3. ToOffset(EditorPosition(end)) = BytesBefore(end)
  <2>1. PICK p \in Positioned : p = EditorPosition(end)
    BY Same
  <2>2. p.line \in Nat /\ p.character \in Nat
    BY <2>1 DEF Positioned
  <2>3. Reached(p, end)
    BY <2>1, <2>2, ReachedIs
  <2>4. ASSUME NEW j \in 1 .. end - 1 PROVE ~Reached(p, j)
    <3>1. j \in Boundaries /\ j < end
      BY <1>1 DEF Boundaries
    <3>2. Ahead(j, end) /\ EditorPosition(j) \in Positioned
      BY <3>1, PositionsAscend, Same
    <3> QED  BY <2>1, <2>2, <3>1, <3>2, ReachedIs DEF Ahead, Positioned
  <2> QED  BY <2>1, <2>3, <2>4, FirstReached
<1> QED  BY <1>2, <1>3

\* A position is taken for the character it is at, or for none past the end.
LEMMA OffsetOfPlace ==
    ASSUME text \in Texts, NEW p \in Positioned
    PROVE  IF PastTheEnd(p) THEN ToOffset(p) = None
           ELSE CharacterAt(p) \in Boundaries /\ ToOffset(p) = BytesBefore(CharacterAt(p))
<1>1. PICK k \in Nat : k = Len(text)
  BY CharactersAre
<1>2. p.line \in Nat /\ p.character \in Nat
  BY DEF Positioned
<1>3. PICK L : L = InLine(p.line)
  OBVIOUS
<1>4. \A i : i \in L <=> i \in 1 .. k + 1 /\ EditorPosition(i).line = p.line
  BY <1>1, <1>3 DEF InLine, Boundaries
<1>5. ASSUME NEW i \in 1 .. k + 1 PROVE i \in Boundaries /\ EditorPosition(i).character \in Nat
  BY <1>1, Same DEF Boundaries, Positioned
<1>6. ASSUME NEW i \in L, NEW j \in L, i < j
      PROVE  ~text[i].newline /\ EditorPosition(i).character < EditorPosition(j).character
  BY <1>4, <1>5, <1>6, PositionsAscend DEF Ahead
<1>7. ASSUME NEW i \in Boundaries
      PROVE  Reached(p, i) <=> i \in L /\ (EditorPosition(i).character >= p.character \/ (i <= k /\ text[i].newline))
  BY <1>1, <1>4, ReachedIs DEF Boundaries
<1>8. PastTheEnd(p) <=> L = {} \/ (k + 1 \in L /\ p.character > EditorPosition(k + 1).character)
  BY <1>1, <1>3 DEF PastTheEnd
<1>9. CASE L = {}
  BY <1>7, <1>8, <1>9 DEF ToOffset
<1> DEFINE near == {i \in L : EditorPosition(i).character >= p.character}
<1>10. CASE near # {}
  <2>1. PICK c : c = CharacterAt(p)
    OBVIOUS
  <2>2. c = CHOOSE i \in near : \A j \in near : i <= j
    BY <2>1, <1>3, <1>10 DEF CharacterAt
  <2>3. \E i \in near : \A j \in near : i <= j
    <3>1. near \subseteq Nat
      BY <1>4
    <3> QED  BY <3>1, <1>10, Least
  <2>4. c \in near /\ \A j \in near : c <= j
    BY <2>2, <2>3
  <2>5. c \in L /\ c \in 1 .. k + 1 /\ c \in Boundaries /\ EditorPosition(c).character >= p.character
    BY <2>4, <1>4, <1>5
  <2>6. Reached(p, c)
    BY <2>5, <1>7
  <2>7. ASSUME NEW j \in 1 .. c - 1 PROVE ~Reached(p, j)
    <3>1. j \in 1 .. k + 1 /\ j < c /\ j \in Boundaries
      BY <2>5, <1>5
    <3> SUFFICES ASSUME j \in L PROVE EditorPosition(j).character < p.character /\ ~text[j].newline
      BY <3>1, <1>2, <1>5, <1>7
    <3>2. j \notin near
      BY <2>4, <2>5, <3>1
    <3> QED  BY <2>5, <3>1, <3>2, <1>2, <1>5, <1>6
  <2>8. ToOffset(p) = BytesBefore(c)
    BY <2>5, <2>6, <2>7, FirstReached
  <2>9. ~PastTheEnd(p)
    <3> SUFFICES ASSUME k + 1 \in L, p.character > EditorPosition(k + 1).character PROVE FALSE
      BY <2>5, <1>8
    <3>1. EditorPosition(c).character \in Nat /\ EditorPosition(k + 1).character \in Nat
      BY <2>5, <1>5
    <3>2. c = k + 1 \/ EditorPosition(c).character < EditorPosition(k + 1).character
      BY <2>5, <1>6
    <3> QED  BY <3>1, <3>2, <2>5, <1>2
  <2> QED  BY <2>1, <2>5, <2>8, <2>9
<1>11. CASE L # {} /\ near = {}
  <2>1. ASSUME NEW i \in L PROVE EditorPosition(i).character < p.character
    BY <1>2, <1>4, <1>5, <1>11
  <2>2. PICK c : c = CharacterAt(p)
    OBVIOUS
  <2>3. c = CHOOSE i \in L : \A j \in L : j <= i
    BY <2>2, <1>3, <1>11 DEF CharacterAt
  <2>4. \E i \in L : \A j \in L : j <= i
    <3>1. L \subseteq 0 .. k + 1 /\ k + 1 \in Nat
      BY <1>4
    <3> QED  BY <3>1, <1>11, Greatest
  <2>5. c \in L /\ c \in 1 .. k + 1 /\ c \in Boundaries /\ \A j \in L : j <= c
    BY <2>3, <2>4, <1>4, <1>5
  <2>6. CASE c = k + 1
    <3>1. PastTheEnd(p)
      BY <2>1, <2>5, <2>6, <1>2, <1>5, <1>8
    <3>2. ASSUME NEW i \in Boundaries PROVE ~Reached(p, i)
      <4> SUFFICES ASSUME i \in L, i <= k PROVE ~text[i].newline
        BY <2>1, <1>2, <1>4, <1>5, <1>7
      <4>1. i < k + 1
        BY <1>4
      <4> QED  BY <4>1, <2>5, <2>6, <1>6
    <3>3. ToOffset(p) = None
      BY <3>2 DEF ToOffset
    <3> QED  BY <3>1, <3>3
  <2>7. CASE c <= k
    <3>1. k + 1 \notin L
      BY <2>5, <2>7
    <3>2. ~PastTheEnd(p)
      BY <3>1, <1>8, <1>11
    <3>3. text[c].newline
      <4> SUFFICES ASSUME ~text[c].newline PROVE FALSE
        OBVIOUS
      <4>1. PICK next \in 1 .. k + 1 : next = c + 1
        BY <2>5, <2>7
      <4>2. c \in 1 .. k
        BY <2>5, <2>7
      <4>3. EditorPosition(next) = [EditorPosition(c) EXCEPT !.character = @ + text[c].units]
        BY <4>1, <4>2, <1>1, EditorStep DEF Moved
      <4>4. EditorPosition(c) \in Positioned
        BY <2>5, Same
      <4>5. EditorPosition(next).line = EditorPosition(c).line
        BY <4>3, <4>4 DEF Positioned
      <4>6. next \in L
        BY <4>1, <4>5, <2>5, <1>4
      <4> QED  BY <4>1, <4>6, <2>5
    <3>4. Reached(p, c)
      BY <2>5, <2>7, <3>3, <1>7
    <3>5. ASSUME NEW j \in 1 .. c - 1 PROVE ~Reached(p, j)
      <4>1. j \in 1 .. k + 1 /\ j < c /\ j \in Boundaries
        BY <2>5, <1>5
      <4> SUFFICES ASSUME j \in L PROVE EditorPosition(j).character < p.character /\ ~text[j].newline
        BY <4>1, <1>2, <1>5, <1>7
      <4> QED  BY <4>1, <2>1, <2>5, <1>6
    <3>6. ToOffset(p) = BytesBefore(c)
      BY <2>5, <3>4, <3>5, FirstReached
    <3> QED  BY <2>2, <2>5, <3>2, <3>6
  <2> QED  BY <2>5, <2>6, <2>7
<1> QED  BY <1>9, <1>10, <1>11
-----------------------------------------------------------------------------
(* A hover. *)

\* Two nodes are inside each other or apart, the one walked later not around the other.
DocumentOK ==
    /\ text \in Texts
    /\ nodes \in Seq([from : Boundaries, to : Boundaries])
    /\ \A i \in 1..Len(nodes) : nodes[i].from <= nodes[i].to
    /\ \A i, j \in 1..Len(nodes) : i < j => Inside(nodes[j], nodes[i]) \/ Apart(nodes[i], nodes[j])

\* What a hover has to be told at a position.
Innermost(f, p) ==
    LET around == IF PastTheEnd(p) THEN {}
                  ELSE {i \in 1..Len(nodes) : Encloses(nodes[i], CharacterAt(p))}
    IN IF around = {} THEN f = None
       ELSE /\ f \in around
            /\ \A i \in around : /\ Inside(nodes[f], nodes[i])
                                 /\ nodes[i] = nodes[f] => i <= f

\* Nodes are between characters.
LEMMA NodesAre ==
    ASSUME DocumentOK, NEW i \in 1..Len(nodes)
    PROVE  /\ nodes[i].from \in Boundaries /\ nodes[i].to \in Boundaries
           /\ nodes[i].from \in Nat /\ nodes[i].to \in Nat /\ nodes[i].from <= nodes[i].to
           /\ BytesBefore(nodes[i].from) \in Nat /\ BytesBefore(nodes[i].to) \in Nat
<1>1. PICK Spans : Spans = [from : Boundaries, to : Boundaries]
  OBVIOUS
<1>2. nodes \in Seq(Spans) /\ text \in Texts /\ nodes[i].from <= nodes[i].to
  BY <1>1 DEF DocumentOK
<1>3. nodes[i] \in Spans
  BY <1>2
<1>4. nodes[i].from \in Boundaries /\ nodes[i].to \in Boundaries
  BY <1>1, <1>3
<1>5. \A b \in Boundaries : b \in Nat /\ BytesBefore(b) \in Nat
  BY <1>2, BytesAre, CharactersAre DEF Boundaries
<1> QED  BY <1>2, <1>4, <1>5

\* Characters compare as the bytes before them do.
LEMMA BytesCompare ==
    ASSUME text \in Texts, NEW i \in Boundaries, NEW j \in Boundaries
    PROVE  /\ BytesBefore(i) <= BytesBefore(j) <=> i <= j
           /\ BytesBefore(i) < BytesBefore(j) <=> i < j
           /\ BytesBefore(i) = BytesBefore(j) <=> i = j
<1>1. i \in Nat /\ j \in Nat /\ BytesBefore(i) \in Nat /\ BytesBefore(j) \in Nat
  BY BytesAre, CharactersAre DEF Boundaries
<1>2. /\ i < j => BytesBefore(i) < BytesBefore(j)
      /\ j < i => BytesBefore(j) < BytesBefore(i)
  BY BytesAre
<1> QED  BY <1>1, <1>2

\* A span is around an offset where its node encloses the character.
LEMMA AroundIs ==
    ASSUME DocumentOK, NEW i \in 1..Len(nodes), NEW c \in Boundaries
    PROVE  Around(SpanOf(nodes[i]), BytesBefore(c)) <=> Encloses(nodes[i], c)
<1>1. text \in Texts /\ nodes[i].from \in Boundaries /\ nodes[i].to \in Boundaries
  BY NodesAre DEF DocumentOK
<1>2. /\ BytesBefore(nodes[i].from) = BytesBefore(nodes[i].to) <=> nodes[i].from = nodes[i].to
      /\ BytesBefore(nodes[i].from) = BytesBefore(c) <=> nodes[i].from = c
      /\ BytesBefore(nodes[i].from) <= BytesBefore(c) <=> nodes[i].from <= c
      /\ BytesBefore(c) < BytesBefore(nodes[i].to) <=> c < nodes[i].to
  BY <1>1, BytesCompare
<1> QED  BY <1>2 DEF Around, SpanOf, Encloses

\* Of two nodes around a character one is inside the other.
LEMMA OneInside ==
    ASSUME DocumentOK, NEW i \in 1..Len(nodes), NEW j \in 1..Len(nodes), NEW c \in Boundaries,
           Encloses(nodes[i], c), Encloses(nodes[j], c)
    PROVE  Inside(nodes[i], nodes[j]) \/ Inside(nodes[j], nodes[i])
<1>1. \A m, n : Apart(m, n) => Apart(n, m)
  BY DEF Apart
<1>2. \/ Inside(nodes[i], nodes[j]) \/ Inside(nodes[j], nodes[i])
      \/ Apart(nodes[i], nodes[j]) \/ i = j
  <2>1. i \in Int /\ j \in Int
    OBVIOUS
  <2>2. i < j \/ j < i \/ i = j
    BY <2>1
  <2> QED  BY <2>2, <1>1 DEF DocumentOK
<1>3. c \in Nat
  BY CharactersAre DEF DocumentOK, Boundaries
<1>4. /\ nodes[i].from \in Nat /\ nodes[i].to \in Nat /\ nodes[i].from <= nodes[i].to
      /\ nodes[j].from \in Nat /\ nodes[j].to \in Nat /\ nodes[j].from <= nodes[j].to
  BY NodesAre
<1>5. CASE i = j
  BY <1>4, <1>5 DEF Inside
<1>6. CASE Apart(nodes[i], nodes[j])
  BY <1>3, <1>4, <1>6 DEF Apart, Inside, Encloses
<1> QED  BY <1>2, <1>5, <1>6

\* The last of the nodes with a span is one of them.
LEMMA LastIs ==
    ASSUME NEW spans, Len(nodes) \in Nat, NEW s, \E i \in 1..Len(nodes) : spans[i] = s
    PROVE  /\ LastOf(spans, s) \in 1..Len(nodes) /\ spans[LastOf(spans, s)] = s
           /\ \A i \in 1..Len(nodes) : spans[i] = s => i <= LastOf(spans, s)
<1> DEFINE T == {i \in 1..Len(nodes) : spans[i] = s}
           Last(i) == spans[i] = s /\ \A j \in i + 1 .. Len(nodes) : spans[j] # s
<1>1. PICK x \in T : \A y \in T : y <= x
  <2>1. T \subseteq 0..Len(nodes) /\ T # {}
    OBVIOUS
  <2> HIDE DEF T
  <2> QED  BY <2>1, Greatest
<1>2. x \in 1..Len(nodes) /\ Last(x)
  BY <1>1
<1>3. PICK z : z = LastOf(spans, s)
  OBVIOUS
<1>4. z = CHOOSE i \in 1..Len(nodes) : Last(i)
  BY <1>3 DEF LastOf
<1>5. z \in 1..Len(nodes) /\ Last(z)
  BY <1>2, <1>4
<1>6. ASSUME NEW i \in 1..Len(nodes), spans[i] = s PROVE i <= z
  <2>1. i \notin z + 1 .. Len(nodes)
    BY <1>5, <1>6
  <2> QED  BY <2>1, <1>5
<1> QED  BY <1>3, <1>5, <1>6

\* A hover finds the innermost node.
LEMMA HoverFinds ==
    ASSUME DocumentOK, NEW p \in Positioned, HoverAt(p)
    PROVE  Innermost(found', p)
<1>1. text \in Texts /\ Len(nodes) \in Nat
  BY DEF DocumentOK
<1>2. PICK offset : offset = ToOffset(p)
  OBVIOUS
<1>3. PICK spans : spans = [i \in 1..Len(nodes) |-> SpanOf(nodes[i])]
  OBVIOUS
<1> DEFINE around == {s \in {spans[i] : i \in 1..Len(nodes)} : Around(s, offset)}
           smallest == {s \in around : \A r \in around : s.end - s.start <= r.end - r.start}
<1>4. IF offset = None \/ around = {} THEN found' = None
      ELSE \E s \in smallest : found' = LastOf(spans, s)
  BY <1>2, <1>3 DEF HoverAt
<1>5. CASE PastTheEnd(p)
  BY <1>1, <1>2, <1>4, <1>5, OffsetOfPlace DEF Innermost
<1>6. CASE ~PastTheEnd(p)
  <2>1. PICK c \in Boundaries : c = CharacterAt(p) /\ offset = BytesBefore(c)
    BY <1>1, <1>2, <1>6, OffsetOfPlace
  <2>2. offset # None
    BY <2>1, <1>1, BytesAre DEF None
  <2>3. ASSUME NEW i \in 1..Len(nodes)
        PROVE  spans[i] = SpanOf(nodes[i]) /\ (Around(spans[i], offset) <=> Encloses(nodes[i], c))
    BY <2>1, <1>3, AroundIs
  <2>4. \A i \in 1..Len(nodes) : Encloses(nodes[i], c) <=> spans[i] \in around
    BY <2>3
  <2>5. CASE around = {}
    <3>1. found' = None
      BY <2>5, <1>4
    <3>2. {i \in 1..Len(nodes) : Encloses(nodes[i], c)} = {}
      BY <2>4, <2>5
    <3> QED  BY <3>1, <3>2, <2>1, <1>6 DEF Innermost
  <2>6. CASE around # {}
    <3>1. PICK s \in smallest : found' = LastOf(spans, s)
      BY <2>2, <2>6, <1>4
    <3>2. \E i \in 1..Len(nodes) : spans[i] = s
      OBVIOUS
    <3>3. PICK f \in 1..Len(nodes) : /\ f = found' /\ spans[f] = s
                                     /\ \A i \in 1..Len(nodes) : spans[i] = s => i <= f
      BY <3>1, <3>2, <1>1, LastIs
    <3>4. Encloses(nodes[f], c)
      BY <3>3, <2>4
    <3>5. ASSUME NEW i \in 1..Len(nodes), Encloses(nodes[i], c)
          PROVE  Inside(nodes[f], nodes[i]) /\ (nodes[i] = nodes[f] => i <= f)
      <4>1. spans[f].end - spans[f].start <= spans[i].end - spans[i].start
        <5>1. spans[i] \in around
          BY <3>5, <2>4
        <5> QED  BY <5>1, <3>1, <3>3
      <4>2. /\ spans[f].end = BytesBefore(nodes[f].to) /\ spans[f].start = BytesBefore(nodes[f].from)
            /\ spans[i].end = BytesBefore(nodes[i].to) /\ spans[i].start = BytesBefore(nodes[i].from)
        <5>1. \A n : SpanOf(n).end = BytesBefore(n.to) /\ SpanOf(n).start = BytesBefore(n.from)
          BY DEF SpanOf
        <5>2. spans[f] = SpanOf(nodes[f]) /\ spans[i] = SpanOf(nodes[i])
          BY <2>3
        <5> QED  BY <5>1, <5>2
      <4>3. nodes[i] = nodes[f] => i <= f
        BY <2>3, <3>3
      <4>4. CASE Inside(nodes[i], nodes[f])
        <5>1. /\ BytesBefore(nodes[i].to) <= BytesBefore(nodes[f].to)
              /\ BytesBefore(nodes[f].from) <= BytesBefore(nodes[i].from)
          BY <4>4, <1>1, NodesAre, BytesCompare DEF Inside
        <5>2. /\ BytesBefore(nodes[i].to) = BytesBefore(nodes[f].to)
              /\ BytesBefore(nodes[f].from) = BytesBefore(nodes[i].from)
          <6>1. /\ BytesBefore(nodes[f].to) - BytesBefore(nodes[f].from)
                     <= BytesBefore(nodes[i].to) - BytesBefore(nodes[i].from)
            BY <4>1, <4>2
          <6>2. /\ BytesBefore(nodes[f].to) \in Nat /\ BytesBefore(nodes[f].from) \in Nat
                /\ BytesBefore(nodes[i].to) \in Nat /\ BytesBefore(nodes[i].from) \in Nat
            BY NodesAre
          <6> QED  BY <6>1, <6>2, <5>1
        <5>3. nodes[i].to = nodes[f].to /\ nodes[f].from = nodes[i].from
          BY <5>2, <1>1, NodesAre, BytesCompare
        <5> QED  BY SMTT(30), <5>3, <4>3, NodesAre DEF Inside
      <4> QED  BY <4>3, <4>4, <3>4, <3>5, OneInside
    <3>6. f \in {i \in 1..Len(nodes) : Encloses(nodes[i], c)}
      BY <3>4
    <3> QED  BY <3>3, <3>5, <3>6, <2>1, <1>6 DEF Innermost
  <2> QED  BY <2>5, <2>6
<1> QED  BY <1>5, <1>6

\* What has been found stays right as long as the document and the place are the same.
LEMMA SameFinding ==
    ASSUME text' = text, nodes' = nodes, NEW p, place' = p,
           found' # NotAsked => Innermost(found', p)
    PROVE  FindsInnermost'
<1>1. PastTheEnd(place)' = PastTheEnd(p)
  BY DEF PastTheEnd, InLine, EditorPosition, UnitsBefore, SumBefore, Boundaries
<1>2. CharacterAt(place)' = CharacterAt(p)
  BY DEF CharacterAt, InLine, EditorPosition, UnitsBefore, SumBefore, Boundaries
<1> QED  BY <1>1, <1>2 DEF FindsInnermost, Innermost, Encloses, Inside, None, NotAsked

PositionsInv == DocumentOK /\ ShownWhereItIs /\ FindsInnermost

\* ShownWhereItIs holds of every document.
LEMMA DocumentsShown ==
    ASSUME DocumentOK
    PROVE  ShownWhereItIs
BY NodesAre, Shown DEF DocumentOK, ShownWhereItIs

\* The document is as it was opened, and with it what is shown and what a hover has found.
THEOREM PositionsInductive == PositionsSpec => []PositionsInv
<1>1. PositionsInit => PositionsInv
  <2> SUFFICES ASSUME PositionsInit PROVE PositionsInv
    OBVIOUS
  <2>1. text \in Texts
    BY PositionsAssumption DEF PositionsInit, Texts
  <2>2. DocumentOK
    <3>1. PICK k \in 0..MaxNodes :
             /\ nodes \in [1..k -> {n \in [from : Boundaries, to : Boundaries] : n.from <= n.to}]
             /\ \A i, j \in 1..k : i < j => Inside(nodes[j], nodes[i]) \/ Apart(nodes[i], nodes[j])
      BY DEF PositionsInit
    <3>2. k \in Nat
      BY PositionsAssumption
    <3>3. nodes \in [1..k -> [from : Boundaries, to : Boundaries]] /\ \A i \in 1..k : nodes[i].from <= nodes[i].to
      BY <3>1
    <3>4. nodes \in Seq([from : Boundaries, to : Boundaries]) /\ Len(nodes) = k
      <4>1. PICK Spans : Spans = [from : Boundaries, to : Boundaries]
        OBVIOUS
      <4>2. nodes \in [1..k -> Spans]
        BY <4>1, <3>3
      <4>3. nodes \in Seq(Spans) /\ Len(nodes) = k
        BY <4>2, <3>2
      <4> QED  BY <4>1, <4>3
    <3> QED  BY <2>1, <3>1, <3>3, <3>4 DEF DocumentOK
  <2>3. FindsInnermost
    BY DEF PositionsInit, FindsInnermost
  <2> QED  BY <2>2, <2>3, DocumentsShown DEF PositionsInv
<1>2. PositionsInv /\ [PositionsNext]_positionVars => PositionsInv'
  <2> SUFFICES ASSUME PositionsInv, [PositionsNext]_positionVars PROVE PositionsInv'
    OBVIOUS
  <2>1. text' = text /\ nodes' = nodes
    BY DEF PositionsNext, HoverAt, positionVars
  <2>2. DocumentOK'
    BY <2>1 DEF PositionsInv, DocumentOK, Boundaries, Texts, Inside, Apart
  <2>3. ShownWhereItIs'
    BY <2>2, DocumentsShown, PTL
  <2>4. FindsInnermost'
    <3>1. CASE UNCHANGED positionVars
      <4>1. found # NotAsked => Innermost(found, place)
        BY DEF PositionsInv, FindsInnermost, Innermost
      <4> QED  BY <4>1, <3>1, SameFinding DEF positionVars, NotAsked
    <3>2. CASE PositionsNext
      <4>1. PICK p \in Places : HoverAt(p)
        BY <3>2 DEF PositionsNext
      <4>2. p \in Positioned
        BY PositionsAssumption DEF Places, Positioned
      <4>3. Innermost(found', p)
        BY <4>1, <4>2, HoverFinds DEF PositionsInv
      <4> QED  BY <4>1, <4>3, <2>1, SameFinding DEF HoverAt
    <3> QED  BY <3>1, <3>2
  <2> QED  BY <2>2, <2>3, <2>4 DEF PositionsInv
<1> QED  BY <1>1, <1>2, PTL DEF PositionsSpec

\* An error is shown where the editor has its characters, and the editor's position is
\* taken for the same place in the program.
THEOREM PlacesAgree == PositionsSpec => []ShownWhereItIs
<1>1. PositionsInv => ShownWhereItIs
  BY DEF PositionsInv
<1> QED  BY <1>1, PositionsInductive, PTL

\* A hover is told of the innermost node around its character.
THEOREM HoversFind == PositionsSpec => []FindsInnermost
<1>1. PositionsInv => FindsInnermost
  BY DEF PositionsInv
<1> QED  BY <1>1, PositionsInductive, PTL
=============================================================================
