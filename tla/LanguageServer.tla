--------------------------- MODULE LanguageServer ---------------------------
(***************************************************************************)
(* The language server between its editor and its documents                *)
(* (pipe-lang-lsp/src/lib.rs): texts come in whole, each is analysed,      *)
(* stored with its types and its errors published, and hovers are answered *)
(* from what is stored.                                                    *)
(*                                                                         *)
(* The framework and the runtime are external.  Several handlers are under *)
(* way at once, on one task; they start in the order of their messages and *)
(* run until they wait: for the lock, which is handed out in the order of  *)
(* the calls, and for their publication to be taken.  A text is known by   *)
(* its version, which the server never sees.                               *)
(***************************************************************************)
EXTENDS Integers, Sequences

CONSTANTS Uris,          \* the documents
          InFlight,      \* handlers under way at once
          MaxSent,       \* bound: messages of the editor for each document
          Refused        \* the versions of texts with an error

ASSUME ServerAssumption == InFlight \in Nat \ {0} /\ MaxSent \in Nat /\ Refused \subseteq Nat

VARIABLES sent,          \* by document, the version the editor sent last
          asked,         \* by document, its messages without a text
          queue,         \* messages without an answer, in the order sent
          started,       \* how many of them have a handler, which waits for the lock
          documents,     \* what is stored: the versions of source and types
          outbox,        \* publications under way to the editor
          shown,         \* by document, the version whose errors the editor shows
          hover          \* the last answer to a hover

editorVars == <<sent, asked>>
serverVars == <<sent, asked, queue, started, documents, outbox, shown, hover>>

\* A text is a version, a hover the version sent last.
Text(u, v) == [method |-> "text", uri |-> u, version |-> v]
Hover(u, v) == [method |-> "hover", uri |-> u, version |-> v]
Unchanged(u) == [method |-> "empty", uri |-> u, version |-> 0]
NoHover == [uri |-> "none", version |-> 0, source |-> 0, types |-> 0]

\* Nothing is stored at first: version 0, whose types are version 0, too.
ServerInit ==
    /\ sent = [u \in Uris |-> 0] /\ asked = [u \in Uris |-> 0]
    /\ queue = <<>> /\ started = 0
    /\ documents = [u \in Uris |-> [source |-> 0, types |-> 0]]
    /\ outbox = <<>> /\ shown = [u \in Uris |-> 0]
    /\ hover = NoHover
-----------------------------------------------------------------------------
(* The editor. *)

\* didOpen, and didChange with the whole text.
Edit(u) ==
    /\ sent[u] + asked[u] < MaxSent
    /\ sent' = [sent EXCEPT ![u] = @ + 1]
    /\ queue' = Append(queue, Text(u, sent[u] + 1))
    /\ UNCHANGED <<asked, started, documents, outbox, shown, hover>>

\* A hover, or a change that has no text.
Ask(u) ==
    /\ sent[u] + asked[u] < MaxSent
    /\ asked' = [asked EXCEPT ![u] = @ + 1]
    /\ \E m \in {Hover(u, sent[u]), Unchanged(u)} : queue' = Append(queue, m)
    /\ UNCHANGED <<sent, started, documents, outbox, shown, hover>>

Show ==
    /\ outbox # <<>>
    /\ shown' = [shown EXCEPT ![Head(outbox).uri] = Head(outbox).version]
    /\ outbox' = Tail(outbox)
    /\ UNCHANGED <<sent, asked, queue, started, documents, hover>>
-----------------------------------------------------------------------------
(* The server. *)

\* A handler starts: a text is analysed, then it waits for the lock.  It keeps
\* its place until its publication is taken.
Start ==
    /\ started < Len(queue) /\ started + Len(outbox) < InFlight
    /\ started' = started + 1
    /\ UNCHANGED <<sent, asked, queue, documents, outbox, shown, hover>>

\* The lock goes to the handler that called for it first.
HasLock(i) == i = 1 /\ started > 0

Without(s, i) == [j \in 1 .. Len(s) - 1 |-> IF j < i THEN s[j] ELSE s[j + 1]]
Leave(i) == queue' = Without(queue, i) /\ started' = started - 1

\* Types of a text with an error are none.
TypesOf(v) == IF v \in Refused THEN 0 ELSE v

\* Faulty variant: the analysis waits, too, and handlers overtake each other.
StoreOvertaking(i) ==
    LET m == queue[i]
    IN /\ i \in 1..started /\ m.method = "text"
       /\ documents' = [documents EXCEPT ![m.uri] = [source |-> m.version, types |-> TypesOf(m.version)]]
       /\ outbox' = Append(outbox, [uri |-> m.uri, version |-> m.version])
       /\ Leave(i)
       /\ UNCHANGED <<sent, asked, shown, hover>>

\* analyze_and_publish from the lock on: source and types go in together, and
\* the publication is under way before another handler runs.
StoreAndPublish(i) ==
    LET m == queue[i]
    IN /\ HasLock(i) /\ m.method = "text"
       /\ documents' = [documents EXCEPT ![m.uri] = [source |-> m.version, types |-> TypesOf(m.version)]]
       /\ outbox' = Append(outbox, [uri |-> m.uri, version |-> m.version])
       /\ Leave(i)
       /\ UNCHANGED <<sent, asked, shown, hover>>

\* hover_for_params
AnswerHover(i) ==
    LET m == queue[i]
    IN /\ HasLock(i) /\ m.method = "hover"
       /\ hover' = [uri |-> m.uri, version |-> m.version,
                    source |-> documents[m.uri].source, types |-> documents[m.uri].types]
       /\ Leave(i)
       /\ UNCHANGED <<sent, asked, documents, outbox, shown>>

\* did_change without a change; it does not ask for the lock.
IgnoreEmpty(i) ==
    /\ i \in 1..started /\ queue[i].method = "empty"
    /\ Leave(i)
    /\ UNCHANGED <<sent, asked, documents, outbox, shown, hover>>

Handle(i) == StoreAndPublish(i) \/ AnswerHover(i) \/ IgnoreEmpty(i)
Serve == \E i \in 1..started : Handle(i)
ServerNext == (\E u \in Uris : Edit(u) \/ Ask(u)) \/ Show \/ Start \/ Serve

\* The framework reads on, the runtime runs what can run, the editor reads.
ServerFairness == WF_serverVars(Show) /\ WF_serverVars(Start) /\ WF_serverVars(Serve)
ServerSpec == ServerInit /\ [][ServerNext]_serverVars /\ ServerFairness
-----------------------------------------------------------------------------
(* Properties *)

\* A hover is answered from the text the editor had when it asked, whole: its
\* source with its types (lib.rs:48).
ReadYourEdits ==
    hover # NoHover => hover.source = hover.version /\ hover.types = TypesOf(hover.version)

\* The errors shown are never replaced by those of an older text (lib.rs:35).
NeverBack == [][\A u \in Uris : shown'[u] >= shown[u]]_serverVars

\* When the editor rests, the errors of its last texts come to be shown, and
\* those texts are stored (lib.rs:35).
UpToDate == \A u \in Uris : shown[u] = sent[u] /\ documents[u].source = sent[u]
Converges == <>[]UpToDate
=============================================================================
