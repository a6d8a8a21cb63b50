--------------------------- MODULE MonomorphProofs ---------------------------
(***************************************************************************)
(* The worklist of lower(): every name is defined once, every call is      *)
(* answered, by the right specialisation or, in two ways and no other, by  *)
(* one that is named like it, for every set of bindings, all their names,  *)
(* every program and every order of the roots.                             *)
(***************************************************************************)
EXTENDS Monomorph, FiniteSetTheorems, SequenceTheorems, TLAPS

\* Whatever waits, is being lowered, is emitted or is called goes by the name
\* mangle_name gives its specialisation.
Named ==
    /\ \A i \in DOMAIN queue : queue[i].name = Mangle(queue[i].spec)
    /\ current # Idle => current.name = Mangle(current.spec)
    /\ \A c \in calls : c.name = Mangle(c.spec)
    /\ \A i \in DOMAIN module : /\ module[i].name = Mangle(module[i].spec)
                                /\ \A c \in module[i].calls : c.name = Mangle(c.spec)

Waiting(n) == \E i \in DOMAIN queue : queue[i].name = n
InHand(n) == current # Idle /\ current.name = n
Defined(n) == \E i \in DOMAIN module : module[i].name = n

\* A name is in `generated` exactly when it waits, is in hand or is defined, ...
Accounted ==
    /\ \A n \in generated : Waiting(n) \/ InHand(n) \/ Defined(n)
    /\ \A i \in DOMAIN queue : queue[i].name \in generated
    /\ current # Idle => current.name \in generated
    /\ \A i \in DOMAIN module : module[i].name \in generated

\* ... in one of these places, ...
Apart ==
    /\ \A i, j \in DOMAIN queue : queue[i].name = queue[j].name => i = j
    /\ \A i \in DOMAIN queue : ~InHand(queue[i].name) /\ ~Defined(queue[i].name)
    /\ current # Idle => ~Defined(current.name)

\* ... and so is every name that a body calls.
Called ==
    /\ \A c \in calls : c.name \in generated
    /\ \A i \in DOMAIN module : \A c \in module[i].calls : c.name \in generated

IInv == TypeOK /\ Named /\ Accounted /\ Apart /\ DefinedOnce /\ Called

-----------------------------------------------------------------------------
LEMMA ElementType == ASSUME NEW S, NEW s \in Seq(S), NEW k \in DOMAIN s PROVE s[k] \in S
OBVIOUS

LEMMA Associative == ASSUME NEW S, NEW u \in Seq(S), NEW v \in Seq(S), NEW x \in Seq(S)
                     PROVE  (u \o v) \o x = u \o (v \o x)
OBVIOUS

\* Of two splittings of a sequence in the same place the parts are equal, ...
LEMMA SplitAlike == ASSUME NEW S, NEW u \in Seq(S), NEW x \in Seq(S), NEW v \in Seq(S), NEW y \in Seq(S),
                           u \o x = v \o y, Len(u) = Len(v)
                    PROVE  u = v /\ x = y
<1>1. \A i \in 1 .. Len(u) : (u \o x)[i] = u[i] /\ (v \o y)[i] = v[i]
  BY ConcatProperties
<1>2. u = v
  BY <1>1, SeqEqual
<1> QED
  BY <1>2, ConcatSimplifications

\* ... and if the first part of one is longer, it ends with the beginning of the
\* second part of the other.
Lengthens(u, v, y, S) == \E n \in DOMAIN y : SubSeq(y, 1, n) \in Seq(S) /\ u = v \o SubSeq(y, 1, n)
Overlaps(u, x, v, y) == \E n \in DOMAIN y : u = v \o SubSeq(y, 1, n) /\ SubSeq(y, 1, n) \o x = y

LEMMA Longer == ASSUME NEW S, NEW u \in Seq(S), NEW x \in Seq(S), NEW v \in Seq(S), NEW y \in Seq(S),
                       u \o x = v \o y, Len(v) < Len(u)
                PROVE  Lengthens(u, v, y, S)
<1> DEFINE n == Len(u) - Len(v)
           w == SubSeq(y, 1, n)
<1>1. Len(u) + Len(x) = Len(v) + Len(y)
  BY ConcatProperties
<1>2. n \in 1 .. Len(y)
  BY <1>1, LenProperties
<1>3. w \in Seq(S) /\ Len(w) = n /\ \A i \in 1 .. n : w[i] = y[i]
  BY <1>2, SubSeqProperties
<1>4. u = v \o w
  <2>1. v \o w \in Seq(S) /\ Len(v \o w) = Len(u)
    BY <1>2, <1>3, ConcatProperties, LenProperties
  <2>2. ASSUME NEW i \in 1 .. Len(u) PROVE (v \o w)[i] = u[i]
    <3>1. (u \o x)[i] = u[i]
      BY ConcatProperties, LenProperties
    <3>2. (v \o y)[i] = IF i <= Len(v) THEN v[i] ELSE y[i - Len(v)]
      BY <1>1, ConcatProperties, LenProperties
    <3>3. (v \o w)[i] = IF i <= Len(v) THEN v[i] ELSE w[i - Len(v)]
      BY <1>3, <2>1, ConcatProperties, LenProperties
    <3>4. ~(i <= Len(v)) => i - Len(v) \in 1 .. n
      BY LenProperties
    <3> QED
      BY <1>3, <3>1, <3>2, <3>3, <3>4
  <2> QED
    BY <2>1, <2>2, SeqEqual
<1>5. w = SubSeq(y, 1, n) /\ n \in DOMAIN y
  BY <1>2
<1> HIDE DEF n, w
<1> QED
  BY <1>3, <1>4, <1>5, Zenon DEF Lengthens

LEMMA SplitApart == ASSUME NEW S, NEW u \in Seq(S), NEW x \in Seq(S), NEW v \in Seq(S), NEW y \in Seq(S)
                    PROVE  u \o x = v \o y /\ Len(v) < Len(u) => Overlaps(u, x, v, y)
<1>1. ASSUME NEW n \in DOMAIN y, SubSeq(y, 1, n) \in Seq(S)
      PROVE  u \o x = v \o y /\ u = v \o SubSeq(y, 1, n) => SubSeq(y, 1, n) \o x = y
  <2>1. ASSUME NEW w \in Seq(S) PROVE u \o x = v \o y /\ u = v \o w => w \o x = y
    <3>1. (v \o w) \o x = v \o (w \o x) /\ w \o x \in Seq(S)
      BY SMTT(60), Associative
    <3>2. \A r, q \in Seq(S) : v \o r = v \o q => r = q
      BY ConcatSimplifications
    <3>3. v \o (w \o x) = v \o y => w \o x = y
      BY <3>1, <3>2
    <3> QED
      BY <3>1, <3>3, Zenon
  <2> QED
    BY <1>1, <2>1, Zenon
<1>2. u \o x = v \o y /\ Len(v) < Len(u) => Lengthens(u, v, y, S)
  BY Longer, Zenon
<1> QED
  BY <1>1, <1>2, Zenon DEF Overlaps, Lengthens

\* The converse: what is cut from one side may be added to the other.
LEMMA Joined == ASSUME NEW S, NEW u \in Seq(S), NEW x \in Seq(S), NEW v \in Seq(S), NEW y \in Seq(S)
                PROVE  Overlaps(u, x, v, y) => u \o x = v \o y
<1> SUFFICES ASSUME NEW n \in DOMAIN y
             PROVE  u = v \o SubSeq(y, 1, n) /\ SubSeq(y, 1, n) \o x = y => u \o x = v \o y
  BY DEF Overlaps
<1>w. PICK w : w = SubSeq(y, 1, n)
  OBVIOUS
<1>1. w \in Seq(S)
  BY <1>w
<1>2. (v \o w) \o x = v \o (w \o x)
  BY SMTT(60), <1>1, Associative
<1>3. u = v \o w /\ w \o x = y => u \o x = v \o y
  BY <1>2, Zenon
<1> QED
  BY <1>3, <1>w, Zenon

\* Names are names, and a root has that of its binding.
LEMMA TextType == ASSUME NEW a \in Arg PROVE TextOf(a) \in Names
<1>1. CASE a = NoArgs
  BY <1>1 DEF TextOf, Names
<1>2. CASE a # NoArgs
  <2> DEFINE t == Text[a.base]
             Words == [word : STRING, arrays : Nat]
  <2>1. a \in Type /\ t \in Seq(Words) /\ t # <<>>
    BY <1>2, ProgramsTyped DEF Arg, Type, Names
  <2>2. 1 \in 1 .. Len(t) /\ t[1] \in Words
    <3> HIDE DEF t, Words
    <3>1. Len(t) \in Nat /\ Len(t) # 0
      BY <2>1
    <3> QED
      BY <2>1, <3>1
  <2>3. TextOf(a) = [t EXCEPT ![1] = [t[1] EXCEPT !.arrays = @ + a.arrays]]
    BY <1>2, <2>2, LenProperties, <2>1 DEF TextOf
  <2>4. [t[1] EXCEPT !.arrays = @ + a.arrays] \in Words
    BY <2>1, <2>2 DEF Type
  <2> HIDE DEF t, Words
  <2>5. TextOf(a) \in Seq(Words)
    BY <2>1, <2>2, <2>3, <2>4, ExceptSeq
  <2> QED
    BY <2>5 DEF Names, Words
<1> QED
  BY <1>1, <1>2

LEMMA IdentType == ASSUME NEW d \in Decls PROVE Ident[d] \in Names
BY ProgramsTyped

LEMMA MangleType == ASSUME NEW s \in Specialisation PROVE Mangle(s) \in Names
<1>1. Ident[s.decl] \in Names /\ TextOf(s.arg) \in Names
  BY IdentType, TextType DEF Specialisation
<1> QED
  BY <1>1, ConcatProperties DEF Mangle, Names

LEMMA RootName == ASSUME NEW d \in Decls PROVE Mangle(Root(d)) = Ident[d]
<1>1. Ident[d] \in Seq([word : STRING, arrays : Nat])
  BY IdentType DEF Names
<1> QED
  BY <1>1, ConcatEmptySeq DEF Mangle, Root, TextOf

\* Two specialisations have one name in the ways Alike lists, and in no other.
LEMMA OneName == ASSUME NEW s \in Specialisation, NEW t \in Specialisation
                 PROVE  Mangle(s) = Mangle(t) <=> Alike(s, t)
<1> DEFINE Words == [word : STRING, arrays : Nat]
           si == Ident[s.decl]
           ti == Ident[t.decl]
           sx == TextOf(s.arg)
           tx == TextOf(t.arg)
<1>1. /\ s.decl \in Decls /\ t.decl \in Decls
      /\ si \in Seq(Words) /\ ti \in Seq(Words) /\ sx \in Seq(Words) /\ tx \in Seq(Words)
  BY IdentType, TextType DEF Specialisation, Names
<1>2. Mangle(s) = si \o sx /\ Mangle(t) = ti \o tx
  BY DEF Mangle
<1>3. NamedLike(s, t) <=> Overlaps(si, sx, ti, tx)
  BY DEF NamedLike, Overlaps
<1>r. NamedLike(t, s) <=> Overlaps(ti, tx, si, sx)
  BY DEF NamedLike, Overlaps
<1>4. Alike(s, t) <=> (s.decl = t.decl /\ sx = tx) \/ NamedLike(s, t) \/ NamedLike(t, s)
  BY DEF Alike
<1>5. si = ti => s.decl = t.decl
  BY <1>1, NamesDistinct
<1>6. s.decl = t.decl => si = ti
  OBVIOUS
<1> HIDE DEF Words, si, ti, sx, tx
<1>7. si \o sx = ti \o tx => Alike(s, t)
  <2>1. si \o sx = ti \o tx /\ Len(si) = Len(ti) => si = ti /\ sx = tx
    BY <1>1, SplitAlike
  <2>2. si \o sx = ti \o tx /\ Len(ti) < Len(si) => NamedLike(s, t)
    BY <1>1, <1>3, SplitApart, ZenonT(60)
  <2>3. ti \o tx = si \o sx /\ Len(si) < Len(ti) => NamedLike(t, s)
    BY <1>1, <1>r, SplitApart, ZenonT(60)
  <2>4. Len(si) = Len(ti) \/ Len(ti) < Len(si) \/ Len(si) < Len(ti)
    BY <1>1, LenProperties
  <2> QED
    BY <1>4, <1>5, <2>1, <2>2, <2>3, <2>4, Zenon
<1>8. Alike(s, t) => si \o sx = ti \o tx
  <2>1. NamedLike(s, t) => si \o sx = ti \o tx
    BY <1>1, <1>3, Joined, ZenonT(60)
  <2>2. NamedLike(t, s) => ti \o tx = si \o sx
    BY <1>1, <1>r, Joined, ZenonT(60)
  <2> QED
    BY <1>4, <1>6, <2>1, <2>2, Zenon
<1> QED
  BY <1>2, <1>7, <1>8

LEMMA ItemType == ASSUME NEW s \in Specialisation PROVE Item(s) \in Call
BY MangleType DEF Item, Call

LEMMA RootType == ASSUME NEW d \in Decls PROVE Root(d) \in Specialisation
BY DEF Root, Specialisation, Arg

LEMMA IdleIsNoCall == ASSUME NEW c \in Call PROVE c # Idle
BY ProgramsTyped DEF Call, Idle

LEMMA NeedsType == ASSUME NEW p \in Programs, NEW s \in Specialisation
                   PROVE Needs(p, s) \subseteq Specialisation
<1> SUFFICES ASSUME NEW m \in p[s.decl] PROVE Wanted(m, s.arg) \in Specialisation
  BY DEF Needs
<1>1. m \in Mention
  BY ProgramsTyped DEF Specialisation
<1>2. s.arg \in Arg
  BY DEF Specialisation
<1>3. TypeAt(m.at, s.arg) \in Type
  <2>1. CASE m.at \in FixedAt
    BY <2>1 DEF FixedAt, TypeAt
  <2>2. CASE m.at \in OwnAt
    <3> DEFINE own == IF s.arg = NoArgs THEN [base |-> I32, arrays |-> 0] ELSE s.arg
    <3>1. own \in Type
      BY <1>2, ProgramsTyped DEF Type, Arg
    <3>2. TypeAt(m.at, s.arg) = [own EXCEPT !.arrays = @ + m.at.arrays]
      BY <2>2 DEF OwnAt, TypeAt
    <3>3. m.at.arrays \in Nat
      BY <2>2 DEF OwnAt
    <3> HIDE DEF own
    <3> QED
      BY <3>1, <3>2, <3>3 DEF Type
  <2> QED
    BY <1>1, <2>1, <2>2 DEF Mention
<1> QED
  BY <1>1, <1>3 DEF Wanted, Mention, Specialisation, Arg

-----------------------------------------------------------------------------
LEMMA InitInv == Init => IInv
<1> SUFFICES ASSUME Init PROVE IInv
  OBVIOUS
<1> DEFINE n == Cardinality(Decls)
<1>1. n \in Nat
  BY DeclsFinite, FS_CardinalityType
<1>2. PICK order \in [1..n -> Decls] :
        /\ \A i, j \in DOMAIN order : order[i] = order[j] => i = j
        /\ \A d \in Decls : \E i \in DOMAIN order : order[i] = d
        /\ queue = [i \in 1..n |-> Item(Root(order[i]))]
  BY DEF Init
<1> HIDE DEF n
<1>3. /\ DOMAIN queue = 1..n
      /\ \A i \in 1..n : /\ order[i] \in Decls
                         /\ Root(order[i]) \in Specialisation
                         /\ queue[i] = Item(Root(order[i]))
                         /\ queue[i] \in Call
                         /\ queue[i].spec = Root(order[i])
                         /\ queue[i].name = Mangle(Root(order[i]))
                         /\ queue[i].name = Ident[order[i]]
  BY <1>2, RootType, ItemType, RootName DEF Item
<1>4. queue \in Seq(Call)
  BY <1>1, <1>2, <1>3
<1>a. /\ program \in Programs
      /\ current = Idle /\ todo = {} /\ calls = {}
      /\ module = <<>> /\ DOMAIN module = {}
      /\ failed = FALSE
  BY DEF Init
<1>b. \A d \in Decls : Mangle(Root(d)) = Ident[d]
  BY RootName
<1>5. generated = {Ident[d] : d \in Decls}
  BY <1>b DEF Init, Roots
<1>6. TypeOK
  <2>1. generated \subseteq Names
    BY <1>5, ProgramsTyped DEF Names
  <2>2. module \in Seq([name : Names, spec : Specialisation, calls : SUBSET Call])
    BY <1>a
  <2> QED
    BY <1>4, <1>a, <2>1, <2>2 DEF TypeOK
<1>7. Named
  BY <1>3, <1>a DEF Named
<1>8. Accounted
  <2>1. ASSUME NEW x \in generated PROVE Waiting(x)
    <3>1. PICK d \in Decls : x = Ident[d]
      BY <1>5
    <3>2. PICK i \in 1..n : order[i] = d
      BY <1>2
    <3> QED
      BY <1>3, <3>1, <3>2 DEF Waiting
  <2> QED
    BY <1>3, <1>5, <1>a, <2>1 DEF Accounted
<1>9. Apart
  <2>1. \A i, j \in DOMAIN queue : queue[i].name = queue[j].name => i = j
    BY <1>2, <1>3, NamesDistinct
  <2> QED
    BY <1>a, <2>1 DEF Apart, InHand, Defined
<1> QED
  BY <1>6, <1>7, <1>8, <1>9, <1>a DEF IInv, DefinedOnce, Called
-----------------------------------------------------------------------------
LEMMA TakeInv == IInv /\ Take => IInv'
<1> SUFFICES ASSUME IInv, Take PROVE IInv'
  OBVIOUS
<1>q. PICK q : q = Head(queue)
  OBVIOUS
<1>1. /\ queue \in Seq(Call) /\ queue # <<>> /\ q \in Call
      /\ current = Idle /\ current' = q /\ current' # Idle
      /\ queue' = Tail(queue) /\ calls' = {}
      /\ todo' = Needs(program, q.spec)
      /\ UNCHANGED <<program, generated, module, failed>>
  BY <1>q, IdleIsNoCall DEF IInv, TypeOK, Take
<1>2. /\ q = queue[1] /\ 1 \in DOMAIN queue
      /\ DOMAIN queue' = 1..(Len(queue) - 1)
      /\ DOMAIN queue = 1..Len(queue)
      /\ \A i \in DOMAIN queue' : i + 1 \in DOMAIN queue /\ queue'[i] = queue[i + 1]
      /\ queue' \in Seq(Call)
  BY <1>1, <1>q
<1>3. TypeOK'
  <2>1. todo' \subseteq Specialisation
    BY <1>1, NeedsType DEF IInv, TypeOK, Call
  <2> QED
    BY <1>1, <1>2, <2>1 DEF IInv, TypeOK
<1>4. Named'
  BY <1>1, <1>2 DEF IInv, Named
<1>5. Accounted'
  <2>1. ASSUME NEW n \in generated PROVE Waiting(n)' \/ InHand(n)' \/ Defined(n)'
    <3>1. CASE Waiting(n)
      <4>1. PICK i \in DOMAIN queue : queue[i].name = n
        BY <3>1 DEF Waiting
      <4>2. CASE i = 1
        BY <1>1, <1>2, <4>1, <4>2 DEF InHand
      <4>3. CASE i # 1
        <5>1. i - 1 \in DOMAIN queue' /\ queue'[i - 1] = queue[i]
          BY <1>1, <1>2, <4>3
        <5> QED
          BY <4>1, <5>1 DEF Waiting
      <4> QED
        BY <4>2, <4>3
    <3>2. CASE Defined(n)
      BY <1>1, <3>2 DEF Defined
    <3> QED
      BY <1>1, <3>1, <3>2 DEF IInv, Accounted, InHand
  <2> QED
    BY <1>1, <1>2, <2>1 DEF IInv, Accounted
<1>6. Apart'
  <2>1. \A i, j \in DOMAIN queue' : queue'[i].name = queue'[j].name => i = j
    BY <1>1, <1>2 DEF IInv, Apart
  <2>2. \A i \in DOMAIN queue' : queue'[i].name # q.name
    BY <1>1, <1>2 DEF IInv, Apart
  <2>3. \A i \in DOMAIN queue' : ~Defined(queue[i].name)'
    BY <1>1, <1>2 DEF IInv, Apart, Defined
  <2>4. ~Defined(q.name)'
    BY <1>1, <1>2 DEF IInv, Apart, Defined
  <2> QED
    BY <1>1, <2>1, <2>2, <2>3, <2>4 DEF Apart, InHand
<1>7. DefinedOnce'
  BY <1>1 DEF IInv, DefinedOnce
<1>8. Called'
  BY <1>1 DEF IInv, Called
<1> QED
  BY <1>3, <1>4, <1>5, <1>6, <1>7, <1>8 DEF IInv

LEMMA ResolveInv == IInv /\ (\E s \in todo : Resolve(s)) => IInv'
<1> SUFFICES ASSUME IInv, NEW s \in todo, Resolve(s) PROVE IInv'
  OBVIOUS
<1>1. /\ s \in Specialisation /\ Item(s) \in Call
      /\ Item(s).name = Mangle(s) /\ Item(s).spec = s
      /\ Mangle(s) \in Names
  BY ItemType, MangleType DEF IInv, TypeOK, Item
<1>2. /\ calls' = calls \cup {Item(s)}
      /\ todo' = todo \ {s}
      /\ current # Idle
      /\ UNCHANGED <<program, current, module, failed>>
  BY DEF Resolve
<1>3. Mangle(s) \in generated' /\ generated \subseteq generated'
  BY DEF Resolve
<1>4. CASE Mangle(s) \in generated
  <2>1. UNCHANGED <<queue, generated>>
    BY <1>4 DEF Resolve
  <2>2. TypeOK'
    BY <1>1, <1>2, <2>1 DEF IInv, TypeOK
  <2>3. Named'
    BY <1>1, <1>2, <2>1 DEF IInv, Named
  <2>4. Accounted' /\ Apart' /\ DefinedOnce'
    BY <1>2, <2>1 DEF IInv, Accounted, Apart, DefinedOnce, Waiting, InHand, Defined
  <2>5. Called'
    BY <1>1, <1>2, <1>3, <2>1 DEF IInv, Called
  <2> QED
    BY <2>2, <2>3, <2>4, <2>5 DEF IInv
<1>5. CASE Mangle(s) \notin generated
  <2>1. /\ generated' = generated \cup {Mangle(s)}
        /\ queue' = Append(queue, Item(s))
    BY <1>5 DEF Resolve
  <2> DEFINE l == Len(queue) + 1
  <2>2. /\ queue' \in Seq(Call)
        /\ DOMAIN queue' = 1..l /\ DOMAIN queue = 1..Len(queue)
        /\ l \in Nat /\ l \notin DOMAIN queue
        /\ queue'[l] = Item(s)
        /\ \A i \in DOMAIN queue : i \in DOMAIN queue' /\ queue'[i] = queue[i]
        /\ \A i \in DOMAIN queue' : i \in DOMAIN queue \/ i = l
        /\ l \in DOMAIN queue'
    BY <1>1, <2>1 DEF IInv, TypeOK
  <2> HIDE DEF l
  <2>3. TypeOK'
    BY <1>1, <1>2, <2>1, <2>2 DEF IInv, TypeOK
  <2>4. Named'
    BY <1>1, <1>2, <2>2 DEF IInv, Named
  <2>5. Accounted'
    <3>1. ASSUME NEW n \in generated' PROVE Waiting(n)' \/ InHand(n)' \/ Defined(n)'
      <4>1. CASE n = Mangle(s)
        BY <1>1, <2>2, <4>1 DEF Waiting
      <4>2. CASE n # Mangle(s)
        <5>1. Waiting(n) \/ InHand(n) \/ Defined(n)
          BY <2>1, <4>2 DEF IInv, Accounted
        <5>2. Waiting(n) => Waiting(n)'
          BY <2>2 DEF Waiting
        <5> QED
          BY <1>2, <5>1, <5>2 DEF InHand, Defined
      <4> QED
        BY <4>1, <4>2
    <3> QED
      BY <1>1, <1>2, <1>3, <2>2, <3>1 DEF IInv, Accounted
  <2>6. Apart'
    <3>1. \A i \in DOMAIN queue : queue[i].name # Mangle(s)
      BY <1>5 DEF IInv, Accounted
    <3>2. \A i, j \in DOMAIN queue' : queue'[i].name = queue'[j].name => i = j
      BY <1>1, <2>2, <3>1 DEF IInv, Apart
    <3>3. ~InHand(Mangle(s)) /\ ~Defined(Mangle(s))
      BY <1>5 DEF IInv, Accounted, InHand, Defined
    <3>4. \A n : (InHand(n)' <=> InHand(n)) /\ (Defined(n)' <=> Defined(n))
      BY <1>2 DEF InHand, Defined
    <3> QED
      BY <1>1, <1>2, <2>2, <3>2, <3>3, <3>4 DEF IInv, Apart
  <2>7. DefinedOnce'
    BY <1>2 DEF IInv, DefinedOnce
  <2>8. Called'
    BY <1>1, <1>2, <1>3 DEF IInv, Called
  <2> QED
    BY <2>3, <2>4, <2>5, <2>6, <2>7, <2>8 DEF IInv
<1> QED
  BY <1>4, <1>5

LEMMA EmitInv == IInv /\ Emit => IInv'
<1> SUFFICES ASSUME IInv, Emit PROVE IInv'
  OBVIOUS
<1> DEFINE l == Len(module) + 1
<1>f. PICK f : f = [name |-> current.name, spec |-> current.spec, calls |-> calls]
  OBVIOUS
<1>1. /\ current # Idle /\ current \in Call /\ calls \subseteq Call
      /\ f \in [name : Names, spec : Specialisation, calls : SUBSET Call]
      /\ f.name = current.name /\ f.spec = current.spec /\ f.calls = calls
      /\ module' = Append(module, f)
      /\ current' = Idle /\ calls' = {}
      /\ UNCHANGED <<program, queue, generated, todo, failed>>
  BY <1>f DEF IInv, TypeOK, Emit, Call
<1>2. /\ module' \in Seq([name : Names, spec : Specialisation, calls : SUBSET Call])
      /\ l \notin DOMAIN module /\ l \in DOMAIN module' /\ module'[l] = f
      /\ \A i \in DOMAIN module : i \in DOMAIN module' /\ module'[i] = module[i]
      /\ \A i \in DOMAIN module' : i \in DOMAIN module \/ i = l
  BY <1>1 DEF IInv, TypeOK
<1> HIDE DEF l
<1>3. TypeOK'
  BY <1>1, <1>2 DEF IInv, TypeOK
<1>4. Named'
  BY <1>1, <1>2 DEF IInv, Named
<1>5. \A n : Defined(n)' <=> Defined(n) \/ n = current.name
  BY <1>1, <1>2 DEF Defined
<1>6. \A n : Waiting(n)' <=> Waiting(n)
  BY <1>1 DEF Waiting
<1>7. Accounted'
  <2>1. ASSUME NEW n \in generated PROVE Waiting(n)' \/ InHand(n)' \/ Defined(n)'
    BY <1>5, <1>6 DEF IInv, Accounted, InHand
  <2> QED
    BY <1>1, <1>2, <2>1 DEF IInv, Accounted
<1>8. Apart'
  <2>1. \A i \in DOMAIN queue : queue[i].name # current.name
    BY <1>1 DEF IInv, Apart, InHand
  <2> QED
    BY <1>1, <1>5, <2>1 DEF IInv, Apart, InHand
<1>9. DefinedOnce'
  <2>1. \A i \in DOMAIN module : module[i].name # current.name
    BY <1>1 DEF IInv, Apart, Defined
  <2> QED
    BY <1>1, <1>2, <2>1 DEF IInv, DefinedOnce
<1>10. Called'
  BY <1>1, <1>2 DEF IInv, Called
<1> QED
  BY <1>3, <1>4, <1>7, <1>8, <1>9, <1>10 DEF IInv

LEMMA UnchangedInv == IInv /\ (Fail \/ UNCHANGED vars) => IInv'
<1> SUFFICES ASSUME IInv, Fail \/ UNCHANGED vars PROVE IInv'
  OBVIOUS
<1>1. /\ UNCHANGED <<program, queue, generated, current, todo, calls, module>>
      /\ failed' \in BOOLEAN
  BY DEF IInv, TypeOK, Fail, vars
<1>2. TypeOK' /\ Named' /\ DefinedOnce' /\ Called'
  BY <1>1 DEF IInv, TypeOK, Named, DefinedOnce, Called
<1>3. Accounted' /\ Apart'
  BY <1>1 DEF IInv, Accounted, Apart, Waiting, InHand, Defined
<1> QED
  BY <1>2, <1>3 DEF IInv

-----------------------------------------------------------------------------
\* The invariant of the worklist: a name queued once is waiting, in hand or
\* defined, in exactly one place, and every name called has been queued.
THEOREM WorklistInvariant == Spec => []IInv
<1>1. IInv /\ [Next]_vars => IInv'
  BY TakeInv, ResolveInv, EmitInv, UnchangedInv DEF Next, Progress
<1> QED
  BY InitInv, <1>1, PTL DEF Spec

\* The state of the worklist keeps its types.
THEOREM TypeCorrect == Spec => []TypeOK
<1>1. IInv => TypeOK
  BY DEF IInv
<1> QED
  BY WorklistInvariant, <1>1, PTL

\* lower() never emits two functions under one name, whether or not different
\* specialisations have different names.
THEOREM NamesDefinedOnce == Spec => []DefinedOnce
<1>1. IInv => DefinedOnce
  BY DEF IInv
<1> QED
  BY WorklistInvariant, <1>1, PTL

\* When lower() is done, every name that a function calls is one it emitted.
THEOREM CallsAreDefined == Spec => []AllDefined
<1>1. IInv => AllDefined
  <2> SUFFICES ASSUME IInv, Done, NEW i \in DOMAIN module, NEW c \in module[i].calls
               PROVE Defined(c.name)
    BY DEF AllDefined, Defined
  <2>1. c.name \in generated
    BY DEF IInv, Called
  <2>2. ~Waiting(c.name) /\ ~InHand(c.name)
    BY DEF Done, Waiting, InHand
  <2> QED
    BY <2>1, <2>2 DEF IInv, Accounted
<1> QED
  BY WorklistInvariant, <1>1, PTL

-----------------------------------------------------------------------------
\* The specialisations that wait, are in hand or are emitted.
Reached ==
    {queue[i].spec : i \in DOMAIN queue}
    \cup {c.spec : c \in {current} \ {Idle}}
    \cup Emitted

\* A body calls exactly what its mentions need, once they are all named, ...
CallsNeeds ==
    /\ current # Idle => Needs(program, current.spec) = todo \cup {c.spec : c \in calls}
    /\ \A i \in DOMAIN module : Needs(program, module[i].spec) = {c.spec : c \in module[i].calls}

\* ... no root is lost, ...
RootsReached == Roots \subseteq Reached

\* ... and nothing is reached that no chain of mentions leads to from a root.
Leads(S) == Roots \subseteq S /\ \A s \in S : Needs(program, s) \cap Reached \subseteq S
ReachedNeeded == \A S \in SUBSET Specialisation : Leads(S) => Reached \subseteq S

ReachInv == CallsNeeds /\ RootsReached /\ ReachedNeeded

LEMMA InitReach == Init => ReachInv
<1> SUFFICES ASSUME Init PROVE ReachInv
  OBVIOUS
<1>1. PICK order \in [1..Cardinality(Decls) -> Decls] :
        /\ \A d \in Decls : \E i \in DOMAIN order : order[i] = d
        /\ queue = [i \in 1..Cardinality(Decls) |-> Item(Root(order[i]))]
  BY DEF Init
<1>2. current = Idle /\ module = <<>> /\ DOMAIN module = {}
  BY DEF Init
<1>3. \A i \in DOMAIN queue : i \in DOMAIN order /\ order[i] \in Decls /\ queue[i].spec = Root(order[i])
  BY <1>1 DEF Item
<1>4. \A d \in Decls : \E i \in DOMAIN queue : queue[i].spec = Root(d)
  <2> TAKE d \in Decls
  <2>1. PICK i \in DOMAIN order : order[i] = d
    BY <1>1
  <2> QED
    BY <1>1, <2>1 DEF Item
<1>5. Reached = Roots
  BY <1>2, <1>3, <1>4 DEF Reached, Emitted, Roots
<1> QED
  BY <1>2, <1>5 DEF ReachInv, CallsNeeds, RootsReached, ReachedNeeded, Leads

LEMMA TakeReach == ASSUME IInv, ReachInv, Take PROVE ReachInv'
<1>q. PICK q : q = Head(queue)
  OBVIOUS
<1>1. /\ queue \in Seq(Call) /\ queue # <<>> /\ q \in Call
      /\ current = Idle /\ current' = q /\ current' # Idle
      /\ queue' = Tail(queue) /\ calls' = {}
      /\ todo' = Needs(program, q.spec)
      /\ UNCHANGED <<program, module>>
  BY <1>q, IdleIsNoCall DEF IInv, TypeOK, Take
<1>2. /\ q = queue[1] /\ 1 \in DOMAIN queue
      /\ \A i \in DOMAIN queue' : i + 1 \in DOMAIN queue /\ queue'[i] = queue[i + 1]
      /\ \A i \in DOMAIN queue : i # 1 => i - 1 \in DOMAIN queue' /\ queue'[i - 1] = queue[i]
  BY <1>1, <1>q
<1>3. {queue[i].spec : i \in DOMAIN queue} = {queue'[i].spec : i \in DOMAIN queue'} \cup {q.spec}
  <2>1. ASSUME NEW i \in DOMAIN queue
        PROVE  queue[i].spec \in {queue'[k].spec : k \in DOMAIN queue'} \cup {q.spec}
    <3>1. CASE i = 1
      BY <1>2, <3>1
    <3>2. CASE i # 1
      BY <1>2, <3>2
    <3> QED
      BY <3>1, <3>2
  <2>2. ASSUME NEW i \in DOMAIN queue'
        PROVE  queue'[i].spec \in {queue[k].spec : k \in DOMAIN queue}
    BY <1>2
  <2> QED
    BY <1>2, <2>1, <2>2
<1>4. Reached' = Reached
  BY <1>1, <1>3 DEF Reached, Emitted
<1> QED
  BY <1>1, <1>4 DEF ReachInv, CallsNeeds, RootsReached, ReachedNeeded, Leads

LEMMA ResolveReach == ASSUME IInv, ReachInv, NEW s \in todo, Resolve(s) PROVE ReachInv'
<1>1. /\ s \in Specialisation /\ Item(s).spec = s
  BY DEF IInv, TypeOK, Item
<1>2. /\ calls' = calls \cup {Item(s)}
      /\ todo' = todo \ {s}
      /\ current # Idle
      /\ UNCHANGED <<program, current, module>>
  BY DEF Resolve
<1>3. Reached \subseteq Reached' /\ Reached' \subseteq Reached \cup {s}
  <2>1. CASE Mangle(s) \in generated
    BY <1>2, <2>1 DEF Resolve, Reached, Emitted
  <2>2. CASE Mangle(s) \notin generated
    <3>1. queue' = Append(queue, Item(s)) /\ queue \in Seq(Call) /\ Item(s) \in Call
      BY <1>1, <2>2, ItemType DEF Resolve, IInv, TypeOK
    <3>2. /\ \A i \in DOMAIN queue : i \in DOMAIN queue' /\ queue'[i] = queue[i]
          /\ \A i \in DOMAIN queue' : i \in DOMAIN queue \/ queue'[i] = Item(s)
      BY <3>1
    <3>3. /\ {queue[i].spec : i \in DOMAIN queue} \subseteq {queue'[i].spec : i \in DOMAIN queue'}
          /\ {queue'[i].spec : i \in DOMAIN queue'} \subseteq {queue[i].spec : i \in DOMAIN queue} \cup {s}
      BY <1>1, <3>2
    <3> QED
      BY <1>2, <3>3 DEF Reached, Emitted
  <2> QED
    BY <2>1, <2>2
<1>4. CallsNeeds'
  <2>1. {c.spec : c \in calls'} = {c.spec : c \in calls} \cup {s}
    BY <1>1, <1>2
  <2> QED
    BY <1>2, <2>1 DEF ReachInv, CallsNeeds
<1>5. ReachedNeeded'
  <2> SUFFICES ASSUME NEW S \in SUBSET Specialisation, Leads(S)'
               PROVE  Reached' \subseteq S
    BY DEF ReachedNeeded
  <2>1. Reached \subseteq S
    BY <1>2, <1>3 DEF Leads, ReachInv, ReachedNeeded
  <2>2. current.spec \in S
    BY <1>2, <2>1 DEF Reached
  <2>3. s \in Reached' => s \in S
    BY <1>2, <2>2 DEF Leads, ReachInv, CallsNeeds
  <2> QED
    BY <1>3, <2>1, <2>3
<1> QED
  BY <1>3, <1>4, <1>5 DEF ReachInv, RootsReached

LEMMA EmitReach == ASSUME IInv, ReachInv, Emit PROVE ReachInv'
<1>f. PICK f : f = [name |-> current.name, spec |-> current.spec, calls |-> calls]
  OBVIOUS
<1>1. /\ current # Idle /\ current \in Call /\ todo = {}
      /\ f \in [name : Names, spec : Specialisation, calls : SUBSET Call]
      /\ f.spec = current.spec /\ f.calls = calls
      /\ module' = Append(module, f)
      /\ current' = Idle
      /\ UNCHANGED <<program, queue>>
  BY <1>f DEF IInv, TypeOK, Emit, Call
<1>2. /\ \A i \in DOMAIN module : i \in DOMAIN module' /\ module'[i] = module[i]
      /\ \A i \in DOMAIN module' : i \in DOMAIN module \/ module'[i] = f
      /\ \E i \in DOMAIN module' : module'[i] = f
  BY <1>1 DEF IInv, TypeOK
<1>3. Emitted' = Emitted \cup {current.spec}
  <2>1. \A i \in DOMAIN module : module[i].spec \in Emitted'
    BY <1>2 DEF Emitted
  <2>2. \A i \in DOMAIN module' : module'[i].spec \in Emitted \cup {current.spec}
    BY <1>1, <1>2 DEF Emitted
  <2>3. current.spec \in Emitted'
    BY <1>1, <1>2 DEF Emitted
  <2> QED
    BY <2>1, <2>2, <2>3 DEF Emitted
<1>4. Reached' = Reached
  BY <1>1, <1>3 DEF Reached
<1>5. CallsNeeds'
  BY <1>1, <1>2 DEF ReachInv, CallsNeeds
<1> QED
  BY <1>1, <1>4, <1>5 DEF ReachInv, RootsReached, ReachedNeeded, Leads

LEMMA Reaching == Spec => []ReachInv
<1>1. IInv /\ ReachInv /\ [Next]_vars => ReachInv'
  <2> SUFFICES ASSUME IInv, ReachInv, [Next]_vars PROVE ReachInv'
    OBVIOUS
  <2>1. CASE Fail \/ UNCHANGED vars
    BY SMTT(30), <2>1 DEF Fail, vars, ReachInv, CallsNeeds, RootsReached, ReachedNeeded, Leads,
                Reached, Emitted
  <2> QED
    BY <2>1, TakeReach, ResolveReach, EmitReach DEF Next, Progress
<1> QED
  BY InitReach, <1>1, WorklistInvariant, PTL DEF Spec

LEMMA EmittedTyped ==
    ASSUME IInv, NEW i \in DOMAIN module
    PROVE  /\ module[i].spec \in Specialisation /\ module[i].name = Mangle(module[i].spec)
           /\ \A c \in module[i].calls : c.spec \in Specialisation /\ c.name = Mangle(c.spec)
<1>1. module \in Seq([name : Names, spec : Specialisation, calls : SUBSET Call])
  BY DEF IInv, TypeOK
<1>2. module[i] \in [name : Names, spec : Specialisation, calls : SUBSET Call]
  BY <1>1, ElementType
<1> QED
  BY <1>2 DEF IInv, Named, Call

\* A call reaches the function lowered for the binding and the type it was inferred
\* at, or one that is written the same in one of the ways Alike lists; and the
\* name of a binding reaches that binding.
THEOREM CallsAreRight == Spec => []RightOne
<1>1. IInv /\ ReachInv => RightOne
  <2> SUFFICES ASSUME IInv, ReachInv, NEW i \in DOMAIN module, NEW j \in DOMAIN module,
                      NEW c \in module[i].calls, module[j].name = c.name
               PROVE  /\ module[j].spec = c.spec \/ Alike(module[j].spec, c.spec)
                      /\ \A d \in Decls : Root(d) = c.spec \/ Alike(Root(d), c.spec) => module[j].spec = Root(d)
    BY DEF RightOne
  <2>1. /\ module[j].spec \in Specialisation /\ c.spec \in Specialisation
        /\ Mangle(module[j].spec) = c.name /\ Mangle(c.spec) = c.name
    BY EmittedTyped
  <2>2. Alike(module[j].spec, c.spec)
    BY <2>1, OneName
  <2>3. ASSUME NEW d \in Decls, Root(d) = c.spec \/ Alike(Root(d), c.spec)
        PROVE  module[j].spec = Root(d)
    <3>1. Mangle(Root(d)) = module[j].name
      BY <2>1, <2>3, RootType, OneName
    <3>2. Root(d) \in Reached
      BY DEF ReachInv, RootsReached, Roots
    <3>3. CASE \E k \in DOMAIN queue : queue[k].spec = Root(d)
      BY <3>1, <3>3 DEF IInv, Named, Apart, Defined
    <3>4. CASE current # Idle /\ current.spec = Root(d)
      BY <3>1, <3>4 DEF IInv, Named, Apart, Defined
    <3>5. CASE Root(d) \in Emitted
      <4>1. PICK k \in DOMAIN module : module[k].spec = Root(d)
        BY <3>5 DEF Emitted
      <4>2. module[k].name = module[j].name
        BY <3>1, <4>1, EmittedTyped
      <4> QED
        BY <4>1, <4>2 DEF IInv, DefinedOnce
    <3> QED
      BY <3>2, <3>3, <3>4, <3>5 DEF Reached
  <2> QED
    BY <2>2, <2>3
<1> QED
  BY <1>1, WorklistInvariant, Reaching, PTL

\* What lower() emits holds the roots and, under one name or another, all that its
\* members mention, and nothing that no chain of mentions leads to, in whatever
\* order the roots were queued.
THEOREM EmitsLeastClosure == Spec => []LeastClosure
<1>1. IInv /\ ReachInv /\ AllDefined => LeastClosure
  <2> SUFFICES ASSUME IInv, ReachInv, AllDefined, Done PROVE
                 /\ Roots \subseteq Emitted
                 /\ \A s \in Emitted : \A t \in Needs(program, s) : \E e \in Emitted : e = t \/ Alike(e, t)
                 /\ \A S \in SUBSET (Emitted \ Roots) :
                       (\A s \in Roots \cup S : Needs(program, s) \cap Emitted \subseteq Roots \cup S)
                           => S = Emitted \ Roots
    BY DEF LeastClosure
  <2>1. Reached = Emitted
    BY DEF Done, Reached
  <2>2. Roots \subseteq Emitted
    BY <2>1 DEF ReachInv, RootsReached
  <2>3. ASSUME NEW s \in Emitted, NEW t \in Needs(program, s)
        PROVE  \E e \in Emitted : e = t \/ Alike(e, t)
    <3>1. PICK i \in DOMAIN module : module[i].spec = s
      BY DEF Emitted
    <3>2. PICK c \in module[i].calls : c.spec = t
      BY <3>1 DEF ReachInv, CallsNeeds
    <3>3. PICK j \in DOMAIN module : module[j].name = c.name
      BY DEF AllDefined
    <3>4. Alike(module[j].spec, t)
      BY <3>2, <3>3, EmittedTyped, OneName
    <3> QED
      BY <3>4 DEF Emitted
  <2>4. ASSUME NEW S \in SUBSET (Emitted \ Roots),
               \A s \in Roots \cup S : Needs(program, s) \cap Emitted \subseteq Roots \cup S
        PROVE  S = Emitted \ Roots
    <3>1. Emitted \subseteq Specialisation
      BY EmittedTyped DEF Emitted
    <3>2. Roots \cup S \in SUBSET Specialisation
      BY <2>2, <3>1
    <3>3. Leads(Roots \cup S)
      BY <2>1, <2>4 DEF Leads
    <3>4. Emitted \subseteq Roots \cup S
      BY <2>1, <3>2, <3>3 DEF ReachInv, ReachedNeeded
    <3> QED
      BY <3>4
  <2> QED
    BY <2>2, <2>3, <2>4
<1> QED
  BY <1>1, WorklistInvariant, Reaching, CallsAreDefined, PTL
=============================================================================
