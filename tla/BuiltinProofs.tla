---------------------------- MODULE BuiltinProofs -----------------------------
(***************************************************************************)
(* Proofs about calls of builtins: Methods, ClosureRegistry and Bridge.    *)
(*                                                                         *)
(* Method calls keep what a value means, and a call that was typed as a    *)
(* builtin reaches one, however many calls a program makes in a row.       *)
(*                                                                         *)
(* The table of builtin closures never answers for a buffer that is gone,  *)
(* for every number of addresses, functions and references.                *)
(*                                                                         *)
(* A value that crosses to a builtin arrives as what it means, and a call  *)
(* gives what the same function of the program would, but in the cases     *)
(* that Bridge lists, for all types however deep and all their values.     *)
(***************************************************************************)
EXTENDS Methods, ClosureRegistry, Bridge, NaturalRecursion, TLAPS
-----------------------------------------------------------------------------
(* Methods. *)

Tags == {"Option", "Result"}

\* The value has the kind of its type, and as long as no Result has crossed it
\* is to its maker the variant it is meant to be.
ValueKept ==
    ty # "other" =>
        /\ val.kind = KindOf(ty)
        /\ ~crossed => val.content = meant.content
ViewKept ==
    ty \in Tags =>
        /\ val.tag \in {0, 1}
        /\ ~crossed => View(maker, ty, val.tag) = meant.variant

\* What the type checker has accepted, until it is run.
Accepted ==
    stage \in {"checked", "lowered"} =>
        /\ ty # "other" /\ call.bound \in {"no", "global", "local"}
        /\ call.chosen \in {<<call.name>>, <<ty, call.name>>} \/ (call.chosen = <<"user">> /\ call.bound # "no")
        /\ call.chosen # <<"user">> =>
              \E e \in Named(Env, call.chosen) : ty \in e.takes /\ e.arity = call.arity
Emitted ==
    stage = "lowered" =>
        /\ call.emitted \in {<<"user">>, QualifyMethodName(call.name, ty)}
        /\ call.bound # "no" /\ call.emitted # <<"user">> => call.emitted # <<call.name>>

MethodTypeOK ==
    /\ ty \in TypeOf \cup {"other"} /\ maker \in {"source", "builtin"} /\ crossed \in BOOLEAN
    /\ DOMAIN val = {"kind", "tag", "content"} /\ DOMAIN val.content = {"of", "mapped"}
    /\ DOMAIN meant = {"variant", "content"} /\ DOMAIN meant.content = {"of", "mapped"}
    /\ stage \in {"checked", "lowered"} =>
          DOMAIN call = {"name", "arity", "bound", "chosen", "emitted"}

MethodInv == MethodTypeOK /\ ValueKept /\ ViewKept /\ Accepted /\ Emitted /\ TablesAgree

-----------------------------------------------------------------------------
(* The tables. *)

\* Builtins the registry has by a short name.
LEMMA InRegistry ==
    /\ \A n \in {"map", "filter", "flat_map", "concat", "prepend", "drop", "take"} :
          [name |-> <<n>>, takes |-> {"Array"}, arity |-> 2] \in Registry
    /\ \A n \in {"len", "head", "tail"} : [name |-> <<n>>, takes |-> {"Array"}, arity |-> 1] \in Registry
    /\ \A n \in {"trim", "parse_i32"} : [name |-> <<n>>, takes |-> {"Str"}, arity |-> 1] \in Registry
    /\ [name |-> <<"split">>, takes |-> {"Str"}, arity |-> 2] \in Registry
    /\ [name |-> <<"unwrap_or">>, takes |-> {"Tag"}, arity |-> 2] \in Registry
    /\ [name |-> <<"to_str">>, takes |-> {"Array", "Str", "I32", "Usize"}, arity |-> 1] \in Registry
    /\ \A n \in {"to_i32", "to_i64"} : [name |-> <<n>>, takes |-> {"I32", "Usize"}, arity |-> 1] \in Registry
BY DEF Entries, Registry

\* Builtins it has by a qualified name.
LEMMA QualifiedInRegistry ==
    \A t \in Tags : \A n \in {"map", "flat_map"} :
       [name |-> <<t, n>>, takes |-> {"Tag"}, arity |-> 2] \in Registry
<1>1. ASSUME NEW n \in {"map", "flat_map"}
      PROVE  [name |-> <<"Option", n>>, takes |-> {"Tag"}, arity |-> 2] \in Registry
  <2>1. PICK e : e = [name |-> <<"Option", n>>, takes |-> {"Option"}, arity |-> 2]
    OBVIOUS
  <2>2. e \in EntriesOf("Option", {"map", "flat_map", "unwrap_or"}, 2)
    BY <2>1 DEF EntriesOf
  <2>3. [e EXCEPT !.takes = {"Tag"}] = [name |-> <<"Option", n>>, takes |-> {"Tag"}, arity |-> 2]
    BY <2>1
  <2> QED
    BY <2>2, <2>3 DEF Registry
<1>2. ASSUME NEW n \in {"map", "flat_map"}
      PROVE  [name |-> <<"Result", n>>, takes |-> {"Tag"}, arity |-> 2] \in Registry
  <2>1. PICK e : e = [name |-> <<"Result", n>>, takes |-> {"Result"}, arity |-> 2]
    OBVIOUS
  <2>2. e \in EntriesOf("Result", {"map", "flat_map"}, 2)
    BY <2>1 DEF EntriesOf
  <2>3. [e EXCEPT !.takes = {"Tag"}] = [name |-> <<"Result", n>>, takes |-> {"Tag"}, arity |-> 2]
    BY <2>1
  <2> QED
    BY <2>2, <2>3 DEF Registry
<1> QED
  BY <1>1, <1>2 DEF Tags

\* A signature the checker has accepted a receiver for is registered under the
\* name the lowering emits, for that receiver, but for the calls of Broken.
LEMMA IsRegistered ==
    ASSUME NEW e \in Env, NEW t \in e.takes, t \in TypeOf, NEW n, <<t, n>> \notin Broken,
           e.name \in {<<n>>, <<t, n>>}
    PROVE  \E r \in Registry : /\ r.name = QualifyMethodName(n, t)
                               /\ KindOf(t) \in r.takes /\ r.arity = e.arity
<1>1. CASE e \in Entries({"len", "head", "tail"}, {"Array"}, 1)
  BY <1>1, InRegistry DEF Entries, QualifyMethodName, KindOf
<1>2. CASE e \in Entries({"map", "filter", "flat_map", "concat", "prepend", "drop", "take"}, {"Array"}, 2)
  BY SMTT(30), <1>2, InRegistry DEF Entries, QualifyMethodName, KindOf
<1>3. CASE e \in Entries({"trim", "parse_i32"}, {"Str"}, 1)
  BY <1>3, InRegistry DEF Entries, QualifyMethodName, KindOf
<1>4. CASE e \in Entries({"split"}, {"Str"}, 2)
  BY SMTT(30), <1>4, InRegistry DEF Entries, QualifyMethodName, KindOf
<1>5. CASE e \in Entries({"unwrap_or", "unwrapOr", "flatMap", "unwrap"}, {"Option"}, 2)
  <2>1. t = "Option" /\ n \in {"unwrap_or", "unwrapOr", "flatMap", "unwrap"} /\ e.arity = 2
    BY <1>5 DEF Entries
  <2>2. n = "unwrap_or"
    BY <2>1 DEF Broken
  <2> QED
    BY <2>1, <2>2, InRegistry DEF QualifyMethodName, KindOf
<1>6. CASE e \in Entries({"to_str", "to_i32", "to_i64"}, TypeOf, 1)
  <2>1. n \in {"to_str", "to_i32", "to_i64"} /\ e.arity = 1
    BY <1>6 DEF Entries
  <2>2. t \in {"Array", "Str", "I32", "Usize"}
    BY <2>1 DEF Broken, TypeOf
  <2>3. n # "to_str" => t \in {"I32", "Usize"}
    BY <2>1, <2>2 DEF Broken
  <2> QED
    BY <2>1, <2>2, <2>3, InRegistry DEF QualifyMethodName, KindOf
<1>7. CASE e \in Entries({"to_usize"}, {"I32"}, 1)
  BY <1>7 DEF Entries, Broken
<1>8. CASE e \in EntriesOf("Str", {"len", "trim", "parse_i32"}, 1)
  <2>1. t = "Str" /\ n \in {"len", "trim", "parse_i32"} /\ e.arity = 1
    BY <1>8 DEF EntriesOf
  <2>2. n # "len"
    BY <2>1 DEF Broken
  <2> QED
    BY <2>1, <2>2, InRegistry DEF QualifyMethodName, KindOf
<1>9. CASE e \in EntriesOf("Str", {"concat", "split"}, 2)
  <2>1. t = "Str" /\ n \in {"concat", "split"} /\ e.arity = 2
    BY <1>9 DEF EntriesOf
  <2>2. n = "split"
    BY <2>1 DEF Broken
  <2> QED
    BY <2>1, <2>2, InRegistry DEF QualifyMethodName, KindOf
<1>10. CASE \E u \in Tags : e \in EntriesOf(u, {"map", "flat_map", "flatMap", "unwrapOr", "unwrap_or"}, 2)
  <2>1. t \in Tags /\ n \in {"map", "flat_map", "flatMap", "unwrapOr", "unwrap_or"} /\ e.arity = 2
    BY <1>10 DEF EntriesOf
  <2>2. n \in {"map", "flat_map", "unwrap_or"}
    BY <2>1 DEF Broken, Tags
  <2>3. KindOf(t) = "Tag"
    BY <2>1 DEF KindOf, Tags
  <2>4. CASE n = "unwrap_or"
    BY <2>1, <2>3, <2>4, InRegistry DEF QualifyMethodName
  <2>5. CASE n \in {"map", "flat_map"}
    BY <2>1, <2>3, <2>5, QualifiedInRegistry DEF QualifyMethodName, Tags
  <2> QED
    BY <2>2, <2>4, <2>5
<1> QED
  BY <1>1, <1>2, <1>3, <1>4, <1>5, <1>6, <1>7, <1>8, <1>9, <1>10 DEF Env, Tags

\* The builtins that take an Option or a Result under a bare name.
LEMMA TakesTag ==
    ASSUME NEW r \in Registry, NEW n, r.name = <<n>>, "Tag" \in r.takes
    PROVE  n = "unwrap_or" \/ (n = "unwrap" /\ r.arity = 1)
BY DEF Registry, Entries, EntriesOf

\* unwrap_or by its short name is of tagged values only.
LEMMA TakesNothingElse ==
    ASSUME NEW r \in Registry, r.name = <<"unwrap_or">>
    PROVE  r.takes = {"Tag"}
BY DEF Registry, Entries, EntriesOf

LEMMA UnwrapArity ==
    ASSUME NEW e \in Env, NEW t, e.name \in {<<"unwrap">>, <<t, "unwrap">>}
    PROVE  e.arity = 2
BY DEF Env, Entries, EntriesOf

\* A variant is known again by its tag, to the source and to a builtin.
LEMMA Numbering ==
    ASSUME NEW t \in Tags, NEW v \in {GoodOf(t), BadOf(t)}
    PROVE  /\ Discriminant(t, v) \in {0, 1} /\ View("source", t, Discriminant(t, v)) = v
           /\ BuiltinTag(v) \in {0, 1} /\ View("builtin", t, BuiltinTag(v)) = v
<1>1. PICK i \in 1..2 : VariantsOf(t)[i] = v
  BY DEF GoodOf, BadOf, VariantsOf, Tags
<1>2. PICK d : d = (CHOOSE k \in 1..2 : VariantsOf(t)[k] = v)
  OBVIOUS
<1>3. d \in 1..2 /\ VariantsOf(t)[d] = v
  BY <1>1, <1>2
<1>4. Discriminant(t, v) = d - 1 /\ d - 1 \in {0, 1} /\ (d - 1) + 1 = d
  BY <1>2, <1>3 DEF Discriminant
<1>5. BuiltinTag(v) \in {0, 1} /\ View("builtin", t, BuiltinTag(v)) = v
  BY DEF View, BuiltinTag, Good, GoodOf, BadOf, Tags
<1> QED
  BY <1>3, <1>4, <1>5 DEF View

\* Who may take the value for what it is agrees with the builtins on success.
LEMMA Agrees ==
    ASSUME MethodInv, ty \in Tags, ~ crossed, ~ (ty = "Result" /\ maker = "source")
    PROVE  Success(val.tag) <=> meant.variant \in Good
BY DEF MethodInv, MethodTypeOK, ViewKept, View, Success, Good, GoodOf, BadOf, VariantsOf, Tags

-----------------------------------------------------------------------------
(* The steps. *)

LEMMA MethodInitInv == MethodInit => MethodInv
<1> SUFFICES ASSUME MethodInit PROVE MethodInv
  OBVIOUS
<1>1. CASE KindOf(ty) = "Tag"
  <2>1. ty \in Tags
    BY <1>1 DEF MethodInit, KindOf, TypeOf, Tags
  <2>2. PICK v \in {GoodOf(ty), BadOf(ty)} :
           /\ val = [kind |-> "Tag", tag |-> Discriminant(ty, v), content |-> Held(v)]
           /\ meant = [variant |-> v, content |-> Held(v)]
    BY <1>1 DEF MethodInit
  <2>3. DOMAIN Held(v) = {"of", "mapped"}
    BY DEF Held, Content
  <2>4. /\ DOMAIN val = {"kind", "tag", "content"} /\ val.content = Held(v) /\ val.kind = "Tag"
        /\ val.tag = Discriminant(ty, v)
        /\ DOMAIN meant = {"variant", "content"} /\ meant.content = Held(v) /\ meant.variant = v
    BY <2>2
  <2>5. MethodTypeOK
    BY <2>3, <2>4 DEF MethodInit, MethodTypeOK
  <2>6. ValueKept
    BY <1>1, <2>4 DEF ValueKept
  <2>7. ViewKept
    BY <2>1, <2>4, Numbering DEF MethodInit, ViewKept
  <2> QED
    BY <2>5, <2>6, <2>7 DEF MethodInit, MethodInv, Accepted, Emitted, TablesAgree
<1>2. CASE KindOf(ty) # "Tag"
  <2>1. ty \notin Tags
    BY <1>2 DEF KindOf, Tags
  <2>2. /\ DOMAIN val = {"kind", "tag", "content"} /\ val.content = Content("value") /\ val.kind = KindOf(ty)
        /\ DOMAIN meant = {"variant", "content"} /\ meant.content = Content("value")
        /\ DOMAIN Content("value") = {"of", "mapped"}
    BY <1>2 DEF MethodInit, PlainValue, Content
  <2>3. MethodTypeOK
    BY <2>2 DEF MethodInit, MethodTypeOK
  <2>4. ValueKept /\ ViewKept
    BY <2>1, <2>2 DEF ValueKept, ViewKept
  <2> QED
    BY <2>3, <2>4 DEF MethodInit, MethodInv, Accepted, Emitted, TablesAgree
<1> QED
  BY <1>1, <1>2

LEMMA CheckCallStep ==
    ASSUME MethodInv, NEW n \in MethodNames, NEW k \in 1..2, NEW b \in {"no", "global", "local"},
           NEW known \in BOOLEAN, CheckCall(n, k, b, known)
    PROVE  MethodInv'
<1>1. PICK chosen : /\ chosen = (LET bare == IF b # "no" THEN <<"user">> ELSE <<n>>
                                 IN  IF known /\ Named(Env, <<ty, n>>) # {} THEN <<ty, n>> ELSE bare)
                    /\ ty # "other"
                    /\ chosen # <<"user">> => \E e \in Named(Env, chosen) : ty \in e.takes /\ e.arity = k
                    /\ call' = [name |-> n, arity |-> k, bound |-> b, chosen |-> chosen, emitted |-> <<>>]
                    /\ stage' = "checked"
                    /\ UNCHANGED <<ty, val, meant, maker, crossed>>
  BY DEF CheckCall
<1>2. chosen \in {<<n>>, <<ty, n>>} \/ (chosen = <<"user">> /\ b # "no")
  BY <1>1
<1>3. /\ call'.name = n /\ call'.arity = k /\ call'.bound = b /\ call'.chosen = chosen
      /\ DOMAIN call' = {"name", "arity", "bound", "chosen", "emitted"}
  BY <1>1
<1>4. Accepted'
  BY <1>1, <1>2, <1>3 DEF Accepted
<1>5. MethodTypeOK' /\ ValueKept' /\ ViewKept'
  BY <1>1, <1>3 DEF MethodInv, MethodTypeOK, ValueKept, ViewKept
<1> QED
  BY <1>1, <1>4, <1>5 DEF MethodInv, Emitted, TablesAgree

LEMMA LowerStep ==
    ASSUME MethodInv, Lower
    PROVE  MethodInv'
<1>1. PICK q : q = QualifyMethodName(call.name, ty)
  OBVIOUS
<1>2. PICK own : own = (call.bound = "local" \/ (call.bound = "global" /\ q = <<call.name>>))
  OBVIOUS
<1>3. /\ stage = "checked" /\ stage' = "lowered" /\ UNCHANGED <<ty, val, meant, maker, crossed>>
      /\ call' = [call EXCEPT !.emitted = IF own THEN <<"user">> ELSE q]
  BY <1>1, <1>2 DEF Lower
<1>4. /\ DOMAIN call' = {"name", "arity", "bound", "chosen", "emitted"}
      /\ call'.name = call.name /\ call'.arity = call.arity /\ call'.bound = call.bound
      /\ call'.chosen = call.chosen /\ call'.emitted = IF own THEN <<"user">> ELSE q
  BY <1>3 DEF MethodInv, MethodTypeOK
<1>5. Accepted'
  BY <1>3, <1>4 DEF MethodInv, Accepted
<1>6. Emitted'
  <2>1. call.bound \in {"no", "global", "local"}
    BY <1>3 DEF MethodInv, Accepted
  <2> QED
    BY <1>1, <1>2, <1>3, <1>4, <2>1 DEF Emitted
<1>7. MethodTypeOK' /\ ValueKept' /\ ViewKept'
  BY <1>3, <1>4 DEF MethodInv, MethodTypeOK, ValueKept, ViewKept
<1> QED
  BY <1>3, <1>5, <1>6, <1>7 DEF MethodInv, TablesAgree

\* After a builtin there is no call.
LEMMA BecomesInv ==
    ASSUME NEW t, NEW v, NEW m, NEW who, Becomes(t, v, m, who), MethodTypeOK', ValueKept', ViewKept'
    PROVE  MethodInv'
BY DEF Becomes, MethodInv, Accepted, Emitted, TablesAgree

LEMMA RunMapStep ==
    ASSUME MethodInv, RunMap
    PROVE  MethodInv'
<1>1. ty \in Tags /\ stage = "lowered"
  BY DEF MethodInv, MethodTypeOK, RunMap, Calls, KindOf, TypeOf, Tags, Accepted
<1>2. PICK v, m : /\ v = [val EXCEPT !.content = IF Success(val.tag) THEN Mapped(@) ELSE @]
                  /\ m = [meant EXCEPT !.content = IF meant.variant \in Good THEN Mapped(@) ELSE @]
  OBVIOUS
<1>3. Becomes(ty, v, m, maker) /\ crossed' = (crossed \/ (ty = "Result" /\ maker = "source"))
  BY <1>2 DEF RunMap
<1>4. /\ DOMAIN v = {"kind", "tag", "content"} /\ v.kind = val.kind /\ v.tag = val.tag
      /\ v.content = IF Success(val.tag) THEN Mapped(val.content) ELSE val.content
      /\ DOMAIN m = {"variant", "content"} /\ m.variant = meant.variant
      /\ m.content = IF meant.variant \in Good THEN Mapped(meant.content) ELSE meant.content
      /\ DOMAIN v.content = {"of", "mapped"} /\ DOMAIN m.content = {"of", "mapped"}
  BY <1>2 DEF MethodInv, MethodTypeOK, Mapped
<1>5. MethodTypeOK'
  BY <1>3, <1>4 DEF Becomes, MethodInv, MethodTypeOK
<1>6. ValueKept'
  <2>1. ~ crossed' => ~ crossed /\ (Success(val.tag) <=> meant.variant \in Good)
    BY <1>1, <1>3, Agrees DEF MethodInv, MethodTypeOK
  <2> QED
    BY <1>3, <1>4, <2>1 DEF Becomes, MethodInv, ValueKept
<1>7. ViewKept'
  BY <1>3, <1>4 DEF Becomes, MethodInv, ViewKept
<1> QED
  BY <1>3, <1>5, <1>6, <1>7, BecomesInv

LEMMA RunFlatMapStep ==
    ASSUME MethodInv, RunFlatMap
    PROVE  MethodInv'
<1>1. ty \in Tags /\ stage = "lowered"
  BY DEF MethodInv, MethodTypeOK, RunFlatMap, Calls, KindOf, TypeOf, Tags, Accepted
<1>a. PICK w \in {GoodOf(ty), BadOf(ty)} :
         /\ Becomes(ty,
                    IF Success(val.tag)
                    THEN [val EXCEPT !.tag = Discriminant(ty, w),
                                     !.content = IF w \in Good THEN Mapped(@) ELSE Held(w)]
                    ELSE val,
                    IF meant.variant \in Good
                    THEN [variant |-> w, content |-> IF w \in Good THEN Mapped(meant.content) ELSE Held(w)]
                    ELSE meant,
                    IF Success(val.tag) THEN "source" ELSE maker)
         /\ crossed' = (crossed \/ (ty = "Result" /\ maker = "source"))
  BY DEF RunFlatMap
<1>2. PICK v, m, who :
         /\ v = IF Success(val.tag)
                THEN [val EXCEPT !.tag = Discriminant(ty, w),
                                 !.content = IF w \in Good THEN Mapped(@) ELSE Held(w)]
                ELSE val
         /\ m = IF meant.variant \in Good
                THEN [variant |-> w, content |-> IF w \in Good THEN Mapped(meant.content) ELSE Held(w)]
                ELSE meant
         /\ who = (IF Success(val.tag) THEN "source" ELSE maker)
         /\ Becomes(ty, v, m, who)
         /\ crossed' = (crossed \/ (ty = "Result" /\ maker = "source"))
  BY <1>a
<1>3. DOMAIN Held(w) = {"of", "mapped"}
  BY DEF Held, Content
<1>4. /\ DOMAIN v = {"kind", "tag", "content"} /\ v.kind = val.kind
      /\ v.tag = IF Success(val.tag) THEN Discriminant(ty, w) ELSE val.tag
      /\ v.content = IF Success(val.tag) THEN IF w \in Good THEN Mapped(val.content) ELSE Held(w)
                     ELSE val.content
      /\ DOMAIN v.content = {"of", "mapped"}
  BY <1>2, <1>3 DEF MethodInv, MethodTypeOK, Mapped
<1>5. /\ DOMAIN m = {"variant", "content"}
      /\ m.variant = IF meant.variant \in Good THEN w ELSE meant.variant
      /\ m.content = IF meant.variant \in Good THEN IF w \in Good THEN Mapped(meant.content) ELSE Held(w)
                     ELSE meant.content
      /\ DOMAIN m.content = {"of", "mapped"}
  BY <1>2, <1>3 DEF MethodInv, MethodTypeOK, Mapped
<1>6. MethodTypeOK'
  BY <1>2, <1>4, <1>5 DEF Becomes, MethodInv, MethodTypeOK
<1>7. ~ crossed' => ~ crossed /\ (Success(val.tag) <=> meant.variant \in Good)
  BY <1>1, <1>2, Agrees DEF MethodInv, MethodTypeOK
<1>8. ValueKept'
  BY <1>2, <1>4, <1>5, <1>7 DEF Becomes, MethodInv, ValueKept
<1>9. ViewKept'
  <2>1. /\ Discriminant(ty, w) \in {0, 1} /\ View("source", ty, Discriminant(ty, w)) = w
    BY <1>1, <1>2, Numbering
  <2>2. val.tag \in {0, 1} /\ (~ crossed => View(maker, ty, val.tag) = meant.variant)
    BY <1>1 DEF MethodInv, ViewKept
  <2>3. ty' = ty /\ val' = v /\ meant' = m /\ maker' = who
    BY <1>2 DEF Becomes
  <2> QED
    BY <1>2, <1>4, <1>5, <1>7, <2>1, <2>2, <2>3 DEF ViewKept
<1> QED
  BY <1>2, <1>6, <1>8, <1>9, BecomesInv

LEMMA RunUnwrapOrStep ==
    ASSUME MethodInv, RunUnwrapOr
    PROVE  MethodInv'
<1>1. stage = "lowered" /\ call.name = "unwrap_or" /\ Reached
  BY DEF RunUnwrapOr, Calls
<1>2. ty \in Tags
  <2>1. PICK e \in Registry : e.name = call.emitted /\ val.kind \in e.takes
    BY <1>1 DEF Reached, Named, Taken
  <2>2. call.emitted = <<"user">> \/ call.emitted = <<"unwrap_or">>
    BY <1>1 DEF MethodInv, Emitted, QualifyMethodName
  <2>3. call.emitted # <<"user">>
    BY <2>1 DEF Registry, Entries, EntriesOf
  <2>4. val.kind = "Tag"
    BY <2>1, <2>2, <2>3, TakesNothingElse
  <2> QED
    BY <1>1, <2>4 DEF MethodInv, MethodTypeOK, ValueKept, Accepted, KindOf, TypeOf, Tags
<1>3. PICK c, d : /\ c = IF Success(val.tag) THEN val.content ELSE Content("default")
                  /\ d = IF meant.variant \in Good THEN meant.content ELSE Content("default")
  OBVIOUS
<1>4. PICK v, m : v = [PlainValue("I32") EXCEPT !.content = c] /\ m = [variant |-> "none", content |-> d]
  OBVIOUS
<1>5. Becomes("I32", v, m, "builtin") /\ crossed' = (crossed \/ (ty = "Result" /\ maker = "source"))
  BY <1>3, <1>4 DEF RunUnwrapOr
<1>6. DOMAIN Content("default") = {"of", "mapped"}
  BY DEF Content
<1>7. DOMAIN c = {"of", "mapped"} /\ DOMAIN d = {"of", "mapped"}
  BY <1>3, <1>6 DEF MethodInv, MethodTypeOK
<1>8. /\ DOMAIN v = {"kind", "tag", "content"} /\ v.kind = "I32" /\ v.content = c
      /\ DOMAIN m = {"variant", "content"} /\ m.content = d
  BY <1>4 DEF PlainValue, KindOf
<1>9. MethodTypeOK'
  BY <1>5, <1>7, <1>8 DEF Becomes, MethodInv, MethodTypeOK, TypeOf
<1>10. ValueKept'
  <2>1. ~ crossed' => ~ crossed /\ (Success(val.tag) <=> meant.variant \in Good)
    BY <1>2, <1>5, Agrees DEF MethodInv, MethodTypeOK
  <2>2. ~ crossed => val.content = meant.content
    BY <1>2 DEF MethodInv, ValueKept, Tags
  <2> QED
    BY <1>3, <1>5, <1>8, <2>1, <2>2 DEF Becomes, ValueKept, KindOf
<1>11. ViewKept'
  BY <1>5 DEF Becomes, ViewKept, Tags
<1> QED
  BY <1>5, <1>9, <1>10, <1>11, BecomesInv

LEMMA RunBuildStep ==
    ASSUME MethodInv, RunBuild
    PROVE  MethodInv'
<1>a. PICK t \in Tags : \E w \in {GoodOf(t), BadOf(t)} :
         /\ Becomes(t, [kind |-> "Tag", tag |-> BuiltinTag(w), content |-> Held(w)],
                    [variant |-> w, content |-> Held(w)], "builtin")
         /\ UNCHANGED crossed
  BY DEF RunBuild, Tags
<1>b. PICK w \in {GoodOf(t), BadOf(t)} :
         /\ Becomes(t, [kind |-> "Tag", tag |-> BuiltinTag(w), content |-> Held(w)],
                    [variant |-> w, content |-> Held(w)], "builtin")
         /\ UNCHANGED crossed
  BY <1>a
<1>1. PICK v, m :
         /\ v = [kind |-> "Tag", tag |-> BuiltinTag(w), content |-> Held(w)]
         /\ m = [variant |-> w, content |-> Held(w)]
         /\ Becomes(t, v, m, "builtin") /\ UNCHANGED crossed
  BY <1>b
<1>2. DOMAIN Held(w) = {"of", "mapped"}
  BY DEF Held, Content
<1>3. /\ DOMAIN v = {"kind", "tag", "content"} /\ v.kind = "Tag" /\ v.tag = BuiltinTag(w) /\ v.content = Held(w)
      /\ DOMAIN m = {"variant", "content"} /\ m.variant = w /\ m.content = Held(w)
  BY <1>1
<1>4. MethodTypeOK'
  BY <1>1, <1>2, <1>3 DEF Becomes, MethodInv, MethodTypeOK, TypeOf, Tags
<1>5. ValueKept'
  BY <1>1, <1>3 DEF Becomes, ValueKept, KindOf, Tags
<1>6. ViewKept'
  BY <1>1, <1>3, Numbering DEF Becomes, ViewKept
<1> QED
  BY <1>1, <1>4, <1>5, <1>6, BecomesInv

\* Any other builtin takes and gives values that are no tags.
LEMMA RunPlainStep ==
    ASSUME MethodInv, RunPlain
    PROVE  MethodInv'
<1>1. PICK n : n = call.name /\ n \notin {"head", "tail", "parse_i32", "unwrap_or"}
               /\ (n \in {"map", "flat_map"} => ty = "Array")
  BY DEF RunPlain, Calls
<1>2. stage = "lowered" /\ Reached /\ ty \in TypeOf
  BY DEF RunPlain, Calls, MethodInv, MethodTypeOK, Accepted
<1>3. ty \notin Tags
  <2> SUFFICES ASSUME ty \in Tags PROVE FALSE
    OBVIOUS
  <2>1. PICK r \in Registry : r.name = call.emitted /\ val.kind \in r.takes /\ r.arity = call.arity
    BY <1>2 DEF Reached, Named, Taken
  <2>2. call.emitted # <<"user">>
    BY <2>1 DEF Registry, Entries, EntriesOf
  <2>3. call.emitted = <<n>>
    BY <1>1, <1>2, <2>2 DEF MethodInv, Emitted, QualifyMethodName, Tags
  <2>4. val.kind = "Tag"
    BY <1>2 DEF MethodInv, ValueKept, KindOf, Tags
  <2>5. n = "unwrap" /\ call.arity = 1
    BY <1>1, <2>1, <2>3, <2>4, TakesTag
  <2>6. call.bound = "no"
    BY <1>1, <1>2, <2>2, <2>3 DEF MethodInv, Emitted
  <2>7. call.chosen \in {<<"unwrap">>, <<ty, "unwrap">>}
    BY <1>1, <1>2, <2>5, <2>6 DEF MethodInv, Accepted
  <2>8. PICK e \in Env : e.name = call.chosen /\ e.arity = call.arity
    BY <1>2, <2>7 DEF MethodInv, Accepted, Named
  <2> QED
    BY <2>5, <2>7, <2>8, UnwrapArity
<1>4. PICK t : t = ResultOf(n)
  OBVIOUS
<1>5. t \in TypeOf /\ t \notin Tags
  BY <1>2, <1>3, <1>4 DEF ResultOf, TypeOf, Tags
<1>6. PICK v, m : v = PlainValue(t) /\ m = [variant |-> "none", content |-> Content("value")]
  OBVIOUS
<1>7. Becomes(t, v, m, "builtin") /\ UNCHANGED crossed
  BY <1>1, <1>4, <1>6 DEF RunPlain
<1>8. /\ DOMAIN v = {"kind", "tag", "content"} /\ v.kind = KindOf(t) /\ v.content = Content("value")
      /\ DOMAIN m = {"variant", "content"} /\ m.content = Content("value")
      /\ DOMAIN Content("value") = {"of", "mapped"}
  BY <1>6 DEF PlainValue, Content
<1>9. MethodTypeOK'
  BY <1>5, <1>7, <1>8 DEF Becomes, MethodInv, MethodTypeOK
<1>10. ValueKept' /\ ViewKept'
  BY <1>5, <1>7, <1>8 DEF Becomes, ValueKept, ViewKept
<1> QED
  BY <1>7, <1>9, <1>10, BecomesInv

LEMMA RunUserStep ==
    ASSUME MethodInv, RunUser
    PROVE  MethodInv'
BY DEF RunUser, MethodInv, MethodTypeOK, ValueKept, ViewKept, Accepted, Emitted, TablesAgree, Tags

\* A call that reaches no builtin is one on which the tables disagree.
LEMMA FailsStep ==
    ASSUME MethodInv, Fails
    PROVE  MethodInv'
<1>1. /\ stage = "lowered" /\ stage' = "error" /\ call.emitted # <<"user">> /\ ~ Reached
      /\ UNCHANGED <<ty, val, meant, maker, crossed, call>>
  BY DEF Fails
<1>2. <<ty, call.name>> \in Broken \/ Hidden
  <2> SUFFICES ASSUME <<ty, call.name>> \notin Broken, ~ Hidden PROVE FALSE
    OBVIOUS
  <2>1. call.chosen # <<"user">>
    BY <1>1 DEF Hidden
  <2>2. PICK e \in Env : e.name = call.chosen /\ ty \in e.takes /\ e.arity = call.arity
    BY <1>1, <2>1 DEF MethodInv, Accepted, Named
  <2>3. ty \in TypeOf /\ e.name \in {<<call.name>>, <<ty, call.name>>}
    BY <1>1, <2>1, <2>2 DEF MethodInv, MethodTypeOK, Accepted
  <2>4. PICK r \in Registry : /\ r.name = QualifyMethodName(call.name, ty)
                             /\ KindOf(ty) \in r.takes /\ r.arity = e.arity
    BY <2>2, <2>3, IsRegistered
  <2>5. call.emitted = QualifyMethodName(call.name, ty)
    BY <1>1 DEF MethodInv, Emitted
  <2>6. val.kind = KindOf(ty)
    BY <1>1 DEF MethodInv, Accepted, ValueKept
  <2> QED
    BY <1>1, <2>2, <2>4, <2>5, <2>6 DEF Reached, Named, Taken
<1>3. MethodTypeOK' /\ ValueKept' /\ ViewKept'
  BY <1>1 DEF MethodInv, MethodTypeOK, ValueKept, ViewKept
<1> QED
  BY <1>1, <1>2, <1>3 DEF MethodInv, Accepted, Emitted, TablesAgree, Hidden

LEMMA MethodStep == MethodInv /\ [NextStage]_methodVars => MethodInv'
<1> SUFFICES ASSUME MethodInv, [NextStage]_methodVars PROVE MethodInv'
  OBVIOUS
<1>1. CASE UNCHANGED methodVars
  BY <1>1 DEF methodVars, MethodInv, MethodTypeOK, ValueKept, ViewKept, Accepted, Emitted, TablesAgree, Hidden
<1>2. CASE NextStage
  BY <1>2, CheckCallStep, LowerStep, RunMapStep, RunFlatMapStep, RunUnwrapOrStep, RunBuildStep,
     RunPlainStep, RunUserStep, FailsStep DEF NextStage
<1> QED
  BY <1>1, <1>2

\* What the checker accepted, what the lowering emits and what the value is
\* stay in step.
THEOREM MethodsInductive == MethodSpec => []MethodInv
BY MethodInitInv, MethodStep, PTL DEF MethodSpec

\* A call the type checker has accepted as a builtin's reaches one that takes
\* the receiver and so many arguments, but for the pairs of Broken.
THEOREM CallsReach == MethodSpec => []TablesAgree
<1>1. MethodInv => TablesAgree
  BY DEF MethodInv
<1> QED
  BY <1>1, MethodsInductive, PTL

\* The value is what the calls that made it are documented to return, as long
\* as no Result has passed between the program and the builtins.
THEOREM MeaningKept == MethodSpec => []KeepsMeaning
<1>1. MethodInv => KeepsMeaning
  <2> SUFFICES ASSUME MethodInv, ty # "other", ~ crossed
               PROVE  /\ val.content = meant.content
                      /\ KindOf(ty) = "Tag" => View(maker, ty, val.tag) = meant.variant
    BY DEF KeepsMeaning
  <2>1. KindOf(ty) = "Tag" => ty \in Tags
    BY DEF MethodInv, MethodTypeOK, KindOf, TypeOf, Tags
  <2> QED
    BY <2>1 DEF MethodInv, ValueKept, ViewKept
<1> QED
  BY <1>1, MethodsInductive, PTL
-----------------------------------------------------------------------------
(* ClosureRegistry. *)

RegistryTypeOK ==
    /\ buffers \in [Addresses -> Buffers \cup {None}]
    /\ registered \in [Addresses -> Functions \cup {None}]

\* The entry that belongs to what is at address a.
EntryOf(b) == IF b # None /\ b.kind = "builtin" THEN b.fun ELSE None

\* There is an entry exactly where a registered buffer is alive, and it is its.
Registered == \A a \in Addresses : registered[a] = EntryOf(buffers[a])

RegistryInv == RegistryTypeOK /\ Registered /\ NeverAnother

\* A buffer keeps its kind and its function when only its count changes.
LEMMA CountKeepsEntry ==
    ASSUME NEW b \in Buffers, NEW n \in Nat
    PROVE  LET c == [b EXCEPT !.refs = n] IN c \in Buffers /\ EntryOf(c) = EntryOf(b)
  BY NoneApart DEF Buffers, EntryOf

\* A new buffer is a buffer, with the entry its kind asks for.
LEMMA NewBuffer ==
    ASSUME NEW k \in {"builtin", "copy", "other"}, NEW f \in Functions \cup {None}
    PROVE  /\ Buffer(k, f) \in Buffers
           /\ EntryOf(Buffer(k, f)) = IF k = "builtin" THEN f ELSE None
  BY NoneApart DEF Buffers, Buffer, EntryOf

\* What changes the table and the buffers at one address alike keeps them alike.
LEMMA OneAddress ==
    ASSUME RegistryInv, NEW a \in Addresses,
           NEW b \in Buffers \cup {None}, NEW r \in Functions \cup {None},
           r = EntryOf(b),
           buffers' = [buffers EXCEPT ![a] = b],
           registered' = [registered EXCEPT ![a] = r],
           UNCHANGED called
    PROVE  RegistryInv'
<1>1. RegistryTypeOK'
  BY DEF RegistryInv, RegistryTypeOK
<1>2. Registered'
  <2> SUFFICES ASSUME NEW x \in Addresses
               PROVE  registered'[x] = EntryOf(buffers'[x])
    BY DEF Registered, EntryOf
  <2>1. CASE x = a
    BY <2>1 DEF RegistryInv, RegistryTypeOK
  <2>2. CASE x # a
    <3>1. registered'[x] = registered[x] /\ buffers'[x] = buffers[x]
      BY <2>2 DEF RegistryInv, RegistryTypeOK
    <3> QED  BY <3>1 DEF RegistryInv, Registered
  <2> QED  BY <2>1, <2>2
<1>3. NeverAnother'
  BY DEF RegistryInv, NeverAnother
<1> QED  BY <1>1, <1>2, <1>3 DEF RegistryInv

\* Writing what is there already changes nothing.
LEMMA SameEntry ==
    ASSUME RegistryTypeOK, NEW a \in Addresses
    PROVE  registered = [registered EXCEPT ![a] = registered[a]]
  BY DEF RegistryTypeOK

LEMMA RegistryInvInit == RegistryInit => RegistryInv
<1> SUFFICES ASSUME RegistryInit PROVE RegistryInv
  OBVIOUS
<1>1. RegistryTypeOK
  BY DEF RegistryInit, RegistryTypeOK
<1>2. Registered
  BY DEF RegistryInit, Registered, EntryOf
<1>3. NeverAnother
  BY DEF RegistryInit, NeverAnother, NotCalled
<1> QED  BY <1>1, <1>2, <1>3 DEF RegistryInv

LEMMA RegistryInvStep == RegistryInv /\ [RegistryStep]_registryVars => RegistryInv'
<1> SUFFICES ASSUME RegistryInv, [RegistryStep]_registryVars
             PROVE  RegistryInv'
  OBVIOUS
<1>1. CASE UNCHANGED registryVars
  BY <1>1 DEF registryVars, RegistryInv, RegistryTypeOK, Registered, EntryOf, NeverAnother
<1>2. ASSUME NEW a \in Addresses, NEW f \in Functions, Arrive(a, f)
      PROVE  RegistryInv'
  <2>1. Buffer("builtin", f) \in Buffers /\ f = EntryOf(Buffer("builtin", f))
    BY NewBuffer
  <2> QED  BY <1>2, <2>1, OneAddress DEF Arrive
<1>3. ASSUME NEW a \in Addresses, NEW b \in Addresses, CrossAgain(a, b)
      PROVE  RegistryInv'
  <2> DEFINE c == Buffer("copy", buffers[a].fun)
  <2>1. buffers[a].fun \in Functions \cup {None}
    BY <1>3 DEF CrossAgain, Live, RegistryInv, RegistryTypeOK, Buffers
  <2>2. c \in Buffers /\ EntryOf(c) = None
    BY <2>1, NewBuffer
  <2>3. registered[b] = None
    BY <1>3 DEF CrossAgain, FreeAddress, RegistryInv, Registered, EntryOf
  <2>4. registered' = [registered EXCEPT ![b] = None]
    BY <1>3, <2>3, SameEntry DEF CrossAgain, RegistryInv
  <2> HIDE DEF c
  <2>5. buffers' = [buffers EXCEPT ![b] = c] /\ UNCHANGED called
    BY <1>3 DEF CrossAgain, c
  <2> QED  BY <2>2, <2>4, <2>5, OneAddress
<1>4. ASSUME NEW a \in Addresses, Allocate(a)
      PROVE  RegistryInv'
  <2> DEFINE c == Buffer("other", None)
  <2>1. c \in Buffers /\ EntryOf(c) = None
    BY NewBuffer
  <2>2. registered[a] = None
    BY <1>4 DEF Allocate, FreeAddress, RegistryInv, Registered, EntryOf
  <2>3. registered' = [registered EXCEPT ![a] = None]
    BY <1>4, <2>2, SameEntry DEF Allocate, RegistryInv
  <2> HIDE DEF c
  <2>4. buffers' = [buffers EXCEPT ![a] = c] /\ UNCHANGED called
    BY <1>4 DEF Allocate, c
  <2> QED  BY <2>1, <2>3, <2>4, OneAddress
<1>5. ASSUME NEW a \in Addresses, NEW n \in Nat, Live(a),
             buffers' = [buffers EXCEPT ![a].refs = n], UNCHANGED <<registered, called>>
      PROVE  RegistryInv'
  <2> DEFINE c == [buffers[a] EXCEPT !.refs = n]
  <2>1. buffers[a] \in Buffers
    BY <1>5 DEF Live, RegistryInv, RegistryTypeOK
  <2>2. c \in Buffers /\ EntryOf(c) = registered[a]
    BY <2>1, CountKeepsEntry DEF RegistryInv, Registered
  <2>3. registered' = [registered EXCEPT ![a] = registered[a]]
    BY <1>5, SameEntry DEF RegistryInv
  <2>4. registered[a] \in Functions \cup {None}
    BY DEF RegistryInv, RegistryTypeOK
  <2>5. buffers' = [buffers EXCEPT ![a] = c] /\ UNCHANGED called
    BY <1>5 DEF RegistryInv, RegistryTypeOK
  <2> HIDE DEF c
  <2> QED  BY <2>2, <2>3, <2>4, <2>5, OneAddress
<1>6. ASSUME NEW a \in Addresses, Retain(a)
      PROVE  RegistryInv'
  <2>1. buffers[a].refs + 1 \in Nat
    BY <1>6 DEF Retain, Live, RegistryInv, RegistryTypeOK, Buffers
  <2>2. buffers' = [buffers EXCEPT ![a].refs = buffers[a].refs + 1]
    BY <1>6 DEF Retain, RegistryInv, RegistryTypeOK
  <2> QED  BY <1>6, <2>1, <2>2, <1>5 DEF Retain
<1>7. ASSUME NEW a \in Addresses, Release(a)
      PROVE  RegistryInv'
  <2>1. buffers[a] \in Buffers
    BY <1>7 DEF Release, Live, RegistryInv, RegistryTypeOK
  <2>2. CASE buffers[a].refs > 1
    <3>1. buffers[a].refs - 1 \in Nat
      BY <2>1, <2>2 DEF Buffers
    <3>2. buffers' = [buffers EXCEPT ![a].refs = buffers[a].refs - 1]
      BY <1>7, <2>2 DEF Release, RegistryInv, RegistryTypeOK
    <3> QED  BY <1>7, <2>2, <3>1, <3>2, <1>5 DEF Release
  <2>3. CASE ~(buffers[a].refs > 1)
    <3>1. buffers' = [buffers EXCEPT ![a] = None] /\ UNCHANGED called
      BY <1>7, <2>3 DEF Release
    <3>2. registered' = [registered EXCEPT ![a] = None]
      <4>1. CASE buffers[a].kind = "other"
        <5>1. registered[a] = None
          BY <4>1 DEF RegistryInv, Registered, EntryOf
        <5> QED  BY <1>7, <2>3, <4>1, <5>1, SameEntry DEF Release, RegistryInv
      <4>2. CASE buffers[a].kind # "other"
        BY <1>7, <2>3, <4>2 DEF Release
      <4> QED  BY <4>1, <4>2
    <3>3. EntryOf(None) = None
      BY DEF EntryOf
    <3> QED  BY <3>1, <3>2, <3>3, OneAddress
  <2> QED  BY <2>2, <2>3
<1>8. ASSUME NEW a \in Addresses, Dispatch(a)
      PROVE  RegistryInv'
  <2>1. RegistryTypeOK' /\ Registered'
    BY <1>8 DEF Dispatch, RegistryInv, RegistryTypeOK, Registered, EntryOf
  <2>2. NeverAnother'
    BY <1>8 DEF Dispatch, Live, RegistryInv, Registered, EntryOf, NeverAnother
  <2> QED  BY <2>1, <2>2 DEF RegistryInv
<1> QED  BY <1>1, <1>2, <1>3, <1>4, <1>6, <1>7, <1>8 DEF RegistryStep

\* A call of a builtin closure runs the function its buffer was made for; a copy
\* runs nothing, and nothing runs the function that had the address before
\* (jit.rs:4660, 4957).
THEOREM CallsFindTheirs == RegistrySpec => []NeverAnother
<1>1. RegistryInv => NeverAnother
  BY DEF RegistryInv
<1> QED  BY RegistryInvInit, RegistryInvStep, <1>1, PTL DEF RegistrySpec
-----------------------------------------------------------------------------
(* Bridge: the recursion over a value. *)

\* The slots of a value, each with its type.
Children(way, e) == {SlotsOf(way, e)[i] : i \in DOMAIN SlotsOf(way, e)}
\* A value with a type in use.
InUse(e) == e = <<e[1], e[2]>> /\ e[1] \in DOMAIN Levels

\* The types in use, one by one.
LEMMA TypeInUse ==
    ASSUME NEW t \in DOMAIN Levels
    PROVE  /\ Levels[t] \in Nat /\ Formed(t)
           /\ \A p \in PartTypes(t) : p \in DOMAIN Levels /\ Levels[p] \in Nat /\ Levels[p] < Levels[t]
BY BridgeAssumption

\* What is in a slot is of a type that is less deep.
LEMMA SlotsFall ==
    ASSUME NEW way, NEW t \in DOMAIN Levels, NEW x, NEW c \in Children(way, <<t, x>>)
    PROVE  InUse(c) /\ c[1] \in PartTypes(t) /\ Levels[c[1]] < Levels[t]
<1>1. PICK i \in DOMAIN SlotsOf(way, <<t, x>>) : c = SlotsOf(way, <<t, x>>)[i]
  BY DEF Children
<1> SUFFICES c = <<c[1], c[2]>> /\ c[1] \in PartTypes(t)
  BY TypeInUse DEF InUse
<1>2. ASSUME NEW d, NEW j \in DOMAIN FieldsOf(t, d), t.is = "tag" PROVE FieldsOf(t, d)[j] \in PartTypes(t)
  <2>1. d + 1 \in DOMAIN t.variants /\ FieldsOf(t, d) = t.variants[d + 1]
    BY <1>2 DEF FieldsOf
  <2>2. PartTypes(t) = UNION {{vs[k] : k \in DOMAIN vs} : vs \in {t.variants[e] : e \in DOMAIN t.variants}}
    BY <1>2 DEF PartTypes
  <2> QED  BY <2>1, <2>2, <1>2
<1>3. ASSUME NEW j \in DOMAIN t.fields, t.is = "record" PROVE t.fields[j].of \in PartTypes(t)
  BY <1>3 DEF PartTypes
<1>4. ASSUME t.is = "array" PROVE t.of \in PartTypes(t)
  BY <1>4 DEF PartTypes
<1>5. CASE way = "unbox"
  <2>1. SlotsOf(way, <<t, x>>) = Wanted(t, x)
    BY <1>5 DEF SlotsOf
  <2>2. CASE t.is = "array"
    BY <2>1, <2>2, <1>1, <1>4 DEF Wanted
  <2>3. CASE t.is = "record"
    BY <2>1, <2>3, <1>1, <1>3 DEF Wanted
  <2>4. CASE t.is = "tag"
    BY <2>1, <2>4, <1>1, <1>2 DEF Wanted
  <2> QED  BY <2>1, <2>2, <2>3, <2>4, <1>1 DEF Wanted
<1>6. CASE way # "unbox"
  <2>1. SlotsOf(way, <<t, x>>) = Contents(t, x)
    BY <1>6 DEF SlotsOf
  <2>2. CASE t.is = "array"
    BY <2>1, <2>2, <1>1, <1>4 DEF Contents
  <2>3. CASE t.is = "record"
    BY <2>1, <2>3, <1>1, <1>3 DEF Contents
  <2>4. CASE t.is = "tag"
    BY <2>1, <2>4, <1>1, <1>2 DEF Contents
  <2> QED  BY <2>1, <2>2, <2>3, <2>4, <1>1 DEF Contents
<1> QED  BY <1>5, <1>6

\* What is met on the way down is the value and what is in slots that are met,
\* all of it and no more.
LEMMA BelowIs ==
    ASSUME NEW way, NEW t \in DOMAIN Levels, NEW x
    PROVE  /\ <<t, x>> \in Below(way, t, x)
           /\ \A e \in Below(way, t, x) : InUse(e) /\ Levels[e[1]] <= Levels[t] /\ Children(way, e) \subseteq Below(way, t, x)
           /\ \A s : <<t, x>> \in s /\ (\A e \in s : Children(way, e) \subseteq s) => Below(way, t, x) \subseteq s
<1> DEFINE L == Levels[t]
           Grown(before) == before \cup UNION {Children(way, e) : e \in before}
           Met(met, m) == met = [k \in 0 .. m |-> IF k = 0 THEN {<<t, x>>} ELSE Grown(met[k - 1])]
           T == {m \in Nat : \E met : Met(met, m)}
           B == CHOOSE met : Met(met, L)
<1>1. L \in Nat
  BY TypeInUse
<1>2. 0 \in T
  <2>1. Met([k \in 0 .. 0 |-> {<<t, x>>}], 0)
    OBVIOUS
  <2> QED  BY <2>1
<1>3. Below(way, t, x) = B[L]
  BY DEF Below, Children
<1> HIDE DEF Grown
<1>4. ASSUME NEW m \in Nat, m \in T PROVE m + 1 \in T
  <2>1. PICK f : Met(f, m)
    BY <1>4
  <2>2. PICK g : g = [k \in 0 .. m + 1 |-> IF k = m + 1 THEN Grown(f[m]) ELSE f[k]]
    OBVIOUS
  <2>3. f[0] = {<<t, x>>} /\ \A k \in 1 .. m : f[k] = Grown(f[k - 1])
    <3>1. 0 \in 0 .. m /\ \A k \in 1 .. m : k \in 0 .. m /\ k # 0
      OBVIOUS
    <3> QED  BY <2>1, <3>1
  <2>4. g[0] = {<<t, x>>} /\ \A k \in 1 .. m + 1 : g[k] = Grown(g[k - 1])
    <3>1. g[0] = {<<t, x>>}
      BY <2>2, <2>3
    <3>2. ASSUME NEW k \in 1 .. m + 1 PROVE g[k] = Grown(g[k - 1])
      <4>1. CASE k = m + 1
        <5>1. g[k - 1] = f[m] /\ g[k] = Grown(f[m])
          BY <2>2, <4>1
        <5> QED  BY <5>1
      <4>2. CASE k # m + 1
        <5>1. k \in 1 .. m /\ g[k - 1] = f[k - 1] /\ g[k] = f[k]
          BY <2>2, <4>2
        <5> QED  BY <5>1, <2>3
      <4> QED  BY <4>1, <4>2
    <3> QED  BY <3>1, <3>2
  <2>5. Met(g, m + 1)
    <3>1. \A k \in 0 .. m + 1 : k = 0 \/ k \in 1 .. m + 1
      OBVIOUS
    <3>2. g = [k \in 0 .. m + 1 |-> g[k]]
      BY <2>2
    <3> QED  BY <3>1, <3>2, <2>4
  <2> QED  BY <2>5
<1> HIDE DEF T
<1>5. L \in T
  BY <1>1, <1>2, <1>4, Induction
<1>6. Met(B, L)
  BY <1>5 DEF T
<1> HIDE DEF B
<1>7. B[0] = {<<t, x>>} /\ \A k \in 1 .. L : B[k] = Grown(B[k - 1])
  <2>1. 0 \in 0 .. L /\ \A k \in 1 .. L : k \in 0 .. L /\ k # 0
    BY <1>1
  <2> QED  BY <1>6, <2>1
<1> HIDE DEF Met
<1> USE DEF Grown
\* What is met last has no slots left to fill.
<1> DEFINE Low(n) == \A e \in B[n] : /\ InUse(e) /\ Levels[e[1]] <= L
                                     /\ Levels[e[1]] + n <= L \/ Children(way, e) \subseteq B[n]
           U == {n \in Nat : n <= L => <<t, x>> \in B[n] /\ Low(n)}
<1>8. Nat \subseteq U
  <2>1. 0 \in U
    BY <1>1, <1>7 DEF InUse
  <2>2. ASSUME NEW n \in Nat, n \in U PROVE n + 1 \in U
    <3> SUFFICES ASSUME n + 1 <= L PROVE <<t, x>> \in B[n + 1] /\ Low(n + 1)
      OBVIOUS
    <3>1. n + 1 \in 1 .. L /\ n + 1 - 1 = n
      BY <1>1
    <3>2. B[n + 1] = Grown(B[n])
      BY <3>1, <1>7
    <3>3. <<t, x>> \in B[n] /\ Low(n)
      BY <2>2, <1>1
    <3>4. ASSUME NEW e \in B[n] PROVE /\ InUse(e) /\ Levels[e[1]] <= L /\ Children(way, e) \subseteq B[n + 1]
      BY <3>2, <3>3
    <3>5. ASSUME NEW p \in B[n], NEW e \in Children(way, p), e \notin B[n]
          PROVE  InUse(e) /\ Levels[e[1]] + n + 1 <= L
      <4>1. InUse(p) /\ Levels[p[1]] + n <= L
        BY <3>3, <3>5
      <4>2. e \in Children(way, <<p[1], p[2]>>)
        BY <4>1 DEF InUse
      <4>3. InUse(e) /\ Levels[e[1]] < Levels[p[1]]
        <5>1. p[1] \in DOMAIN Levels
          BY <4>1 DEF InUse
        <5> QED  BY <5>1, <4>2, SlotsFall
      <4>4. Levels[e[1]] \in Nat /\ Levels[p[1]] \in Nat
        BY <4>1, <4>3, TypeInUse DEF InUse
      <4> QED  BY <4>1, <4>3, <4>4, <1>1
    <3>6. ASSUME NEW e \in B[n + 1], e \notin B[n] PROVE InUse(e) /\ Levels[e[1]] + n + 1 <= L /\ Levels[e[1]] <= L
      <4>1. InUse(e) /\ Levels[e[1]] + n + 1 <= L
        BY <3>2, <3>5, <3>6
      <4>2. Levels[e[1]] \in Nat
        BY <4>1, TypeInUse DEF InUse
      <4> QED  BY <4>1, <4>2, <1>1
    <3>7. Low(n + 1)
      <4> SUFFICES ASSUME NEW e \in B[n + 1]
                   PROVE /\ InUse(e) /\ Levels[e[1]] <= L
                         /\ Levels[e[1]] + (n + 1) <= L \/ Children(way, e) \subseteq B[n + 1]
        OBVIOUS
      <4>1. CASE e \in B[n]
        BY <4>1, <3>4
      <4>2. CASE e \notin B[n]
        <5>1. InUse(e) /\ Levels[e[1]] + n + 1 <= L /\ Levels[e[1]] <= L
          BY <4>2, <3>6
        <5>2. Levels[e[1]] \in Nat
          BY <5>1, TypeInUse DEF InUse
        <5> QED  BY <5>1, <5>2, <1>1
      <4> QED  BY <4>1, <4>2
    <3>8. <<t, x>> \in B[n + 1]
      BY <3>2, <3>3
    <3> QED  BY <3>7, <3>8
  <2> HIDE DEF U
  <2> QED  BY <2>1, <2>2, Induction
<1>9. <<t, x>> \in B[L] /\ Low(L)
  BY <1>1, <1>8
<1>10. ASSUME NEW e \in B[L] PROVE Children(way, e) \subseteq B[L]
  <2>1. InUse(e) /\ (Levels[e[1]] + L <= L \/ Children(way, e) \subseteq B[L])
    BY <1>9
  <2>2. Levels[e[1]] \in Nat
    BY <2>1, TypeInUse DEF InUse
  <2>3. CASE Levels[e[1]] = 0
    <3> SUFFICES ASSUME NEW c \in Children(way, e) PROVE FALSE
      OBVIOUS
    <3>1. c \in Children(way, <<e[1], e[2]>>)
      BY <2>1 DEF InUse
    <3>2. InUse(c) /\ Levels[c[1]] < Levels[e[1]]
      BY <2>1, <3>1, SlotsFall DEF InUse
    <3>3. Levels[c[1]] \in Nat
      BY <3>2, TypeInUse DEF InUse
    <3> QED  BY <2>3, <3>2, <3>3
  <2> QED  BY <2>1, <2>2, <2>3, <1>1
<1>11. ASSUME NEW s, <<t, x>> \in s, \A e \in s : Children(way, e) \subseteq s
       PROVE  B[L] \subseteq s
  <2> DEFINE V == {n \in Nat : n <= L => B[n] \subseteq s}
  <2>1. 0 \in V
    BY <1>7, <1>11
  <2>2. ASSUME NEW n \in Nat, n \in V PROVE n + 1 \in V
    <3> SUFFICES ASSUME n + 1 <= L PROVE B[n + 1] \subseteq s
      OBVIOUS
    <3>1. n + 1 \in 1 .. L /\ n + 1 - 1 = n /\ n <= L
      BY <1>1
    <3>2. B[n] \subseteq s
      BY <2>2, <3>1
    <3>3. B[n + 1] = Grown(B[n])
      BY <3>1, <1>7
    <3> QED  BY <3>2, <3>3, <1>11
  <2> HIDE DEF V
  <2>3. Nat \subseteq V
    BY <2>1, <2>2, Induction
  <2> QED  BY <1>1, <2>3 DEF V
<1> QED  BY <1>3, <1>9, <1>10, <1>11

\* What a value is made into, from what its slots are made into.
Wholly(way, s, w) ==
    w = [e \in s |-> Made(way, e, [i \in DOMAIN SlotsOf(way, e) |-> w[SlotsOf(way, e)[i]]])]

\* On a set with all slots of its values there is such a function.
LEMMA WholeExists ==
    ASSUME NEW way, NEW s, \A e \in s : InUse(e) /\ Children(way, e) \subseteq s, NEW m \in Nat,
           \A e \in s : Levels[e[1]] < m
    PROVE  \E w : Wholly(way, s, w)
<1> DEFINE S(k) == {e \in s : Levels[e[1]] < k}
           Q(k) == \E w : Wholly(way, S(k), w)
           T == {k \in Nat : Q(k)}
<1>1. ASSUME NEW e \in s PROVE Levels[e[1]] \in Nat
  <2>1. e[1] \in DOMAIN Levels
    BY DEF InUse
  <2> QED  BY <2>1, TypeInUse
<1>2. ASSUME NEW e \in s, NEW i \in DOMAIN SlotsOf(way, e)
      PROVE  SlotsOf(way, e)[i] \in s /\ Levels[SlotsOf(way, e)[i][1]] < Levels[e[1]]
  <2>1. PICK c \in Children(way, e) : c = SlotsOf(way, e)[i]
    BY DEF Children
  <2>2. e[1] \in DOMAIN Levels /\ e = <<e[1], e[2]>>
    BY DEF InUse
  <2>3. Levels[c[1]] < Levels[e[1]]
    BY <2>2, SlotsFall
  <2> QED  BY <2>1, <2>3
<1>3. 0 \in T
  <2>1. S(0) = {}
    BY <1>1
  <2>2. Wholly(way, {}, [e \in {} |-> e])
    BY DEF Wholly
  <2> QED  BY <2>1, <2>2
<1>4. ASSUME NEW k \in Nat, k \in T PROVE k + 1 \in T
  <2>1. PICK w : Wholly(way, S(k), w)
    BY <1>4
  <2> DEFINE F(e) == Made(way, e, [i \in DOMAIN SlotsOf(way, e) |-> w[SlotsOf(way, e)[i]]])
             G(v, e) == Made(way, e, [i \in DOMAIN SlotsOf(way, e) |-> v[SlotsOf(way, e)[i]]])
  <2>2. PICK v : v = [e \in S(k + 1) |-> F(e)]
    OBVIOUS
  <2>3. \A e \in S(k) : w[e] = F(e)
    BY <2>1 DEF Wholly
  <2>4. ASSUME NEW e \in S(k + 1) PROVE F(e) = G(v, e)
    <3>1. ASSUME NEW i \in DOMAIN SlotsOf(way, e) PROVE w[SlotsOf(way, e)[i]] = v[SlotsOf(way, e)[i]]
      <4>1. PICK c : c = SlotsOf(way, e)[i]
        OBVIOUS
      <4>2. c \in s /\ Levels[c[1]] < Levels[e[1]]
        BY <1>2, <4>1
      <4>3. Levels[c[1]] \in Nat /\ Levels[e[1]] \in Nat /\ Levels[e[1]] < k + 1
        BY <4>2, <1>1
      <4>4. c \in S(k) /\ c \in S(k + 1)
        BY <4>2, <4>3
      <4>5. w[c] = F(c) /\ v[c] = F(c)
        BY <4>4, <2>2, <2>3
      <4> QED  BY <4>1, <4>5
    <3>2. [i \in DOMAIN SlotsOf(way, e) |-> w[SlotsOf(way, e)[i]]] = [i \in DOMAIN SlotsOf(way, e) |-> v[SlotsOf(way, e)[i]]]
      BY <3>1
    <3> QED  BY <3>2
  <2> HIDE DEF F
  <2>5. v = [e \in S(k + 1) |-> G(v, e)]
    BY <2>2, <2>4
  <2>6. Wholly(way, S(k + 1), v)
    BY <2>5 DEF Wholly
  <2>7. Q(k + 1)
    BY <2>6
  <2> HIDE DEF Q
  <2> QED  BY <2>7
<1> HIDE DEF T
<1>5. m \in T
  BY <1>3, <1>4, Induction
<1>6. S(m) = s
  OBVIOUS
<1> QED  BY <1>5, <1>6 DEF T

\* Two of them agree on what both are about.
LEMMA WholeUnique ==
    ASSUME NEW way, NEW s, NEW u, NEW w, NEW v, Wholly(way, s, w), Wholly(way, u, v),
           \A e \in s : InUse(e) /\ Children(way, e) \subseteq s,
           u \subseteq s, \A e \in u : Children(way, e) \subseteq u
    PROVE  \A e \in u : v[e] = w[e]
<1> DEFINE T == {k \in Nat : \A e \in u : Levels[e[1]] < k => v[e] = w[e]}
<1>1. ASSUME NEW e \in s PROVE Levels[e[1]] \in Nat
  <2>1. e[1] \in DOMAIN Levels
    BY DEF InUse
  <2> QED  BY <2>1, TypeInUse
<1>2. 0 \in T
  BY <1>1
<1>3. ASSUME NEW k \in Nat, k \in T PROVE k + 1 \in T
  <2> SUFFICES ASSUME NEW e \in u, Levels[e[1]] < k + 1 PROVE v[e] = w[e]
    OBVIOUS
  <2>1. ASSUME NEW i \in DOMAIN SlotsOf(way, e) PROVE v[SlotsOf(way, e)[i]] = w[SlotsOf(way, e)[i]]
    <3>1. PICK c \in Children(way, e) : c = SlotsOf(way, e)[i]
      BY DEF Children
    <3>2. e[1] \in DOMAIN Levels /\ e = <<e[1], e[2]>>
      BY DEF InUse
    <3>3. Levels[c[1]] < Levels[e[1]] /\ c \in u
      BY <3>2, SlotsFall
    <3>4. Levels[c[1]] \in Nat /\ Levels[e[1]] \in Nat
      BY <3>3, <1>1
    <3> QED  BY <3>1, <3>3, <3>4, <1>3
  <2>2. [i \in DOMAIN SlotsOf(way, e) |-> w[SlotsOf(way, e)[i]]] = [i \in DOMAIN SlotsOf(way, e) |-> v[SlotsOf(way, e)[i]]]
    BY <2>1
  <2>3. /\ v[e] = Made(way, e, [i \in DOMAIN SlotsOf(way, e) |-> v[SlotsOf(way, e)[i]]])
        /\ w[e] = Made(way, e, [i \in DOMAIN SlotsOf(way, e) |-> w[SlotsOf(way, e)[i]]])
    BY DEF Wholly
  <2> QED  BY <2>2, <2>3
<1> HIDE DEF T
<1>4. Nat \subseteq T
  BY <1>2, <1>3, Induction
<1>5. ASSUME NEW e \in u PROVE v[e] = w[e]
  <2>1. Levels[e[1]] \in Nat
    BY <1>1
  <2>2. Levels[e[1]] + 1 \in Nat /\ Levels[e[1]] < Levels[e[1]] + 1
    BY <2>1
  <2> QED  BY <2>2, <1>4 DEF T
<1> QED  BY <1>5

\* A value is converted slot by slot.
LEMMA Unfold ==
    ASSUME NEW way, NEW t \in DOMAIN Levels, NEW x
    PROVE  Converted(way, t, x) =
             Made(way, <<t, x>>, [i \in DOMAIN SlotsOf(way, <<t, x>>) |->
                                     Converted(way, SlotsOf(way, <<t, x>>)[i][1], SlotsOf(way, <<t, x>>)[i][2])])
<1> DEFINE W(e) == CHOOSE w : Wholly(way, Below(way, e[1], e[2]), w)
<1>1. ASSUME NEW e, e[1] \in DOMAIN Levels
      PROVE  Wholly(way, Below(way, e[1], e[2]), W(e)) /\ Converted(way, e[1], e[2]) = W(e)[<<e[1], e[2]>>]
  <2>1. \A d \in Below(way, e[1], e[2]) :
            InUse(d) /\ Levels[d[1]] <= Levels[e[1]] /\ Children(way, d) \subseteq Below(way, e[1], e[2])
    BY <1>1, BelowIs
  <2>2. Levels[e[1]] + 1 \in Nat
    BY <1>1, TypeInUse
  <2>3. \A d \in Below(way, e[1], e[2]) : Levels[d[1]] < Levels[e[1]] + 1
    <3> TAKE d \in Below(way, e[1], e[2])
    <3>1. d[1] \in DOMAIN Levels /\ Levels[d[1]] <= Levels[e[1]]
      BY <2>1 DEF InUse
    <3>2. Levels[d[1]] \in Nat /\ Levels[e[1]] \in Nat
      BY <1>1, <3>1, TypeInUse
    <3> QED  BY <3>1, <3>2
  <2>4. \E w : Wholly(way, Below(way, e[1], e[2]), w)
    BY <2>1, <2>2, <2>3, WholeExists
  <2> QED  BY <2>4 DEF Converted, Wholly
<1> HIDE DEF W
<1>2. PICK e : e = <<t, x>>
  OBVIOUS
<1>3. e[1] = t /\ e[2] = x
  BY <1>2
<1>4. /\ \A d \in Below(way, t, x) : InUse(d) /\ Children(way, d) \subseteq Below(way, t, x)
      /\ e \in Below(way, t, x)
  BY <1>2, BelowIs
<1>5. Wholly(way, Below(way, t, x), W(e)) /\ Converted(way, t, x) = W(e)[e]
  BY <1>1, <1>2, <1>3
<1>6. ASSUME NEW i \in DOMAIN SlotsOf(way, e)
      PROVE  W(e)[SlotsOf(way, e)[i]] = Converted(way, SlotsOf(way, e)[i][1], SlotsOf(way, e)[i][2])
  <2>1. PICK c \in Children(way, e) : c = SlotsOf(way, e)[i]
    BY DEF Children
  <2>2. InUse(c) /\ c \in Below(way, t, x)
    BY <1>2, <1>4, SlotsFall
  <2>3. c[1] \in DOMAIN Levels /\ c = <<c[1], c[2]>>
    BY <2>2 DEF InUse
  <2>4. /\ \A d \in Below(way, c[1], c[2]) : Children(way, d) \subseteq Below(way, c[1], c[2])
        /\ c \in Below(way, c[1], c[2])
        /\ Below(way, c[1], c[2]) \subseteq Below(way, t, x)
    BY <2>2, <2>3, <1>4, BelowIs
  <2>5. Wholly(way, Below(way, c[1], c[2]), W(c)) /\ Converted(way, c[1], c[2]) = W(c)[c]
    BY <2>3, <1>1
  <2>6. W(c)[c] = W(e)[c]
    <3>1. PICK s, u, w, v : s = Below(way, t, x) /\ u = Below(way, c[1], c[2]) /\ w = W(e) /\ v = W(c)
      OBVIOUS
    <3>2. \A d \in s : InUse(d) /\ Children(way, d) \subseteq s
      BY <3>1, <1>4
    <3>3. u \subseteq s /\ c \in u
      BY <3>1, <2>4
    <3>4. \A d \in u : Children(way, d) \subseteq u
      BY <3>1, <2>4
    <3>5. Wholly(way, s, w)
      BY <3>1, <1>5
    <3>6. Wholly(way, u, v)
      BY <3>1, <2>5
    <3>7. \A d \in u : v[d] = w[d]
      BY <3>2, <3>3, <3>4, <3>5, <3>6, WholeUnique, SMTT(60)
    <3> QED  BY <3>1, <3>3, <3>7
  <2> QED  BY <2>1, <2>5, <2>6
<1>7. W(e)[e] = Made(way, e, [i \in DOMAIN SlotsOf(way, e) |-> W(e)[SlotsOf(way, e)[i]]])
  BY <1>4, <1>5 DEF Wholly
<1>8. [i \in DOMAIN SlotsOf(way, e) |-> W(e)[SlotsOf(way, e)[i]]]
      = [i \in DOMAIN SlotsOf(way, e) |-> Converted(way, SlotsOf(way, e)[i][1], SlotsOf(way, e)[i][2])]
  BY <1>6
<1> QED  BY <1>2, <1>5, <1>7, <1>8
-----------------------------------------------------------------------------
(* Bridge: values of compiled code, and what they are boxed to. *)

HasSlots(t) == t.is \in {"array", "record", "tag"}
\* The type of a slot, and what the slots of a value are made into.
SlotType(t, n, i) == Contents(t, n)[i][1]
Parts(way, t, n) == [i \in DOMAIN Contents(t, n) |-> Converted(way, SlotType(t, n, i), Contents(t, n)[i][2])]

LEMMA MadeOf ==
    ASSUME NEW t \in DOMAIN Levels, NEW n
    PROVE  /\ Converted("box", t, n) = Boxed(t, n, Parts("box", t, n))
           /\ Meaning(n, t) = Meant(t, n, Parts("mean", t, n))
           /\ Changed(n, t) = HasChanged(t, n, Parts("change", t, n))
           /\ Emptied(n, t) = IsEmptied(t, n, Parts("empty", t, n))
           /\ IsOf(n, t) = (Shaped(t, n) /\ \A i \in DOMAIN Contents(t, n) : IsOf(Contents(t, n)[i][2], SlotType(t, n, i)))
<1>1. ASSUME NEW way \in {"box", "mean", "change", "empty", "type"}
      PROVE  Converted(way, t, n) = Made(way, <<t, n>>, Parts(way, t, n))
  <2>1. SlotsOf(way, <<t, n>>) = Contents(t, n)
    BY DEF SlotsOf
  <2> QED  BY <2>1, Unfold DEF Parts, SlotType
<1>2. Converted("box", t, n) = Boxed(t, n, Parts("box", t, n))
  BY <1>1 DEF Made
<1>3. Meaning(n, t) = Meant(t, n, Parts("mean", t, n))
  BY <1>1 DEF Made, Meaning
<1>4. Changed(n, t) = HasChanged(t, n, Parts("change", t, n))
  BY <1>1 DEF Made, Changed
<1>5. Emptied(n, t) = IsEmptied(t, n, Parts("empty", t, n))
  BY <1>1 DEF Made, Emptied
<1>6. IsOf(n, t) = (Shaped(t, n) /\ \A i \in DOMAIN Parts("type", t, n) : Parts("type", t, n)[i])
  BY <1>1 DEF Made, IsOf
<1>7. \A i \in DOMAIN Contents(t, n) : Parts("type", t, n)[i] = IsOf(Contents(t, n)[i][2], SlotType(t, n, i))
  BY DEF Parts, IsOf
<1>8. DOMAIN Parts("type", t, n) = DOMAIN Contents(t, n)
  BY DEF Parts
<1>9. IsOf(n, t) = (Shaped(t, n) /\ \A i \in DOMAIN Contents(t, n) : IsOf(Contents(t, n)[i][2], SlotType(t, n, i)))
  BY <1>6, <1>7, <1>8
<1> QED  BY <1>2, <1>3, <1>4, <1>5, <1>9

\* The kinds of types.
LEMMA TypeKinds ==
    ASSUME NEW t \in DOMAIN Levels
    PROVE  /\ HasSlots(t) \/ t.is \in {"i8", "i32", "usize", "bool", "unit", "f32", "f64", "str"}
           /\ NeedsHeapBoxing(t) <=> HasSlots(t)
           /\ t.is # "closure"
BY TypeInUse DEF Formed, HasSlots, NeedsHeapBoxing

\* A value of a type is no Garbage, and it has a part for each slot.
LEMMA Whole ==
    ASSUME NEW t \in DOMAIN Levels, NEW n, IsOf(n, t)
    PROVE  /\ Shaped(t, n) /\ n # Garbage
           /\ HasSlots(t) =>
                 /\ IsRow(n.parts) /\ DOMAIN Contents(t, n) = 1 .. Len(n.parts)
                 /\ \A i \in 1 .. Len(n.parts) :
                       /\ Contents(t, n)[i] = <<SlotType(t, n, i), n.parts[i]>>
                       /\ SlotType(t, n, i) \in DOMAIN Levels /\ Levels[SlotType(t, n, i)] < Levels[t]
                       /\ IsOf(n.parts[i], SlotType(t, n, i))
           /\ ~HasSlots(t) => Contents(t, n) = <<>>
<1>1. Shaped(t, n) /\ \A i \in DOMAIN Contents(t, n) : IsOf(Contents(t, n)[i][2], SlotType(t, n, i))
  BY MadeOf
<1>2. n # Garbage
  <2>1. \/ n = Word(n.n) \/ n = Word(0) \/ n = Real(n.r) \/ n = Text(n.s)
        \/ n = Block(n.parts) \/ n = Variant(n.disc, n.parts)
    BY <1>1, TypeKinds DEF Shaped, HasSlots
  <2>2. n.as # "garbage"
    BY <2>1 DEF Word, Real, Text, Block, Variant
  <2> QED  BY <2>2 DEF Garbage
<1>3. ~HasSlots(t) => Contents(t, n) = <<>>
  BY <1>2 DEF Contents, HasSlots
<1>4. ASSUME HasSlots(t)
      PROVE  /\ IsRow(n.parts) /\ DOMAIN Contents(t, n) = 1 .. Len(n.parts)
             /\ \A i \in 1 .. Len(n.parts) : Contents(t, n)[i] = <<SlotType(t, n, i), n.parts[i]>>
  <2>1. CASE t.is = "array"
    <3>1. IsRow(n.parts)
      BY <1>1, <2>1 DEF Shaped
    <3>2. DOMAIN n.parts = 1 .. Len(n.parts)
      BY <3>1 DEF IsRow
    <3>3. Contents(t, n) = [i \in DOMAIN n.parts |-> <<t.of, n.parts[i]>>]
      BY <1>2, <2>1 DEF Contents
    <3> QED  BY <3>1, <3>2, <3>3 DEF SlotType
  <2>2. CASE t.is = "record"
    <3>1. n.parts = [i \in DOMAIN t.fields |-> n.parts[i]]
      BY <1>1, <2>2 DEF Shaped
    <3>2. IsRow(t.fields)
      BY <2>2, TypeInUse DEF Formed
    <3>3. PICK k \in Nat : k = Len(t.fields) /\ DOMAIN t.fields = 1 .. k
      BY <3>2 DEF IsRow
    <3>4. IsRow(n.parts) /\ Len(n.parts) = k
      BY <3>1, <3>3 DEF IsRow
    <3>5. Contents(t, n) = [i \in DOMAIN t.fields |-> <<t.fields[i].of, n.parts[i]>>]
      BY <1>2, <2>2 DEF Contents
    <3> QED  BY <3>3, <3>4, <3>5 DEF SlotType
  <2>3. CASE t.is = "tag"
    <3>1. n.disc + 1 \in DOMAIN t.variants /\ n.parts = [i \in DOMAIN t.variants[n.disc + 1] |-> n.parts[i]]
      BY <1>1, <2>3 DEF Shaped
    <3>2. IsRow(t.variants[n.disc + 1])
      BY <2>3, <3>1, TypeInUse DEF Formed
    <3>3. PICK k \in Nat : k = Len(t.variants[n.disc + 1]) /\ DOMAIN t.variants[n.disc + 1] = 1 .. k
      BY <3>2 DEF IsRow
    <3>4. IsRow(n.parts) /\ Len(n.parts) = k
      BY <3>1, <3>3 DEF IsRow
    <3>5. FieldsOf(t, n.disc) = t.variants[n.disc + 1]
      BY <3>1 DEF FieldsOf
    <3>6. Contents(t, n) = [i \in DOMAIN t.variants[n.disc + 1] |-> <<t.variants[n.disc + 1][i], n.parts[i]>>]
      BY <1>2, <2>3, <3>5 DEF Contents
    <3>7. \A i \in 1 .. k : Contents(t, n)[i] = <<SlotType(t, n, i), n.parts[i]>>
      BY <3>3, <3>6 DEF SlotType
    <3>8. DOMAIN Contents(t, n) = 1 .. k
      BY <3>3, <3>6
    <3> QED  BY <3>4, <3>7, <3>8
  <2> QED  BY <1>4, <2>1, <2>2, <2>3 DEF HasSlots
<1>5. ASSUME NEW i \in DOMAIN Contents(t, n)
      PROVE  SlotType(t, n, i) \in DOMAIN Levels /\ Levels[SlotType(t, n, i)] < Levels[t]
  <2>1. SlotsOf("box", <<t, n>>) = Contents(t, n)
    BY DEF SlotsOf
  <2>2. PICK c \in Children("box", <<t, n>>) : c = Contents(t, n)[i]
    BY <2>1 DEF Children
  <2>3. InUse(c) /\ Levels[c[1]] < Levels[t]
    BY SlotsFall
  <2> QED  BY <2>2, <2>3 DEF InUse, SlotType
<1>6. ASSUME HasSlots(t), NEW i \in 1 .. Len(n.parts) PROVE IsOf(n.parts[i], SlotType(t, n, i))
  <2>1. i \in DOMAIN Contents(t, n) /\ Contents(t, n)[i] = <<SlotType(t, n, i), n.parts[i]>>
    BY <1>4, <1>6
  <2>2. Contents(t, n)[i][2] = n.parts[i]
    BY <2>1
  <2> QED  BY <1>1, <2>1, <2>2
<1> QED  BY <1>1, <1>2, <1>3, <1>4, <1>5, <1>6

\* What holds of a type if it holds of all that are less deep, holds of all.
LEMMA TypeInduction ==
    ASSUME NEW S, \A t \in DOMAIN Levels : (\A p \in DOMAIN Levels : Levels[p] < Levels[t] => p \in S) => t \in S
    PROVE  DOMAIN Levels \subseteq S
<1> DEFINE T == {k \in Nat : \A t \in DOMAIN Levels : Levels[t] < k => t \in S}
<1>1. \A t \in DOMAIN Levels : Levels[t] \in Nat
  BY TypeInUse
<1>2. 0 \in T
  BY <1>1
<1>3. ASSUME NEW k \in Nat, k \in T PROVE k + 1 \in T
  <2> SUFFICES ASSUME NEW t \in DOMAIN Levels, Levels[t] < k + 1 PROVE t \in S
    OBVIOUS
  <2>1. \A p \in DOMAIN Levels : Levels[p] < Levels[t] => Levels[p] < k
    BY <1>1
  <2> QED  BY <2>1, <1>3
<1> HIDE DEF T
<1>4. Nat \subseteq T
  BY <1>2, <1>3, Induction
<1>5. ASSUME NEW t \in DOMAIN Levels PROVE t \in S
  <2>1. Levels[t] + 1 \in Nat /\ Levels[t] < Levels[t] + 1
    BY <1>1
  <2> QED  BY <2>1, <1>4 DEF T
<1> QED  BY <1>5

\* Rows by their length and their members.
LEMMA Rows ==
    ASSUME NEW s, NEW k \in Nat, s = [i \in 1 .. k |-> s[i]]
    PROVE  IsRow(s) /\ Len(s) = k /\ DOMAIN s = 1 .. k
BY DEF IsRow

LEMMA PayloadIs ==
    ASSUME NEW s, NEW k \in Nat, s = [i \in 1 .. k |-> s[i]]
    PROVE  /\ k # 1 \/ s[1].v \notin {"Unit", "Array"} => Payload(s) = s
           /\ k = 1 /\ s[1].v = "Unit" => Payload(s) = <<>>
           /\ k = 1 /\ s[1].v = "Array" => Payload(s) = s[1].parts
BY Rows DEF Payload

\* Each field of a record is at its place.
LEMMA FieldAt ==
    ASSUME NEW t \in DOMAIN Levels, t.is = "record", NEW i \in DOMAIN t.fields
    PROVE  t.fields[i].name \in NamesOf(t) /\ At(t, t.fields[i].name) = i
<1>1. \A j \in DOMAIN t.fields : t.fields[j].name = t.fields[i].name => j = i
  BY TypeInUse DEF Formed
<1> QED  BY <1>1 DEF NamesOf, At

LEMMA FieldNamed ==
    ASSUME NEW t \in DOMAIN Levels, t.is = "record", NEW f \in NamesOf(t)
    PROVE  At(t, f) \in DOMAIN t.fields /\ t.fields[At(t, f)].name = f
BY DEF NamesOf, At

\* What a value is boxed to, and as what: a value of an array as an array, and
\* nothing else as one.
LEMMA BoxKind ==
    ASSUME NEW t \in DOMAIN Levels, NEW n, IsOf(n, t)
    PROVE  /\ Box(n, t) = Boxed(t, n, Parts("box", t, n)) /\ Box(n, t) = Converted("box", t, n)
           /\ ~HasSlots(t) => Box(n, t) = BoxScalar(n, t)
           /\ t.is = "array" => Box(n, t) = Elements(Parts("box", t, n))
           /\ t.is = "record" => Box(n, t) = RecordValue([f \in NamesOf(t) |-> Parts("box", t, n)[At(t, f)]])
           /\ t.is = "tag" => Box(n, t) = TagValue(n.disc, Payload(Parts("box", t, n)))
           /\ Box(n, t).v \notin {"junk", "Err"}
           /\ Box(n, t).v = "Unit" <=> t.is = "unit"
           /\ Box(n, t).v = "Array" <=> t.is = "array"
           /\ t.is \in {"i8", "i32"} => Box(n, t).v # "Usize"
<1>1. n # Garbage
  BY Whole
<1>2. Box(n, t) = Boxed(t, n, Parts("box", t, n)) /\ Box(n, t) = Converted("box", t, n)
  BY MadeOf, TypeKinds DEF Box
<1>3. CASE t.is = "array"
  <2>1. Box(n, t) = Elements(Parts("box", t, n))
    BY <1>1, <1>2, <1>3 DEF Boxed
  <2> QED  BY <1>2, <1>3, <2>1 DEF Elements, HasSlots
<1>4. CASE t.is = "record"
  <2>1. Box(n, t) = RecordValue([f \in NamesOf(t) |-> Parts("box", t, n)[At(t, f)]])
    BY <1>1, <1>2, <1>4 DEF Boxed
  <2> QED  BY <1>2, <1>4, <2>1 DEF RecordValue, HasSlots
<1>5. CASE t.is = "tag"
  <2>1. Box(n, t) = TagValue(n.disc, Payload(Parts("box", t, n)))
    BY <1>1, <1>2, <1>5 DEF Boxed
  <2> QED  BY <1>2, <1>5, <2>1 DEF TagValue, HasSlots
<1>6. CASE ~HasSlots(t)
  <2>1. Box(n, t) = BoxScalar(n, t)
    BY <1>1, <1>2, <1>6 DEF Boxed, HasSlots
  <2>2. t.is \in {"i8", "i32", "usize", "bool", "unit", "f32", "f64", "str"}
    BY <1>6, TypeKinds
  <2>3. /\ BoxScalar(n, t).v \in {"I32", "Usize", "Bool", "Unit", "F64", "Str"}
        /\ BoxScalar(n, t).v = "Unit" <=> t.is = "unit"
        /\ BoxScalar(n, t).v = "Usize" <=> t.is = "usize"
    BY <2>2 DEF BoxScalar, Num, Float, Str, UnitValue
  <2> QED  BY <1>2, <1>6, <2>1, <2>2, <2>3 DEF HasSlots
<1> QED  BY <1>3, <1>4, <1>5, <1>6 DEF HasSlots

\* The parts a value is made into.
LEMMA PartsOfValue ==
    ASSUME NEW t \in DOMAIN Levels, NEW n, IsOf(n, t), HasSlots(t), NEW way
    PROVE  /\ Parts(way, t, n) = [i \in 1 .. Len(n.parts) |-> Converted(way, SlotType(t, n, i), n.parts[i])]
           /\ Len(n.parts) \in Nat
<1>1. /\ DOMAIN Contents(t, n) = 1 .. Len(n.parts) /\ Len(n.parts) \in Nat
      /\ \A i \in 1 .. Len(n.parts) : Contents(t, n)[i][2] = n.parts[i]
  <2>1. \A i \in 1 .. Len(n.parts) : Contents(t, n)[i] = <<SlotType(t, n, i), n.parts[i]>>
    BY Whole
  <2>2. ASSUME NEW i \in 1 .. Len(n.parts) PROVE Contents(t, n)[i][2] = n.parts[i]
    <3>1. Contents(t, n)[i] = <<SlotType(t, n, i), n.parts[i]>>
      BY <2>1
    <3> QED  BY <3>1
  <2>3. DOMAIN Contents(t, n) = 1 .. Len(n.parts) /\ IsRow(n.parts)
    BY Whole
  <2>4. Len(n.parts) \in Nat
    BY <2>3 DEF IsRow
  <2> QED  BY <2>2, <2>3, <2>4
<1> QED  BY <1>1 DEF Parts
-----------------------------------------------------------------------------
(* Bridge: what arrives. *)

\* The slots of an array.
LEMMA ArraySlots ==
    ASSUME NEW t \in DOMAIN Levels, t.is = "array", NEW n, IsOf(n, t)
    PROVE  /\ t.of \in DOMAIN Levels /\ Levels[t.of] < Levels[t]
           /\ n = Block(n.parts) /\ IsRow(n.parts) /\ DOMAIN n.parts = 1 .. Len(n.parts) /\ Len(n.parts) \in Nat
           /\ \A i \in 1 .. Len(n.parts) : SlotType(t, n, i) = t.of /\ IsOf(n.parts[i], t.of)
           /\ \A way : Parts(way, t, n) = [i \in 1 .. Len(n.parts) |-> Converted(way, t.of, n.parts[i])]
<1>1. t.of \in DOMAIN Levels /\ Levels[t.of] < Levels[t]
  BY TypeInUse DEF PartTypes
<1>2. Shaped(t, n) /\ n # Garbage
  BY Whole
<1>3. n = Block(n.parts) /\ IsRow(n.parts)
  BY <1>2 DEF Shaped
<1>4. DOMAIN n.parts = 1 .. Len(n.parts) /\ Len(n.parts) \in Nat
  BY <1>3 DEF IsRow
<1>5. Contents(t, n) = [i \in DOMAIN n.parts |-> <<t.of, n.parts[i]>>]
  BY <1>2 DEF Contents
<1>6. \A i \in 1 .. Len(n.parts) : SlotType(t, n, i) = t.of
  BY <1>4, <1>5 DEF SlotType
<1>7. \A i \in 1 .. Len(n.parts) : IsOf(n.parts[i], SlotType(t, n, i))
  BY Whole DEF HasSlots
<1>8. ASSUME NEW way PROVE Parts(way, t, n) = [i \in 1 .. Len(n.parts) |-> Converted(way, t.of, n.parts[i])]
  <2>1. Parts(way, t, n) = [i \in 1 .. Len(n.parts) |-> Converted(way, SlotType(t, n, i), n.parts[i])]
    BY PartsOfValue DEF HasSlots
  <2> QED  BY <2>1, <1>6
<1> QED  BY <1>1, <1>3, <1>4, <1>6, <1>7, <1>8

\* An array is not boxed to the elements of what it means with itself as the
\* only one.
LEMMA NeverNested ==
    ASSUME NEW t \in DOMAIN Levels, t.is = "array", NEW n, IsOf(n, t)
    PROVE  Box(n, t).parts # <<Meaning(n, t)>>
<1> DEFINE P(u) == u.is = "array" => \A m : IsOf(m, u) => Box(m, u).parts # <<Meaning(m, u)>>
           S == {u \in DOMAIN Levels : P(u)}
<1>1. ASSUME NEW u \in DOMAIN Levels, \A p \in DOMAIN Levels : Levels[p] < Levels[u] => p \in S
      PROVE  P(u)
  <2> SUFFICES ASSUME u.is = "array", NEW m, IsOf(m, u), Box(m, u).parts = <<Meaning(m, u)>> PROVE FALSE
    OBVIOUS
  <2>1. /\ u.of \in DOMAIN Levels /\ Levels[u.of] < Levels[u] /\ Len(m.parts) \in Nat
        /\ \A i \in 1 .. Len(m.parts) : IsOf(m.parts[i], u.of)
        /\ Parts("box", u, m) = [i \in 1 .. Len(m.parts) |-> Converted("box", u.of, m.parts[i])]
        /\ Parts("mean", u, m) = [i \in 1 .. Len(m.parts) |-> Converted("mean", u.of, m.parts[i])]
    BY ArraySlots
  <2>2. Box(m, u) = Elements(Parts("box", u, m))
    BY BoxKind
  <2>3. Meaning(m, u) = Elements(Parts("mean", u, m))
    BY MadeOf DEF Meant
  <2>4. Parts("box", u, m) = <<Meaning(m, u)>>
    BY <2>2 DEF Elements
  <2>5. Len(m.parts) = 1 /\ Converted("box", u.of, m.parts[1]) = Meaning(m, u)
    <3>1. DOMAIN <<Meaning(m, u)>> = 1 .. 1
      OBVIOUS
    <3>2. 1 .. Len(m.parts) = 1 .. 1
      BY <2>1, <2>4, <3>1
    <3>3. Len(m.parts) = 1
      <4>1. PICK k \in Nat : k = Len(m.parts) /\ 1 .. k = 1 .. 1
        BY <2>1, <3>2
      <4>2. 1 \in 1 .. k
        BY <4>1
      <4>3. k \in 1 .. k
        BY <4>2
      <4>4. k \in 1 .. 1
        BY <4>1, <4>3
      <4> QED  BY <4>1, <4>4
    <3> QED  BY <2>1, <2>4, <3>3
  <2> DEFINE x == m.parts[1]
  <2>6. IsOf(x, u.of) /\ Meaning(m, u) = Elements(<<Meaning(x, u.of)>>)
    <3>1. Parts("mean", u, m) = <<Meaning(x, u.of)>>
      BY <2>1, <2>5 DEF Meaning
    <3> QED  BY <2>1, <2>3, <2>5, <3>1
  <2> HIDE DEF x
  <2>7. Box(x, u.of) = Elements(<<Meaning(x, u.of)>>)
    BY <2>1, <2>5, <2>6, BoxKind DEF x
  <2>8. u.of.is = "array" /\ Box(x, u.of).parts = <<Meaning(x, u.of)>>
    <3>1. Box(x, u.of).v = "Array" /\ Box(x, u.of).parts = <<Meaning(x, u.of)>>
      BY <2>7 DEF Elements
    <3> QED  BY <3>1, <2>1, <2>6, BoxKind
  <2>9. P(u.of)
    BY <2>1, <1>1
  <2> QED  BY <2>6, <2>8, <2>9
<1>2. DOMAIN Levels \subseteq S
  <2>1. \A u \in DOMAIN Levels : (\A p \in DOMAIN Levels : Levels[p] < Levels[u] => p \in S) => u \in S
    BY <1>1
  <2> HIDE DEF S
  <2> QED  BY <2>1, TypeInduction
<1>3. P(t)
  BY <1>2
<1> QED  BY <1>3

\* The slots of a variant.
LEMMA TagSlots ==
    ASSUME NEW t \in DOMAIN Levels, t.is = "tag", NEW n, IsOf(n, t)
    PROVE  /\ n = Variant(n.disc, n.parts) /\ IsRow(n.parts) /\ Len(n.parts) \in Nat
           /\ IsRow(FieldsOf(t, n.disc))
           /\ DOMAIN FieldsOf(t, n.disc) = 1 .. Len(n.parts) /\ Len(FieldsOf(t, n.disc)) = Len(n.parts)
           /\ \A i \in 1 .. Len(n.parts) : FieldsOf(t, n.disc)[i] = SlotType(t, n, i)
<1>1. Shaped(t, n) /\ n # Garbage /\ IsRow(n.parts) /\ DOMAIN Contents(t, n) = 1 .. Len(n.parts)
  BY Whole DEF HasSlots
<1>2. n = Variant(n.disc, n.parts) /\ n.disc + 1 \in DOMAIN t.variants
  BY <1>1 DEF Shaped
<1>3. FieldsOf(t, n.disc) = t.variants[n.disc + 1] /\ IsRow(t.variants[n.disc + 1])
  BY <1>2, TypeInUse DEF FieldsOf, Formed
<1>4. Contents(t, n) = [i \in DOMAIN FieldsOf(t, n.disc) |-> <<FieldsOf(t, n.disc)[i], n.parts[i]>>]
  BY <1>1 DEF Contents
<1>5. DOMAIN FieldsOf(t, n.disc) = 1 .. Len(n.parts)
  BY <1>1, <1>4
<1>6. Len(n.parts) \in Nat
  BY <1>1 DEF IsRow
<1>7. FieldsOf(t, n.disc) = [i \in 1 .. Len(n.parts) |-> FieldsOf(t, n.disc)[i]]
  BY <1>3, <1>5 DEF IsRow
<1>8. Len(FieldsOf(t, n.disc)) = Len(n.parts)
  BY <1>6, <1>7, Rows
<1>9. \A i \in 1 .. Len(n.parts) : FieldsOf(t, n.disc)[i] = SlotType(t, n, i)
  BY <1>4, <1>5 DEF SlotType
<1> QED  BY <1>1, <1>2, <1>3, <1>5, <1>6, <1>8, <1>9

\* A value arrives as what it means, unless it is listed as changed.
Arrives(n, t) == Box(n, t) = Meaning(n, t) <=> ~(Changed(n, t) \/ t.is = "i8")

\* The parts that arrive, one by one.
LEMMA PartsArrive ==
    ASSUME NEW t \in DOMAIN Levels, NEW n, IsOf(n, t), HasSlots(t),
           \A i \in 1 .. Len(n.parts) : Arrives(n.parts[i], SlotType(t, n, i))
    PROVE  /\ Changed(n, t) <=>
                 \/ \E i \in 1 .. Len(n.parts) : Parts("box", t, n)[i] # Parts("mean", t, n)[i]
                 \/ Alone(t, n, {"unit", "array"})
           /\ Parts("box", t, n) = Parts("mean", t, n) <=>
                 \A i \in 1 .. Len(n.parts) : Parts("box", t, n)[i] = Parts("mean", t, n)[i]
<1>1. \A way : Parts(way, t, n) = [i \in 1 .. Len(n.parts) |-> Converted(way, SlotType(t, n, i), n.parts[i])]
  BY PartsOfValue
<1>2. Changed(n, t) <=>
        \/ \E i \in 1 .. Len(n.parts) : Changed(n.parts[i], SlotType(t, n, i)) \/ SlotType(t, n, i).is = "i8"
        \/ Alone(t, n, {"unit", "array"})
  <2>1. Changed(n, t) = HasChanged(t, n, Parts("change", t, n))
    BY MadeOf
  <2>2. DOMAIN Parts("change", t, n) = 1 .. Len(n.parts)
        /\ \A i \in 1 .. Len(n.parts) : Parts("change", t, n)[i] = Changed(n.parts[i], SlotType(t, n, i))
    BY <1>1 DEF Changed
  <2> QED  BY <2>1, <2>2 DEF HasChanged, SlotType
<1>3. ASSUME NEW i \in 1 .. Len(n.parts)
      PROVE  Parts("box", t, n)[i] = Parts("mean", t, n)[i]
             <=> ~(Changed(n.parts[i], SlotType(t, n, i)) \/ SlotType(t, n, i).is = "i8")
  <2>1. SlotType(t, n, i) \in DOMAIN Levels /\ IsOf(n.parts[i], SlotType(t, n, i))
    BY Whole
  <2>2. Box(n.parts[i], SlotType(t, n, i)) = Converted("box", SlotType(t, n, i), n.parts[i])
    BY <2>1, BoxKind
  <2>3. Parts("box", t, n)[i] = Box(n.parts[i], SlotType(t, n, i))
    BY <1>1, <2>2
  <2>4. Parts("mean", t, n)[i] = Meaning(n.parts[i], SlotType(t, n, i))
    BY <1>1 DEF Meaning
  <2> QED  BY <2>3, <2>4 DEF Arrives
<1>4. Parts("box", t, n) = Parts("mean", t, n) <=>
        \A i \in 1 .. Len(n.parts) : Parts("box", t, n)[i] = Parts("mean", t, n)[i]
  BY <1>1
<1> QED  BY <1>2, <1>3, <1>4

\* A record is boxed to what it means when its parts are.
LEMMA RecordArrives ==
    ASSUME NEW t \in DOMAIN Levels, NEW n, IsOf(n, t), t.is = "record"
    PROVE  Box(n, t) = Meaning(n, t) <=>
             \A i \in 1 .. Len(n.parts) : Parts("box", t, n)[i] = Parts("mean", t, n)[i]
<1> DEFINE pb == Parts("box", t, n)
           pm == Parts("mean", t, n)
           named(s) == [f \in NamesOf(t) |-> s[At(t, f)]]
<1>1. Box(n, t) = RecordValue(named(pb))
  BY BoxKind
<1>2. Meaning(n, t) = RecordValue(named(pm))
  BY MadeOf DEF Meant
<1>3. DOMAIN t.fields = 1 .. Len(n.parts)
  <2>1. Shaped(t, n)
    BY Whole
  <2>2. n.parts = [i \in DOMAIN t.fields |-> n.parts[i]]
    BY <2>1 DEF Shaped
  <2>3. IsRow(n.parts)
    BY Whole DEF HasSlots
  <2> QED  BY <2>2, <2>3 DEF IsRow
<1> HIDE DEF pb, pm
<1>4. Box(n, t) = Meaning(n, t) <=> named(pb) = named(pm)
  BY <1>1, <1>2 DEF RecordValue
<1>5. ASSUME named(pb) = named(pm), NEW i \in DOMAIN t.fields PROVE pb[i] = pm[i]
  <2>1. t.fields[i].name \in NamesOf(t) /\ At(t, t.fields[i].name) = i
    BY FieldAt
  <2>2. named(pb)[t.fields[i].name] = named(pm)[t.fields[i].name]
    BY <1>5
  <2> QED  BY <2>1, <2>2
<1>6. ASSUME \A i \in DOMAIN t.fields : pb[i] = pm[i] PROVE named(pb) = named(pm)
  <2>1. \A f \in NamesOf(t) : pb[At(t, f)] = pm[At(t, f)]
    BY FieldNamed, <1>6
  <2> QED  BY <2>1
<1>7. Box(n, t) = Meaning(n, t) <=> \A i \in 1 .. Len(n.parts) : pb[i] = pm[i]
  BY <1>3, <1>4, <1>5, <1>6
<1> QED  BY <1>7 DEF pb, pm

\* A variant is boxed to what it means when its parts are and it is not one of
\* () or an array alone.
LEMMA TagArrives ==
    ASSUME NEW t \in DOMAIN Levels, NEW n, IsOf(n, t), t.is = "tag"
    PROVE  Box(n, t) = Meaning(n, t) <=>
             /\ \A i \in 1 .. Len(n.parts) : Parts("box", t, n)[i] = Parts("mean", t, n)[i]
             /\ ~Alone(t, n, {"unit", "array"})
<1> DEFINE pb == Parts("box", t, n)
           pm == Parts("mean", t, n)
           k == Len(n.parts)
<1>1. Box(n, t) = TagValue(n.disc, Payload(pb))
  BY BoxKind
<1>2. Meaning(n, t) = TagValue(n.disc, pm)
  BY MadeOf DEF Meant
<1>3. Box(n, t) = Meaning(n, t) <=> Payload(pb) = pm
  BY <1>1, <1>2 DEF TagValue
<1>4. k \in Nat /\ \A way : Parts(way, t, n) = [i \in 1 .. k |-> Converted(way, SlotType(t, n, i), n.parts[i])]
  BY PartsOfValue DEF HasSlots
<1>5. pb = [i \in 1 .. k |-> pb[i]] /\ pm = [i \in 1 .. k |-> pm[i]]
  BY <1>4
<1>6. pb = pm <=> \A i \in 1 .. k : pb[i] = pm[i]
  BY <1>5
<1>7. /\ DOMAIN FieldsOf(t, n.disc) = 1 .. k /\ Len(FieldsOf(t, n.disc)) = k
      /\ \A i \in 1 .. k : FieldsOf(t, n.disc)[i] = SlotType(t, n, i)
  BY TagSlots
<1>8. Alone(t, n, {"unit", "array"}) <=> k = 1 /\ SlotType(t, n, 1).is \in {"unit", "array"}
  BY <1>7 DEF Alone
<1>9. CASE k # 1
  <2>1. Payload(pb) = pb
    BY <1>4, <1>5, <1>9, PayloadIs
  <2> QED  BY <1>3, <1>6, <1>8, <1>9, <2>1
<1>10. CASE k = 1
  <2> DEFINE u == SlotType(t, n, 1)
             x == n.parts[1]
  <2>1. u \in DOMAIN Levels /\ IsOf(x, u)
    BY <1>10, Whole DEF HasSlots
  <2>2. pb[1] = Box(x, u) /\ pm = <<Meaning(x, u)>> /\ pm[1] = Meaning(x, u)
    <3>1. Box(x, u) = Converted("box", u, x)
      BY <2>1, BoxKind
    <3> QED  BY <1>4, <1>10, <3>1 DEF Meaning
  <2>3. /\ Box(x, u).v = "Unit" <=> u.is = "unit"
        /\ Box(x, u).v = "Array" <=> u.is = "array"
    BY <2>1, BoxKind
  <2> HIDE DEF pb, pm, k, u, x
  <2>4. /\ pb[1].v \notin {"Unit", "Array"} => Payload(pb) = pb
        /\ pb[1].v = "Unit" => Payload(pb) = <<>>
        /\ pb[1].v = "Array" => Payload(pb) = pb[1].parts
    BY <1>4, <1>5, <1>10, PayloadIs
  <2>5. CASE u.is = "unit"
    <3>1. Payload(pb) = <<>>
      BY <2>2, <2>3, <2>5, <2>4
    <3>2. Payload(pb) # pm
      BY <2>2, <3>1
    <3> QED  BY <1>3, <1>8, <1>10, <2>5, <3>2 DEF u, pb, pm, k
  <2>6. CASE u.is = "array"
    <3>1. Payload(pb) = Box(x, u).parts
      BY <2>2, <2>3, <2>6, <2>4
    <3>2. Box(x, u).parts # <<Meaning(x, u)>>
      BY <2>1, <2>6, NeverNested
    <3>3. Payload(pb) # pm
      BY <2>2, <3>1, <3>2
    <3> QED  BY <1>3, <1>8, <1>10, <2>6, <3>3 DEF u, pb, pm, k
  <2>7. CASE u.is \notin {"unit", "array"}
    <3>1. Payload(pb) = pb
      BY <2>2, <2>3, <2>7, <2>4
    <3> QED  BY <1>3, <1>6, <1>8, <1>10, <2>7, <3>1 DEF u, pb, pm, k
  <2> QED  BY <2>5, <2>6, <2>7
<1> QED  BY <1>9, <1>10

\* What arrives, for every type in use.
LEMMA ArrivesOrChanged ==
    ASSUME NEW t \in DOMAIN Levels, NEW n, IsOf(n, t)
    PROVE  Arrives(n, t)
<1> DEFINE P(u) == \A m : IsOf(m, u) => Arrives(m, u)
           S == {u \in DOMAIN Levels : P(u)}
<1>1. ASSUME NEW u \in DOMAIN Levels, \A p \in DOMAIN Levels : Levels[p] < Levels[u] => p \in S
      PROVE  P(u)
  <2> SUFFICES ASSUME NEW m, IsOf(m, u) PROVE Arrives(m, u)
    OBVIOUS
  <2>1. CASE HasSlots(u)
    <3>1. ASSUME NEW i \in 1 .. Len(m.parts) PROVE Arrives(m.parts[i], SlotType(u, m, i))
      <4>1. /\ SlotType(u, m, i) \in DOMAIN Levels /\ Levels[SlotType(u, m, i)] < Levels[u]
            /\ IsOf(m.parts[i], SlotType(u, m, i))
        BY <2>1, Whole
      <4> QED  BY <1>1, <4>1
    <3>2. /\ Changed(m, u) <=>
                 \/ \E i \in 1 .. Len(m.parts) : Parts("box", u, m)[i] # Parts("mean", u, m)[i]
                 \/ Alone(u, m, {"unit", "array"})
          /\ Parts("box", u, m) = Parts("mean", u, m) <=>
                 \A i \in 1 .. Len(m.parts) : Parts("box", u, m)[i] = Parts("mean", u, m)[i]
      BY <2>1, <3>1, PartsArrive
    <3>3. u.is # "i8"
      BY <2>1 DEF HasSlots
    <3>4. CASE u.is = "array"
      <4>1. ~Alone(u, m, {"unit", "array"})
        BY <3>4 DEF Alone
      <4>2. Box(m, u) = Elements(Parts("box", u, m)) /\ Meaning(m, u) = Elements(Parts("mean", u, m))
        BY <3>4, BoxKind, MadeOf DEF Meant
      <4>3. Box(m, u) = Meaning(m, u) <=> Parts("box", u, m) = Parts("mean", u, m)
        BY <4>2 DEF Elements
      <4> QED  BY <3>2, <3>3, <4>1, <4>3 DEF Arrives
    <3>5. CASE u.is = "record"
      <4>1. ~Alone(u, m, {"unit", "array"})
        BY <3>5 DEF Alone
      <4> QED  BY <3>2, <3>3, <3>5, <4>1, RecordArrives DEF Arrives
    <3>6. CASE u.is = "tag"
      BY <3>2, <3>3, <3>6, TagArrives DEF Arrives
    <3> QED  BY <2>1, <3>4, <3>5, <3>6 DEF HasSlots
  <2>2. CASE ~HasSlots(u)
    <3>1. Contents(u, m) = <<>> /\ ~Alone(u, m, {"unit", "array"})
      BY <2>2, Whole DEF Alone, HasSlots
    <3>2. ~Changed(m, u)
      <4>1. DOMAIN Parts("change", u, m) = {}
        BY <3>1 DEF Parts
      <4> QED  BY <3>1, <4>1, MadeOf DEF HasChanged
    <3>3. Box(m, u) = BoxScalar(m, u)
      BY <2>2, BoxKind
    <3>4. Meaning(m, u) = IF u.is = "i8" THEN Num("I32", m.n) ELSE BoxScalar(m, u)
      BY <2>2, MadeOf DEF Meant, HasSlots
    <3>5. CASE u.is = "i8"
      <4>1. m.n \in 0 .. 127
        BY <3>5, Whole DEF Shaped
      <4>2. Num("I32", m.n + Beyond) # Num("I32", m.n)
        BY <4>1 DEF Num, Beyond
      <4> QED  BY <3>3, <3>4, <3>5, <4>2 DEF BoxScalar, Arrives
    <3>6. CASE u.is # "i8"
      BY <3>2, <3>3, <3>4, <3>6 DEF Arrives
    <3> QED  BY <3>5, <3>6
  <2> QED  BY <2>1, <2>2
<1>2. DOMAIN Levels \subseteq S
  <2>1. \A u \in DOMAIN Levels : (\A p \in DOMAIN Levels : Levels[p] < Levels[u] => p \in S) => u \in S
    BY <1>1
  <2> HIDE DEF S
  <2> QED  BY <2>1, TypeInduction
<1>3. P(t)
  BY <1>2
<1> QED  BY <1>3
-----------------------------------------------------------------------------
(* Bridge: what comes back. *)

\* What a value is unboxed to, from what its parts are.
LEMMA UnboxIs ==
    ASSUME NEW t \in DOMAIN Levels, NEW v, v # Junk
    PROVE  /\ ~HasSlots(t) => Unbox(v, t) = UnboxScalar(v, t)
           /\ t.is = "array" =>
                 /\ v.v = "Array" => Unbox(v, t) = Block([i \in DOMAIN v.parts |-> Unbox(v.parts[i], t.of)])
                 /\ v.v # "Array" => Unbox(v, t) = Block(<<>>)
           /\ t.is = "record" =>
                 Unbox(v, t) = Block([i \in DOMAIN t.fields |->
                                         Unbox(PartOrUnit(v, "Record", t.fields[i].name), t.fields[i].of)])
           /\ t.is = "tag" =>
                 Unbox(v, t) = Variant(DiscOf(v), [i \in DOMAIN FieldsOf(t, DiscOf(v)) |->
                                                      Unbox(PartOrUnit(v, "Tag", i), FieldsOf(t, DiscOf(v))[i])])
<1> DEFINE w == Wanted(t, v)
<1>1. Unbox(v, t) = Unboxed(t, v, [i \in DOMAIN w |-> Converted("unbox", w[i][1], w[i][2])])
  <2>1. SlotsOf("unbox", <<t, v>>) = w
    BY DEF SlotsOf
  <2>2. Converted("unbox", t, v) = Made("unbox", <<t, v>>, [i \in DOMAIN w |-> Converted("unbox", w[i][1], w[i][2])])
    BY <2>1, Unfold
  <2> QED  BY <2>2, TypeKinds DEF Unbox, Made
<1>2. ASSUME NEW i \in DOMAIN w PROVE Converted("unbox", w[i][1], w[i][2]) = Unbox(w[i][2], w[i][1])
  <2>1. SlotsOf("unbox", <<t, v>>) = w
    BY DEF SlotsOf
  <2>2. PICK c \in Children("unbox", <<t, v>>) : c = w[i]
    BY <2>1 DEF Children
  <2>3. c[1] \in DOMAIN Levels
    BY SlotsFall DEF InUse
  <2> QED  BY <2>2, <2>3, TypeKinds DEF Unbox
<1>3. Unbox(v, t) = Unboxed(t, v, [i \in DOMAIN w |-> Unbox(w[i][2], w[i][1])])
  BY <1>1, <1>2
<1> HIDE DEF w
<1>4. CASE ~HasSlots(t)
  BY <1>3, <1>4 DEF Unboxed, HasSlots
<1>5. CASE t.is = "array"
  <2>1. Unbox(v, t) = Block([i \in DOMAIN w |-> Unbox(w[i][2], w[i][1])])
    BY <1>3, <1>5 DEF Unboxed
  <2>2. CASE v.v = "Array"
    <3>1. w = [i \in DOMAIN v.parts |-> <<t.of, v.parts[i]>>]
      BY <1>5, <2>2 DEF w, Wanted
    <3>2. [i \in DOMAIN w |-> Unbox(w[i][2], w[i][1])] = [i \in DOMAIN v.parts |-> Unbox(v.parts[i], t.of)]
      BY <3>1
    <3> QED  BY <1>5, <2>1, <2>2, <3>2 DEF HasSlots
  <2>3. CASE v.v # "Array"
    <3>1. w = <<>>
      BY <1>5, <2>3 DEF w, Wanted
    <3>2. [i \in DOMAIN w |-> Unbox(w[i][2], w[i][1])] = <<>>
      BY <3>1
    <3> QED  BY <1>5, <2>1, <2>3, <3>2 DEF HasSlots
  <2> QED  BY <2>2, <2>3
<1>6. CASE t.is = "record"
  <2>1. Unbox(v, t) = Block([i \in DOMAIN w |-> Unbox(w[i][2], w[i][1])])
    BY <1>3, <1>6 DEF Unboxed
  <2>2. w = [i \in DOMAIN t.fields |-> <<t.fields[i].of, PartOrUnit(v, "Record", t.fields[i].name)>>]
    BY <1>6 DEF w, Wanted
  <2>3. [i \in DOMAIN w |-> Unbox(w[i][2], w[i][1])]
        = [i \in DOMAIN t.fields |-> Unbox(PartOrUnit(v, "Record", t.fields[i].name), t.fields[i].of)]
    BY <2>2
  <2> QED  BY <1>6, <2>1, <2>3 DEF HasSlots
<1>7. CASE t.is = "tag"
  <2>1. Unbox(v, t) = Variant(DiscOf(v), [i \in DOMAIN w |-> Unbox(w[i][2], w[i][1])])
    BY <1>3, <1>7 DEF Unboxed
  <2>2. w = [i \in DOMAIN FieldsOf(t, DiscOf(v)) |-> <<FieldsOf(t, DiscOf(v))[i], PartOrUnit(v, "Tag", i)>>]
    BY <1>7 DEF w, Wanted
  <2>3. [i \in DOMAIN w |-> Unbox(w[i][2], w[i][1])]
        = [i \in DOMAIN FieldsOf(t, DiscOf(v)) |-> Unbox(PartOrUnit(v, "Tag", i), FieldsOf(t, DiscOf(v))[i])]
    BY <2>2
  <2> QED  BY <1>7, <2>1, <2>3 DEF HasSlots
<1> QED  BY <1>4, <1>5, <1>6, <1>7 DEF HasSlots

\* What a value is after it has been boxed and unboxed.
Back(n, t) == Unbox(Box(n, t), t)
\* An element taken for the array it is in, as happens to one that was the only
\* payload of a variant.
Wrapped(x, t) == Unbox(Box(x, t.of), t)
Unpacked(m, t) == IF m.parts = <<>> THEN m ELSE Wrapped(m.parts[1], t)
\* What part i comes back as.
Returned(t, n, i) == IF Alone(t, n, {"array"}) THEN Unpacked(n.parts[1], SlotType(t, n, 1))
                     ELSE Back(n.parts[i], SlotType(t, n, i))
\* A value with other parts.
With(t, n, parts) == IF t.is = "tag" THEN Variant(n.disc, parts) ELSE Block(parts)

\* The parts of a value that is boxed.
LEMMA BoxedPart ==
    ASSUME NEW t \in DOMAIN Levels, NEW n, IsOf(n, t), HasSlots(t), NEW i \in 1 .. Len(n.parts)
    PROVE  /\ Parts("box", t, n)[i] = Box(n.parts[i], SlotType(t, n, i))
           /\ SlotType(t, n, i) \in DOMAIN Levels /\ IsOf(n.parts[i], SlotType(t, n, i))
<1>1. SlotType(t, n, i) \in DOMAIN Levels /\ IsOf(n.parts[i], SlotType(t, n, i))
  BY Whole
<1>2. Box(n.parts[i], SlotType(t, n, i)) = Converted("box", SlotType(t, n, i), n.parts[i])
  BY <1>1, BoxKind
<1>3. Parts("box", t, n)[i] = Converted("box", SlotType(t, n, i), n.parts[i])
  BY PartsOfValue
<1> QED  BY <1>1, <1>2, <1>3

LEMMA BackOfScalar ==
    ASSUME NEW t \in DOMAIN Levels, NEW n, IsOf(n, t), ~HasSlots(t)
    PROVE  /\ Back(n, t) = n
           /\ t.is = "i8" => Unbox(Num("I32", n.n), t) = n
<1>1. Shaped(t, n) /\ t.is \in {"i8", "i32", "usize", "bool", "unit", "f32", "f64", "str"}
  BY Whole, TypeKinds
<1>2. Box(n, t) = BoxScalar(n, t) /\ Box(n, t) # Junk
  <2>1. Box(n, t).v # "junk" /\ Box(n, t) = BoxScalar(n, t)
    BY BoxKind
  <2> QED  BY <2>1 DEF Junk
<1>3. Back(n, t) = UnboxScalar(BoxScalar(n, t), t)
  BY <1>2, UnboxIs DEF Back
<1>4. CASE t.is = "i8"
  <2>1. n = Word(n.n) /\ n.n \in 0 .. 127
    BY <1>1, <1>4 DEF Shaped
  <2>2. \A k : UnboxScalar(Num("I32", k), t) = Word(k % 256)
    BY <1>4 DEF UnboxScalar, Num
  <2>3. (n.n + Beyond) % 256 = n.n /\ n.n % 256 = n.n
    BY <2>1 DEF Beyond
  <2>4. Back(n, t) = Word((n.n + Beyond) % 256)
    BY <1>3, <1>4, <2>2 DEF BoxScalar
  <2>5. Num("I32", n.n) # Junk
    BY DEF Num, Junk
  <2>6. Unbox(Num("I32", n.n), t) = Word(n.n % 256)
    BY <2>2, <2>5, UnboxIs
  <2> QED  BY <2>1, <2>3, <2>4, <2>6
<1>5. CASE t.is \in {"i32", "usize", "bool", "unit"}
  BY <1>1, <1>3, <1>5 DEF Shaped, BoxScalar, UnboxScalar, Num
<1>6. CASE t.is \in {"f32", "f64", "str"}
  BY <1>1, <1>3, <1>6 DEF Shaped, BoxScalar, UnboxScalar, Float, Str
<1> QED  BY <1>1, <1>4, <1>5, <1>6

\* The slots of a value, by their types and what is in them.
Slotted(t, n, k, types, q) == Contents(t, n) = [i \in 1 .. k |-> <<types[i], q[i]>>]

\* What it takes to be a value of a type.
LEMMA OfSlots ==
    ASSUME NEW t \in DOMAIN Levels, NEW n, NEW k, NEW types, NEW q, Shaped(t, n),
           Slotted(t, n, k, types, q), \A i \in 1 .. k : IsOf(q[i], types[i])
    PROVE  IsOf(n, t) /\ \A i \in 1 .. k : SlotType(t, n, i) = types[i]
<1>1. DOMAIN Contents(t, n) = 1 .. k
  BY DEF Slotted
<1>2. ASSUME NEW i \in 1 .. k PROVE Contents(t, n)[i][1] = types[i] /\ Contents(t, n)[i][2] = q[i]
  <2>1. Contents(t, n)[i] = <<types[i], q[i]>>
    BY DEF Slotted
  <2> QED  BY <2>1
<1>3. \A i \in 1 .. k : SlotType(t, n, i) = types[i]
  BY <1>2 DEF SlotType
<1>4. \A i \in DOMAIN Contents(t, n) : IsOf(Contents(t, n)[i][2], SlotType(t, n, i))
  BY <1>1, <1>2, <1>3
<1> QED  BY <1>3, <1>4, MadeOf

Listed(s, k) == s = [i \in 1 .. k |-> s[i]]

\* A value with other parts of the same types is of its type.
LEMMA WithParts ==
    ASSUME NEW t \in DOMAIN Levels, NEW n, NEW q, IsOf(n, t), HasSlots(t),
           Listed(q, Len(n.parts)), \A i \in 1 .. Len(n.parts) : IsOf(q[i], SlotType(t, n, i))
    PROVE  /\ IsOf(With(t, n, q), t)
           /\ With(t, n, q).parts = q /\ Len(q) = Len(n.parts)
           /\ \A i \in 1 .. Len(n.parts) : SlotType(t, With(t, n, q), i) = SlotType(t, n, i)
           /\ \A kinds : Alone(t, With(t, n, q), kinds) = Alone(t, n, kinds)
<1> DEFINE m == With(t, n, q)
<1>1. /\ Shaped(t, n) /\ n # Garbage /\ IsRow(n.parts) /\ DOMAIN Contents(t, n) = 1 .. Len(n.parts)
      /\ Len(n.parts) \in Nat /\ DOMAIN n.parts = 1 .. Len(n.parts)
  <2>1. Shaped(t, n) /\ n # Garbage /\ IsRow(n.parts) /\ DOMAIN Contents(t, n) = 1 .. Len(n.parts)
    BY Whole
  <2> QED  BY <2>1 DEF IsRow
<1>2. IsRow(q) /\ Len(q) = Len(n.parts) /\ DOMAIN q = 1 .. Len(n.parts)
  BY <1>1, Rows DEF Listed
<1>3. m.parts = q /\ m # Garbage
  BY DEF With, Block, Variant, Garbage
<1>4. PICK k, types : k = Len(n.parts) /\ types = [i \in 1 .. k |-> SlotType(t, n, i)]
  OBVIOUS
<1>5. \A i \in 1 .. k : types[i] = SlotType(t, n, i) /\ IsOf(q[i], types[i])
  BY <1>4
<1>6. ASSUME t.is = "array" PROVE Shaped(t, m) /\ Slotted(t, m, k, types, q)
  <2>1. m = Block(q)
    BY <1>6 DEF With
  <2> HIDE DEF m
  <2>2. Shaped(t, m)
    BY <1>2, <1>3, <1>6, <2>1 DEF Shaped
  <2>3. Contents(t, m) = [i \in 1 .. k |-> <<t.of, q[i]>>]
    BY <1>2, <1>3, <1>4, <1>6 DEF Contents
  <2>4. \A i \in 1 .. k : types[i] = t.of
    BY <1>4, <1>6, ArraySlots
  <2>5. Slotted(t, m, k, types, q)
    BY <2>3, <2>4 DEF Slotted
  <2> QED  BY <2>2, <2>5 DEF m
<1>7. ASSUME t.is = "record" PROVE Shaped(t, m) /\ Slotted(t, m, k, types, q)
  <2>1. Contents(t, n) = [i \in DOMAIN t.fields |-> <<t.fields[i].of, n.parts[i]>>]
    BY <1>1, <1>7 DEF Contents
  <2>2. DOMAIN t.fields = 1 .. k
    BY <1>1, <1>4, <2>1
  <2>3. m = Block(q)
    BY <1>7 DEF With
  <2> HIDE DEF m
  <2>4. Shaped(t, m)
    BY <1>2, <1>3, <1>4, <1>7, <2>2, <2>3 DEF Shaped, Listed
  <2>5. Contents(t, m) = [i \in 1 .. k |-> <<t.fields[i].of, q[i]>>]
    BY <1>3, <1>7, <2>2 DEF Contents
  <2>6. \A i \in 1 .. k : types[i] = t.fields[i].of
    BY <1>4, <2>1, <2>2 DEF SlotType
  <2>7. Slotted(t, m, k, types, q)
    BY <2>5, <2>6 DEF Slotted
  <2> QED  BY <2>4, <2>7 DEF m
<1>8. ASSUME t.is = "tag" PROVE Shaped(t, m) /\ Slotted(t, m, k, types, q)
  <2>1. m = Variant(n.disc, q) /\ m.disc = n.disc
    BY <1>8 DEF With, Variant
  <2> HIDE DEF m
  <2>2. n.disc + 1 \in DOMAIN t.variants /\ FieldsOf(t, n.disc) = t.variants[n.disc + 1]
    BY <1>1, <1>8 DEF Shaped, FieldsOf
  <2>3. /\ DOMAIN FieldsOf(t, n.disc) = 1 .. k
        /\ \A i \in 1 .. k : FieldsOf(t, n.disc)[i] = types[i]
    BY <1>4, <1>8, TagSlots
  <2>4. Shaped(t, m)
    BY <1>3, <1>4, <1>8, <2>1, <2>2, <2>3 DEF Shaped, Listed
  <2>5. Contents(t, m) = [i \in 1 .. k |-> <<FieldsOf(t, n.disc)[i], q[i]>>]
    BY <1>3, <1>8, <2>1, <2>3 DEF Contents
  <2>6. Slotted(t, m, k, types, q)
    BY <2>3, <2>5 DEF Slotted
  <2> QED  BY <2>4, <2>6 DEF m
<1>9. \A kinds : Alone(t, m, kinds) = Alone(t, n, kinds)
  <2>1. CASE t.is = "tag"
    <3>1. m.disc = n.disc
      BY <2>1 DEF With, Variant
    <3> QED  BY <3>1 DEF Alone
  <2>2. CASE t.is # "tag"
    BY <2>2 DEF Alone
  <2> QED  BY <2>1, <2>2
<1> HIDE DEF m
<1>10. Shaped(t, m) /\ Slotted(t, m, k, types, q)
  BY <1>6, <1>7, <1>8 DEF HasSlots
<1>11. IsOf(m, t) /\ \A i \in 1 .. k : SlotType(t, m, i) = types[i]
  BY <1>5, <1>10, OfSlots
<1> QED  BY <1>2, <1>3, <1>4, <1>5, <1>9, <1>11 DEF m

\* Two values that differ in their parts only are equal when those are.
LEMMA SameParts ==
    ASSUME NEW t \in DOMAIN Levels, NEW n, NEW q, IsOf(n, t), HasSlots(t), Listed(q, Len(n.parts))
    PROVE  With(t, n, q) = n <=> \A i \in 1 .. Len(n.parts) : q[i] = n.parts[i]
<1>1. Shaped(t, n) /\ IsRow(n.parts)
  BY Whole
<1>2. n.parts = [i \in 1 .. Len(n.parts) |-> n.parts[i]]
  BY <1>1 DEF IsRow
<1>3. n = With(t, n, n.parts)
  BY <1>1 DEF Shaped, With, HasSlots
<1>4. With(t, n, q).parts = q
  BY DEF With, Block, Variant
<1>5. With(t, n, q) = n <=> q = n.parts
  BY <1>3, <1>4
<1>6. q = n.parts <=> \A i \in 1 .. Len(n.parts) : q[i] = n.parts[i]
  BY <1>2 DEF Listed
<1> QED  BY <1>5, <1>6

\* An element taken for its array: nothing, or each part of it taken for it.
LEMMA WrappedIs ==
    ASSUME NEW t \in DOMAIN Levels, t.is = "array", NEW x, IsOf(x, t.of)
    PROVE  /\ t.of.is # "array" => Wrapped(x, t) = Block(<<>>)
           /\ t.of.is = "array" =>
                 /\ Wrapped(x, t) = Block([i \in 1 .. Len(x.parts) |-> Wrapped(x.parts[i], t.of)])
                 /\ Len(x.parts) \in Nat /\ \A i \in 1 .. Len(x.parts) : IsOf(x.parts[i], t.of.of)
<1>1. t.of \in DOMAIN Levels
  BY TypeInUse DEF PartTypes
<1>2. Box(x, t.of).v = "Array" <=> t.of.is = "array"
  BY <1>1, BoxKind
<1>3. Box(x, t.of) # Junk
  <2>1. Box(x, t.of).v # "junk"
    BY <1>1, BoxKind
  <2> QED  BY <2>1 DEF Junk
<1>4. CASE t.of.is # "array"
  <2>1. Unbox(Box(x, t.of), t) = Block(<<>>)
    BY <1>2, <1>3, <1>4, UnboxIs
  <2> QED  BY <1>4, <2>1 DEF Wrapped
<1>5. CASE t.of.is = "array"
  <2>1. /\ Len(x.parts) \in Nat /\ \A i \in 1 .. Len(x.parts) : IsOf(x.parts[i], t.of.of) /\ SlotType(t.of, x, i) = t.of.of
        /\ Parts("box", t.of, x) = [i \in 1 .. Len(x.parts) |-> Converted("box", t.of.of, x.parts[i])]
    BY <1>1, <1>5, ArraySlots
  <2>2. Box(x, t.of) = Elements(Parts("box", t.of, x))
    BY <1>1, <1>5, BoxKind
  <2>3. Box(x, t.of).parts = Parts("box", t.of, x) /\ Box(x, t.of).v = "Array"
    BY <2>2 DEF Elements
  <2>4. Unbox(Box(x, t.of), t) = Block([i \in DOMAIN Parts("box", t.of, x) |-> Unbox(Parts("box", t.of, x)[i], t.of)])
    BY <1>3, <2>3, UnboxIs
  <2>5. ASSUME NEW i \in 1 .. Len(x.parts) PROVE Unbox(Parts("box", t.of, x)[i], t.of) = Wrapped(x.parts[i], t.of)
    <3>1. Parts("box", t.of, x)[i] = Box(x.parts[i], t.of.of)
      BY <1>1, <1>5, <2>1, BoxedPart DEF HasSlots
    <3> QED  BY <3>1 DEF Wrapped
  <2>6. DOMAIN Parts("box", t.of, x) = 1 .. Len(x.parts)
    BY <2>1
  <2>7. Unbox(Box(x, t.of), t) = Block([i \in 1 .. Len(x.parts) |-> Wrapped(x.parts[i], t.of)])
    BY <2>4, <2>5, <2>6
  <2> QED  BY <1>5, <2>1, <2>7 DEF Wrapped
<1> QED  BY <1>4, <1>5

\* Arrays of a type.
LEMMA ArrayOfParts ==
    ASSUME NEW t \in DOMAIN Levels, t.is = "array", NEW k \in Nat, NEW q, q = [i \in 1 .. k |-> q[i]],
           \A i \in 1 .. k : IsOf(q[i], t.of)
    PROVE  IsOf(Block(q), t)
<1>1. IsRow(q) /\ DOMAIN q = 1 .. k
  BY Rows
<1>2. Block(q).parts = q /\ Block(q) # Garbage
  BY DEF Block, Garbage
<1>3. Shaped(t, Block(q))
  BY <1>1, <1>2 DEF Shaped
<1>4. Contents(t, Block(q)) = [i \in 1 .. k |-> <<t.of, q[i]>>]
  BY <1>1, <1>2 DEF Contents
<1>5. PICK types : types = [i \in 1 .. k |-> t.of]
  OBVIOUS
<1>6. Slotted(t, Block(q), k, types, q) /\ \A i \in 1 .. k : IsOf(q[i], types[i])
  BY <1>4, <1>5 DEF Slotted
<1> QED  BY <1>3, <1>6, OfSlots

\* It is an array of the type again.
LEMMA WrappedOf ==
    ASSUME NEW t \in DOMAIN Levels, t.is = "array", NEW x, IsOf(x, t.of)
    PROVE  IsOf(Wrapped(x, t), t)
<1> DEFINE P(u) == u.is = "array" => \A y : IsOf(y, u.of) => IsOf(Wrapped(y, u), u)
           S == {u \in DOMAIN Levels : P(u)}
<1>1. ASSUME NEW u \in DOMAIN Levels, \A p \in DOMAIN Levels : Levels[p] < Levels[u] => p \in S
      PROVE  P(u)
  <2> SUFFICES ASSUME u.is = "array", NEW y, IsOf(y, u.of) PROVE IsOf(Wrapped(y, u), u)
    OBVIOUS
  <2>1. CASE u.of.is # "array"
    <3>1. Wrapped(y, u) = Block(<<>>)
      BY <2>1, WrappedIs
    <3>2. PICK q, k : q = <<>> /\ k = 0
      OBVIOUS
    <3>3. q = [i \in 1 .. k |-> q[i]] /\ k \in Nat
      BY <3>2
    <3>4. \A i \in 1 .. k : IsOf(q[i], u.of)
      BY <3>2
    <3>5. IsOf(Block(q), u)
      BY <3>4, <3>3, ArrayOfParts
    <3> QED  BY <3>1, <3>2, <3>5
  <2>2. CASE u.of.is = "array"
    <3>1. /\ Wrapped(y, u) = Block([i \in 1 .. Len(y.parts) |-> Wrapped(y.parts[i], u.of)])
          /\ Len(y.parts) \in Nat /\ \A i \in 1 .. Len(y.parts) : IsOf(y.parts[i], u.of.of)
      BY <2>2, WrappedIs
    <3>2. P(u.of)
      <4>1. u.of \in DOMAIN Levels /\ Levels[u.of] < Levels[u]
        BY TypeInUse DEF PartTypes
      <4> QED  BY <4>1, <1>1
    <3>3. \A i \in 1 .. Len(y.parts) : IsOf(Wrapped(y.parts[i], u.of), u.of)
      BY <2>2, <3>1, <3>2
    <3>4. PICK q : q = [i \in 1 .. Len(y.parts) |-> Wrapped(y.parts[i], u.of)]
      OBVIOUS
    <3>5. q = [i \in 1 .. Len(y.parts) |-> q[i]] /\ \A i \in 1 .. Len(y.parts) : IsOf(q[i], u.of)
      BY <3>3, <3>4
    <3>6. IsOf(Block(q), u)
      BY <3>1, <3>5, ArrayOfParts
    <3> QED  BY <3>1, <3>4, <3>6
  <2> QED  BY <2>1, <2>2
<1>2. DOMAIN Levels \subseteq S
  <2>1. \A u \in DOMAIN Levels : (\A p \in DOMAIN Levels : Levels[p] < Levels[u] => p \in S) => u \in S
    BY <1>1
  <2> HIDE DEF S
  <2> QED  BY <2>1, TypeInduction
<1>3. P(t)
  BY <1>2
<1> QED  BY <1>3

\* An array is never its first element taken for it, nor that done twice.
LEMMA WrappedDiffers ==
    ASSUME NEW t \in DOMAIN Levels, t.is = "array", NEW m, IsOf(m, t), m.parts # <<>>
    PROVE  /\ Wrapped(m.parts[1], t) # m
           /\ Wrapped(m.parts[1], t).parts # <<>> => Wrapped(Wrapped(m.parts[1], t).parts[1], t) # m
<1> DEFINE Q(y, u) == /\ Wrapped(y.parts[1], u) # y
                      /\ Wrapped(y.parts[1], u).parts # <<>> => Wrapped(Wrapped(y.parts[1], u).parts[1], u) # y
           P(u) == u.is = "array" => \A y : IsOf(y, u) /\ y.parts # <<>> => Q(y, u)
           S == {u \in DOMAIN Levels : P(u)}
<1>1. ASSUME NEW u \in DOMAIN Levels, \A p \in DOMAIN Levels : Levels[p] < Levels[u] => p \in S
      PROVE  P(u)
  <2> SUFFICES ASSUME u.is = "array", NEW y, IsOf(y, u), y.parts # <<>> PROVE Q(y, u)
    OBVIOUS
  <2> DEFINE x == y.parts[1]
             w == u.of
  <2>1. w \in DOMAIN Levels /\ Levels[w] < Levels[u] /\ IsOf(x, w) /\ 1 \in DOMAIN y.parts
    <3>1. /\ u.of \in DOMAIN Levels /\ Levels[u.of] < Levels[u] /\ IsRow(y.parts) /\ DOMAIN y.parts = 1 .. Len(y.parts)
          /\ Len(y.parts) \in Nat /\ \A i \in 1 .. Len(y.parts) : IsOf(y.parts[i], u.of)
      BY ArraySlots
    <3>2. Len(y.parts) # 0
      <4>1. CASE Len(y.parts) = 0
        <5>1. y.parts = [i \in 1 .. 0 |-> y.parts[i]]
          BY <3>1, <4>1 DEF IsRow
        <5>2. y.parts = <<>>
          BY <5>1
        <5> QED  BY <5>2
      <4> QED  BY <4>1
    <3>3. 1 \in 1 .. Len(y.parts)
      BY <3>1, <3>2
    <3> QED  BY <3>1, <3>3
  <2> HIDE DEF x, w
  <2>2. CASE w.is # "array"
    <3>1. Wrapped(x, u) = Block(<<>>)
      BY <2>1, <2>2, WrappedIs DEF w
    <3>2. Wrapped(x, u).parts = <<>>
      BY <3>1 DEF Block
    <3> QED  BY <3>2 DEF x
  <2>3. CASE w.is = "array"
    <3>1. /\ Wrapped(x, u) = Block([i \in 1 .. Len(x.parts) |-> Wrapped(x.parts[i], w)])
          /\ Len(x.parts) \in Nat /\ \A i \in 1 .. Len(x.parts) : IsOf(x.parts[i], w.of)
      BY <2>1, <2>3, WrappedIs DEF w
    <3>2. /\ DOMAIN Wrapped(x, u).parts = 1 .. Len(x.parts)
          /\ \A i \in 1 .. Len(x.parts) : Wrapped(x, u).parts[i] = Wrapped(x.parts[i], w)
      BY <3>1 DEF Block
    <3>3. IsOf(x, w) /\ (x.parts # <<>> => Q(x, w))
      <4>1. P(w)
        BY <2>1, <1>1
      <4> QED  BY <2>1, <2>3, <4>1
    <3>4. 1 \in 1 .. Len(x.parts) => x.parts # <<>>
      <4>1. DOMAIN x.parts = 1 .. Len(x.parts)
        BY <2>1, <2>3, ArraySlots
      <4> QED  BY <4>1
    <3>5. Wrapped(x, u) # y
      <4> SUFFICES ASSUME Wrapped(x, u) = y PROVE FALSE
        OBVIOUS
      <4>1. 1 \in 1 .. Len(x.parts) /\ y.parts[1] = Wrapped(x.parts[1], w)
        BY <2>1, <3>2
      <4>2. Wrapped(x.parts[1], w) = x
        BY <4>1 DEF x
      <4> QED  BY <3>3, <3>4, <4>1, <4>2
    <3>6. ASSUME Wrapped(x, u).parts # <<>> PROVE Wrapped(Wrapped(x, u).parts[1], u) # y
      <4> SUFFICES ASSUME Wrapped(Wrapped(x, u).parts[1], u) = y PROVE FALSE
        OBVIOUS
      <4>1. 1 \in 1 .. Len(x.parts)
        <5>1. Len(x.parts) # 0
          <6>1. CASE Len(x.parts) = 0
            <7>1. [i \in 1 .. Len(x.parts) |-> Wrapped(x.parts[i], w)] = <<>>
              BY <6>1
            <7> QED  BY <3>1, <3>6, <7>1 DEF Block
          <6> QED  BY <6>1
        <5> QED  BY <5>1, <3>1
      <4> DEFINE z == Wrapped(x.parts[1], w)
      <4>2. Wrapped(x, u).parts[1] = z /\ IsOf(z, w)
        <5>1. IsOf(x.parts[1], w.of)
          BY <3>1, <4>1
        <5> QED  BY <2>1, <2>3, <3>2, <4>1, <5>1, WrappedOf
      <4> HIDE DEF z
      <4>3. /\ Wrapped(z, u) = Block([i \in 1 .. Len(z.parts) |-> Wrapped(z.parts[i], w)])
            /\ Len(z.parts) \in Nat
        BY <2>1, <2>3, <4>2, WrappedIs DEF w
      <4>4. /\ DOMAIN Wrapped(z, u).parts = 1 .. Len(z.parts)
            /\ \A i \in 1 .. Len(z.parts) : Wrapped(z, u).parts[i] = Wrapped(z.parts[i], w)
        BY <4>3 DEF Block
      <4>5. 1 \in 1 .. Len(z.parts) /\ y.parts[1] = Wrapped(z.parts[1], w)
        BY <2>1, <4>2, <4>4
      <4>6. Wrapped(z.parts[1], w) = x
        BY <4>5 DEF x
      <4>7. z.parts # <<>>
        <5>1. DOMAIN z.parts = 1 .. Len(z.parts)
          BY <2>1, <2>3, <4>2, ArraySlots
        <5> QED  BY <4>5, <5>1
      <4> QED  BY <3>3, <3>4, <4>1, <4>6, <4>7 DEF z
    <3> QED  BY <3>5, <3>6 DEF x
  <2> QED  BY <2>2, <2>3
<1>2. DOMAIN Levels \subseteq S
  <2>1. \A u \in DOMAIN Levels : (\A p \in DOMAIN Levels : Levels[p] < Levels[u] => p \in S) => u \in S
    BY <1>1
  <2> HIDE DEF S
  <2> QED  BY <2>1, TypeInduction
<1>3. P(t)
  BY <1>2
<1> QED  BY <1>3

\* The only payload of a variant comes back as it was if it was empty, and only
\* then, however often it crosses.
LEMMA UnpackedIs ==
    ASSUME NEW t \in DOMAIN Levels, t.is = "array", NEW m, IsOf(m, t)
    PROVE  /\ IsOf(Unpacked(m, t), t)
           /\ Unpacked(m, t) = m <=> m.parts = <<>>
           /\ Unpacked(Unpacked(m, t), t) = m <=> m.parts = <<>>
<1>1. CASE m.parts = <<>>
  BY <1>1 DEF Unpacked
<1>2. CASE m.parts # <<>>
  <2>1. Unpacked(m, t) = Wrapped(m.parts[1], t)
    BY <1>2 DEF Unpacked
  <2>2. IsOf(m.parts[1], t.of)
    <3>1. /\ IsRow(m.parts) /\ DOMAIN m.parts = 1 .. Len(m.parts) /\ Len(m.parts) \in Nat
          /\ \A i \in 1 .. Len(m.parts) : IsOf(m.parts[i], t.of)
      BY ArraySlots
    <3>2. Len(m.parts) # 0
      <4>1. CASE Len(m.parts) = 0
        <5>1. m.parts = [i \in 1 .. 0 |-> m.parts[i]]
          BY <3>1, <4>1 DEF IsRow
        <5>2. m.parts = <<>>
          BY <5>1
        <5> QED  BY <1>2, <5>2
      <4> QED  BY <4>1
    <3>3. 1 \in 1 .. Len(m.parts)
      BY <3>1, <3>2
    <3> QED  BY <3>1, <3>3
  <2>3. IsOf(Unpacked(m, t), t)
    BY <2>1, <2>2, WrappedOf
  <2>4. Unpacked(m, t) # m
    BY <1>2, <2>1, WrappedDiffers
  <2>5. Unpacked(Unpacked(m, t), t) # m
    <3>1. CASE Unpacked(m, t).parts = <<>>
      <4>1. Unpacked(Unpacked(m, t), t) = Unpacked(m, t)
        BY <3>1 DEF Unpacked
      <4> QED  BY <2>4, <4>1
    <3>2. CASE Unpacked(m, t).parts # <<>>
      <4>1. Unpacked(Unpacked(m, t), t) = Wrapped(Unpacked(m, t).parts[1], t)
        BY <3>2 DEF Unpacked
      <4> QED  BY <1>2, <2>1, <3>2, <4>1, WrappedDiffers
    <3> QED  BY <3>1, <3>2
  <2> QED  BY <1>2, <2>3, <2>4, <2>5
<1> QED  BY <1>1, <1>2

\* A part alone in its variant, as it is read back from what it was boxed to.
LEMMA AloneBack ==
    ASSUME NEW u \in DOMAIN Levels, NEW x, IsOf(x, u), NEW s, s = [i \in 1 .. 1 |-> s[i]], s[1] = Box(x, u), NEW d
    PROVE  Unbox(PartOrUnit(TagValue(d, Payload(s)), "Tag", 1), u)
             = IF u.is = "array" THEN Unpacked(x, u) ELSE Back(x, u)
<1> DEFINE v == TagValue(d, Payload(s))
<1>1. v.v = "Tag" /\ v.parts = Payload(s)
  BY DEF TagValue
<1>2. PartOrUnit(v, "Tag", 1) = IF 1 \in DOMAIN Payload(s) THEN Payload(s)[1] ELSE UnitValue
  BY <1>1 DEF PartOrUnit
<1> HIDE DEF v
<1>3. /\ s[1].v = "Unit" <=> u.is = "unit"
      /\ s[1].v = "Array" <=> u.is = "array"
  <2>1. /\ Box(x, u).v = "Unit" <=> u.is = "unit"
        /\ Box(x, u).v = "Array" <=> u.is = "array"
    BY BoxKind
  <2> QED  BY <2>1
<1>4. PICK k \in Nat : k = 1 /\ s = [i \in 1 .. k |-> s[i]]
  OBVIOUS
<1>5. /\ s[1].v \notin {"Unit", "Array"} => Payload(s) = s
      /\ s[1].v = "Unit" => Payload(s) = <<>>
      /\ s[1].v = "Array" => Payload(s) = s[1].parts
  BY <1>4, PayloadIs
<1>6. UnitValue # Junk
  BY DEF UnitValue, Junk
<1>7. CASE u.is \notin {"unit", "array"}
  <2>1. Payload(s) = s
    BY <1>3, <1>7, <1>5
  <2>2. 1 \in DOMAIN s
    BY Rows
  <2>3. PartOrUnit(v, "Tag", 1) = Box(x, u)
    BY <1>2, <2>1, <2>2
  <2> QED  BY <1>7, <2>3 DEF Back, v
<1>8. CASE u.is = "unit"
  <2>1. Payload(s) = <<>>
    BY <1>3, <1>8, <1>5
  <2>2. PartOrUnit(v, "Tag", 1) = UnitValue
    BY <1>2, <2>1
  <2>3. Box(x, u) = UnitValue
    BY <1>8, BoxKind DEF HasSlots, BoxScalar
  <2> QED  BY <1>8, <2>2, <2>3 DEF Back, v
<1>9. CASE u.is = "array"
  <2>1. /\ Len(x.parts) \in Nat /\ \A i \in 1 .. Len(x.parts) : IsOf(x.parts[i], u.of)
        /\ DOMAIN x.parts = 1 .. Len(x.parts) /\ x = Block(x.parts)
        /\ Parts("box", u, x) = [i \in 1 .. Len(x.parts) |-> Converted("box", u.of, x.parts[i])]
        /\ IsRow(x.parts) /\ u.of \in DOMAIN Levels
    BY <1>9, ArraySlots
  <2>2. s[1] = Elements(Parts("box", u, x))
    BY <1>9, BoxKind
  <2>3. Payload(s) = Parts("box", u, x)
    <3>1. s[1].parts = Parts("box", u, x)
      BY <2>2 DEF Elements
    <3> QED  BY <1>3, <1>9, <1>5, <3>1
  <2>4. CASE Len(x.parts) = 0
    <3>1. 1 \notin DOMAIN Payload(s)
      BY <2>1, <2>3, <2>4
    <3>2. PartOrUnit(v, "Tag", 1) = UnitValue
      BY <1>2, <3>1
    <3>3. x.parts = <<>>
      <4>1. x.parts = [i \in 1 .. 0 |-> x.parts[i]]
        BY <2>1, <2>4 DEF IsRow
      <4> QED  BY <4>1
    <3>4. UnitValue.v # "Array"
      BY DEF UnitValue
    <3>5. Unbox(UnitValue, u) = Block(<<>>)
      BY <1>6, <1>9, <3>4, UnboxIs
    <3>6. Unpacked(x, u) = x
      BY <3>3 DEF Unpacked
    <3> QED  BY <1>9, <2>1, <3>2, <3>3, <3>5, <3>6 DEF v
  <2>5. CASE Len(x.parts) # 0
    <3>1. 1 \in 1 .. Len(x.parts)
      BY <2>1, <2>5
    <3>2. x.parts # <<>>
      BY <2>1, <3>1
    <3>3. Payload(s)[1] = Box(x.parts[1], u.of) /\ 1 \in DOMAIN Payload(s)
      <4>1. Parts("box", u, x)[1] = Converted("box", u.of, x.parts[1])
        BY <2>1, <3>1
      <4>2. Box(x.parts[1], u.of) = Converted("box", u.of, x.parts[1])
        BY <2>1, <3>1, BoxKind
      <4> QED  BY <2>1, <2>3, <3>1, <4>1, <4>2
    <3>4. PartOrUnit(v, "Tag", 1) = Box(x.parts[1], u.of)
      BY <1>2, <3>3
    <3>5. Unpacked(x, u) = Unbox(Box(x.parts[1], u.of), u)
      BY <3>2 DEF Unpacked, Wrapped
    <3> QED  BY <1>9, <3>4, <3>5 DEF v
  <2> QED  BY <2>4, <2>5
<1> QED  BY <1>7, <1>8, <1>9

\* A value comes back with what its parts come back as.
LEMMA CrossedIs ==
    ASSUME NEW t \in DOMAIN Levels, NEW n, IsOf(n, t), HasSlots(t)
    PROVE  Back(n, t) = With(t, n, [i \in 1 .. Len(n.parts) |-> Returned(t, n, i)])
<1> DEFINE k == Len(n.parts)
           pb == Parts("box", t, n)
           v == Box(n, t)
<1>1. /\ k \in Nat /\ pb = [i \in 1 .. k |-> pb[i]]
      /\ \A i \in 1 .. k : pb[i] = Box(n.parts[i], SlotType(t, n, i))
  BY PartsOfValue, BoxedPart
<1>2. v # Junk
  <2>1. v.v # "junk"
    BY BoxKind
  <2> QED  BY <2>1 DEF Junk
<1>3. ~Alone(t, n, {"array"}) => \A i \in 1 .. k : Returned(t, n, i) = Unbox(pb[i], SlotType(t, n, i))
  BY <1>1 DEF Returned, Back
<1>4. CASE t.is = "array"
  <2>1. v = Elements(pb)
    BY <1>4, BoxKind
  <2>2. v.v = "Array" /\ v.parts = pb
    BY <2>1 DEF Elements
  <2>3. DOMAIN pb = 1 .. k /\ \A i \in 1 .. k : SlotType(t, n, i) = t.of
    BY <1>1, <1>4, ArraySlots
  <2>4. Unbox(v, t) = Block([i \in DOMAIN pb |-> Unbox(pb[i], t.of)])
    BY <1>2, <1>4, <2>2, UnboxIs
  <2>5. ~Alone(t, n, {"array"})
    BY <1>4 DEF Alone
  <2> HIDE DEF v, pb, k
  <2>6. [i \in DOMAIN pb |-> Unbox(pb[i], t.of)] = [i \in 1 .. k |-> Returned(t, n, i)]
    BY <1>3, <2>3, <2>5
  <2>7. Back(n, t) = Block([i \in 1 .. k |-> Returned(t, n, i)])
    BY <2>4, <2>6 DEF Back, v
  <2> QED  BY <1>4, <2>7 DEF With, k
<1>5. CASE t.is = "record"
  <2>1. v = RecordValue([f \in NamesOf(t) |-> pb[At(t, f)]])
    BY <1>5, BoxKind
  <2>2. v.v = "Record" /\ v.parts = [f \in NamesOf(t) |-> pb[At(t, f)]]
    BY <2>1 DEF RecordValue
  <2>3. n # Garbage /\ DOMAIN Contents(t, n) = 1 .. k
    BY Whole
  <2>4. Contents(t, n) = [i \in DOMAIN t.fields |-> <<t.fields[i].of, n.parts[i]>>]
    BY <1>5, <2>3 DEF Contents
  <2>5. DOMAIN t.fields = 1 .. k
    BY <2>3, <2>4
  <2>6. \A i \in 1 .. k : SlotType(t, n, i) = t.fields[i].of
    BY <2>4, <2>5 DEF SlotType
  <2>7. Unbox(v, t) = Block([i \in DOMAIN t.fields |-> Unbox(PartOrUnit(v, "Record", t.fields[i].name), t.fields[i].of)])
    BY <1>2, <1>5, UnboxIs
  <2>8. ~Alone(t, n, {"array"})
    BY <1>5 DEF Alone
  <2> HIDE DEF v, pb, k
  <2>9. ASSUME NEW i \in 1 .. k PROVE PartOrUnit(v, "Record", t.fields[i].name) = pb[i]
    <3>1. t.fields[i].name \in NamesOf(t) /\ At(t, t.fields[i].name) = i
      BY <1>5, <2>5, FieldAt
    <3> QED  BY <2>2, <3>1 DEF PartOrUnit
  <2>10. [i \in DOMAIN t.fields |-> Unbox(PartOrUnit(v, "Record", t.fields[i].name), t.fields[i].of)]
         = [i \in 1 .. k |-> Returned(t, n, i)]
    BY <1>3, <2>5, <2>6, <2>8, <2>9
  <2>11. Back(n, t) = Block([i \in 1 .. k |-> Returned(t, n, i)])
    BY <2>7, <2>10 DEF Back, v
  <2> QED  BY <1>5, <2>11 DEF With, k
<1>6. CASE t.is = "tag"
  <2>1. v = TagValue(n.disc, Payload(pb))
    BY <1>6, BoxKind
  <2>2. v.v = "Tag" /\ v.disc = n.disc /\ v.parts = Payload(pb) /\ DiscOf(v) = n.disc
    BY <2>1 DEF TagValue, DiscOf
  <2>3. /\ DOMAIN FieldsOf(t, n.disc) = 1 .. k /\ Len(FieldsOf(t, n.disc)) = k
        /\ \A i \in 1 .. k : FieldsOf(t, n.disc)[i] = SlotType(t, n, i)
    BY <1>6, TagSlots
  <2>4. Unbox(v, t) = Variant(n.disc, [i \in 1 .. k |-> Unbox(PartOrUnit(v, "Tag", i), FieldsOf(t, n.disc)[i])])
    BY <1>2, <1>6, <2>2, <2>3, UnboxIs
  <2>5. Alone(t, n, {"array"}) <=> k = 1 /\ SlotType(t, n, 1).is = "array"
    BY <1>6, <2>3 DEF Alone
  <2>6. CASE k # 1
    <3>1. Payload(pb) = pb /\ DOMAIN pb = 1 .. k
      BY <1>1, <2>6, PayloadIs, Rows
    <3>2. \A i \in 1 .. k : PartOrUnit(v, "Tag", i) = pb[i]
      BY <2>2, <3>1 DEF PartOrUnit
    <3> HIDE DEF v, pb, k
    <3>3. \A i \in 1 .. k : Unbox(PartOrUnit(v, "Tag", i), FieldsOf(t, n.disc)[i]) = Returned(t, n, i)
      BY <1>3, <2>3, <2>5, <2>6, <3>2
    <3>4. Back(n, t) = Variant(n.disc, [i \in 1 .. k |-> Returned(t, n, i)])
      BY <2>4, <3>3 DEF Back, v
    <3> QED  BY <1>6, <3>4 DEF With, k
  <2>7. CASE k = 1
    <3> DEFINE u == SlotType(t, n, 1)
               x == n.parts[1]
    <3>1. u \in DOMAIN Levels /\ IsOf(x, u) /\ pb[1] = Box(x, u) /\ pb = [i \in 1 .. 1 |-> pb[i]]
      <4>1. 1 \in 1 .. k
        BY <2>7
      <4>2. u \in DOMAIN Levels /\ IsOf(x, u)
        BY <4>1, BoxedPart
      <4>3. pb[1] = Box(x, u) /\ pb = [i \in 1 .. 1 |-> pb[i]]
        BY <1>1, <2>7, <4>1
      <4> QED  BY <4>2, <4>3
    <3> HIDE DEF v, pb, k, u, x
    <3>2. Unbox(PartOrUnit(v, "Tag", 1), u) = IF u.is = "array" THEN Unpacked(x, u) ELSE Back(x, u)
      BY <2>1, <3>1, AloneBack
    <3>3. Returned(t, n, 1) = IF u.is = "array" THEN Unpacked(x, u) ELSE Back(x, u)
      BY <2>5, <2>7 DEF Returned, u, x
    <3>4. \A i \in 1 .. k : Unbox(PartOrUnit(v, "Tag", i), FieldsOf(t, n.disc)[i]) = Returned(t, n, i)
      BY <2>3, <2>7, <3>2, <3>3 DEF u
    <3>5. Back(n, t) = Variant(n.disc, [i \in 1 .. k |-> Returned(t, n, i)])
      BY <2>4, <3>4 DEF Back, v
    <3> QED  BY <1>6, <3>5 DEF With, k
  <2> QED  BY <2>6, <2>7
<1> QED  BY <1>4, <1>5, <1>6 DEF HasSlots

\* What is emptied: a value with such a part, or with an array alone.
LEMMA EmptiedIs ==
    ASSUME NEW t \in DOMAIN Levels, NEW n, IsOf(n, t)
    PROVE  /\ ~HasSlots(t) => ~Emptied(n, t)
           /\ HasSlots(t) => (Emptied(n, t) <=>
                \/ \E i \in 1 .. Len(n.parts) : Emptied(n.parts[i], SlotType(t, n, i))
                \/ Alone(t, n, {"array"}) /\ n.parts[1].parts # <<>>)
<1>1. Emptied(n, t) = IsEmptied(t, n, Parts("empty", t, n))
  BY MadeOf
<1>2. ASSUME ~HasSlots(t) PROVE ~Emptied(n, t)
  <2>1. Contents(t, n) = <<>> /\ ~Alone(t, n, {"array"})
    BY <1>2, Whole DEF Alone, HasSlots
  <2>2. DOMAIN Parts("empty", t, n) = {}
    BY <2>1 DEF Parts
  <2> QED  BY <1>1, <2>1, <2>2 DEF IsEmptied
<1>3. ASSUME HasSlots(t)
      PROVE  Emptied(n, t) <=>
                \/ \E i \in 1 .. Len(n.parts) : Emptied(n.parts[i], SlotType(t, n, i))
                \/ Alone(t, n, {"array"}) /\ n.parts[1].parts # <<>>
  <2>1. Parts("empty", t, n) = [i \in 1 .. Len(n.parts) |-> Converted("empty", SlotType(t, n, i), n.parts[i])]
    BY <1>3, PartsOfValue
  <2>2. DOMAIN Parts("empty", t, n) = 1 .. Len(n.parts)
        /\ \A i \in 1 .. Len(n.parts) : Parts("empty", t, n)[i] = Emptied(n.parts[i], SlotType(t, n, i))
    BY <2>1 DEF Emptied
  <2> QED  BY <1>1, <2>2 DEF IsEmptied
<1> QED  BY <1>2, <1>3

\* The only payload of a variant that is an array.
LEMMA AloneArray ==
    ASSUME NEW t \in DOMAIN Levels, NEW n, IsOf(n, t), Alone(t, n, {"array"})
    PROVE  /\ t.is = "tag" /\ Len(n.parts) = 1
           /\ SlotType(t, n, 1) \in DOMAIN Levels /\ SlotType(t, n, 1).is = "array"
           /\ IsOf(n.parts[1], SlotType(t, n, 1))
           /\ Emptied(n, t) <=> n.parts[1].parts # <<>>
<1>1. t.is = "tag"
  BY DEF Alone
<1>2. Len(n.parts) = 1 /\ SlotType(t, n, 1).is = "array"
  <2>1. /\ DOMAIN FieldsOf(t, n.disc) = 1 .. Len(n.parts) /\ Len(FieldsOf(t, n.disc)) = Len(n.parts)
        /\ \A i \in 1 .. Len(n.parts) : FieldsOf(t, n.disc)[i] = SlotType(t, n, i)
    BY <1>1, TagSlots
  <2> QED  BY <2>1 DEF Alone
<1>3. SlotType(t, n, 1) \in DOMAIN Levels /\ IsOf(n.parts[1], SlotType(t, n, 1))
  BY <1>1, <1>2, BoxedPart DEF HasSlots
<1>4. Emptied(n, t) <=> Emptied(n.parts[1], SlotType(t, n, 1)) \/ n.parts[1].parts # <<>>
  <2>1. Emptied(n, t) <=>
           \/ \E i \in 1 .. Len(n.parts) : Emptied(n.parts[i], SlotType(t, n, i))
           \/ Alone(t, n, {"array"}) /\ n.parts[1].parts # <<>>
    BY <1>1, EmptiedIs DEF HasSlots
  <2> QED  BY <2>1, <1>2
<1>5. ASSUME n.parts[1].parts = <<>> PROVE ~Emptied(n.parts[1], SlotType(t, n, 1))
  <2> DEFINE u == SlotType(t, n, 1)
             x == n.parts[1]
  <2>1. ~Alone(u, x, {"array"}) /\ Len(x.parts) = 0
    BY <1>2, <1>5 DEF Alone
  <2>2. Emptied(x, u) <=>
           \/ \E i \in 1 .. Len(x.parts) : Emptied(x.parts[i], SlotType(u, x, i))
           \/ Alone(u, x, {"array"}) /\ x.parts[1].parts # <<>>
    BY <1>2, <1>3, EmptiedIs DEF HasSlots
  <2> QED  BY <2>1, <2>2
<1> QED  BY <1>1, <1>2, <1>3, <1>4, <1>5

\* A value comes back as one of its type: as itself if it is not emptied, and
\* only then, the first time and the second.
Returns(n, t) == /\ IsOf(Back(n, t), t)
                 /\ Back(n, t) = n <=> ~Emptied(n, t)
                 /\ Back(Back(n, t), t) = n <=> ~Emptied(n, t)

\* The parts, one by one, and what they come back as from there.
LEMMA PartsReturn ==
    ASSUME NEW t \in DOMAIN Levels, NEW n, IsOf(n, t), HasSlots(t),
           \A i \in 1 .. Len(n.parts) : Returns(n.parts[i], SlotType(t, n, i)),
           NEW m, m = With(t, n, [i \in 1 .. Len(n.parts) |-> Returned(t, n, i)])
    PROVE  /\ \A i \in 1 .. Len(n.parts) : IsOf(Returned(t, n, i), SlotType(t, n, i))
           /\ (\A i \in 1 .. Len(n.parts) : Returned(t, n, i) = n.parts[i]) <=> ~Emptied(n, t)
           /\ IsOf(m, t) => ((\A i \in 1 .. Len(n.parts) : Returned(t, m, i) = n.parts[i]) <=> ~Emptied(n, t))
<1> DEFINE k == Len(n.parts)
           q == [i \in 1 .. k |-> Returned(t, n, i)]
<1>1. Emptied(n, t) <=>
         \/ \E i \in 1 .. k : Emptied(n.parts[i], SlotType(t, n, i))
         \/ Alone(t, n, {"array"}) /\ n.parts[1].parts # <<>>
  BY EmptiedIs
<1>2. m.parts = q
  BY DEF With, Block, Variant
<1>3. ASSUME \A i \in 1 .. k : IsOf(Returned(t, n, i), SlotType(t, n, i))
      PROVE  /\ \A i \in 1 .. k : SlotType(t, m, i) = SlotType(t, n, i)
             /\ Alone(t, m, {"array"}) = Alone(t, n, {"array"})
  <2>1. PICK r : r = q
    OBVIOUS
  <2>2. Listed(r, k) /\ \A i \in 1 .. k : IsOf(r[i], SlotType(t, n, i))
    BY <2>1, <1>3 DEF Listed
  <2>3. m = With(t, n, r)
    BY <2>1
  <2> HIDE DEF q
  <2>4. /\ \A i \in 1 .. k : SlotType(t, With(t, n, r), i) = SlotType(t, n, i)
        /\ \A kinds : Alone(t, With(t, n, r), kinds) = Alone(t, n, kinds)
    BY <2>2, WithParts
  <2> QED  BY <2>3, <2>4
<1>4. CASE Alone(t, n, {"array"})
  <2> DEFINE x == n.parts[1]
             u == SlotType(t, n, 1)
  <2>1. k = 1 /\ u \in DOMAIN Levels /\ u.is = "array" /\ IsOf(x, u) /\ (Emptied(n, t) <=> x.parts # <<>>)
    BY <1>4, AloneArray
  <2>2. Returned(t, n, 1) = Unpacked(x, u)
    BY <1>4 DEF Returned
  <2> HIDE DEF x, u, k, q
  <2>3. /\ IsOf(Unpacked(x, u), u)
        /\ Unpacked(x, u) = x <=> x.parts = <<>>
        /\ Unpacked(Unpacked(x, u), u) = x <=> x.parts = <<>>
    BY <2>1, UnpackedIs
  <2>4. \A i \in 1 .. k : i = 1
    BY <2>1
  <2>5. \A i \in 1 .. k : IsOf(Returned(t, n, i), SlotType(t, n, i))
    BY <2>2, <2>3, <2>4 DEF u
  <2>6. (\A i \in 1 .. k : Returned(t, n, i) = n.parts[i]) <=> ~Emptied(n, t)
    BY <2>1, <2>2, <2>3, <2>4 DEF x
  <2>7. Returned(t, m, 1) = Unpacked(Unpacked(x, u), u)
    <3>1. 1 \in 1 .. k
      BY <2>1
    <3>2. m.parts[1] = Unpacked(x, u)
      BY <1>2, <2>2, <3>1 DEF q
    <3>3. SlotType(t, m, 1) = u /\ Alone(t, m, {"array"})
      BY <1>3, <1>4, <2>5, <3>1 DEF u, k
    <3> QED  BY <3>2, <3>3 DEF Returned
  <2>8. (\A i \in 1 .. k : Returned(t, m, i) = n.parts[i]) <=> ~Emptied(n, t)
    BY <2>1, <2>3, <2>4, <2>7 DEF x
  <2> QED  BY <2>5, <2>6, <2>8 DEF k
<1>5. CASE ~Alone(t, n, {"array"})
  <2>1. \A i \in 1 .. k : Returned(t, n, i) = Back(n.parts[i], SlotType(t, n, i))
    BY <1>5 DEF Returned
  <2>2. \A i \in 1 .. k : IsOf(Returned(t, n, i), SlotType(t, n, i))
    BY <2>1 DEF Returns
  <2>3. (\A i \in 1 .. k : Returned(t, n, i) = n.parts[i]) <=> ~Emptied(n, t)
    BY <1>1, <1>5, <2>1 DEF Returns
  <2>4. ASSUME NEW i \in 1 .. k PROVE Returned(t, m, i) = Back(Back(n.parts[i], SlotType(t, n, i)), SlotType(t, n, i))
    <3>1. SlotType(t, m, i) = SlotType(t, n, i) /\ ~Alone(t, m, {"array"})
      BY <1>3, <1>5, <2>2
    <3>2. m.parts[i] = Back(n.parts[i], SlotType(t, n, i))
      BY <1>2, <2>1
    <3> QED  BY <3>1, <3>2 DEF Returned
  <2>5. (\A i \in 1 .. k : Returned(t, m, i) = n.parts[i]) <=> ~Emptied(n, t)
    BY <1>1, <1>5, <2>4 DEF Returns
  <2> QED  BY <2>2, <2>3, <2>5
<1> QED  BY <1>4, <1>5

LEMMA ComesBack ==
    ASSUME NEW t \in DOMAIN Levels, NEW n, IsOf(n, t)
    PROVE  Returns(n, t)
<1> DEFINE P(u) == \A x : IsOf(x, u) => Returns(x, u)
           S == {u \in DOMAIN Levels : P(u)}
<1>1. ASSUME NEW u \in DOMAIN Levels, \A p \in DOMAIN Levels : Levels[p] < Levels[u] => p \in S
      PROVE  P(u)
  <2> SUFFICES ASSUME NEW x, IsOf(x, u) PROVE Returns(x, u)
    OBVIOUS
  <2>1. CASE ~HasSlots(u)
    <3>1. Back(x, u) = x /\ ~Emptied(x, u)
      BY <2>1, BackOfScalar, EmptiedIs
    <3> QED  BY <3>1 DEF Returns
  <2>2. CASE HasSlots(u)
    <3> DEFINE k == Len(x.parts)
               q == [i \in 1 .. k |-> Returned(u, x, i)]
               m == With(u, x, q)
               r == [i \in 1 .. k |-> Returned(u, m, i)]
    <3>1. ASSUME NEW i \in 1 .. k PROVE Returns(x.parts[i], SlotType(u, x, i))
      <4>1. /\ SlotType(u, x, i) \in DOMAIN Levels /\ Levels[SlotType(u, x, i)] < Levels[u]
            /\ IsOf(x.parts[i], SlotType(u, x, i))
        BY <2>2, Whole
      <4> QED  BY <1>1, <4>1
    <3>2. /\ \A i \in 1 .. k : IsOf(Returned(u, x, i), SlotType(u, x, i))
          /\ (\A i \in 1 .. k : Returned(u, x, i) = x.parts[i]) <=> ~Emptied(x, u)
          /\ IsOf(m, u) => ((\A i \in 1 .. k : Returned(u, m, i) = x.parts[i]) <=> ~Emptied(x, u))
      BY <2>2, <3>1, PartsReturn
    <3>3. Listed(q, k) /\ \A i \in 1 .. k : q[i] = Returned(u, x, i)
      BY DEF Listed
    <3>4. Listed(r, k) /\ \A i \in 1 .. k : r[i] = Returned(u, m, i)
      BY DEF Listed
    <3>5. Back(x, u) = m
      BY <2>2, CrossedIs
    <3> HIDE DEF q, r, m
    <3>6. IsOf(With(u, x, q), u) /\ With(u, x, q).parts = q /\ Len(q) = k
      BY <2>2, <3>2, <3>3, WithParts
    <3>7. With(u, x, q) = x <=> \A i \in 1 .. k : q[i] = x.parts[i]
      BY <2>2, <3>3, SameParts
    <3>8. With(u, x, r) = x <=> \A i \in 1 .. k : r[i] = x.parts[i]
      BY <2>2, <3>4, SameParts
    <3>9. Back(m, u) = With(u, m, [i \in 1 .. Len(m.parts) |-> Returned(u, m, i)])
      BY <2>2, <3>6, CrossedIs DEF m
    <3>10. Back(m, u) = With(u, m, r)
      BY <3>6, <3>9 DEF r, m
    <3>11. With(u, m, r) = With(u, x, r)
      BY DEF With, m, Variant
    <3> QED  BY <3>2, <3>3, <3>4, <3>5, <3>6, <3>7, <3>8, <3>10, <3>11 DEF Returns, m
  <2> QED  BY <2>1, <2>2
<1>2. DOMAIN Levels \subseteq S
  <2>1. \A u \in DOMAIN Levels : (\A p \in DOMAIN Levels : Levels[p] < Levels[u] => p \in S) => u \in S
    BY <1>1
  <2> HIDE DEF S
  <2> QED  BY <2>1, TypeInduction
<1>3. P(t)
  BY <1>2
<1> QED  BY <1>3
-----------------------------------------------------------------------------
(* Bridge: calls. *)

\* What a value is passed as, and what it is read back as.
LEMMA Passing ==
    ASSUME NEW t \in DOMAIN Levels, NEW n, IsOf(n, t)
    PROVE  /\ Argument(n, t) = Meaning(n, t) <=> ~Changed(n, t)
           /\ FromJit(n, t) = Argument(n, t)
           /\ \A v \in {Argument(n, t), Box(n, t)} :
                 v \notin {Junk, Err} /\ Unbox(v, t) = Back(n, t) /\ ToJit(v, t) = Back(n, t)
<1>1. n # Garbage
  BY Whole
<1>2. Arrives(n, t)
  BY ArrivesOrChanged
<1>3. /\ Box(n, t) \notin {Junk, Err} /\ Unbox(Box(n, t), t) = Back(n, t)
      /\ t.is \in {"i8", "i32"} => Box(n, t).v # "Usize"
  <2>1. Box(n, t).v \notin {"junk", "Err"} /\ (t.is \in {"i8", "i32"} => Box(n, t).v # "Usize")
    BY BoxKind
  <2> QED  BY <2>1 DEF Junk, Err, Back
<1>4. ToJit(Box(n, t), t) = Back(n, t)
  BY <1>3 DEF ToJit
<1>5. CASE t.is = "i8"
  <2>1. ~HasSlots(t) /\ ~NeedsHeapBoxing(t) /\ ~IsHeap(t)
    BY <1>5 DEF HasSlots, NeedsHeapBoxing, IsHeap
  <2>2. Argument(n, t) = Num("I32", n.n) /\ FromJit(n, t) = Num("I32", n.n)
    BY <1>1, <1>5, <2>1 DEF Argument, FromJit
  <2>3. Unbox(Num("I32", n.n), t) = Back(n, t)
    BY <1>5, <2>1, BackOfScalar
  <2>4. Num("I32", n.n) \notin {Junk, Err} /\ Num("I32", n.n).v # "Usize"
    BY DEF Num, Junk, Err
  <2>5. Argument(n, t) = Meaning(n, t) <=> ~Changed(n, t)
    <3>1. Meaning(n, t) = Num("I32", n.n)
      BY <1>5, MadeOf DEF Meant
    <3>2. Contents(t, n) = <<>> /\ ~Alone(t, n, {"unit", "array"})
      BY <1>5, <2>1, Whole DEF Alone
    <3>3. DOMAIN Parts("change", t, n) = {}
      BY <3>2 DEF Parts
    <3>4. ~Changed(n, t)
      BY <3>2, <3>3, MadeOf DEF HasChanged
    <3> QED  BY <2>2, <3>1, <3>4
  <2> QED  BY <1>3, <1>4, <2>2, <2>3, <2>4, <2>5 DEF ToJit
<1>6. CASE t.is # "i8"
  <2>1. ~HasSlots(t) => Box(n, t) = BoxScalar(n, t)
    BY BoxKind
  <2>2. IsHeap(t) => HasSlots(t) \/ t.is = "str"
    BY TypeKinds DEF IsHeap
  <2>3. Argument(n, t) = Box(n, t) /\ FromJit(n, t) = Box(n, t)
    BY <1>1, <1>6, <2>1, <2>2, TypeKinds DEF Argument, FromJit, IsHeap
  <2> QED  BY <1>2, <1>3, <1>4, <1>6, <2>3 DEF Arrives
<1> QED  BY <1>5, <1>6

\* The values that cross are of their types.
LEMMA CrossingOf ==
    ASSUME NEW t \in DOMAIN Crossing
    PROVE  t \in DOMAIN Levels /\ \A n \in Crossing[t] : IsOf(n, t)
BY BridgeAssumption

\* A closure that is passed captures nothing, or one value.
LEMMA Callees ==
    ASSUME NEW t \in DOMAIN Crossing, NEW c \in Firsts \cup Capturing(t)
    PROVE  /\ c # Garbage
           /\ \/ c.code = "first" /\ c.of = <<>> /\ c.parts = <<>>
              \/ \E u \in DOMAIN Levels : \E x :
                    /\ c.of = <<u>> /\ c.parts = <<x>> /\ IsOf(x, u)
                    /\ c.code = "first" \/ (c.code = "captured" /\ u = t)
<1>1. CASE c = Closure("first", <<>>, <<>>)
  BY <1>1 DEF Closure, Garbage
<1>2. CASE c = Closure("first", <<Of("str")>>, <<Text("text")>>)
  <2> DEFINE u == Of("str")
             x == Text("text")
  <2>1. u \in DOMAIN Levels
    BY BridgeAssumption
  <2>2. u.is = "str" /\ x = Text(x.s) /\ x # Garbage
    BY DEF Of, Text, Garbage
  <2> HIDE DEF u, x
  <2>3. Shaped(u, x) /\ DOMAIN Contents(u, x) = {}
    BY <2>2 DEF Shaped, Contents
  <2>4. IsOf(x, u)
    BY <2>1, <2>3, MadeOf
  <2>5. c.code = "first" /\ c.of = <<u>> /\ c.parts = <<x>> /\ c # Garbage
    BY <1>2 DEF Closure, Garbage, u, x
  <2> QED  BY <2>1, <2>4, <2>5
<1>3. CASE c \in Capturing(t)
  <2>1. PICK n \in Crossing[t] : c = Closure("captured", <<t>>, <<n>>)
    BY <1>3 DEF Capturing
  <2>2. c.code = "captured" /\ c.of = <<t>> /\ c.parts = <<n>> /\ c # Garbage
    BY <2>1 DEF Closure, Garbage
  <2> QED  BY <2>2, CrossingOf
<1> QED  BY <1>1, <1>2, <1>3 DEF Firsts

\* The closure as the builtin gets it, with the arguments it takes.
TakenAs(held, c, t, j) ==
    /\ held.arity = j /\ held.code = c.code /\ held.ret = t /\ Len(held.parts) = Len(c.parts)
    /\ Len(c.parts) \in Nat /\ \A i \in 1 .. j : held.params[Len(c.parts) + 1 + i] = t
    /\ c.code = "captured" => /\ Len(c.parts) = 1 /\ IsOf(c.parts[1], t)
                              /\ ToJit(held.parts[1], held.params[1]) = Back(c.parts[1], t)

LEMMA BoxedCallee ==
    ASSUME NEW t \in DOMAIN Crossing, NEW c \in Firsts \cup Capturing(t), view = "made"
    PROVE  TakenAs(Box(c, TypeOfCallee(c, t)), c, t, IF route = "flip" THEN 2 ELSE 1)
<1>0. PICK args, T, held, k : /\ args = (IF route = "flip" THEN <<t, t>> ELSE <<t>>)
                             /\ T = TypeOfCallee(c, t) /\ held = Box(c, T) /\ k = Len(c.parts)
  OBVIOUS
<1>1. T = ClosureOf(c.of \o <<EnvType>> \o args, t)
  BY <1>0 DEF TypeOfCallee
<1>2. T.is = "closure" /\ T.ret = t /\ T.params = c.of \o <<EnvType>> \o args
  BY <1>1 DEF ClosureOf
<1>3. held = JitClosure(c.code, [i \in 1..Shorter(k, Len(T.params)) |->
                                   IF c.of[i] = T.params[i] THEN Converted("box", c.of[i], c.parts[i]) ELSE Junk],
                        Arity(Len(T.params), k), T.params, t)
  BY <1>0, <1>2 DEF Box, BoxClosure
<1>4. PICK captures : captures = [i \in 1..Shorter(k, Len(T.params)) |->
                                   IF c.of[i] = T.params[i] THEN Converted("box", c.of[i], c.parts[i]) ELSE Junk]
  OBVIOUS
<1>5. /\ held.code = c.code /\ held.ret = t /\ held.params = T.params
      /\ held.arity = Arity(Len(T.params), k) /\ held.parts = captures
  BY <1>3, <1>4 DEF JitClosure
<1>6. PICK j : j = (IF route = "flip" THEN 2 ELSE 1)
  OBVIOUS
<1>7. j \in {1, 2} /\ Len(args) = j /\ \A i \in 1 .. j : args[i] = t
  <2>1. CASE route = "flip"
    BY <1>0, <1>6, <2>1
  <2>2. CASE route # "flip"
    BY <1>0, <1>6, <2>2
  <2> QED  BY <2>1, <2>2
<1>8. ASSUME NEW l \in {0, 1}, k = l, Len(T.params) = l + 1 + j, \A i \in 1 .. j : T.params[l + 1 + i] = t
      PROVE  /\ held.arity = j /\ Len(held.parts) = k /\ \A i \in 1 .. j : held.params[k + 1 + i] = t
             /\ held.parts = [i \in 1 .. l |-> captures[i]]
  <2>1. Arity(l + 1 + j, l) = j
    BY <1>7 DEF Arity, AtLeast0
  <2>2. Shorter(l, l + 1 + j) = l
    BY <1>7 DEF Shorter
  <2>3. held.parts = [i \in 1 .. l |-> captures[i]]
    BY <1>4, <1>5, <1>8, <2>2
  <2>4. Len(held.parts) = l
    BY <2>3, Rows
  <2> QED  BY <1>5, <1>8, <2>1, <2>3, <2>4
<1>9. ASSUME c.code = "first" /\ c.of = <<>> /\ c.parts = <<>>
      PROVE  TakenAs(held, c, t, j)
  <2>1. k = 0
    BY <1>0, <1>9
  <2>2. CASE route = "flip"
    <3>1. T.params = <<>> \o <<EnvType>> \o <<t, t>>
      BY <1>0, <1>2, <1>9, <2>2
    <3>2. Len(T.params) = 3 /\ T.params[2] = t /\ T.params[3] = t
      BY <3>1
    <3> QED  BY <1>0, <1>5, <1>6, <1>8, <1>9, <2>1, <2>2, <3>2 DEF TakenAs
  <2>3. CASE route # "flip"
    <3>1. T.params = <<>> \o <<EnvType>> \o <<t>>
      BY <1>0, <1>2, <1>9, <2>3
    <3>2. Len(T.params) = 2 /\ T.params[2] = t
      BY <3>1
    <3> QED  BY <1>0, <1>5, <1>6, <1>8, <1>9, <2>1, <2>3, <3>2 DEF TakenAs
  <2> QED  BY <2>2, <2>3
<1>10. ASSUME NEW u \in DOMAIN Levels, NEW x, c.of = <<u>>, c.parts = <<x>>, IsOf(x, u),
              c.code = "first" \/ (c.code = "captured" /\ u = t)
       PROVE  TakenAs(held, c, t, j)
  <2>1. k = 1 /\ c.of[1] = u /\ c.parts[1] = x
    BY <1>0, <1>10
  <2>2. Len(T.params) = 2 + j /\ T.params[1] = u /\ \A i \in 1 .. j : T.params[2 + i] = t
    <3>1. CASE route = "flip"
      <4>1. T.params = <<u>> \o <<EnvType>> \o <<t, t>>
        BY <1>0, <1>2, <1>10, <3>1
      <4>2. Len(T.params) = 4 /\ T.params[1] = u /\ T.params[3] = t /\ T.params[4] = t
        BY <4>1
      <4> QED  BY <1>6, <3>1, <4>2
    <3>2. CASE route # "flip"
      <4>1. T.params = <<u>> \o <<EnvType>> \o <<t>>
        BY <1>0, <1>2, <1>10, <3>2
      <4>2. Len(T.params) = 3 /\ T.params[1] = u /\ T.params[3] = t
        BY <4>1
      <4> QED  BY <1>6, <3>2, <4>2
    <3> QED  BY <3>1, <3>2
  <2>3. /\ held.arity = j /\ Len(held.parts) = k /\ \A i \in 1 .. j : held.params[k + 1 + i] = t
        /\ held.parts = [i \in 1 .. 1 |-> captures[i]]
    BY <1>7, <1>8, <2>1, <2>2
  <2>4. ASSUME c.code = "captured" PROVE ToJit(held.parts[1], held.params[1]) = Back(c.parts[1], t)
    <3>1. Shorter(k, Len(T.params)) = 1
      BY <1>7, <2>1, <2>2 DEF Shorter
    <3>2. captures[1] = Converted("box", u, x)
      BY <1>4, <2>1, <2>2, <3>1
    <3>3. held.parts[1] = Box(x, u)
      <4>1. Box(x, u) = Converted("box", u, x)
        BY <1>10, BoxKind
      <4>2. 1 \in 1 .. 1
        OBVIOUS
      <4> QED  BY <2>3, <3>2, <4>1, <4>2
    <3>4. ToJit(Box(x, u), u) = Back(x, u)
      BY <1>10, Passing
    <3> QED  BY <1>5, <1>10, <2>1, <2>2, <2>4, <3>3, <3>4
  <2>5. c.code = "captured" => IsOf(c.parts[1], t)
    BY <1>10, <2>1
  <2> QED  BY <1>0, <1>5, <2>1, <2>3, <2>4, <2>5 DEF TakenAs
<1>11. TakenAs(held, c, t, j)
  BY <1>9, <1>10, Callees
<1> QED  BY <1>0, <1>6, <1>11

\* A closure as made returns what it would, boxed once more.
LEMMA CalledMade ==
    ASSUME NEW t \in DOMAIN Crossing, NEW c \in Firsts \cup Capturing(t), NEW held, NEW j \in {1, 2}, NEW n, NEW args,
           TakenAs(held, c, t, j), IsOf(n, t), Len(args) = j, 1 \in DOMAIN args, ToJit(args[1], t) = Back(n, t)
    PROVE  LET m == IF c.code = "captured" THEN c.parts[1] ELSE n
           IN  IsOf(m, t) /\ CallClosure(held, args) = Argument(Back(m, t), t)
<1>0. t \in DOMAIN Levels
  BY CrossingOf
<1>1. PICK m : m = (IF c.code = "captured" THEN c.parts[1] ELSE n)
  OBVIOUS
<1>2. IsOf(m, t)
  BY <1>1 DEF TakenAs
<1>3. PICK k, captures, passed :
         /\ k = Len(held.parts)
         /\ captures = [i \in 1..k |-> ToJit(held.parts[i], held.params[i])]
         /\ passed = [i \in DOMAIN args |-> ToJit(args[i], held.params[k + 1 + i])]
  OBVIOUS
<1>4. CallClosure(held, args) = FromJit(RunJit(held.code, captures, passed), held.ret)
  BY <1>3 DEF CallClosure, TakenAs
<1>5. passed[1] = Back(n, t)
  <2>1. held.params[k + 1 + 1] = t
    <3>1. 1 \in 1 .. j
      OBVIOUS
    <3> QED  BY <1>3, <3>1 DEF TakenAs
  <2> QED  BY <1>3, <2>1
<1>6. RunJit(held.code, captures, passed) = Back(m, t)
  <2>1. CASE c.code = "first"
    BY <1>1, <1>5, <2>1 DEF RunJit, TakenAs
  <2>2. CASE c.code = "captured"
    <3>1. k = 1 /\ 1 \in 1 .. k
      BY <1>3, <2>2 DEF TakenAs
    <3>2. captures[1] = ToJit(held.parts[1], held.params[1])
      BY <1>3, <3>1
    <3> QED  BY <1>1, <2>2, <3>2 DEF RunJit, TakenAs
  <2> QED  BY <2>1, <2>2, Callees
<1>7. IsOf(Back(m, t), t)
  BY <1>0, <1>2, ComesBack DEF Returns
<1>8. FromJit(Back(m, t), t) = Argument(Back(m, t), t)
  BY <1>0, <1>7, Passing
<1>9. CallClosure(held, args) = Argument(Back(m, t), t)
  BY <1>4, <1>6, <1>8 DEF TakenAs
<1> QED  BY <1>1, <1>2, <1>9

\* One as declared takes fewer arguments than it is given.
LEMMA CalledDeclared ==
    ASSUME NEW t \in DOMAIN Crossing, NEW c \in Firsts \cup Capturing(t), view = "declared",
           NEW args, Len(args) = (IF route = "flip" THEN 2 ELSE 1)
    PROVE  CallClosure(Box(c, TypeOfCallee(c, t)), args) = Err
<1>1. PICK T, j, k, ps : /\ ps = (IF route = "flip" THEN <<t, t>> ELSE <<t>>) /\ T = TypeOfCallee(c, t)
                         /\ j = (IF route = "flip" THEN 2 ELSE 1) /\ k = Len(c.parts)
  OBVIOUS
<1>2. T.is = "closure" /\ T.params = ps /\ Len(ps) = j /\ j \in {1, 2}
  BY <1>1 DEF TypeOfCallee, ClosureOf
<1>3. k \in {0, 1}
  <2>1. c.parts = <<>> \/ \E x : c.parts = <<x>>
    BY Callees
  <2> QED  BY <1>1, <2>1
<1>4. Box(c, T).arity = Arity(j, k)
  BY <1>1, <1>2 DEF Box, BoxClosure, JitClosure
<1>5. Arity(j, k) # j
  BY <1>2, <1>3 DEF Arity, AtLeast0
<1> QED  BY <1>1, <1>4, <1>5 DEF CallClosure

\* A value is not what a call gives that goes wrong.
LEMMA NotWrong ==
    ASSUME NEW t \in DOMAIN Levels, NEW n, IsOf(n, t)
    PROVE  n \notin {Garbage, Aborted, ZeroWord}
<1>1. Shaped(t, n)
  BY Whole
<1>2. \/ n = Word(n.n) \/ n = Word(0) \/ n = Real(n.r) \/ n = Text(n.s)
      \/ n = Block(n.parts) \/ n = Variant(n.disc, n.parts)
  BY <1>1, TypeKinds DEF Shaped, HasSlots
<1>3. n.as \notin {"garbage", "aborted", "zero"}
  BY <1>2 DEF Word, Real, Text, Block, Variant
<1> QED  BY <1>3 DEF Garbage, Aborted, ZeroWord

\* What the program calls, and with what.
Chosen ==
    /\ route \in {"id", "const", "apply", "flip"}
    /\ type \in DOMAIN Crossing /\ given \in Crossing[type]
    /\ IF route \in {"id", "const"} THEN callee = Garbage
       ELSE view \in {"made", "declared"} /\ callee \in Firsts \cup Capturing(type)

\* What the builtin gets, what it returns, and what the program gets from that.
PassedOn ==
    CASE route \in {"id", "const"} -> <<Argument(given, type)>>
      [] route = "apply" -> <<Box(callee, TypeOfCallee(callee, type)), Argument(given, type)>>
      [] route = "flip" -> <<Box(callee, TypeOfCallee(callee, type))>>
Executed ==
    CASE route = "id"    -> PassedOn
      [] route = "const" -> <<BuiltinClosure("const.closure", PassedOn, 1)>>
      [] route = "apply" -> <<CallClosure(PassedOn[1], <<PassedOn[2]>>)>>
      [] route = "flip"  -> <<BuiltinClosure("flip.closure", PassedOn, 2)>>
TrampolineGives ==
    LET args == IF route = "const" THEN <<Decoded(Word(1), Of("i32"))>>
                ELSE <<Decoded(Sample[type], type), Decoded(given, type)>>
        held == Executed[1].parts[1]
    IN IF Junk \in {args[i] : i \in DOMAIN args} THEN Garbage
       ELSE Encoded(IF route = "const" THEN held ELSE CallClosure(held, <<args[2], args[1]>>), type)
Final ==
    IF route \in {"id", "apply"} THEN IF Executed[1] = Err THEN Aborted ELSE Result(Executed[1], type)
    ELSE TrampolineGives

\* What id returns.
LEMMA FinalOfId ==
    ASSUME Chosen, route = "id"
    PROVE  Final = Direct <=> ~GoesWrong
<1>1. type \in DOMAIN Levels /\ IsOf(given, type)
  BY CrossingOf DEF Chosen
<1>2. Direct = given /\ (GoesWrong <=> Emptied(given, type) \/ type.is = "f32")
  BY DEF Direct, GoesWrong, Chosen
<1>3. Executed[1] = Argument(given, type)
  BY DEF Executed, PassedOn
<1>4. Argument(given, type) # Err /\ Unbox(Argument(given, type), type) = Back(given, type)
  BY <1>1, Passing
<1>5. Final = IF type.is = "f32" THEN Garbage ELSE Back(given, type)
  BY <1>3, <1>4 DEF Final, Result
<1>6. given # Garbage /\ (Back(given, type) = given <=> ~Emptied(given, type))
  BY <1>1, Whole, ComesBack DEF Returns
<1> QED  BY <1>2, <1>5, <1>6

\* What the closure of const returns.
LEMMA FinalOfConst ==
    ASSUME Chosen, route = "const"
    PROVE  Final = Direct <=> ~GoesWrong
<1>1. type \in DOMAIN Levels /\ IsOf(given, type)
  BY CrossingOf DEF Chosen
<1>2. Direct = given /\ (GoesWrong <=> Emptied(given, type) \/ type.is = "usize")
  BY DEF Direct, GoesWrong, Chosen
<1>3. Executed[1].parts[1] = Argument(given, type)
  BY DEF Executed, PassedOn, BuiltinClosure
<1>4. Decoded(Word(1), Of("i32")) # Junk
  BY DEF Decoded, Of, IsHeap, NeedsHeapBoxing, BoxScalar, Num, Junk
<1>5. TrampolineGives = Encoded(Argument(given, type), type)
  BY <1>3, <1>4 DEF TrampolineGives
<1>6. Argument(given, type) \notin {Err, Junk} /\ Unbox(Argument(given, type), type) = Back(given, type)
  BY <1>1, Passing
<1>7. Final = IF type.is = "usize" THEN Garbage ELSE Back(given, type)
  BY <1>5, <1>6 DEF Final, Encoded
<1>8. given # Garbage /\ (Back(given, type) = given <=> ~Emptied(given, type))
  BY <1>1, Whole, ComesBack DEF Returns
<1> QED  BY <1>2, <1>7, <1>8

\* What apply returns.
LEMMA FinalOfApply ==
    ASSUME Chosen, route = "apply"
    PROVE  Final = Direct <=> ~GoesWrong
<1>1. /\ type \in DOMAIN Crossing /\ type \in DOMAIN Levels /\ IsOf(given, type)
      /\ callee \in Firsts \cup Capturing(type) /\ view \in {"made", "declared"}
  BY CrossingOf DEF Chosen
<1>2. PICK m : m = (IF callee.code = "captured" THEN callee.parts[1] ELSE given)
  OBVIOUS
<1>3. callee # Garbage
  BY <1>1, Callees
<1>4. Direct = m /\ (GoesWrong <=> Emptied(m, type) \/ type.is = "f32" \/ view = "declared")
  BY <1>2, <1>3 DEF Direct, GoesWrong
<1>5. PICK held, args : held = Box(callee, TypeOfCallee(callee, type)) /\ args = <<Argument(given, type)>>
  OBVIOUS
<1>6. Executed[1] = CallClosure(held, args)
  BY <1>5 DEF Executed, PassedOn
<1>7. Len(args) = 1 /\ 1 \in DOMAIN args /\ ToJit(args[1], type) = Back(given, type)
  BY <1>1, <1>5, Passing
<1>8. IsOf(m, type)
  <2>1. callee.code = "captured" => IsOf(callee.parts[1], type)
    BY <1>1, Callees
  <2> QED  BY <1>1, <1>2, <2>1
<1>9. CASE view = "declared"
  <2>1. Executed[1] = Err
    BY <1>1, <1>5, <1>6, <1>7, <1>9, CalledDeclared
  <2>2. Final = Aborted
    BY <2>1 DEF Final
  <2>3. m # Aborted
    BY <1>1, <1>8, NotWrong
  <2> QED  BY <1>4, <1>9, <2>2, <2>3
<1>10. CASE view = "made"
  <2>1. TakenAs(held, callee, type, 1)
    BY <1>1, <1>5, <1>10, BoxedCallee
  <2>2. CallClosure(held, args) = Argument(Back(m, type), type)
    BY <1>1, <1>2, <1>7, <2>1, CalledMade
  <2>3. IsOf(Back(m, type), type) /\ (Back(Back(m, type), type) = m <=> ~Emptied(m, type))
    BY <1>1, <1>8, ComesBack DEF Returns
  <2>4. /\ Argument(Back(m, type), type) # Err
        /\ Unbox(Argument(Back(m, type), type), type) = Back(Back(m, type), type)
    BY <1>1, <2>3, Passing
  <2>5. Final = IF type.is = "f32" THEN Garbage ELSE Back(Back(m, type), type)
    BY <1>6, <2>2, <2>4 DEF Final, Result
  <2>6. m # Garbage
    BY <1>1, <1>8, Whole
  <2> QED  BY <1>4, <1>10, <2>3, <2>5, <2>6
<1> QED  BY <1>1, <1>9, <1>10

\* What the closure of flip returns.
LEMMA FinalOfFlip ==
    ASSUME Chosen, route = "flip"
    PROVE  Final = Direct <=> ~GoesWrong
<1>1. /\ type \in DOMAIN Crossing /\ type \in DOMAIN Levels /\ IsOf(given, type)
      /\ callee \in Firsts \cup Capturing(type) /\ view \in {"made", "declared"}
  BY CrossingOf DEF Chosen
<1>2. PICK m : m = (IF callee.code = "captured" THEN callee.parts[1] ELSE given)
  OBVIOUS
<1>3. callee # Garbage
  BY <1>1, Callees
<1>4. /\ Direct = m
      /\ GoesWrong <=> Emptied(m, type) \/ type.is = "usize" \/ view = "declared" \/ IsHeap(type)
  BY <1>2, <1>3 DEF Direct, GoesWrong
<1>5. IsOf(m, type)
  <2>1. callee.code = "captured" => IsOf(callee.parts[1], type)
    BY <1>1, Callees
  <2> QED  BY <1>1, <1>2, <2>1
<1>6. m \notin {Garbage, ZeroWord}
  BY <1>1, <1>5, NotWrong
<1>7. PICK held, one, two : /\ held = Box(callee, TypeOfCallee(callee, type))
                            /\ one = Decoded(Sample[type], type) /\ two = Decoded(given, type)
  OBVIOUS
<1>8. Executed[1].parts[1] = held
  BY <1>7 DEF Executed, PassedOn, BuiltinClosure
<1>9. Final = IF Junk \in {one, two} THEN Garbage ELSE Encoded(CallClosure(held, <<two, one>>), type)
  BY <1>7, <1>8 DEF Final, TrampolineGives
<1>10. CASE IsHeap(type)
  <2>1. two = Junk
    BY <1>7, <1>10 DEF Decoded
  <2> QED  BY <1>4, <1>6, <1>9, <1>10, <2>1
<1>11. CASE ~IsHeap(type)
  <2>1. ~HasSlots(type)
    BY <1>1, <1>11, TypeKinds DEF IsHeap
  <2>2. IsOf(Sample[type], type)
    <3>1. Sample[type] \in Crossing[type]
      BY <1>1 DEF Sample, Chosen
    <3> QED  BY <1>1, <3>1, CrossingOf
  <2>3. one = Box(Sample[type], type) /\ two = Box(given, type)
    BY <1>1, <1>7, <1>11, <2>1, <2>2, BoxKind DEF Decoded
  <2>4. Junk \notin {one, two} /\ ToJit(two, type) = Back(given, type)
    BY <1>1, <2>2, <2>3, Passing
  <2>5. PICK args : args = <<two, one>>
    OBVIOUS
  <2>6. Len(args) = 2 /\ 1 \in DOMAIN args /\ args[1] = two
    BY <2>5
  <2>7. Final = Encoded(CallClosure(held, args), type)
    BY <1>9, <2>4, <2>5
  <2>8. CASE view = "declared"
    <3>1. CallClosure(held, args) = Err
      BY <1>1, <1>7, <2>6, <2>8, CalledDeclared
    <3>2. Final = ZeroWord
      BY <2>7, <3>1 DEF Encoded
    <3> QED  BY <1>4, <1>6, <2>8, <3>2
  <2>9. CASE view = "made"
    <3>1. TakenAs(held, callee, type, 2)
      BY <1>1, <1>7, <2>9, BoxedCallee
    <3>2. CallClosure(held, args) = Argument(Back(m, type), type)
      BY <1>1, <1>2, <2>4, <2>6, <3>1, CalledMade
    <3>3. Back(m, type) = m /\ ~Emptied(m, type)
      BY <1>1, <1>5, <2>1, BackOfScalar, EmptiedIs
    <3>4. Argument(m, type) \notin {Err, Junk} /\ Unbox(Argument(m, type), type) = m
      BY <1>1, <1>5, <3>3, Passing
    <3>5. Final = IF type.is = "usize" THEN Garbage ELSE m
      BY <2>7, <3>2, <3>3, <3>4 DEF Encoded
    <3> QED  BY <1>4, <1>6, <1>11, <2>9, <3>3, <3>5
  <2> QED  BY <1>1, <2>8, <2>9
<1> QED  BY <1>10, <1>11
-----------------------------------------------------------------------------
(* Bridge: the invariant. *)

\* What is passed on and what the program gets is what the builtin makes of the
\* arguments.
BridgeInv ==
    /\ Chosen
    /\ side = "builtin" => inside = PassedOn
    /\ side \in {"executed", "holding"} => inside = Executed
    /\ side = "holding" => route \in {"const", "flip"}
    /\ side = "back" => outcome = Final

LEMMA BridgeStarts == BridgeInit => BridgeInv
<1> SUFFICES ASSUME BridgeInit PROVE BridgeInv
  OBVIOUS
<1>1. side = "program" /\ type \in DOMAIN Crossing
  BY DEF BridgeInit
<1>2. given \in Crossing[type]
  <2>1. Capturing(type) # {} => Sample[type] \in Crossing[type]
    BY <1>1 DEF Capturing, Sample
  <2> QED  BY <2>1 DEF BridgeInit
<1>3. /\ route \in {"id", "const", "apply", "flip"}
      /\ IF route \in {"id", "const"} THEN callee = Garbage
         ELSE view \in {"made", "declared"} /\ callee \in Firsts \cup Capturing(type)
  BY DEF BridgeInit
<1> QED  BY <1>1, <1>2, <1>3 DEF BridgeInv, Chosen

LEMMA BridgeKept == BridgeInv /\ [Cross]_bridgeVars => BridgeInv'
<1> SUFFICES ASSUME BridgeInv, [Cross]_bridgeVars PROVE BridgeInv'
  OBVIOUS
<1>1. UNCHANGED <<route, given, type, callee, view>>
  BY DEF Cross, Enter, Execute, Leave, Trampoline, bridgeVars
<1>2. Chosen'
  BY <1>1 DEF BridgeInv, Chosen
<1>3. PassedOn' = PassedOn
  BY <1>1 DEF PassedOn, TypeOfCallee
<1>4. Executed' = Executed
  BY <1>1, <1>3 DEF Executed
<1>5. TrampolineGives' = TrampolineGives
  BY <1>1, <1>4 DEF TrampolineGives
<1>6. Final' = Final
  BY <1>1, <1>4, <1>5 DEF Final
<1>7. route \in {"id", "const", "apply", "flip"}
  BY DEF BridgeInv, Chosen
<1>8. CASE Enter
  <2>1. inside' = PassedOn /\ side' = "builtin"
    BY <1>8 DEF Enter, PassedOn
  <2> QED  BY <1>2, <1>3, <2>1 DEF BridgeInv
<1>9. CASE Execute
  <2>1. inside = PassedOn /\ side' = "executed"
    BY <1>9 DEF Execute, BridgeInv
  <2>2. inside' = Executed
    BY <1>9, <2>1 DEF Execute, Executed
  <2> QED  BY <1>2, <1>4, <2>1, <2>2 DEF BridgeInv
<1>10. CASE Leave
  <2>1. inside = Executed /\ inside' = Executed
    BY <1>10 DEF Leave, BridgeInv
  <2>2. CASE route \in {"id", "apply"}
    <3>1. side' = "back" /\ outcome' = Final
      BY <1>10, <2>1, <2>2 DEF Leave, Final
    <3> QED  BY <1>2, <1>6, <3>1 DEF BridgeInv
  <2>3. CASE route \notin {"id", "apply"}
    <3>1. side' = "holding"
      BY <1>10, <2>3 DEF Leave
    <3>2. route' \in {"const", "flip"}
      BY <1>1, <1>7, <2>3
    <3> QED  BY <1>2, <1>4, <2>1, <3>1, <3>2 DEF BridgeInv
  <2> QED  BY <2>2, <2>3
<1>11. CASE Trampoline
  <2>1. inside = Executed /\ route \in {"const", "flip"} /\ side' = "back"
    BY <1>11 DEF Trampoline, BridgeInv
  <2>2. outcome' = TrampolineGives
    BY <1>11, <2>1 DEF Trampoline, TrampolineGives
  <2>3. outcome' = Final
    BY <2>1, <2>2 DEF Final
  <2> QED  BY <1>2, <1>6, <2>1, <2>3 DEF BridgeInv
<1>12. CASE UNCHANGED bridgeVars
  <2>1. UNCHANGED <<inside, side, route, outcome>>
    BY <1>12 DEF bridgeVars
  <2> QED  BY <1>2, <1>3, <1>4, <1>6, <2>1 DEF BridgeInv
<1> QED  BY <1>8, <1>9, <1>10, <1>11, <1>12 DEF Cross

\* A value of any type and depth arrives in id, const and apply as what it is,
\* unless there is a byte in it or a variant with () or an array alone.
THEOREM ArriveWhole == BridgeSpec => []ArrivesWhole
<1>1. BridgeInv => ArrivesWhole
  <2> SUFFICES ASSUME BridgeInv, side = "builtin", route \in {"id", "const", "apply"}
               PROVE  inside[Len(inside)] = Meaning(given, type) <=> ~Changed(given, type)
    BY DEF ArrivesWhole
  <2>1. inside = PassedOn
    BY DEF BridgeInv
  <2>2. inside[Len(inside)] = Argument(given, type)
    BY <2>1 DEF PassedOn
  <2>3. type \in DOMAIN Levels /\ IsOf(given, type)
    BY CrossingOf DEF BridgeInv, Chosen
  <2> QED  BY <2>2, <2>3, Passing
<1> QED  BY <1>1, BridgeStarts, BridgeKept, PTL DEF BridgeSpec

\* Every call of a builtin, and of the closures that const and flip return, gives
\* what the same function of the program would, but in the cases GoesWrong lists.
THEOREM CallsAsDirect == BridgeSpec => []SameAsDirect
<1>1. BridgeInv => SameAsDirect
  <2> SUFFICES ASSUME BridgeInv, side = "back" PROVE outcome = Direct <=> ~GoesWrong
    BY DEF SameAsDirect
  <2>1. outcome = Final /\ Chosen
    BY DEF BridgeInv
  <2>2. route \in {"id", "const", "apply", "flip"}
    BY <2>1 DEF Chosen
  <2> QED  BY <2>1, <2>2, FinalOfId, FinalOfConst, FinalOfApply, FinalOfFlip
<1> QED  BY <1>1, BridgeStarts, BridgeKept, PTL DEF BridgeSpec
=============================================================================
