------------------------------ MODULE MCValues ------------------------------
(* How a value made in one place is used in another: a record of            *)
(* MCRecordLayout, a value of another type in up to four method calls, the  *)
(* subject of a match, a value passed to a builtin and back, the closures   *)
(* that builtins return, two values that are compared, a literal and what   *)
(* is computed with it, or the values that compiled functions pass to each  *)
(* other; one of them from the start on.                                    *)
EXTENDS MCRecordLayout, MCComparison, MCNumbers, MCFrames, Methods, Matching, Bridge, ClosureRegistry

CONSTANT Ints           \* the numbers that cross

\* The types that cross: each scalar, and blocks in each other.
CrossingTypes ==
    {Of(s) : s \in {"i8", "i32", "usize", "bool", "unit", "f32", "f64", "str"}}
    \cup {ArrayOf(Of(s)) : s \in {"i8", "i32", "usize", "f32", "str"}}
    \cup {OptionOf(Of(s)) : s \in {"i8", "i32", "unit", "str"}}
    \cup {OptionOf(OptionOf(Number)), OptionOf(ArrayOf(Number)), ArrayOf(OptionOf(ArrayOf(Number))),
          ArrayOf(ArrayOf(Number)), OptionOf(ArrayOf(ArrayOf(Number))), TagWith(<<<<Number, ArrayOf(Number)>>, <<Of("str")>>>>)}
    \cup {RecordWith(<<[name |-> "a", of |-> Number], [name |-> "b", of |-> t]>>) :
             t \in {Of("i8"), ArrayOf(Number), OptionOf(Of("unit")), OptionOf(ArrayOf(Number))}}

\* The values of a type.
RECURSIVE Natives(_)
TuplesOf(types) == LET all == UNION {Natives(types[i]) : i \in DOMAIN types}
                   IN {s \in [DOMAIN types -> all] : \A i \in DOMAIN types : s[i] \in Natives(types[i])}
Natives(t) ==
    CASE t.is \in {"i8", "i32", "usize"} -> {Word(k) : k \in Ints}
      [] t.is = "bool" -> {Word(k) : k \in 0..1}
      [] t.is = "unit" -> {Word(0)}
      [] t.is \in {"f32", "f64"} -> {Real("1.5")}
      [] t.is = "str" -> {Text("text")}
      [] t.is = "array" -> {Block(s) : s \in UNION {TuplesOf([i \in 1 .. k |-> t.of]) : k \in 0..MaxElems}}
      [] t.is = "record" -> {Block(s) : s \in TuplesOf(FieldTypes(t))}
      [] t.is = "tag" -> UNION {{Variant(d - 1, s) : s \in TuplesOf(t.variants[d])} : d \in DOMAIN t.variants}
MCCrossing == [t \in CrossingTypes |-> Natives(t)]

\* The types with their parts, and how deep they are.
RECURSIVE TypesIn(_), DepthOf(_)
TypesIn(t) == {t} \cup UNION {TypesIn(p) : p \in PartTypes(t)}
DepthOf(t) == Max({0} \cup {1 + DepthOf(p) : p \in PartTypes(t)})
MCLevels == [t \in UNION {TypesIn(u) : u \in CrossingTypes} |-> DepthOf(t)]

NoCrossing == /\ route = "none" /\ given = Garbage /\ type = Number /\ callee = Garbage
              /\ view = "made" /\ side = "none" /\ inside = <<>> /\ outcome = Garbage
NoRecord == /\ written = <<>> /\ block = <<>> /\ static = {}
            /\ got = {} /\ released = {} /\ freed = 8
NoCalls == /\ ty = "other" /\ val = PlainValue("other") /\ meant = [variant |-> "none"]
           /\ maker = "source" /\ crossed = FALSE
           /\ call = NoCall /\ stage = "none" /\ len = 0
\* One match that nobody makes.
NoMatch == /\ kind = "tuple" /\ arms = <<[form |-> "any", head |-> 0, sub |-> AnySub]>>
           /\ phase = "check" /\ next = 1 /\ cases = <<>> /\ lits = <<>>
           /\ default = 0 /\ chain = <<>> /\ value = NoValue /\ at = 0
NoNumber == /\ literal = [digits |-> 0, form |-> "decimal", suffix |-> "none", minus |-> FALSE, step |-> NoOperation]
            /\ reached = "written" /\ word = 0
NoFrames == frames = <<>> /\ objects = <<>>

\* The part of the run.
VARIABLE part
Parts == {"record", "calls", "match", "crossing", "registry", "comparison", "numbers", "frames"}
ValuesInit ==
    /\ part \in Parts
    /\ IF part = "record" THEN RecordInit ELSE NoRecord
    /\ IF part = "calls" THEN MethodInit ELSE NoCalls
    /\ IF part = "match" THEN Init ELSE NoMatch
    /\ IF part = "crossing" THEN BridgeInit ELSE NoCrossing
    /\ IF part = "comparison" THEN ComparisonInit ELSE NoComparison
    /\ IF part = "numbers" THEN NumbersInit ELSE NoNumber
    /\ IF part = "frames" THEN FramesInit ELSE NoFrames
    /\ RegistryInit

\* All that a step of some part leaves alone, but the parts it names.
OldVars == <<recordVars, methodVars, vars>>
NewVars == <<comparisonVars, numberVars, framesVars>>
ValuesNext ==
    \/ part = "record"     /\ RecordNext     /\ UNCHANGED <<part, methodVars, vars, bridgeVars, registryVars, NewVars>>
    \/ part = "calls"      /\ NextStage      /\ UNCHANGED <<part, recordVars, vars, bridgeVars, registryVars, NewVars>>
    \/ part = "match"      /\ Next           /\ UNCHANGED <<part, recordVars, methodVars, bridgeVars, registryVars, NewVars>>
    \/ part = "crossing"   /\ Cross          /\ UNCHANGED <<part, OldVars, registryVars, NewVars>>
    \/ part = "registry"   /\ RegistryStep   /\ UNCHANGED <<part, OldVars, bridgeVars, NewVars>>
    \/ part = "comparison" /\ ComparisonNext /\ UNCHANGED <<part, OldVars, bridgeVars, registryVars, numberVars, framesVars>>
    \/ part = "numbers"    /\ NumbersNext    /\ UNCHANGED <<part, OldVars, bridgeVars, registryVars, comparisonVars, framesVars>>
    \/ part = "frames"     /\ FramesNext     /\ UNCHANGED <<part, OldVars, bridgeVars, registryVars, comparisonVars, numberVars>>
ValuesSpec == ValuesInit /\ [][ValuesNext]_<<part, OldVars, bridgeVars, registryVars, NewVars>>
=============================================================================
