------------------------------ MODULE Matching ------------------------------
(***************************************************************************)
(* A match expression from the type checker to the machine: check_exhaustive  *)
(* accepts it, lower_expr sorts its arms into the cases of a switch, a chain   *)
(* of literal tests and a default, compile_switch validates the cases, and     *)
(* the code then finds an arm for a value.                                   *)
(*                                                                         *)
(* A pattern is what it says about a value: the head it asks for (a variant,   *)
(* a literal) and what it asks of the field under the head: AnySub for a binding *)
(* or a wildcard, a value for a nested literal or constructor.                *)
(***************************************************************************)
EXTENDS Integers, Sequences

CONSTANTS
  Kinds,      \* kinds of subject: "tag", "tuple", "record", "prim"
  Variants,   \* how many variants the tag type has
  Literals,   \* values of the primitive type
  Fields,     \* values of the field under a head
  AnySub,     \* the sub-pattern every field matches
  MaxArms     \* arms of a match

ASSUME VariantsAssumption == Variants \in Nat \ {0}
ASSUME LiteralsAssumption == Literals \subseteq Int
ASSUME AnyAssumption      == AnySub \notin Fields
ASSUME MaxArmsAssumption  == MaxArms \in Nat
ASSUME KindsAssumption    == Kinds \subseteq {"tag", "tuple", "record", "prim"}

VARIABLES
  kind,     \* what the subject is
  arms,     \* the patterns of the match, in order
  phase,    \* the stage the match is in
  cases,    \* switch_arms: the discriminant and the arm of each case
  lits,     \* literal_arms not yet in the chain
  default,  \* default_arm, 0 for None
  next,     \* the arm to lower
  chain,    \* the literal arms in the order their tests run
  value,    \* the subject's value
  at        \* the test to run, and then the arm taken

vars == <<kind, arms, phase, cases, lits, default, next, chain, value, at>>

-----------------------------------------------------------------------------
Heads(k) == CASE k = "tag" -> 0 .. Variants - 1 [] k = "prim" -> Literals [] OTHER -> {0}

Form(k) == CASE k = "tag" -> "ctor" [] k = "prim" -> "lit" [] OTHER -> k

Patterns(k) ==
  [form : {"any"}, head : {0}, sub : {AnySub}]
    \cup [form : {Form(k)}, head : Heads(k),
          sub : IF k = "prim" THEN {AnySub} ELSE Fields \cup {AnySub}]

ValuesOf(k) == [head : Heads(k), field : Fields]

Matches(p, v) == p.form = "any" \/ (p.head = v.head /\ p.sub \in {AnySub, v.field})

NoValue == [head |-> 0, field |-> AnySub]

Init ==
  /\ kind \in Kinds
  /\ \E n \in 1 .. MaxArms : arms \in [1 .. n -> Patterns(kind)]
  /\ phase = "check" /\ next = 1
  /\ cases = <<>> /\ lits = <<>> /\ default = 0 /\ chain = <<>>
  /\ value = NoValue /\ at = 0

(* For comparison: a binding under a constructor is taken for one that covers   *)
(* all values.                                                              *)
ExhaustiveAnywhere ==
  kind = "tag" => \/ \E i \in DOMAIN arms : arms[i].sub = AnySub
                  \/ \A d \in Heads(kind) : \E i \in DOMAIN arms : arms[i].head = d

(* check_exhaustive: only tag types with known variants are looked at, and of   *)
(* a pattern only its constructor.                                          *)
Exhaustive ==
  kind = "tag" => \/ \E i \in DOMAIN arms : arms[i].form = "any"
                  \/ \A d \in Heads(kind) : \E i \in DOMAIN arms : arms[i].head = d

Check ==
  /\ phase = "check"
  /\ phase' = IF Exhaustive THEN "lower" ELSE "rejected"
  /\ UNCHANGED <<kind, arms, cases, lits, default, next, chain, value, at>>

(* default_arm = Some(..): a later wildcard replaces an earlier one.           *)
SetDefault == default' = next

LowerArm ==
  /\ phase = "lower" /\ next <= Len(arms)
  /\ LET p == arms[next] IN
     \/ /\ p.form \in {"any", "record"}
        /\ SetDefault
        /\ UNCHANGED <<cases, lits>>
     \/ /\ p.form = "lit"
        /\ lits' = Append(lits, next)
        /\ UNCHANGED <<cases, default>>
     \/ /\ p.form = "ctor"
        /\ cases' = Append(cases, [disc |-> p.head, arm |-> next])
        /\ UNCHANGED <<lits, default>>
     \/ /\ p.form = "tuple"
        /\ cases' = Append(cases, [disc |-> Len(cases), arm |-> next])
        /\ UNCHANGED <<lits, default>>
  /\ next' = next + 1
  /\ UNCHANGED <<kind, arms, phase, chain, value, at>>

(* For comparison: the chain is built from its end but its checks are kept in   *)
(* the order of building.                                                   *)
BuildCheckForward ==
  /\ phase = "lower" /\ next > Len(arms) /\ lits # <<>>
  /\ chain' = Append(chain, lits[Len(lits)])
  /\ lits'  = SubSeq(lits, 1, Len(lits) - 1)
  /\ UNCHANGED <<kind, arms, phase, cases, default, next, value, at>>

(* The chain is built from its end: the first literal is tested first.         *)
BuildCheck ==
  /\ phase = "lower" /\ next > Len(arms) /\ lits # <<>>
  /\ chain' = <<lits[Len(lits)]>> \o chain
  /\ lits'  = SubSeq(lits, 1, Len(lits) - 1)
  /\ UNCHANGED <<kind, arms, phase, cases, default, next, value, at>>

(* validate_switch_arms: no discriminant twice.                              *)
Duplicate ==
  \E i, j \in DOMAIN cases : i # j /\ cases[i].disc = cases[j].disc

Compile ==
  /\ phase = "lower" /\ next > Len(arms) /\ lits = <<>>
  /\ phase' = IF Duplicate THEN "error" ELSE "ready"
  /\ UNCHANGED <<kind, arms, cases, lits, default, next, chain, value, at>>

Start ==
  /\ phase = "ready"
  /\ value' \in ValuesOf(kind)
  /\ at' = 1
  /\ phase' = IF kind \in {"tag", "tuple"} THEN "switch" ELSE "test"
  /\ UNCHANGED <<kind, arms, cases, lits, default, next, chain>>

(* Where nothing else applies: the default arm, or the trap.                   *)
Fallback ==
  /\ phase' = IF default = 0 THEN "trap" ELSE "taken"
  /\ at' = default

Switch ==
  /\ phase = "switch"
  /\ \/ \E i \in DOMAIN cases :
          cases[i].disc = value.head /\ phase' = "taken" /\ at' = cases[i].arm
     \/ (\A i \in DOMAIN cases : cases[i].disc # value.head) /\ Fallback
  /\ UNCHANGED <<kind, arms, cases, lits, default, next, chain, value>>

TestLiteral ==
  /\ phase = "test"
  /\ \/ at > Len(chain) /\ Fallback
     \/ /\ at <= Len(chain) /\ arms[chain[at]].head = value.head
        /\ phase' = "taken" /\ at' = chain[at]
     \/ /\ at <= Len(chain) /\ arms[chain[at]].head # value.head
        /\ at' = at + 1
        /\ UNCHANGED phase
  /\ UNCHANGED <<kind, arms, cases, lits, default, next, chain, value>>

Next ==
  Check \/ LowerArm \/ BuildCheck \/ Compile \/ Start \/ Switch \/ TestLiteral

Spec == Init /\ [][Next]_vars

-----------------------------------------------------------------------------
(* A match every arm of which tests no more than its head, and whose arms      *)
(* after one that matches everything are none.                               *)
Irrefutable(p) == p.form \in {"any", "tuple", "record"} /\ p.sub = AnySub

Plain ==
  /\ \A i \in DOMAIN arms : arms[i].sub = AnySub
  /\ \A i \in DOMAIN arms : Irrefutable(arms[i]) => i = Len(arms)

IsFirst(i) ==
  /\ Matches(arms[i], value)
  /\ \A j \in 1 .. i - 1 : ~Matches(arms[j], value)

(* The arm a plain match takes is the first one that matches the value, though *)
(* constructors become an unordered switch and literals a chain that is built  *)
(* backwards.                                                              *)
FirstMatch == phase = "taken" /\ Plain => IsFirst(at)

(* A match on a tag type that check_exhaustive accepts finds an arm for every   *)
(* value, nested patterns or not (error.rs:44); so does one on a tuple or a     *)
(* record.                                                                 *)
TagsNeverTrap == phase = "trap" => kind = "prim"

(* An accepted match fails to compile only if two of its arms name one          *)
(* constructor.                                                            *)
ErrorIsDuplicate ==
  phase = "error" => \E i, j \in DOMAIN arms :
    i # j /\ arms[i].form = "ctor" /\ arms[j].form = "ctor" /\ arms[i].head = arms[j].head

(* What holds of the accumulators while the arms are lowered: together they     *)
(* hold every arm so far, each where its form says; literals and cases in       *)
(* order, the default the last of its kind.                                   *)
Phases == {"check", "rejected", "lower", "error", "ready", "switch", "test", "taken", "trap"}

TypeOK ==
  /\ kind \in Kinds /\ phase \in Phases
  /\ arms \in Seq(Patterns(kind))
  /\ next \in Nat /\ default \in Nat /\ at \in Nat
  /\ cases \in Seq([disc : Int, arm : Nat])
  /\ lits \in Seq(Nat) /\ chain \in Seq(Nat)
  /\ value \in ValuesOf(kind) \cup {NoValue}

Lowered == 1 .. next - 1

CasesOK ==
  /\ \A c \in DOMAIN cases :
       /\ cases[c].arm \in Lowered /\ arms[cases[c].arm].form \in {"ctor", "tuple"}
       /\ cases[c].disc = IF kind = "tuple" THEN c - 1 ELSE arms[cases[c].arm].head
  /\ \A c, d \in DOMAIN cases : c < d => cases[c].arm < cases[d].arm
  /\ \A i \in Lowered : arms[i].form \in {"ctor", "tuple"} => \E c \in DOMAIN cases : cases[c].arm = i

DefaultOK ==
  /\ default # 0 => default \in Lowered /\ arms[default].form \in {"any", "record"}
  /\ \A i \in Lowered : arms[i].form \in {"any", "record"} => i <= default

LiteralsOK ==
  /\ \A s \in {lits, chain} : \A a \in DOMAIN s :
       /\ s[a] \in Lowered /\ arms[s[a]].form = "lit"
       /\ \A b \in DOMAIN s : a < b => s[a] < s[b]
  /\ \A a \in DOMAIN lits, b \in DOMAIN chain : lits[a] < chain[b]
  /\ \A i \in Lowered : arms[i].form = "lit" => \/ \E a \in DOMAIN lits : lits[a] = i
                                              \/ \E b \in DOMAIN chain : chain[b] = i

StageOK ==
  /\ arms # <<>> /\ next \in 1 .. Len(arms) + 1
  /\ phase \in {"check", "rejected"} => next = 1
  /\ next <= Len(arms) => chain = <<>>
  /\ phase \notin {"check", "rejected"} => Exhaustive
  /\ phase \notin {"check", "rejected", "lower"} => next = Len(arms) + 1 /\ lits = <<>>
  /\ phase \notin {"check", "rejected", "lower", "error"} => ~Duplicate
  /\ phase = "error" => Duplicate
  /\ phase \in {"switch", "test", "taken", "trap"} => value \in ValuesOf(kind)
  /\ phase = "switch" => kind \in {"tag", "tuple"}
  /\ phase = "test" => /\ kind \in {"record", "prim"} /\ at >= 1
                       /\ \A k \in DOMAIN chain : k < at => arms[chain[k]].head # value.head

IndInv ==
  /\ TypeOK /\ CasesOK /\ DefaultOK /\ LiteralsOK /\ StageOK
  /\ FirstMatch /\ TagsNeverTrap
=============================================================================
