---------------------------- MODULE Unification ----------------------------
(***************************************************************************)
(* A substitution in use: calls of unify, one after the other, as the      *)
(* inference of a declaration makes them (typechecker/src/unify.rs).  A    *)
(* call is taken one pair of types at a time, in the order of its          *)
(* recursion: work holds the pairs it has still to come to.                *)
(***************************************************************************)
EXTENDS Types

CONSTANTS Variables,    \* the ids of type variables
          Literals,     \* the ids of the variables of number literals
          Depth,        \* bound: how deep a type of a call is
          Calls,        \* Calls[i]: pairs of types the i-th call of unify may get
          Ground        \* the values of type variables, in the reference

\* A variant of MonoType with parts out of a set of types, and a type of finite depth.
MonoType(t, types) ==
    \/ t \in [con : {"Var"}, id : Variables]
    \/ t \in [con : {"IntVar", "FloatVar"}, id : Literals]
    \/ t \in [con : Primitives, args : {<<>>}]
    \/ t \in [con : {"Array", "Effect"}, args : [1 .. 1 -> types]]
    \/ t \in [con : {"Func"}, args : Seq(types)]
    \/ t \in [con : {"Tag"}, name : STRING, args : Seq(types)]
    \/ \E names \in SUBSET {FieldNames[i] : i \in DOMAIN FieldNames} :
          t \in [con : {"Record"}, fields : [names -> types]]
FiniteType(t) ==
    /\ t \in Reached(<<>>, t)
    /\ \E rank \in [Reached(<<>>, t) -> 0 .. Depth] : \A p \in Reached(<<>>, t) :
          MonoType(p, Reached(<<>>, t)) /\ \A q \in Onward(<<>>, p) : rank[q] < rank[p]

\* fresh() counts: no variable of a literal has the id of another variable.
ASSUME IdsApart == Variables \cap Literals = {}
ASSUME TypesAreFinite ==
    /\ Depth \in Nat /\ Len(Calls) \in Nat /\ DOMAIN Calls = 1 .. Len(Calls)
    /\ \A i \in DOMAIN Calls : \A call \in Calls[i] :
          call = <<call[1], call[2]>> /\ FiniteType(call[1]) /\ FiniteType(call[2])
    /\ \A t \in Ground : FiniteType(t)

VARIABLES sub,      \* the shared substitution
          work,     \* the pairs the call under way has still to unify
          asked,    \* the calls made so far
          err       \* the error of the last call, or "none"

unifyVars == <<sub, work, asked, err>>

-----------------------------------------------------------------------------
NoCalls == sub = <<>> /\ work = <<>> /\ asked = <<>> /\ err = "none"

\* A call of unify begins.  An error abandons the declaration and its
\* substitution.
Ask(a, b) ==
    /\ err = "none" /\ work = <<>>
    /\ work' = Begun(sub, a, b).work
    /\ asked' = Append(asked, <<a, b>>)
    /\ UNCHANGED <<sub, err>>

\* It goes on with the next of its pairs.
Take ==
    /\ err = "none" /\ work # <<>>
    /\ LET c == UnifyStep([sub |-> sub, work |-> work, err |-> err])
       IN  sub' = c.sub /\ work' = c.work /\ err' = c.err
    /\ UNCHANGED asked

NextCall == \/ /\ Len(asked) < Len(Calls)
               /\ \E call \in Calls[Len(asked) + 1] : Ask(call[1], call[2])
            \/ Take
UnificationSpec == NoCalls /\ [][NextCall]_unifyVars
-----------------------------------------------------------------------------
\* No chain of bindings leads back to its start, whatever unify was asked, in
\* the middle of a call and even when it has given up half way: apply and
\* occurs_in, which follow the bindings, come to an end (unify.rs 76-122, 128-150).
Acyclic == \A v \in DOMAIN sub : \A p \in Reached(sub, sub[v]) : ~(IsVar(p) /\ p.id = v)

\* The two sides of a solved equation: equal, except that a record on the right
\* may have more fields and payloads of one tag agree as far as both go.
Alike(a, b) ==
    /\ ~IsVar(a) /\ ~IsVar(b) /\ a.con = b.con
    /\ a.con = "Record" => DOMAIN a.fields \subseteq DOMAIN b.fields
    /\ a.con = "Tag" => a.name = b.name
    /\ a.con \in {"Func", "Array", "Effect"} => Len(a.args) = Len(b.args)
Fits(a, b) ==
    LET fits[e \in Reached(<<>>, a) \X Reached(<<>>, b)] ==
          \/ e[1] = e[2]
          \/ Alike(e[1], e[2]) /\ \A i \in DOMAIN SubPairs(e[1], e[2]) : fits[SubPairs(e[1], e[2])[i]]
    IN  fits[<<a, b>>]

\* Every equation unify has accepted is solved by the substitution, the earlier
\* ones too: later bindings never undo them.
Solved == err = "none" /\ work = <<>> => \A i \in DOMAIN asked :
              Fits(Apply(sub, asked[i][1]), Apply(sub, asked[i][2]))

\* Reference: assignments of closed types to variables, and what they solve.  A
\* literal's variable is taken for its default, as apply takes it.
Value(g, t) == Replaced(<<>>, g, t)
Solutions == {g \in [Variables -> Ground] : \A i \in DOMAIN asked :
                  Value(g, asked[i][1]) = Value(g, asked[i][2])}

\* The substitution is most general: a solution of what was asked is never
\* lost, so unify fails only when there is none and binds no variable more
\* tightly than the equations do.
MostGeneral == \A g \in Solutions :
                  err = "none" /\ \A v \in DOMAIN sub : g[v] = Value(g, sub[v])
=============================================================================
