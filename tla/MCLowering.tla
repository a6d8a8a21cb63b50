----------------------------- MODULE MCLowering -----------------------------
(***************************************************************************)
(* The two halves of lower(): what it makes of the body of one function,   *)
(* run to its end, or its worklist of bindings; one or the other from the  *)
(* start on.                                                               *)
(***************************************************************************)
EXTENDS MCOwnership, MCMonomorph

NoBody == prog = E("int", <<>>) /\ hoisted = <<>> /\ heap = <<>> /\ stack = <<>> /\ result = 0
NoBindings == /\ program = [d \in MCDecls |-> {}] /\ queue = <<Idle>> /\ generated = {} /\ current = Idle
              /\ todo = {} /\ calls = {} /\ module = <<>> /\ failed = TRUE

\* Whether the bindings are lowered in this run.
VARIABLE binding
LoweringInit ==
    /\ binding \in BOOLEAN
    /\ IF binding THEN Init ELSE NoBindings
    /\ IF binding THEN NoBody ELSE OwnershipInit
Binding(step) == binding /\ step /\ Shallow' /\ UNCHANGED <<binding, ownershipVars>>
LoweringNext ==
    \/ Binding(Next)
    \/ ~ binding /\ OwnershipNext /\ UNCHANGED <<binding, vars>>
LoweringSpec ==
    /\ LoweringInit /\ [][LoweringNext]_<<binding, vars, ownershipVars>>
    /\ WF_vars(Binding(Progress))
=============================================================================
