--------------------------- MODULE ClosureRegistry ---------------------------
(***************************************************************************)
(* Closures that a builtin returns have no code of their own: their buffer  *)
(* holds the address of a trampoline, which finds the function by the       *)
(* address of the buffer in the process-wide BUILTIN_CLOSURES               *)
(* (runtime/src/jit.rs:4637).  Addresses are used again; a buffer that      *)
(* crosses to a builtin and back is copied to a new one.                    *)
(***************************************************************************)
EXTENDS Naturals

CONSTANTS Addresses, Functions,   \* buffers, and functions behind closures
          None,                   \* no buffer, no entry
          MaxRefs                 \* bound: references to a buffer

VARIABLES buffers,      \* at each address: what the buffer is, and its count
          registered,   \* BUILTIN_CLOSURES
          called        \* the last call: which buffer, and what was run

registryVars == <<buffers, registered, called>>

\* A closure of the program or any other block runs itself; those that were
\* returned by a builtin run a function; copies of those are made from one.
Buffer(kind, f) == [kind |-> kind, fun |-> f, refs |-> 1]
Buffers == [kind : {"builtin", "copy", "other"}, fun : Functions \cup {None}, refs : Nat]
ASSUME NoneApart == None \notin Buffers

NotCalled == [kind |-> "none", fun |-> None, ran |-> None]

RegistryInit == /\ buffers = [a \in Addresses |-> None]
                /\ registered = [a \in Addresses |-> None]
                /\ called = NotCalled

FreeAddress(a) == buffers[a] = None
Live(a) == buffers[a] # None

\* pipe_rt_unbox_value_jit: the buffer is made, then registered.
Arrive(a, f) ==
    /\ FreeAddress(a)
    /\ buffers' = [buffers EXCEPT ![a] = Buffer("builtin", f)]
    /\ registered' = [registered EXCEPT ![a] = f]
    /\ UNCHANGED called

\* Boxing makes it a Jit closure at the trampoline's address: its new buffer
\* is not registered.
CrossAgain(a, b) ==
    /\ Live(a) /\ buffers[a].kind # "other" /\ FreeAddress(b)
    /\ buffers' = [buffers EXCEPT ![b] = Buffer("copy", buffers[a].fun)]
    /\ UNCHANGED <<registered, called>>

Allocate(a) ==
    /\ FreeAddress(a)
    /\ buffers' = [buffers EXCEPT ![a] = Buffer("other", None)]
    /\ UNCHANGED <<registered, called>>

Retain(a) ==
    /\ Live(a) /\ buffers[a].refs < MaxRefs
    /\ buffers' = [buffers EXCEPT ![a].refs = @ + 1]
    /\ UNCHANGED <<registered, called>>

\* A buffer freed without its entry.
ReleaseKeepsEntry(a) ==
    /\ Live(a)
    /\ buffers' = [buffers EXCEPT ![a] = IF @.refs > 1 THEN [@ EXCEPT !.refs = @ - 1] ELSE None]
    /\ UNCHANGED <<registered, called>>

\* pipe_rt_release_ptr: a closure without captures takes its entry with it.
Release(a) ==
    /\ Live(a)
    /\ IF buffers[a].refs > 1
       THEN /\ buffers' = [buffers EXCEPT ![a].refs = @ - 1]
            /\ UNCHANGED registered
       ELSE /\ buffers' = [buffers EXCEPT ![a] = None]
            /\ registered' = IF buffers[a].kind = "other" THEN registered
                             ELSE [registered EXCEPT ![a] = None]
    /\ UNCHANGED called

\* pipe_rt_trampoline_dispatch_builtin: without an entry the call returns 1,
\* which the caller does not look at.
Dispatch(a) ==
    /\ Live(a) /\ buffers[a].kind # "other"
    /\ called' = [kind |-> buffers[a].kind, fun |-> buffers[a].fun, ran |-> registered[a]]
    /\ UNCHANGED <<buffers, registered>>

RegistryStep == \E a \in Addresses :
    \/ \E f \in Functions : Arrive(a, f)
    \/ \E b \in Addresses : CrossAgain(a, b)
    \/ Allocate(a) \/ Retain(a) \/ Release(a) \/ Dispatch(a)
RegistrySpec == RegistryInit /\ [][RegistryStep]_registryVars

-----------------------------------------------------------------------------
\* A call runs the function its buffer was made for, and a copy runs nothing,
\* never the function that had its address before (jit.rs:4660, 4957).
NeverAnother == called.ran = IF called.kind = "builtin" THEN called.fun ELSE None
=============================================================================
