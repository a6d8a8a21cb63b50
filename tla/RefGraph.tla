------------------------------ MODULE RefGraph ------------------------------
(***************************************************************************)
(* What pipe-lang promises about its heap, without saying how: values are   *)
(* shared by reference, a value exists as long as something refers to it,   *)
(* and it is reclaimed once nothing does.  There is no counter here, no      *)
(* compare-and-swap and no recursion; ArcHeap adds them and implements this  *)
(* specification.                                                           *)
(*                                                                         *)
(*   plan-main.md:302  heap types are "wrapped in an Atomic Reference Count" *)
(*   plan-main.md:304  "As soon as an `Arc` count reaches zero, the memory is *)
(*                     instantly reclaimed."                                 *)
(***************************************************************************)
EXTENDS Naturals

CONSTANTS
  Blocks,     \* the addresses a heap value can have
  Slots,      \* the places a pointer can be stored in: locals and fields
  Statics,    \* string literals, emitted by compile_ir and never reclaimed
  Nil         \* the content of a slot that holds no pointer


VARIABLES
  live,       \* the values that exist
  ref         \* the value each slot refers to

vars == <<live, ref>>

Unreferenced(b) == \A s \in Slots : ref[s] # b

Init ==
  /\ live = Statics
  /\ ref  = [s \in Slots |-> Nil]

(* A new value, known to one slot.                                          *)
Create(b, s) ==
  /\ b \notin live
  /\ ref[s] = Nil
  /\ live' = live \cup {b}
  /\ ref'  = [ref EXCEPT ![s] = b]

(* One more reference to a value that is a literal or already referenced.   *)
Share(b, s) ==
  /\ b \in Statics \/ ~Unreferenced(b)
  /\ ref[s] = Nil
  /\ ref' = [ref EXCEPT ![s] = b]
  /\ UNCHANGED live

Drop(s) ==
  /\ ref[s] # Nil
  /\ ref' = [ref EXCEPT ![s] = Nil]
  /\ UNCHANGED live

Reclaim(b) ==
  /\ b \in live \ Statics
  /\ Unreferenced(b)
  /\ live' = live \ {b}
  /\ UNCHANGED ref

Next ==
  \/ \E b \in Blocks, s \in Slots : Create(b, s) \/ Share(b, s)
  \/ \E s \in Slots : Drop(s)
  \/ \E b \in Blocks : Reclaim(b)

Spec == Init /\ [][Next]_vars
=============================================================================
