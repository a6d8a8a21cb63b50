------------------------------ MODULE MCArcHeap ------------------------------
(***************************************************************************)
(* TLC instances of ArcHeap: threads, blocks and slots are interchangeable.   *)
(***************************************************************************)
EXTENDS ArcHeap, TLC

Symmetry == Permutations(Threads) \cup Permutations(Blocks \ Statics) \cup Permutations(Slots)
=============================================================================
