------------------------------ MODULE MCNumbers ------------------------------
(* Widths of two to six bits, and literals around the bounds of each.       *)
EXTENDS Numbers, TLC

MCWidth == 8 :> 2 @@ 16 :> 3 @@ 32 :> 4 @@ 64 :> 5 @@ 128 :> 6
=============================================================================
