--------------------------- MODULE MCRecordLayout ---------------------------
(* Four fields: a bool, an i32, and two counted ones of eight bytes.        *)
EXTENDS RecordLayout

MCFields == <<"age", "flag", "name", "tags">>
MCSize == [f \in Range(MCFields) |-> CASE f = "flag" -> 1 [] f = "age" -> 4 [] OTHER -> 8]
=============================================================================
