------------------------------ MODULE MCProgress ------------------------------
(***************************************************************************)
(* A finite instance of Progress for TLC: two actions side by side, one    *)
(* after them.                                                             *)
(***************************************************************************)
EXTENDS Progress

TwoLayers == [a \in Actions |-> IF a = "c" THEN 2 ELSE 1]
=============================================================================
