--------------------------- MODULE MCChickenBurns ---------------------------
(* Two burns of two planets, and two passes. *)
EXTENDS ChickenBurns

MCTarget == [b \in Burns |-> IF b = "b1" THEN "l1" ELSE "l2"]

=============================================================================
