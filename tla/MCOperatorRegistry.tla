------------------------- MODULE MCOperatorRegistry -------------------------
(* Instances of OperatorRegistry for TLC. *)
EXTENDS OperatorRegistry

CONSTANTS r1, r2, s1, z1, z2


=============================================================================
