----------------------------- MODULE MCTripCache -----------------------------
(* Instances of TripCache for TLC. *)
EXTENDS TripCache, TLC

CONSTANTS t1, t2, t3

Symmetry == Permutations(Thread)

=============================================================================
