--------------------------- MODULE MCJobLifecycle ---------------------------
(* Instances of JobLifecycle for TLC. *)
EXTENDS JobLifecycle

CONSTANTS h1, h2, j1, j2, j3, j4, s1, x1, x2, r1, r2

(* Two items of one route, as when a trip changes twice, one of another, and *)
(* one of an operator that is not active.                                    *)
change  == [ref |-> j1, route |-> r1]
repeat  == [ref |-> j2, route |-> r1]
other   == [ref |-> j3, route |-> r2]
dormant == [ref |-> j4, route |-> r2]

OneChange    == {<<change>>}
MixedChanges == {<<change, other>>, <<dormant, repeat>>}
NoItems      == {}
DormantItem  == {dormant}

=============================================================================
