------------------------ MODULE MCInventoryPublisher ------------------------
(* Instances of InventoryPublisher for TLC. *)
EXTENDS InventoryPublisher, TLC

CONSTANTS c1, c2, c3, j1, j2, j3

=============================================================================
