---------------------------- MODULE WindowQuota ----------------------------
(***************************************************************************)
(* What the zone rate limiters promise (spec.md FR-013): a zone is granted  *)
(* at most Hits BITS requests per window; a window starts with the zone's   *)
(* first grant, lasts Window ticks and carries nothing over.                *)
(***************************************************************************)
EXTENDS Naturals

CONSTANTS Zone, Hits, Window

VARIABLES left,     \* left[z]: ticks until z's window ends, 0 without one
          granted   \* granted[z]: grants in that window

vars == <<left, granted>>

TypeOK == /\ left \in [Zone -> 0 .. Window]
          /\ granted \in [Zone -> 0 .. Hits]

Init == /\ left = [z \in Zone |-> 0]
        /\ granted = [z \in Zone |-> 0]

(* The first grant opens the window. *)
Open(z) == /\ left[z] = 0
           /\ left' = [left EXCEPT ![z] = Window]
           /\ granted' = [granted EXCEPT ![z] = 1]

Grant(z) == /\ left[z] > 0
            /\ granted[z] < Hits
            /\ granted' = [granted EXCEPT ![z] = @ + 1]
            /\ UNCHANGED left

Tick == /\ left' = [z \in Zone |-> IF left[z] > 0 THEN left[z] - 1 ELSE 0]
        /\ granted' = [z \in Zone |-> IF left[z] > 1 THEN granted[z] ELSE 0]

Next == Tick \/ \E z \in Zone : Open(z) \/ Grant(z)

Spec == Init /\ [][Next]_vars

=============================================================================
