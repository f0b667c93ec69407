--------------------------- MODULE MCRouteRefresh ---------------------------
(* Instances of RouteRefresh for TLC. *)
EXTENDS RouteRefresh

CONSTANTS scheduler, s1, x1, x2, r1

Operators == {{r1}}

=============================================================================
