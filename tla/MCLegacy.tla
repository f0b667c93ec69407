------------------------------ MODULE MCLegacy ------------------------------
(***************************************************************************)
(* LegacyService for TLC.  The two kinds of request use different markers    *)
(* and different indexes, so that every behaviour of one is seen while the   *)
(* other one is at rest.                                                     *)
(***************************************************************************)
EXTENDS LegacyService, TLC

CONSTANTS r1, r2, o1, o2, o3, t1

(* One operator serves the route always, another one at times; with the      *)
(* third, listed at times, there is one more than a search returns.          *)
OrbitLists == {o1 :> "serves" @@ o2 :> "elsewhere" @@ o3 :> "absent",
               o1 :> "serves" @@ o2 :> "serves" @@ o3 :> "elsewhere"}

serviceVars == <<searchVars, seatMapVars>>

ServiceInit == SearchInit /\ SeatMaps!Init

ServiceNext ==
  \/ SeatMaps!Init /\ SearchNext /\ UNCHANGED seatMapVars
  \/ SearchInit /\ SeatMaps!Next /\ UNCHANGED searchVars

ServiceSpec == ServiceInit /\ [][ServiceNext]_serviceVars

Symmetry == Permutations(Request)

=============================================================================
