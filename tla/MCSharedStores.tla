--------------------------- MODULE MCSharedStores ---------------------------
(***************************************************************************)
(* Instances of RateLimiter, OperatorRegistry and TripDocuments for TLC:     *)
(* what several processes keep in a store without holding a lock over a      *)
(* call, the zone counters in Dragonfly, an operator's rows in Cassandra and  *)
(* the documents with their metadata in both.  The three have no variable in  *)
(* common, so that every behaviour of one is seen while the others rest.     *)
(***************************************************************************)
EXTENDS RateLimiter, OperatorRegistry, TripDocuments, TLC

CONSTANTS z1, z2, g1, g2, l1, r1, r2, w1, t1, t2, s1, s2, s3, A, B, C

(* Three stages of two trips: s1 and s2 share a trip, s1 passes where s2     *)
(* begins, s3 is sold on the route of s2 and comes back where it began; s1   *)
(* changes its stations.                                                     *)
TripOfStages == s1 :> t1 @@ s2 :> t1 @@ s3 :> t2
Paths == s1 :> <<<<A, B, C>>, <<A, C>>>>
      @@ s2 :> <<<<B, C>>, <<B, C>>>>
      @@ s3 :> <<<<B, A, B, C>>, <<B, C>>>>

Routes    == {<<A, B>>, <<A, C>>, <<B, C>>}
Omissions == {{}, {"tripStageCode"}, {"tripCode", "stations"}, {"stations"}}

storesVars == <<limiterVars, registryVars, documentsVars>>

StoresInit == LimiterInit /\ RegistryInit /\ DocumentsInit

(* The limiter is chosen at the start: one choice is enough for the others to run. *)
LimiterAtRest == LimiterInit /\ limiter = "distributed"

StoresNext ==
  \/ RegistryInit /\ DocumentsInit /\ LimiterNext /\ UNCHANGED <<registryVars, documentsVars>>
  \/ LimiterAtRest /\ DocumentsInit /\ RegistryNext /\ UNCHANGED <<limiterVars, documentsVars>>
  \/ LimiterAtRest /\ RegistryInit /\ DocumentsNext /\ UNCHANGED <<limiterVars, registryVars>>

StoresSpec == StoresInit /\ [][StoresNext]_storesVars

=============================================================================
