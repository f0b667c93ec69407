----------------------------- MODULE LegacyService -----------------------------
(***************************************************************************)
(* V1 as one service: its searches (LegacySearch) beside its seat maps       *)
(* (LegacySeatMaps).  They share the process and Redis, but no marker, index *)
(* or request: the seat maps' variables have names of their own here.        *)
(***************************************************************************)
EXTENDS LegacySearch

CONSTANTS Trip, NoTrip, NoAsk, MaxRemovals,
          SeatMapOperator  \* the operators that seat maps are asked of

VARIABLES clock, tripMarker, index, place, asks, markRead, seatMap, fillBegan,
          removals, crossed, failed

SeatMaps == INSTANCE LegacySeatMaps
              WITH Operator <- SeatMapOperator, now <- clock, marker <- tripMarker, at <- place, mark <- markRead,
                   began <- fillBegan, faults <- failed

(* An answer that could not be read has the empty trip code, which no trip   *)
(* has that is asked for.                                                    *)
ASSUME SeatMapsAssumption ==
  /\ NoTrip \notin Trip
  /\ NoAsk \notin SeatMaps!Asked
  /\ MaxRemovals \in Nat

seatMapVars == <<clock, tripMarker, index, place, asks, markRead, seatMap, fillBegan,
                 removals, crossed, failed>>

(* Removing the marker of a trip takes effect for good (LegacySeatMaps).     *)
RemovedIsNotServed == SeatMaps!RemovedIsNotServed

=============================================================================
