---------------------------- MODULE LegacySeatMaps ----------------------------
(***************************************************************************)
(* V1: GET /busmap.  A seat map is kept in a Bleve index under its trip and  *)
(* the operator it was asked of; a marker in Redis under the trip alone says *)
(* when it was last fetched.  A seat map belongs to a leg of the trip, which *)
(* neither key has.  Dates count whole seconds; 0 is no date.                *)
(***************************************************************************)
EXTENDS Naturals, FiniteSets

CONSTANTS Request, Trip, Operator,
          NoTrip,     \* the trip code of an answer that could not be read
          NoAsk,      \* no request in progress
          MaxTime,    \* bound: seconds that pass
          MaxRemovals,\* bound: markers removed
          MaxFaults   \* bound: failed calls and restarts

VARIABLES
  now,
  marker,   \* Redis BUSMAP_<trip>
  index,    \* the documents of the seat map index
  at,       \* where each request is
  asks,     \* the trip and operator each asks for, and the removals before it began
  mark,     \* the marker it has read
  seatMap,  \* the seat map it has
  began,    \* the date it puts in the marker
  \* what the properties compare
  removals, \* removals[t]: how often the marker of t has been removed
  crossed,  \* trips with a fill, or a document of that second, at their last removal
  faults

local  == <<asks, mark, seatMap, began>>
judged == <<removals, crossed>>
vars   == <<now, marker, index, at, local, judged, faults>>

Date    == 0 .. MaxTime
Key     == [trip : Trip \union {NoTrip}, operator : Operator]
SeatMap == [trip : Trip \union {NoTrip}, fetched : 0 .. MaxRemovals]
Unread  == [trip |-> NoTrip, fetched |-> 0]
Asked   == [trip : Trip, operator : Operator, since : 0 .. MaxRemovals]
NoDoc   == [seatMap |-> Unread, modified |-> 0]
Place   == {"idle", "marker", "index", "fetch", "keep", "mark", "served"}

SeatMapsTypeOK ==
  /\ now \in Date \ {0}
  /\ marker \in [Trip -> Date]
  /\ index \in [Key -> [seatMap : SeatMap, modified : Date]]
  /\ \A t \in Trip : marker[t] <= now
  /\ \A k \in Key : index[k] # NoDoc => index[k].seatMap.trip = k.trip
  /\ at \in [Request -> Place]
  /\ asks \in [Request -> Asked \union {NoAsk}]
  /\ mark \in [Request -> Date] /\ began \in [Request -> Date]
  /\ seatMap \in [Request -> SeatMap]
  /\ removals \in [Trip -> 0 .. MaxRemovals] /\ crossed \subseteq Trip
  /\ faults \in 0 .. MaxFaults

Init ==
  /\ now = 1
  /\ marker = [t \in Trip |-> 0]
  /\ index = [k \in Key |-> NoDoc]
  /\ at = [r \in Request |-> "idle"]
  /\ asks = [r \in Request |-> NoAsk]
  /\ mark = [r \in Request |-> 0] /\ began = [r \in Request |-> 0]
  /\ seatMap = [r \in Request |-> Unread]
  /\ removals = [t \in Trip |-> 0] /\ crossed = {}
  /\ faults = 0

Fault == faults < MaxFaults /\ faults' = faults + 1
Go(r, place) == at' = [at EXCEPT ![r] = place] /\ UNCHANGED asks
End(r)       == /\ at' = [at EXCEPT ![r] = "idle"]
                /\ asks' = [asks EXCEPT ![r] = NoAsk]

-----------------------------------------------------------------------------
AskBusmap(r) ==
  /\ at[r] = "idle"
  /\ at' = [at EXCEPT ![r] = "marker"]
  /\ \E t \in Trip, o \in Operator :
       asks' = [asks EXCEPT ![r] = [trip |-> t, operator |-> o, since |-> removals[t]]]
  /\ UNCHANGED <<now, marker, index, mark, seatMap, began, judged, faults>>

ReadMarker(r) ==
  /\ at[r] = "marker"
  /\ \/ mark' = [mark EXCEPT ![r] = marker[asks[r].trip]] /\ UNCHANGED faults
     \/ mark' = [mark EXCEPT ![r] = 0] /\ Fault
  /\ Go(r, IF mark'[r] = 0 THEN "fetch" ELSE "index")
  /\ UNCHANGED <<now, marker, index, seatMap, began, judged>>

(* Mutant: any seat map found is good enough. *)
IsAnyAge(r, doc) == FALSE

(* datetime.After: an unreadable date is before all others.                 *)
IsOutdated(r, doc) == mark[r] > doc.modified

Found(t) == {k \in Key : index[k] # NoDoc /\ index[k].seatMap.trip = t}

(* GetBitsBusMap: the first document with the trip's code, whoever's it is;  *)
(* without one there is no response and reading its seat map panics.         *)
SearchIndex(r) ==
  /\ at[r] = "index"
  /\ \/ /\ \E k \in Found(asks[r].trip), readable \in BOOLEAN :
             LET doc == IF readable THEN index[k] ELSE [index[k] EXCEPT !.modified = 0] IN
             /\ seatMap' = [seatMap EXCEPT ![r] = doc.seatMap]
             /\ Go(r, IF IsOutdated(r, doc) THEN "fetch" ELSE "served")
        /\ UNCHANGED faults
     \/ Found(asks[r].trip) = {} /\ End(r) /\ UNCHANGED <<seatMap, faults>>
     \/ End(r) /\ Fault /\ UNCHANGED seatMap
  /\ mark' = [mark EXCEPT ![r] = 0]
  /\ UNCHANGED <<now, marker, index, began, judged>>

(* communicator.GetBitsBusMap: a call that fails is a seat map of no trip.   *)
FetchBusMap(r) ==
  /\ at[r] = "fetch"
  /\ \/ /\ seatMap' = [seatMap EXCEPT ![r] =
              [trip |-> asks[r].trip, fetched |-> removals[asks[r].trip]]]
        /\ UNCHANGED faults
     \/ seatMap' = [seatMap EXCEPT ![r] = Unread] /\ Fault
  /\ began' = [began EXCEPT ![r] = now]
  /\ Go(r, "keep")
  /\ UNCHANGED <<now, marker, index, mark, judged>>

(* The trip of the answer and the operator of the request.                  *)
KeyOfSeatMap(r) == [trip |-> seatMap[r].trip, operator |-> asks[r].operator]

(* BitsBusMapCreateOrUpdate: also what is not a seat map.  Errors of the     *)
(* index are ignored.                                                        *)
KeepBusMap(r) ==
  /\ at[r] = "keep"
  /\ \/ /\ index' = [index EXCEPT ![KeyOfSeatMap(r)] = [seatMap |-> seatMap[r], modified |-> now]]
        /\ UNCHANGED faults
     \/ UNCHANGED index /\ Fault
  /\ Go(r, "mark")
  /\ UNCHANGED <<now, marker, mark, seatMap, began, judged>>

MarkTrip(r) ==
  /\ at[r] = "mark"
  /\ \/ marker' = [marker EXCEPT ![asks[r].trip] = began[r]] /\ UNCHANGED faults
     \/ UNCHANGED marker /\ Fault
  /\ began' = [began EXCEPT ![r] = 0]
  /\ seatMap' = [seatMap EXCEPT ![r] = Unread]
  /\ End(r)
  /\ UNCHANGED <<now, index, mark, judged>>

Answer(r) ==
  /\ at[r] = "served"
  /\ End(r)
  /\ seatMap' = [seatMap EXCEPT ![r] = Unread]
  /\ UNCHANGED <<now, marker, index, mark, began, judged, faults>>

(* removeBusMapCache: one trip, or with NA all of them key by key.          *)
RemoveMarker ==
  \E t \in Trip :
    /\ removals[t] < MaxRemovals
    /\ marker' = [marker EXCEPT ![t] = 0]
    /\ removals' = [removals EXCEPT ![t] = @ + 1]
    /\ crossed' = IF \/ \E r \in Request : at[r] \in {"fetch", "keep", "mark"} /\ asks[r].trip = t
                     \/ \E k \in Found(t) : index[k].modified = now
                  THEN crossed \union {t} ELSE crossed \ {t}
    /\ UNCHANGED <<now, index, at, local, faults>>

Tick == now < MaxTime /\ now' = now + 1 /\ UNCHANGED <<marker, index, at, local, judged, faults>>

(* Both stores outlive the process.                                         *)
Restart ==
  /\ Fault
  /\ \E r \in Request : at[r] # "idle"
  /\ at' = [r \in Request |-> "idle"] /\ asks' = [r \in Request |-> NoAsk]
  /\ mark' = [r \in Request |-> 0] /\ began' = [r \in Request |-> 0]
  /\ seatMap' = [r \in Request |-> Unread]
  /\ UNCHANGED <<now, marker, index, judged>>

GetBusmap(r) ==
  \/ ReadMarker(r) \/ SearchIndex(r) \/ FetchBusMap(r) \/ KeepBusMap(r) \/ MarkTrip(r) \/ Answer(r)

Next ==
  \/ \E r \in Request : AskBusmap(r) \/ GetBusmap(r)
  \/ RemoveMarker \/ Tick \/ Restart

Spec == Init /\ [][Next]_vars

-----------------------------------------------------------------------------
(* Removing a marker takes effect for good: a request that begins later is   *)
(* never answered with a seat map fetched before, not even one that another  *)
(* operator's key has kept, unless a fill was under way at the removal or    *)
(* the document is of the same second.                                       *)
RemovedIsNotServed ==
  \A r \in Request :
    at[r] = "served" =>
      LET t == asks[r].trip IN
      asks[r].since = removals[t] /\ t \notin crossed => seatMap[r].fetched = removals[t]

=============================================================================
