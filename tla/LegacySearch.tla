----------------------------- MODULE LegacySearch -----------------------------
(***************************************************************************)
(* V1: GET /search.  A search of a route on a day looks at the day's marker  *)
(* in Redis and at the route's document in the trip index, finds which       *)
(* operators serve the route (LegacyOperators), asks each of them in a       *)
(* goroutine of its own, gathers what they answer over one unbuffered        *)
(* channel, and keeps the trips under the route.                             *)
(***************************************************************************)
EXTENDS LegacyOperators

VARIABLES
  dayMarker, \* Redis SEARCH_<from>_<to>_<day>
  kept,      \* the trips of the route's document in the index
  caller,    \* caller[r]: operators whose goroutine has not yet sent to r
  awaited,   \* awaited[r]: receives that r has still to make
  gathered   \* gathered[r]: the trips r has

searchStores == <<dayMarker, kept>>
gathering    == <<caller, awaited, gathered>>
searchVars   == <<opVars, searchStores, gathering>>

(* Trips are counted as none, one or several.  All days of a route share one  *)
(* document, whose trips no later search trusts; the searches modelled ask    *)
(* for one day.                                                             *)
Several   == 2
Trips     == 0 .. Several
DayPlaces == {"daymarker", "documents", "gather", "keep", "mark"}

SearchTypeOK ==
  /\ at \in [Request -> Place \union DayPlaces]
  /\ dayMarker \in Date
  /\ kept \in Trips
  /\ caller \in [Request -> SUBSET Operator]
  /\ awaited \in [Request -> Nat]
  /\ gathered \in [Request -> Trips]

SearchInit ==
  /\ OperatorsInit
  /\ dayMarker = 0
  /\ kept = 0
  /\ caller = [r \in Request |-> {}]
  /\ awaited = [r \in Request |-> 0]
  /\ gathered = [r \in Request |-> 0]

(* Trips y added to x, counted no further than several.                     *)
Among(x, y) == IF x + y > Several THEN Several ELSE x + y

-----------------------------------------------------------------------------
AskSearch(r) ==
  /\ at[r] = "idle"
  /\ Go(r, "daymarker")
  /\ calls < MaxCalls
  /\ calls' = calls + 1
  /\ UNCHANGED <<stores, local, judged, faults, searchStores, gathering>>

ReadDayMarker(r) ==
  /\ at[r] = "daymarker"
  /\ \/ mark' = [mark EXCEPT ![r] = dayMarker] /\ NoFault
     \/ mark' = [mark EXCEPT ![r] = 0] /\ Fault
  /\ Go(r, IF mark'[r] = 0 THEN "marker" ELSE "documents")
  /\ UNCHANGED <<stores, got, began, left, unmarked, found, source, judged,
                 searchStores, gathering>>

(* The date of the trips kept: BitsTripCreateOrUpdate dates the document and *)
(* indexes only its trips, whose own dates nothing sets.                     *)
DateOfTrips == 0

(* Trips older than the marker are not used.  A document of another day is    *)
(* found when its date has a number in common with this one, and not else;   *)
(* reading the date of no response panics, and so does a document with one   *)
(* trip, whose fields come back as values and not as lists.                  *)
SearchTrips(r) ==
  /\ at[r] = "documents"
  /\ mark' = [mark EXCEPT ![r] = 0]
  /\ \/ /\ kept = Several
        /\ IF mark[r] > DateOfTrips
           THEN Go(r, "marker")
           ELSE Go(r, "idle")
     \/ Go(r, "idle")
  /\ UNCHANGED <<stores, got, began, left, unmarked, found, source, judged, bounds,
                 searchStores, gathering>>

-----------------------------------------------------------------------------
(* Mutant: one receive too few. *)
ReceivesButOne(operators) == IF operators = {} THEN 0 ELSE Cardinality(operators) - 1

(* The length of the array of results, each of which is received.           *)
Receives(operators) == Cardinality(operators)

(* getOperatorBitsSearchResult: one goroutine for each operator found.      *)
StartCallers(r) ==
  /\ at[r] = "found"
  /\ caller' = [caller EXCEPT ![r] = found[r]]
  /\ awaited' = [awaited EXCEPT ![r] = Receives(found[r])]
  /\ Go(r, "gather")
  /\ late' = late \ {r}
  /\ Forget(r)
  /\ UNCHANGED <<stores, mark, got, began, left, unmarked, always, missed, whole, bounds,
                 searchStores, gathered>>

(* searchBitsSearchResult: the goroutine sends once, when its operator has   *)
(* answered, timed out or failed, to the one that is receiving; what is      *)
(* received is none, one or several trips.                                   *)
Gather(r, o) ==
  /\ at[r] = "gather"
  /\ o \in caller[r] /\ awaited[r] > 0
  /\ caller' = [caller EXCEPT ![r] = @ \ {o}]
  /\ awaited' = [awaited EXCEPT ![r] = @ - 1]
  /\ \E n \in Trips : gathered' = [gathered EXCEPT ![r] = Among(@, n)]
  /\ UNCHANGED <<stores, at, local, judged, bounds, searchStores>>

(* Mutant: the day is marked although nothing was found. *)
KeepsNothing(r) == "mark"

(* What follows the gathering.                                              *)
AfterGathering(r) == IF gathered[r] = 0 THEN "idle" ELSE "keep"

EndGathering(r) ==
  /\ at[r] = "gather"
  /\ awaited[r] = 0
  /\ Go(r, AfterGathering(r))
  /\ began' = [began EXCEPT ![r] = IF at'[r] = "idle" THEN 0 ELSE now]
  /\ UNCHANGED <<stores, mark, got, left, unmarked, found, source, judged, bounds,
                 searchStores, gathering>>

(* The key has the route and a file date that no day in it can be read as:   *)
(* one document for all days.  An error of the index is ignored.             *)
KeepTrips(r) ==
  /\ at[r] = "keep"
  /\ \/ kept' = gathered[r] /\ NoFault
     \/ UNCHANGED kept /\ Fault
  /\ Go(r, "mark")
  /\ UNCHANGED <<stores, local, judged, dayMarker, gathering>>

MarkDay(r) ==
  /\ at[r] = "mark"
  /\ \/ dayMarker' = began[r] /\ NoFault
     \/ UNCHANGED dayMarker /\ Fault
  /\ began' = [began EXCEPT ![r] = 0]
  /\ gathered' = [gathered EXCEPT ![r] = 0]
  /\ Go(r, "idle")
  /\ UNCHANGED <<stores, mark, got, left, unmarked, found, source, judged, kept, caller, awaited>>

(* removeSearchCache: one day, or with NA the whole prefix key by key.      *)
RemoveDayMarker ==
  /\ dayMarker # 0
  /\ dayMarker' = 0
  /\ UNCHANGED <<opVars, kept, gathering>>

RestartSearch ==
  /\ Fault
  /\ StopRequests
  /\ caller' = [r \in Request |-> {}]
  /\ awaited' = [r \in Request |-> 0]
  /\ gathered' = [r \in Request |-> 0]
  /\ UNCHANGED <<stores, always, whole, searchStores>>

-----------------------------------------------------------------------------
GetBitsSearchResult(r) ==
  \/ ReadDayMarker(r) \/ SearchTrips(r)
  \/ GetOperators(r) /\ UNCHANGED <<searchStores, gathering>>
  \/ StartCallers(r) \/ EndGathering(r) \/ KeepTrips(r) \/ MarkDay(r)
  \/ \E o \in Operator : Gather(r, o)

SearchNext ==
  \/ \E r \in Request : AskSearch(r) \/ GetBitsSearchResult(r)
  \/ RemoveDayMarker \/ RestartSearch
  \/ (RemoveOperatorMarker \/ Tick) /\ UNCHANGED <<searchStores, gathering>>

SearchSpec == SearchInit /\ [][SearchNext]_searchVars

-----------------------------------------------------------------------------
(* A day is marked only while the route has a document, whatever writes,     *)
(* removals and other searches come in between: a marked day without one     *)
(* would drop every search of it until someone removes the marker.           *)
MarkedDayHasDocument ==
  faults = 0 /\ dayMarker # 0 => kept > 0

(* Each goroutine's send meets a receive, and each receive a send: a search  *)
(* that has been answered leaves no goroutine behind on a channel nobody     *)
(* reads, and one that gathers waits for none that nobody sends.             *)
NoCallerIsLeft ==
  \A r \in Request : IF at[r] = "gather" THEN awaited[r] <= Cardinality(caller[r])
                                        ELSE caller[r] = {}

=============================================================================
