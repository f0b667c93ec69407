----------------------------- MODULE LegacyProofs -----------------------------
(***************************************************************************)
(* Proofs about V1's searches and seat maps, for any requests, operators,    *)
(* trips, times and bounds.                                                  *)
(*                                                                         *)
(* Searches.  A refresh holds a listing that names every operator that has    *)
(* served the route in every listing so far, or nothing at all; what it has   *)
(* indexed of those operators still serves the route, whoever overwrites it,  *)
(* because every other listing names them too.  A day's marker is the last    *)
(* step of a search that has kept trips.  Seat maps.  A document older than   *)
(* the last removal of its trip's marker is dated before it, and no marker    *)
(* that is written or read later is.                                        *)
(***************************************************************************)
EXTENDS LegacyService, FiniteSetTheorems, TLAPS

(* What a search relies on of its own progress.                              *)
SearchShape ==
  /\ at \in [Request -> Place \union DayPlaces]
  /\ routes \in [Operator -> Doc]
  /\ got \in [Request -> [Operator -> Listing]]
  /\ left \in [Request -> SUBSET Operator]
  /\ found \in [Request -> SUBSET Operator]
  /\ source \in [Request -> {"none", "index", "Orbit"}]
  /\ mark \in [Request -> Date] /\ began \in [Request -> Date]
  /\ now \in Date \ {0} /\ marker \in Date
  /\ \A o \in Operator : routes[o].modified <= now
  /\ marker <= now /\ \A r \in Request : began[r] <= now
  /\ \A r \in unmarked : at[r] = "refresh"
  /\ always \subseteq Operator
  /\ unmarked \subseteq Request /\ missed \subseteq Request /\ late \subseteq Request
  /\ whole \in BOOLEAN
  /\ calls \in 0 .. MaxCalls /\ faults \in 0 .. MaxFaults
  /\ dayMarker \in Date /\ kept \in Trips
  /\ caller \in [Request -> SUBSET Operator]
  /\ awaited \in [Request -> Nat]
  /\ gathered \in [Request -> Trips]

(* A listing fetched is empty or names every operator that is in all.        *)
ListingsNameAlways ==
  \A r \in Request : at[r] = "refresh" =>
    /\ got[r] # Nothing => \A o \in always : got[r][o] = "serves"
    /\ \A o \in left[r] : got[r][o] # "absent"

Serves(o) == routes[o].route = "serves"

(* What a refresh that has missed nothing has written of them.               *)
WrittenServe ==
  \A r \in Request : at[r] = "refresh" /\ got[r] # Nothing /\ r \notin missed =>
    \A o \in always : o \in left[r] \/ Serves(o)

WholeServes == whole => \A o \in always : Serves(o)

LateIsWhole == late # {} => whole

(* What a marked day relies on, as long as nothing has failed.               *)
KeptBeforeMarked ==
  /\ \A r \in Request : at[r] = "keep" => gathered[r] > 0
  /\ faults = 0 => \A r \in Request : at[r] = "mark" => kept > 0

(* While a search gathers, there is a receive for each goroutine.            *)
CallersMatch ==
  \A r \in Request : IF at[r] = "gather" THEN awaited[r] = Cardinality(caller[r])
                                        ELSE caller[r] = {}

SInv == /\ SearchShape /\ ListingsNameAlways /\ WrittenServe /\ WholeServes /\ LateIsWhole
        /\ StableOperatorsAreServed /\ KeptBeforeMarked /\ MarkedDayHasDocument /\ CallersMatch

-----------------------------------------------------------------------------
(* Seat maps: the document k is of trip t and older than its last removal.   *)
Kept(k, t)    == index[k] # SeatMaps!NoDoc /\ index[k].seatMap.trip = t
Removed(k, t) == Kept(k, t) /\ index[k].seatMap.fetched # removals[t]

SeatMapShape ==
  /\ clock \in SeatMaps!Date \ {0}
  /\ tripMarker \in [Trip -> SeatMaps!Date]
  /\ index \in [SeatMaps!Key -> [seatMap : SeatMaps!SeatMap, modified : SeatMaps!Date]]
  /\ \A k \in SeatMaps!Key : index[k].modified <= clock
  /\ place \in [Request -> SeatMaps!Place]
  /\ \A r \in Request : place[r] # "idle" => asks[r] \in SeatMaps!Asked
  /\ asks \in [Request -> SeatMaps!Asked \union {NoAsk}]
  /\ \A r \in Request : place[r] # "idle" => asks[r].since <= removals[asks[r].trip]
  /\ markRead \in [Request -> SeatMaps!Date] /\ fillBegan \in [Request -> SeatMaps!Date]
  /\ seatMap \in [Request -> SeatMaps!SeatMap]
  /\ removals \in [Trip -> 0 .. MaxRemovals] /\ crossed \subseteq Trip
  /\ \A r \in Request : place[r] = "index" => markRead[r] > 0
  /\ failed \in 0 .. MaxFaults

(* Everything that can make a seat map look new is later than those that are *)
(* older than the last removal: the clock, the marker, the date of a fill,   *)
(* and the marker read by a request that began after it.                     *)
RemovedAreOutdated ==
  \A k \in SeatMaps!Key, t \in Trip : t \notin crossed /\ Removed(k, t) =>
    /\ index[k].modified < clock
    /\ tripMarker[t] # 0 => index[k].modified < tripMarker[t]
    /\ \A r \in Request : place[r] # "idle" /\ asks[r].trip = t =>
         /\ place[r] \in {"keep", "mark"} => index[k].modified < fillBegan[r]
         /\ place[r] = "index" /\ asks[r].since = removals[t] => index[k].modified < markRead[r]

FillsAreNew ==
  \A r \in Request : place[r] = "keep" /\ seatMap[r].trip \in Trip =>
    /\ seatMap[r].trip = asks[r].trip
    /\ asks[r].trip \notin crossed => seatMap[r].fetched = removals[asks[r].trip]

MInv == SeatMapShape /\ RemovedAreOutdated /\ FillsAreNew /\ RemovedIsNotServed

-----------------------------------------------------------------------------
(* Searches: the steps.                                                     *)

LEMMA Bounds == MaxTime \in Nat \ {0} /\ MaxCalls \in Nat /\ MaxFaults \in Nat
BY LegacyAssumption DEF LegacyAssumption

LEMMA SearchStarts == SearchInit => SInv
<1> SUFFICES ASSUME SearchInit PROVE SInv
  OBVIOUS
<1> USE DEF SearchInit, OperatorsInit
<1>1. whole \in BOOLEAN
  OBVIOUS
<1>2. SearchShape
  BY <1>1, Bounds DEF SearchShape, Place, Doc, NoDoc, Listing, Date, Nothing, Trips, Several
<1>3. ListingsNameAlways /\ WrittenServe /\ WholeServes /\ LateIsWhole
  BY DEF ListingsNameAlways, WrittenServe, WholeServes, LateIsWhole
<1>4. StableOperatorsAreServed /\ KeptBeforeMarked /\ MarkedDayHasDocument /\ CallersMatch
  BY DEF StableOperatorsAreServed, KeptBeforeMarked, MarkedDayHasDocument, CallersMatch
<1> QED BY <1>2, <1>3, <1>4 DEF SInv

(* A step that begins no refresh and leaves what refreshes have and write.    *)
LEMMA RefreshFrame ==
  ASSUME SInv, UNCHANGED <<routes, got, left, always, missed, whole>>,
         \A r \in Request : at'[r] = "refresh" => at[r] = "refresh"
  PROVE  ListingsNameAlways' /\ WrittenServe' /\ WholeServes'
BY DEF SInv, ListingsNameAlways, WrittenServe, WholeServes, Serves

(* No document is ever deleted: if all fit into one search, they did before.  *)
LEMMA DocumentsFit ==
  ASSUME \A o \in Operator : routes[o] # NoDoc => routes'[o] # NoDoc
  PROVE  Cardinality(Documents') <= MaxHits => Cardinality(Documents) <= MaxHits
<1>1. /\ Documents \subseteq Documents' /\ Documents' \subseteq Operator
      /\ IsFiniteSet(Operator) /\ MaxHits \in Nat
  BY LegacyAssumption DEF LegacyAssumption, Documents
<1>2. IsFiniteSet(Documents') /\ Cardinality(Documents) <= Cardinality(Documents')
  BY <1>1, FS_Subset
<1>3. Cardinality(Documents) \in Nat /\ Cardinality(Documents') \in Nat
  BY <1>1, <1>2, FS_Subset, FS_CardinalityType
<1> QED BY <1>1, <1>2, <1>3

(* A step that answers no request and counts none as late.                   *)
LEMMA AnswerFrame ==
  ASSUME SInv, UNCHANGED <<found, source>>, always' \subseteq always, late' \subseteq late,
         whole => whole',
         \A o \in Operator : routes[o] # NoDoc => routes'[o] # NoDoc,
         \A r \in Request : at'[r] = "found" => at[r] = "found"
  PROVE  StableOperatorsAreServed' /\ LateIsWhole'
<1>1. StableOperatorsAreServed'
  BY DocumentsFit DEF SInv, SearchShape, StableOperatorsAreServed
<1>2. LateIsWhole'
  BY DEF SInv, LateIsWhole
<1> QED BY <1>1, <1>2

(* A step that neither keeps trips nor marks the day, nor ends a gathering.   *)
LEMMA KeepFrame ==
  ASSUME SInv, UNCHANGED <<kept, gathered, dayMarker, caller, awaited>>, faults' = 0 => faults = 0,
         \A r \in Request : /\ at'[r] \in {"keep", "mark"} => at'[r] = at[r]
                            /\ at'[r] = "gather" <=> at[r] = "gather"
  PROVE  KeptBeforeMarked' /\ MarkedDayHasDocument' /\ CallersMatch'
<1>1. KeptBeforeMarked'
  BY DEF SInv, KeptBeforeMarked
<1>2. MarkedDayHasDocument'
  BY DEF SInv, MarkedDayHasDocument
<1>3. CallersMatch'
  BY DEF SInv, CallersMatch
<1> QED BY <1>1, <1>2, <1>3

LEMMA FaultCounts ==
  ASSUME SInv, Fault \/ NoFault
  PROVE  /\ faults' \in 0 .. MaxFaults /\ calls' \in 0 .. MaxCalls
         /\ faults' = 0 => faults = 0 /\ NoFault
BY Bounds DEF SInv, SearchShape, Fault, NoFault, bounds

LEMMA AskStep == ASSUME SInv, NEW r \in Request, AskSearch(r) PROVE SInv'
<1> USE DEF AskSearch, Go, stores, local, judged, searchStores, gathering
<1>1. SearchShape'
  BY Bounds DEF SInv, SearchShape, DayPlaces
<1>2. ListingsNameAlways' /\ WrittenServe' /\ WholeServes'
  BY RefreshFrame DEF SInv, SearchShape
<1>3. StableOperatorsAreServed' /\ LateIsWhole'
  BY AnswerFrame DEF SInv, SearchShape
<1>4. KeptBeforeMarked' /\ MarkedDayHasDocument' /\ CallersMatch'
  BY KeepFrame DEF SInv, SearchShape
<1> QED BY <1>1, <1>2, <1>3, <1>4 DEF SInv

LEMMA ReadDayMarkerStep == ASSUME SInv, NEW r \in Request, ReadDayMarker(r) PROVE SInv'
<1> USE DEF ReadDayMarker, Go, stores, judged, searchStores, gathering
<1>1. SearchShape'
  <2>1. mark' \in [Request -> Date]
    BY Bounds DEF SInv, SearchShape, Date
  <2>2. at' \in [Request -> Place \union DayPlaces]
    BY DEF SInv, SearchShape, DayPlaces, Place
  <2> QED BY <2>1, <2>2, FaultCounts DEF SInv, SearchShape
<1>2. ListingsNameAlways' /\ WrittenServe' /\ WholeServes'
  BY RefreshFrame DEF SInv, SearchShape
<1>3. StableOperatorsAreServed' /\ LateIsWhole'
  BY AnswerFrame DEF SInv, SearchShape
<1>4. KeptBeforeMarked' /\ MarkedDayHasDocument' /\ CallersMatch'
  BY KeepFrame, FaultCounts DEF SInv, SearchShape
<1> QED BY <1>1, <1>2, <1>3, <1>4 DEF SInv

LEMMA SearchTripsStep == ASSUME SInv, NEW r \in Request, SearchTrips(r) PROVE SInv'
<1> USE DEF SearchTrips, Go, stores, judged, searchStores, gathering, bounds
<1>1. SearchShape'
  <2>1. at' = [at EXCEPT ![r] = "marker"] \/ at' = [at EXCEPT ![r] = "idle"]
    BY DEF SearchTrips
  <2>2. at' \in [Request -> Place \union DayPlaces] /\ \A x \in unmarked : at'[x] = "refresh"
    BY <2>1 DEF SInv, SearchShape, Place
  <2>3. mark' \in [Request -> Date]
    BY Bounds DEF SInv, SearchShape, Date
  <2> QED BY <2>2, <2>3 DEF SInv, SearchShape
<1>2. ListingsNameAlways' /\ WrittenServe' /\ WholeServes'
  BY RefreshFrame DEF SInv, SearchShape
<1>3. StableOperatorsAreServed' /\ LateIsWhole'
  BY AnswerFrame DEF SInv, SearchShape
<1>4. KeptBeforeMarked' /\ MarkedDayHasDocument' /\ CallersMatch'
  BY KeepFrame DEF SInv, SearchShape
<1> QED BY <1>1, <1>2, <1>3, <1>4 DEF SInv

(* The request is late if a refresh was whole when it began.                 *)
LEMMA ReadOperatorMarkerStep ==
  ASSUME SInv, NEW r \in Request, ReadOperatorMarker(r), UNCHANGED <<searchStores, gathering>>
  PROVE  SInv'
<1> USE DEF ReadOperatorMarker, Go, stores, searchStores, gathering
<1>1. SearchShape'
  <2>1. mark' \in [Request -> Date]
    <3>1. 0 \in Date /\ marker \in Date
      BY Bounds DEF SInv, SearchShape, Date
    <3>2. mark' = [mark EXCEPT ![r] = marker] \/ mark' = [mark EXCEPT ![r] = 0]
      OBVIOUS
    <3> QED BY <3>1, <3>2 DEF SInv, SearchShape
  <2>4. at' \in [Request -> Place \union DayPlaces]
    BY DEF SInv, SearchShape, Place
  <2>2. late' \subseteq Request
    BY DEF SInv, SearchShape
  <2>3. \A x \in unmarked : at'[x] = "refresh"
    BY DEF SInv, SearchShape
  <2> QED BY <2>1, <2>2, <2>3, <2>4, FaultCounts DEF SInv, SearchShape
<1>2. ListingsNameAlways' /\ WrittenServe' /\ WholeServes'
  BY RefreshFrame DEF SInv, SearchShape
<1>3. LateIsWhole'
  BY DEF SInv, LateIsWhole
<1>4. StableOperatorsAreServed'
  BY DEF SInv, SearchShape, StableOperatorsAreServed, Documents
<1>5. KeptBeforeMarked' /\ MarkedDayHasDocument' /\ CallersMatch'
  BY KeepFrame, FaultCounts DEF SInv, SearchShape
<1> QED BY <1>1, <1>2, <1>3, <1>4, <1>5 DEF SInv

(* Whatever else the index finds, it finds the operators that serve, unless   *)
(* it has more documents than a search returns.                              *)
LEMMA HitsServe ==
  ASSUME NEW hits \in Hits, NEW o \in Operator, Serves(o), Cardinality(Documents) <= MaxHits
  PROVE  o \in hits
<1>1. CASE OnRoute([p \in Operator |-> routes[p].route]) \subseteq hits
  BY <1>1 DEF OnRoute, Serves
<1>2. CASE Cardinality(hits) = MaxHits
  <2>1. /\ hits \subseteq Documents /\ Documents \subseteq Operator
        /\ IsFiniteSet(Operator) /\ MaxHits \in Nat
    BY LegacyAssumption DEF LegacyAssumption, Documents, Hits
  <2>2. /\ IsFiniteSet(Documents) /\ Cardinality(hits) <= Cardinality(Documents)
        /\ Cardinality(hits) = Cardinality(Documents) => hits = Documents
    BY <2>1, FS_Subset
  <2>3. hits = Documents
    BY <1>2, <2>1, <2>2, FS_CardinalityType
  <2>4. o \in Documents
    BY DEF Documents, Serves, NoDoc
  <2> QED BY <2>3, <2>4
<1> QED BY <1>1, <1>2 DEF Hits

LEMMA SearchOperatorsStep ==
  ASSUME SInv, NEW r \in Request, SearchOperators(r), UNCHANGED <<searchStores, gathering>>
  PROVE  SInv'
<1>1. /\ at[r] = "index"
      /\ \/ at' = [at EXCEPT ![r] = "fetch"] /\ UNCHANGED <<found, source>>
         \/ at' = [at EXCEPT ![r] = "idle"] /\ UNCHANGED <<found, source>>
         \/ \E hits \in Hits :
              /\ found' = [found EXCEPT ![r] = {o \in hits : routes[o].route = "serves"}]
              /\ source' = [source EXCEPT ![r] = "index"]
              /\ at' = [at EXCEPT ![r] = "found"]
  BY DEF SearchOperators, Found, Go
<1>2. /\ late' \subseteq late /\ mark' = [mark EXCEPT ![r] = 0]
      /\ UNCHANGED <<stores, got, began, left, unmarked, always, missed, whole, bounds>>
  BY DEF SearchOperators
<1>3. SearchShape'
  <2>1. \A hits \in Hits : {o \in hits : routes[o].route = "serves"} \subseteq Operator
    BY DEF Hits, Documents
  <2>2. found' \in [Request -> SUBSET Operator] /\ source' \in [Request -> {"none", "index", "Orbit"}]
    <3>1. CASE UNCHANGED <<found, source>>
      BY <3>1 DEF SInv, SearchShape
    <3>2. CASE \E hits \in Hits :
                 /\ found' = [found EXCEPT ![r] = {o \in hits : routes[o].route = "serves"}]
                 /\ source' = [source EXCEPT ![r] = "index"]
      <4>1. PICK hits \in Hits : found' = [found EXCEPT ![r] = {o \in hits : routes[o].route = "serves"}]
        BY <3>2
      <4> DEFINE S == {o \in hits : routes[o].route = "serves"}
      <4>2. S \in SUBSET Operator
        BY <2>1
      <4>3. source' = [source EXCEPT ![r] = "index"]
        BY <3>2
      <4> HIDE DEF S
      <4>4. found' = [found EXCEPT ![r] = S]
        BY <4>1 DEF S
      <4> QED BY <4>2, <4>3, <4>4 DEF SInv, SearchShape
    <3> QED BY <1>1, <3>1, <3>2
  <2>3. at' \in [Request -> Place \union DayPlaces] /\ \A x \in unmarked : at'[x] = "refresh"
    BY <1>1 DEF SInv, SearchShape, Place
  <2>4. mark' \in [Request -> Date] /\ late' \subseteq Request
    BY <1>2, Bounds DEF SInv, SearchShape, Date
  <2> QED BY <1>2, <2>2, <2>3, <2>4 DEF SInv, SearchShape, stores, bounds, searchStores, gathering
<1>4. ListingsNameAlways' /\ WrittenServe' /\ WholeServes'
  BY <1>1, <1>2, RefreshFrame DEF SInv, SearchShape, stores
<1>5. LateIsWhole'
  BY <1>2 DEF SInv, LateIsWhole
<1>6. StableOperatorsAreServed'
  <2> SUFFICES ASSUME NEW x \in late', at'[x] = "found", source'[x] = "index",
                      Cardinality(Documents') <= MaxHits, NEW o \in always'
               PROVE  o \in found'[x]
    BY DEF StableOperatorsAreServed
  <2>1. x \in Request /\ x \in late /\ o \in always /\ o \in Operator
    BY <1>2 DEF SInv, SearchShape
  <2>4. Cardinality(Documents) <= MaxHits
    BY <1>2 DEF Documents, stores
  <2>2. CASE x # r
    BY <1>1, <2>1, <2>2, <2>4 DEF SInv, SearchShape, StableOperatorsAreServed
  <2>3. CASE x = r
    <3>1. PICK hits \in Hits : found' = [found EXCEPT ![r] = {p \in hits : routes[p].route = "serves"}]
      BY <1>1, <2>3 DEF SInv, SearchShape
    <3>2. Serves(o)
      BY <2>1 DEF SInv, LateIsWhole, WholeServes
    <3>3. o \in hits
      BY <3>2, <2>1, <2>4, HitsServe
    <3> QED BY <2>3, <3>1, <3>2, <3>3 DEF SInv, SearchShape, Serves
  <2> QED BY <2>2, <2>3
<1>7. KeptBeforeMarked' /\ MarkedDayHasDocument' /\ CallersMatch'
  BY <1>1, <1>2, KeepFrame DEF SInv, SearchShape, bounds, searchStores, gathering
<1> QED BY <1>3, <1>4, <1>5, <1>6, <1>7 DEF SInv

LEMMA SearchFailsStep ==
  ASSUME SInv, NEW r \in Request, SearchFails(r), UNCHANGED <<searchStores, gathering>>
  PROVE  SInv'
<1> USE DEF SearchFails, Go, stores, searchStores, gathering
<1>1. SearchShape'
  BY FaultCounts, Bounds DEF SInv, SearchShape, Place, Date
<1>2. ListingsNameAlways' /\ WrittenServe' /\ WholeServes'
  BY RefreshFrame DEF SInv, SearchShape
<1>3. StableOperatorsAreServed' /\ LateIsWhole'
  BY AnswerFrame DEF SInv, SearchShape
<1>4. KeptBeforeMarked' /\ MarkedDayHasDocument' /\ CallersMatch'
  BY KeepFrame, FaultCounts DEF SInv, SearchShape
<1> QED BY <1>1, <1>2, <1>3, <1>4 DEF SInv

(* A listing fetched now names what is left of the operators that always     *)
(* serve; an empty one names none.                                           *)
LEMMA FetchOperatorsStep ==
  ASSUME SInv, NEW r \in Request, FetchOperators(r), UNCHANGED <<searchStores, gathering>>
  PROVE  SInv'
<1>1. PICK listing \in [Operator -> Listing] :
        /\ got' = [got EXCEPT ![r] = listing]
        /\ always' \subseteq always
        /\ listing # Nothing => always' \subseteq OnRoute(listing)
  <2>1. CASE \E orbit \in Listings : /\ got' = [got EXCEPT ![r] = orbit]
                                     /\ always' = always \intersect OnRoute(orbit)
    BY <2>1, LegacyAssumption DEF LegacyAssumption, Listing
  <2>2. CASE got' = [got EXCEPT ![r] = Nothing] /\ UNCHANGED always
    BY <2>2 DEF Nothing, Listing
  <2> QED BY <2>1, <2>2 DEF FetchOperators
<1>2. /\ at[r] = "fetch" /\ at' = [at EXCEPT ![r] = "refresh"]
      /\ began' = [began EXCEPT ![r] = now]
      /\ left' = [left EXCEPT ![r] = {o \in Operator : got'[r][o] # "absent"}]
      /\ late' = late \ {r}
      /\ UNCHANGED <<stores, mark, unmarked, found, source, missed, whole>>
      /\ Fault \/ NoFault
  BY DEF FetchOperators, Go
<1>3. got'[r] = listing /\ left'[r] = {o \in Operator : listing[o] # "absent"}
  BY <1>1, <1>2 DEF SInv, SearchShape
<1>4. \A x \in Request : x # r => got'[x] = got[x] /\ left'[x] = left[x] /\ at'[x] = at[x]
  BY <1>1, <1>2 DEF SInv, SearchShape
<1>5. SearchShape'
  BY <1>1, <1>2, FaultCounts, Bounds DEF SInv, SearchShape, Place, Date, stores, searchStores, gathering
<1>6. ListingsNameAlways'
  BY <1>1, <1>3, <1>4 DEF SInv, ListingsNameAlways, OnRoute
<1>7. WrittenServe'
  <2>1. always' \subseteq Operator /\ listing # Nothing => \A o \in always' : o \in left'[r]
    BY <1>1, <1>3, <1>5 DEF OnRoute, SearchShape
  <2> QED
    BY <1>1, <1>2, <1>3, <1>4, <1>5, <2>1 DEF SInv, WrittenServe, Serves, SearchShape, stores
<1>8. WholeServes'
  BY <1>1, <1>2 DEF SInv, WholeServes, Serves, stores
<1>9. StableOperatorsAreServed' /\ LateIsWhole'
  BY <1>1, <1>2, AnswerFrame DEF SInv, SearchShape, stores
<1>10. KeptBeforeMarked' /\ MarkedDayHasDocument' /\ CallersMatch'
  BY <1>2, KeepFrame, FaultCounts DEF SInv, SearchShape, searchStores, gathering
<1> QED BY <1>5, <1>6, <1>7, <1>8, <1>9, <1>10 DEF SInv

(* A document that is written says of an operator that always serves that it  *)
(* does.                                                                    *)
LEMMA IndexOperatorStep ==
  ASSUME SInv, NEW r \in Request, IndexOperator(r), UNCHANGED <<searchStores, gathering>>
  PROVE  SInv'
<1>1. PICK p \in left[r] :
        /\ left' = [left EXCEPT ![r] = @ \ {p}]
        /\ unmarked' = unmarked \union {r}
        /\ \/ /\ routes' = [routes EXCEPT ![p] = [route |-> got[r][p], modified |-> now]]
              /\ missed' = missed
           \/ UNCHANGED routes /\ missed' = missed \union {r}
        /\ Fault \/ NoFault
  BY DEF IndexOperator, OperatorKey
<1>2. /\ at[r] = "refresh"
      /\ UNCHANGED <<now, marker, at, mark, got, began, found, source, always, whole, late>>
  BY DEF IndexOperator
<1>3. p \in Operator /\ got[r][p] \in Listing /\ (p \in always => got[r][p] = "serves")
  <2>1. p \in Operator /\ got[r][p] \in Listing
    BY <1>1 DEF SInv, SearchShape
  <2>2. got[r] # Nothing
    BY <1>1, <1>2, <2>1 DEF SInv, ListingsNameAlways, Nothing
  <2> QED BY <1>2, <2>1, <2>2 DEF SInv, ListingsNameAlways
<1>4. \A o \in always : (Serves(o) \/ (o = p /\ routes' # routes)) => Serves(o)'
  BY <1>1, <1>2, <1>3 DEF SInv, SearchShape, Serves, Doc
<1>5. SearchShape'
  <2>1. routes' \in [Operator -> Doc] /\ \A o \in Operator : routes'[o].modified <= now
    <3>1. [route |-> got[r][p], modified |-> now] \in Doc /\ now <= now
      BY <1>3, Bounds DEF SInv, SearchShape, Doc, Date
    <3>2. CASE UNCHANGED routes
      BY <3>2 DEF SInv, SearchShape
    <3>3. CASE routes' = [routes EXCEPT ![p] = [route |-> got[r][p], modified |-> now]]
      <4>1. routes' \in [Operator -> Doc]
        BY <1>3, <3>1, <3>3 DEF SInv, SearchShape
      <4>2. \A o \in Operator : routes'[o].modified = IF o = p THEN now ELSE routes[o].modified
        BY <1>3, <3>3 DEF SInv, SearchShape
      <4> QED BY <3>1, <4>1, <4>2 DEF SInv, SearchShape
    <3> QED BY <1>1, <3>2, <3>3
  <2>2. left' \in [Request -> SUBSET Operator]
    BY <1>1 DEF SInv, SearchShape
  <2> QED BY <1>1, <1>2, <2>1, <2>2, FaultCounts DEF SInv, SearchShape, searchStores, gathering
<1>6. ListingsNameAlways'
  BY <1>1, <1>2 DEF SInv, SearchShape, ListingsNameAlways
<1>7. WrittenServe'
  <2> SUFFICES ASSUME NEW x \in Request, at[x] = "refresh", got[x] # Nothing, x \notin missed',
                      NEW o \in always, o \notin left'[x]
               PROVE  Serves(o)'
    BY <1>2 DEF WrittenServe
  <2>1. x \notin missed
    BY <1>1
  <2>2. CASE o \notin left[x]
    BY <1>4, <2>1, <2>2 DEF SInv, WrittenServe, Serves
  <2>3. CASE o \in left[x]
    <3>1. x = r /\ o = p
      BY <1>1, <2>3 DEF SInv, SearchShape
    <3>2. routes' = [routes EXCEPT ![p] = [route |-> got[r][p], modified |-> now]]
      BY <1>1, <3>1
    <3> QED BY <1>3, <3>1, <3>2 DEF SInv, SearchShape, Serves
  <2> QED BY <2>2, <2>3
<1>8. WholeServes'
  BY <1>2, <1>4 DEF SInv, WholeServes, Serves
<1>9. StableOperatorsAreServed' /\ LateIsWhole'
  <2>1. \A o \in Operator : routes[o] # NoDoc => routes'[o] # NoDoc
    <3>1. [route |-> got[r][p], modified |-> now] # NoDoc
      BY DEF SInv, SearchShape, NoDoc
    <3> QED BY <1>1, <1>3, <3>1 DEF SInv, SearchShape
  <2> QED BY <1>2, <2>1, AnswerFrame DEF SInv, SearchShape
<1>10. KeptBeforeMarked' /\ MarkedDayHasDocument' /\ CallersMatch'
  BY <1>1, <1>2, KeepFrame, FaultCounts DEF SInv, SearchShape, searchStores, gathering
<1> QED BY <1>5, <1>6, <1>7, <1>8, <1>9, <1>10 DEF SInv

LEMMA MarkOperatorsStep ==
  ASSUME SInv, NEW r \in Request, MarkOperators(r), UNCHANGED <<searchStores, gathering>>
  PROVE  SInv'
<1> USE DEF MarkOperators, MarkerDate, judged, searchStores, gathering
<1>1. SearchShape'
  BY FaultCounts, Bounds DEF SInv, SearchShape, Date
<1>2. ListingsNameAlways' /\ WrittenServe' /\ WholeServes'
  BY RefreshFrame DEF SInv, SearchShape
<1>3. StableOperatorsAreServed' /\ LateIsWhole'
  BY AnswerFrame DEF SInv, SearchShape
<1>4. KeptBeforeMarked' /\ MarkedDayHasDocument' /\ CallersMatch'
  BY KeepFrame, FaultCounts DEF SInv, SearchShape
<1> QED BY <1>1, <1>2, <1>3, <1>4 DEF SInv

(* The loop is over: everything the listing names has been written, or the    *)
(* request has missed something.                                             *)
LEMMA FinishRefreshStep ==
  ASSUME SInv, NEW r \in Request, FinishRefresh(r), UNCHANGED <<searchStores, gathering>>
  PROVE  SInv'
<1> USE DEF FinishRefresh, Found, Go, stores, searchStores, gathering, bounds
<1>1. SearchShape'
  BY Bounds DEF SInv, SearchShape, Place, Date, OnRoute, Nothing, Listing, WroteAll
<1>2. ListingsNameAlways'
  BY DEF SInv, SearchShape, ListingsNameAlways
<1>3. WrittenServe'
  BY DEF SInv, SearchShape, WrittenServe, Serves
<1>4. WholeServes'
  <2>1. CASE got[r] # Nothing /\ r \notin missed
    BY <2>1 DEF SInv, WrittenServe, WholeServes, Serves, WroteAll
  <2>2. CASE ~(got[r] # Nothing /\ r \notin missed)
    BY <2>2 DEF SInv, WholeServes, Serves
  <2> QED BY <2>1, <2>2
<1>5. StableOperatorsAreServed'
  BY DEF SInv, SearchShape, StableOperatorsAreServed, Documents
<1>6. LateIsWhole'
  BY DEF SInv, LateIsWhole
<1>7. KeptBeforeMarked' /\ MarkedDayHasDocument' /\ CallersMatch'
  BY KeepFrame DEF SInv, SearchShape
<1> QED BY <1>1, <1>2, <1>3, <1>4, <1>5, <1>6, <1>7 DEF SInv

LEMMA StartCallersStep == ASSUME SInv, NEW r \in Request, StartCallers(r) PROVE SInv'
<1> USE DEF StartCallers, Go, Forget, stores, searchStores, gathering, bounds
<1>1. SearchShape'
  <2>1. found[r] \subseteq Operator /\ IsFiniteSet(Operator)
    BY LegacyAssumption DEF LegacyAssumption, SInv, SearchShape
  <2>2. Receives(found[r]) \in Nat
    BY <2>1, FS_Subset, FS_CardinalityType DEF Receives
  <2>3. awaited' \in [Request -> Nat]
    BY <2>2 DEF SInv, SearchShape
  <2> QED BY <2>3, Bounds DEF SInv, SearchShape, DayPlaces
<1>2. ListingsNameAlways' /\ WrittenServe' /\ WholeServes'
  BY RefreshFrame DEF SInv, SearchShape
<1>3. StableOperatorsAreServed'
  BY DEF SInv, SearchShape, StableOperatorsAreServed, Documents
<1>4. LateIsWhole'
  BY DEF SInv, LateIsWhole
<1>5. KeptBeforeMarked' /\ MarkedDayHasDocument'
  BY DEF SInv, SearchShape, KeptBeforeMarked, MarkedDayHasDocument
<1>6. CallersMatch'
  <2>1. awaited'[r] = Cardinality(caller'[r])
    BY DEF SInv, SearchShape, Receives
  <2> QED BY <2>1 DEF SInv, SearchShape, CallersMatch
<1> QED BY <1>1, <1>2, <1>3, <1>4, <1>5, <1>6 DEF SInv

LEMMA GatherStep == ASSUME SInv, NEW r \in Request, NEW o \in Operator, Gather(r, o) PROVE SInv'
<1> USE DEF Gather, stores, local, judged, searchStores, gathering, bounds
<1>1. SearchShape'
  <2>1. PICK n \in Trips : gathered' = [gathered EXCEPT ![r] = Among(@, n)]
    BY DEF Gather
  <2>2. Among(gathered[r], n) \in Trips
    BY <2>1 DEF SInv, SearchShape, Among, Trips, Several
  <2>3. gathered' \in [Request -> Trips]
    BY <2>1, <2>2 DEF SInv, SearchShape
  <2>4. awaited' \in [Request -> Nat]
    BY DEF SInv, SearchShape
  <2> QED BY <2>3, <2>4 DEF SInv, SearchShape
<1>2. ListingsNameAlways' /\ WrittenServe' /\ WholeServes'
  BY RefreshFrame DEF SInv, SearchShape
<1>3. StableOperatorsAreServed' /\ LateIsWhole'
  BY AnswerFrame DEF SInv, SearchShape
<1>4. KeptBeforeMarked' /\ MarkedDayHasDocument'
  BY DEF SInv, SearchShape, KeptBeforeMarked, MarkedDayHasDocument
<1>5. CallersMatch'
  <2>1. caller[r] \subseteq Operator /\ IsFiniteSet(Operator) /\ awaited[r] = Cardinality(caller[r])
    BY LegacyAssumption DEF LegacyAssumption, SInv, SearchShape, CallersMatch
  <2>2. Cardinality(caller[r] \ {o}) = Cardinality(caller[r]) - 1
    BY <2>1, FS_Subset, FS_RemoveElement
  <2> QED BY <2>1, <2>2 DEF SInv, SearchShape, CallersMatch
<1> QED BY <1>1, <1>2, <1>3, <1>4, <1>5 DEF SInv

LEMMA EndGatheringStep == ASSUME SInv, NEW r \in Request, EndGathering(r) PROVE SInv'
<1> USE DEF EndGathering, AfterGathering, Go, stores, judged, searchStores, gathering, bounds
<1>1. SearchShape'
  BY Bounds DEF SInv, SearchShape, DayPlaces, Place, Date
<1>2. ListingsNameAlways' /\ WrittenServe' /\ WholeServes'
  BY RefreshFrame DEF SInv, SearchShape
<1>3. StableOperatorsAreServed' /\ LateIsWhole'
  BY AnswerFrame DEF SInv, SearchShape
<1>4. KeptBeforeMarked'
  <2>1. gathered[r] # 0 => gathered[r] > 0
    BY DEF SInv, SearchShape, Trips, Several
  <2> QED BY <2>1 DEF SInv, SearchShape, KeptBeforeMarked
<1>5. MarkedDayHasDocument'
  BY DEF SInv, MarkedDayHasDocument
<1>6. CallersMatch'
  <2>1. caller[r] \subseteq Operator /\ IsFiniteSet(Operator) /\ Cardinality(caller[r]) = 0
    BY LegacyAssumption DEF LegacyAssumption, SInv, SearchShape, CallersMatch
  <2>2. caller[r] = {}
    BY <2>1, FS_Subset, FS_EmptySet
  <2> QED BY <2>2 DEF SInv, SearchShape, CallersMatch
<1> QED BY <1>1, <1>2, <1>3, <1>4, <1>5, <1>6 DEF SInv

LEMMA KeepTripsStep == ASSUME SInv, NEW r \in Request, KeepTrips(r) PROVE SInv'
<1> USE DEF KeepTrips, Go, stores, local, judged, gathering
<1>1. SearchShape'
  BY FaultCounts DEF SInv, SearchShape, DayPlaces
<1>2. ListingsNameAlways' /\ WrittenServe' /\ WholeServes'
  BY RefreshFrame DEF SInv, SearchShape
<1>3. StableOperatorsAreServed' /\ LateIsWhole'
  BY AnswerFrame DEF SInv, SearchShape
<1>4. KeptBeforeMarked' /\ MarkedDayHasDocument'
  <2>1. faults' = 0 => faults = 0 /\ kept' = gathered[r] /\ gathered[r] > 0
    BY FaultCounts, Bounds DEF SInv, SearchShape, KeptBeforeMarked, Fault
  <2> QED BY <2>1 DEF SInv, SearchShape, KeptBeforeMarked, MarkedDayHasDocument
<1>5. CallersMatch'
  BY DEF SInv, SearchShape, CallersMatch
<1> QED BY <1>1, <1>2, <1>3, <1>4, <1>5 DEF SInv

LEMMA MarkDayStep == ASSUME SInv, NEW r \in Request, MarkDay(r) PROVE SInv'
<1> USE DEF MarkDay, Go, stores, judged
<1>1. SearchShape'
  BY FaultCounts, Bounds DEF SInv, SearchShape, Place, Date, Trips, Several
<1>2. ListingsNameAlways' /\ WrittenServe' /\ WholeServes'
  BY RefreshFrame DEF SInv, SearchShape
<1>3. StableOperatorsAreServed' /\ LateIsWhole'
  BY AnswerFrame DEF SInv, SearchShape
<1>4. KeptBeforeMarked' /\ MarkedDayHasDocument'
  BY FaultCounts DEF SInv, SearchShape, KeptBeforeMarked, MarkedDayHasDocument
<1>5. CallersMatch'
  BY DEF SInv, SearchShape, CallersMatch
<1> QED BY <1>1, <1>2, <1>3, <1>4, <1>5 DEF SInv

(* A restart forgets the requests; the stores and what is in them stay.      *)
LEMMA RestartStep == ASSUME SInv, RestartSearch PROVE SInv'
<1> USE DEF RestartSearch, StopRequests, stores, searchStores, gathering
<1>1. SearchShape'
  BY FaultCounts, Bounds DEF SInv, SearchShape, Place, Date, Nothing, Listing, Trips, Several
<1>2. ListingsNameAlways' /\ WrittenServe' /\ WholeServes'
  BY DEF SInv, ListingsNameAlways, WrittenServe, WholeServes, Serves
<1>3. StableOperatorsAreServed' /\ LateIsWhole'
  BY DEF StableOperatorsAreServed, LateIsWhole
<1>4. KeptBeforeMarked' /\ MarkedDayHasDocument' /\ CallersMatch'
  BY Bounds DEF SInv, SearchShape, KeptBeforeMarked, MarkedDayHasDocument, CallersMatch, Fault
<1> QED BY <1>1, <1>2, <1>3, <1>4 DEF SInv

(* Removals of markers and the clock disturb nothing.                        *)
LEMMA MarkerStep ==
  ASSUME SInv, \/ RemoveDayMarker
               \/ (RemoveOperatorMarker \/ Tick) /\ UNCHANGED <<searchStores, gathering>>
               \/ UNCHANGED searchVars
  PROVE  SInv'
<1>1. /\ UNCHANGED <<routes, at, local, judged, bounds, kept, gathering>>
      /\ dayMarker' \in {0, dayMarker} /\ marker' \in {0, marker}
      /\ now' = now \/ (now < MaxTime /\ now' = now + 1)
  BY DEF RemoveDayMarker, RemoveOperatorMarker, Tick, searchVars, searchStores, gathering, opVars, stores
<1>2. SearchShape'
  <2>1. now' \in Date \ {0} /\ now <= now' /\ dayMarker' \in Date /\ marker' \in Date
    BY <1>1, Bounds DEF SInv, SearchShape, Date
  <2>2. /\ \A o \in Operator : routes[o].modified <= now'
        /\ marker' <= now' /\ \A r \in Request : began[r] <= now'
    BY <1>1, <2>1, Bounds DEF SInv, SearchShape, Date, Doc
  <2> QED BY <1>1, <2>1, <2>2 DEF SInv, SearchShape, local, judged, bounds, gathering
<1>3. ListingsNameAlways' /\ WrittenServe' /\ WholeServes'
  BY <1>1, RefreshFrame DEF local, judged
<1>4. StableOperatorsAreServed' /\ LateIsWhole'
  BY <1>1, AnswerFrame DEF local, judged
<1>5. KeptBeforeMarked' /\ MarkedDayHasDocument' /\ CallersMatch'
  BY <1>1 DEF SInv, KeptBeforeMarked, MarkedDayHasDocument, CallersMatch, bounds, local, gathering
<1> QED BY <1>2, <1>3, <1>4, <1>5 DEF SInv

LEMMA SearchInvariant == SearchSpec => []SInv
<1>1. SInv /\ [SearchNext]_searchVars => SInv'
  <2> SUFFICES ASSUME SInv, [SearchNext]_searchVars PROVE SInv'
    OBVIOUS
  <2>1. ASSUME NEW r \in Request, GetBitsSearchResult(r) PROVE SInv'
    <3>1. CASE GetOperators(r) /\ UNCHANGED <<searchStores, gathering>>
      BY <3>1, ReadOperatorMarkerStep, SearchOperatorsStep, SearchFailsStep, FetchOperatorsStep,
         IndexOperatorStep, MarkOperatorsStep, FinishRefreshStep DEF GetOperators
    <3>2. CASE ReadDayMarker(r) \/ SearchTrips(r) \/ StartCallers(r) \/ EndGathering(r)
                 \/ KeepTrips(r) \/ MarkDay(r) \/ \E o \in Operator : Gather(r, o)
      BY <3>2, ReadDayMarkerStep, SearchTripsStep, StartCallersStep, EndGatheringStep,
         KeepTripsStep, MarkDayStep, GatherStep
    <3> QED BY <2>1, <3>1, <3>2 DEF GetBitsSearchResult
  <2> QED BY <2>1, AskStep, MarkerStep, RestartStep DEF SearchNext
<1> QED BY <1>1, SearchStarts, PTL DEF SearchSpec

(* The state of the searches is well formed, and no date lies in the future.  *)
THEOREM SearchTypeCorrect == SearchSpec => [](OperatorsTypeOK /\ SearchTypeOK)
<1>1. SInv => OperatorsTypeOK /\ SearchTypeOK
  BY DEF SInv, SearchShape, OperatorsTypeOK, SearchTypeOK
<1> QED BY <1>1, SearchInvariant, PTL

(* An answer from the operator index is complete once a refresh has written   *)
(* all its documents, as long as they fit into one search, whichever          *)
(* refreshes overwrite them and whatever fails or restarts meanwhile          *)
(* (V1/service/operatorservice.go, GetRouteOperators).                       *)
THEOREM IndexAnswersAreComplete == SearchSpec => []StableOperatorsAreServed
<1>1. SInv => StableOperatorsAreServed
  BY DEF SInv
<1> QED BY <1>1, SearchInvariant, PTL

(* As long as nothing has failed, a day is marked only while the route has a  *)
(* document to answer it with (V1/service/searchservice.go).                 *)
THEOREM MarkedDaysHaveTrips == SearchSpec => []MarkedDayHasDocument
<1>1. SInv => MarkedDayHasDocument
  BY DEF SInv
<1> QED BY <1>1, SearchInvariant, PTL

(* No goroutine outlives the request that started it and no request waits     *)
(* for one that does not exist: there are as many receives as goroutines      *)
(* (V1/service/searchservice.go, getOperatorBitsSearchResult).               *)
THEOREM CallersAreReceived == SearchSpec => []NoCallerIsLeft
<1>1. ASSUME SInv PROVE NoCallerIsLeft
  BY <1>1 DEF SInv, SearchShape, CallersMatch, NoCallerIsLeft
<1> QED BY <1>1, SearchInvariant, PTL

-----------------------------------------------------------------------------
(* Seat maps: the steps.                                                    *)

LEMMA SeatMapBounds ==
  /\ MaxTime \in Nat \ {0} /\ MaxFaults \in Nat /\ MaxRemovals \in Nat
  /\ NoTrip \notin Trip
BY LegacyAssumption, SeatMapsAssumption DEF LegacyAssumption, SeatMapsAssumption

LEMMA SeatMapsStart == SeatMaps!Init => MInv
<1> SUFFICES ASSUME SeatMaps!Init PROVE MInv
  OBVIOUS
<1> USE DEF SeatMaps!Init
<1>1. SeatMapShape
  BY SeatMapBounds DEF SeatMapShape, SeatMaps!Date, SeatMaps!NoDoc, SeatMaps!Unread,
                       SeatMaps!SeatMap, SeatMaps!Place, SeatMaps!Key
<1>2. RemovedAreOutdated
  BY DEF RemovedAreOutdated, Removed, Kept
<1>3. FillsAreNew /\ RemovedIsNotServed
  BY DEF FillsAreNew, RemovedIsNotServed, SeatMaps!RemovedIsNotServed
<1> QED BY <1>1, <1>2, <1>3 DEF MInv

LEMMA AskBusmapStep == ASSUME MInv, NEW r \in Request, SeatMaps!AskBusmap(r) PROVE MInv'
<1>1. PICK t \in Trip, o \in SeatMapOperator :
        asks' = [asks EXCEPT ![r] = [trip |-> t, operator |-> o, since |-> removals[t]]]
  BY DEF SeatMaps!AskBusmap
<1>2. /\ place' = [place EXCEPT ![r] = "marker"]
      /\ UNCHANGED <<clock, tripMarker, index, markRead, seatMap, fillBegan, removals, crossed, failed>>
  BY DEF SeatMaps!AskBusmap, SeatMaps!judged
<1>3. SeatMapShape'
  <2>1. [trip |-> t, operator |-> o, since |-> removals[t]] \in SeatMaps!Asked
    BY DEF MInv, SeatMapShape, SeatMaps!Asked
  <2>2. removals[t] <= removals[t]
    BY SeatMapBounds DEF MInv, SeatMapShape
  <2> QED BY <1>1, <1>2, <2>1, <2>2 DEF MInv, SeatMapShape, SeatMaps!Place
<1>4. RemovedAreOutdated'
  BY <1>1, <1>2 DEF MInv, SeatMapShape, RemovedAreOutdated, Removed, Kept
<1>5. FillsAreNew' /\ RemovedIsNotServed'
  BY <1>1, <1>2 DEF MInv, SeatMapShape, FillsAreNew, RemovedIsNotServed, SeatMaps!RemovedIsNotServed
<1> QED BY <1>3, <1>4, <1>5 DEF MInv

(* A marker read now is later than what was removed before.                  *)
LEMMA ReadMarkerStep == ASSUME MInv, NEW r \in Request, SeatMaps!ReadMarker(r) PROVE MInv'
<1>1. /\ place[r] = "marker" /\ asks' = asks
      /\ UNCHANGED <<clock, tripMarker, index, seatMap, fillBegan, removals, crossed>>
      /\ failed' = failed \/ (failed < MaxFaults /\ failed' = failed + 1)
  BY DEF SeatMaps!ReadMarker, SeatMaps!Go, SeatMaps!judged, SeatMaps!Fault
<1>2. PICK d \in {0, tripMarker[asks[r].trip]} :
        /\ markRead' = [markRead EXCEPT ![r] = d]
        /\ place' = [place EXCEPT ![r] = IF markRead'[r] = 0 THEN "fetch" ELSE "index"]
  BY DEF SeatMaps!ReadMarker, SeatMaps!Go
<1>3. /\ asks[r] \in SeatMaps!Asked /\ asks[r].trip \in Trip /\ d \in SeatMaps!Date
      /\ d # 0 => d = tripMarker[asks[r].trip] /\ d > 0
  BY <1>1, SeatMapBounds DEF MInv, SeatMapShape, SeatMaps!Asked, SeatMaps!Date
<1>4. /\ markRead'[r] = d
      /\ place'[r] = IF d = 0 THEN "fetch" ELSE "index"
      /\ \A x \in Request : x # r => place'[x] = place[x] /\ markRead'[x] = markRead[x]
  BY <1>2 DEF MInv, SeatMapShape
<1>5. SeatMapShape'
  <2>1. place' \in [Request -> SeatMaps!Place] /\ markRead' \in [Request -> SeatMaps!Date]
    BY <1>2, <1>3 DEF MInv, SeatMapShape, SeatMaps!Place
  <2>2. failed' \in 0 .. MaxFaults
    BY <1>1, SeatMapBounds DEF MInv, SeatMapShape
  <2>3. \A x \in Request : place'[x] # "idle" => place[x] # "idle"
    BY <1>1, <1>4
  <2>4. \A x \in Request : place'[x] = "index" => markRead'[x] > 0
    BY <1>3, <1>4 DEF MInv, SeatMapShape
  <2> QED BY <1>1, <2>1, <2>2, <2>3, <2>4 DEF MInv, SeatMapShape
<1>6. RemovedAreOutdated'
  <2> SUFFICES ASSUME NEW k \in SeatMaps!Key, NEW t \in Trip, t \notin crossed, Removed(k, t)
               PROVE  /\ index[k].modified < clock
                      /\ tripMarker[t] # 0 => index[k].modified < tripMarker[t]
                      /\ \A x \in Request : place'[x] # "idle" /\ asks[x].trip = t =>
                           /\ place'[x] \in {"keep", "mark"} => index[k].modified < fillBegan[x]
                           /\ place'[x] = "index" /\ asks[x].since = removals[t]
                                => index[k].modified < markRead'[x]
    BY <1>1 DEF RemovedAreOutdated, Removed, Kept
  <2> QED BY <1>1, <1>3, <1>4 DEF MInv, RemovedAreOutdated
<1>7. FillsAreNew' /\ RemovedIsNotServed'
  BY <1>1, <1>4 DEF MInv, FillsAreNew, RemovedIsNotServed, SeatMaps!RemovedIsNotServed
<1> QED BY <1>5, <1>6, <1>7 DEF MInv

(* A seat map found that is not outdated was fetched after the last removal:  *)
(* the marker is dated, and later than those that were fetched before it.    *)
LEMMA SearchIndexStep == ASSUME MInv, NEW r \in Request, SeatMaps!SearchIndex(r) PROVE MInv'
<1>1. /\ place[r] = "index" /\ markRead' = [markRead EXCEPT ![r] = 0]
      /\ UNCHANGED <<clock, tripMarker, index, fillBegan, removals, crossed>>
      /\ failed' = failed \/ (failed < MaxFaults /\ failed' = failed + 1)
  BY DEF SeatMaps!SearchIndex, SeatMaps!judged, SeatMaps!Fault
<1>2. /\ asks[r] \in SeatMaps!Asked /\ asks[r].trip \in Trip /\ markRead[r] > 0
      /\ markRead[r] \in Nat
  BY <1>1, SeatMapBounds DEF MInv, SeatMapShape, SeatMaps!Asked, SeatMaps!Date
<1>3. failed' \in 0 .. MaxFaults /\ markRead' \in [Request -> SeatMaps!Date]
  BY <1>1, SeatMapBounds DEF MInv, SeatMapShape, SeatMaps!Date
<1>4. CASE /\ place' = [place EXCEPT ![r] = "idle"]
           /\ asks' = [asks EXCEPT ![r] = NoAsk] /\ UNCHANGED seatMap
  <2>1. SeatMapShape'
    BY <1>1, <1>3, <1>4 DEF MInv, SeatMapShape, SeatMaps!Place
  <2>2. RemovedAreOutdated'
    BY <1>1, <1>4 DEF MInv, SeatMapShape, RemovedAreOutdated, Removed, Kept
  <2>3. FillsAreNew' /\ RemovedIsNotServed'
    BY <1>1, <1>4 DEF MInv, SeatMapShape, FillsAreNew, RemovedIsNotServed, SeatMaps!RemovedIsNotServed
  <2> QED BY <2>1, <2>2, <2>3 DEF MInv
<1>5. CASE \E k \in SeatMaps!Found(asks[r].trip), readable \in BOOLEAN :
             LET doc == IF readable THEN index[k] ELSE [index[k] EXCEPT !.modified = 0] IN
             /\ seatMap' = [seatMap EXCEPT ![r] = doc.seatMap]
             /\ SeatMaps!Go(r, IF SeatMaps!IsOutdated(r, doc) THEN "fetch" ELSE "served")
  <2>1. PICK k \in SeatMaps!Key, readable \in BOOLEAN :
          /\ Kept(k, asks[r].trip)
          /\ LET doc == IF readable THEN index[k] ELSE [index[k] EXCEPT !.modified = 0] IN
             /\ seatMap' = [seatMap EXCEPT ![r] = doc.seatMap]
             /\ SeatMaps!Go(r, IF SeatMaps!IsOutdated(r, doc) THEN "fetch" ELSE "served")
    BY <1>5 DEF SeatMaps!Found, Kept
  <2> DEFINE dated == IF readable THEN index[k].modified ELSE 0
             next  == IF markRead[r] > dated THEN "fetch" ELSE "served"
  <2>2. index[k] \in [seatMap : SeatMaps!SeatMap, modified : SeatMaps!Date]
    BY DEF MInv, SeatMapShape
  <2>3. /\ seatMap' = [seatMap EXCEPT ![r] = index[k].seatMap]
        /\ place' = [place EXCEPT ![r] = next] /\ asks' = asks
    BY <2>1, <2>2 DEF SeatMaps!Go, SeatMaps!IsOutdated
  <2>4. next \in {"fetch", "served"}
    OBVIOUS
  <2>5. next = "served" => readable /\ markRead[r] <= index[k].modified
    BY <1>2, <2>2, SeatMapBounds DEF SeatMaps!Date
  <2> HIDE DEF dated, next
  <2>6. SeatMapShape'
    BY <1>1, <1>3, <2>2, <2>3, <2>4 DEF MInv, SeatMapShape, SeatMaps!Place
  <2>7. RemovedAreOutdated'
    BY <1>1, <2>3, <2>4 DEF MInv, SeatMapShape, RemovedAreOutdated, Removed, Kept
  <2>8. FillsAreNew'
    BY <1>1, <2>3, <2>4 DEF MInv, SeatMapShape, FillsAreNew
  <2>9. RemovedIsNotServed'
    <3> SUFFICES ASSUME NEW x \in Request, place'[x] = "served",
                        asks[x].since = removals[asks[x].trip], asks[x].trip \notin crossed
                 PROVE  seatMap'[x].fetched = removals[asks[x].trip]
      BY <1>1, <2>3 DEF RemovedIsNotServed, SeatMaps!RemovedIsNotServed
    <3>1. CASE x # r
      BY <2>3, <3>1 DEF MInv, SeatMapShape, RemovedIsNotServed, SeatMaps!RemovedIsNotServed
    <3>2. CASE x = r
      <4>1. next = "served" /\ seatMap'[r] = index[k].seatMap
        BY <2>3, <3>2 DEF MInv, SeatMapShape
      <4>2. ~(index[k].modified < markRead[r])
        BY <1>2, <2>2, <2>5, <4>1, SeatMapBounds DEF SeatMaps!Date
      <4>3. ~Removed(k, asks[r].trip)
        BY <1>1, <1>2, <3>2, <4>2 DEF MInv, RemovedAreOutdated
      <4> QED BY <2>1, <3>2, <4>1, <4>3 DEF Removed
    <3> QED BY <3>1, <3>2
  <2> QED BY <2>6, <2>7, <2>8, <2>9 DEF MInv
<1> QED BY <1>4, <1>5 DEF SeatMaps!SearchIndex, SeatMaps!End

LEMMA FetchBusMapStep == ASSUME MInv, NEW r \in Request, SeatMaps!FetchBusMap(r) PROVE MInv'
<1>1. /\ place[r] = "fetch" /\ place' = [place EXCEPT ![r] = "keep"] /\ asks' = asks
      /\ fillBegan' = [fillBegan EXCEPT ![r] = clock]
      /\ UNCHANGED <<clock, tripMarker, index, markRead, removals, crossed>>
      /\ failed' = failed \/ (failed < MaxFaults /\ failed' = failed + 1)
  BY DEF SeatMaps!FetchBusMap, SeatMaps!Go, SeatMaps!judged, SeatMaps!Fault
<1>2. PICK m \in {SeatMaps!Unread, [trip |-> asks[r].trip, fetched |-> removals[asks[r].trip]]} :
        seatMap' = [seatMap EXCEPT ![r] = m]
  BY DEF SeatMaps!FetchBusMap
<1>3. asks[r] \in SeatMaps!Asked /\ asks[r].trip \in Trip
  BY <1>1 DEF MInv, SeatMapShape, SeatMaps!Asked
<1>4. /\ m \in SeatMaps!SeatMap
      /\ m.trip \in Trip => m.trip = asks[r].trip /\ m.fetched = removals[asks[r].trip]
  BY <1>2, <1>3, SeatMapBounds DEF MInv, SeatMapShape, SeatMaps!SeatMap, SeatMaps!Unread
<1>5. SeatMapShape'
  <2>1. failed' \in 0 .. MaxFaults
    BY <1>1, SeatMapBounds DEF MInv, SeatMapShape
  <2> QED BY <1>1, <1>2, <1>4, <2>1 DEF MInv, SeatMapShape, SeatMaps!Place
<1>6. RemovedAreOutdated'
  BY <1>1 DEF MInv, SeatMapShape, RemovedAreOutdated, Removed, Kept
<1>7. FillsAreNew'
  BY <1>1, <1>2, <1>4 DEF MInv, SeatMapShape, FillsAreNew
<1>8. RemovedIsNotServed'
  BY <1>1, <1>2 DEF MInv, SeatMapShape, RemovedIsNotServed, SeatMaps!RemovedIsNotServed
<1> QED BY <1>5, <1>6, <1>7, <1>8 DEF MInv

(* What a fill keeps was fetched after the last removal, or is of no trip.    *)
LEMMA KeepBusMapStep == ASSUME MInv, NEW r \in Request, SeatMaps!KeepBusMap(r) PROVE MInv'
<1>1. /\ place[r] = "keep" /\ place' = [place EXCEPT ![r] = "mark"] /\ asks' = asks
      /\ UNCHANGED <<clock, tripMarker, markRead, seatMap, fillBegan, removals, crossed>>
      /\ failed' = failed \/ (failed < MaxFaults /\ failed' = failed + 1)
  BY DEF SeatMaps!KeepBusMap, SeatMaps!Go, SeatMaps!judged, SeatMaps!Fault
<1> DEFINE key == SeatMaps!KeyOfSeatMap(r)
           doc == [seatMap |-> seatMap[r], modified |-> clock]
<1>2. index' = index \/ index' = [index EXCEPT ![key] = doc]
  BY DEF SeatMaps!KeepBusMap
<1>3. asks[r] \in SeatMaps!Asked /\ asks[r].trip \in Trip /\ asks[r].operator \in SeatMapOperator
  BY <1>1 DEF MInv, SeatMapShape, SeatMaps!Asked
<1>4. /\ key \in SeatMaps!Key
      /\ doc \in [seatMap : SeatMaps!SeatMap, modified : SeatMaps!Date]
      /\ doc.modified <= clock /\ doc.seatMap = seatMap[r]
  BY <1>3, SeatMapBounds DEF MInv, SeatMapShape, SeatMaps!Key, SeatMaps!KeyOfSeatMap, SeatMaps!SeatMap,
                             SeatMaps!Date
<1> HIDE DEF key, doc
<1>5. \A k \in SeatMaps!Key : index'[k] = index[k] \/ (k = key /\ index'[k] = doc)
  BY <1>2 DEF MInv, SeatMapShape
<1>6. SeatMapShape'
  <2>1. failed' \in 0 .. MaxFaults
    BY <1>1, SeatMapBounds DEF MInv, SeatMapShape
  <2>2. index' \in [SeatMaps!Key -> [seatMap : SeatMaps!SeatMap, modified : SeatMaps!Date]]
    BY <1>2, <1>4 DEF MInv, SeatMapShape
  <2>3. \A k \in SeatMaps!Key : index'[k].modified <= clock
    BY <1>4, <1>5 DEF MInv, SeatMapShape
  <2> QED BY <1>1, <2>1, <2>2, <2>3 DEF MInv, SeatMapShape, SeatMaps!Place
<1>7. RemovedAreOutdated'
  <2> SUFFICES ASSUME NEW k \in SeatMaps!Key, NEW t \in Trip, t \notin crossed, Removed(k, t)'
               PROVE  /\ index'[k].modified < clock
                      /\ tripMarker[t] # 0 => index'[k].modified < tripMarker[t]
                      /\ \A x \in Request : place'[x] # "idle" /\ asks[x].trip = t =>
                           /\ place'[x] \in {"keep", "mark"} => index'[k].modified < fillBegan[x]
                           /\ place'[x] = "index" /\ asks[x].since = removals[t]
                                => index'[k].modified < markRead[x]
    BY <1>1 DEF RemovedAreOutdated
  <2>1. CASE index'[k] = doc
    <3>1. seatMap[r].trip = t /\ seatMap[r].fetched # removals[t]
      BY <1>1, <1>4, <2>1 DEF Removed, Kept
    <3> QED BY <1>1, <3>1 DEF MInv, FillsAreNew
  <2>2. CASE index'[k] = index[k]
    <3>1. Removed(k, t)
      BY <1>1, <2>2 DEF Removed, Kept
    <3> QED BY <1>1, <2>2, <3>1 DEF MInv, SeatMapShape, RemovedAreOutdated
  <2> QED BY <1>5, <2>1, <2>2
<1>8. FillsAreNew' /\ RemovedIsNotServed'
  BY <1>1 DEF MInv, SeatMapShape, FillsAreNew, RemovedIsNotServed, SeatMaps!RemovedIsNotServed
<1> QED BY <1>6, <1>7, <1>8 DEF MInv

(* The marker gets the date of the fill's beginning, which is later too.     *)
LEMMA MarkTripStep == ASSUME MInv, NEW r \in Request, SeatMaps!MarkTrip(r) PROVE MInv'
<1>1. /\ place[r] = "mark" /\ place' = [place EXCEPT ![r] = "idle"]
      /\ asks' = [asks EXCEPT ![r] = NoAsk]
      /\ fillBegan' = [fillBegan EXCEPT ![r] = 0]
      /\ seatMap' = [seatMap EXCEPT ![r] = SeatMaps!Unread]
      /\ UNCHANGED <<clock, index, markRead, removals, crossed>>
      /\ failed' = failed \/ (failed < MaxFaults /\ failed' = failed + 1)
      /\ \/ tripMarker' = [tripMarker EXCEPT ![asks[r].trip] = fillBegan[r]]
         \/ tripMarker' = tripMarker
  BY DEF SeatMaps!MarkTrip, SeatMaps!End, SeatMaps!judged, SeatMaps!Fault
<1>2. asks[r] \in SeatMaps!Asked /\ asks[r].trip \in Trip
  BY <1>1 DEF MInv, SeatMapShape, SeatMaps!Asked
<1>3. SeatMapShape'
  <2>1. failed' \in 0 .. MaxFaults /\ tripMarker' \in [Trip -> SeatMaps!Date]
    BY <1>1, <1>2, SeatMapBounds DEF MInv, SeatMapShape
  <2>2. fillBegan' \in [Request -> SeatMaps!Date] /\ seatMap' \in [Request -> SeatMaps!SeatMap]
    BY <1>1, SeatMapBounds DEF MInv, SeatMapShape, SeatMaps!Date, SeatMaps!SeatMap, SeatMaps!Unread
  <2> QED BY <1>1, <2>1, <2>2 DEF MInv, SeatMapShape, SeatMaps!Place
<1>4. RemovedAreOutdated'
  <2> SUFFICES ASSUME NEW k \in SeatMaps!Key, NEW t \in Trip, t \notin crossed, Removed(k, t)
               PROVE  /\ index[k].modified < clock
                      /\ tripMarker'[t] # 0 => index[k].modified < tripMarker'[t]
                      /\ \A x \in Request : place'[x] # "idle" /\ asks'[x].trip = t =>
                           /\ place'[x] \in {"keep", "mark"} => index[k].modified < fillBegan'[x]
                           /\ place'[x] = "index" /\ asks'[x].since = removals[t]
                                => index[k].modified < markRead[x]
    BY <1>1 DEF RemovedAreOutdated, Removed, Kept
  <2>1. tripMarker'[t] # 0 => index[k].modified < tripMarker'[t]
    BY <1>1, <1>2 DEF MInv, SeatMapShape, RemovedAreOutdated
  <2> QED BY <1>1, <2>1 DEF MInv, SeatMapShape, RemovedAreOutdated
<1>5. FillsAreNew' /\ RemovedIsNotServed'
  BY <1>1 DEF MInv, SeatMapShape, FillsAreNew, RemovedIsNotServed, SeatMaps!RemovedIsNotServed
<1> QED BY <1>3, <1>4, <1>5 DEF MInv

LEMMA AnswerStep == ASSUME MInv, NEW r \in Request, SeatMaps!Answer(r) PROVE MInv'
<1> USE DEF SeatMaps!Answer, SeatMaps!End, SeatMaps!judged
<1>1. SeatMapShape'
  <2>1. seatMap' \in [Request -> SeatMaps!SeatMap]
    BY SeatMapBounds DEF MInv, SeatMapShape, SeatMaps!SeatMap, SeatMaps!Unread
  <2> QED BY <2>1 DEF MInv, SeatMapShape, SeatMaps!Place
<1>2. RemovedAreOutdated'
  BY DEF MInv, SeatMapShape, RemovedAreOutdated, Removed, Kept
<1>3. FillsAreNew' /\ RemovedIsNotServed'
  BY DEF MInv, SeatMapShape, FillsAreNew, RemovedIsNotServed, SeatMaps!RemovedIsNotServed
<1> QED BY <1>1, <1>2, <1>3 DEF MInv

(* A removal with no fill under way and no document of its second: what is    *)
(* kept is dated before it, the marker is gone, and nobody asks since it.    *)
LEMMA RemoveMarkerStep == ASSUME MInv, SeatMaps!RemoveMarker PROVE MInv'
<1>1. PICK t \in Trip :
        /\ removals[t] < MaxRemovals
        /\ tripMarker' = [tripMarker EXCEPT ![t] = 0]
        /\ removals' = [removals EXCEPT ![t] = @ + 1]
        /\ crossed' = IF \/ \E r \in Request : place[r] \in {"fetch", "keep", "mark"} /\ asks[r].trip = t
                         \/ \E k \in SeatMaps!Found(t) : index[k].modified = clock
                      THEN crossed \union {t} ELSE crossed \ {t}
        /\ UNCHANGED <<clock, index, place, asks, markRead, seatMap, fillBegan, failed>>
  BY DEF SeatMaps!RemoveMarker, SeatMaps!local
<1>2. /\ removals'[t] = removals[t] + 1 /\ removals[t] \in Nat
      /\ tripMarker'[t] = 0
      /\ \A u \in Trip : u # t => removals'[u] = removals[u] /\ tripMarker'[u] = tripMarker[u]
  BY <1>1, SeatMapBounds DEF MInv, SeatMapShape
<1>3. SeatMapShape'
  <2>1. removals' \in [Trip -> 0 .. MaxRemovals] /\ crossed' \subseteq Trip
    BY <1>1, SeatMapBounds DEF MInv, SeatMapShape
  <2>2. tripMarker' \in [Trip -> SeatMaps!Date]
    BY <1>1, SeatMapBounds DEF MInv, SeatMapShape, SeatMaps!Date
  <2>3. \A r \in Request : place[r] # "idle" => asks[r].since <= removals'[asks[r].trip]
    BY <1>2, SeatMapBounds DEF MInv, SeatMapShape, SeatMaps!Asked
  <2> QED BY <1>1, <2>1, <2>2, <2>3 DEF MInv, SeatMapShape
<1>4. \A r \in Request : place[r] # "idle" /\ asks[r].trip = t => asks[r].since # removals'[t]
  BY <1>2, SeatMapBounds DEF MInv, SeatMapShape, SeatMaps!Asked
<1>5. RemovedAreOutdated'
  <2> SUFFICES ASSUME NEW k \in SeatMaps!Key, NEW u \in Trip, u \notin crossed', Removed(k, u)'
               PROVE  /\ index[k].modified < clock
                      /\ tripMarker'[u] # 0 => index[k].modified < tripMarker'[u]
                      /\ \A x \in Request : place[x] # "idle" /\ asks[x].trip = u =>
                           /\ place[x] \in {"keep", "mark"} => index[k].modified < fillBegan[x]
                           /\ place[x] = "index" /\ asks[x].since = removals'[u]
                                => index[k].modified < markRead[x]
    BY <1>1 DEF RemovedAreOutdated
  <2>1. CASE u # t
    <3>1. u \notin crossed /\ Removed(k, u)
      BY <1>1, <1>2, <2>1 DEF Removed, Kept
    <3> QED BY <1>2, <2>1, <3>1 DEF MInv, RemovedAreOutdated
  <2>2. CASE u = t
    <3>1. /\ \A r \in Request : asks[r].trip = t => place[r] \notin {"fetch", "keep", "mark"}
          /\ \A l \in SeatMaps!Found(t) : index[l].modified # clock
      BY <1>1, <2>2
    <3>2. k \in SeatMaps!Found(t)
      BY <1>1, <2>2 DEF Removed, Kept, SeatMaps!Found
    <3>3. index[k].modified < clock
      <4>1. index[k].modified \in SeatMaps!Date /\ clock \in SeatMaps!Date /\ index[k].modified <= clock
        BY DEF MInv, SeatMapShape
      <4> QED BY <3>1, <3>2, <4>1, SeatMapBounds DEF SeatMaps!Date
    <3> QED BY <1>2, <1>4, <2>2, <3>1, <3>3
  <2> QED BY <2>1, <2>2
<1>6. FillsAreNew'
  <2> SUFFICES ASSUME NEW r \in Request, place[r] = "keep", seatMap[r].trip \in Trip,
                      asks[r].trip \notin crossed'
               PROVE  seatMap[r].fetched = removals'[asks[r].trip]
    BY <1>1 DEF MInv, FillsAreNew
  <2>1. asks[r].trip # t /\ asks[r].trip \notin crossed /\ asks[r].trip \in Trip
    BY <1>1 DEF MInv, FillsAreNew
  <2> QED BY <1>2, <2>1 DEF MInv, FillsAreNew
<1>7. RemovedIsNotServed'
  <2> SUFFICES ASSUME NEW r \in Request, place[r] = "served",
                      asks[r].since = removals'[asks[r].trip], asks[r].trip \notin crossed'
               PROVE  seatMap[r].fetched = removals'[asks[r].trip]
    BY <1>1 DEF RemovedIsNotServed, SeatMaps!RemovedIsNotServed
  <2>1. asks[r].trip \in Trip /\ asks[r].trip # t
    BY <1>4 DEF MInv, SeatMapShape, SeatMaps!Asked
  <2> QED BY <1>1, <1>2, <2>1 DEF MInv, RemovedIsNotServed, SeatMaps!RemovedIsNotServed
<1> QED BY <1>3, <1>5, <1>6, <1>7 DEF MInv

LEMMA ClockStep == ASSUME MInv, SeatMaps!Tick PROVE MInv'
<1>1. /\ clock' = clock + 1 /\ clock < MaxTime
      /\ UNCHANGED <<tripMarker, index, place, asks, markRead, seatMap, fillBegan, removals, crossed,
                     failed>>
  BY DEF SeatMaps!Tick, SeatMaps!local, SeatMaps!judged
<1>2. clock' \in SeatMaps!Date \ {0} /\ \A k \in SeatMaps!Key : index[k].modified < clock'
  BY <1>1, SeatMapBounds DEF MInv, SeatMapShape, SeatMaps!Date
<1>3. SeatMapShape'
  <2>1. \A k \in SeatMaps!Key : index[k].modified <= clock'
    BY <1>2, SeatMapBounds DEF MInv, SeatMapShape, SeatMaps!Date
  <2> QED BY <1>1, <1>2, <2>1 DEF MInv, SeatMapShape
<1>4. RemovedAreOutdated'
  BY <1>1, <1>2 DEF MInv, RemovedAreOutdated, Removed, Kept
<1>5. FillsAreNew' /\ RemovedIsNotServed'
  BY <1>1 DEF MInv, FillsAreNew, RemovedIsNotServed, SeatMaps!RemovedIsNotServed
<1> QED BY <1>3, <1>4, <1>5 DEF MInv

LEMMA SeatMapRestartStep == ASSUME MInv, SeatMaps!Restart PROVE MInv'
<1> USE DEF SeatMaps!Restart, SeatMaps!judged, SeatMaps!Fault
<1>1. SeatMapShape'
  BY SeatMapBounds DEF MInv, SeatMapShape, SeatMaps!Place, SeatMaps!Date, SeatMaps!SeatMap, SeatMaps!Unread
<1>2. RemovedAreOutdated'
  BY DEF MInv, RemovedAreOutdated, Removed, Kept
<1>3. FillsAreNew' /\ RemovedIsNotServed'
  BY DEF FillsAreNew, RemovedIsNotServed, SeatMaps!RemovedIsNotServed
<1> QED BY <1>1, <1>2, <1>3 DEF MInv

LEMMA SeatMapInvariant == SeatMaps!Spec => []MInv
<1>1. MInv /\ [SeatMaps!Next]_(SeatMaps!vars) => MInv'
  <2>1. ASSUME MInv, UNCHANGED SeatMaps!vars PROVE MInv'
    BY <2>1 DEF SeatMaps!vars, SeatMaps!local, SeatMaps!judged, MInv, SeatMapShape, RemovedAreOutdated,
                Removed, Kept, FillsAreNew, RemovedIsNotServed, SeatMaps!RemovedIsNotServed
  <2>2. ASSUME MInv, NEW r \in Request, SeatMaps!GetBusmap(r) PROVE MInv'
    BY <2>2, ReadMarkerStep, SearchIndexStep, FetchBusMapStep, KeepBusMapStep, MarkTripStep, AnswerStep
       DEF SeatMaps!GetBusmap
  <2> QED
    BY <2>1, <2>2, AskBusmapStep, RemoveMarkerStep, ClockStep, SeatMapRestartStep DEF SeatMaps!Next
<1> QED BY <1>1, SeatMapsStart, PTL DEF SeatMaps!Spec

(* Removing a trip's marker takes effect for good, for any requests, trips,   *)
(* operators and removals: a seat map fetched before it is not served to a    *)
(* request that begins after it, unless a fill was under way or the document  *)
(* is of the same second (V1/main.go, removeBusMapCache; busmapservice.go).  *)
THEOREM RemovalsAreKept == SeatMaps!Spec => []RemovedIsNotServed
<1>1. MInv => RemovedIsNotServed
  BY DEF MInv
<1> QED BY <1>1, SeatMapInvariant, PTL

=============================================================================
