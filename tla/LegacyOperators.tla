---------------------------- MODULE LegacyOperators ----------------------------
(***************************************************************************)
(* V1: which operators serve a route.  The answer is kept in two stores that *)
(* nothing ties together: a document per operator in a Bleve index, dated    *)
(* when it is written, and in Redis one marker for all of them, dated when   *)
(* the refresh that writes them began.  A reader trusts the index unless the *)
(* marker is missing or later than a document it finds.                      *)
(*                                                                           *)
(* One route is asked for.  Dates count whole seconds; 0 is no date: the     *)
(* empty string in Redis and the zero time that an unreadable date becomes.  *)
(***************************************************************************)
EXTENDS Naturals, FiniteSets

CONSTANTS Request,   \* concurrent requests
          Operator,
          Listings,  \* what Orbit may list of the operators
          MaxHits,   \* documents that a search of the index returns at most
          MaxTime,   \* bound: seconds that pass
          MaxCalls,  \* bound: searches asked for
          MaxFaults  \* bound: failed calls and restarts

ASSUME LegacyAssumption ==
  /\ IsFiniteSet(Request) /\ IsFiniteSet(Operator) /\ MaxTime \in Nat \ {0}
  /\ Listings \subseteq [Operator -> {"absent", "serves", "elsewhere"}]
  /\ MaxHits \in Nat \ {0}
  /\ MaxCalls \in Nat /\ MaxFaults \in Nat

VARIABLES
  now,      \* the second it is
  routes,   \* the documents of the operator route index
  marker,   \* Redis OPERATOR_ROUTE
  at,       \* where each request is
  mark,     \* the marker it has read
  got,      \* the listing it has fetched
  began,    \* the date its refresh puts in the marker
  left,     \* operators it has still to index
  unmarked, \* it has indexed one whose marker write is still to come
  found,    \* operators it answers, or goes on with
  source,   \* where they come from
  \* what the properties compare
  always,   \* operators that have served the route in every listing fetched
  missed,   \* requests whose refresh could not write some document
  whole,    \* a refresh has written every document of its listing
  late,     \* requests that began after that and may answer from the index
  calls, faults

stores == <<now, routes, marker>>
local  == <<mark, got, began, left, unmarked, found, source>>
judged == <<always, missed, whole, late>>
bounds == <<calls, faults>>
opVars == <<stores, at, local, judged, bounds>>

Date    == 0 .. MaxTime
Listing == {"absent", "serves", "elsewhere"}  \* elsewhere: on other routes only
NoDoc   == [route |-> "absent", modified |-> 0]
Doc     == [route : Listing, modified : Date]
Place   == {"idle", "marker", "index", "fetch", "refresh", "found"}

OperatorsTypeOK ==
  /\ now \in Date \ {0}
  /\ routes \in [Operator -> Doc]
  /\ marker \in Date
  /\ \A o \in Operator : routes[o].modified <= now
  /\ marker <= now /\ \A r \in unmarked : at[r] = "refresh"
  /\ mark \in [Request -> Date] /\ began \in [Request -> Date]
  /\ got \in [Request -> [Operator -> Listing]]
  /\ left \in [Request -> SUBSET Operator] /\ unmarked \subseteq Request
  /\ found \in [Request -> SUBSET Operator]
  /\ source \in [Request -> {"none", "index", "Orbit"}]
  /\ always \subseteq Operator /\ missed \subseteq Request /\ whole \in BOOLEAN /\ late \subseteq Request
  /\ calls \in 0 .. MaxCalls /\ faults \in 0 .. MaxFaults

Nothing == [o \in Operator |-> "absent"]

OperatorsInit ==
  /\ now = 1
  /\ routes = [o \in Operator |-> NoDoc]
  /\ marker = 0
  /\ at = [r \in Request |-> "idle"]
  /\ mark = [r \in Request |-> 0]
  /\ got = [r \in Request |-> Nothing]
  /\ began = [r \in Request |-> 0]
  /\ left = [r \in Request |-> {}]
  /\ unmarked = {}
  /\ found = [r \in Request |-> {}]
  /\ source = [r \in Request |-> "none"]
  /\ always = Operator
  /\ missed = {}
  /\ whole = FALSE
  /\ late = {}
  /\ calls = 0
  /\ faults = 0

Fault   == faults < MaxFaults /\ faults' = faults + 1 /\ UNCHANGED calls
NoFault == UNCHANGED bounds
Go(r, place) == at' = [at EXCEPT ![r] = place]
Found(r, operators, from) ==
  /\ found' = [found EXCEPT ![r] = operators]
  /\ source' = [source EXCEPT ![r] = from]
  /\ Go(r, "found")
Forget(r) ==
  /\ found' = [found EXCEPT ![r] = {}]
  /\ source' = [source EXCEPT ![r] = "none"]

Least(S) == CHOOSE x \in S : \A y \in S : x <= y
OnRoute(listing) == {o \in Operator : listing[o] = "serves"}
Documents == {o \in Operator : routes[o] # NoDoc}

(* Mutant: one document for all operators. *)
SharedKey(o) == CHOOSE x \in Operator : TRUE

(* The key of an operator's document.                                       *)
OperatorKey(o) == o

-----------------------------------------------------------------------------
(* GetCache: an unreachable Redis reads like a missing marker.              *)
ReadOperatorMarker(r) ==
  /\ at[r] = "marker"
  /\ \/ mark' = [mark EXCEPT ![r] = marker] /\ NoFault
     \/ mark' = [mark EXCEPT ![r] = 0] /\ Fault
  /\ Go(r, IF mark'[r] = 0 THEN "fetch" ELSE "index")
  /\ late' = IF whole THEN late \union {r} ELSE late \ {r}
  /\ UNCHANGED <<stores, got, began, left, unmarked, found, source, always, missed, whole>>

(* A document that names both stations is found although the operator may    *)
(* not run between them.  No more than MaxHits are returned, of which none   *)
(* need be an operator that does.                                            *)
Hits == {S \in SUBSET Documents :
           /\ Cardinality(S) <= MaxHits
           /\ \/ OnRoute([o \in Operator |-> routes[o].route]) \subseteq S
              \/ Cardinality(S) = MaxHits}

(* The date of a search's result: that of the oldest document found.  The    *)
(* index may give back a date in another layout than the one it is read with. *)
OldestFound(hits, readable) ==
  IF readable THEN Least({now} \union {routes[o].modified : o \in hits}) ELSE 0

(* GetOrbitOperatorRoutes.  A query that fails or finds nothing returns no   *)
(* response; reading its date panics and net/http drops the connection.      *)
SearchOperators(r) ==
  /\ at[r] = "index"
  /\ \/ \E hits \in Hits \ {{}}, readable \in BOOLEAN :
          IF mark[r] > OldestFound(hits, readable)
          THEN Go(r, "fetch") /\ UNCHANGED <<found, source>>
          ELSE Found(r, {o \in hits : routes[o].route = "serves"}, "index")
     \/ {} \in Hits /\ Go(r, "idle") /\ UNCHANGED <<found, source>>
  /\ late' = IF at'[r] = "found" THEN late ELSE late \ {r}
  /\ mark' = [mark EXCEPT ![r] = 0]
  /\ UNCHANGED <<stores, got, began, left, unmarked, always, missed, whole, bounds>>

SearchFails(r) ==
  /\ at[r] = "index"
  /\ Fault
  /\ Go(r, "idle")
  /\ mark' = [mark EXCEPT ![r] = 0]
  /\ late' = late \ {r}
  /\ UNCHANGED <<stores, got, began, left, unmarked, found, source, always, missed, whole>>

(* GetOperatorRoutes: what Orbit lists at the time; any failure is an empty   *)
(* listing.                                                                 *)
FetchOperators(r) ==
  /\ at[r] = "fetch"
  /\ \/ /\ \E orbit \in Listings : /\ got' = [got EXCEPT ![r] = orbit]
                                   /\ always' = always \intersect OnRoute(orbit)
        /\ NoFault
     \/ got' = [got EXCEPT ![r] = Nothing] /\ UNCHANGED always /\ Fault
  /\ began' = [began EXCEPT ![r] = now]
  /\ left' = [left EXCEPT ![r] = {o \in Operator : got'[r][o] # "absent"}]
  /\ Go(r, "refresh")
  /\ late' = late \ {r}
  /\ UNCHANGED <<stores, mark, unmarked, found, source, missed, whole>>

(* One operator of the listing: its document, written whatever it replaces.  *)
(* An error of the index is ignored.                                         *)
IndexOperator(r) ==
  /\ at[r] = "refresh"
  /\ r \notin unmarked
  /\ \E o \in left[r] :
       /\ left' = [left EXCEPT ![r] = @ \ {o}]
       /\ unmarked' = unmarked \union {r}
       /\ \/ /\ routes' = [routes EXCEPT ![OperatorKey(o)] = [route |-> got[r][o], modified |-> now]]
             /\ NoFault /\ UNCHANGED missed
          \/ UNCHANGED routes /\ Fault /\ missed' = missed \union {r}
  /\ UNCHANGED <<now, marker, at, mark, got, began, found, source, always, whole, late>>

(* The date that a refresh leaves: that of its beginning.                   *)
MarkerDate(r) == began[r]

(* AddCache follows every document, not only the last one.                  *)
MarkOperators(r) ==
  /\ r \in unmarked
  /\ unmarked' = unmarked \ {r}
  /\ \/ marker' = MarkerDate(r) /\ NoFault
     \/ UNCHANGED marker /\ Fault
  /\ UNCHANGED <<now, routes, at, mark, got, began, left, found, source, judged>>

(* The loop is over.                                                        *)
WroteAll(r) == left[r] = {} /\ r \notin unmarked

FinishRefresh(r) ==
  /\ at[r] = "refresh"
  /\ WroteAll(r)
  /\ Found(r, OnRoute(got[r]), "Orbit")
  /\ whole' = (whole \/ (got[r] # Nothing /\ r \notin missed))
  /\ missed' = missed \ {r}
  /\ got' = [got EXCEPT ![r] = Nothing]
  /\ began' = [began EXCEPT ![r] = 0]
  /\ UNCHANGED <<stores, mark, left, unmarked, always, late, bounds>>

(* removeOperatorRouteCache.                                                *)
RemoveOperatorMarker ==
  /\ marker # 0
  /\ marker' = 0
  /\ UNCHANGED <<now, routes, at, local, judged, bounds>>

-----------------------------------------------------------------------------
(* Time, and the end of a process with its requests.                        *)
Tick == now < MaxTime /\ now' = now + 1 /\ UNCHANGED <<routes, marker, at, local, judged, bounds>>

StopRequests ==
  /\ at' = [r \in Request |-> "idle"]
  /\ mark' = [r \in Request |-> 0] /\ began' = [r \in Request |-> 0]
  /\ got' = [r \in Request |-> Nothing] /\ left' = [r \in Request |-> {}]
  /\ found' = [r \in Request |-> {}] /\ source' = [r \in Request |-> "none"]
  /\ unmarked' = {} /\ missed' = {} /\ late' = {}

GetOperators(r) ==
  \/ ReadOperatorMarker(r) \/ SearchOperators(r) \/ SearchFails(r)
  \/ FetchOperators(r) \/ IndexOperator(r) \/ MarkOperators(r) \/ FinishRefresh(r)

-----------------------------------------------------------------------------
(* An answer from the index is complete once a refresh has written all its   *)
(* documents, as long as one search can return them all: it names every      *)
(* operator that has served the route in every listing fetched, although     *)
(* refreshes overwrite documents one by one, in any order of their fetches,  *)
(* and readers read in between.  Before, readers are answered with what the  *)
(* first refresh has written so far; with more documents the search leaves   *)
(* operators out (V1/search/search.go:398).                                  *)
StableOperatorsAreServed ==
  \A r \in late : at[r] = "found" /\ source[r] = "index" /\ Cardinality(Documents) <= MaxHits
                 => always \subseteq found[r]

=============================================================================
