------------------------------ MODULE TripCache ------------------------------
(***************************************************************************)
(* The cached documents of one trip on one route: its Trip, Stage and BUSMAP *)
(* documents in Dragonfly, which expire, and its route metadata row in       *)
(* Cassandra, which does not, and by whose age the documents are trusted.    *)
(* Worker results are stored write by write, reads of the cache renew what   *)
(* they find and refresh what is cold from BITS, and live reads repair the   *)
(* cache.  BITS calls of reads take one of a few slots.                      *)
(***************************************************************************)
EXTENDS Naturals, Sequences, FiniteSets

CONSTANTS Thread,      \* concurrent requests to the Master
          ColdAfter,   \* warmMaxAge: older metadata is cold
          HotTTL,      \* retention of Trip and Stage documents
          WarmTTL,     \* retention of BUSMAP documents
          MaxSlots,    \* VERIFICATION_MAX_CONCURRENT
          NoRow,       \* no metadata row
          MaxCalls,    \* bound: requests
          MaxFaults    \* bound: failed calls to Dragonfly and Cassandra

(* Content outlives trust in its metadata by more than two requests take.   *)
ASSUME CacheAssumption ==
  /\ ColdAfter \in Nat \ {0} /\ HotTTL \in Nat /\ WarmTTL \in Nat \ {0, 1}
  /\ ColdAfter + 2 < HotTTL
  /\ MaxSlots \in Nat \ {0}
  /\ NoRow \notin Nat
  /\ IsFiniteSet(Thread)
  /\ MaxCalls \in Nat /\ MaxFaults \in Nat

VARIABLES
  age,      \* age[d]: ticks since document d was written
  ttl,      \* ttl[d]: ticks until it expires; 0 when it is not there
  updated,  \* ticks since the metadata row's updated_at, or NoRow
  slots,    \* occupied verification slots
  pc,       \* pc[t]: where thread t is
  task,     \* task[t]: what it was asked to do
  todo,     \* todo[t]: the writes of its Store call that are left
  ticked,   \* threads that have been running for a tick
  repaired, \* threads whose repairCache has succeeded
  seen,     \* seen[t]: the metadata t last read was "none", "fresh" or "cold"
  oldest,   \* oldest[t]: the age of the oldest document t has read
  result,   \* result[t]: what its request was answered
  calls, faults

cache == <<age, ttl, updated>>
local == <<task, todo, repaired, seen, oldest, result>>
vars  == <<cache, slots, pc, local, ticked, calls, faults>>

Document == {"trip", "stage", "busmap"}
Action   == {"SEARCH", "BUSMAP", "SEARCHBUSMAP"}
Task     == [do : {"push"}, action : Action]
              \union [do : {"read", "refreshing read", "live read"}, action : Action \ {"SEARCHBUSMAP"}]
Place    == {"idle", "store", "lookup", "slot", "limit", "fetch", "compare", "repair",
             "companion", "companion repair", "again", "stage", "trip", "busmap"}
Answer   == {"none", "stored", "error", "not found", "served", "live", "refused"}
Retention == [d \in Document |-> IF d = "busmap" THEN WarmTTL ELSE HotTTL]
OldAge   == HotTTL  \* bound: ages are not told apart beyond this one

TypeOK ==
  /\ age \in [Document -> 0 .. OldAge]
  /\ ttl \in [Document -> Nat] /\ \A d \in Document : ttl[d] <= Retention[d]
  /\ updated \in 0 .. OldAge \union {NoRow}
  /\ slots \in 0 .. MaxSlots
  /\ pc \in [Thread -> Place]
  /\ task \in [Thread -> Task]
  /\ todo \in [Thread -> Seq(Document \union {"route"})]
  /\ ticked \subseteq Thread /\ repaired \subseteq Thread
  /\ seen \in [Thread -> {"none", "fresh", "cold"}]
  /\ oldest \in [Thread -> 0 .. OldAge]
  /\ result \in [Thread -> Answer]
  /\ calls \in 0 .. MaxCalls
  /\ faults \in 0 .. MaxFaults

Init ==
  /\ age = [d \in Document |-> 0]
  /\ ttl = [d \in Document |-> 0]
  /\ updated = NoRow
  /\ slots = 0
  /\ pc = [t \in Thread |-> "idle"]
  /\ task = [t \in Thread |-> [do |-> "push", action |-> "SEARCH"]]
  /\ todo = [t \in Thread |-> <<>>]
  /\ ticked = {}
  /\ repaired = {}
  /\ seen = [t \in Thread |-> "none"]
  /\ oldest = [t \in Thread |-> 0]
  /\ result = [t \in Thread |-> "none"]
  /\ calls = 0
  /\ faults = 0

Fault == faults < MaxFaults /\ faults' = faults + 1
GoTo(t, place) == pc' = [pc EXCEPT ![t] = place] /\ UNCHANGED result
Return(t, answer) == pc' = [pc EXCEPT ![t] = "idle"] /\ result' = [result EXCEPT ![t] = answer]

-----------------------------------------------------------------------------
(* Requests.                                                                *)

(* Mutant: a route is indexed before its content is there. *)
WritesIndexFirst(action) ==
  IF action = "BUSMAP" THEN <<"busmap">>
  ELSE IF action = "SEARCH" THEN <<"route", "trip", "stage">>
  ELSE <<"route", "trip", "stage", "busmap">>

(* What storeEntry and storeSearchBusMapEntries write for an entry, in order. *)
Writes(action) ==
  IF action = "BUSMAP" THEN <<"busmap">>
  ELSE IF action = "SEARCH" THEN <<"trip", "stage", "route">>
  ELSE <<"trip", "stage", "route", "busmap">>

Begin(t, k) ==
  /\ pc[t] = "idle"
  /\ calls < MaxCalls
  /\ calls' = calls + 1
  /\ task' = [task EXCEPT ![t] = k]
  /\ todo' = [todo EXCEPT ![t] = IF k.do = "push" THEN Writes(k.action) ELSE <<>>]
  /\ pc' = [pc EXCEPT ![t] = IF k.do = "push" THEN "store"
                             ELSE IF k.do = "live read" THEN "slot" ELSE "lookup"]
  /\ ticked' = ticked \ {t}
  /\ repaired' = repaired \ {t}
  /\ seen' = [seen EXCEPT ![t] = "none"]
  /\ oldest' = [oldest EXCEPT ![t] = 0]
  /\ result' = [result EXCEPT ![t] = "none"]
  /\ UNCHANGED <<cache, slots, faults>>

(* Verify returned: a live read answers, a refreshing one reads on.         *)
VerifyReturns(t, ok) ==
  IF task[t].do = "live read" THEN Return(t, IF ok THEN "live" ELSE "refused")
  ELSE GoTo(t, IF ok THEN "again" ELSE "stage")

(* Store returned to ReceiveTripDetails or to Verify, which after a BUSMAP   *)
(* repair, successful or not, refreshes the search documents too.            *)
StoreReturns(t, ok) ==
  /\ todo' = [todo EXCEPT ![t] = <<>>]
  /\ repaired' = IF ok /\ pc[t] = "repair" THEN repaired \union {t} ELSE repaired
  /\ \/ pc[t] = "store" /\ Return(t, IF ok THEN "stored" ELSE "error")
     \/ pc[t] = "repair" /\ task[t].action = "BUSMAP" /\ GoTo(t, "companion")
     \/ pc[t] = "repair" /\ task[t].action # "BUSMAP" /\ VerifyReturns(t, TRUE)
     \/ pc[t] = "companion repair" /\ VerifyReturns(t, TRUE)

Write(k) ==
  IF k = "route"
  THEN updated' = 0 /\ UNCHANGED <<age, ttl>>
  ELSE /\ age' = [age EXCEPT ![k] = 0]
       /\ ttl' = [ttl EXCEPT ![k] = Retention[k]]
       /\ UNCHANGED updated

(* One write of Store.  An error ends it and undoes nothing.                *)
Store(t) ==
  /\ pc[t] \in {"store", "repair", "companion repair"}
  /\ \/ /\ Write(Head(todo[t]))
        /\ \/ /\ Tail(todo[t]) # <<>>
              /\ todo' = [todo EXCEPT ![t] = Tail(@)]
              /\ UNCHANGED <<pc, repaired, result>>
           \/ Tail(todo[t]) = <<>> /\ StoreReturns(t, TRUE)
        /\ UNCHANGED faults
     \/ /\ Fault
        /\ Write(Head(todo[t])) \/ UNCHANGED cache
        /\ StoreReturns(t, FALSE)
  /\ UNCHANGED <<slots, task, ticked, seen, oldest, calls>>

-----------------------------------------------------------------------------
(* Reads of the cache: Search and BusMap.                                   *)

(* The tier of this trip's own row. *)
Tier == IF updated <= ColdAfter THEN "fresh" ELSE "cold"

(* FindStagesByRoute, and refreshIfCold.  A cold entry is served as it is    *)
(* without credentials, when the operator's zone cannot be found, and when   *)
(* another trip of the route, whose newest row decides, is not cold.         *)
Lookup(t) ==
  /\ pc[t] = "lookup"
  /\ \/ updated = NoRow /\ Return(t, "not found") /\ UNCHANGED <<seen, faults>>
     \/ /\ updated # NoRow
        /\ seen' = [seen EXCEPT ![t] = Tier]
        /\ \/ Tier = "cold" /\ task[t].do = "refreshing read" /\ GoTo(t, "slot")
           \/ GoTo(t, "stage")
        /\ UNCHANGED faults
     \/ Fault /\ Return(t, "error") /\ UNCHANGED seen
  /\ UNCHANGED <<cache, slots, task, todo, ticked, repaired, oldest, calls>>

(* The metadata is read again after a refresh; if that fails, or finds       *)
(* nothing, the old rows do.                                                 *)
LookupAgain(t) ==
  /\ pc[t] = "again"
  /\ GoTo(t, "stage")
  /\ \/ seen' = [seen EXCEPT ![t] = IF updated = NoRow THEN @ ELSE Tier] /\ UNCHANGED faults
     \/ Fault /\ UNCHANGED seen
  /\ UNCHANGED <<cache, slots, task, todo, ticked, repaired, oldest, calls>>

(* Mutant: every read renews what it found. *)
ReadRenewing(t, d, step) ==
  /\ pc[t] = d
  /\ \/ ttl[d] = 0 /\ Return(t, "not found") /\ UNCHANGED <<ttl, oldest, faults>>
     \/ /\ ttl[d] > 0
        /\ oldest' = [oldest EXCEPT ![t] = IF age[d] > @ THEN age[d] ELSE @]
        /\ ttl' = [ttl EXCEPT ![d] = Retention[d]]
        /\ step
        /\ UNCHANGED faults
     \/ Fault /\ Return(t, "error") /\ UNCHANGED <<ttl, oldest>>
  /\ UNCHANGED <<age, updated, slots, task, todo, ticked, repaired, seen, calls>>

(* A document is read; Search documents are given their retention again, if  *)
(* Dragonfly lets them.                                                      *)
Read(t, d, step) ==
  /\ pc[t] = d
  /\ \/ ttl[d] = 0 /\ Return(t, "not found") /\ UNCHANGED <<ttl, oldest, faults>>
     \/ /\ ttl[d] > 0
        /\ oldest' = [oldest EXCEPT ![t] = IF age[d] > @ THEN age[d] ELSE @]
        /\ \/ UNCHANGED ttl
           \/ d # "busmap" /\ ttl' = [ttl EXCEPT ![d] = Retention[d]]
        /\ step
        /\ UNCHANGED faults
     \/ Fault /\ Return(t, "error") /\ UNCHANGED <<ttl, oldest>>
  /\ UNCHANGED <<age, updated, slots, task, todo, ticked, repaired, seen, calls>>

ReadStage(t)  == Read(t, "stage", GoTo(t, IF task[t].action = "SEARCH" THEN "trip" ELSE "busmap"))
ReadTrip(t)   == Read(t, "trip", Return(t, "served"))
ReadBusMap(t) == Read(t, "busmap", Return(t, "served"))

-----------------------------------------------------------------------------
(* Verify.                                                                  *)

AcquireSlot(t) ==
  /\ pc[t] = "slot"
  /\ \/ slots < MaxSlots /\ slots' = slots + 1 /\ GoTo(t, "limit")
     \/ slots = MaxSlots /\ VerifyReturns(t, FALSE) /\ UNCHANGED slots
  /\ UNCHANGED <<cache, task, todo, ticked, repaired, seen, oldest, calls, faults>>

(* Mutant: a request over the zone's quota keeps its slot. *)
RateLimitKeepingSlot(t) ==
  /\ pc[t] = "limit"
  /\ GoTo(t, "fetch") \/ VerifyReturns(t, FALSE)
  /\ UNCHANGED <<cache, slots, task, todo, ticked, repaired, seen, oldest, calls, faults>>

(* The zone's quota, which ZoneRateLimit models. *)
RateLimit(t) ==
  /\ pc[t] = "limit"
  /\ \/ GoTo(t, "fetch") /\ UNCHANGED slots
     \/ VerifyReturns(t, FALSE) /\ slots' = slots - 1
  /\ UNCHANGED <<cache, task, todo, ticked, repaired, seen, oldest, calls, faults>>

(* BITS answers, or is unavailable or rejects the lookup.                   *)
Fetch(t) ==
  /\ pc[t] = "fetch"
  /\ \/ GoTo(t, "compare") /\ UNCHANGED slots
     \/ VerifyReturns(t, FALSE) /\ slots' = slots - 1
  /\ UNCHANGED <<cache, task, todo, ticked, repaired, seen, oldest, calls, faults>>

(* Mutant: a live seat map is stored the way a Worker's is. *)
RepairWritesOwnAction(action) == Writes(action)

(* repairCache stores a live BUSMAP as a combined entry.                    *)
RepairWrites(action) == Writes(IF action = "BUSMAP" THEN "SEARCHBUSMAP" ELSE action)

(* What reading the cached copy renews. *)
CachedCopy(t) ==
  IF updated = NoRow \/ ttl["stage"] = 0 THEN {}
  ELSE IF task[t].action = "SEARCH" THEN {"stage", "trip"} ELSE {"stage"}

(* The cached copy is read, which renews it like any read, and compared.     *)
(* The slot is given back; then the cache is repaired, unless the live copy  *)
(* is empty (a BUSMAP still has its search refreshed) or lacks this trip, or *)
(* the cached copy could not be read.                                        *)
Compare(t) ==
  /\ pc[t] = "compare"
  /\ slots' = slots - 1
  /\ \E renewed \in SUBSET CachedCopy(t) :
       ttl' = [d \in Document |-> IF d \in renewed /\ ttl[d] > 0 THEN Retention[d] ELSE ttl[d]]
  /\ \/ GoTo(t, "repair") /\ todo' = [todo EXCEPT ![t] = RepairWrites(task[t].action)]
     \/ task[t].action = "BUSMAP" /\ GoTo(t, "companion") /\ UNCHANGED todo
     \/ VerifyReturns(t, TRUE) /\ UNCHANGED todo
  /\ UNCHANGED <<age, updated, task, ticked, repaired, seen, oldest, calls, faults>>

(* refreshSearchCacheForBusMap: best effort, outside the slot.              *)
Companion(t) ==
  /\ pc[t] = "companion"
  /\ \/ GoTo(t, "companion repair") /\ todo' = [todo EXCEPT ![t] = Writes("SEARCH")]
     \/ VerifyReturns(t, TRUE) /\ UNCHANGED todo
  /\ UNCHANGED <<cache, slots, task, ticked, repaired, seen, oldest, calls, faults>>

Verify(t) == AcquireSlot(t) \/ RateLimit(t) \/ Fetch(t) \/ Compare(t) \/ Companion(t)

-----------------------------------------------------------------------------
Older(a) == IF a < OldAge THEN a + 1 ELSE a

(* Time passes: hours, where a request takes seconds, so that no request     *)
(* runs through two ticks.                                                   *)
Tick ==
  /\ \A t \in ticked : pc[t] = "idle"
  /\ ticked' = {t \in Thread : pc[t] # "idle"}
  /\ ttl' = [d \in Document |-> IF ttl[d] > 0 THEN ttl[d] - 1 ELSE 0]
  /\ age' = [d \in Document |-> IF ttl[d] > 1 THEN Older(age[d]) ELSE 0]
  /\ updated' = IF updated = NoRow THEN NoRow ELSE Older(updated)
  /\ UNCHANGED <<slots, pc, local, calls, faults>>

Next ==
  \/ \E t \in Thread :
       \/ \E k \in Task : Begin(t, k)
       \/ Store(t) \/ Lookup(t) \/ LookupAgain(t)
       \/ ReadStage(t) \/ ReadTrip(t) \/ ReadBusMap(t) \/ Verify(t)
  \/ Tick

Spec == Init /\ [][Next]_vars

-----------------------------------------------------------------------------
(* Every path through Verify gives its slot back, once: the slots in use are *)
(* those of the requests that call BITS.  A leaked slot would end live reads *)
(* for ever, one too many would unbound them.                                *)
Verifying  == {t \in Thread : pc[t] \in {"limit", "fetch", "compare"}}
SlotsInUse == slots = Cardinality(Verifying)

(* A Search that saw a trip's metadata, not cold, is served the trip, and    *)
(* from content no older than the metadata said but for a request's time     *)
(* (tripdetails_cache_storage.go:16-19, :35-37): however writes interleave   *)
(* or fail, content goes in before its metadata and outlives it.             *)
TrustedSearchIsServed ==
  \A t \in Thread : task[t].action = "SEARCH" /\ seen[t] = "fresh" =>
    result[t] # "not found" /\ oldest[t] <= ColdAfter + 2

(* A read that repaired the cache is served what the repair stored, or newer *)
(* (cold_cache_refresher.go:15): the repair writes everything its read path  *)
(* needs.                                                                    *)
RepairIsServed ==
  \A t \in repaired : task[t].do = "refreshing read" =>
    result[t] # "not found" /\ oldest[t] <= 1

(* A seat map is gone when its retention is over: no read, comparison or      *)
(* write of another document keeps it, however often the metadata of its     *)
(* route is stamped anew (tripdetails_cache_storage.go:30).  A BUSMAP read   *)
(* may be served one as old as that, but no older.                           *)
SeatMapExpires == ttl["busmap"] > 0 => age["busmap"] + ttl["busmap"] <= WarmTTL

-----------------------------------------------------------------------------
(* The inductive invariant behind these.                                    *)

(* Written within the request of t, respectively within the time its        *)
(* metadata is trusted.                                                     *)
Slack(t) == IF t \in ticked THEN 1 ELSE 0
Recent(t, d)  == ttl[d] > 0 /\ age[d] <= Slack(t)
Trusted(t, d) == ttl[d] > 0 /\ age[d] <= ColdAfter + 1 + Slack(t)

KeptForRetention == \A d \in Document : ttl[d] > 0 => age[d] = OldAge \/ age[d] + ttl[d] >= Retention[d]

(* Metadata is never much younger than the content it points to. *)
MetadataBacked ==
  updated # NoRow =>
    \A d \in {"trip", "stage"} : (ttl[d] > 0 /\ age[d] <= updated + 1) \/ updated + 1 >= HotTTL

Storing == {"store", "repair", "companion repair"}
StoredAction(t) ==
  IF pc[t] = "store" THEN task[t].action
  ELSE IF pc[t] = "repair" /\ task[t].action = "BUSMAP" THEN "SEARCHBUSMAP" ELSE "SEARCH"
Remaining(action) ==
  IF action = "BUSMAP" THEN {<<"busmap">>}
  ELSE IF action = "SEARCH"
       THEN {<<"trip", "stage", "route">>, <<"stage", "route">>, <<"route">>}
       ELSE {<<"trip", "stage", "route", "busmap">>, <<"stage", "route", "busmap">>,
             <<"route", "busmap">>, <<"busmap">>}

InOrder(t) ==
  /\ pc[t] \in Storing => todo[t] \in Remaining(StoredAction(t))
  /\ task[t].do = "push" => pc[t] \in {"idle", "store"}
  /\ pc[t] = "store" => task[t].do = "push"
  /\ pc[t] = "trip" => task[t].action = "SEARCH"
  /\ pc[t] = "busmap" => task[t].action = "BUSMAP"
  /\ pc[t] \in {"companion", "companion repair"} => task[t].action = "BUSMAP"
  /\ pc[t] \notin {"trip", "busmap", "idle"} => oldest[t] = 0
  /\ pc[t] # "idle" => result[t] = "none"

WrittenSoFar(t) ==
  pc[t] \in Storing =>
    /\ Head(todo[t]) = "stage" => Recent(t, "trip")
    /\ Head(todo[t]) = "route" \/ (Head(todo[t]) = "busmap" /\ pc[t] = "repair")
         => Recent(t, "trip") /\ Recent(t, "stage")

ReadsTrusted(t) ==
  task[t].action = "SEARCH" /\ seen[t] = "fresh" =>
    /\ pc[t] \in {"idle", "stage", "trip"}
    /\ pc[t] = "stage" => Trusted(t, "stage")
    /\ pc[t] \in {"stage", "trip"} => Trusted(t, "trip")
    /\ result[t] # "not found" /\ oldest[t] <= ColdAfter + 2

(* All that the request of t is served from is recent. *)
Repaired(t) == /\ Recent(t, "stage")
               /\ task[t].action = "SEARCH" => Recent(t, "trip")
               /\ task[t].action = "BUSMAP" => Recent(t, "busmap")

ReadsRepaired(t) ==
  t \in repaired =>
    /\ pc[t] \in {"idle", "companion", "companion repair", "again", "stage", "trip", "busmap"}
    /\ pc[t] # "idle" => Repaired(t)
    /\ result[t] # "not found" /\ oldest[t] <= 1

ThreadInv(t) == InOrder(t) /\ WrittenSoFar(t) /\ ReadsTrusted(t) /\ ReadsRepaired(t)

IInv ==
  /\ TypeOK /\ SlotsInUse /\ KeptForRetention /\ MetadataBacked
  /\ \A t \in Thread : ThreadInv(t)

=============================================================================
