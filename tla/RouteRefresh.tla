---------------------------- MODULE RouteRefresh ----------------------------
(***************************************************************************)
(* The periodic route refresh next to the inventory requests: a ticker lists *)
(* the routes whose metadata is stale, asks Orbit which of them still exist, *)
(* and queues one job per route and metadata version, unless the row of that *)
(* job says QUEUED or COMPLETED.  Its jobs share the publisher, the rows and *)
(* the Workers with JobLifecycle; a stored result re-stamps its route, which *)
(* makes the next version.                                                   *)
(***************************************************************************)
EXTENDS JobLifecycle

CONSTANTS Scheduler,  \* the caller of the publisher that runs the refresh
          Route,      \* (operator, date, from, to) with metadata
          Operator,   \* operators: sets of routes
          Listed,     \* routes of active operators, in the date window, known to Orbit
          MaxStamp    \* bound: updates of a route's metadata

(* periodicRouteReferenceID: one job for each version of a route's metadata. *)
PeriodicJob == [route : Route, version : 0 .. MaxStamp]

ASSUME RefreshAssumption ==
  /\ Scheduler \in Caller
  /\ PeriodicJob \subseteq Job
  /\ \A i \in Items : i.ref \notin PeriodicJob /\ i.route \in Route
  /\ Listed \subseteq Route
  /\ \A r \in Route : \E o \in Operator : r \in o
  /\ MaxStamp \in Nat

VARIABLES
  step,        \* where Run is; "idle" between two runs
  candidates,  \* jobs of stale future routes whose operator is still to come
  pending,     \* jobs of the current operator's routes that Orbit lists
  current,     \* the job publishRoute works on
  stamp,       \* stamp[r]: version of r's newest route metadata row
  stale        \* routes whose newest row is older than StaleDuration

progress    == <<step, candidates, pending, current>>
metadata    == <<stamp, stale>>
refreshVars == <<allVars, progress, metadata>>

RefreshInit ==
  /\ LifecycleInit
  /\ step = "idle" /\ candidates = {} /\ pending = {} /\ current = NoJob
  /\ stamp = [r \in Route |-> 0]
  /\ stale = {}

-----------------------------------------------------------------------------
(* Run.  The ticker's goroutine calls it, so a tick that falls into a run is *)
(* dropped, and nothing ever finds the mutex taken.                          *)

(* The next route, the next operator, or the end of the run. *)
Continue(rest, others) ==
  /\ pending' = rest /\ candidates' = others /\ current' = NoJob
  /\ step' = IF rest # {} THEN "find" ELSE IF others # {} THEN "fetch" ELSE "idle"

(* The first error ends the run for all routes. *)
Abort == Continue({}, {})

RouteOf(j) == IF j \in PeriodicJob THEN j.route ELSE (CHOOSE i \in Items : i.ref = j).route

(* The date of a route is over once a Worker has discarded a job of it.      *)
Over(r) == \E j \in discarded : RouteOf(j) = r

(* A route outside Listed, or one whose date may be over, may or may not be  *)
(* one of an active operator in the date window.                             *)
Due == {r \in stale \intersect Listed : ~Over(r)}

futureRoutePairs(others) ==
  {[route |-> r, version |-> stamp[r]] : r \in Due \union others}

(* A run that fails to list operators or metadata ends without a trace.      *)
ListStale ==
  /\ step = "idle"
  /\ \E others \in SUBSET (stale \ Due) :
       Continue({}, futureRoutePairs(others))
  /\ UNCHANGED <<allVars, metadata>>

(* orbitRoutePriority keeps the routes that Orbit lists. *)
InOrbitRoutes(routes, others) == {j \in routes : j.route \in Listed} \union others

(* One operator's routes. *)
FetchOrbitRoutes ==
  /\ step = "fetch"
  /\ \/ \E o \in Operator :
          LET routes == {j \in candidates : j.route \in o} IN
          /\ routes # {}
          /\ \E others \in SUBSET {j \in routes : j.route \notin Listed} :
               Continue(InOrbitRoutes(routes, others), candidates \ routes)
          /\ UNCHANGED faults
     \/ Fault /\ Abort
  /\ UNCHANGED <<vars, handler, worker, master, row, metadata>>

(* Mutant: any row there is already keeps the job from being queued. *)
SkippedWhenFound(j) == row[j] # "none"

(* Mutant: only a completed job is not queued again. *)
SkippedWhenCompleted(j) == row[j] = "COMPLETED"

Skipped(j) == row[j] \in {"QUEUED", "COMPLETED"}

FindByReferenceID ==
  /\ step = "find"
  /\ \E j \in pending :
       \/ /\ Skipped(j)
          /\ Continue(pending \ {j}, candidates)
          /\ UNCHANGED faults
       \/ /\ ~Skipped(j)
          /\ current' = j
          /\ step' = "save"
          /\ pending' = pending \ {j}
          /\ UNCHANGED <<candidates, faults>>
       \/ Fault /\ Abort
  /\ UNCHANGED <<vars, handler, worker, master, row, metadata>>

(* Every call of a run has a background context: nothing cancels it. *)
SaveAndPublish ==
  /\ step = "save"
  /\ \/ /\ Write(current, "RECEIVED", TRUE, FALSE)
        /\ Publish(Scheduler, current)
        /\ step' = "publish"
        /\ UNCHANGED <<candidates, pending, current, gone, calls>>
     \/ /\ Write(current, "RECEIVED", FALSE, FALSE)
        /\ Abort
        /\ UNCHANGED vars
  /\ UNCHANGED <<handler, worker, master, metadata>>

PublishReturns ==
  /\ step = "publish"
  /\ Collect(Scheduler)
  /\ step' = IF stage[Scheduler] = "ok" THEN "mark" ELSE "dead"
  /\ UNCHANGED <<candidates, pending, current, gone, calls, handler, worker, master, row, faults, metadata>>

MarkPeriodicQueued ==
  /\ step = "mark"
  /\ \/ Write(current, "QUEUED", TRUE, FALSE) /\ Continue(pending, candidates)
     \/ Write(current, "QUEUED", FALSE, FALSE) /\ Abort
  /\ UNCHANGED <<vars, handler, worker, master, metadata>>

MarkPeriodicDead ==
  /\ step = "dead"
  /\ \E ok \in BOOLEAN : Write(current, "DEAD", ok, FALSE)
  /\ Abort
  /\ UNCHANGED <<vars, handler, worker, master, metadata>>

Run == \/ ListStale \/ FetchOrbitRoutes \/ FindByReferenceID \/ SaveAndPublish
       \/ PublishReturns \/ MarkPeriodicQueued \/ MarkPeriodicDead

-----------------------------------------------------------------------------
(* The rest of the system.                                                   *)

Stamped(r) == /\ stamp' = [stamp EXCEPT ![r] = IF @ < MaxStamp THEN @ + 1 ELSE @]
              /\ stale' = stale \ {r}

(* Mutant: metadata that cannot be written is only logged. *)
StoreRouteContent(x) ==
  /\ Store(x)
  /\ \/ Stamped(RouteOf(call[x].job))
     \/ UNCHANGED metadata
  /\ UNCHANGED progress

(* A stored result updates the metadata of its route; one that could not be  *)
(* stored may have.                                                          *)
StoreRoute(x) ==
  /\ Store(x)
  /\ \/ Stamped(RouteOf(call[x].job))
     \/ call'[x].step = "fail" /\ UNCHANGED metadata
  /\ UNCHANGED progress

(* StaleDuration passes without an update of the route. *)
GrowStale(r) ==
  /\ r \notin stale
  /\ stamp[r] < MaxStamp
  /\ stale' = stale \union {r}
  /\ UNCHANGED <<allVars, progress, stamp>>

(* The repair of a live read updates the route. *)
RepairRoute(r) ==
  /\ stamp[r] < MaxStamp
  /\ Stamped(r)
  /\ UNCHANGED <<allVars, progress>>

RestartMaster == Restart /\ Abort /\ UNCHANGED metadata

Elsewhere(action) == action /\ UNCHANGED <<progress, metadata>>

RefreshNext ==
  \/ Run
  \/ Elsewhere(Publishing(Work(Scheduler)))
  \/ \E h \in Caller \ {Scheduler} : Elsewhere(Request(h))
  \/ \E s \in Slot : Elsewhere(Process(s))
  \/ \E x \in Exec : StoreRoute(x) \/ Elsewhere(Reply(x))
  \/ Elsewhere(Publishing(Environment))
  \/ \E r \in Route : GrowStale(r) \/ RepairRoute(r)
  \/ RestartMaster

RefreshSpec == RefreshInit /\ [][RefreshNext]_refreshVars

(* The ticker ticks; goroutines run; calls end because their clients have    *)
(* timeouts; the broker delivers what it has to an idle Worker.              *)
RefreshFairness ==
  /\ WF_refreshVars(Run)
  /\ WF_refreshVars(Elsewhere(Publishing(BrokerStores)))
  /\ \A c \in Caller : /\ WF_refreshVars(Elsewhere(Publishing(Work(c))))
                        /\ SF_refreshVars(Elsewhere(Publishing(Lock(c))))
  /\ \A h \in Caller \ {Scheduler} : WF_refreshVars(Elsewhere(Handler(h)))
  /\ \A s \in Slot : WF_refreshVars(Elsewhere(Process(s)))
  /\ \A x \in Exec : WF_refreshVars(StoreRoute(x) \/ Elsewhere(Reply(x)))

RefreshFairSpec == RefreshSpec /\ RefreshFairness

-----------------------------------------------------------------------------
(* README.md:104, "preventing re-publication of QUEUED or COMPLETED jobs for *)
(* the same metadata version": unless a call or the broker failed, a job is  *)
(* on the broker once, however many runs find its route stale and however    *)
(* its results and its marks interleave.                                     *)
NoRepublication ==
  faults = 0 /\ breaks = 0 => \A j \in PeriodicJob : taken[j] <= 1

(* The row that keeps a job from being queued again is never that of the     *)
(* route's present version: a COMPLETED job has updated the metadata it was  *)
(* made for, so the next staleness makes a job of its own (README.md:104,    *)
(* "allowing a newly updated route to become eligible again").               *)
CompletedIsOutdated ==
  \A j \in PeriodicJob : row[j] = "COMPLETED" => stamp[j.route] > j.version

(* No failure of the broker blocks a route: a stale route that Orbit lists   *)
(* is updated before its date is over, unless another call failed or a       *)
(* cancelled request confused the confirmations (orbit_route_refresh.go:260). *)
ListedIsRefreshed ==
  \A r \in Listed : r \in stale ~> r \notin stale \/ Over(r) \/ faults > 0 \/ cancels > 0

=============================================================================
