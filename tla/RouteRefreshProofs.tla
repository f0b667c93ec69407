------------------------- MODULE RouteRefreshProofs -------------------------
(***************************************************************************)
(* Proofs about RouteRefresh: with the scheduler next to the inventory       *)
(* requests a COMPLETED row still means a stored result and the pipeline     *)
(* keeps its contract, and a COMPLETED row is never that of its route's      *)
(* present version, for any routes, operators, requests and faults.          *)
(***************************************************************************)
EXTENDS RouteRefresh, JobLifecycleProofs, FiniteSetTheorems

-----------------------------------------------------------------------------
(* The scheduler is one more quiet client of the rows.                       *)

LEMMA RunQuiet == ASSUME RowTypeOK, Run PROVE RowTypeOK' /\ Quiet
<1>1. CASE SaveAndPublish
  BY <1>1, QuietWrites DEF SaveAndPublish, Status
<1>2. CASE MarkPeriodicQueued
  BY <1>2, QuietWrites DEF MarkPeriodicQueued, Status
<1>3. CASE MarkPeriodicDead
  BY <1>3, QuietWrites DEF MarkPeriodicDead, Status
<1>4. CASE ListStale \/ FetchOrbitRoutes \/ FindByReferenceID \/ PublishReturns
  BY <1>4 DEF ListStale, FetchOrbitRoutes, FindByReferenceID, PublishReturns,
              allVars, RowTypeOK, Quiet
<1> QED
  BY <1>1, <1>2, <1>3, <1>4 DEF Run

(* Every step of RouteRefresh is quiet or one of JobLifecycle.               *)
LEMMA RefreshIsQuietOrNext ==
  ASSUME RowTypeOK, [RefreshNext]_refreshVars
  PROVE  (RowTypeOK' /\ Quiet) \/ [LifecycleNext]_allVars
<1>1. CASE Run
  BY <1>1, RunQuiet
<1>2. CASE Elsewhere(Publishing(Work(Scheduler)))
  BY <1>2 DEF Elsewhere, Publishing, RowTypeOK, Quiet
<1>3. CASE \E h \in Caller \ {Scheduler} : Elsewhere(Request(h))
  BY <1>3 DEF Elsewhere, LifecycleNext
<1>4. CASE \/ \E s \in Slot : Elsewhere(Process(s))
           \/ \E x \in Exec : StoreRoute(x) \/ Elsewhere(Reply(x))
           \/ Elsewhere(Publishing(Environment))
           \/ RestartMaster
  BY <1>4 DEF Elsewhere, StoreRoute, RestartMaster, LifecycleNext
<1>5. CASE (\E r \in Route : GrowStale(r) \/ RepairRoute(r)) \/ UNCHANGED refreshVars
  BY <1>5 DEF GrowStale, RepairRoute, refreshVars
<1> QED
  BY <1>1, <1>2, <1>3, <1>4, <1>5 DEF RefreshNext

LEMMA RefreshStepLInv == LInv /\ [RefreshNext]_refreshVars => LInv'
  BY RefreshIsQuietOrNext, StepLInv, QuietStep DEF LInv

LEMMA SpecRefreshLInv == RefreshSpec => []LInv
<1>1. RefreshInit => LInv
  BY InitLInv DEF RefreshInit
<1> QED
  BY <1>1, RefreshStepLInv, PTL DEF RefreshSpec

(* A COMPLETED row is that of a stored result, also for periodic jobs, which *)
(* are queued again under the same ID after a failure.                       *)
THEOREM RefreshCompletedStored == RefreshSpec => []CompletedIsStored
  BY SpecRefreshLInv, PTL DEF LInv, OInv

(* The pipeline keeps the delivery contract with the scheduler as its        *)
(* second source of jobs.                                                    *)
THEOREM RefreshKeepsContract == RefreshSpec => KeepsContract
<1>1. RefreshInit => Contract!Init
  BY DEF RefreshInit, LifecycleInit, Contract!Init, JobsWith
<1>2. LInv /\ [RefreshNext]_refreshVars => [Contract!Next]_Contract!vars
  <2> SUFFICES ASSUME LInv, [RefreshNext]_refreshVars PROVE [Contract!Next]_Contract!vars
    OBVIOUS
  <2>1. CASE Quiet
    BY <2>1, ContractStutters DEF Quiet, worker, master
  <2> QED
    BY <2>1, RefreshIsQuietOrNext, StepRefines DEF LInv
<1> QED
  BY <1>1, <1>2, SpecRefreshLInv, PTL DEF RefreshSpec, KeepsContract, Contract!Spec

-----------------------------------------------------------------------------
(* CompletedIsOutdated.  No job is of a version its route has not reached.    *)

(* A job the scheduler made while the stamps were st: its version was the    *)
(* present one, or an earlier one, and its route was stale then.             *)
Made(j, st) == j \in PeriodicJob => j.version <= st[j.route] /\ j.version < MaxStamp

Outdated(j, st) == j \in PeriodicJob => st[j.route] > j.version

StampSet == [Route -> 0 .. MaxStamp]

Stamps == /\ stamp \in StampSet
          /\ stale \subseteq {r \in Route : stamp[r] < MaxStamp}

ScheduledMade == /\ candidates \subseteq PeriodicJob /\ pending \subseteq PeriodicJob
                 /\ current \in PeriodicJob \union {NoJob}
                 /\ step \in {"save", "publish", "mark", "dead"} => current \in PeriodicJob
                 /\ \A j \in candidates \union pending \union {current} : Made(j, stamp)

PublishedMade == \A j \in PublishedJobs : Made(j, stamp)

WorkedMade == \A s \in Slot : work[s] # Idle => Made(work[s].job, stamp)

CalledMade == \A x \in Exec : call[x] \in CallState =>
                /\ Made(call[x].job, stamp)
                /\ call[x].step = "complete" => Outdated(call[x].job, stamp)

VInv == /\ LInv /\ PInv /\ Stamps /\ ScheduledMade /\ PublishedMade
        /\ WorkedMade /\ CalledMade /\ RequestsOwnItems /\ CompletedIsOutdated

(* Stamps only grow, which keeps every job made, and outdated.               *)
Grows(st, st2) == \A r \in Route : st2[r] >= st[r]

LEMMA GrowsKeeps ==
  ASSUME NEW st \in StampSet, NEW st2 \in StampSet, Grows(st, st2), NEW j
  PROVE  (Made(j, st) => Made(j, st2)) /\ (Outdated(j, st) => Outdated(j, st2))
<1> SUFFICES ASSUME j \in PeriodicJob
             PROVE  (Made(j, st) => Made(j, st2)) /\ (Outdated(j, st) => Outdated(j, st2))
  BY DEF Made, Outdated
<1>1. j.route \in Route /\ j.version \in Int
  BY RefreshAssumption DEF PeriodicJob
<1>2. st[j.route] \in Int /\ st2[j.route] \in Int /\ st2[j.route] >= st[j.route]
  BY <1>1, RefreshAssumption DEF StampSet, Grows
<1> QED
  BY <1>1, <1>2 DEF Made, Outdated

LEMMA NotPeriodic ==
  ASSUME NEW j, j \notin PeriodicJob, NEW st PROVE Made(j, st) /\ Outdated(j, st)
  BY DEF Made, Outdated

LEMMA NoJobMade == NoJob \notin PeriodicJob /\ \A st : Made(NoJob, st)
  BY NotPeriodic, RefreshAssumption, PublisherAssumption

LEMMA ItemsMade == \A i \in Items : i.ref \in Job /\ \A st : Made(i.ref, st)
  BY NotPeriodic, RefreshAssumption, LifecycleAssumption

-----------------------------------------------------------------------------
(* The parts of the invariant, while versions stand still.                   *)

(* A step of the publisher carries on jobs that were published before.       *)
LEMMA PublisherMade ==
  ASSUME PInv, PublishedMade, stamp' = stamp, UNCHANGED <<gone, calls>>,
         \/ \E c \in Caller : Work(c) \/ Collect(c)
         \/ Environment
  PROVE  PInv' /\ PublishedMade'
<1>1. PInv'
  BY CallerStep, EnvironmentStep
<1>2. PublishedJobs' \subseteq PublishedJobs
  BY PublisherAdds
<1> QED
  BY <1>1, <1>2 DEF PublishedMade

(* A new publication is of a job that was made. *)
LEMMA PublishMade ==
  ASSUME PInv, PublishedMade, stamp' = stamp, UNCHANGED <<gone, calls>>,
         NEW c \in Caller, NEW j \in Job, Publish(c, j), Made(j, stamp)
  PROVE  PInv' /\ PublishedMade'
<1>1. PInv'
  BY PublishStep DEF PInv, TypeOK
<1>2. PublishedJobs' \subseteq PublishedJobs \union {j}
  BY PublishAdds
<1> QED
  BY <1>1, <1>2 DEF PublishedMade

LEMMA PublisherRests ==
  ASSUME PInv, PublishedMade, stamp' = stamp, UNCHANGED vars PROVE PInv' /\ PublishedMade'
<1>1. PInv'
  BY NextInv
<1>2. PublishedJobs' = PublishedJobs
  BY DEF PublishedJobs, vars, publisher, client, link
<1> QED
  BY <1>1, <1>2 DEF PublishedMade

(* A goroutine keeps its job, rests, or takes one that was made.             *)
LEMMA WorkedStep ==
  ASSUME WorkedMade, PublishedMade, WorkSource, stamp' = stamp PROVE WorkedMade'
<1>1. \A j \in Job : taken[j] > 0 => Made(j, stamp)
  BY DEF PublishedMade, PublishedJobs
<1> QED
  BY <1>1 DEF WorkedMade, WorkSource

(* No row becomes COMPLETED.                                                 *)
LEMMA QuietOutdated ==
  ASSUME CompletedIsOutdated, Quiet, stamp' = stamp PROVE CompletedIsOutdated'
  BY RefreshAssumption DEF CompletedIsOutdated, Quiet

LEMMA QuietMade ==
  ASSUME Stamps, WorkedMade, CalledMade, CompletedIsOutdated, Quiet, UNCHANGED metadata
  PROVE  Stamps' /\ WorkedMade' /\ CalledMade' /\ CompletedIsOutdated'
  BY QuietOutdated DEF Quiet, Stamps, WorkedMade, CalledMade, worker, master, metadata

-----------------------------------------------------------------------------
(* One lemma for each part of RefreshNext.                                   *)

(* A job is made with the present version of a route that is stale.          *)
LEMMA FutureMade ==
  ASSUME Stamps, NEW others \in SUBSET (stale \ Due)
  PROVE  \A j \in futureRoutePairs(others) : j \in PeriodicJob /\ Made(j, stamp)
<1> SUFFICES ASSUME NEW r \in stale
             PROVE  LET j == [route |-> r, version |-> stamp[r]] IN j \in PeriodicJob /\ Made(j, stamp)
  BY DEF futureRoutePairs, Due
<1>1. r \in Route /\ stamp[r] \in 0 .. MaxStamp /\ stamp[r] < MaxStamp
  BY DEF Stamps, StampSet
<1> QED
  BY <1>1, RefreshAssumption DEF PeriodicJob, Made

LEMMA ContinueMade ==
  ASSUME ScheduledMade, stamp' = stamp, NEW rest, NEW others, Continue(rest, others),
         \A j \in rest \union others : j \in PeriodicJob /\ Made(j, stamp)
  PROVE  ScheduledMade'
  BY NoJobMade DEF ScheduledMade, Continue

LEMMA AbortMade == ASSUME ScheduledMade, stamp' = stamp, Abort PROVE ScheduledMade'
  BY ContinueMade DEF Abort

LEMMA RunScheduled ==
  ASSUME Stamps, ScheduledMade, Run PROVE ScheduledMade'
<1>0. stamp' = stamp
  BY DEF Run, ListStale, FetchOrbitRoutes, FindByReferenceID, SaveAndPublish, PublishReturns,
         MarkPeriodicQueued, MarkPeriodicDead, metadata
<1>1. CASE ListStale
  BY <1>0, <1>1, FutureMade, ContinueMade DEF ListStale
<1>2. CASE FetchOrbitRoutes
  <2>1. CASE Abort
    BY <1>0, <2>1, AbortMade
  <2>2. ASSUME NEW routes \in SUBSET candidates, NEW others \in SUBSET routes,
               Continue(InOrbitRoutes(routes, others), candidates \ routes)
        PROVE  ScheduledMade'
    BY <1>0, <2>2, ContinueMade DEF InOrbitRoutes, ScheduledMade
  <2> QED
    BY <1>2, <2>1, <2>2 DEF FetchOrbitRoutes
<1>3. CASE FindByReferenceID
  <2>1. CASE Abort
    BY <1>0, <2>1, AbortMade
  <2>2. ASSUME NEW j \in pending, Continue(pending \ {j}, candidates) PROVE ScheduledMade'
    BY <1>0, <2>2, ContinueMade DEF ScheduledMade
  <2>3. ASSUME NEW j \in pending, current' = j, pending' = pending \ {j}, candidates' = candidates
        PROVE  ScheduledMade'
    BY <1>0, <2>3 DEF ScheduledMade
  <2> QED
    BY <1>3, <2>1, <2>2, <2>3 DEF FindByReferenceID
<1>4. CASE SaveAndPublish
  <2>1. CASE Abort
    BY <1>0, <2>1, AbortMade
  <2>2. CASE UNCHANGED <<candidates, pending, current>>
    BY <1>0, <1>4, <2>2 DEF SaveAndPublish, ScheduledMade
  <2> QED
    BY <1>4, <2>1, <2>2 DEF SaveAndPublish
<1>5. CASE PublishReturns
  BY <1>0, <1>5 DEF PublishReturns, ScheduledMade
<1>6. CASE MarkPeriodicQueued
  <2>1. Abort \/ Continue(pending, candidates)
    BY <1>6 DEF MarkPeriodicQueued
  <2> QED
    BY <1>0, <2>1, AbortMade, ContinueMade DEF ScheduledMade
<1>7. CASE MarkPeriodicDead
  BY <1>0, <1>7, AbortMade DEF MarkPeriodicDead
<1> QED
  BY <1>1, <1>2, <1>3, <1>4, <1>5, <1>6, <1>7 DEF Run

LEMMA RunPublished ==
  ASSUME PInv, PublishedMade, ScheduledMade, Run, RequestsOwnItems
  PROVE  PInv' /\ PublishedMade' /\ RequestsOwnItems' /\ UNCHANGED metadata
<1>0. UNCHANGED <<metadata, handler>>
  BY DEF Run, ListStale, FetchOrbitRoutes, FindByReferenceID, SaveAndPublish, PublishReturns,
         MarkPeriodicQueued, MarkPeriodicDead, allVars
<1>1. RequestsOwnItems' /\ stamp' = stamp
  BY <1>0 DEF RequestsOwnItems, handler, metadata
<1> SUFFICES PInv' /\ PublishedMade'
  BY <1>0, <1>1
<1>2. CASE UNCHANGED vars
  BY <1>1, <1>2, PublisherRests
<1>3. CASE SaveAndPublish
  <2>1. CASE Publish(Scheduler, current) /\ UNCHANGED <<gone, calls>>
    <3>1. current \in Job /\ Made(current, stamp) /\ Scheduler \in Caller
      BY <1>3, RefreshAssumption DEF SaveAndPublish, ScheduledMade
    <3> QED
      BY <1>1, <2>1, <3>1, PublishMade
  <2> QED
    BY <1>2, <1>3, <2>1 DEF SaveAndPublish
<1>4. CASE PublishReturns
  BY <1>1, <1>4, PublisherMade, RefreshAssumption DEF PublishReturns
<1>5. CASE ListStale \/ FetchOrbitRoutes \/ FindByReferenceID \/ MarkPeriodicQueued \/ MarkPeriodicDead
  <2>1. UNCHANGED vars
    BY <1>5 DEF ListStale, FetchOrbitRoutes, FindByReferenceID, MarkPeriodicQueued, MarkPeriodicDead,
                allVars
  <2> QED
    BY <1>2, <2>1
<1> QED
  BY <1>3, <1>4, <1>5 DEF Run

LEMMA RunVInv == ASSUME VInv, Run PROVE VInv'
<1> USE DEF VInv
<1>1. RowTypeOK' /\ Quiet
  BY RunQuiet DEF LInv
<1>2. LInv'
  BY <1>1, QuietStep DEF LInv
<1> QED
  BY <1>1, <1>2, RunScheduled, RunPublished, QuietMade

(* What a handler publishes is an item, never a periodic job.                *)
LEMMA RequestPublished ==
  ASSUME PInv, PublishedMade, RequestsOwnItems, stamp' = stamp, NEW h \in Caller, Request(h)
  PROVE  PublishedMade'
<1>1. CASE PublishedJobs' \subseteq PublishedJobs
  BY <1>1 DEF PublishedMade
<1>2. CASE UNCHANGED <<job, wire, taken>>
  BY <1>1, <1>2 DEF PublishedJobs
<1>3. CASE SaveReceived(h)
  <2>1. Item(h).ref \in Job /\ Made(Item(h).ref, stamp)
    BY <1>3, QueueingItem, ItemsMade DEF SaveReceived
  <2>2. CASE Publish(h, Item(h).ref)
    <3>1. PublishedJobs' \subseteq PublishedJobs \union {Item(h).ref}
      BY <2>1, <2>2, PublishAdds
    <3> QED
      BY <2>1, <3>1 DEF PublishedMade
  <2> QED
    BY <1>2, <1>3, <2>2 DEF SaveReceived, vars, publisher, client, link
<1>4. CASE AfterPublish(h) \/ Publishing(Work(h))
  BY <1>1, <1>4, PublisherAdds DEF AfterPublish, Publishing
<1>5. CASE RegisterOperator(h) \/ ClaimInFlight(h) \/ MarkQueued(h) \/ MarkDead(h) \/ Disconnect(h)
           \/ \E e \in Event : Receive(h, e)
  BY <1>2, <1>5 DEF RegisterOperator, ClaimInFlight, MarkQueued, MarkDead, Disconnect, Cancel, Receive,
                    vars, publisher, client, link
<1> QED
  BY <1>3, <1>4, <1>5 DEF Request, Handler

LEMMA RequestVInv ==
  ASSUME VInv, NEW h \in Caller, Elsewhere(Request(h))
  PROVE  VInv'
<1> USE DEF VInv
<1>1. UNCHANGED <<progress, metadata>> /\ stamp' = stamp /\ Request(h)
  BY DEF Elsewhere, metadata
<1>2. LInv' /\ Stamps' /\ WorkedMade' /\ CalledMade' /\ CompletedIsOutdated'
  BY <1>1, RequestQuiet, QuietStep, QuietMade DEF LInv
<1>3. ScheduledMade'
  BY <1>1 DEF ScheduledMade, progress
<1>4. PublishedMade'
  BY <1>1, RequestPublished
<1>5. PInv'
  BY <1>1, RequestPublishes DEF LInv
<1>6. RequestsOwnItems'
  <2>1. CASE Handler(h)
    BY <2>1, HandlerItems
  <2>2. CASE Publishing(Work(h)) \/ Disconnect(h)
    BY <2>2 DEF Publishing, Disconnect, RequestsOwnItems, handler
  <2>3. ASSUME NEW e \in Event, Receive(h, e) PROVE RequestsOwnItems'
    <3>1. e \in Seq(Items)
      BY LifecycleAssumption
    <3> QED
      BY <2>3, <3>1, ItemsStep DEF Receive, HandlerStep
  <2> QED
    BY <1>1, <2>1, <2>2, <2>3 DEF Request
<1> QED
  BY <1>2, <1>3, <1>4, <1>5, <1>6

LEMMA ProcessCalled ==
  ASSUME LInv, WorkedMade, CalledMade, stamp' = stamp, NEW s \in Slot, Process(s)
  PROVE  CalledMade'
<1>1. CASE call' = call
  BY <1>1 DEF CalledMade
<1>2. ASSUME NEW x \in Exec, CallMaster(s, x) PROVE CalledMade'
  <2>1. Made(work[s].job, stamp)
    BY <1>2, GoroutineJob DEF CallMaster, WorkedMade
  <2>2. PICK kind \in {"store", "dlq"} : call' = [call EXCEPT ![x] = [step |-> kind, job |-> work[s].job]]
    BY <1>2 DEF CallMaster
  <2>3. \A y \in Exec : call'[y] = IF y = x THEN [step |-> kind, job |-> work[s].job] ELSE call[y]
    BY <2>2 DEF LInv, OInv, CallTypeOK
  <2> QED
    BY <2>1, <2>3 DEF CalledMade
<1> QED
  BY <1>1, <1>2 DEF Process, FailEarly, TimeOut, Acknowledge, TakeCopy, master

LEMMA ProcessVInv ==
  ASSUME VInv, NEW s \in Slot, Elsewhere(Process(s))
  PROVE  VInv'
<1> USE DEF VInv
<1>1. UNCHANGED <<progress, metadata, vars, handler, row>> /\ stamp' = stamp
  BY DEF Elsewhere, metadata, Process, FailEarly, TimeOut, Acknowledge, TakeCopy, CallMaster
<1>2. LInv'
  BY ProcessStep, RowStep DEF Elsewhere, LInv
<1>3. WorkedMade' /\ CalledMade'
  BY <1>1, ProcessSource, WorkedStep, ProcessCalled DEF Elsewhere, PInv, TypeOK
<1>4. PInv' /\ PublishedMade'
  BY <1>1, PublisherRests
<1>5. Stamps' /\ ScheduledMade' /\ RequestsOwnItems' /\ CompletedIsOutdated'
  BY <1>1 DEF Stamps, ScheduledMade, RequestsOwnItems, CompletedIsOutdated, progress, metadata, handler
<1> QED
  BY <1>2, <1>3, <1>4, <1>5

(* An update of a route keeps what was made, with whatever else stays.       *)
LEMMA StampedFacts ==
  ASSUME Stamps, NEW r, Stamped(r)
  PROVE  /\ Stamps' /\ Grows(stamp, stamp')
         /\ \A j \in PeriodicJob : j.route = r /\ Made(j, stamp) => Outdated(j, stamp')
<1>1. /\ stamp' \in StampSet
      /\ \A q \in Route : stamp'[q] = IF q = r /\ stamp[r] < MaxStamp THEN stamp[q] + 1 ELSE stamp[q]
  <2>1. PICK n : stamp' = [stamp EXCEPT ![r] = n] /\ n = IF stamp[r] < MaxStamp THEN stamp[r] + 1 ELSE stamp[r]
    BY DEF Stamped
  <2>2. r \in Route => n \in 0 .. MaxStamp
    BY <2>1, RefreshAssumption DEF Stamps, StampSet
  <2>3. stamp' \in StampSet
    BY <2>1, <2>2 DEF Stamps, StampSet
  <2>4. \A q \in Route : stamp'[q] = IF q = r THEN n ELSE stamp[q]
    BY <2>1 DEF Stamps, StampSet
  <2> QED
    BY <2>1, <2>3, <2>4
<1>2. \A q \in Route : stamp[q] \in 0 .. MaxStamp /\ MaxStamp \in Nat
  BY RefreshAssumption DEF Stamps, StampSet
<1>3. Grows(stamp, stamp')
  BY <1>1, <1>2 DEF Grows
<1>4. Stamps'
  BY <1>1, <1>2 DEF Stamps, Stamped
<1>5. ASSUME NEW j \in PeriodicJob, j.route = r, Made(j, stamp) PROVE stamp'[r] > j.version
  <2>1. r \in Route /\ j.version \in Nat /\ j.version <= stamp[r] /\ j.version < MaxStamp
    BY <1>5, RefreshAssumption DEF PeriodicJob, Made
  <2>2. stamp[r] \in Nat
    BY <1>2, <2>1
  <2>3. stamp'[r] = IF stamp[r] < MaxStamp THEN stamp[r] + 1 ELSE stamp[r]
    BY <1>1, <2>1
  <2> QED
    BY <1>2, <2>1, <2>2, <2>3
<1> QED
  BY <1>3, <1>4, <1>5 DEF Outdated

LEMMA LaterKeeps ==
  ASSUME VInv, Stamps', Grows(stamp, stamp'), UNCHANGED <<progress, vars, handler, row, work>>
  PROVE  /\ PInv' /\ ScheduledMade' /\ PublishedMade' /\ WorkedMade' /\ RequestsOwnItems' /\ CompletedIsOutdated'
         /\ \A x \in Exec : call'[x] = call[x] => (call[x] \in CallState =>
              /\ Made(call[x].job, stamp')
              /\ call[x].step = "complete" => Outdated(call[x].job, stamp'))
<1> USE DEF VInv
<1>1. \A j : (Made(j, stamp) => Made(j, stamp')) /\ (Outdated(j, stamp) => Outdated(j, stamp'))
  BY GrowsKeeps DEF Stamps
<1>2. ScheduledMade'
  BY <1>1 DEF ScheduledMade, progress
<1>3. PInv' /\ PublishedMade'
  <2>1. PInv'
    BY NextInv
  <2>2. PublishedJobs' = PublishedJobs
    BY DEF PublishedJobs, vars, publisher, client, link
  <2> QED
    BY <1>1, <2>1, <2>2 DEF PublishedMade
<1>4. WorkedMade'
  BY <1>1 DEF WorkedMade
<1>5. RequestsOwnItems'
  BY DEF RequestsOwnItems, handler
<1>6. CompletedIsOutdated'
  BY <1>1 DEF CompletedIsOutdated, Outdated
<1> QED
  BY <1>1, <1>2, <1>3, <1>4, <1>5, <1>6 DEF CalledMade

LEMMA RouteOfPeriodic == \A j \in PeriodicJob : RouteOf(j) = j.route
  BY DEF RouteOf

LEMMA StoreRouteVInv ==
  ASSUME VInv, NEW x \in Exec, StoreRoute(x)
  PROVE  VInv'
<1> USE DEF VInv
<1>1. UNCHANGED <<progress, vars, handler, row, work>>
  BY DEF StoreRoute, Store, Proceed
<1>2. LInv'
  BY StoreStep, RowStep DEF StoreRoute, LInv
<1>3. call[x] \in CallState /\ Made(call[x].job, stamp)
  BY Disjoint DEF StoreRoute, Store, LInv, OInv, CallTypeOK, CalledMade
<1>4. PICK kind \in {"complete", "fail"} : call' = [call EXCEPT ![x].step = kind]
  BY DEF StoreRoute, Store, Proceed
<1>5. /\ \A y \in Exec : y # x => call'[y] = call[y]
      /\ call'[x].step = kind /\ call'[x].job = call[x].job
  BY <1>3, <1>4 DEF LInv, OInv, CallTypeOK, CallState
<1>6. /\ Stamps' /\ Grows(stamp, stamp')
      /\ kind = "complete" => Outdated(call[x].job, stamp')
  <2>1. CASE Stamped(RouteOf(call[x].job))
    <3>1. CASE call[x].job \in PeriodicJob
      BY <1>3, <2>1, <3>1, StampedFacts, RouteOfPeriodic
    <3>2. CASE call[x].job \notin PeriodicJob
      BY <2>1, <3>2, StampedFacts, NotPeriodic
    <3> QED
      BY <3>1, <3>2
  <2>2. CASE kind = "fail" /\ UNCHANGED metadata
    BY <2>2, RefreshAssumption DEF metadata, Stamps, StampSet, Grows
  <2> QED
    BY <1>5, <2>1, <2>2 DEF StoreRoute
<1>7. /\ PInv' /\ ScheduledMade' /\ PublishedMade' /\ WorkedMade' /\ RequestsOwnItems' /\ CompletedIsOutdated'
      /\ \A y \in Exec : call'[y] = call[y] => (call[y] \in CallState =>
           /\ Made(call[y].job, stamp')
           /\ call[y].step = "complete" => Outdated(call[y].job, stamp'))
  BY <1>1, <1>6, LaterKeeps
<1>8. Made(call[x].job, stamp')
  BY <1>3, <1>6, GrowsKeeps DEF Stamps
<1>9. CalledMade'
  BY <1>5, <1>6, <1>7, <1>8 DEF CalledMade
<1> QED
  BY <1>2, <1>6, <1>7, <1>9

(* Time and other writers.                                                   *)
LEMMA RouteVInv ==
  ASSUME VInv, NEW r \in Route, GrowStale(r) \/ RepairRoute(r)
  PROVE  VInv'
<1> USE DEF VInv
<1>1. UNCHANGED <<allVars, progress>>
  BY DEF GrowStale, RepairRoute
<1>2. UNCHANGED <<vars, handler, worker, master, row>>
  BY <1>1 DEF allVars
<1>3. Stamps' /\ Grows(stamp, stamp')
  <2>1. CASE GrowStale(r)
    BY <2>1, RefreshAssumption DEF GrowStale, Stamps, StampSet, Grows
  <2>2. CASE RepairRoute(r)
    BY <2>2, StampedFacts DEF RepairRoute
  <2> QED
    BY <2>1, <2>2
<1>4. LInv'
  BY <1>1, StepLInv
<1>5. /\ PInv' /\ ScheduledMade' /\ PublishedMade' /\ WorkedMade' /\ RequestsOwnItems' /\ CompletedIsOutdated'
      /\ CalledMade'
  BY <1>1, <1>2, <1>3, LaterKeeps DEF CalledMade, worker, master
<1> QED
  BY <1>3, <1>4, <1>5

(* The end of a call.  Only MarkCompleted makes a row COMPLETED.              *)
LEMMA ReplyVInv ==
  ASSUME VInv, NEW x \in Exec, Elsewhere(Reply(x))
  PROVE  VInv'
<1> USE DEF VInv
<1>1. UNCHANGED <<progress, metadata, vars, handler>> /\ stamp' = stamp
  BY DEF Elsewhere, metadata, Reply, MarkCompleted, MarkStoreDead, MarkTripDetailsDead
<1>2. LInv'
  BY ReplyStep, RowStep DEF Elsewhere, LInv, RowTypeOK
<1>3. call[x] \in CallState
  BY Disjoint DEF Elsewhere, Reply, MarkCompleted, MarkStoreDead, MarkTripDetailsDead, LInv, OInv, CallTypeOK
<1>4. PICK ok : Finished(x, ok)
  BY DEF Elsewhere, Reply, MarkCompleted, MarkStoreDead, MarkTripDetailsDead
<1>5. CalledMade'
  <2>1. \A y \in Exec : call'[y] = IF y = x THEN Free ELSE call[y]
    BY <1>4 DEF Finished, LInv, OInv, CallTypeOK
  <2>2. Free \notin CallState
    BY DEF Free, CallState
  <2> QED
    BY <1>1, <2>1, <2>2 DEF CalledMade
<1>6. WorkedMade'
  BY <1>1, MasterSource, WorkedStep DEF Elsewhere
<1>7. CompletedIsOutdated'
  <2>1. CASE MarkCompleted(x)
    <3>1. Outdated(call[x].job, stamp)
      BY <1>3, <2>1 DEF MarkCompleted, CalledMade
    <3>2. \A k \in Job : row'[k] = row[k] \/ k = call[x].job
      BY <2>1, WriteAny DEF MarkCompleted, LInv, RowTypeOK
    <3> QED
      BY <1>1, <3>1, <3>2, RefreshAssumption DEF CompletedIsOutdated, Outdated
  <2>2. CASE MarkStoreDead(x) \/ MarkTripDetailsDead(x)
    <3>1. \A k \in Job : row'[k] = "COMPLETED" => row[k] = "COMPLETED"
      BY <2>2, WriteQuiet DEF MarkStoreDead, MarkTripDetailsDead, LInv, RowTypeOK
    <3> QED
      BY <1>1, <3>1, RefreshAssumption DEF CompletedIsOutdated
  <2> QED
    BY <2>1, <2>2 DEF Elsewhere, Reply
<1>8. PInv' /\ PublishedMade'
  BY <1>1, PublisherRests
<1>9. Stamps' /\ ScheduledMade' /\ RequestsOwnItems'
  BY <1>1 DEF Stamps, ScheduledMade, RequestsOwnItems, progress, metadata, handler
<1> QED
  BY <1>2, <1>5, <1>6, <1>7, <1>8, <1>9

(* A restart forgets the run, the publications and the calls under way.      *)
LEMMA RestartVInv == ASSUME VInv, RestartMaster PROVE VInv'
<1> USE DEF VInv
<1>1. UNCHANGED metadata /\ stamp' = stamp /\ Restart /\ Abort
  BY DEF RestartMaster, metadata
<1>2. LInv'
  BY <1>1, RestartStep, RowStep DEF LInv
<1>3. ScheduledMade'
  BY <1>1, AbortMade
<1>4. PInv' /\ PublishedMade'
  BY <1>1, RestartPublisher DEF PublishedMade
<1>5. WorkedMade'
  BY <1>1, RestartSource, WorkedStep
<1>6. CalledMade' /\ RequestsOwnItems'
  <2>1. <<>> \in Seq(Items)
    OBVIOUS
  <2> QED
    BY <1>1, <2>1 DEF Restart, CalledMade, RequestsOwnItems, HandlerStep, Free, CallState
<1>7. Stamps' /\ CompletedIsOutdated'
  BY <1>1 DEF Restart, Stamps, CompletedIsOutdated, metadata
<1> QED
  BY <1>2, <1>3, <1>4, <1>5, <1>6, <1>7

LEMMA PublishingVInv ==
  ASSUME VInv, Elsewhere(Publishing(Work(Scheduler))) \/ Elsewhere(Publishing(Environment))
  PROVE  VInv'
<1> USE DEF VInv
<1>1. UNCHANGED <<progress, metadata, handler, worker, master, row>> /\ stamp' = stamp
  BY DEF Elsewhere, Publishing, metadata
<1>2. Work(Scheduler) \/ Environment
  BY DEF Elsewhere, Publishing
<1>3. PInv' /\ PublishedMade'
  BY <1>1, <1>2, PublisherMade, RefreshAssumption DEF Elsewhere, Publishing
<1>4. RowTypeOK' /\ Quiet
  BY <1>1 DEF LInv, RowTypeOK, Quiet
<1>5. LInv'
  BY <1>4, QuietStep DEF LInv
<1>6. Stamps' /\ WorkedMade' /\ CalledMade' /\ CompletedIsOutdated'
  BY <1>1, <1>4, QuietMade
<1>7. ScheduledMade' /\ RequestsOwnItems'
  BY <1>1 DEF ScheduledMade, RequestsOwnItems, progress, handler
<1> QED
  BY <1>3, <1>5, <1>6, <1>7

LEMMA InitVInv == RefreshInit => VInv
<1> SUFFICES ASSUME RefreshInit PROVE VInv
  OBVIOUS
<1> USE DEF RefreshInit
<1>1. LInv
  BY InitLInv
<1>2. Stamps /\ ScheduledMade
  BY NoJobMade, RefreshAssumption DEF Stamps, StampSet, ScheduledMade
<1>3. PInv /\ PublishedMade
  <2>1. PInv
    BY InitInv DEF LifecycleInit
  <2>2. 1 .. Len(<<>>) = {}
    OBVIOUS
  <2> QED
    BY <2>1, <2>2 DEF PublishedMade, PublishedJobs, LifecycleInit, Init
<1>4. WorkedMade /\ CalledMade
  BY DEF WorkedMade, CalledMade, LifecycleInit, Free, CallState
<1>5. RequestsOwnItems
  <2>1. <<>> \in Seq(Items)
    OBVIOUS
  <2> QED
    BY <2>1 DEF RequestsOwnItems, HandlerStep, LifecycleInit
<1>6. CompletedIsOutdated
  BY RefreshAssumption DEF CompletedIsOutdated, LifecycleInit
<1> QED
  BY <1>1, <1>2, <1>3, <1>4, <1>5, <1>6 DEF VInv

LEMMA StepVInv == VInv /\ [RefreshNext]_refreshVars => VInv'
<1> SUFFICES ASSUME VInv, [RefreshNext]_refreshVars PROVE VInv'
  OBVIOUS
<1>1. CASE UNCHANGED refreshVars
  <2>1. UNCHANGED <<allVars, progress, metadata>>
    BY <1>1 DEF refreshVars
  <2>2. UNCHANGED <<vars, handler, worker, master, row>>
    BY <2>1 DEF allVars
  <2>3. LInv'
    BY <2>1, StepLInv DEF VInv
  <2>4. PInv' /\ PublishedMade'
    BY <2>1, <2>2, PublisherRests DEF VInv, metadata
  <2> QED
    BY <2>1, <2>2, <2>3, <2>4 DEF VInv, Stamps, ScheduledMade, WorkedMade, CalledMade, RequestsOwnItems,
         CompletedIsOutdated, progress, metadata, handler, worker, master
<1> QED
  BY <1>1, RunVInv, PublishingVInv, RequestVInv, ProcessVInv, StoreRouteVInv, ReplyVInv, RouteVInv, RestartVInv
  DEF RefreshNext

(* A COMPLETED row never is that of its route's present version, so it never *)
(* keeps the route from being queued again (orbit_route_refresh.go:266).     *)
THEOREM CompletedOutdated == RefreshSpec => []CompletedIsOutdated
<1>1. VInv => CompletedIsOutdated
  BY DEF VInv
<1> QED
  BY <1>1, InitVInv, StepVInv, PTL DEF RefreshSpec

-----------------------------------------------------------------------------
(* NoRepublication.  The scheduler works on one job at a time, and as long as *)
(* nothing fails the row of a job tells how far it has got.                  *)

(* run's own call of publish, which no client can cancel, is the one the      *)
(* scheduler is in.                                                          *)
SchedulerCalls ==
  /\ stage[Scheduler] # "free" <=> step = "publish"
  /\ step = "publish" => job[Scheduler] = current
  /\ Scheduler \notin gone
  /\ \A h \in Caller \ {Scheduler} : job[h] \notin PeriodicJob

(* Workers and their calls have only jobs the broker had.                    *)
Dispatched ==
  /\ \A s \in Slot : work[s] # Idle => work[s].job \in Job /\ taken[work[s].job] > 0
  /\ \A x \in Exec : call[x] \in CallState => call[x].job \in Job /\ taken[call[x].job] > 0

Calm == faults = 0 /\ breaks = 0

(* While nothing fails, the channel stays open, every confirmation is an      *)
(* acknowledgement, and no copy ends in a report.                            *)
NothingFails ==
  /\ open /\ \A i \in 1 .. Len(confirms) : confirms[i].ack
  /\ stage[Scheduler] # "error" /\ step # "dead"
  /\ \A s \in Slot : work[s].step # "report"
  /\ \A x \in Exec : call[x].step \notin {"fail", "dlq"}

OnWire(j) == \E i \in 1 .. Len(wire) : wire[i] = j
Unpublished(j) == taken[j] = 0 /\ ~OnWire(j)

(* A job without a row is not published; one that is RECEIVED is the one      *)
(* being published, so no lookup of a row finds it.                          *)
RowsTell ==
  /\ \A j \in PeriodicJob :
       /\ row[j] \in {"none", "RECEIVED", "QUEUED", "COMPLETED"}
       /\ row[j] = "none" => Unpublished(j)
       /\ row[j] = "RECEIVED" => current = j /\ step \in {"publish", "mark"}
  /\ step = "save" => row[current] = "none"
  /\ step \in {"publish", "mark"} => row[current] # "none"
  /\ stage[Scheduler] \in {"lock", "send"} => Unpublished(current)

(* Each periodic job is at most once on the wire and on the broker.          *)
PublishedOnce ==
  \A j \in PeriodicJob :
    /\ taken[j] <= 1
    /\ taken[j] > 0 => ~OnWire(j)
    /\ \A i, k \in 1 .. Len(wire) : wire[i] = j /\ wire[k] = j => i = k

NInv == /\ VInv /\ faults \in Nat
        /\ SchedulerCalls /\ Dispatched
        /\ Calm => NothingFails /\ RowsTell /\ PublishedOnce

(* Every step of RouteRefresh is one of its run or one of the pipeline.       *)
LEMMA RefreshSplit == [RefreshNext]_refreshVars => Run \/ [LifecycleNext]_allVars
<1> SUFFICES ASSUME [RefreshNext]_refreshVars, ~Run PROVE [LifecycleNext]_allVars
  OBVIOUS
<1>1. CASE Elsewhere(Publishing(Work(Scheduler)))
  BY <1>1, RefreshAssumption DEF Elsewhere, LifecycleNext, Request
<1>2. CASE \/ \E h \in Caller \ {Scheduler} : Elsewhere(Request(h))
           \/ \E s \in Slot : Elsewhere(Process(s))
           \/ \E x \in Exec : StoreRoute(x) \/ Elsewhere(Reply(x))
           \/ Elsewhere(Publishing(Environment))
           \/ RestartMaster
  BY <1>2 DEF Elsewhere, StoreRoute, RestartMaster, LifecycleNext
<1>3. CASE (\E r \in Route : GrowStale(r) \/ RepairRoute(r)) \/ UNCHANGED refreshVars
  BY <1>3 DEF GrowStale, RepairRoute, refreshVars
<1> QED
  BY <1>1, <1>2, <1>3 DEF RefreshNext

LEMMA SplitRun ==
  ASSUME Run
  PROVE  /\ UNCHANGED <<handler, worker, master, cancels, breaks, gone, calls, open, wire, confirms, taken, mutex, tries>>
         /\ \/ UNCHANGED <<stage, job>>
            \/ SaveAndPublish /\ Publish(Scheduler, current)
            \/ PublishReturns
<1>1. CASE ListStale \/ FetchOrbitRoutes \/ FindByReferenceID \/ MarkPeriodicQueued \/ MarkPeriodicDead
  BY <1>1 DEF ListStale, FetchOrbitRoutes, FindByReferenceID, MarkPeriodicQueued, MarkPeriodicDead,
              allVars, vars, publisher, client, link
<1>2. CASE SaveAndPublish
  BY <1>2 DEF SaveAndPublish, Publish, vars, publisher, client, link
<1>3. CASE PublishReturns
  BY <1>3 DEF PublishReturns, Collect, link
<1> QED
  BY <1>1, <1>2, <1>3 DEF Run

LEMMA RunFaults == ASSUME Run, faults \in Nat PROVE faults' \in Nat /\ (faults' = 0 => UNCHANGED faults)
<1>1. Fault => faults' \in Nat \ {0}
  BY DEF Fault
<1>2. Fault \/ UNCHANGED faults
  BY DEF Run, ListStale, FetchOrbitRoutes, FindByReferenceID, SaveAndPublish, PublishReturns,
         MarkPeriodicQueued, MarkPeriodicDead, Write, allVars
<1> QED
  BY <1>1, <1>2

LEMMA CountsStep ==
  ASSUME NInv, [RefreshNext]_refreshVars
  PROVE  faults' \in Nat /\ (Calm' => Calm /\ UNCHANGED <<faults, breaks>>)
<1>1. CASE Run
  BY <1>1, SplitRun, RunFaults DEF Calm, NInv
<1>2. CASE [LifecycleNext]_allVars
  BY <1>2, FaultsGrow, BreaksGrow DEF Calm, NInv, VInv
<1> QED
  BY <1>1, <1>2, RefreshSplit

-----------------------------------------------------------------------------
LEMMA CallsStep ==
  ASSUME VInv, SchedulerCalls, [RefreshNext]_refreshVars PROVE SchedulerCalls'
<1> USE DEF VInv
<1>0. /\ stage \in [Caller -> {"free", "lock", "send", "await", "ok", "error"}]
      /\ job \in [Caller -> Job \union {NoJob}]
      /\ Scheduler \in Caller /\ NoJob \notin PeriodicJob
  BY NoJobMade, RefreshAssumption DEF PInv, TypeOK
<1>1. CASE Run
  <2>1. CASE SaveAndPublish
    <3>1. CASE Publish(Scheduler, current) /\ step' = "publish" /\ UNCHANGED current
      BY <1>0, <1>1, <3>1, SplitRun DEF SchedulerCalls, Publish
    <3>2. CASE Abort /\ UNCHANGED vars
      BY <2>1, <3>2 DEF SaveAndPublish, SchedulerCalls, Abort, Continue, vars, publisher, client, link
    <3> QED
      BY <2>1, <3>1, <3>2 DEF SaveAndPublish
  <2>2. CASE PublishReturns
    BY <1>0, <1>1, <2>2, SplitRun DEF SchedulerCalls, PublishReturns, Collect
  <2>3. CASE ListStale \/ FetchOrbitRoutes \/ FindByReferenceID \/ MarkPeriodicQueued \/ MarkPeriodicDead
    <3>1. step # "publish" /\ step' # "publish"
      BY <2>3 DEF ListStale, FetchOrbitRoutes, FindByReferenceID, MarkPeriodicQueued, MarkPeriodicDead,
                  Abort, Continue
    <3>2. UNCHANGED <<stage, job, gone>>
      BY <2>3 DEF ListStale, FetchOrbitRoutes, FindByReferenceID, MarkPeriodicQueued, MarkPeriodicDead,
                  allVars, vars, publisher, client, link
    <3> QED
      BY <3>1, <3>2 DEF SchedulerCalls
  <2> QED
    BY <1>1, <2>1, <2>2, <2>3 DEF Run
<1>2. CASE UNCHANGED <<stage, job, gone, progress>>
  BY <1>2 DEF SchedulerCalls, progress
<1>3. ASSUME NEW c \in Caller, Work(c), UNCHANGED <<gone, progress>> PROVE SchedulerCalls'
  <2>1. job' = job /\ stage[Scheduler]' = "free" <=> stage[Scheduler] = "free"
    BY <1>0, <1>3 DEF Work, Lock, Send, SendFails, ReadConfirmation, SeeClosedChannel, GiveUp, Finish
  <2>2. job' = job
    BY <1>3 DEF Work, Lock, Send, SendFails, ReadConfirmation, SeeClosedChannel, GiveUp
  <2> QED
    BY <1>3, <2>1, <2>2 DEF SchedulerCalls, progress
<1>4. ASSUME NEW h \in Caller \ {Scheduler}, Elsewhere(Request(h)) PROVE SchedulerCalls'
  <2>0. UNCHANGED progress
    BY <1>4 DEF Elsewhere
  <2>1. ASSUME NEW i \in Items, Publish(h, i.ref), UNCHANGED gone PROVE SchedulerCalls'
    BY <1>0, <2>0, <2>1, RefreshAssumption DEF SchedulerCalls, Publish, progress
  <2>2. CASE SaveReceived(h)
    <3>1. Item(h) \in Items
      BY <2>2, QueueingItem DEF SaveReceived
    <3> QED
      BY <1>2, <2>0, <2>1, <2>2, <3>1 DEF SaveReceived, vars, publisher, client, link
  <2>3. CASE AfterPublish(h)
    BY <1>0, <2>0, <2>3 DEF SchedulerCalls, AfterPublish, Collect, progress
  <2>4. CASE Publishing(Work(h))
    BY <1>3, <2>0, <2>4 DEF Publishing
  <2>5. CASE Disconnect(h) \/ \E e \in Event : Receive(h, e)
    BY <2>0, <2>5 DEF SchedulerCalls, Disconnect, Cancel, Receive, progress, publisher, client, link
  <2>6. CASE RegisterOperator(h) \/ ClaimInFlight(h) \/ MarkQueued(h) \/ MarkDead(h)
    BY <1>2, <2>0, <2>6 DEF RegisterOperator, ClaimInFlight, MarkQueued, MarkDead, vars, publisher, client, link
  <2> QED
    BY <1>4, <2>2, <2>3, <2>4, <2>5, <2>6 DEF Elsewhere, Request, Handler
<1>5. CASE RestartMaster
  BY <1>0, <1>5 DEF RestartMaster, Restart, Abort, Continue, SchedulerCalls
<1>6. CASE Elsewhere(Publishing(Work(Scheduler)))
  BY <1>0, <1>3, <1>6 DEF Elsewhere, Publishing
<1>7. CASE \/ \E s \in Slot : Elsewhere(Process(s))
           \/ \E x \in Exec : StoreRoute(x) \/ Elsewhere(Reply(x))
  BY <1>2, <1>7 DEF Elsewhere, StoreRoute, Process, FailEarly, TimeOut, Acknowledge, TakeCopy, CallMaster,
                    Store, Reply, MarkCompleted, MarkStoreDead, MarkTripDetailsDead,
                    vars, publisher, client, link
<1>8. CASE Elsewhere(Publishing(Environment))
  BY <1>2, <1>8 DEF Elsewhere, Publishing, Environment, BrokerStores, BrokerRefuses, BrokerTakes,
                    LoseConnection, client
<1>9. CASE (\E r \in Route : GrowStale(r) \/ RepairRoute(r)) \/ UNCHANGED refreshVars
  BY <1>2, <1>9 DEF GrowStale, RepairRoute, refreshVars, allVars, vars, publisher, client, link
<1> QED
  BY <1>1, <1>4, <1>5, <1>6, <1>7, <1>8, <1>9 DEF RefreshNext

-----------------------------------------------------------------------------
(* What the broker has taken it keeps, so what was dispatched stays so.       *)
LEMMA TakenStays ==
  ASSUME PInv, [RefreshNext]_refreshVars PROVE \A j \in Job : taken[j] > 0 => taken'[j] > 0
<1>1. CASE UNCHANGED taken
  BY <1>1
<1>2. ASSUME NEW ack \in BOOLEAN, BrokerTakes(ack) PROVE \A j \in Job : taken[j] > 0 => taken'[j] > 0
  <2>1. ASSUME NEW k PROVE \A j \in Job : taken[j] > 0 => [taken EXCEPT ![k] = @ + 1][j] > 0
    BY DEF PInv, TypeOK
  <2> QED
    BY <1>2, <2>1 DEF BrokerTakes
<1>3. CASE Publishing(Environment)
  BY <1>1, <1>2, <1>3 DEF Publishing, Environment, BrokerStores, BrokerRefuses, LoseConnection
<1>4. CASE Run
  BY <1>1, <1>4, SplitRun
<1>5. ASSUME NEW h \in Caller, Request(h) PROVE UNCHANGED taken
  <2>1. CASE Handler(h)
    BY <2>1 DEF Handler, RegisterOperator, ClaimInFlight, SaveReceived, AfterPublish, MarkQueued, MarkDead,
                Publish, Collect, vars, publisher
  <2>2. CASE Publishing(Work(h))
    BY <2>2 DEF Publishing, Work, Lock, Send, SendFails, ReadConfirmation, SeeClosedChannel, GiveUp
  <2>3. CASE Disconnect(h) \/ \E e \in Event : Receive(h, e)
    BY <2>3 DEF Disconnect, Cancel, Receive, publisher
  <2> QED
    BY <1>5, <2>1, <2>2, <2>3 DEF Request
<1>6. CASE \/ \E s \in Slot : Process(s)
           \/ \E x \in Exec : Store(x) \/ Reply(x)
           \/ Restart \/ UNCHANGED allVars
  BY <1>1, <1>6 DEF Process, FailEarly, TimeOut, Acknowledge, TakeCopy, CallMaster, Store, Reply, MarkCompleted,
              MarkStoreDead, MarkTripDetailsDead, Restart, allVars, vars, publisher
<1> QED
  BY <1>1, <1>3, <1>4, <1>5, <1>6, RefreshSplit DEF LifecycleNext

LEMMA DispatchedStep ==
  ASSUME VInv, Dispatched, [RefreshNext]_refreshVars PROVE Dispatched'
<1>1. \A j \in Job : taken[j] > 0 => taken'[j] > 0
  BY TakenStays DEF VInv
<1>2. WorkSource /\ CallSource
  <2>1. CASE Run
    BY <2>1, SplitRun DEF worker, master, WorkSource, CallSource
  <2> QED
    BY <2>1, RefreshSplit, LifecycleSource DEF VInv, PInv, TypeOK
<1>3. \A s \in Slot : work'[s] # Idle => work'[s].job \in Job /\ taken'[work'[s].job] > 0
  BY <1>1, <1>2 DEF Dispatched, WorkSource
<1>4. \A x \in Exec : call'[x] \in CallState => call'[x].job \in Job /\ taken'[call'[x].job] > 0
  BY <1>1, <1>2 DEF Dispatched, CallSource
<1> QED
  BY <1>3, <1>4 DEF Dispatched

-----------------------------------------------------------------------------
(* The steps of an undisturbed behaviour keep what is claimed of it.          *)

Undone == NothingFails /\ RowsTell /\ PublishedOnce

LEMMA CurrentFacts ==
  ASSUME NInv
  PROVE  /\ step \in {"save", "publish", "mark", "dead"} => current \in PeriodicJob
         /\ stage[Scheduler] \in {"lock", "send"} => step = "publish" /\ job[Scheduler] = current
         /\ stage \in [Caller -> {"free", "lock", "send", "await", "ok", "error"}]
         /\ wire \in Seq(Job) /\ confirms \in Seq(Confirmation) /\ taken \in [Job -> Nat]
         /\ row \in [Job -> Status] /\ Scheduler \in Caller /\ PeriodicJob \subseteq Job
BY RefreshAssumption DEF NInv, VInv, ScheduledMade, SchedulerCalls, PInv, TypeOK, LInv, RowTypeOK

(* Steps that leave the publisher, the scheduler and the periodic rows alone. *)
LEMMA RestUndone ==
  ASSUME NInv, Undone, UNCHANGED <<open, wire, confirms, taken, step, current>>,
         stage'[Scheduler] = stage[Scheduler],
         \A j \in PeriodicJob : row'[j] = row[j],
         \A s \in Slot : work'[s] = work[s] \/ work'[s].step # "report",
         \A x \in Exec : call'[x] = call[x] \/ call'[x].step \notin {"fail", "dlq"}
  PROVE  Undone'
<1>1. NothingFails'
  BY DEF Undone, NothingFails
<1>2. \A j : Unpublished(j)' = Unpublished(j)
  BY DEF Unpublished, OnWire
<1>3. RowsTell'
  BY <1>2, CurrentFacts DEF Undone, RowsTell
<1>4. PublishedOnce'
  BY DEF Undone, PublishedOnce, OnWire
<1> QED
  BY <1>1, <1>3, <1>4 DEF Undone

(* Send of the job j: only j gets onto the wire. *)
LEMMA SendUndone ==
  ASSUME NInv, Undone, NEW c \in Caller, Send(c), UNCHANGED <<step, current, row, work, call>>
  PROVE  Undone'
<1> DEFINE j == job[c]
<1>1. /\ stage[c] = "send" /\ open' = TRUE /\ wire' = Append(wire, j) /\ confirms' = confirms
      /\ \A b \in Caller : stage'[b] = IF b = c THEN "await" ELSE stage[b]
      /\ taken' = taken
  BY CurrentFacts DEF Send, Undone, NothingFails
<1>2. j \in Job
  BY <1>1 DEF NInv, VInv, PInv, JobHeld
<1>3. j \in PeriodicJob => c = Scheduler /\ j = current /\ step = "publish" /\ Unpublished(j)
  BY <1>1, CurrentFacts DEF NInv, SchedulerCalls, Undone, RowsTell
<1> HIDE DEF j
<1>4. /\ Len(wire') = Len(wire) + 1 /\ Len(wire) \in Nat /\ wire'[Len(wire) + 1] = j
      /\ \A i \in 1 .. Len(wire) : wire'[i] = wire[i]
  BY <1>1, <1>2, CurrentFacts
<1>5. \A k : k # j => OnWire(k)' = OnWire(k)
  BY <1>4 DEF OnWire
<1>6. NothingFails'
  BY <1>1, CurrentFacts DEF Undone, NothingFails
<1>7. \A k : k # j => Unpublished(k)' = Unpublished(k)
  BY <1>1, <1>5 DEF Unpublished
<1>8. RowsTell'
  <2>1. \A k \in PeriodicJob : row[k] = "none" => k # j
    BY <1>3 DEF Undone, RowsTell
  <2>2. stage'[Scheduler] \in {"lock", "send"} => c # Scheduler /\ current \in PeriodicJob
    BY <1>1, CurrentFacts
  <2>3. stage'[Scheduler] \in {"lock", "send"} => current # j
    BY <1>3, <2>2
  <2>4. stage'[Scheduler] \in {"lock", "send"} => stage[Scheduler] \in {"lock", "send"}
    BY <1>1, CurrentFacts
  <2> QED
    BY <1>7, <2>1, <2>3, <2>4, CurrentFacts DEF Undone, RowsTell
<1>9. PublishedOnce'
  <2>1. ASSUME NEW k \in PeriodicJob, k # j
        PROVE  \A m, n \in 1 .. Len(wire') : wire'[m] = k /\ wire'[n] = k => m = n
    <3>1. \A m \in 1 .. Len(wire') : wire'[m] = k => m \in 1 .. Len(wire) /\ wire[m] = k
      BY <1>4, <2>1
    <3> QED
      BY <3>1 DEF Undone, PublishedOnce
  <2>2. ASSUME j \in PeriodicJob
        PROVE  \A m, n \in 1 .. Len(wire') : wire'[m] = j /\ wire'[n] = j => m = n
    <3>1. \A m \in 1 .. Len(wire') : wire'[m] = j => m = Len(wire) + 1
      BY <1>3, <1>4, <2>2 DEF Unpublished, OnWire
    <3> QED
      BY <3>1
  <2>3. \A k \in PeriodicJob : taken'[k] <= 1 /\ (taken'[k] > 0 => ~OnWire(k)')
    <3>1. ASSUME NEW k \in PeriodicJob, k = j PROVE taken'[k] = 0
      BY <1>1, <1>3, <3>1 DEF Unpublished
    <3>2. ASSUME NEW k \in PeriodicJob, k # j
          PROVE  taken'[k] <= 1 /\ (taken'[k] > 0 => ~OnWire(k)')
      BY <1>1, <1>5, <3>2 DEF Undone, PublishedOnce
    <3> QED
      BY <3>1, <3>2
  <2> QED
    BY <2>1, <2>2, <2>3 DEF PublishedOnce
<1> QED
  BY <1>6, <1>8, <1>9 DEF Undone

LEMMA WorkUndone ==
  ASSUME NInv, Undone, NEW c \in Caller, Work(c), UNCHANGED <<breaks, step, current, row, work, call>>
  PROVE  Undone'
<1>1. breaks # breaks + 1
  BY DEF NInv, VInv, PInv, TypeOK
<1>2. ~SendFails(c) /\ ~SeeClosedChannel(c)
  BY <1>1 DEF SendFails, SeeClosedChannel, Undone, NothingFails
<1>3. CASE Lock(c)
  <2>1. /\ UNCHANGED <<open, wire, confirms, taken>>
        /\ stage[c] = "lock" /\ \A b \in Caller : stage'[b] = IF b = c THEN "send" ELSE stage[b]
    BY <1>3, CurrentFacts DEF Lock, link
  <2>2. NothingFails' /\ PublishedOnce'
    BY <2>1, CurrentFacts DEF Undone, NothingFails, PublishedOnce, OnWire
  <2>3. RowsTell'
    BY <2>1, CurrentFacts DEF Undone, RowsTell, Unpublished, OnWire
  <2> QED
    BY <2>2, <2>3 DEF Undone
<1>4. CASE ReadConfirmation(c) \/ GiveUp(c)
  <2>1. /\ UNCHANGED <<open, wire, taken>> /\ stage[c] = "await"
        /\ \A i \in 1 .. Len(confirms') : confirms'[i].ack
    <3>1. CASE ReadConfirmation(c)
      <4>1. confirms # <<>> /\ confirms' = Tail(confirms)
        BY <3>1 DEF ReadConfirmation
      <4>2. \A i \in 1 .. Len(confirms') : i + 1 \in 1 .. Len(confirms) /\ confirms'[i] = confirms[i + 1]
        BY <4>1, CurrentFacts
      <4> QED
        BY <3>1, <4>2 DEF ReadConfirmation, Undone, NothingFails
    <3>2. CASE GiveUp(c)
      BY <3>2 DEF GiveUp, link, Undone, NothingFails
    <3> QED
      BY <1>4, <3>1, <3>2
  <2>2. PICK result \in {"ok", "error"} : /\ stage' = [stage EXCEPT ![c] = result]
                                          /\ c = Scheduler => result = "ok"
    <3>1. CASE ReadConfirmation(c)
      <4>1. confirms # <<>> /\ Finish(c, IF Head(confirms).ack THEN "ok" ELSE "error")
        BY <3>1 DEF ReadConfirmation
      <4>2. Head(confirms).ack
        BY <4>1, CurrentFacts DEF Undone, NothingFails
      <4> QED
        BY <4>1, <4>2 DEF Finish
    <3>2. CASE GiveUp(c)
      BY <3>2 DEF GiveUp, Finish, NInv, SchedulerCalls
    <3> QED
      BY <1>4, <3>1, <3>2
  <2>3. \A b \in Caller : stage'[b] = IF b = c THEN result ELSE stage[b]
    BY <2>2, CurrentFacts
  <2>4. NothingFails' /\ PublishedOnce'
    BY <2>1, <2>2, <2>3, CurrentFacts DEF Undone, NothingFails, PublishedOnce, OnWire
  <2>5. RowsTell'
    BY <2>1, <2>3, CurrentFacts DEF Undone, RowsTell, Unpublished, OnWire
  <2> QED
    BY <2>4, <2>5 DEF Undone
<1> QED
  BY <1>2, <1>3, <1>4, SendUndone DEF Work

LEMMA BrokerUndone ==
  ASSUME NInv, Undone, Environment, UNCHANGED <<breaks, step, current, row, work, call>>
  PROVE  Undone'
<1> DEFINE j == Head(wire)
<1>1. BrokerTakes(TRUE)
  <2>1. breaks # breaks + 1
    BY DEF NInv, VInv, PInv, TypeOK
  <2> QED
    BY <2>1 DEF Environment, BrokerStores, BrokerRefuses, LoseConnection
<1>2. /\ wire # <<>> /\ wire' = Tail(wire) /\ stage' = stage /\ open' = open
      /\ confirms' = Append(confirms, [job |-> j, ack |-> TRUE])
      /\ taken' = [taken EXCEPT ![j] = @ + 1]
  BY <1>1 DEF BrokerTakes, client
<1>3. /\ j \in Job /\ wire[1] = j /\ 1 \in 1 .. Len(wire)
      /\ \A i \in 1 .. Len(wire') : i + 1 \in 1 .. Len(wire) /\ wire'[i] = wire[i + 1]
  BY <1>2, CurrentFacts
<1>4. [job |-> j, ack |-> TRUE] \in Confirmation
  BY <1>3 DEF Confirmation
<1> HIDE DEF j
<1>5. \A k \in Job : taken'[k] = IF k = j THEN taken[k] + 1 ELSE taken[k]
  BY <1>2, <1>3, CurrentFacts
<1>6. \A k : OnWire(k)' => OnWire(k)
  BY <1>3 DEF OnWire
<1>7. OnWire(j)
  BY <1>3 DEF OnWire
<1>8. \A k \in PeriodicJob : Unpublished(k) => k # j /\ Unpublished(k)'
  BY <1>5, <1>6, <1>7, CurrentFacts DEF Unpublished
<1>9. NothingFails'
  <2>1. Len(confirms') = Len(confirms) + 1 /\ Len(confirms) \in Nat
        /\ confirms'[Len(confirms) + 1] = [job |-> j, ack |-> TRUE]
        /\ \A i \in 1 .. Len(confirms) : confirms'[i] = confirms[i]
    BY <1>2, <1>4, CurrentFacts
  <2>2. \A i \in 1 .. Len(confirms') : confirms'[i].ack
    BY <2>1 DEF Undone, NothingFails
  <2> QED
    BY <1>2, <2>2 DEF Undone, NothingFails
<1>10. RowsTell'
  BY <1>2, <1>8, CurrentFacts DEF Undone, RowsTell
<1>11. PublishedOnce'
  <2> SUFFICES ASSUME NEW k \in PeriodicJob
               PROVE  /\ taken'[k] <= 1 /\ (taken'[k] > 0 => ~OnWire(k)')
                      /\ \A m, n \in 1 .. Len(wire') : wire'[m] = k /\ wire'[n] = k => m = n
    BY DEF PublishedOnce
  <2>1. k \in Job /\ taken[k] \in Nat
    BY CurrentFacts
  <2>2. \A m, n \in 1 .. Len(wire) : wire[m] = k /\ wire[n] = k => m = n
    BY DEF Undone, PublishedOnce
  <2>3. \A m, n \in 1 .. Len(wire') : wire'[m] = k /\ wire'[n] = k => m = n
    BY <1>3, <2>2
  <2>4. CASE k = j
    <3>1. taken[k] = 0
      BY <1>7, <2>1, <2>4 DEF Undone, PublishedOnce
    <3>2. ~OnWire(k)'
      <4> SUFFICES ASSUME NEW i \in 1 .. Len(wire'), wire'[i] = k PROVE FALSE
        BY DEF OnWire
      <4>1. i + 1 = 1
        BY <1>3, <2>2, <2>4
      <4> QED
        BY <4>1
    <3> QED
      BY <1>5, <2>1, <2>3, <2>4, <3>1, <3>2
  <2>5. CASE k # j
    BY <1>5, <1>6, <2>1, <2>3, <2>5 DEF Undone, PublishedOnce
  <2> QED
    BY <2>4, <2>5
<1> QED
  BY <1>9, <1>10, <1>11 DEF Undone

LEMMA RunUndone ==
  ASSUME NInv, Undone, Run, UNCHANGED faults PROVE Undone'
<1>0. ~Fault
  BY DEF Fault, NInv
<1>1. /\ UNCHANGED <<open, wire, confirms, taken, work, call>>
      /\ \/ UNCHANGED <<stage, job>>
         \/ SaveAndPublish /\ Publish(Scheduler, current)
         \/ PublishReturns
  BY SplitRun DEF worker, master
<1>2. PublishedOnce' /\ \A j : Unpublished(j)' = Unpublished(j)
  BY <1>1 DEF Undone, PublishedOnce, OnWire, Unpublished
<1>3. step # "publish" => stage[Scheduler] = "free"
  BY DEF NInv, SchedulerCalls
<1>4. ASSUME UNCHANGED <<stage, row>>, step \in {"idle", "fetch", "find"}, step' \in {"idle", "fetch", "find"}
      PROVE  Undone'
  <2>1. NothingFails'
    BY <1>1, <1>4 DEF Undone, NothingFails
  <2>2. RowsTell'
    BY <1>2, <1>3, <1>4 DEF Undone, RowsTell
  <2> QED
    BY <1>2, <2>1, <2>2 DEF Undone
<1>5. \A rest, others : Continue(rest, others) => step' \in {"idle", "fetch", "find"}
  BY DEF Continue
<1>6. CASE ListStale
  BY <1>4, <1>5, <1>6 DEF ListStale, allVars, vars, publisher, client
<1>7. CASE FetchOrbitRoutes
  BY <1>0, <1>4, <1>5, <1>7 DEF FetchOrbitRoutes, vars, publisher, client
<1>8. CASE FindByReferenceID
  <2>1. PICK j \in pending :
          \/ Continue(pending \ {j}, candidates)
          \/ ~Skipped(j) /\ current' = j /\ step' = "save"
    BY <1>0, <1>8 DEF FindByReferenceID
  <2>2. UNCHANGED <<stage, row>> /\ step = "find"
    BY <1>8 DEF FindByReferenceID, vars, publisher, client
  <2>3. CASE ~Skipped(j) /\ current' = j /\ step' = "save"
    <3>1. j \in PeriodicJob
      BY DEF NInv, VInv, ScheduledMade
    <3>2. row[j] = "none"
      BY <2>2, <2>3, <3>1 DEF Skipped, Undone, RowsTell
    <3>3. NothingFails'
      BY <1>1, <2>2, <2>3 DEF Undone, NothingFails
    <3>4. RowsTell'
      BY <1>2, <1>3, <2>2, <2>3, <3>2 DEF Undone, RowsTell
    <3> QED
      BY <1>2, <3>3, <3>4 DEF Undone
  <2> QED
    BY <1>4, <1>5, <2>1, <2>2, <2>3
<1>9. CASE SaveAndPublish
  <2>1. /\ Write(current, "RECEIVED", TRUE, FALSE)
        /\ Publish(Scheduler, current) /\ step' = "publish" /\ UNCHANGED current
    BY <1>0, <1>9 DEF SaveAndPublish, Write
  <2>2. /\ current \in PeriodicJob /\ Unpublished(current)
    BY <1>9, CurrentFacts DEF SaveAndPublish, Undone, RowsTell
  <2>3. \A j \in Job : row'[j] = IF j = current THEN "RECEIVED" ELSE row[j]
    BY <2>1, CurrentFacts DEF Write
  <2>4. stage'[Scheduler] = "lock"
    BY <2>1, CurrentFacts DEF Publish
  <2>5. NothingFails'
    BY <1>1, <2>1, <2>4 DEF Undone, NothingFails
  <2>6. RowsTell'
    BY <1>2, <1>9, <2>1, <2>2, <2>3, <2>4, CurrentFacts DEF Undone, RowsTell, SaveAndPublish
  <2> QED
    BY <1>2, <2>5, <2>6 DEF Undone
<1>10. CASE PublishReturns
  <2>1. /\ step = "publish" /\ step' = "mark" /\ UNCHANGED <<current, row>>
        /\ stage'[Scheduler] = "free"
    BY <1>10, CurrentFacts DEF PublishReturns, Collect, Undone, NothingFails
  <2>2. NothingFails'
    BY <1>1, <2>1 DEF Undone, NothingFails
  <2>3. RowsTell'
    BY <1>2, <2>1 DEF Undone, RowsTell
  <2> QED
    BY <1>2, <2>2, <2>3 DEF Undone
<1>11. CASE MarkPeriodicQueued
  <2>1. /\ step = "mark" /\ Write(current, "QUEUED", TRUE, FALSE) /\ Continue(pending, candidates)
        /\ UNCHANGED stage
    BY <1>0, <1>11 DEF MarkPeriodicQueued, Write, vars, publisher, client
  <2>2. \A j \in Job : row'[j] = IF j = current THEN "QUEUED" ELSE row[j]
    BY <2>1, CurrentFacts DEF Write
  <2>3. step' \in {"idle", "fetch", "find"}
    BY <1>5, <2>1
  <2>4. NothingFails'
    BY <1>1, <2>1, <2>3 DEF Undone, NothingFails
  <2>5. RowsTell'
    BY <1>2, <1>3, <2>1, <2>2, <2>3, CurrentFacts DEF Undone, RowsTell
  <2> QED
    BY <1>2, <2>4, <2>5 DEF Undone
<1>12. CASE MarkPeriodicDead
  BY <1>12 DEF MarkPeriodicDead, Undone, NothingFails
<1> QED
  BY <1>6, <1>7, <1>8, <1>9, <1>10, <1>11, <1>12 DEF Run

LEMMA RequestUndone ==
  ASSUME NInv, Undone, NEW h \in Caller \ {Scheduler}, Request(h), UNCHANGED <<breaks, progress>>
  PROVE  Undone'
<1>0. UNCHANGED <<step, current>>
  BY DEF progress
<1>1. UNCHANGED <<work, call>>
  BY RequestQuiet DEF NInv, VInv, LInv, Quiet, worker, master
<1>2. ASSUME NEW status, NEW ok, pc[h] \notin {"free", "register"}, Write(Item(h).ref, status, ok, h \in gone)
      PROVE  \A j \in PeriodicJob : row'[j] = row[j]
  <2>1. Item(h).ref \notin PeriodicJob
    BY <1>2, QueueingItem, RefreshAssumption DEF NInv, VInv
  <2> QED
    BY <1>2, <2>1, CurrentFacts DEF Write
<1>3. Handler(h) => \A j \in PeriodicJob : row'[j] = row[j]
  <2>1. CASE SaveReceived(h)
    BY <1>2, <2>1 DEF SaveReceived
  <2>2. CASE MarkQueued(h)
    BY <1>2, <2>2 DEF MarkQueued
  <2>3. CASE MarkDead(h)
    BY <1>2, <2>3 DEF MarkDead
  <2>4. CASE RegisterOperator(h) \/ ClaimInFlight(h) \/ AfterPublish(h)
    BY <2>4 DEF RegisterOperator, ClaimInFlight, AfterPublish
  <2> QED
    BY <2>1, <2>2, <2>3, <2>4 DEF Handler
<1>4. Handler(h) => UNCHANGED <<open, wire, confirms, taken>> /\ stage'[Scheduler] = stage[Scheduler]
  BY CurrentFacts DEF Handler, RegisterOperator, ClaimInFlight, SaveReceived, AfterPublish, MarkQueued, MarkDead,
                      Publish, Collect, vars, publisher, client, link
<1>5. CASE Handler(h)
  BY <1>0, <1>1, <1>3, <1>4, <1>5, RestUndone
<1>6. CASE Publishing(Work(h))
  BY <1>0, <1>1, <1>6, WorkUndone DEF Publishing
<1>7. CASE Disconnect(h) \/ \E e \in Event : Receive(h, e)
  BY <1>0, <1>1, <1>7, RestUndone DEF Disconnect, Cancel, Receive, publisher, client, link
<1> QED
  BY <1>5, <1>6, <1>7 DEF Request

LEMMA ProcessUndone ==
  ASSUME NInv, Undone, NEW s \in Slot, Process(s), UNCHANGED <<faults, progress>>
  PROVE  Undone'
<1>0. ~Fault
  BY DEF Fault, NInv
<1>1. UNCHANGED <<stage, open, wire, confirms, taken, row, step, current>>
  BY DEF Process, FailEarly, TimeOut, Acknowledge, TakeCopy, CallMaster, vars, publisher, client, link, progress
<1>2. /\ work \in [Slot -> {Idle} \union Between \union Awaiting]
      /\ call \in [Exec -> {Free} \union CallState]
  BY DEF NInv, VInv, LInv, OInv, CallTypeOK
<1>3. ASSUME NEW w, SetWork(s, w), w.step # "report"
      PROVE  \A t \in Slot : work'[t] = work[t] \/ work'[t].step # "report"
  BY <1>2, <1>3 DEF SetWork
<1>4. CASE Acknowledge(s)
  BY <1>1, <1>3, <1>4, RestUndone DEF Acknowledge, Idle, master
<1>5. CASE \E j \in Job : TakeCopy(s, j)
  BY <1>1, <1>3, <1>5, RestUndone DEF TakeCopy, Begin, master
<1>6. ASSUME NEW x \in Exec, CallMaster(s, x) PROVE Undone'
  <2>1. work[s].step = "push" /\ work[s] \in Between
    BY <1>2, <1>6, Disjoint DEF CallMaster, Undone, NothingFails
  <2>2. call' = [call EXCEPT ![x] = [step |-> "store", job |-> work[s].job]]
    BY <1>6, <2>1 DEF CallMaster
  <2>3. \A y \in Exec : call'[y] = call[y] \/ call'[y].step \notin {"fail", "dlq"}
    BY <1>2, <2>2
  <2>4. [work[s] EXCEPT !.step = "wait", !.exec = x].step = "wait"
    BY <2>1 DEF Between
  <2>5. \A t \in Slot : work'[t] = work[t] \/ work'[t].step # "report"
    BY <1>3, <1>6, <2>4 DEF CallMaster
  <2> QED
    BY <1>1, <2>3, <2>5, RestUndone
<1> QED
  BY <1>0, <1>4, <1>5, <1>6 DEF Process, FailEarly, TimeOut

LEMMA StoreUndone ==
  ASSUME NInv, Undone, NEW x \in Exec, Store(x), UNCHANGED <<faults, progress>>
  PROVE  Undone'
<1>0. ~Fault
  BY DEF Fault, NInv
<1>1. UNCHANGED <<stage, open, wire, confirms, taken, row, step, current, work>>
  BY DEF Store, Proceed, vars, publisher, client, link, progress
<1>2. call \in [Exec -> {Free} \union CallState] /\ call[x] \in CallState
  BY Disjoint DEF NInv, VInv, LInv, OInv, CallTypeOK, Store
<1>3. call' = [call EXCEPT ![x].step = "complete"]
  BY <1>0 DEF Store, Proceed
<1>4. \A y \in Exec : call'[y] = call[y] \/ call'[y].step \notin {"fail", "dlq"}
  BY <1>2, <1>3 DEF CallState
<1> QED
  BY <1>1, <1>4, RestUndone

LEMMA ReplyUndone ==
  ASSUME NInv, Undone, NEW x \in Exec, Reply(x), UNCHANGED <<faults, progress>>
  PROVE  Undone'
<1> DEFINE j == call[x].job
<1>0. ~Fault
  BY DEF Fault, NInv
<1>1. /\ MarkCompleted(x) /\ UNCHANGED <<stage, open, wire, confirms, taken, step, current>>
  BY DEF Reply, MarkCompleted, MarkStoreDead, MarkTripDetailsDead, Undone, NothingFails,
         vars, publisher, client, link, progress
<1>2. /\ call[x] \in CallState /\ call \in [Exec -> {Free} \union CallState]
      /\ work \in [Slot -> {Idle} \union Between \union Awaiting]
  BY <1>1, Disjoint DEF NInv, VInv, LInv, OInv, CallTypeOK, MarkCompleted
<1>3. j \in Job /\ taken[j] > 0
  BY <1>2 DEF NInv, Dispatched
<1>4. Write(j, "COMPLETED", TRUE, FALSE) /\ Finished(x, TRUE)
  BY <1>0, <1>1 DEF MarkCompleted, Write
<1> HIDE DEF j
<1>5. \A k \in Job : row'[k] = IF k = j THEN "COMPLETED" ELSE row[k]
  BY <1>4, CurrentFacts DEF Write
<1>6. NothingFails'
  <2>1. \A y \in Exec : call'[y] = call[y] \/ call'[y].step = "free"
    BY <1>2, <1>4 DEF Finished, Free
  <2>2. ASSUME NEW s \in Slot, s \in Waiting(x) PROVE work'[s].step = "ack"
    <3>1. work[s] \in Awaiting
      BY <1>2, <2>2, Disjoint DEF Waiting
    <3> QED
      BY <1>4, <2>2, <3>1 DEF Finished, Awaiting
  <2>3. \A s \in Slot : work'[s] = work[s] \/ work'[s].step = "ack"
    BY <1>4, <2>2 DEF Finished
  <2> QED
    BY <1>1, <2>1, <2>3 DEF Undone, NothingFails
<1>7. \A k : Unpublished(k)' = Unpublished(k) /\ (Unpublished(k) => k # j)
  BY <1>1, <1>3, CurrentFacts DEF Unpublished, OnWire
<1>8. RowsTell'
  <2>1. step = "save" => current # j
    BY <1>7, CurrentFacts DEF Undone, RowsTell
  <2> QED
    BY <1>1, <1>5, <1>7, <2>1, CurrentFacts DEF Undone, RowsTell
<1>9. PublishedOnce'
  BY <1>1 DEF Undone, PublishedOnce, OnWire
<1> QED
  BY <1>6, <1>8, <1>9 DEF Undone

LEMMA StepUndone ==
  ASSUME NInv, Undone, [RefreshNext]_refreshVars, UNCHANGED <<faults, breaks>>
  PROVE  Undone'
<1>0. Scheduler \in Caller /\ ~Fault
  BY RefreshAssumption DEF Fault, NInv
<1>1. CASE Elsewhere(Publishing(Work(Scheduler)))
  BY <1>0, <1>1, WorkUndone DEF Elsewhere, Publishing, progress, worker, master
<1>2. ASSUME NEW h \in Caller \ {Scheduler}, Elsewhere(Request(h)) PROVE Undone'
  BY <1>2, RequestUndone DEF Elsewhere
<1>3. ASSUME NEW s \in Slot, Elsewhere(Process(s)) PROVE Undone'
  BY <1>3, ProcessUndone DEF Elsewhere
<1>4. ASSUME NEW x \in Exec, StoreRoute(x) \/ Elsewhere(Reply(x)) PROVE Undone'
  BY <1>4, StoreUndone, ReplyUndone DEF Elsewhere, StoreRoute
<1>5. CASE Elsewhere(Publishing(Environment))
  BY <1>5, BrokerUndone DEF Elsewhere, Publishing, progress, worker, master
<1>6. CASE (\E r \in Route : GrowStale(r) \/ RepairRoute(r)) \/ UNCHANGED refreshVars
  <2>1. UNCHANGED <<stage, open, wire, confirms, taken, step, current, row, work, call>>
    BY <1>6 DEF GrowStale, RepairRoute, refreshVars, allVars, vars, publisher, client, link, progress,
                worker, master
  <2> QED
    BY <2>1, RestUndone
<1>7. ~RestartMaster
  BY <1>0 DEF RestartMaster, Restart
<1> QED
  BY <1>1, <1>2, <1>3, <1>4, <1>5, <1>6, <1>7, RunUndone DEF RefreshNext

LEMMA InitNInv == RefreshInit => NInv
<1> SUFFICES ASSUME RefreshInit PROVE NInv
  OBVIOUS
<1> USE DEF RefreshInit, LifecycleInit, Init
<1>1. VInv /\ faults \in Nat
  BY InitVInv
<1>2. SchedulerCalls
  BY RefreshAssumption, NoJobMade DEF SchedulerCalls
<1>3. Dispatched
  BY DEF Dispatched, Free, CallState
<1>4. 1 .. Len(<<>>) = {}
  OBVIOUS
<1>5. NothingFails
  BY <1>4, RefreshAssumption DEF NothingFails, Idle, Free
<1>6. RowsTell
  BY <1>4, RefreshAssumption DEF RowsTell, Unpublished, OnWire
<1>7. PublishedOnce
  BY <1>4, RefreshAssumption DEF PublishedOnce, OnWire
<1> QED
  BY <1>1, <1>2, <1>3, <1>5, <1>6, <1>7 DEF NInv

LEMMA StepNInv == NInv /\ [RefreshNext]_refreshVars => NInv'
<1> SUFFICES ASSUME NInv, [RefreshNext]_refreshVars PROVE NInv'
  OBVIOUS
<1>1. VInv' /\ SchedulerCalls' /\ Dispatched'
  BY StepVInv, CallsStep, DispatchedStep DEF NInv
<1>2. faults' \in Nat /\ (Calm' => Calm /\ UNCHANGED <<faults, breaks>>)
  BY CountsStep
<1>3. ASSUME Calm' PROVE Undone'
  BY <1>2, <1>3, StepUndone DEF NInv, Undone
<1> QED
  BY <1>1, <1>2, <1>3 DEF NInv, Undone

(* While no call and nothing at the broker fails, every periodic job is on    *)
(* the broker at most once, whatever runs, requests, results and cancelled    *)
(* clients interleave (orbit_route_refresh.go:266).                          *)
THEOREM PublishedAtMostOnce == RefreshSpec => []NoRepublication
<1>1. NInv => NoRepublication
  BY DEF NInv, Calm, PublishedOnce, NoRepublication
<1> QED
  BY <1>1, InitNInv, StepNInv, PTL DEF RefreshSpec

-----------------------------------------------------------------------------
(* What JobLifecycle promises of the requests holds next to the scheduler.   *)

LEMMA RunRows == ASSUME RowTypeOK, Run PROVE RowsStay
<1>1. CASE SaveAndPublish
  BY <1>1, WriteStays DEF SaveAndPublish, Status
<1>2. CASE MarkPeriodicQueued
  BY <1>2, WriteStays DEF MarkPeriodicQueued, Status
<1>3. CASE MarkPeriodicDead
  BY <1>3, WriteStays DEF MarkPeriodicDead, Status
<1>4. CASE ListStale \/ FetchOrbitRoutes \/ FindByReferenceID \/ PublishReturns
  BY <1>4 DEF ListStale, FetchOrbitRoutes, FindByReferenceID, PublishReturns, allVars, RowsStay
<1> QED
  BY <1>1, <1>2, <1>3, <1>4 DEF Run

LEMMA RunHInv == ASSUME VInv, HInv, Run PROVE HInv'
<1>1. PInv' /\ RowsStay /\ RowTypeOK'
  BY RunVInv, RunRows, RunQuiet DEF VInv, LInv
<1>2. UNCHANGED <<handler, cancels>>
  BY SplitRun
<1>3. faults' \in Nat /\ (faults' = 0 => faults = 0)
  BY RunFaults DEF HInv
<1>4. Recorded \subseteq Recorded'
  BY <1>1 DEF Recorded, RowsStay
<1>5. PublishedRecorded'
  <2>1. CASE UNCHANGED <<stage, job>>
    BY <1>4, <2>1, SplitRun DEF HInv, PublishedRecorded, PublishedJobs
  <2>2. CASE SaveAndPublish /\ Publish(Scheduler, current)
    <3>1. current \in Job /\ Scheduler \in Caller
      BY <2>2, RefreshAssumption DEF VInv, ScheduledMade, SaveAndPublish
    <3>2. Write(current, "RECEIVED", TRUE, FALSE)
      <4>1. stage' # stage
        BY <2>2, <3>1 DEF Publish, HInv, PInv, TypeOK
      <4> QED
        BY <2>2, <4>1 DEF SaveAndPublish, vars, publisher, client
    <3>3. row'[current] = "RECEIVED"
      BY <3>1, <3>2 DEF Write, HInv, RowTypeOK
    <3>4. PublishedJobs' \subseteq PublishedJobs \union {current}
      BY <2>2, <3>1, PublishAdds DEF VInv
    <3> QED
      BY <1>4, <3>1, <3>3, <3>4 DEF HInv, PublishedRecorded, Recorded
  <2>3. CASE PublishReturns
    <3>1. PublishedJobs' \subseteq PublishedJobs
      BY <2>3, PublisherAdds, RefreshAssumption DEF PublishReturns, VInv
    <3> QED
      BY <1>4, <3>1 DEF HInv, PublishedRecorded
  <2> QED
    BY <2>1, <2>2, <2>3, SplitRun
<1> QED
  BY <1>1, <1>2, <1>3, <1>5, HandlersRest DEF HInv

LEMMA RefreshStepHInv == VInv /\ HInv /\ [RefreshNext]_refreshVars => HInv'
  BY RefreshSplit, RunHInv, StepHInv

(* With the scheduler as a second publisher, requests still hold their own    *)
(* claims, nothing gets to the broker without a row, confirmations are their  *)
(* caller's own, and no item is dropped.                                     *)
THEOREM RefreshKeepsRequests ==
  RefreshSpec => [](/\ ClaimsAreHeld /\ PublishedIsRecorded
                    /\ ConfirmedUnlessCancelled /\ CollapsedIsRecorded)
<1>1. RefreshInit => HInv
  BY InitHInv DEF RefreshInit
<1>2. HInv => /\ ClaimsAreHeld /\ PublishedIsRecorded
              /\ ConfirmedUnlessCancelled /\ CollapsedIsRecorded
  BY HInvImplies
<1> QED
  BY <1>1, <1>2, InitVInv, StepVInv, RefreshStepHInv, PTL DEF RefreshSpec

=============================================================================
