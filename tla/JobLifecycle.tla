---------------------------- MODULE JobLifecycle ----------------------------
(***************************************************************************)
(* One refresh job from the inventory event to its outcome, as the Master   *)
(* sees it: request handlers register the operator, claim the route, save   *)
(* the queue_metrix row, publish through InventoryPublisher and mark the    *)
(* row; Worker processes take the published copies and call back with       *)
(* results or dead-letter notices; the Master's calls go on after their     *)
(* caller has timed out, and they write the same row.                       *)
(*                                                                          *)
(* A Worker is reduced to what WorkerDelivery lets the Master observe.      *)
(***************************************************************************)
EXTENDS InventoryPublisher, FiniteSets, SequencesExt

CONSTANTS Event,        \* inventory events: sequences of items
          Inactive,     \* items whose operator is not active
          Slot,         \* Worker goroutines
          Exec,         \* /api/tripdetails requests the Master executes at once
          NoExec,       \* a Worker goroutine waits for no request
          MaxAttempts,  \* WorkerConfig.MaxAttempts
          MaxFaults     \* bound: failed calls, lost answers and restarts

Items == UNION {Range(e) : e \in Event}

(* An item names its job (refid) and its route (the key of dedupKey). *)
ASSUME LifecycleAssumption ==
  /\ \A e \in Event : e \in Seq(Items)
  /\ \A i \in Items : i.ref \in Job
  /\ IsFiniteSet(Slot)
  /\ NoExec \notin Exec
  /\ MaxAttempts \in Nat \ {0}
  /\ MaxFaults \in Nat

VARIABLES
  pc,        \* pc[h]: where request handler h is in ReceiveInventoryChange
  todo,      \* todo[h]: the items it has not finished, the current one first
  event,     \* event[h]: the event it was given
  inFlight,  \* routes claimed by a handler
  row,       \* row[j]: queue_status of job j's queue_metrix row
  answered,  \* items of events that were answered with status 1
  work,      \* work[s]: what Worker goroutine s does for which job
  call,      \* call[x]: a /api/tripdetails request in execution
  done,      \* done[j]: copies of j that were acknowledged
  discarded, \* jobs a Worker acknowledged unread: their date was over
  stored,    \* jobs whose result was stored at least once
  reported,  \* jobs whose dead-letter report was recorded
  faults

handler == <<pc, todo, event, inFlight, answered>>
worker  == <<work, done, discarded>>
master  == <<call, stored, reported>>
allVars == <<vars, handler, worker, master, row, faults>>

Status == {"none", "RECEIVED", "QUEUED", "COMPLETED", "DEAD"}
Idle   == [step |-> "idle"]
Free   == [step |-> "free"]

LifecycleInit ==
  /\ Init
  /\ pc = [h \in Caller |-> "free"]
  /\ todo = [h \in Caller |-> <<>>]
  /\ event = [h \in Caller |-> <<>>]
  /\ inFlight = {}
  /\ row = [j \in Job |-> "none"]
  /\ answered = {}
  /\ work = [s \in Slot |-> Idle]
  /\ call = [x \in Exec |-> Free]
  /\ done = [j \in Job |-> 0]
  /\ discarded = {}
  /\ stored = {}
  /\ reported = {}
  /\ faults = 0

Fault == faults < MaxFaults /\ faults' = faults + 1

-----------------------------------------------------------------------------
(* The queue_metrix row.                                                    *)

(* A write of the row either succeeds, or fails with or without effect; a    *)
(* request whose client is gone fails before anything is written.           *)
Write(j, status, ok, cancelled) ==
  \/ /\ ok /\ ~cancelled
     /\ row' = [row EXCEPT ![j] = status]
     /\ UNCHANGED faults
  \/ /\ ~ok /\ cancelled
     /\ UNCHANGED <<row, faults>>
  \/ /\ ~ok /\ ~cancelled
     /\ Fault
     /\ row' \in {row, [row EXCEPT ![j] = status]}

-----------------------------------------------------------------------------
(* A request handler: ReceiveInventoryChange.                               *)

Item(h) == Head(todo[h])

GoTo(h, step) == pc' = [pc EXCEPT ![h] = step]

(* The loop's next item. *)
NextItem(h) == /\ GoTo(h, "register")
               /\ todo' = [todo EXCEPT ![h] = Tail(@)]
               /\ UNCHANGED <<event, answered>>

Answer(h, ok) == /\ GoTo(h, "free")
                 /\ todo' = [todo EXCEPT ![h] = <<>>]
                 /\ event' = [event EXCEPT ![h] = <<>>]
                 /\ answered' = IF ok THEN answered \union Range(event[h]) ELSE answered

Claim(h)   == inFlight' = inFlight \union {Item(h).route}
Release(h) == inFlight' = inFlight \ {Item(h).route}

(* POST /api/orionmax/inventory/events *)
Receive(h, e) ==
  /\ pc[h] = "free"
  /\ calls < MaxCalls
  /\ calls' = calls + 1
  /\ gone' = gone \ {h}
  /\ GoTo(h, "register")
  /\ todo' = [todo EXCEPT ![h] = e]
  /\ event' = [event EXCEPT ![h] = e]
  /\ UNCHANGED <<publisher, cancels, breaks, inFlight, answered, worker, master, row, faults>>

(* Mutant: the route of an inactive operator is claimed and never released. *)
RegisterOperatorClaiming(h) ==
  /\ pc[h] = "register"
  /\ \/ /\ todo[h] = <<>>
        /\ Answer(h, TRUE)
        /\ UNCHANGED <<inFlight, faults>>
     \/ /\ todo[h] # <<>> /\ h \notin gone
        /\ IF Item(h) \in Inactive
           THEN NextItem(h) /\ Claim(h)
           ELSE GoTo(h, "claim") /\ UNCHANGED <<todo, event, answered, inFlight>>
        /\ UNCHANGED faults
  /\ UNCHANGED <<vars, worker, master, row>>

(* RegisterOperator: an active operator, an inactive one, or an error.       *)
(* Without items left the request is answered.                              *)
RegisterOperator(h) ==
  /\ pc[h] = "register"
  /\ \/ /\ todo[h] = <<>>
        /\ Answer(h, TRUE)
        /\ UNCHANGED faults
     \/ /\ todo[h] # <<>> /\ h \notin gone
        /\ IF Item(h) \in Inactive
           THEN NextItem(h)
           ELSE GoTo(h, "claim") /\ UNCHANGED <<todo, event, answered>>
        /\ UNCHANGED faults
     \/ /\ todo[h] # <<>>
        /\ IF h \in gone THEN UNCHANGED faults ELSE Fault
        /\ Answer(h, FALSE)
  /\ UNCHANGED <<vars, inFlight, worker, master, row>>

ClaimInFlight(h) ==
  /\ pc[h] = "claim"
  /\ \/ /\ Item(h).route \in inFlight
        /\ NextItem(h)
        /\ UNCHANGED inFlight
     \/ /\ Item(h).route \notin inFlight
        /\ Claim(h)
        /\ GoTo(h, "save")
        /\ UNCHANGED <<todo, event, answered>>
  /\ UNCHANGED <<vars, worker, master, row, faults>>

(* Mutant: a row that could not be saved does not stop the publication. *)
SaveReceivedBestEffort(h) ==
  /\ pc[h] = "save"
  /\ \E ok \in BOOLEAN : Write(Item(h).ref, "RECEIVED", ok, h \in gone)
  /\ \/ Publish(h, Item(h).ref) /\ GoTo(h, "publish") /\ UNCHANGED <<calls, gone>>
     \/ GoTo(h, "dead") /\ UNCHANGED vars
  /\ UNCHANGED <<todo, event, answered, inFlight, worker, master>>

(* buildInventoryRefreshJob and SaveReceived: the row is saved whether or    *)
(* not the job could be built.                                              *)
SaveReceived(h) ==
  /\ pc[h] = "save"
  /\ \/ /\ Write(Item(h).ref, "RECEIVED", TRUE, h \in gone)
        /\ \/ Publish(h, Item(h).ref) /\ GoTo(h, "publish") /\ UNCHANGED <<calls, gone>>
           \/ GoTo(h, "dead") /\ UNCHANGED vars
        /\ UNCHANGED <<todo, event, answered, inFlight>>
     \/ /\ Write(Item(h).ref, "RECEIVED", FALSE, h \in gone)
        /\ Release(h)
        /\ Answer(h, FALSE)
        /\ UNCHANGED vars
  /\ UNCHANGED <<worker, master>>

(* The publisher's result. *)
AfterPublish(h) ==
  /\ pc[h] = "publish"
  /\ Collect(h)
  /\ GoTo(h, IF stage[h] = "ok" THEN "mark" ELSE "dead")
  /\ UNCHANGED <<calls, gone, todo, event, inFlight, answered, worker, master, row, faults>>

MarkQueued(h) ==
  /\ pc[h] = "mark"
  /\ \/ /\ Write(Item(h).ref, "QUEUED", TRUE, h \in gone)
        /\ NextItem(h)
     \/ /\ Write(Item(h).ref, "QUEUED", FALSE, h \in gone)
        /\ Answer(h, FALSE)
  /\ Release(h)
  /\ UNCHANGED <<vars, worker, master>>

(* Mutant: the failed publication returns without releasing the route. *)
MarkDeadAndReturn(h) ==
  /\ pc[h] = "dead"
  /\ \E ok \in BOOLEAN : Write(Item(h).ref, "DEAD", ok, h \in gone)
  /\ Answer(h, FALSE)
  /\ UNCHANGED <<vars, inFlight, worker, master>>

(* markDead: a write that fails is only logged. *)
MarkDead(h) ==
  /\ pc[h] = "dead"
  /\ \E ok \in BOOLEAN : Write(Item(h).ref, "DEAD", ok, h \in gone)
  /\ Release(h)
  /\ Answer(h, FALSE)
  /\ UNCHANGED <<vars, worker, master>>

Handler(h) ==
  \/ RegisterOperator(h) \/ ClaimInFlight(h) \/ SaveReceived(h)
  \/ AfterPublish(h) \/ MarkQueued(h) \/ MarkDead(h)

-----------------------------------------------------------------------------
(* A Worker goroutine with one copy of a job.                               *)

Holders(j) == {s \in Slot : work[s].step # "idle" /\ work[s].job = j}

SetWork(s, w) == work' = [work EXCEPT ![s] = w]

(* After a failed attempt: another one, or the dead-letter report.           *)
NextAttempt(w) ==
  IF w.attempt < MaxAttempts
  THEN [w EXCEPT !.step = "push", !.attempt = @ + 1, !.exec = NoExec]
  ELSE [w EXCEPT !.step = "report", !.exec = NoExec]

Begin(s, j, first) ==
  SetWork(s, [step |-> first, job |-> j, attempt |-> 1, exec |-> NoExec])

(* A copy is delivered, for the first time or again.  A job that is not      *)
(* valid, its date having passed in the queue, is acknowledged at once: the  *)
(* Master is told nothing.  No later copy of it is valid either.             *)
TakeCopy(s, j) ==
  /\ work[s] = Idle
  /\ taken[j] > done[j] + Cardinality(Holders(j))
  /\ \/ j \notin discarded /\ Begin(s, j, "push") /\ UNCHANGED discarded
     \/ Begin(s, j, "ack") /\ discarded' = discarded \union {j}
  /\ UNCHANGED <<vars, handler, done, master, row, faults>>

(* An attempt ends before the push: Orbit, health or BITS failed.  What will *)
(* not be better at the next attempt (BITS refuses, or the date passed since *)
(* the delivery) is reported at once.                                       *)
FailEarly(s) ==
  /\ work[s].step = "push"
  /\ Fault
  /\ \/ SetWork(s, NextAttempt(work[s]))
     \/ SetWork(s, [work[s] EXCEPT !.step = "report"])
  /\ UNCHANGED <<vars, handler, done, discarded, master, row>>

(* The push or the dead-letter report reaches the Master.                    *)
CallMaster(s, x) ==
  /\ work[s].step \in {"push", "report"}
  /\ call[x] = Free
  /\ call' = [call EXCEPT ![x] = [step |-> IF work[s].step = "push" THEN "store" ELSE "dlq",
                                  job  |-> work[s].job]]
  /\ SetWork(s, [work[s] EXCEPT !.step = "wait", !.exec = x])
  /\ UNCHANGED <<vars, handler, done, discarded, stored, reported, row, faults>>

Reporting(s) == call[work[s].exec].step = "dlq"

(* What the Worker makes of a call that did not succeed: a push is retried,  *)
(* a failed report leaves the delivery unacknowledged, to be redelivered.    *)
AfterFailure(s) == IF Reporting(s) THEN Idle ELSE NextAttempt(work[s])

(* Mutant: no answer is taken for success. *)
TimeOutAnswered(s) ==
  /\ work[s].step = "wait"
  /\ Fault
  /\ SetWork(s, [work[s] EXCEPT !.step = "ack", !.exec = NoExec])
  /\ UNCHANGED <<vars, handler, done, discarded, master, row>>

(* The client's timeout; the Master goes on with the call.                   *)
TimeOut(s) ==
  /\ work[s].step = "wait"
  /\ Fault
  /\ SetWork(s, AfterFailure(s))
  /\ UNCHANGED <<vars, handler, done, discarded, master, row>>

(* The acknowledgement is processed, or lost with its channel.               *)
Acknowledge(s) ==
  /\ work[s].step = "ack"
  /\ SetWork(s, Idle)
  /\ \/ done' = [done EXCEPT ![work[s].job] = @ + 1] /\ UNCHANGED faults
     \/ done' = done /\ Fault
  /\ UNCHANGED <<vars, handler, discarded, master, row>>

-----------------------------------------------------------------------------
(* The Master executes /api/tripdetails and /api/tripdetails/dlq.           *)

Waiting(x) == {s \in Slot : work[s].step = "wait" /\ work[s].exec = x}

(* The call ends; whoever still waits for it has the answer.                 *)
Finished(x, ok) ==
  /\ call' = [call EXCEPT ![x] = Free]
  /\ work' = [s \in Slot |-> IF s \notin Waiting(x) THEN work[s]
                             ELSE IF ok THEN [work[s] EXCEPT !.step = "ack", !.exec = NoExec]
                                        ELSE AfterFailure(s)]

Proceed(x, step) == call' = [call EXCEPT ![x].step = step] /\ UNCHANGED work

(* Mutant: a storage error is logged and the row completed. *)
StoreBestEffort(x) ==
  /\ call[x].step = "store"
  /\ \/ stored' = stored \union {call[x].job} /\ UNCHANGED faults
     \/ Fault /\ UNCHANGED stored
  /\ Proceed(x, "complete")
  /\ UNCHANGED <<vars, handler, done, discarded, reported, row>>

(* TripDetailsStorage.Store, and what ReceiveTripDetails does next.          *)
Store(x) ==
  /\ call[x].step = "store"
  /\ \/ /\ stored' = stored \union {call[x].job}
        /\ Proceed(x, "complete")
        /\ UNCHANGED faults
     \/ /\ Fault
        /\ Proceed(x, "fail")
        /\ UNCHANGED stored
  /\ UNCHANGED <<vars, handler, done, discarded, reported, row>>

MarkCompleted(x) ==
  /\ call[x].step = "complete"
  /\ \E ok \in BOOLEAN : /\ Write(call[x].job, "COMPLETED", ok, FALSE)
                         /\ Finished(x, ok)
  /\ UNCHANGED <<vars, handler, done, discarded, stored, reported>>

(* TripDetailsService.markDead: logs a failed write; the push has failed.    *)
MarkStoreDead(x) ==
  /\ call[x].step = "fail"
  /\ \E ok \in BOOLEAN : Write(call[x].job, "DEAD", ok, FALSE)
  /\ Finished(x, FALSE)
  /\ UNCHANGED <<vars, handler, done, discarded, stored, reported>>

(* MarkTripDetailsDead runs under the request's context: after a timeout of  *)
(* the Worker it fails.                                                     *)
MarkTripDetailsDead(x) ==
  /\ call[x].step = "dlq"
  /\ \E ok \in BOOLEAN :
       /\ Write(call[x].job, "DEAD", ok, Waiting(x) = {})
       /\ reported' = IF ok THEN reported \union {call[x].job} ELSE reported
       /\ Finished(x, ok)
  /\ UNCHANGED <<vars, handler, done, discarded, stored>>

(* The Master process dies and starts again with nothing in memory.          *)
Restart ==
  /\ Fault
  /\ stage' = [c \in Caller |-> "free"]
  /\ job' = [c \in Caller |-> NoJob]
  /\ tries' = [c \in Caller |-> 0]
  /\ mutex' = NoOne
  /\ open' = TRUE /\ wire' = <<>> /\ confirms' = <<>>
  /\ pc' = [h \in Caller |-> "free"]
  /\ todo' = [h \in Caller |-> <<>>]
  /\ event' = [h \in Caller |-> <<>>]
  /\ inFlight' = {}
  /\ call' = [x \in Exec |-> Free]
  /\ work' = [s \in Slot |-> IF work[s].step = "wait" THEN AfterFailure(s) ELSE work[s]]
  /\ UNCHANGED <<taken, gone, calls, cancels, breaks, answered, done, discarded, stored, reported, row>>

(* After Store, or without it.                                               *)
Reply(x) == MarkCompleted(x) \/ MarkStoreDead(x) \/ MarkTripDetailsDead(x)

(* Steps inside the publisher.                                               *)
Publishing(step) ==
  step /\ UNCHANGED <<gone, calls, handler, worker, master, row, faults>>

Disconnect(h) == /\ pc[h] # "free"
                 /\ Cancel(h)
                 /\ UNCHANGED <<calls, handler, worker, master, row, faults>>

(* One request of Orionmax, from its arrival to its answer.                  *)
Request(h) == \/ Handler(h) \/ Publishing(Work(h)) \/ Disconnect(h)
              \/ \E e \in Event : Receive(h, e)

(* One Worker goroutine.                                                     *)
Process(s) == \/ FailEarly(s) \/ TimeOut(s) \/ Acknowledge(s)
              \/ \E j \in Job : TakeCopy(s, j)
              \/ \E x \in Exec : CallMaster(s, x)

LifecycleNext ==
  \/ \E h \in Caller : Request(h)
  \/ \E s \in Slot : Process(s)
  \/ \E x \in Exec : Store(x) \/ Reply(x)
  \/ Publishing(Environment)
  \/ Restart

LifecycleSpec == LifecycleInit /\ [][LifecycleNext]_allVars

(* Goroutines run, sync.Mutex starves nobody, calls to Cassandra return, and *)
(* the broker serves an open channel.                                        *)
LifecycleFairness ==
  /\ WF_allVars(Publishing(BrokerStores))
  /\ \A h \in Caller :
       /\ WF_allVars(Handler(h))
       /\ WF_allVars(Publishing(Work(h)))
       /\ SF_allVars(Publishing(Lock(h)))

LifecycleFairSpec == LifecycleSpec /\ LifecycleFairness

-----------------------------------------------------------------------------
(* Every claim belongs to the one handler that is queueing that route, and   *)
(* every handler past its claim still has it: no path out of the loop, on    *)
(* any error, leaks a claim or gives up another handler's.                   *)
Queueing == {h \in Caller : pc[h] \in {"save", "publish", "mark", "dead"}}
ClaimsAreHeld ==
  /\ inFlight = {Item(h).route : h \in Queueing}
  /\ \A g, h \in Queueing : g # h => Item(g).route # Item(h).route

(* A job is on the broker only after its row was saved: every result that    *)
(* comes back finds a row to update (queue_metrix.go:41).                    *)
PublishedIsRecorded == \A j \in Job : taken[j] > 0 => row[j] # "none"

(* COMPLETED is never shown for a job whose result was not stored, whatever  *)
(* calls time out, overtake each other or are repeated.                      *)
CompletedIsStored == \A j \in Job : row[j] = "COMPLETED" => j \in stored

(* The whole pipeline keeps the contract: a copy is acknowledged only for a  *)
(* job whose result the Master stored, whose failure it recorded, or that a  *)
(* Worker discarded because its date was over.                               *)
Outcomes == {"stored", "dead", "discarded"}

JobsWith(o) == IF o = "stored" THEN stored ELSE IF o = "dead" THEN reported ELSE discarded

Contract == INSTANCE DeliveryContract
              WITH Msg     <- Job,
                   Outcome <- Outcomes,
                   settled <- {j \in Job : done[j] > 0},
                   outcome <- [j \in Job |-> {o \in Outcomes : j \in JobsWith(o)}]
KeepsContract == Contract!Spec

(* Every request is answered, whatever breaks: the publisher's retry loop is *)
(* bounded, a dead channel wakes the waiting caller, and no path keeps the   *)
(* mutex (inventory_event_publisher.go:79).                                  *)
RequestAnswered == \A h \in Caller : pc[h] # "free" ~> pc[h] = "free"

(* What a request has left to do, at most: an item takes up to ten steps,    *)
(* two turns of the publisher's retry loop (inventory_event_publisher.go:96) *)
(* included.                                                                 *)
Position == [register |-> 9, claim |-> 8, save |-> 7, mark |-> 1, dead |-> 1]
Sending  == [lock |-> 6, send |-> 5, await |-> 3, ok |-> 2, error |-> 2]
RequestLeft(h) ==
  IF pc[h] = "free" THEN 0
  ELSE 10 * Len(todo[h]) +
         IF pc[h] # "publish" THEN Position[pc[h]]
         ELSE Sending[stage[h]] - IF stage[h] = "send" THEN tries[h] ELSE 0

(* A request cannot run for ever: each step of its own leaves it less to do, *)
(* and nothing the broker, the Workers or the other requests do in the       *)
(* meantime gives it more.                                                   *)
RequestIsBounded ==
  [][\A h \in Caller :
       pc[h] # "free" =>
         /\ RequestLeft(h) \in Nat \ {0}
         /\ RequestLeft(h)' <= RequestLeft(h)
         /\ Handler(h) \/ Publishing(Work(h)) => RequestLeft(h)' < RequestLeft(h)]_allVars

(* create_cassandra_tables.cql:24, "RECEIVED -> QUEUED -> COMPLETED, or ->    *)
(* DEAD on failure": a COMPLETED row only changes when its job is received   *)
(* again.                                                                    *)
CompletedIsFinal ==
  [][\A j \in Job : row[j] = "COMPLETED" => row'[j] \in {"COMPLETED", "RECEIVED"}]_allVars

(* An item is collapsed into another of its route only when that one is       *)
(* recorded: once the requests are answered, every route of an item that was *)
(* answered with status 1 has a row, unless something failed meanwhile.  The *)
(* row need not be the item's own, as README.md:94 has it.                   *)
CollapsedIsRecorded ==
  (\A h \in Caller : pc[h] = "free") /\ faults = 0 /\ cancels = 0 =>
    \A i \in answered \ Inactive :
      \E k \in Items : k.route = i.route /\ row[k.ref] # "none"

=============================================================================
