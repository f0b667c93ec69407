------------------------- MODULE JobLifecycleProofs -------------------------
(***************************************************************************)
(* Proofs about JobLifecycle: a COMPLETED row means a stored result, the     *)
(* pipeline keeps the delivery contract, claims and rows are kept, and every *)
(* request has a bounded number of steps before it, for any number of        *)
(* requests, Worker goroutines, concurrent calls, attempts and faults.       *)
(***************************************************************************)
EXTENDS JobLifecycle, InventoryPublisherProofs, FiniteSetTheorems

(* What a Worker goroutine and a call to the Master can look like.           *)
Between   == [step : {"push", "report", "ack"}, job : Job, attempt : Nat, exec : {NoExec}]
Awaiting  == [step : {"wait"}, job : Job, attempt : Nat, exec : Exec]
CallState == [step : {"store", "complete", "fail", "dlq"}, job : Job]

CallTypeOK ==
  /\ work \in [Slot -> {Idle} \union Between \union Awaiting]
  /\ call \in [Exec -> {Free} \union CallState]
  /\ done \in [Job -> Nat]

(* A goroutine that waits for a call waits for one about its own job: a call *)
(* is free again only after whoever waited for it has its answer.            *)
WaitsForOwn ==
  \A s \in Slot : work[s] \in Awaiting =>
    call[work[s].exec] \in CallState /\ call[work[s].exec].job = work[s].job

(* What is about to be marked COMPLETED is stored.                           *)
CompletesStored ==
  \A x \in Exec : call[x] \in CallState /\ call[x].step = "complete" => call[x].job \in stored

(* What is acknowledged, or about to be, has an outcome.                     *)
Settled == stored \union reported \union discarded
AckHasOutcome ==
  /\ \A s \in Slot : work[s] \in Between /\ work[s].step = "ack" => work[s].job \in Settled
  /\ \A j \in Job : done[j] > 0 => j \in Settled

OInv == CallTypeOK /\ WaitsForOwn /\ CompletesStored /\ AckHasOutcome /\ CompletedIsStored

LEMMA Disjoint ==
  /\ \A w \in {Idle} \union Between \union Awaiting :
       /\ w.step = "idle" <=> w = Idle
       /\ w.step \in {"push", "report", "ack"} <=> w \in Between
       /\ w.step = "wait" <=> w \in Awaiting
       /\ w \in Awaiting => w \notin Between
  /\ \A c \in {Free} \union CallState : c.step # "free" <=> c \in CallState
  BY DEF Idle, Free, Between, Awaiting, CallState

-----------------------------------------------------------------------------
(* Steps that touch neither the Workers nor their calls.                     *)

(* No row becomes COMPLETED, and nothing else that OInv is about changes.    *)
Quiet == /\ UNCHANGED <<worker, master>>
         /\ \A j \in Job : row'[j] = "COMPLETED" => row[j] = "COMPLETED"

LEMMA QuietStep == ASSUME OInv, Quiet PROVE OInv'
  BY DEF OInv, Quiet, worker, master, CallTypeOK, WaitsForOwn, CompletesStored,
         AckHasOutcome, Settled, CompletedIsStored

LEMMA WriteQuiet ==
  ASSUME row \in [Job -> Status], NEW j, NEW status, status # "COMPLETED",
         NEW ok, NEW cancelled, Write(j, status, ok, cancelled)
  PROVE  /\ row' \in [Job -> Status \union {status}]
         /\ \A k \in Job : row'[k] = "COMPLETED" => row[k] = "COMPLETED"
  BY DEF Write

LEMMA WriteAny ==
  ASSUME row \in [Job -> Status], NEW j, NEW status, NEW ok, NEW cancelled,
         Write(j, status, ok, cancelled)
  PROVE  /\ row' \in [Job -> Status \union {status}]
         /\ \A k \in Job : k # j => row'[k] = row[k]
         /\ \A k \in Job : row'[k] \in {row[k], status}
  BY DEF Write

-----------------------------------------------------------------------------
(* A Worker goroutine.                                                       *)

LEMMA NextAttemptFacts ==
  ASSUME NEW w \in Between \union Awaiting
  PROVE  /\ NextAttempt(w) \in Between
         /\ NextAttempt(w).job = w.job
         /\ NextAttempt(w).step # "ack"
<1>1. [w EXCEPT !.step = "push", !.attempt = @ + 1, !.exec = NoExec] \in Between
  <2>1. w.attempt + 1 \in Nat
    BY DEF Between, Awaiting
  <2>2. \A n \in Nat : [w EXCEPT !.step = "push", !.attempt = n, !.exec = NoExec] \in Between
    BY DEF Between, Awaiting
  <2> QED
    BY <2>1, <2>2
<1>2. [w EXCEPT !.step = "report", !.exec = NoExec] \in Between
  BY DEF Between, Awaiting
<1>3. /\ [w EXCEPT !.step = "push", !.attempt = @ + 1, !.exec = NoExec].job = w.job
      /\ [w EXCEPT !.step = "push", !.attempt = @ + 1, !.exec = NoExec].step = "push"
  BY DEF Between, Awaiting
<1>4. /\ [w EXCEPT !.step = "report", !.exec = NoExec].job = w.job
      /\ [w EXCEPT !.step = "report", !.exec = NoExec].step = "report"
  BY DEF Between, Awaiting
<1> QED
  BY <1>1, <1>2, <1>3, <1>4 DEF NextAttempt

LEMMA AfterFailureFacts ==
  ASSUME NEW s \in Slot, work[s] \in Awaiting
  PROVE  /\ AfterFailure(s) \in {Idle} \union Between
         /\ AfterFailure(s) \in Between => AfterFailure(s).step # "ack"
  BY NextAttemptFacts DEF AfterFailure, Idle, Between

(* A goroutine changes its own state to one that does not wait.              *)
LEMMA OwnStep ==
  ASSUME OInv, NEW s \in Slot, NEW w \in {Idle} \union Between, SetWork(s, w),
         discarded \subseteq discarded',
         w \in Between /\ w.step = "ack" => w.job \in Settled',
         UNCHANGED <<done, master, row>>
  PROVE  OInv'
<1> USE DEF OInv
<1>1. CallTypeOK'
  BY DEF CallTypeOK, SetWork, master
<1>2. \A t \in Slot : work'[t] = IF t = s THEN w ELSE work[t]
  BY DEF CallTypeOK, SetWork
<1>3. WaitsForOwn'
  BY <1>2, Disjoint DEF CallTypeOK, WaitsForOwn, master
<1>4. AckHasOutcome'
  <2>1. Settled \subseteq Settled'
    BY DEF Settled, master
  <2> QED
    BY <1>2, <2>1 DEF AckHasOutcome
<1> QED
  BY <1>1, <1>3, <1>4 DEF CompletesStored, CompletedIsStored, master

LEMMA ProcessStep == ASSUME OInv, NEW s \in Slot, Process(s) PROVE OInv'
<1> USE DEF OInv
<1>0. work[s] \in {Idle} \union Between \union Awaiting
  BY DEF CallTypeOK
<1>1. CASE FailEarly(s)
  <2>1. work[s] \in Between
    BY <1>0, <1>1, Disjoint DEF FailEarly
  <2>2. /\ [work[s] EXCEPT !.step = "report"] \in Between
        /\ [work[s] EXCEPT !.step = "report"].step = "report"
    BY <2>1 DEF Between
  <2> QED
    BY <1>1, <2>1, <2>2, NextAttemptFacts, OwnStep DEF FailEarly
<1>2. CASE TimeOut(s)
  <2>1. work[s] \in Awaiting
    BY <1>0, <1>2, Disjoint DEF TimeOut
  <2> QED
    BY <1>2, <2>1, AfterFailureFacts, OwnStep DEF TimeOut
<1>3. CASE Acknowledge(s)
  <2>1. work[s] \in Between /\ work[s].job \in Job /\ work[s].job \in Settled
    BY <1>0, <1>3, Disjoint DEF Acknowledge, Between, AckHasOutcome
  <2>2. CASE done' = done
    BY <1>3, <2>2, OwnStep DEF Acknowledge, Idle, Between
  <2>3. CASE done' = [done EXCEPT ![work[s].job] = @ + 1]
    <3>1. CallTypeOK'
      BY <1>3, <2>1, <2>3 DEF CallTypeOK, Acknowledge, SetWork, master
    <3>2. \A t \in Slot : work'[t] = IF t = s THEN Idle ELSE work[t]
      BY <1>3 DEF CallTypeOK, Acknowledge, SetWork
    <3>3. WaitsForOwn'
      BY <1>3, <3>2, Disjoint DEF CallTypeOK, WaitsForOwn, Acknowledge, master, Idle, Awaiting
    <3>4. AckHasOutcome'
      BY <1>3, <2>1, <2>3, <3>2 DEF CallTypeOK, AckHasOutcome, Settled, Acknowledge, master, Idle, Between
    <3> QED
      BY <1>3, <3>1, <3>3, <3>4 DEF Acknowledge, CompletesStored, CompletedIsStored, master
  <2> QED
    BY <1>3, <2>2, <2>3 DEF Acknowledge
<1>4. CASE \E j \in Job : TakeCopy(s, j)
  <2>1. PICK j \in Job : TakeCopy(s, j)
    BY <1>4
  <2>2. \A first \in {"push", "ack"} :
          /\ [step |-> first, job |-> j, attempt |-> 1, exec |-> NoExec] \in Between
          /\ [step |-> first, job |-> j, attempt |-> 1, exec |-> NoExec].step = first
    BY DEF Between
  <2>3. CASE Begin(s, j, "push") /\ UNCHANGED discarded
    BY <2>1, <2>2, <2>3, OwnStep DEF TakeCopy, Begin
  <2>4. CASE Begin(s, j, "ack") /\ discarded' = discarded \union {j}
    <3>1. discarded \subseteq discarded' /\ j \in Settled'
      BY <2>4 DEF Settled
    <3> QED
      BY <2>1, <2>2, <2>4, <3>1, OwnStep DEF TakeCopy, Begin
  <2> QED
    BY <2>1, <2>3, <2>4 DEF TakeCopy
<1>5. CASE \E x \in Exec : CallMaster(s, x)
  <2>1. PICK x \in Exec : CallMaster(s, x)
    BY <1>5
  <2>2. work[s] \in Between
    BY <1>0, <2>1, Disjoint DEF CallMaster
  <2>3. PICK c \in CallState : /\ call' = [call EXCEPT ![x] = c]
                               /\ c.job = work[s].job /\ c.step # "complete"
    <3>1. [step |-> IF work[s].step = "push" THEN "store" ELSE "dlq", job |-> work[s].job] \in CallState
      BY <2>2 DEF Between, CallState
    <3> QED
      BY <2>1, <3>1 DEF CallMaster
  <2>4. PICK w \in Awaiting : SetWork(s, w) /\ w.job = work[s].job /\ w.exec = x
    <3>1. /\ [work[s] EXCEPT !.step = "wait", !.exec = x] \in Awaiting
          /\ [work[s] EXCEPT !.step = "wait", !.exec = x].job = work[s].job
          /\ [work[s] EXCEPT !.step = "wait", !.exec = x].exec = x
      BY <2>2 DEF Between, Awaiting
    <3> QED
      BY <2>1, <3>1 DEF CallMaster
  <2>5. CallTypeOK'
    BY <2>1, <2>3, <2>4 DEF CallTypeOK, CallMaster, SetWork
  <2>6. /\ \A t \in Slot : work'[t] = IF t = s THEN w ELSE work[t]
        /\ \A y \in Exec : call'[y] = IF y = x THEN c ELSE call[y]
    BY <2>3, <2>4 DEF CallTypeOK, SetWork
  <2>7. call[x] \notin CallState
    BY <2>1 DEF CallMaster, Free, CallState
  <2>8. \A t \in Slot : work[t] \in Awaiting => work[t].exec # x /\ work[t].exec \in Exec
    BY <2>7 DEF WaitsForOwn, Awaiting
  <2>9. WaitsForOwn'
    BY <2>3, <2>4, <2>6, <2>8 DEF WaitsForOwn
  <2>10. CompletesStored'
    BY <2>1, <2>3, <2>6 DEF CompletesStored, CallMaster
  <2>11. AckHasOutcome'
    BY <2>1, <2>4, <2>6, Disjoint DEF AckHasOutcome, Settled, CallMaster
  <2> QED
    BY <2>1, <2>5, <2>9, <2>10, <2>11 DEF CompletedIsStored, CallMaster
<1> QED
  BY <1>1, <1>2, <1>3, <1>4, <1>5 DEF Process

-----------------------------------------------------------------------------
(* The Master.                                                               *)

LEMMA StoreStep == ASSUME OInv, NEW x \in Exec, Store(x) PROVE OInv'
<1> USE DEF OInv
<1>1. call[x] \in CallState
  BY Disjoint DEF Store, CallTypeOK
<1>2. PICK step \in {"complete", "fail"} :
        /\ Proceed(x, step)
        /\ step = "complete" => call[x].job \in stored'
        /\ stored \subseteq stored'
  BY DEF Store
<1>3. /\ [call[x] EXCEPT !.step = step] \in CallState
      /\ [call[x] EXCEPT !.step = step].job = call[x].job
      /\ [call[x] EXCEPT !.step = step].step = step
  BY <1>1 DEF CallState
<1>4. /\ call' \in [Exec -> {Free} \union CallState]
      /\ \A y \in Exec : call'[y] = IF y = x THEN [call[x] EXCEPT !.step = step] ELSE call[y]
  BY <1>2, <1>3 DEF Proceed, CallTypeOK
<1>5. CallTypeOK'
  BY <1>2, <1>4 DEF CallTypeOK, Store, Proceed
<1>6. WaitsForOwn'
  BY <1>1, <1>2, <1>3, <1>4 DEF WaitsForOwn, Proceed, Awaiting
<1>7. CompletesStored'
  BY <1>2, <1>3, <1>4 DEF CompletesStored
<1>8. AckHasOutcome' /\ CompletedIsStored'
  BY <1>2 DEF AckHasOutcome, Settled, CompletedIsStored, Store, Proceed
<1> QED
  BY <1>5, <1>6, <1>7, <1>8

(* The answer of a call that ends reaches whoever waits for it.              *)
LEMMA FinishedStep ==
  ASSUME OInv, NEW x \in Exec, call[x] \in CallState, NEW ok \in BOOLEAN, Finished(x, ok),
         stored' = stored, reported \subseteq reported', UNCHANGED <<done, discarded>>,
         ok => call[x].job \in Settled',
         CompletedIsStored'
  PROVE  OInv'
<1> USE DEF OInv
<1>1. \A s \in Slot : s \in Waiting(x) => work[s] \in Awaiting
  BY Disjoint DEF Waiting, CallTypeOK
<1>2. \A s \in Slot : s \in Waiting(x) =>
        /\ [work[s] EXCEPT !.step = "ack", !.exec = NoExec] \in Between
        /\ [work[s] EXCEPT !.step = "ack", !.exec = NoExec].job = call[x].job
  <2> SUFFICES ASSUME NEW s \in Slot, s \in Waiting(x)
               PROVE  /\ [work[s] EXCEPT !.step = "ack", !.exec = NoExec] \in Between
                      /\ [work[s] EXCEPT !.step = "ack", !.exec = NoExec].job = call[x].job
    OBVIOUS
  <2>1. work[s] \in Awaiting /\ work[s].job = call[x].job
    BY <1>1 DEF WaitsForOwn, Waiting
  <2> QED
    BY <2>1 DEF Awaiting, Between
<1>3. \A s \in Slot : s \in Waiting(x) =>
        /\ work'[s] \in {Idle} \union Between
        /\ work'[s] \in Between /\ work'[s].step = "ack" => work'[s].job \in Settled'
  BY <1>1, <1>2, AfterFailureFacts DEF Finished
<1>4. \A s \in Slot : s \notin Waiting(x) => work'[s] = work[s]
  BY DEF Finished
<1>5. /\ call' \in [Exec -> {Free} \union CallState]
      /\ \A y \in Exec : y # x => call'[y] = call[y]
      /\ call'[x] \notin CallState
  BY DEF Finished, CallTypeOK, Free, CallState
<1>6. CallTypeOK'
  <2>1. work' = [s \in Slot |-> work'[s]]
    BY DEF Finished
  <2>2. \A s \in Slot : work'[s] \in {Idle} \union Between \union Awaiting
    BY <1>3, <1>4 DEF CallTypeOK
  <2> QED
    BY <1>5, <2>1, <2>2 DEF CallTypeOK
<1>7. WaitsForOwn'
  <2> SUFFICES ASSUME NEW s \in Slot, work'[s] \in Awaiting
               PROVE  call'[work'[s].exec] \in CallState /\ call'[work'[s].exec].job = work'[s].job
    BY DEF WaitsForOwn
  <2>1. s \notin Waiting(x)
    BY <1>3 DEF Idle, Between, Awaiting
  <2>2. work[s].exec # x /\ work[s].exec \in Exec
    BY <1>4, <2>1 DEF Waiting, Awaiting
  <2> QED
    BY <1>4, <1>5, <2>1, <2>2 DEF WaitsForOwn
<1>8. CompletesStored'
  <2> SUFFICES ASSUME NEW y \in Exec, call'[y] \in CallState, call'[y].step = "complete"
               PROVE  call'[y].job \in stored
    BY DEF CompletesStored
  <2>1. y # x
    BY <1>5
  <2>2. call'[y] = call[y]
    BY <1>5, <2>1
  <2> QED
    BY <2>2 DEF CompletesStored
<1>9. AckHasOutcome'
  <2>1. Settled \subseteq Settled'
    BY DEF Settled
  <2> QED
    BY <1>3, <1>4, <2>1 DEF AckHasOutcome
<1> QED
  BY <1>6, <1>7, <1>8, <1>9

LEMMA ReplyStep ==
  ASSUME OInv, row \in [Job -> Status], NEW x \in Exec, Reply(x)
  PROVE  OInv'
<1> USE DEF OInv
<1>0. call[x] \in CallState /\ call[x].job \in Job
  BY Disjoint DEF Reply, MarkCompleted, MarkStoreDead, MarkTripDetailsDead, CallTypeOK, CallState
<1>1. CASE MarkCompleted(x)
  <2>1. PICK ok \in BOOLEAN : Write(call[x].job, "COMPLETED", ok, FALSE) /\ Finished(x, ok)
    BY <1>1 DEF MarkCompleted
  <2>2. call[x].job \in stored
    BY <1>0, <1>1 DEF MarkCompleted, CompletesStored
  <2>3. CompletedIsStored'
    <3>1. \A k \in Job : row'[k] = row[k] \/ k = call[x].job
      BY <2>1 DEF Write
    <3> QED
      BY <1>1, <2>2, <3>1 DEF CompletedIsStored, MarkCompleted
  <2> QED
    BY <1>0, <1>1, <2>1, <2>2, <2>3, FinishedStep DEF MarkCompleted, Settled
<1>2. CASE MarkStoreDead(x)
  <2>1. PICK ok \in BOOLEAN : Write(call[x].job, "DEAD", ok, FALSE)
    BY <1>2 DEF MarkStoreDead
  <2>2. CompletedIsStored'
    BY <1>2, <2>1, WriteAny DEF CompletedIsStored, MarkStoreDead
  <2> QED
    BY <1>0, <1>2, <2>2, FinishedStep DEF MarkStoreDead, Settled
<1>3. CASE MarkTripDetailsDead(x)
  <2>1. PICK ok \in BOOLEAN :
          /\ Write(call[x].job, "DEAD", ok, Waiting(x) = {})
          /\ reported' = IF ok THEN reported \union {call[x].job} ELSE reported
          /\ Finished(x, ok)
    BY <1>3 DEF MarkTripDetailsDead
  <2>2. CompletedIsStored'
    BY <1>3, <2>1, WriteQuiet DEF CompletedIsStored, MarkTripDetailsDead
  <2> QED
    BY <1>0, <1>3, <2>1, <2>2, FinishedStep DEF MarkTripDetailsDead, Settled
<1> QED
  BY <1>1, <1>2, <1>3 DEF Reply

LEMMA RestartStep == ASSUME OInv, Restart PROVE OInv'
<1> USE DEF OInv
<1>1. \A s \in Slot : work[s].step = "wait" <=> work[s] \in Awaiting
  BY Disjoint DEF CallTypeOK
<1>2. \A s \in Slot : /\ work'[s] \in {Idle} \union Between
                      /\ work'[s] = work[s] \/ work'[s] = Idle \/ work'[s].step # "ack"
  BY <1>1, AfterFailureFacts DEF Restart, CallTypeOK
<1>3. CallTypeOK'
  BY <1>2 DEF Restart, CallTypeOK
<1>4. \A s \in Slot : work'[s] \notin Awaiting
  BY <1>2, Disjoint DEF Idle, Between, Awaiting
<1>5. \A x \in Exec : call'[x] \notin CallState
  BY DEF Restart, Free, CallState
<1>6. AckHasOutcome'
  BY <1>2 DEF AckHasOutcome, Settled, Restart, Idle, Between
<1> QED
  BY <1>3, <1>4, <1>5, <1>6 DEF WaitsForOwn, CompletesStored, CompletedIsStored, Restart

-----------------------------------------------------------------------------
(* Requests, the publisher and the environment are quiet.                    *)

RowTypeOK == row \in [Job -> Status]

LEMMA QuietWrites ==
  ASSUME RowTypeOK, NEW j, NEW status \in Status \ {"COMPLETED"},
         NEW ok, NEW cancelled, Write(j, status, ok, cancelled), UNCHANGED <<worker, master>>
  PROVE  RowTypeOK' /\ Quiet
  BY WriteQuiet DEF RowTypeOK, Quiet, Status

LEMMA HandlerQuiet ==
  ASSUME RowTypeOK, NEW h \in Caller, Handler(h)
  PROVE  RowTypeOK' /\ Quiet
<1>1. CASE SaveReceived(h)
  BY <1>1, QuietWrites DEF SaveReceived, Status
<1>2. CASE MarkQueued(h)
  BY <1>2, QuietWrites DEF MarkQueued, Status
<1>3. CASE MarkDead(h)
  BY <1>3, QuietWrites DEF MarkDead, Status
<1>4. CASE RegisterOperator(h) \/ ClaimInFlight(h) \/ AfterPublish(h)
  BY <1>4 DEF RegisterOperator, ClaimInFlight, AfterPublish, RowTypeOK, Quiet
<1> QED
  BY <1>1, <1>2, <1>3, <1>4 DEF Handler

LEMMA RequestQuiet ==
  ASSUME RowTypeOK, NEW h \in Caller, Request(h)
  PROVE  RowTypeOK' /\ Quiet
<1>1. CASE Handler(h)
  BY <1>1, HandlerQuiet
<1>2. CASE Publishing(Work(h)) \/ Disconnect(h) \/ \E e \in Event : Receive(h, e)
  BY <1>2 DEF Publishing, Disconnect, Receive, RowTypeOK, Quiet
<1> QED
  BY <1>1, <1>2 DEF Request

(* The rows a call or a goroutine writes keep their type.                    *)
LEMMA RowStep ==
  ASSUME RowTypeOK,
         \/ \E s \in Slot : Process(s)
         \/ \E x \in Exec : Store(x) \/ Reply(x)
         \/ Restart
  PROVE  RowTypeOK'
<1>1. CASE \E s \in Slot : Process(s)
  BY <1>1 DEF Process, FailEarly, TimeOut, Acknowledge, TakeCopy, CallMaster, RowTypeOK
<1>2. CASE (\E x \in Exec : Store(x)) \/ Restart
  BY <1>2 DEF Store, Restart, RowTypeOK
<1>3. ASSUME NEW x \in Exec, Reply(x) PROVE RowTypeOK'
  BY <1>3, WriteAny DEF Reply, MarkCompleted, MarkStoreDead, MarkTripDetailsDead, RowTypeOK, Status
<1> QED
  BY <1>1, <1>2, <1>3

LInv == OInv /\ RowTypeOK

LEMMA InitLInv == LifecycleInit => LInv
  BY DEF LifecycleInit, LInv, OInv, RowTypeOK, Status, CallTypeOK, WaitsForOwn, CompletesStored,
         AckHasOutcome, Settled, CompletedIsStored, Idle, Free, Between, Awaiting, CallState

LEMMA StepLInv == LInv /\ [LifecycleNext]_allVars => LInv'
<1> SUFFICES ASSUME LInv, [LifecycleNext]_allVars PROVE LInv'
  OBVIOUS
<1> USE DEF LInv
<1>1. ASSUME NEW h \in Caller, Request(h) PROVE LInv'
  BY <1>1, RequestQuiet, QuietStep
<1>2. ASSUME NEW s \in Slot, Process(s) PROVE LInv'
  BY <1>2, ProcessStep, RowStep
<1>3. ASSUME NEW x \in Exec, Store(x) \/ Reply(x) PROVE LInv'
  BY <1>3, StoreStep, ReplyStep, RowStep DEF RowTypeOK
<1>4. CASE Publishing(Environment) \/ UNCHANGED allVars
  <2>1. Quiet /\ row' = row
    BY <1>4 DEF Publishing, Quiet, allVars
  <2> QED
    BY <2>1, QuietStep DEF RowTypeOK
<1>5. CASE Restart
  BY <1>5, RestartStep, RowStep
<1> QED
  BY <1>1, <1>2, <1>3, <1>4, <1>5 DEF LifecycleNext

LEMMA SpecLInv == LifecycleSpec => []LInv
  BY InitLInv, StepLInv, PTL DEF LifecycleSpec

(* A COMPLETED row is that of a stored result (tripdetails_receiver.go:58),  *)
(* however many calls time out, overtake each other or are repeated.         *)
THEOREM CompletedStored == LifecycleSpec => []CompletedIsStored
  BY SpecLInv, PTL DEF LInv, OInv

-----------------------------------------------------------------------------
(* The pipeline implements the contract.                                     *)

LEMMA ContractStutters ==
  ASSUME UNCHANGED <<done, stored, reported, discarded>>
  PROVE  UNCHANGED Contract!vars
  BY DEF Contract!vars, JobsWith

(* One more job with one effect: an outcome is recorded.                     *)
LEMMA OutcomeStep ==
  ASSUME NEW m \in Job, UNCHANGED done,
         \/ stored' = stored \union {m} /\ UNCHANGED <<reported, discarded>>
         \/ reported' = reported \union {m} /\ UNCHANGED <<stored, discarded>>
         \/ discarded' = discarded \union {m} /\ UNCHANGED <<stored, reported>>
  PROVE  Contract!Next
<1> DEFINE Before == [j \in Job |-> {o \in Outcomes : j \in JobsWith(o)}]
           After  == [j \in Job |-> {o \in Outcomes : j \in JobsWith(o)'}]
<1>1. PICK o \in Outcomes : \A p \in Outcomes :
        JobsWith(p)' = IF p = o THEN JobsWith(p) \union {m} ELSE JobsWith(p)
  <2>1. CASE stored' = stored \union {m} /\ UNCHANGED <<reported, discarded>>
    <3>1. \A p \in Outcomes : JobsWith(p)' = IF p = "stored" THEN JobsWith(p) \union {m} ELSE JobsWith(p)
      BY <2>1 DEF JobsWith, Outcomes
    <3> QED
      BY <3>1 DEF Outcomes
  <2>2. CASE reported' = reported \union {m} /\ UNCHANGED <<stored, discarded>>
    <3>1. \A p \in Outcomes : JobsWith(p)' = IF p = "dead" THEN JobsWith(p) \union {m} ELSE JobsWith(p)
      BY <2>2 DEF JobsWith, Outcomes
    <3> QED
      BY <3>1 DEF Outcomes
  <2>3. CASE discarded' = discarded \union {m} /\ UNCHANGED <<stored, reported>>
    <3>1. \A p \in Outcomes : JobsWith(p)' = IF p = "discarded" THEN JobsWith(p) \union {m} ELSE JobsWith(p)
      BY <2>3 DEF JobsWith, Outcomes
    <3> QED
      BY <3>1 DEF Outcomes
  <2> QED
    BY <2>1, <2>2, <2>3
<1>2. After[m] = Before[m] \union {o}
  BY <1>1
<1>3. \A j \in Job : j # m => After[j] = Before[j]
  BY <1>1
<1>4. After = [Before EXCEPT ![m] = @ \union {o}]
  <2>1. After = [j \in Job |-> After[j]] /\ Before = [j \in Job |-> Before[j]]
    OBVIOUS
  <2> HIDE DEF Before, After
  <2> QED
    BY <1>2, <1>3, <2>1
<1> QED
  BY <1>4 DEF Contract!Next, Contract!Record

LEMMA RecordRefines ==
  ASSUME LInv, NEW x \in Exec, Store(x) \/ Reply(x)
  PROVE  [Contract!Next]_Contract!vars
<1>0. call[x].job \in Job
  BY Disjoint DEF Store, Reply, MarkCompleted, MarkStoreDead, MarkTripDetailsDead, CallTypeOK, CallState, LInv, OInv
<1>1. \/ stored' = stored \union {call[x].job} /\ UNCHANGED <<done, reported, discarded>>
      \/ reported' = reported \union {call[x].job} /\ UNCHANGED <<done, stored, discarded>>
      \/ UNCHANGED <<done, stored, reported, discarded>>
  BY DEF Store, Reply, MarkCompleted, MarkStoreDead, MarkTripDetailsDead
<1> QED
  BY <1>0, <1>1, OutcomeStep, ContractStutters

(* So does a copy that is discarded, where there was no such outcome before.  *)
LEMMA DiscardRefines ==
  ASSUME LInv, NEW s \in Slot, NEW j \in Job, TakeCopy(s, j)
  PROVE  [Contract!Next]_Contract!vars
<1>1. /\ UNCHANGED <<done, stored, reported>>
      /\ discarded' = discarded \union {j} \/ UNCHANGED discarded
  BY DEF TakeCopy, master
<1> QED
  BY <1>1, OutcomeStep, ContractStutters

(* An acknowledgement settles a job, the first time, and it has an outcome.  *)
LEMMA AcknowledgeRefines ==
  ASSUME LInv, NEW s \in Slot, Acknowledge(s)
  PROVE  [Contract!Next]_Contract!vars
<1>1. PICK j \in Job : j = work[s].job /\ \E o \in Outcomes : j \in JobsWith(o)
  <2>1. work[s].job \in Job /\ work[s].job \in Settled
    BY Disjoint DEF Acknowledge, LInv, OInv, CallTypeOK, AckHasOutcome, Between
  <2>2. "stored" \in Outcomes /\ "dead" \in Outcomes /\ "discarded" \in Outcomes
    BY DEF Outcomes
  <2> QED
    BY <2>1, <2>2 DEF Settled, JobsWith
<1>2. CASE done' = done
  BY <1>2, ContractStutters DEF Acknowledge, master
<1>3. CASE done' = [done EXCEPT ![j] = @ + 1]
  <2>1. {k \in Job : done'[k] > 0} = {k \in Job : done[k] > 0} \union {j}
    BY <1>3 DEF LInv, OInv, CallTypeOK
  <2>2. CASE done[j] > 0
    BY <2>1, <2>2 DEF Acknowledge, master, Contract!vars, JobsWith
  <2>3. CASE ~(done[j] > 0)
    BY <1>1, <2>1, <2>3 DEF Acknowledge, master, Contract!Next, Contract!Settle, Contract!vars, JobsWith
  <2> QED
    BY <2>2, <2>3
<1> QED
  BY <1>1, <1>2, <1>3 DEF Acknowledge

LEMMA StepRefines == LInv /\ [LifecycleNext]_allVars => [Contract!Next]_Contract!vars
<1> SUFFICES ASSUME LInv, [LifecycleNext]_allVars PROVE [Contract!Next]_Contract!vars
  OBVIOUS
<1>1. ASSUME NEW h \in Caller, Request(h) PROVE UNCHANGED <<done, stored, reported, discarded>>
  BY <1>1, RequestQuiet DEF LInv, Quiet, worker, master
<1>2. ASSUME NEW s \in Slot, Process(s)
      PROVE  \/ Acknowledge(s) \/ \E j \in Job : TakeCopy(s, j)
             \/ UNCHANGED <<done, stored, reported, discarded>>
  BY <1>2 DEF Process, FailEarly, TimeOut, TakeCopy, CallMaster, master
<1>3. CASE Publishing(Environment) \/ Restart \/ UNCHANGED allVars
  BY <1>3, ContractStutters DEF Publishing, Restart, allVars, worker, master
<1> QED
  BY <1>1, <1>2, <1>3, ContractStutters, RecordRefines, DiscardRefines, AcknowledgeRefines DEF LifecycleNext

(* From the publication to the acknowledgement the delivery contract holds:  *)
(* a copy is acknowledged only for a job that was stored, reported, or        *)
(* discarded because its date was over.                                      *)
THEOREM PipelineKeepsContract == LifecycleSpec => KeepsContract
<1>1. LifecycleInit => Contract!Init
  BY DEF LifecycleInit, Contract!Init, JobsWith
<1> QED
  BY <1>1, StepRefines, SpecLInv, PTL DEF LifecycleSpec, KeepsContract, Contract!Spec

-----------------------------------------------------------------------------
(* What the request handlers keep: their items, the publisher's invariant,   *)
(* their claims and their rows.                                              *)

(* A handler past the registration of its item's operator has that item.     *)
HandlerStep == {"free", "register", "claim", "save", "publish", "mark", "dead"}

RequestsOwnItems ==
  /\ todo \in [Caller -> Seq(Items)]
  /\ pc \in [Caller -> HandlerStep]
  /\ \A h \in Caller : pc[h] \notin {"free", "register"} => todo[h] # <<>>

EventTypeOK == event \in [Caller -> Seq(Items)]

(* A handler past SaveReceived has a row for its item.                       *)
SavedRows == \A h \in Caller : pc[h] \in {"publish", "mark", "dead"} => row[Item(h).ref] # "none"

(* Every job on its way to the broker, or there, has a row.                  *)
Recorded == {j \in Job : row[j] # "none"}
PublishedRecorded == PublishedJobs \subseteq Recorded

(* An item is served when its operator is inactive, when its route has a row, *)
(* or when the handler that has claimed its route is about to save one.       *)
HasRow(r) == \E k \in Items : k.route = r /\ row[k.ref] # "none"
Served(i) == \/ i \in Inactive
             \/ HasRow(i.route)
             \/ \E g \in Caller : pc[g] = "save" /\ Item(g).route = i.route

(* No handler drops an item: what it has passed, and what was answered, is    *)
(* served.                                                                    *)
NothingDropped ==
  /\ \A i \in answered : Served(i)
  /\ \A h \in Caller : \A i \in Range(event[h]) : i \in Range(todo[h]) \/ Served(i)

HInv == /\ PInv /\ RowTypeOK /\ faults \in Nat
        /\ RequestsOwnItems /\ EventTypeOK
        /\ ClaimsAreHeld /\ SavedRows /\ PublishedRecorded
        /\ faults = 0 /\ cancels = 0 => NothingDropped

(* A handler's items. *)

LEMMA ItemFacts ==
  ASSUME RequestsOwnItems, NEW h \in Caller, todo[h] # <<>>
  PROVE  Item(h) \in Items /\ Tail(todo[h]) \in Seq(Items)
  BY DEF RequestsOwnItems, Item

LEMMA ItemsStep ==
  ASSUME RequestsOwnItems, NEW h \in Caller, NEW to \in HandlerStep, NEW items \in Seq(Items),
         GoTo(h, to), todo' = [todo EXCEPT ![h] = items],
         to \in {"free", "register"} \/ items # <<>>
  PROVE  RequestsOwnItems'
<1>1. /\ pc' \in [Caller -> HandlerStep] /\ todo' \in [Caller -> Seq(Items)]
      /\ \A g \in Caller : /\ pc'[g] = IF g = h THEN to ELSE pc[g]
                           /\ todo'[g] = IF g = h THEN items ELSE todo[g]
  BY DEF RequestsOwnItems, GoTo
<1> QED
  BY <1>1 DEF RequestsOwnItems

(* A handler carries on with its items. *)
LEMMA HandlerItems ==
  ASSUME RequestsOwnItems, NEW h \in Caller, Handler(h)
  PROVE  RequestsOwnItems'
<1>1. ASSUME NEW ok, Answer(h, ok) PROVE RequestsOwnItems'
  <2>1. <<>> \in Seq(Items)
    OBVIOUS
  <2>2. GoTo(h, "free") /\ todo' = [todo EXCEPT ![h] = <<>>]
    BY <1>1 DEF Answer
  <2> QED
    BY <2>1, <2>2, ItemsStep DEF HandlerStep
<1>2. ASSUME todo[h] # <<>>, NextItem(h) PROVE RequestsOwnItems'
  <2>1. Tail(todo[h]) \in Seq(Items)
    BY <1>2, ItemFacts
  <2>2. GoTo(h, "register") /\ todo' = [todo EXCEPT ![h] = Tail(todo[h])]
    BY <1>2 DEF NextItem
  <2> QED
    BY <2>1, <2>2, ItemsStep DEF HandlerStep
<1>3. ASSUME NEW to \in HandlerStep, GoTo(h, to), todo' = todo, todo[h] # <<>> PROVE RequestsOwnItems'
  <2>1. todo[h] \in Seq(Items) /\ todo' = [todo EXCEPT ![h] = todo[h]]
    BY <1>3 DEF RequestsOwnItems
  <2> QED
    BY <1>3, <2>1, ItemsStep
<1>4. pc[h] \in {"claim", "save", "publish", "mark", "dead"} => todo[h] # <<>>
  BY DEF RequestsOwnItems
<1>5. CASE RegisterOperator(h)
  BY <1>1, <1>2, <1>3, <1>5 DEF RegisterOperator, HandlerStep
<1>6. CASE ClaimInFlight(h)
  BY <1>2, <1>3, <1>4, <1>6 DEF ClaimInFlight, HandlerStep
<1>7. CASE SaveReceived(h)
  BY <1>1, <1>3, <1>4, <1>7 DEF SaveReceived, HandlerStep
<1>8. CASE AfterPublish(h)
  BY <1>3, <1>4, <1>8 DEF AfterPublish, HandlerStep
<1>9. CASE MarkQueued(h) \/ MarkDead(h)
  BY <1>1, <1>2, <1>4, <1>9 DEF MarkQueued, MarkDead
<1> QED
  BY <1>5, <1>6, <1>7, <1>8, <1>9 DEF Handler

-----------------------------------------------------------------------------
(* Claims.  A handler only touches its own item and its own claim.           *)

LEMMA HandlerAlone ==
  ASSUME RequestsOwnItems, NEW h \in Caller, Handler(h) \/ (\E e \in Event : Receive(h, e))
  PROVE  \A g \in Caller \ {h} : pc'[g] = pc[g] /\ todo'[g] = todo[g] /\ Item(g)' = Item(g)
<1>1. \A g \in Caller \ {h} : pc'[g] = pc[g] /\ todo'[g] = todo[g]
  BY DEF Handler, Receive, RegisterOperator, ClaimInFlight, SaveReceived, AfterPublish, MarkQueued,
         MarkDead, Answer, NextItem, GoTo, RequestsOwnItems
<1> QED
  BY <1>1 DEF Item

(* What one handler's step may do to the claims. *)
LEMMA ClaimsKept ==
  ASSUME ClaimsAreHeld, NEW h \in Caller,
         \A g \in Caller \ {h} : pc'[g] = pc[g] /\ Item(g)' = Item(g),
         \/ h \notin Queueing /\ h \notin Queueing' /\ inFlight' = inFlight
         \/ h \in Queueing /\ h \in Queueing' /\ Item(h)' = Item(h) /\ inFlight' = inFlight
         \/ h \in Queueing /\ h \notin Queueing' /\ Release(h)
         \/ /\ h \notin Queueing /\ h \in Queueing' /\ Item(h)' = Item(h)
            /\ Item(h).route \notin inFlight /\ Claim(h)
  PROVE  ClaimsAreHeld'
<1>1. \A g \in Caller \ {h} : g \in Queueing' <=> g \in Queueing
  BY DEF Queueing
<1>2. Queueing \subseteq Caller /\ Queueing' \subseteq Caller
  BY DEF Queueing
<1> HIDE DEF Queueing
<1>3. CASE h \notin Queueing /\ h \notin Queueing' /\ inFlight' = inFlight
  BY <1>1, <1>2, <1>3 DEF ClaimsAreHeld
<1>4. CASE h \in Queueing /\ h \in Queueing' /\ Item(h)' = Item(h) /\ inFlight' = inFlight
  BY <1>1, <1>2, <1>4 DEF ClaimsAreHeld
<1>5. CASE h \in Queueing /\ h \notin Queueing' /\ Release(h)
  BY <1>1, <1>2, <1>5 DEF ClaimsAreHeld, Release
<1>6. CASE /\ h \notin Queueing /\ h \in Queueing' /\ Item(h)' = Item(h)
           /\ Item(h).route \notin inFlight /\ Claim(h)
  BY <1>1, <1>2, <1>6 DEF ClaimsAreHeld, Claim
<1> QED
  BY <1>3, <1>4, <1>5, <1>6

LEMMA HandlerClaims ==
  ASSUME RequestsOwnItems, ClaimsAreHeld, NEW h \in Caller,
         Handler(h) \/ (\E e \in Event : Receive(h, e))
  PROVE  ClaimsAreHeld'
<1>1. \A g \in Caller \ {h} : pc'[g] = pc[g] /\ Item(g)' = Item(g)
  BY HandlerAlone
<1>2. ASSUME NEW to, GoTo(h, to) PROVE h \in Queueing' <=> to \in {"save", "publish", "mark", "dead"}
  BY <1>2 DEF GoTo, Queueing, RequestsOwnItems
<1>3. h \in Queueing <=> pc[h] \in {"save", "publish", "mark", "dead"}
  BY DEF Queueing
<1>4. todo' = todo => Item(h)' = Item(h)
  BY DEF Item
<1>5. CASE RegisterOperator(h) \/ \E e \in Event : Receive(h, e)
  BY <1>1, <1>2, <1>3, <1>5, ClaimsKept DEF RegisterOperator, Receive, Answer, NextItem
<1>6. CASE ClaimInFlight(h)
  BY <1>1, <1>2, <1>3, <1>4, <1>6, ClaimsKept DEF ClaimInFlight, NextItem
<1>7. ASSUME Release(h), pc[h] \in {"save", "mark", "dead"}, GoTo(h, "register") \/ GoTo(h, "free")
       PROVE  ClaimsAreHeld'
  BY <1>1, <1>2, <1>3, <1>7, ClaimsKept
<1>8. CASE SaveReceived(h)
  <2>1. CASE Release(h) /\ Answer(h, FALSE)
    BY <1>7, <1>8, <2>1 DEF SaveReceived, Answer
  <2>2. CASE (GoTo(h, "publish") \/ GoTo(h, "dead")) /\ UNCHANGED <<todo, inFlight>>
    BY <1>1, <1>2, <1>3, <1>4, <1>8, <2>2, ClaimsKept DEF SaveReceived
  <2> QED
    BY <1>8, <2>1, <2>2 DEF SaveReceived
<1>9. CASE AfterPublish(h)
  BY <1>1, <1>2, <1>3, <1>4, <1>9, ClaimsKept DEF AfterPublish
<1>10. CASE MarkQueued(h) \/ MarkDead(h)
  BY <1>7, <1>10 DEF MarkQueued, MarkDead, NextItem, Answer
<1> QED
  BY <1>5, <1>6, <1>8, <1>9, <1>10 DEF Handler

-----------------------------------------------------------------------------
(* Rows.  A row that is there stays there: every write names a status.        *)

RowsStay == \A j \in Job : row[j] # "none" => row'[j] # "none"

LEMMA WriteStays ==
  ASSUME RowTypeOK, NEW j, NEW status \in Status \ {"none"}, NEW ok, NEW cancelled,
         Write(j, status, ok, cancelled)
  PROVE  RowsStay /\ RowTypeOK'
BY WriteAny DEF RowsStay, RowTypeOK, Status

(* A write that succeeded is in the row. *)
LEMMA WriteOk ==
  ASSUME RowTypeOK, NEW j \in Job, NEW status, NEW cancelled, Write(j, status, TRUE, cancelled)
  PROVE  row'[j] = status /\ UNCHANGED faults
BY DEF Write, RowTypeOK

LEMMA HandlerRows ==
  ASSUME RowTypeOK, NEW h \in Caller, Handler(h) PROVE RowsStay
<1>1. CASE SaveReceived(h)
  BY <1>1, WriteStays DEF SaveReceived, Status
<1>2. CASE MarkQueued(h) \/ MarkDead(h)
  BY <1>2, WriteStays DEF MarkQueued, MarkDead, Status
<1>3. CASE RegisterOperator(h) \/ ClaimInFlight(h) \/ AfterPublish(h)
  BY <1>3 DEF RegisterOperator, ClaimInFlight, AfterPublish, RowsStay
<1> QED
  BY <1>1, <1>2, <1>3 DEF Handler

LEMMA LifecycleRows ==
  ASSUME RowTypeOK, [LifecycleNext]_allVars PROVE RowsStay
<1>1. ASSUME NEW h \in Caller, Request(h) PROVE RowsStay
  BY <1>1, HandlerRows DEF Request, Publishing, Disconnect, Receive, RowsStay
<1>2. ASSUME NEW x \in Exec, Store(x) \/ Reply(x) PROVE RowsStay
  BY <1>2, WriteStays DEF Store, Reply, MarkCompleted, MarkStoreDead, MarkTripDetailsDead, Status, RowsStay
<1>3. ASSUME NEW s \in Slot, Process(s) PROVE RowsStay
  BY <1>3 DEF Process, FailEarly, TimeOut, Acknowledge, TakeCopy, CallMaster, RowsStay
<1>4. CASE Publishing(Environment) \/ Restart \/ UNCHANGED allVars
  BY <1>4 DEF Publishing, Restart, allVars, RowsStay
<1> QED
  BY <1>1, <1>2, <1>3, <1>4 DEF LifecycleNext

(* The item a handler works on, past its claim, is one of the events.        *)
LEMMA QueueingItem ==
  ASSUME RequestsOwnItems, NEW h \in Caller, pc[h] \notin {"free", "register"}
  PROVE  Item(h) \in Items /\ Item(h).ref \in Job
BY ItemFacts, LifecycleAssumption DEF RequestsOwnItems

LEMMA HandlerSaved ==
  ASSUME RowTypeOK, RequestsOwnItems, SavedRows, NEW h \in Caller,
         Handler(h) \/ (\E e \in Event : Receive(h, e))
  PROVE  SavedRows'
<1>1. RowsStay
  BY HandlerRows DEF Receive, RowsStay
<1>2. \A g \in Caller \ {h} : pc'[g] = pc[g] /\ Item(g)' = Item(g)
  BY HandlerAlone
<1>3. \A g \in Caller : pc[g] \in {"publish", "mark", "dead"} => Item(g).ref \in Job
  BY QueueingItem
<1>4. pc'[h] \in {"publish", "mark", "dead"} => row'[Item(h)'.ref] # "none"
  <2>1. ASSUME NEW to, GoTo(h, to) PROVE pc'[h] = to
    BY <2>1 DEF GoTo, RequestsOwnItems
  <2>2. CASE SaveReceived(h)
    <3>1. Item(h).ref \in Job
      BY <2>2, QueueingItem DEF SaveReceived
    <3>2. CASE Write(Item(h).ref, "RECEIVED", TRUE, h \in gone) /\ todo' = todo
      BY <3>1, <3>2, WriteOk DEF Item
    <3>3. CASE Answer(h, FALSE)
      BY <2>1, <3>3 DEF Answer
    <3> QED
      BY <2>2, <3>2, <3>3 DEF SaveReceived
  <2>3. CASE AfterPublish(h)
    BY <2>1, <2>3 DEF AfterPublish, SavedRows, Item
  <2>4. CASE RegisterOperator(h) \/ ClaimInFlight(h) \/ MarkQueued(h) \/ MarkDead(h)
             \/ \E e \in Event : Receive(h, e)
    <3>1. pc'[h] \in {"free", "register", "claim", "save"}
      BY <2>1, <2>4 DEF RegisterOperator, ClaimInFlight, MarkQueued, MarkDead, Receive, Answer, NextItem
    <3> QED
      BY <3>1
  <2> QED
    BY <2>2, <2>3, <2>4 DEF Handler
<1> QED
  BY <1>1, <1>2, <1>3, <1>4 DEF SavedRows, RowsStay

-----------------------------------------------------------------------------
(* The publisher inside the pipeline keeps its own invariant, and everything  *)
(* that gets to it has a row.                                                *)

LEMMA RequestPublishes ==
  ASSUME PInv, RowTypeOK, RequestsOwnItems, NEW h \in Caller, Request(h)
  PROVE  /\ PInv'
         /\ \/ PublishedJobs' \subseteq PublishedJobs
            \/ \E j \in Job : row'[j] # "none" /\ PublishedJobs' \subseteq PublishedJobs \union {j}
<1>1. CASE UNCHANGED vars
  BY <1>1, NextInv DEF PublishedJobs, vars, publisher, client, link
<1>2. CASE RegisterOperator(h) \/ ClaimInFlight(h) \/ MarkQueued(h) \/ MarkDead(h)
  BY <1>1, <1>2 DEF RegisterOperator, ClaimInFlight, MarkQueued, MarkDead
<1>3. CASE SaveReceived(h)
  <2>1. Item(h).ref \in Job
    BY <1>3, QueueingItem DEF SaveReceived
  <2>2. CASE /\ Write(Item(h).ref, "RECEIVED", TRUE, h \in gone)
             /\ Publish(h, Item(h).ref) /\ UNCHANGED <<calls, gone>>
    <3>1. row'[Item(h).ref] # "none"
      BY <2>1, <2>2 DEF Write, RowTypeOK
    <3>2. PInv'
      BY <2>1, <2>2, PublishStep DEF PInv, TypeOK
    <3>3. PublishedJobs' \subseteq PublishedJobs \union {Item(h).ref}
      BY <2>1, <2>2, PublishAdds
    <3> QED
      BY <2>1, <3>1, <3>2, <3>3
  <2> QED
    BY <1>1, <1>3, <2>2 DEF SaveReceived
<1>4. CASE AfterPublish(h)
  BY <1>4, CallerStep, PublisherAdds DEF AfterPublish
<1>5. CASE Publishing(Work(h))
  BY <1>5, CallerStep, PublisherAdds DEF Publishing
<1>6. CASE Disconnect(h)
  <2>1. PInv'
    BY <1>6, CancelStep DEF Disconnect
  <2> QED
    BY <1>6, <2>1 DEF Disconnect, Cancel, PublishedJobs, publisher, client, link
<1>7. ASSUME NEW e \in Event, Receive(h, e)
      PROVE  PInv' /\ PublishedJobs' \subseteq PublishedJobs
  <2>1. gone' \subseteq gone /\ calls' \in 0 .. MaxCalls
    BY <1>7, PublisherAssumption DEF Receive, PInv, TypeOK
  <2> QED
    BY <1>7, <2>1, FreshStep DEF Receive, PublishedJobs, publisher, client, link
<1> QED
  BY <1>2, <1>3, <1>4, <1>5, <1>6, <1>7 DEF Request, Handler

LEMMA RestartPublisher ==
  ASSUME PInv, Restart PROVE PInv' /\ PublishedJobs' \subseteq PublishedJobs
<1>1. /\ stage' = [c \in Caller |-> "free"] /\ job' = [c \in Caller |-> NoJob]
      /\ tries' = [c \in Caller |-> 0] /\ mutex' = NoOne
      /\ open' = TRUE /\ wire' = <<>> /\ confirms' = <<>>
      /\ UNCHANGED <<taken, gone, calls, cancels, breaks>>
  BY DEF Restart
<1>2. <<>> \in Seq(Job) /\ <<>> \in Seq(Confirmation) /\ 1 .. Len(<<>>) = {}
  OBVIOUS
<1>3. TypeOK'
  BY <1>1, <1>2 DEF PInv, TypeOK
<1>4. MutexHeld' /\ JobHeld'
  BY <1>1, PublisherAssumption DEF MutexHeld, JobHeld
<1>5. ASSUME cancels = 0 PROVE Undisturbed'
  BY <1>1, <1>5 DEF PInv, Undisturbed, ChannelClean, OwnConfirmation, ConfirmedIsTaken
<1>6. PublishedJobs' \subseteq PublishedJobs
  BY <1>1, <1>2 DEF PublishedJobs
<1> QED
  BY <1>1, <1>3, <1>4, <1>5, <1>6 DEF PInv

LEMMA LifecyclePublishes ==
  ASSUME PInv, RowTypeOK, RequestsOwnItems, [LifecycleNext]_allVars
  PROVE  /\ PInv'
         /\ \/ PublishedJobs' \subseteq PublishedJobs
            \/ \E j \in Job : row'[j] # "none" /\ PublishedJobs' \subseteq PublishedJobs \union {j}
<1>1. CASE UNCHANGED vars
  BY <1>1, NextInv DEF PublishedJobs, vars, publisher, client, link
<1>2. ASSUME NEW s \in Slot, Process(s) PROVE UNCHANGED vars
  BY <1>2 DEF Process, FailEarly, TimeOut, Acknowledge, TakeCopy, CallMaster
<1>3. ASSUME NEW x \in Exec, Store(x) \/ Reply(x) PROVE UNCHANGED vars
  BY <1>3 DEF Store, Reply, MarkCompleted, MarkStoreDead, MarkTripDetailsDead
<1>4. CASE Publishing(Environment)
  BY <1>4, EnvironmentStep, PublisherAdds DEF Publishing
<1> QED
  BY <1>1, <1>2, <1>3, <1>4, RequestPublishes, RestartPublisher DEF LifecycleNext, allVars

LEMMA RecordedStep ==
  ASSUME PInv, RowTypeOK, RequestsOwnItems, PublishedRecorded, [LifecycleNext]_allVars
  PROVE  PublishedRecorded'
<1>1. Recorded \subseteq Recorded'
  BY LifecycleRows DEF Recorded, RowsStay
<1> QED
  BY <1>1, LifecyclePublishes DEF PublishedRecorded, Recorded

-----------------------------------------------------------------------------
(* No item is dropped while no call fails and nobody disconnects.            *)

(* faults only counts up. *)
LEMMA FaultsGrow ==
  ASSUME faults \in Nat, [LifecycleNext]_allVars
  PROVE  faults' \in Nat /\ (faults' = 0 => UNCHANGED faults)
<1>1. Fault => faults' \in Nat \ {0}
  BY DEF Fault
<1>2. ASSUME NEW h \in Caller, Request(h) PROVE Fault \/ UNCHANGED faults
  BY <1>2 DEF Request, Handler, RegisterOperator, ClaimInFlight, SaveReceived, AfterPublish, MarkQueued,
              MarkDead, Publishing, Disconnect, Receive, Write
<1>3. ASSUME NEW s \in Slot, Process(s) PROVE Fault \/ UNCHANGED faults
  BY <1>3 DEF Process, FailEarly, TimeOut, Acknowledge, TakeCopy, CallMaster
<1>4. ASSUME NEW x \in Exec, Store(x) \/ Reply(x) PROVE Fault \/ UNCHANGED faults
  BY <1>4 DEF Store, Reply, MarkCompleted, MarkStoreDead, MarkTripDetailsDead, Write
<1>5. CASE Publishing(Environment) \/ Restart \/ UNCHANGED allVars
  BY <1>1, <1>5 DEF Publishing, Restart, allVars
<1> QED
  BY <1>1, <1>2, <1>3, <1>4, <1>5 DEF LifecycleNext

(* An item stays served when rows stay and a claim that leaves "save" has     *)
(* saved its row.                                                            *)
SavesEnd == \A g \in Caller : pc[g] = "save" =>
              \/ pc'[g] = "save" /\ Item(g)' = Item(g)
              \/ row'[Item(g).ref] # "none"

LEMMA ServedStays ==
  ASSUME RequestsOwnItems, RowsStay, SavesEnd, NEW i, Served(i) PROVE Served(i)'
<1>1. ASSUME NEW r, HasRow(r) PROVE HasRow(r)'
  BY <1>1, LifecycleAssumption DEF HasRow, RowsStay
<1>2. ASSUME NEW g \in Caller, pc[g] = "save", Item(g).route = i.route PROVE Served(i)'
  BY <1>2, QueueingItem DEF SavesEnd, Served, HasRow
<1> QED
  BY <1>1, <1>2 DEF Served

(* What happens to one handler's items and to the answered ones.             *)
LEMMA DroppedStep ==
  ASSUME RequestsOwnItems, RowsStay, SavesEnd, NothingDropped, NEW h \in Caller,
         \A g \in Caller \ {h} : event'[g] = event[g] /\ todo'[g] = todo[g],
         \A i \in Range(event'[h]) : i \in Range(todo'[h]) \/ Served(i)',
         \A i \in answered' : i \in answered \/ Served(i)'
  PROVE  NothingDropped'
<1>1. \A i : Served(i) => Served(i)'
  BY ServedStays
<1>2. \A g \in Caller \ {h} : \A i \in Range(event'[g]) : i \in Range(todo'[g]) \/ Served(i)'
  BY <1>1 DEF NothingDropped
<1>3. \A i \in answered' : Served(i)'
  BY <1>1 DEF NothingDropped
<1> QED
  BY <1>2, <1>3 DEF NothingDropped

LEMMA RestDropped ==
  ASSUME RequestsOwnItems, RowsStay, NothingDropped, UNCHANGED handler PROVE NothingDropped'
<1>1. SavesEnd
  BY DEF SavesEnd, handler, Item
<1>2. \A i : Served(i) => Served(i)'
  BY <1>1, ServedStays
<1> QED
  BY <1>2 DEF NothingDropped, handler

(* Passing an item that is served. *)
LEMMA PassItem ==
  ASSUME NEW s \in Seq(Items), s # <<>> PROVE Range(s) \subseteq {Head(s)} \union Range(Tail(s))
<1> SUFFICES ASSUME NEW k \in 1 .. Len(s) PROVE s[k] = Head(s) \/ s[k] \in Range(Tail(s))
  BY DEF Range
<1>1. CASE k = 1
  BY <1>1
<1>2. CASE k # 1
  <2>1. k - 1 \in 1 .. Len(Tail(s)) /\ Tail(s)[k - 1] = s[k]
    BY <1>2
  <2>2. DOMAIN Tail(s) = 1 .. Len(Tail(s))
    OBVIOUS
  <2> QED
    BY <2>1, <2>2 DEF Range
<1> QED
  BY <1>1, <1>2

LEMMA HandlerDrops ==
  ASSUME HInv, cancels = 0, faults' = faults, NothingDropped, NEW h \in Caller,
         Handler(h) \/ (\E e \in Event : Receive(h, e))
  PROVE  NothingDropped'
<1> USE DEF HInv
<1>1. RowsStay /\ RowTypeOK'
  BY HandlerRows, HandlerQuiet DEF Receive, RowsStay, RowTypeOK
<1>2. \A g \in Caller \ {h} : pc'[g] = pc[g] /\ todo'[g] = todo[g] /\ Item(g)' = Item(g)
  BY HandlerAlone
<1>3. h \notin gone
  BY DEF PInv, Undisturbed
<1>4. Fault => faults' # faults
  BY DEF Fault
<1>5. SaveReceived(h) => row'[Item(h).ref] # "none" /\ UNCHANGED <<todo, event, answered>>
  <2>1. SaveReceived(h) => Item(h).ref \in Job
    BY QueueingItem DEF SaveReceived
  <2>2. ASSUME Write(Item(h).ref, "RECEIVED", FALSE, h \in gone) PROVE FALSE
    BY <1>3, <1>4, <2>2 DEF Write
  <2>3. ASSUME SaveReceived(h), Write(Item(h).ref, "RECEIVED", TRUE, h \in gone) PROVE row'[Item(h).ref] # "none"
    BY <2>1, <2>3 DEF Write, RowTypeOK
  <2> QED
    BY <2>2, <2>3 DEF SaveReceived
<1>6. SavesEnd
  <2>1. pc[h] = "save" => SaveReceived(h)
    BY DEF Handler, RegisterOperator, ClaimInFlight, AfterPublish, MarkQueued, MarkDead, Receive
  <2> QED
    BY <1>2, <1>5, <2>1 DEF SavesEnd
<1>7. \A g \in Caller \ {h} : event'[g] = event[g]
  BY DEF Handler, RegisterOperator, ClaimInFlight, SaveReceived, AfterPublish, MarkQueued, MarkDead,
         Receive, Answer, NextItem, EventTypeOK
<1>8. \A i : Served(i) => Served(i)'
  BY <1>1, <1>6, ServedStays
<1> DEFINE Kept == \A i \in Range(event'[h]) : i \in Range(todo'[h]) \/ Served(i)'
<1>9. ASSUME Kept, \A i \in answered' : i \in answered \/ Served(i)' PROVE NothingDropped'
  BY <1>1, <1>2, <1>6, <1>7, <1>9, DroppedStep
<1>10. \A i \in Range(event[h]) : i \in Range(todo[h]) \/ Served(i)'
  BY <1>8 DEF NothingDropped
<1>11. Range(<<>>) = {}
  BY DEF Range
<1>12. CASE UNCHANGED <<todo, event, answered>>
  BY <1>9, <1>10, <1>12
<1>13. ASSUME Answer(h, FALSE) PROVE NothingDropped'
  <2>1. event'[h] = <<>> /\ answered' = answered
    BY <1>13 DEF Answer, EventTypeOK
  <2> QED
    BY <1>9, <1>11, <2>1
<1>14. ASSUME Answer(h, TRUE), todo[h] = <<>> PROVE NothingDropped'
  <2>1. event'[h] = <<>> /\ answered' = answered \union Range(event[h])
    BY <1>14 DEF Answer, EventTypeOK
  <2>2. \A i \in Range(event[h]) : Served(i)'
    BY <1>10, <1>11, <1>14
  <2> QED
    BY <1>9, <1>11, <2>1, <2>2
<1>15. ASSUME NextItem(h), todo[h] # <<>>, NEW k, k = Item(h), Served(k) \/ HasRow(k.route)
       PROVE  NothingDropped'
  <2>1. todo'[h] = Tail(todo[h]) /\ UNCHANGED <<event, answered>>
    BY <1>15 DEF NextItem, RequestsOwnItems
  <2>2. Range(todo[h]) \subseteq {k} \union Range(Tail(todo[h]))
    BY <1>15, PassItem DEF Item, RequestsOwnItems
  <2>3. Served(k)'
    <3>1. Served(k)
      BY <1>15 DEF Served
    <3> QED
      BY <1>8, <3>1
  <2> QED
    BY <1>9, <1>10, <2>1, <2>2, <2>3
<1> HIDE DEF Kept
<1>16. pc[h] \notin {"free", "register"} => todo[h] # <<>> /\ Item(h) \in Items
  BY QueueingItem DEF RequestsOwnItems
<1>17. CASE RegisterOperator(h)
  BY <1>12, <1>13, <1>14, <1>15, <1>17 DEF RegisterOperator, Served
<1>18. CASE ClaimInFlight(h)
  <2>1. CASE Item(h).route \in inFlight /\ NextItem(h)
    <3>1. PICK g \in Caller : pc[g] \in {"save", "publish", "mark", "dead"} /\ Item(g).route = Item(h).route
      BY <2>1 DEF ClaimsAreHeld, Queueing
    <3>2. Item(g) \in Items
      BY <3>1, QueueingItem
    <3>3. Served(Item(h))
      BY <3>1, <3>2 DEF SavedRows, Served, HasRow
    <3> QED
      BY <1>15, <1>16, <1>18, <2>1, <3>3 DEF ClaimInFlight
  <2> QED
    BY <1>12, <1>18, <2>1 DEF ClaimInFlight
<1>19. CASE SaveReceived(h)
  BY <1>5, <1>12, <1>19
<1>20. CASE AfterPublish(h)
  BY <1>12, <1>20 DEF AfterPublish
<1>21. CASE MarkQueued(h)
  <2>1. HasRow(Item(h).route)
    BY <1>16, <1>21 DEF MarkQueued, SavedRows, HasRow
  <2> QED
    BY <1>13, <1>15, <1>16, <1>21, <2>1 DEF MarkQueued
<1>22. CASE MarkDead(h)
  BY <1>13, <1>22 DEF MarkDead
<1>23. ASSUME NEW e \in Event, Receive(h, e) PROVE NothingDropped'
  <2>1. event'[h] = e /\ todo'[h] = e /\ answered' = answered
    BY <1>23 DEF Receive, EventTypeOK, RequestsOwnItems
  <2> QED
    BY <1>9, <2>1 DEF Kept
<1> QED
  BY <1>17, <1>18, <1>19, <1>20, <1>21, <1>22, <1>23 DEF Handler

-----------------------------------------------------------------------------
(* Every step of the pipeline keeps HInv.                                    *)

LEMMA HandlerEvents ==
  ASSUME RequestsOwnItems, EventTypeOK, NEW h \in Caller, Request(h)
  PROVE  RequestsOwnItems' /\ EventTypeOK'
<1>1. <<>> \in Seq(Items)
  OBVIOUS
<1>2. CASE Handler(h)
  <2>1. EventTypeOK'
    BY <1>1, <1>2 DEF Handler, RegisterOperator, ClaimInFlight, SaveReceived, AfterPublish, MarkQueued,
                      MarkDead, Answer, NextItem, EventTypeOK
  <2> QED
    BY <1>2, <2>1, HandlerItems
<1>3. CASE Publishing(Work(h)) \/ Disconnect(h)
  BY <1>3 DEF Publishing, Disconnect, handler, RequestsOwnItems, EventTypeOK
<1>4. ASSUME NEW e \in Event, Receive(h, e) PROVE RequestsOwnItems' /\ EventTypeOK'
  <2>1. e \in Seq(Items)
    BY LifecycleAssumption
  <2> QED
    BY <1>4, <2>1, ItemsStep DEF Receive, HandlerStep, EventTypeOK
<1> QED
  BY <1>2, <1>3, <1>4 DEF Request

(* Steps in which no handler moves, and no row is lost. *)
LEMMA HandlersRest ==
  ASSUME HInv, UNCHANGED handler, RowsStay
  PROVE  /\ RequestsOwnItems' /\ EventTypeOK' /\ ClaimsAreHeld' /\ SavedRows'
         /\ NothingDropped => NothingDropped'
<1> USE DEF HInv
<1>1. \A h \in Caller : Item(h)' = Item(h)
  BY DEF Item, handler
<1>2. Queueing' = Queueing
  BY DEF Queueing, handler
<1>3. RequestsOwnItems' /\ EventTypeOK'
  BY DEF RequestsOwnItems, EventTypeOK, handler
<1>4. ClaimsAreHeld'
  <2>1. Queueing \subseteq Caller
    BY DEF Queueing
  <2> HIDE DEF Queueing
  <2> QED
    BY <1>1, <1>2, <2>1 DEF ClaimsAreHeld, handler
<1>5. SavedRows'
  BY <1>1, QueueingItem DEF SavedRows, RowsStay, handler
<1> QED
  BY <1>3, <1>4, <1>5, RestDropped

LEMMA RestartHandlers ==
  ASSUME Restart PROVE RequestsOwnItems' /\ EventTypeOK' /\ ClaimsAreHeld' /\ SavedRows'
<1>1. <<>> \in Seq(Items)
  OBVIOUS
<1>2. /\ pc' = [h \in Caller |-> "free"] /\ todo' = [h \in Caller |-> <<>>]
      /\ event' = [h \in Caller |-> <<>>] /\ inFlight' = {}
  BY DEF Restart
<1>3. RequestsOwnItems' /\ EventTypeOK'
  BY <1>1, <1>2 DEF RequestsOwnItems, EventTypeOK, HandlerStep
<1>4. Queueing' = {}
  BY <1>2 DEF Queueing
<1>5. ClaimsAreHeld'
  BY <1>2, <1>4 DEF ClaimsAreHeld
<1> QED
  BY <1>2, <1>3, <1>5 DEF SavedRows

LEMMA InitHInv == LifecycleInit => HInv
<1> SUFFICES ASSUME LifecycleInit PROVE HInv
  OBVIOUS
<1> USE DEF LifecycleInit
<1>1. PInv /\ RowTypeOK /\ faults \in Nat
  BY InitInv DEF RowTypeOK, Status
<1>2. <<>> \in Seq(Items) /\ Range(<<>>) = {} /\ 1 .. Len(<<>>) = {}
  BY DEF Range
<1>3. RequestsOwnItems /\ EventTypeOK /\ SavedRows /\ NothingDropped
  BY <1>2 DEF RequestsOwnItems, EventTypeOK, HandlerStep, SavedRows, NothingDropped
<1>4. ClaimsAreHeld
  <2>1. Queueing = {}
    BY DEF Queueing
  <2> QED
    BY <2>1 DEF ClaimsAreHeld
<1>5. PublishedRecorded
  BY <1>2 DEF Init, PublishedRecorded, PublishedJobs
<1> QED
  BY <1>1, <1>3, <1>4, <1>5 DEF HInv

LEMMA CancelsGrow ==
  ASSUME PInv, [LifecycleNext]_allVars PROVE cancels' = 0 => UNCHANGED cancels
<1>1. ASSUME NEW h \in Caller, Cancel(h) PROVE cancels' # 0
  BY <1>1 DEF Cancel, PInv, TypeOK
<1>2. ASSUME NEW h \in Caller, Request(h) PROVE (\E g \in Caller : Cancel(g)) \/ UNCHANGED cancels
  <2>1. CASE Handler(h)
    BY <2>1 DEF Handler, RegisterOperator, ClaimInFlight, SaveReceived, AfterPublish, MarkQueued, MarkDead,
                Publish, Collect, vars
  <2>2. CASE Publishing(Work(h))
    BY <2>2 DEF Publishing, Work, Lock, Send, SendFails, ReadConfirmation, SeeClosedChannel, GiveUp
  <2>3. CASE Disconnect(h) \/ \E e \in Event : Receive(h, e)
    BY <2>3 DEF Disconnect, Receive
  <2> QED
    BY <1>2, <2>1, <2>2, <2>3 DEF Request
<1>3. ASSUME \/ \E s \in Slot : Process(s)
             \/ \E x \in Exec : Store(x) \/ Reply(x)
             \/ Publishing(Environment) \/ Restart \/ UNCHANGED allVars
      PROVE  UNCHANGED cancels
  BY <1>3 DEF Process, FailEarly, TimeOut, Acknowledge, TakeCopy, CallMaster, Store, Reply, MarkCompleted,
              MarkStoreDead, MarkTripDetailsDead, Publishing, Environment, BrokerStores, BrokerRefuses,
              BrokerTakes, LoseConnection, Restart, allVars, vars
<1> QED
  BY <1>1, <1>2, <1>3 DEF LifecycleNext

LEMMA BreaksGrow ==
  ASSUME PInv, [LifecycleNext]_allVars PROVE breaks' = 0 => UNCHANGED breaks
<1> USE DEF PInv, TypeOK
<1>1. ASSUME NEW h \in Caller, Request(h) PROVE breaks' = 0 => UNCHANGED breaks
  <2>1. CASE Handler(h)
    BY <2>1 DEF Handler, RegisterOperator, ClaimInFlight, SaveReceived, AfterPublish, MarkQueued, MarkDead,
                Publish, Collect, vars
  <2>2. CASE Publishing(Work(h))
    BY <2>2 DEF Publishing, Work, Lock, Send, SendFails, ReadConfirmation, SeeClosedChannel, GiveUp
  <2>3. CASE Disconnect(h) \/ \E e \in Event : Receive(h, e)
    BY <2>3 DEF Disconnect, Cancel, Receive
  <2> QED
    BY <1>1, <2>1, <2>2, <2>3 DEF Request
<1>2. CASE Publishing(Environment)
  <2>1. breaks' = breaks \/ breaks' = breaks + 1
    BY <1>2 DEF Publishing, Environment, BrokerStores, BrokerRefuses, LoseConnection
  <2> QED
    BY <2>1
<1>3. CASE \/ \E s \in Slot : Process(s)
           \/ \E x \in Exec : Store(x) \/ Reply(x)
           \/ Restart \/ UNCHANGED allVars
  BY <1>3 DEF Process, FailEarly, TimeOut, Acknowledge, TakeCopy, CallMaster, Store, Reply, MarkCompleted,
              MarkStoreDead, MarkTripDetailsDead, Restart, allVars, vars
<1> QED
  BY <1>1, <1>2, <1>3 DEF LifecycleNext

LEMMA StepHInv == HInv /\ [LifecycleNext]_allVars => HInv'
<1> SUFFICES ASSUME HInv, [LifecycleNext]_allVars PROVE HInv'
  OBVIOUS
<1>1. PInv' /\ PublishedRecorded' /\ RowsStay
  BY LifecyclePublishes, RecordedStep, LifecycleRows DEF HInv
<1>2. RowTypeOK'
  <2>1. CASE \E h \in Caller : Request(h)
    BY <2>1, RequestQuiet DEF HInv
  <2>2. CASE Publishing(Environment) \/ UNCHANGED allVars
    BY <2>2 DEF Publishing, allVars, HInv, RowTypeOK
  <2> QED
    BY <2>1, <2>2, RowStep DEF LifecycleNext, HInv
<1>3. /\ faults' \in Nat
      /\ faults' = 0 => faults = 0 /\ faults' = faults
      /\ cancels' = 0 => cancels = 0
  BY FaultsGrow, CancelsGrow DEF HInv
<1> SUFFICES /\ RequestsOwnItems' /\ EventTypeOK' /\ ClaimsAreHeld' /\ SavedRows'
             /\ faults' = 0 /\ cancels' = 0 => NothingDropped'
  BY <1>1, <1>2, <1>3 DEF HInv
<1>4. ASSUME NEW h \in Caller, Handler(h) \/ \E e \in Event : Receive(h, e)
      PROVE  /\ RequestsOwnItems' /\ EventTypeOK' /\ ClaimsAreHeld' /\ SavedRows'
             /\ faults' = 0 /\ cancels' = 0 => NothingDropped'
  BY <1>3, <1>4, HandlerEvents, HandlerClaims, HandlerSaved, HandlerDrops DEF HInv, Request
<1>5. CASE UNCHANGED handler
  BY <1>1, <1>3, <1>5, HandlersRest DEF HInv
<1>6. ASSUME NEW h \in Caller, Publishing(Work(h)) \/ Disconnect(h) PROVE UNCHANGED handler
  BY <1>6 DEF Publishing, Disconnect
<1>7. ASSUME \/ \E s \in Slot : Process(s)
             \/ \E x \in Exec : Store(x) \/ Reply(x)
             \/ Publishing(Environment) \/ UNCHANGED allVars
      PROVE  UNCHANGED handler
  BY <1>7 DEF Process, FailEarly, TimeOut, Acknowledge, TakeCopy, CallMaster, Store, Reply, MarkCompleted,
              MarkStoreDead, MarkTripDetailsDead, Publishing, allVars
<1>8. CASE Restart
  <2>1. faults' # 0
    BY <1>8, <1>3 DEF Restart, Fault, HInv
  <2> QED
    BY <1>8, <2>1, RestartHandlers
<1> QED
  BY <1>4, <1>5, <1>6, <1>7, <1>8 DEF LifecycleNext, Request

LEMMA SpecHInv == LifecycleSpec => []HInv
  BY InitHInv, StepHInv, PTL DEF LifecycleSpec

LEMMA HInvImplies ==
  ASSUME HInv
  PROVE  ClaimsAreHeld /\ PublishedIsRecorded /\ ConfirmedUnlessCancelled /\ CollapsedIsRecorded
<1>1. PublishedIsRecorded
  BY DEF HInv, PublishedRecorded, PublishedJobs, Recorded, PublishedIsRecorded
<1>2. ConfirmedUnlessCancelled
  BY DEF HInv, PInv, Undisturbed, ConfirmedUnlessCancelled
<1>3. CollapsedIsRecorded
  <2> SUFFICES ASSUME \A h \in Caller : pc[h] = "free", faults = 0, cancels = 0,
                      NEW i \in answered \ Inactive
               PROVE  \E k \in Items : k.route = i.route /\ row[k.ref] # "none"
    BY DEF CollapsedIsRecorded
  <2>1. Served(i)
    BY DEF HInv, NothingDropped
  <2> QED
    BY <2>1 DEF Served, HasRow
<1> QED
  BY <1>1, <1>2, <1>3 DEF HInv

(* Every claim belongs to the one handler that is queueing its route, for    *)
(* any requests and faults: no path leaks a claim, or gives up another's.    *)
THEOREM ClaimsHeld == LifecycleSpec => []ClaimsAreHeld
  BY SpecHInv, HInvImplies, PTL

(* A job gets to the broker only after its row was saved, through publisher   *)
(* retries, reconnections and restarts of the Master.                        *)
THEOREM PublishedRecord == LifecycleSpec => []PublishedIsRecorded
  BY SpecHInv, HInvImplies, PTL

(* Inside the pipeline, too, a confirmed publication is on the broker while   *)
(* no request was cancelled, even across restarts of the Master.              *)
THEOREM PipelineConfirms == LifecycleSpec => []ConfirmedUnlessCancelled
  BY SpecHInv, HInvImplies, PTL

(* Whatever was answered with status 1 has a row of its route, if nothing     *)
(* failed: an item is collapsed only into one that is recorded.              *)
THEOREM CollapsedRecord == LifecycleSpec => []CollapsedIsRecorded
  BY SpecHInv, HInvImplies, PTL

-----------------------------------------------------------------------------
(* Where the jobs of goroutines and calls come from: a copy the broker had.   *)

LEMMA GoroutineJob ==
  ASSUME LInv, NEW s \in Slot, work[s].step # "idle"
  PROVE  work[s] # Idle /\ work[s] \in Between \union Awaiting
  BY Disjoint DEF LInv, OInv, CallTypeOK, Idle

LEMMA TakenFromBroker ==
  ASSUME LInv, taken \in [Job -> Nat], NEW s \in Slot, NEW j \in Job, TakeCopy(s, j)
  PROVE  taken[j] > 0
<1>1. Holders(j) \subseteq Slot /\ IsFiniteSet(Slot)
  BY LifecycleAssumption DEF Holders
<1>2. IsFiniteSet(Holders(j))
  BY <1>1, FS_Subset
<1>3. Cardinality(Holders(j)) \in Nat
  BY <1>2, FS_CardinalityType
<1>4. taken[j] \in Nat /\ done[j] \in Nat
  BY DEF LInv, OInv, CallTypeOK
<1>5. taken[j] > done[j] + Cardinality(Holders(j))
  BY DEF TakeCopy
<1> QED
  BY <1>3, <1>4, <1>5

WorkSource == \A s \in Slot : \/ work'[s] = Idle
                              \/ work[s] # Idle /\ work'[s].job = work[s].job
                              \/ work'[s].job \in Job /\ taken[work'[s].job] > 0

CallSource == \A x \in Exec : call'[x] \in CallState =>
                \/ call[x] \in CallState /\ call'[x].job = call[x].job
                \/ \E s \in Slot : work[s] # Idle /\ call'[x].job = work[s].job

LEMMA ProcessSource ==
  ASSUME LInv, taken \in [Job -> Nat], NEW s \in Slot, Process(s) PROVE WorkSource /\ CallSource
<1>1. ASSUME NEW v, SetWork(s, v),
             v = Idle \/ (work[s] # Idle /\ v.job = work[s].job) \/ (v.job \in Job /\ taken[v.job] > 0)
      PROVE  WorkSource
  <2>1. \A t \in Slot : work'[t] = IF t = s THEN v ELSE work[t]
    BY <1>1 DEF SetWork, LInv, OInv, CallTypeOK
  <2> QED
    BY <1>1, <2>1 DEF WorkSource
<1>2. CASE FailEarly(s)
  <2>1. work[s] # Idle /\ work[s] \in Between \union Awaiting
    BY <1>2, GoroutineJob DEF FailEarly
  <2>2. [work[s] EXCEPT !.step = "report"].job = work[s].job
    BY <2>1 DEF Between, Awaiting
  <2> QED
    BY <1>1, <1>2, <2>1, <2>2, NextAttemptFacts DEF FailEarly, master, CallSource
<1>3. CASE TimeOut(s)
  <2>1. work[s] # Idle /\ work[s] \in Between \union Awaiting
    BY <1>3, GoroutineJob DEF TimeOut
  <2>2. AfterFailure(s) = Idle \/ AfterFailure(s).job = work[s].job
    BY <2>1, NextAttemptFacts DEF AfterFailure
  <2> QED
    BY <1>1, <1>3, <2>1, <2>2 DEF TimeOut, master, CallSource
<1>4. CASE Acknowledge(s)
  BY <1>1, <1>4 DEF Acknowledge, master, CallSource
<1>5. ASSUME NEW j \in Job, TakeCopy(s, j) PROVE WorkSource /\ CallSource
  <2>1. taken[j] > 0
    BY <1>5, TakenFromBroker
  <2> QED
    BY <1>1, <1>5, <2>1 DEF TakeCopy, Begin, master, CallSource
<1>6. ASSUME NEW x \in Exec, CallMaster(s, x) PROVE WorkSource /\ CallSource
  <2>1. work[s] # Idle /\ work[s] \in Between \union Awaiting
    BY <1>6, GoroutineJob DEF CallMaster
  <2>2. [work[s] EXCEPT !.step = "wait", !.exec = x].job = work[s].job
    BY <2>1 DEF Between, Awaiting
  <2>3. PICK kind : call' = [call EXCEPT ![x] = [step |-> kind, job |-> work[s].job]]
    BY <1>6 DEF CallMaster
  <2>4. \A y \in Exec : call'[y] = IF y = x THEN [step |-> kind, job |-> work[s].job] ELSE call[y]
    BY <2>3 DEF LInv, OInv, CallTypeOK
  <2>5. CallSource
    BY <2>1, <2>4 DEF CallSource
  <2> QED
    BY <1>1, <1>6, <2>1, <2>2, <2>5 DEF CallMaster
<1> QED
  BY <1>2, <1>3, <1>4, <1>5, <1>6 DEF Process

LEMMA MasterSource ==
  ASSUME LInv, NEW x \in Exec, Store(x) \/ Reply(x) PROVE WorkSource /\ CallSource
<1>1. call[x] \in CallState
  BY Disjoint DEF Store, Reply, MarkCompleted, MarkStoreDead, MarkTripDetailsDead, LInv, OInv, CallTypeOK
<1>2. CASE Store(x)
  <2>1. PICK kind : call' = [call EXCEPT ![x].step = kind] /\ work' = work
    BY <1>2 DEF Store, Proceed
  <2>2. call'[x].job = call[x].job /\ \A y \in Exec \ {x} : call'[y] = call[y]
    BY <1>1, <2>1 DEF LInv, OInv, CallTypeOK, CallState
  <2> QED
    BY <1>1, <2>1, <2>2 DEF WorkSource, CallSource
<1>3. ASSUME NEW ok, Finished(x, ok) PROVE WorkSource /\ CallSource
  <2>1. \A y \in Exec : call'[y] = IF y = x THEN Free ELSE call[y]
    BY <1>3 DEF Finished, LInv, OInv, CallTypeOK
  <2>2. Free \notin CallState
    BY DEF Free, CallState
  <2>3. CallSource
    BY <2>1, <2>2 DEF CallSource
  <2>4. ASSUME NEW s \in Slot, s \in Waiting(x)
        PROVE  work'[s] = Idle \/ (work[s] # Idle /\ work'[s].job = work[s].job)
    <3>1. work[s] # Idle /\ work[s] \in Between \union Awaiting
      BY <2>4, GoroutineJob DEF Waiting
    <3>2. work'[s] = AfterFailure(s) \/ work'[s] = [work[s] EXCEPT !.step = "ack", !.exec = NoExec]
      BY <1>3, <2>4 DEF Finished
    <3>3. [work[s] EXCEPT !.step = "ack", !.exec = NoExec].job = work[s].job
      BY <3>1 DEF Between, Awaiting
    <3>4. AfterFailure(s) = Idle \/ AfterFailure(s).job = work[s].job
      BY <3>1, NextAttemptFacts DEF AfterFailure
    <3> QED
      BY <3>1, <3>2, <3>3, <3>4
  <2>5. \A s \in Slot : s \notin Waiting(x) => work'[s] = work[s]
    BY <1>3 DEF Finished
  <2> QED
    BY <2>3, <2>4, <2>5 DEF WorkSource
<1> QED
  BY <1>2, <1>3 DEF Reply, MarkCompleted, MarkStoreDead, MarkTripDetailsDead

LEMMA RestartSource ==
  ASSUME LInv, Restart PROVE WorkSource /\ CallSource
<1>1. ASSUME NEW s \in Slot, work[s].step = "wait"
      PROVE  work'[s] = Idle \/ (work[s] # Idle /\ work'[s].job = work[s].job)
  <2>1. work[s] # Idle /\ work[s] \in Between \union Awaiting
    BY <1>1, GoroutineJob
  <2> QED
    BY <1>1, <2>1, NextAttemptFacts DEF Restart, AfterFailure
<1>2. \A s \in Slot : work[s].step # "wait" => work'[s] = work[s]
  BY DEF Restart
<1>3. \A x \in Exec : call'[x] \notin CallState
  BY DEF Restart, Free, CallState
<1> QED
  BY <1>1, <1>2, <1>3 DEF WorkSource, CallSource

LEMMA LifecycleSource ==
  ASSUME LInv, taken \in [Job -> Nat], [LifecycleNext]_allVars PROVE WorkSource /\ CallSource
<1>1. CASE UNCHANGED <<worker, master>>
  BY <1>1 DEF worker, master, WorkSource, CallSource
<1>2. ASSUME NEW h \in Caller, Request(h) PROVE UNCHANGED <<worker, master>>
  BY <1>2, RequestQuiet DEF LInv, Quiet
<1>3. CASE Publishing(Environment) \/ UNCHANGED allVars
  BY <1>1, <1>3 DEF Publishing, allVars
<1> QED
  BY <1>1, <1>2, <1>3, ProcessSource, MasterSource, RestartSource DEF LifecycleNext

-----------------------------------------------------------------------------
(* A request ends, and nobody waits in vain.                                 *)

(* A handler is inside the publisher exactly while it is publishing.         *)
PublishStages == \A h \in Caller : stage[h] # "free" <=> pc[h] = "publish"

EndInv == HInv /\ PublishStages /\ AnswerComes

(* What a request has left to do at each place. *)
LEMMA LeftAt ==
  ASSUME NEW h
  PROVE  /\ pc[h] = "free" => RequestLeft(h) = 0
         /\ pc[h] = "register" => RequestLeft(h) = 10 * Len(todo[h]) + 9
         /\ pc[h] = "claim" => RequestLeft(h) = 10 * Len(todo[h]) + 8
         /\ pc[h] = "save" => RequestLeft(h) = 10 * Len(todo[h]) + 7
         /\ pc[h] \in {"mark", "dead"} => RequestLeft(h) = 10 * Len(todo[h]) + 1
         /\ pc[h] = "publish" =>
              /\ stage[h] = "lock" => RequestLeft(h) = 10 * Len(todo[h]) + (6 - 0)
              /\ stage[h] = "send" => RequestLeft(h) = 10 * Len(todo[h]) + (5 - tries[h])
              /\ stage[h] = "await" => RequestLeft(h) = 10 * Len(todo[h]) + (3 - 0)
              /\ stage[h] \in {"ok", "error"} => RequestLeft(h) = 10 * Len(todo[h]) + (2 - 0)
BY DEF RequestLeft, Position, Sending

LEMMA LeftAfter ==
  ASSUME NEW h
  PROVE  /\ pc'[h] = "free" => RequestLeft(h)' = 0
         /\ pc'[h] = "register" => RequestLeft(h)' = 10 * Len(todo'[h]) + 9
         /\ pc'[h] = "claim" => RequestLeft(h)' = 10 * Len(todo'[h]) + 8
         /\ pc'[h] = "save" => RequestLeft(h)' = 10 * Len(todo'[h]) + 7
         /\ pc'[h] \in {"mark", "dead"} => RequestLeft(h)' = 10 * Len(todo'[h]) + 1
         /\ pc'[h] = "publish" =>
              /\ stage'[h] = "lock" => RequestLeft(h)' = 10 * Len(todo'[h]) + (6 - 0)
              /\ stage'[h] = "send" => RequestLeft(h)' = 10 * Len(todo'[h]) + (5 - tries'[h])
              /\ stage'[h] = "await" => RequestLeft(h)' = 10 * Len(todo'[h]) + (3 - 0)
              /\ stage'[h] \in {"ok", "error"} => RequestLeft(h)' = 10 * Len(todo'[h]) + (2 - 0)
BY DEF RequestLeft, Position, Sending

LEMMA LeftInRange ==
  ASSUME EndInv, NEW h \in Caller, pc[h] # "free"
  PROVE  RequestLeft(h) \in Nat \ {0}
<1>1. /\ pc[h] \in {"register", "claim", "save", "publish", "mark", "dead"}
      /\ Len(todo[h]) \in Nat /\ tries[h] \in 0 .. 1
      /\ stage[h] \in {"free", "lock", "send", "await", "ok", "error"}
      /\ pc[h] = "publish" => stage[h] # "free"
  BY DEF EndInv, HInv, PInv, TypeOK, RequestsOwnItems, HandlerStep, PublishStages
<1> DEFINE n == Len(todo[h])
<1>2. n \in Nat
  BY <1>1
<1> HIDE DEF n
<1>3. CASE pc[h] = "publish"
  <2>1. /\ stage[h] = "lock" => RequestLeft(h) = 10 * n + 6
        /\ stage[h] = "send" => RequestLeft(h) = 10 * n + (5 - tries[h])
        /\ stage[h] = "await" => RequestLeft(h) = 10 * n + 3
        /\ stage[h] \in {"ok", "error"} => RequestLeft(h) = 10 * n + 2
    BY <1>3, LeftAt DEF n
  <2>2. tries[h] = 0 \/ tries[h] = 1
    BY <1>1
  <2> QED
    BY <1>1, <1>2, <1>3, <2>1, <2>2
<1>4. CASE pc[h] # "publish"
  <2>1. RequestLeft(h) \in {10 * n + 9, 10 * n + 8, 10 * n + 7, 10 * n + 1}
    BY <1>1, <1>4, LeftAt DEF n
  <2> QED
    BY <1>2, <2>1
<1> QED
  BY <1>3, <1>4

LEMMA LeftAfterInRange ==
  ASSUME EndInv', NEW h \in Caller
  PROVE  RequestLeft(h)' \in Nat
<1>1. /\ pc'[h] \in HandlerStep
      /\ Len(todo'[h]) \in Nat /\ tries'[h] \in 0 .. 1
      /\ stage'[h] \in {"free", "lock", "send", "await", "ok", "error"}
      /\ pc'[h] = "publish" => stage'[h] # "free"
  BY DEF EndInv, HInv, PInv, TypeOK, RequestsOwnItems, PublishStages
<1> DEFINE n == Len(todo'[h])
<1>2. n \in Nat
  BY <1>1
<1> HIDE DEF n
<1>3. CASE pc'[h] = "publish"
  <2>1. /\ stage'[h] = "lock" => RequestLeft(h)' = 10 * n + 6
        /\ stage'[h] = "send" => RequestLeft(h)' = 10 * n + (5 - tries'[h])
        /\ stage'[h] = "await" => RequestLeft(h)' = 10 * n + 3
        /\ stage'[h] \in {"ok", "error"} => RequestLeft(h)' = 10 * n + 2
    BY <1>3, LeftAfter DEF n
  <2>2. tries'[h] = 0 \/ tries'[h] = 1
    BY <1>1
  <2> QED
    BY <1>1, <1>2, <1>3, <2>1, <2>2
<1>4. CASE pc'[h] # "publish"
  <2>1. RequestLeft(h)' \in {0, 10 * n + 9, 10 * n + 8, 10 * n + 7, 10 * n + 1}
    BY <1>1, <1>4, LeftAfter DEF n, HandlerStep
  <2> QED
    BY <1>2, <2>1
<1> QED
  BY <1>3, <1>4

-----------------------------------------------------------------------------
(* The steps of a handler outside the publisher. *)
LEMMA HandlerFewer ==
  ASSUME EndInv, NEW h \in Caller, Handler(h)
  PROVE  RequestLeft(h)' < RequestLeft(h) /\ (stage'[h] # "free" <=> pc'[h] = "publish")
<1> DEFINE Goal == RequestLeft(h)' < RequestLeft(h) /\ (stage'[h] # "free" <=> pc'[h] = "publish")
<1> USE DEF EndInv, HInv
<1>1. /\ pc \in [Caller -> HandlerStep] /\ pc[h] # "free" /\ RequestLeft(h) \in Nat \ {0}
      /\ Len(todo[h]) \in Nat
      /\ pc[h] = "publish" <=> stage[h] # "free"
  <2>1. pc[h] # "free"
    BY DEF Handler, RegisterOperator, ClaimInFlight, SaveReceived, AfterPublish, MarkQueued, MarkDead
  <2> QED
    BY <2>1, LeftInRange DEF RequestsOwnItems, PublishStages
<1>2. ASSUME NEW ok, Answer(h, ok), stage' = stage, pc[h] # "publish" PROVE Goal
  <2>1. pc'[h] = "free"
    BY <1>1, <1>2 DEF Answer, GoTo
  <2> QED
    BY <1>1, <1>2, <2>1, LeftAfter
<1>3. ASSUME NextItem(h), todo[h] # <<>>, stage' = stage, pc[h] \notin {"free", "publish"} PROVE Goal
  <2>1. pc'[h] = "register" /\ todo'[h] = Tail(todo[h])
    BY <1>1, <1>3 DEF NextItem, GoTo, RequestsOwnItems
  <2>2. Len(Tail(todo[h])) = Len(todo[h]) - 1
    BY <1>3 DEF RequestsOwnItems
  <2>3. RequestLeft(h) >= 10 * Len(todo[h]) + 1
    BY <1>1, <1>3, LeftAt DEF HandlerStep
  <2>4. RequestLeft(h)' = 10 * (Len(todo[h]) - 1) + 9
    BY <2>1, <2>2, LeftAfter
  <2> QED
    BY <1>1, <1>3, <2>1, <2>3, <2>4
<1>4. pc[h] \in {"claim", "save", "publish", "mark", "dead"} => todo[h] # <<>>
  BY DEF RequestsOwnItems
<1>5. ASSUME NEW to, GoTo(h, to) PROVE pc'[h] = to
  BY <1>1, <1>5 DEF GoTo
<1>6. CASE RegisterOperator(h)
  <2>1. stage' = stage /\ pc[h] = "register"
    BY <1>6 DEF RegisterOperator, vars, publisher, client
  <2>2. CASE GoTo(h, "claim") /\ todo' = todo
    BY <1>1, <1>5, <2>1, <2>2, LeftAt, LeftAfter
  <2> QED
    BY <1>2, <1>3, <1>6, <2>1, <2>2 DEF RegisterOperator
<1>7. CASE ClaimInFlight(h)
  <2>1. stage' = stage /\ pc[h] = "claim"
    BY <1>7 DEF ClaimInFlight, vars, publisher, client
  <2>2. CASE GoTo(h, "save") /\ todo' = todo
    BY <1>1, <1>5, <2>1, <2>2, LeftAt, LeftAfter
  <2> QED
    BY <1>3, <1>4, <1>7, <2>1, <2>2 DEF ClaimInFlight
<1>8. CASE SaveReceived(h)
  <2>1. CASE Publish(h, Item(h).ref) /\ GoTo(h, "publish") /\ todo' = todo
    <3>1. stage'[h] = "lock" /\ pc'[h] = "publish"
      BY <1>5, <2>1 DEF Publish, PInv, TypeOK
    <3> QED
      BY <1>1, <1>8, <2>1, <3>1, LeftAt, LeftAfter DEF SaveReceived
  <2>2. CASE GoTo(h, "dead") /\ todo' = todo /\ UNCHANGED vars
    <3>1. pc'[h] = "dead" /\ stage' = stage
      BY <1>5, <2>2 DEF vars, publisher, client
    <3> QED
      BY <1>1, <1>8, <2>2, <3>1, LeftAt, LeftAfter DEF SaveReceived
  <2>3. CASE Answer(h, FALSE) /\ UNCHANGED vars
    BY <1>2, <1>8, <2>3 DEF SaveReceived, vars, publisher, client
  <2> QED
    BY <1>8, <2>1, <2>2, <2>3 DEF SaveReceived
<1>9. CASE AfterPublish(h)
  <2>1. /\ pc[h] = "publish" /\ stage[h] \in {"ok", "error"} /\ todo' = todo
        /\ pc'[h] \in {"mark", "dead"} /\ stage'[h] = "free"
    BY <1>5, <1>9 DEF AfterPublish, Collect, PInv, TypeOK
  <2> QED
    BY <1>1, <2>1, LeftAt, LeftAfter
<1>10. CASE MarkQueued(h) \/ MarkDead(h)
  <2>1. stage' = stage /\ pc[h] \in {"mark", "dead"}
    BY <1>10 DEF MarkQueued, MarkDead, vars, publisher, client
  <2> QED
    BY <1>2, <1>3, <1>4, <1>10, <2>1 DEF MarkQueued, MarkDead
<1> QED
  BY <1>6, <1>7, <1>8, <1>9, <1>10 DEF Handler

(* The steps inside the publisher. *)
LEMMA PublishingFewer ==
  ASSUME EndInv, NEW h \in Caller, Publishing(Work(h))
  PROVE  /\ RequestLeft(h)' < RequestLeft(h)
         /\ stage[h] # "free" /\ stage'[h] # "free" /\ UNCHANGED handler
<1> USE DEF EndInv, HInv
<1>1. stage[h] # "free" /\ UNCHANGED handler
  BY DEF Publishing, Work, Lock, Send, SendFails, ReadConfirmation, SeeClosedChannel, GiveUp
<1>2. /\ pc[h] = "publish" /\ pc'[h] = "publish" /\ todo' = todo
      /\ Len(todo[h]) \in Nat /\ tries[h] \in 0 .. 1
  BY <1>1 DEF handler, PublishStages, RequestsOwnItems, PInv, TypeOK
<1>3. Work(h)
  BY DEF Publishing
<1>4. ASSUME NEW result \in {"ok", "error"}, Finish(h, result), stage[h] \in {"send", "await"}
      PROVE  RequestLeft(h)' < RequestLeft(h) /\ stage'[h] # "free"
  <2>1. stage'[h] \in {"ok", "error"}
    BY <1>4 DEF Finish, PInv, TypeOK
  <2> QED
    BY <1>2, <1>4, <2>1, LeftAt, LeftAfter
<1>5. CASE Lock(h)
  <2>1. stage[h] = "lock" /\ stage'[h] = "send" /\ tries' = tries
    BY <1>5 DEF Lock, PInv, TypeOK
  <2> QED
    BY <1>1, <1>2, <2>1, LeftAt, LeftAfter
<1>6. CASE Send(h)
  <2>1. stage[h] = "send" /\ stage'[h] = "await"
    BY <1>6 DEF Send, PInv, TypeOK
  <2> QED
    BY <1>1, <1>2, <2>1, LeftAt, LeftAfter
<1>7. CASE SendFails(h)
  <2>1. CASE tries[h] = 0 /\ tries' = [tries EXCEPT ![h] = 1] /\ UNCHANGED stage
    <3>1. stage[h] = "send" /\ stage'[h] = "send" /\ tries'[h] = 1
      BY <1>7, <2>1 DEF SendFails, PInv, TypeOK
    <3> QED
      BY <1>1, <1>2, <2>1, <3>1, LeftAt, LeftAfter
  <2>2. CASE Finish(h, "error")
    BY <1>1, <1>4, <1>7, <2>2 DEF SendFails
  <2> QED
    BY <1>7, <2>1, <2>2 DEF SendFails
<1>8. CASE ReadConfirmation(h) \/ SeeClosedChannel(h) \/ GiveUp(h)
  BY <1>1, <1>4, <1>8 DEF ReadConfirmation, SeeClosedChannel, GiveUp
<1> QED
  BY <1>1, <1>3, <1>5, <1>6, <1>7, <1>8 DEF Work

-----------------------------------------------------------------------------
(* Everybody else's steps. *)
Unmoved(h) == pc'[h] = pc[h] /\ todo'[h] = todo[h] /\ stage'[h] = stage[h] /\ tries'[h] = tries[h]

LEMMA OthersUnmoved ==
  ASSUME EndInv, NEW h \in Caller, NEW g \in Caller \ {h}, Handler(g) \/ Publishing(Work(g))
  PROVE  Unmoved(h)
<1> USE DEF EndInv, HInv
<1>1. CASE Handler(g)
  <2>1. pc'[h] = pc[h] /\ todo'[h] = todo[h]
    BY <1>1, HandlerAlone
  <2>2. stage'[h] = stage[h] /\ tries'[h] = tries[h]
    BY <1>1 DEF Handler, RegisterOperator, ClaimInFlight, SaveReceived, AfterPublish, MarkQueued, MarkDead,
                Publish, Collect, vars, publisher, client, PInv, TypeOK
  <2> QED
    BY <2>1, <2>2 DEF Unmoved
<1>2. CASE Publishing(Work(g))
  <2>1. stage'[h] = stage[h] /\ tries'[h] = tries[h]
    BY <1>2 DEF Publishing, Work, Lock, Send, SendFails, ReadConfirmation, SeeClosedChannel, GiveUp, Finish,
                PInv, TypeOK
  <2> QED
    BY <1>2, <2>1 DEF Publishing, handler, Unmoved
<1> QED
  BY <1>1, <1>2

LEMMA RestUnmoved ==
  ASSUME EndInv, NEW h \in Caller,
         \/ \E g \in Caller : Disconnect(g)
         \/ \E g \in Caller : g # h /\ \E e \in Event : Receive(g, e)
         \/ \E s \in Slot : Process(s)
         \/ \E x \in Exec : Store(x) \/ Reply(x)
         \/ Publishing(Environment) \/ UNCHANGED allVars
  PROVE  Unmoved(h)
<1> USE DEF Unmoved, handler, vars, publisher, client
<1>1. CASE \E g \in Caller : Disconnect(g)
  BY <1>1 DEF Disconnect, Cancel
<1>2. ASSUME NEW g \in Caller, g # h, NEW e \in Event, Receive(g, e) PROVE Unmoved(h)
  BY <1>2 DEF Receive, GoTo, EndInv, HInv, RequestsOwnItems
<1>3. CASE \E s \in Slot : Process(s)
  BY <1>3 DEF Process, FailEarly, TimeOut, Acknowledge, TakeCopy, CallMaster
<1>4. CASE \E x \in Exec : Store(x) \/ Reply(x)
  BY <1>4 DEF Store, Reply, MarkCompleted, MarkStoreDead, MarkTripDetailsDead
<1>5. CASE Publishing(Environment)
  BY <1>5 DEF Publishing, Environment, BrokerStores, BrokerRefuses, BrokerTakes, LoseConnection
<1>6. CASE UNCHANGED allVars
  BY <1>6 DEF allVars
<1> QED
  BY <1>1, <1>2, <1>3, <1>4, <1>5, <1>6

(* What a step of the pipeline means for one request. *)
LEMMA LeftStep ==
  ASSUME EndInv, [LifecycleNext]_allVars, NEW h \in Caller
  PROVE  \/ Handler(h) \/ Publishing(Work(h)) \/ Unmoved(h)
         \/ pc[h] = "free" /\ stage'[h] = stage[h] /\ pc'[h] = "register"
         \/ pc'[h] = "free" /\ stage'[h] = "free"
<1>1. CASE Restart
  BY <1>1 DEF Restart
<1>2. ASSUME NEW e \in Event, Receive(h, e)
      PROVE  pc[h] = "free" /\ stage'[h] = stage[h] /\ pc'[h] = "register"
  BY <1>2 DEF Receive, GoTo, publisher, client, EndInv, HInv, RequestsOwnItems
<1> QED
  BY <1>1, <1>2, OthersUnmoved, RestUnmoved DEF LifecycleNext, Request

LEMMA LeftSame ==
  ASSUME NEW h, Unmoved(h) PROVE RequestLeft(h)' = RequestLeft(h)
BY DEF Unmoved, RequestLeft

LEMMA StagesStep ==
  ASSUME EndInv, [LifecycleNext]_allVars PROVE PublishStages'
<1> SUFFICES ASSUME NEW h \in Caller PROVE stage'[h] # "free" <=> pc'[h] = "publish"
  BY DEF PublishStages
<1>1. stage[h] # "free" <=> pc[h] = "publish"
  BY DEF EndInv, PublishStages
<1>2. CASE Publishing(Work(h))
  BY <1>1, <1>2, PublishingFewer DEF handler
<1> QED
  BY <1>1, <1>2, LeftStep, HandlerFewer DEF Unmoved

-----------------------------------------------------------------------------
(* In the pipeline, too, the answer of whoever awaits one comes. *)
LEMMA PipelineAnswer ==
  ASSUME EndInv, [LifecycleNext]_allVars PROVE AnswerComes'
<1> USE DEF EndInv, HInv
<1>1. CASE UNCHANGED publisher
  BY <1>1 DEF publisher, client, link, AnswerComes
<1>2. ASSUME NEW h \in Caller, Handler(h) PROVE AnswerComes'
  <2>1. CASE RegisterOperator(h) \/ ClaimInFlight(h) \/ MarkQueued(h) \/ MarkDead(h)
    BY <1>1, <2>1 DEF RegisterOperator, ClaimInFlight, MarkQueued, MarkDead, vars
  <2>2. CASE SaveReceived(h)
    <3>1. Item(h).ref \in Job
      BY <2>2, QueueingItem DEF SaveReceived
    <3>2. CASE Publish(h, Item(h).ref)
      BY <3>1, <3>2, CallerAnswer
    <3> QED
      BY <1>1, <2>2, <3>2 DEF SaveReceived, vars
  <2>3. CASE AfterPublish(h)
    BY <2>3, CallerAnswer DEF AfterPublish
  <2> QED
    BY <1>2, <2>1, <2>2, <2>3 DEF Handler
<1>3. ASSUME NEW h \in Caller, Request(h) PROVE AnswerComes'
  <2>1. CASE Publishing(Work(h))
    BY <2>1, CallerAnswer DEF Publishing
  <2>2. CASE Disconnect(h) \/ \E e \in Event : Receive(h, e)
    BY <1>1, <2>2 DEF Disconnect, Cancel, Receive
  <2> QED
    BY <1>2, <1>3, <2>1, <2>2 DEF Request
<1>4. CASE Publishing(Environment)
  BY <1>4, EnvironmentAnswer DEF Publishing
<1>5. CASE Restart
  BY <1>5 DEF Restart, AnswerComes
<1>6. CASE \E s \in Slot : Process(s)
  BY <1>1, <1>6 DEF Process, FailEarly, TimeOut, Acknowledge, TakeCopy, CallMaster, vars
<1>7. CASE \E x \in Exec : Store(x) \/ Reply(x)
  BY <1>1, <1>7 DEF Store, Reply, MarkCompleted, MarkStoreDead, MarkTripDetailsDead, vars
<1> QED
  BY <1>1, <1>3, <1>4, <1>5, <1>6, <1>7 DEF LifecycleNext, allVars, vars

LEMMA StepEndInv == EndInv /\ [LifecycleNext]_allVars => EndInv'
BY StepHInv, StagesStep, PipelineAnswer DEF EndInv

LEMMA SpecEndInv == LifecycleSpec => []EndInv
<1>1. LifecycleInit => EndInv
  BY InitHInv DEF EndInv, LifecycleInit, Init, PublishStages, AnswerComes
<1> QED
  BY <1>1, StepEndInv, PTL DEF LifecycleSpec

(* Every request, whatever the broker, the Workers, the other requests and    *)
(* the faults do: whoever waits inside the publisher waits for something that *)
(* comes.                                                                    *)
THEOREM PipelineNeverStuck == LifecycleSpec => []NobodyWaitsInVain
<1>1. EndInv => NobodyWaitsInVain
  BY LockReleased DEF EndInv, HInv, NobodyWaitsInVain
<1> QED
  BY <1>1, SpecEndInv, PTL

(* The half of RequestAnswered that no fairness is needed for: a request has  *)
(* a bounded number of steps before it, each of its own leaves it fewer and   *)
(* no other step leaves it more.                                             *)
THEOREM RequestsEnd == LifecycleSpec => RequestIsBounded
<1>1. ASSUME EndInv, [LifecycleNext]_allVars, NEW h \in Caller, pc[h] # "free"
      PROVE  /\ RequestLeft(h) \in Nat \ {0}
             /\ RequestLeft(h)' <= RequestLeft(h)
             /\ Handler(h) \/ Publishing(Work(h)) => RequestLeft(h)' < RequestLeft(h)
  <2>1. RequestLeft(h) \in Nat \ {0}
    BY <1>1, LeftInRange
  <2>2. CASE Handler(h) \/ Publishing(Work(h))
    <3>1. RequestLeft(h)' < RequestLeft(h)
      BY <1>1, <2>2, HandlerFewer, PublishingFewer
    <3>2. RequestLeft(h)' \in Nat
      BY <1>1, StepEndInv, LeftAfterInRange
    <3> QED
      BY <2>1, <3>1, <3>2
  <2>3. CASE ~(Handler(h) \/ Publishing(Work(h)))
    <3>1. RequestLeft(h)' = RequestLeft(h) \/ RequestLeft(h)' = 0
      BY <1>1, <2>3, LeftStep, LeftSame, LeftAfter
    <3> QED
      BY <2>1, <2>3, <3>1
  <2> QED
    BY <2>1, <2>2, <2>3
<1>2. EndInv /\ [LifecycleNext]_allVars =>
        [\A h \in Caller :
           pc[h] # "free" =>
             /\ RequestLeft(h) \in Nat \ {0}
             /\ RequestLeft(h)' <= RequestLeft(h)
             /\ Handler(h) \/ Publishing(Work(h)) => RequestLeft(h)' < RequestLeft(h)]_allVars
  BY <1>1
<1> QED
  BY <1>2, SpecEndInv, PTL DEF LifecycleSpec, RequestIsBounded

=============================================================================
