------------------------ MODULE WorkerDeliveryProofs ------------------------
(***************************************************************************)
(* Proofs about WorkerDelivery, for every set of messages, processes and    *)
(* goroutines, every prefetch count, attempt bound and number of faults.    *)
(* IInv is inductive: InitIInv, then one lemma per action, collected in     *)
(* NextIInv.  The safety invariants and the refinement of DeliveryContract  *)
(* follow from it.                                                          *)
(***************************************************************************)
EXTENDS WorkerDelivery, TLAPS

(* The conjuncts of IInv that speak about goroutines only.                   *)
ThreadInv == RetryDelayDefined /\ RunningHoldsTask /\ AttemptCounted /\ AckHasOutcome

ThreadTypeOK ==
  /\ pc \in [Thread -> {"idle", "backoff", "report", "ack", "exited"} \union Stage]
  /\ task \in [Thread -> Msg \union {NoMsg}]
  /\ attempt \in [Thread -> 0 .. MaxAttempts]
  /\ calls \in [Thread -> 0 .. MaxCalls - 1]

(* A stage hands its delivery on to another place within the same attempt.   *)
MovesTo(t, next) == /\ GoTo(t, next)
                    /\ UNCHANGED <<task, attempt>>
                    /\ calls' \in [Thread -> 0 .. MaxCalls - 1]

(* A step after which every goroutine has the delivery it had or none.       *)
LetsGo == \A u \in Thread : task'[u] \in {task[u], NoMsg}

(* The conjuncts that relate deliveries to the broker.                       *)
BrokerInv == Conservation /\ AcknowledgedHasOutcome /\ ExclusiveWork /\ BufferedIsUnacked

LEMMA InitIInv == Init => IInv
  BY DeliveryAssumption
  DEF Init, IInv, TypeOK, Conservation, AcknowledgedHasOutcome, ExclusiveWork,
      RetryDelayDefined, BufferedIsUnacked, RunningHoldsTask, AttemptCounted,
      AckHasOutcome, Running, Stage

-----------------------------------------------------------------------------
(* Steps of the broker and of the channel.                                  *)

(* The goroutine part of the invariant depends on nothing else.              *)
LEMMA ThreadInvFrame ==
  ASSUME ThreadInv, UNCHANGED <<thread, outcome>>
  PROVE  ThreadInv'
  BY DEF ThreadInv, RetryDelayDefined, RunningHoldsTask, AttemptCounted,
         AckHasOutcome, Running, Stage, thread

LEMMA DeliverIInv ==
  ASSUME IInv, NEW w \in Worker, NEW m \in Msg, Deliver(w, m)
  PROVE  IInv'
<1> USE DEF Deliver, process, thread
<1>1. TypeOK'
  BY DEF IInv, TypeOK
<1>2. Conservation'
  BY DEF IInv, TypeOK, Conservation
<1>3. ExclusiveWork'
  BY DeliveryAssumption DEF IInv, TypeOK, Conservation, ExclusiveWork
<1>4. AcknowledgedHasOutcome' /\ BufferedIsUnacked'
  BY DEF IInv, TypeOK, Conservation, AcknowledgedHasOutcome, BufferedIsUnacked
<1>5. ThreadInv'
  BY ThreadInvFrame DEF IInv, ThreadInv
<1> QED
  BY <1>1, <1>2, <1>3, <1>4, <1>5 DEF IInv, ThreadInv

LEMMA BrokerSettlesIInv ==
  ASSUME IInv, NEW w \in Worker, NEW m \in Msg, BrokerSettles(w, m)
  PROVE  IInv'
<1> USE DEF BrokerSettles, process, thread
<1>1. TypeOK'
  BY DEF IInv, TypeOK
<1>2. Conservation'
  BY DEF IInv, TypeOK, Conservation
<1>3. ExclusiveWork'
  BY DeliveryAssumption DEF IInv, TypeOK, ExclusiveWork
<1>4. AcknowledgedHasOutcome' /\ BufferedIsUnacked'
  BY DEF IInv, TypeOK, AcknowledgedHasOutcome, BufferedIsUnacked
<1>5. ThreadInv'
  BY ThreadInvFrame DEF IInv, ThreadInv
<1> QED
  BY <1>1, <1>2, <1>3, <1>4, <1>5 DEF IInv, ThreadInv

LEMMA StopConsumingIInv ==
  ASSUME IInv, NEW w \in Worker, StopConsuming(w)
  PROVE  IInv'
<1> USE DEF StopConsuming, broker, thread
<1>1. TypeOK'
  BY DEF IInv, TypeOK
<1>2. Home \in [Thread -> Worker] /\ channel \in [Worker -> {"consuming", "cancelled", "closed"}]
  BY DeliveryAssumption DEF IInv, TypeOK
<1>3. BrokerInv'
  BY <1>2
  DEF IInv, TypeOK, BrokerInv, Conservation, AcknowledgedHasOutcome,
      ExclusiveWork, BufferedIsUnacked
<1>4. ThreadInv'
  BY ThreadInvFrame DEF IInv, ThreadInv
<1> QED
  BY <1>1, <1>3, <1>4 DEF IInv, BrokerInv, ThreadInv

LEMMA LoseChannelIInv ==
  ASSUME IInv, NEW w \in Worker, LoseChannel(w)
  PROVE  IInv'
<1> USE DEF LoseChannel, Requeue, thread
<1>1. TypeOK'
  BY DeliveryAssumption DEF IInv, TypeOK
<1>2. Conservation'
  BY DEF IInv, TypeOK, Conservation
<1>3. ExclusiveWork'
  BY DeliveryAssumption DEF IInv, TypeOK, Conservation, ExclusiveWork
<1>4. AcknowledgedHasOutcome' /\ BufferedIsUnacked'
  BY DEF IInv, TypeOK, AcknowledgedHasOutcome, BufferedIsUnacked
<1>5. ThreadInv'
  BY ThreadInvFrame DEF IInv, ThreadInv
<1> QED
  BY <1>1, <1>2, <1>3, <1>4, <1>5 DEF IInv, ThreadInv

LEMMA ShutdownIInv ==
  ASSUME IInv, NEW w \in Worker, Shutdown(w)
  PROVE  IInv'
<1> USE DEF Shutdown, broker, thread
<1>1. TypeOK'
  BY DEF IInv, TypeOK
<1>2. BrokerInv'
  BY DEF IInv, BrokerInv, Conservation, AcknowledgedHasOutcome, ExclusiveWork,
         BufferedIsUnacked
<1>3. ThreadInv'
  BY ThreadInvFrame DEF IInv, ThreadInv
<1> QED
  BY <1>1, <1>2, <1>3 DEF IInv, BrokerInv, ThreadInv

(* A new process: its goroutines are idle and the broker has its deliveries  *)
(* back.  This covers both a crash and an orderly exit.                      *)
LEMMA ResetIInv ==
  ASSUME IInv, NEW w \in Worker, Reset(w), UNCHANGED <<outcome, expired>>,
         faults' \in 0 .. MaxFaults
  PROVE  IInv'
<1> USE DEF Reset, Requeue, Pool
<1>1. TypeOK'
  BY DeliveryAssumption DEF IInv, TypeOK, Stage
<1>2. Conservation'
  BY DEF IInv, TypeOK, Conservation
<1>3. ExclusiveWork'
  BY DeliveryAssumption DEF IInv, TypeOK, Conservation, ExclusiveWork
<1>4. AcknowledgedHasOutcome' /\ BufferedIsUnacked'
  BY DEF IInv, TypeOK, AcknowledgedHasOutcome, BufferedIsUnacked
<1>5. RetryDelayDefined' /\ RunningHoldsTask' /\ AttemptCounted' /\ AckHasOutcome'
  BY DeliveryAssumption
  DEF IInv, TypeOK, RetryDelayDefined, RunningHoldsTask, AttemptCounted,
      AckHasOutcome, Running, Stage
<1> QED
  BY <1>1, <1>2, <1>3, <1>4, <1>5 DEF IInv

LEMMA DatePassesIInv ==
  ASSUME IInv, NEW m \in Msg, DatePasses(m)
  PROVE  IInv'
<1> USE DEF DatePasses, broker, process, thread
<1>1. TypeOK'
  BY DEF IInv, TypeOK
<1>2. BrokerInv'
  BY DEF IInv, BrokerInv, Conservation, AcknowledgedHasOutcome, ExclusiveWork,
         BufferedIsUnacked
<1>3. ThreadInv'
  BY ThreadInvFrame DEF IInv, ThreadInv
<1> QED
  BY <1>1, <1>2, <1>3 DEF IInv, BrokerInv, ThreadInv

-----------------------------------------------------------------------------
(* Steps of a goroutine.                                                    *)

(* A step that only lets go of deliveries and only adds outcomes keeps the   *)
(* broker part of the invariant.                                             *)
LEMMA LocalStepFrame ==
  ASSUME IInv, NEW t \in Thread, UNCHANGED <<broker, process>>,
         \A u \in Thread : task'[u] \in {task[u], NoMsg},
         \A m \in Msg : outcome[m] \subseteq outcome'[m]
  PROVE  BrokerInv'
<1> USE DEF broker, process
<1>1. Conservation' /\ BufferedIsUnacked'
  BY DEF IInv, Conservation, BufferedIsUnacked
<1>2. AcknowledgedHasOutcome'
  BY DEF IInv, AcknowledgedHasOutcome
<1>3. ExclusiveWork'
  BY DeliveryAssumption DEF IInv, TypeOK, ExclusiveWork
<1> QED
  BY <1>1, <1>2, <1>3 DEF BrokerInv

(* What Return and Fail do to the goroutine.                                 *)
LEMMA ReturnInv ==
  ASSUME IInv, NEW t \in Thread, Return(t), outcome' \in [Msg -> SUBSET Outcome],
         \A m \in Msg : outcome[m] \subseteq outcome'[m]
  PROVE  ThreadTypeOK' /\ ThreadInv' /\ LetsGo
<1> USE DEF Return, GoTo
<1>1. ThreadTypeOK' /\ LetsGo
  BY DeliveryAssumption DEF IInv, TypeOK, ThreadTypeOK, LetsGo
<1>2. RetryDelayDefined' /\ RunningHoldsTask' /\ AttemptCounted'
  BY DeliveryAssumption
  DEF IInv, TypeOK, RetryDelayDefined, RunningHoldsTask, AttemptCounted, Running, Stage
<1>3. AckHasOutcome'
  BY DEF IInv, TypeOK, AckHasOutcome
<1> QED
  BY <1>1, <1>2, <1>3 DEF ThreadInv

LEMMA FailInv ==
  ASSUME IInv, NEW t \in Thread, NEW stage \in Stage, NEW retryable \in BOOLEAN,
         pc[t] \in Stage, Fail(t, stage, retryable),
         outcome' \in [Msg -> SUBSET Outcome],
         \A m \in Msg : outcome[m] \subseteq outcome'[m]
  PROVE  ThreadTypeOK' /\ ThreadInv' /\ LetsGo
<1>1. CASE Return(t)
  BY <1>1, ReturnInv
<1>2. CASE /\ GoTo(t, IF ~retryable \/ attempt[t] = MaxAttempts THEN "report" ELSE "backoff")
           /\ calls' = [calls EXCEPT ![t] = 0]
           /\ UNCHANGED <<task, attempt>>
  <2> USE <1>2, DeliveryAssumption DEF GoTo
  <2>1. ThreadTypeOK' /\ LetsGo
    BY DEF IInv, TypeOK, ThreadTypeOK, LetsGo
  <2>2. RetryDelayDefined' /\ AttemptCounted'
    BY DeliveryAssumption
    DEF IInv, TypeOK, RetryDelayDefined, AttemptCounted, Stage
  <2>3. RunningHoldsTask'
    BY DEF IInv, TypeOK, RunningHoldsTask, Running, Stage
  <2>4. AckHasOutcome'
    BY DEF IInv, TypeOK, AckHasOutcome
  <2> QED
    BY <2>1, <2>2, <2>3, <2>4 DEF ThreadInv
<1> QED
  BY <1>1, <1>2 DEF Fail

LEMMA LocalStepIInv ==
  ASSUME IInv, NEW t \in Thread, UNCHANGED <<broker, process, expired, faults>>,
         ThreadTypeOK', ThreadInv', LetsGo,
         outcome' \in [Msg -> SUBSET Outcome],
         \A m \in Msg : outcome[m] \subseteq outcome'[m]
  PROVE  IInv'
<1>1. TypeOK'
  BY DEF IInv, TypeOK, ThreadTypeOK, broker, process
<1>2. BrokerInv'
  BY LocalStepFrame DEF LetsGo
<1> QED
  BY <1>1, <1>2 DEF IInv, BrokerInv, ThreadInv

(* What a move does, for each successor of a stage.                          *)
LEMMA SucceedMoves ==
  ASSUME IInv, NEW t \in Thread, NEW next, Succeed(t, next)
  PROVE  MovesTo(t, next)
  BY DeliveryAssumption DEF IInv, TypeOK, Succeed, MovesTo

LEMMA MoveInv ==
  ASSUME IInv, NEW t \in Thread, NEW next \in Stage \union {"ack"},
         Running(t), attempt[t] >= 1, MovesTo(t, next),
         outcome' \in [Msg -> SUBSET Outcome],
         \A m \in Msg : outcome[m] \subseteq outcome'[m],
         next = "ack" => outcome'[task[t]] # {}
  PROVE  ThreadTypeOK' /\ ThreadInv' /\ LetsGo
<1> USE DEF MovesTo, GoTo
<1>1. ThreadTypeOK' /\ LetsGo
  BY DEF IInv, TypeOK, ThreadTypeOK, LetsGo
<1>2. RetryDelayDefined' /\ AttemptCounted'
  BY DEF IInv, TypeOK, RetryDelayDefined, AttemptCounted, Stage
<1>3. RunningHoldsTask'
  BY DEF IInv, TypeOK, RunningHoldsTask, Running, Stage
<1>4. AckHasOutcome'
  BY DEF IInv, TypeOK, AckHasOutcome, RunningHoldsTask
<1> QED
  BY <1>1, <1>2, <1>3, <1>4 DEF ThreadInv

(* A failed or successful stage that records nothing.                        *)
LEMMA StageStepIInv ==
  ASSUME IInv, NEW t \in Thread, pc[t] \in Stage,
         UNCHANGED <<broker, process, outcome, expired, faults>>,
         \/ \E next \in Stage : MovesTo(t, next)
         \/ \E stage \in Stage, retryable \in BOOLEAN : Fail(t, stage, retryable)
  PROVE  IInv'
<1>1. Running(t) /\ attempt[t] >= 1
  BY DEF IInv, Running, AttemptCounted, Stage
<1>2. outcome' \in [Msg -> SUBSET Outcome] /\ \A m \in Msg : outcome[m] \subseteq outcome'[m]
  BY DEF IInv, TypeOK
<1>3. ThreadTypeOK' /\ ThreadInv' /\ LetsGo
  <2>1. CASE \E next \in Stage : MovesTo(t, next)
    BY <1>1, <1>2, <2>1, MoveInv DEF Stage
  <2>2. CASE \E stage \in Stage, retryable \in BOOLEAN : Fail(t, stage, retryable)
    BY <1>2, <2>2, FailInv
  <2> QED
    BY <2>1, <2>2
<1> QED
  BY <1>2, <1>3, LocalStepIInv

LEMMA ResolveCredentialIInv ==
  ASSUME IInv, NEW t \in Thread, ResolveCredential(t)
  PROVE  IInv'
  BY StageStepIInv, SucceedMoves DEF ResolveCredential, Stage

LEMMA CheckHealthIInv ==
  ASSUME IInv, NEW t \in Thread, CheckHealth(t)
  PROVE  IInv'
  BY StageStepIInv, SucceedMoves DEF CheckHealth, Stage

(* A slot that is granted only moves the goroutine on; a wait that is given   *)
(* up ends Handle.                                                            *)
LEMMA SlotIInv ==
  ASSUME IInv, NEW t \in Thread, AcquireSlot(t) \/ AbandonSlot(t)
  PROVE  IInv'
<1>1. CASE AcquireSlot(t)
  <2>1. MovesTo(t, "fetch")
    BY <1>1 DEF AcquireSlot, MovesTo, IInv, TypeOK
  <2> QED
    BY <1>1, <2>1, StageStepIInv DEF AcquireSlot, Stage
<1>2. CASE AbandonSlot(t)
  <2>1. outcome' \in [Msg -> SUBSET Outcome] /\ \A m \in Msg : outcome[m] \subseteq outcome'[m]
    BY <1>2 DEF IInv, TypeOK, AbandonSlot
  <2> QED
    BY <1>2, <2>1, ReturnInv, LocalStepIInv DEF AbandonSlot
<1> QED
  BY <1>1, <1>2

LEMMA FetchTripDetailsIInv ==
  ASSUME IInv, NEW t \in Thread, FetchTripDetails(t)
  PROVE  IInv'
<1>1. CASE /\ calls[t] < MaxCalls - 1
           /\ GoTo(t, "slot")
           /\ calls' = [calls EXCEPT ![t] = @ + 1]
           /\ UNCHANGED <<task, attempt>>
  <2>1. MovesTo(t, "slot")
    BY <1>1, DeliveryAssumption DEF IInv, TypeOK, MovesTo
  <2> QED
    BY <2>1, StageStepIInv DEF FetchTripDetails, Stage
<1> QED
  BY <1>1, StageStepIInv, SucceedMoves DEF FetchTripDetails, Stage

(* The push records the result before the goroutine turns to the ack, and    *)
(* keeps it recorded when the answer is lost.                                *)
LEMMA PushTripDetailsIInv ==
  ASSUME IInv, NEW t \in Thread, PushTripDetails(t)
  PROVE  IInv'
<1>1. /\ pc[t] = "push" /\ Running(t) /\ attempt[t] >= 1 /\ task[t] \in Msg
      /\ UNCHANGED <<broker, process, expired, faults>>
  BY DEF IInv, TypeOK, PushTripDetails, Running, AttemptCounted, RunningHoldsTask, Stage
<1>2. CASE /\ outcome' = [outcome EXCEPT ![task[t]] = @ \union {"stored"}]
           /\ Succeed(t, "ack") \/ Fail(t, "push", TRUE)
  <2>1. /\ outcome' \in [Msg -> SUBSET Outcome]
        /\ \A m \in Msg : outcome[m] \subseteq outcome'[m]
        /\ outcome'[task[t]] # {}
    BY <1>1, <1>2 DEF IInv, TypeOK, Outcome
  <2>2. ThreadTypeOK' /\ ThreadInv' /\ LetsGo
    BY <1>1, <1>2, <2>1, MoveInv, SucceedMoves, FailInv DEF Stage
  <2> QED
    BY <1>1, <2>1, <2>2, LocalStepIInv
<1>3. CASE /\ outcome' = outcome
           /\ Fail(t, "push", TRUE) \/ Fail(t, "push", FALSE)
  BY <1>1, <1>3, StageStepIInv DEF Stage
<1> QED
  BY <1>2, <1>3 DEF PushTripDetails

LEMMA AwaitRetryIInv ==
  ASSUME IInv, NEW t \in Thread, AwaitRetry(t)
  PROVE  IInv'
<1>1. outcome' \in [Msg -> SUBSET Outcome] /\ \A m \in Msg : outcome[m] \subseteq outcome'[m]
  BY DEF IInv, TypeOK, AwaitRetry
<1>2. CASE Return(t)
  BY <1>1, <1>2, ReturnInv, LocalStepIInv DEF AwaitRetry
<1>3. CASE /\ GoTo(t, "credential")
           /\ attempt' = [attempt EXCEPT ![t] = @ + 1]
           /\ UNCHANGED <<task, calls>>
  <2> USE <1>3 DEF GoTo
  <2>1. attempt[t] \in 1 .. MaxAttempts - 1
    BY DEF IInv, RetryDelayDefined, AwaitRetry
  <2>2. attempt' \in [Thread -> 0 .. MaxAttempts]
    BY <2>1, DeliveryAssumption DEF IInv, TypeOK
  <2>3. ThreadTypeOK' /\ LetsGo
    BY <2>2 DEF IInv, TypeOK, ThreadTypeOK, LetsGo, Stage
  <2>4. RetryDelayDefined' /\ AttemptCounted'
    BY <2>1, DeliveryAssumption
    DEF IInv, TypeOK, RetryDelayDefined, AttemptCounted, Stage
  <2>5. RunningHoldsTask' /\ AckHasOutcome'
    BY <1>1 DEF IInv, TypeOK, RunningHoldsTask, AckHasOutcome, AwaitRetry, Running, Stage
  <2> QED
    BY <1>1, <2>3, <2>4, <2>5, LocalStepIInv DEF AwaitRetry, ThreadInv
<1> QED
  BY <1>2, <1>3 DEF AwaitRetry

(* The report records the failure before the goroutine turns to the ack.     *)
LEMMA ReportFailureIInv ==
  ASSUME IInv, NEW t \in Thread, ReportFailure(t)
  PROVE  IInv'
<1>1. /\ pc[t] = "report" /\ task[t] \in Msg
      /\ UNCHANGED <<broker, process, expired, faults>>
  BY DEF IInv, TypeOK, ReportFailure, Running, RunningHoldsTask
<1>2. /\ outcome' \in [Msg -> SUBSET Outcome]
      /\ \A m \in Msg : outcome[m] \subseteq outcome'[m]
  BY <1>1 DEF IInv, TypeOK, ReportFailure, Outcome
<1>3. CASE Return(t)
  BY <1>1, <1>2, <1>3, ReturnInv, LocalStepIInv
<1>4. CASE /\ outcome' = [outcome EXCEPT ![task[t]] = @ \union {"dead"}]
           /\ Succeed(t, "ack")
  <2> USE <1>4, DeliveryAssumption DEF Succeed, GoTo
  <2>1. ThreadTypeOK' /\ LetsGo
    BY DEF IInv, TypeOK, ThreadTypeOK, LetsGo
  <2>2. RetryDelayDefined' /\ AttemptCounted'
    BY DEF IInv, TypeOK, RetryDelayDefined, AttemptCounted, Stage
  <2>3. RunningHoldsTask'
    BY <1>1 DEF IInv, TypeOK, RunningHoldsTask, Running
  <2>4. AckHasOutcome'
    BY <1>1 DEF IInv, TypeOK, AckHasOutcome
  <2> QED
    BY <1>1, <1>2, <2>1, <2>2, <2>3, <2>4, LocalStepIInv DEF ThreadInv
<1> QED
  BY <1>3, <1>4 DEF ReportFailure

(* Taking a delivery moves it from the channel's buffer into the hands of a  *)
(* goroutine; it stays unacknowledged on that channel.                       *)
LEMMA TakeUpIInv ==
  ASSUME IInv, NEW t \in Thread, NEW m \in Msg, NEW step \in {"ack", "credential"},
         pc[t] = "idle", m \in buffer[Home[t]],
         buffer' = [buffer EXCEPT ![Home[t]] = @ \ {m}],
         GoTo(t, step), task' = [task EXCEPT ![t] = m],
         calls' = calls,
         attempt' = IF step = "ack" THEN attempt ELSE [attempt EXCEPT ![t] = 1],
         outcome' \in [Msg -> SUBSET Outcome],
         \A n \in Msg : outcome[n] \subseteq outcome'[n],
         step = "ack" => outcome'[m] # {},
         UNCHANGED <<queue, unacked, settled, acks, process, expired, faults>>
  PROVE  IInv'
<1> USE DEF GoTo, process
<1>1. Home[t] \in Worker /\ attempt' \in [Thread -> 0 .. MaxAttempts]
  <2>1. attempt \in [Thread -> 0 .. MaxAttempts] /\ 1 \in 0 .. MaxAttempts
    BY DeliveryAssumption DEF IInv, TypeOK
  <2>2. CASE step = "ack"
    BY <2>1, <2>2, DeliveryAssumption
  <2>3. CASE step = "credential"
    BY <2>1, <2>3, DeliveryAssumption
  <2> QED
    BY <2>2, <2>3
<1>2. TypeOK'
  <2>1. buffer' \in [Worker -> SUBSET Msg]
    BY DEF IInv, TypeOK
  <2>2. /\ pc' \in [Thread -> {"idle", "backoff", "report", "ack", "exited"} \union Stage]
        /\ task' \in [Thread -> Msg \union {NoMsg}]
    BY DEF IInv, TypeOK, Stage
  <2> QED
    BY <1>1, <2>1, <2>2 DEF IInv, TypeOK
<1>3. Conservation' /\ AcknowledgedHasOutcome'
  BY DEF IInv, Conservation, AcknowledgedHasOutcome
<1>4. BufferedIsUnacked'
  BY <1>1 DEF IInv, TypeOK, BufferedIsUnacked
<1>5. ExclusiveWork'
  <2> SUFFICES ASSUME NEW u \in Thread, task'[u] # NoMsg, channel[Home[u]] # "closed"
               PROVE  /\ task'[u] \in unacked[Home[u]] \ (acks[Home[u]] \union buffer'[Home[u]])
                      /\ \A v \in Thread \ {u} :
                           task'[v] = task'[u] => channel[Home[v]] = "closed"
    BY DEF ExclusiveWork
  <2>1. Home \in [Thread -> Worker] /\ task \in [Thread -> Msg \union {NoMsg}] /\ NoMsg \notin Msg
    BY DeliveryAssumption DEF IInv, TypeOK
  <2>2. CASE u = t
    BY <1>1, <2>1, <2>2 DEF IInv, TypeOK, Conservation, ExclusiveWork, BufferedIsUnacked
  <2>3. CASE u # t
    BY <1>1, <2>1, <2>3 DEF IInv, TypeOK, Conservation, ExclusiveWork, BufferedIsUnacked
  <2> QED
    BY <2>2, <2>3
<1>6. RetryDelayDefined' /\ AttemptCounted'
  BY <1>1 DEF IInv, TypeOK, RetryDelayDefined, AttemptCounted, Stage
<1>7. RunningHoldsTask'
  BY DeliveryAssumption DEF IInv, TypeOK, RunningHoldsTask, Running
<1>8. AckHasOutcome'
  BY DeliveryAssumption DEF IInv, TypeOK, AckHasOutcome
<1> QED
  BY <1>2, <1>3, <1>4, <1>5, <1>6, <1>7, <1>8 DEF IInv

LEMMA TakeIInv ==
  ASSUME IInv, NEW t \in Thread, NEW m \in Msg, Take(t, m)
  PROVE  IInv'
<1>1. CASE ctx[Home[t]] = "cancelled" /\ UNCHANGED <<thread, outcome>>
  <2> USE <1>1 DEF Take, process, thread
  <2>1. TypeOK'
    BY DeliveryAssumption DEF IInv, TypeOK
  <2>2. BrokerInv'
    BY DeliveryAssumption
    DEF IInv, TypeOK, BrokerInv, Conservation, AcknowledgedHasOutcome,
        ExclusiveWork, BufferedIsUnacked
  <2>3. ThreadInv'
    BY ThreadInvFrame DEF IInv, ThreadInv
  <2> QED
    BY <2>1, <2>2, <2>3 DEF IInv, BrokerInv, ThreadInv
<1>2. CASE /\ GoTo(t, "ack")
           /\ outcome' = [outcome EXCEPT ![m] = @ \union {"discarded"}]
           /\ task' = [task EXCEPT ![t] = m]
           /\ UNCHANGED <<attempt, calls>>
  <2>1. /\ outcome' \in [Msg -> SUBSET Outcome]
        /\ \A n \in Msg : outcome[n] \subseteq outcome'[n]
        /\ outcome'[m] # {}
    BY <1>2 DEF IInv, TypeOK, Outcome
  <2> QED
    BY <1>2, <2>1, TakeUpIInv DEF Take
<1>3. CASE /\ GoTo(t, "credential")
           /\ attempt' = [attempt EXCEPT ![t] = 1]
           /\ task' = [task EXCEPT ![t] = m]
           /\ UNCHANGED <<calls, outcome>>
  BY <1>3, TakeUpIInv DEF Take, IInv, TypeOK
<1> QED
  BY <1>1, <1>2, <1>3 DEF Take

(* An acknowledgement is written on the live channel that delivered the      *)
(* message, and never for a message that goroutine does not own.             *)
LEMMA AcknowledgeIInv ==
  ASSUME IInv, NEW t \in Thread, Acknowledge(t)
  PROVE  IInv'
<1> USE DEF Acknowledge, process
<1>1. task[t] \in Msg /\ outcome[task[t]] # {} /\ Home[t] \in Worker
  BY DeliveryAssumption DEF IInv, AckHasOutcome
<1>2. /\ outcome' \in [Msg -> SUBSET Outcome]
      /\ \A m \in Msg : outcome[m] \subseteq outcome'[m]
  BY DEF IInv, TypeOK
<1>3. ThreadTypeOK' /\ ThreadInv' /\ LetsGo
  BY <1>2, ReturnInv
<1>4. TypeOK'
  BY <1>1, <1>3 DEF IInv, TypeOK, ThreadTypeOK
<1>5. Conservation' /\ BufferedIsUnacked'
  BY <1>1, DeliveryAssumption
  DEF IInv, TypeOK, Conservation, ExclusiveWork, BufferedIsUnacked
<1>6. AcknowledgedHasOutcome'
  BY <1>1 DEF IInv, TypeOK, AcknowledgedHasOutcome
<1>7. ExclusiveWork'
  BY <1>1, <1>3, DeliveryAssumption
  DEF IInv, TypeOK, ExclusiveWork, LetsGo, Return
<1> QED
  BY <1>3, <1>4, <1>5, <1>6, <1>7 DEF IInv, ThreadInv

LEMMA LeaveIInv ==
  ASSUME IInv, NEW t \in Thread, Leave(t)
  PROVE  IInv'
<1> USE DEF Leave, GoTo
<1>1. outcome' \in [Msg -> SUBSET Outcome] /\ \A m \in Msg : outcome[m] \subseteq outcome'[m]
  BY DEF IInv, TypeOK
<1>2. ThreadTypeOK' /\ LetsGo
  BY DEF IInv, TypeOK, ThreadTypeOK, LetsGo
<1>3. ThreadInv'
  BY DEF IInv, TypeOK, ThreadInv, RetryDelayDefined, RunningHoldsTask,
         AttemptCounted, AckHasOutcome, Running, Stage
<1> QED
  BY <1>1, <1>2, <1>3, LocalStepIInv

-----------------------------------------------------------------------------
(* The invariant is inductive.                                              *)

LEMMA NextIInv == IInv /\ [Next]_vars => IInv'
<1> SUFFICES ASSUME IInv, [Next]_vars PROVE IInv'
  OBVIOUS
<1>1. ASSUME NEW w \in Worker, NEW m \in Msg, Deliver(w, m) \/ BrokerSettles(w, m)
      PROVE  IInv'
  BY <1>1, DeliverIInv, BrokerSettlesIInv
<1>2. ASSUME NEW w \in Worker, StopConsuming(w) \/ LoseChannel(w) \/ Shutdown(w)
      PROVE  IInv'
  BY <1>2, StopConsumingIInv, LoseChannelIInv, ShutdownIInv
<1>3. ASSUME NEW w \in Worker, ExitAndRestart(w) \/ Crash(w)
      PROVE  IInv'
  <2>1. faults' \in 0 .. MaxFaults
    BY <1>3, DeliveryAssumption DEF IInv, TypeOK, ExitAndRestart, Crash
  <2> QED
    BY <1>3, <2>1, ResetIInv DEF ExitAndRestart, Crash
<1>4. ASSUME NEW t \in Thread, Handle(t)
      PROVE  IInv'
  BY <1>4, ResolveCredentialIInv, CheckHealthIInv, SlotIInv, FetchTripDetailsIInv,
     PushTripDetailsIInv, AwaitRetryIInv, ReportFailureIInv, AcknowledgeIInv
  DEF Handle, Proceed
<1>5. ASSUME NEW t \in Thread, Leave(t) \/ \E m \in Msg : Take(t, m)
      PROVE  IInv'
  BY <1>5, LeaveIInv, TakeIInv
<1>6. ASSUME NEW m \in Msg, DatePasses(m)
      PROVE  IInv'
  BY <1>6, DatePassesIInv
<1>7. CASE UNCHANGED vars
  BY <1>7
  DEF IInv, TypeOK, Conservation, AcknowledgedHasOutcome, ExclusiveWork,
      RetryDelayDefined, BufferedIsUnacked, RunningHoldsTask, AttemptCounted,
      AckHasOutcome, Running, vars, broker, process, thread
<1> QED
  BY <1>1, <1>2, <1>3, <1>4, <1>5, <1>6, <1>7 DEF Next

LEMMA SpecIInv == Spec => []IInv
  BY InitIInv, NextIInv, PTL DEF Spec

-----------------------------------------------------------------------------
(* What the invariant gives, for every instance.                            *)

(* The state of the Worker pool and of the broker is always well typed: in   *)
(* particular an attempt counter never passes MaxAttempts.                   *)
THEOREM TypeCorrect == Spec => []TypeOK
  BY SpecIInv, PTL DEF IInv

(* No job published to the queue is ever lost or duplicated on the broker.   *)
THEOREM NothingLost == Spec => []Conservation
  BY SpecIInv, PTL DEF IInv

(* An acknowledgement, even one still on its way, implies an outcome outside *)
(* the Worker: the ack-after-effect order of Handle (worker.go:86-100).      *)
THEOREM AckAfterOutcome == Spec => []AcknowledgedHasOutcome
  BY SpecIInv, PTL DEF IInv

(* Two goroutines on live channels never work on the same delivery.          *)
THEOREM WorkIsExclusive == Spec => []ExclusiveWork
  BY SpecIInv, PTL DEF IInv

(* RetryDelays is never indexed outside its MaxAttempts - 1 entries.         *)
THEOREM RetryDelayInRange == Spec => []RetryDelayDefined
  BY SpecIInv, PTL DEF IInv

-----------------------------------------------------------------------------
(* The pool implements the contract.                                        *)

LEMMA OutcomeStep ==
  ASSUME IInv, NEW t \in Thread, NEW m \in Msg, NEW o \in Outcome,
         outcome' = [outcome EXCEPT ![m] = @ \union {o}], settled' = settled
  PROVE  [Contract!Next]_Contract!vars
  BY DEF Contract!Next, Contract!Record, Contract!vars

(* A step of a goroutine is one Record of the contract, or nothing.          *)
LEMMA ThreadRefines ==
  ASSUME IInv, NEW t \in Thread, Handle(t) \/ Leave(t) \/ \E m \in Msg : Take(t, m)
  PROVE  [Contract!Next]_Contract!vars
<1>1. CASE \E m \in Msg : Take(t, m)
  BY <1>1, OutcomeStep DEF Take, Contract!vars, Outcome
<1>2. CASE PushTripDetails(t)
  <2>1. task[t] \in Msg
    BY <1>2 DEF IInv, TypeOK, RunningHoldsTask, Running, PushTripDetails
  <2> QED
    BY <1>2, <2>1, OutcomeStep DEF PushTripDetails, broker, Contract!vars, Outcome
<1>3. CASE ReportFailure(t)
  <2>1. task[t] \in Msg
    BY <1>3 DEF IInv, TypeOK, RunningHoldsTask, Running, ReportFailure
  <2> QED
    BY <1>3, <2>1, OutcomeStep DEF ReportFailure, broker, Contract!vars, Outcome
<1>4. CASE ResolveCredential(t) \/ CheckHealth(t) \/ FetchTripDetails(t)
           \/ AcquireSlot(t) \/ AbandonSlot(t)
           \/ AwaitRetry(t) \/ Acknowledge(t) \/ Leave(t)
  BY <1>4
  DEF ResolveCredential, CheckHealth, FetchTripDetails, AcquireSlot, AbandonSlot, AwaitRetry,
      Acknowledge, Leave, broker, Contract!vars
<1> QED
  BY <1>1, <1>2, <1>3, <1>4 DEF Handle, Proceed

(* The broker settles only what is acknowledged, hence has an outcome, and   *)
(* only what is still unacknowledged, hence is not settled yet.              *)
LEMMA SettleRefines ==
  ASSUME IInv, NEW w \in Worker, NEW m \in Msg, BrokerSettles(w, m)
  PROVE  [Contract!Next]_Contract!vars
<1>1. m \notin settled /\ outcome[m] # {}
  BY DEF IInv, Conservation, AcknowledgedHasOutcome, BrokerSettles
<1> QED
  BY <1>1 DEF BrokerSettles, Contract!Next, Contract!Settle, Contract!vars

LEMMA StepRefines == IInv /\ [Next]_vars => [Contract!Next]_Contract!vars
<1> SUFFICES ASSUME IInv, [Next]_vars PROVE [Contract!Next]_Contract!vars
  OBVIOUS
<1>1. ASSUME NEW t \in Thread, Handle(t) \/ Leave(t) \/ \E m \in Msg : Take(t, m)
      PROVE  [Contract!Next]_Contract!vars
  BY <1>1, ThreadRefines
<1>2. ASSUME NEW w \in Worker, NEW m \in Msg, BrokerSettles(w, m)
      PROVE  [Contract!Next]_Contract!vars
  BY <1>2, SettleRefines
<1>3. ASSUME NEW w \in Worker,
             \/ \E m \in Msg : Deliver(w, m)
             \/ StopConsuming(w) \/ LoseChannel(w) \/ Shutdown(w)
             \/ ExitAndRestart(w) \/ Crash(w)
      PROVE  [Contract!Next]_Contract!vars
  BY <1>3
  DEF Deliver, StopConsuming, LoseChannel, Shutdown, ExitAndRestart, Crash,
      Reset, Requeue, broker, Contract!vars
<1>4. CASE UNCHANGED vars \/ \E m \in Msg : DatePasses(m)
  BY <1>4 DEF vars, broker, DatePasses, Contract!vars
<1> QED
  BY <1>1, <1>2, <1>3, <1>4 DEF Next

(* Whatever crashes, lost channels, lost answers and shutdowns occur, the    *)
(* pool keeps the delivery contract: a job leaves the queue only once its    *)
(* outcome exists, and never comes back.                                     *)
THEOREM PoolKeepsContract == Spec => KeepsContract
<1>1. Init => Contract!Init
  BY DEF Init, Contract!Init
<1> QED
  BY <1>1, StepRefines, SpecIInv, PTL DEF Spec, KeepsContract, Contract!Spec

-----------------------------------------------------------------------------
(* Handle ends.                                                             *)

(* What a goroutine has left to do at each place. *)
LEMMA StepsAt ==
  ASSUME NEW t
  PROVE  LET attempts == AttemptSteps * (MaxAttempts - attempt[t])
             seatMaps == 2 * (MaxCalls - calls[t])
         IN  /\ pc[t] = "credential" => StepsLeft(t) = 2 * MaxCalls + 5 + attempts
             /\ pc[t] = "health" => StepsLeft(t) = 2 * MaxCalls + 4 + attempts
             /\ pc[t] = "slot" => StepsLeft(t) = seatMaps + 3 + attempts
             /\ pc[t] = "fetch" => StepsLeft(t) = seatMaps + 2 + attempts
             /\ pc[t] = "push" => StepsLeft(t) = 3 + attempts
             /\ pc[t] = "backoff" => StepsLeft(t) = 2 + attempts
             /\ pc[t] = "report" => StepsLeft(t) = 2 + 0
             /\ pc[t] = "ack" => StepsLeft(t) = 1 + 0
BY DEF StepsLeft, Ahead, Stage

LEMMA StepsAfter ==
  ASSUME NEW t
  PROVE  LET attempts == AttemptSteps * (MaxAttempts - attempt'[t])
             seatMaps == 2 * (MaxCalls - calls'[t])
         IN  /\ pc'[t] = "credential" => StepsLeft(t)' = 2 * MaxCalls + 5 + attempts
             /\ pc'[t] = "health" => StepsLeft(t)' = 2 * MaxCalls + 4 + attempts
             /\ pc'[t] = "slot" => StepsLeft(t)' = seatMaps + 3 + attempts
             /\ pc'[t] = "fetch" => StepsLeft(t)' = seatMaps + 2 + attempts
             /\ pc'[t] = "push" => StepsLeft(t)' = 3 + attempts
             /\ pc'[t] = "backoff" => StepsLeft(t)' = 2 + attempts
             /\ pc'[t] = "report" => StepsLeft(t)' = 2 + 0
             /\ pc'[t] = "ack" => StepsLeft(t)' = 1 + 0
             /\ pc'[t] \in {"idle", "exited"} => StepsLeft(t)' = 0 + 0
BY DEF StepsLeft, Ahead, Stage, AttemptSteps

(* Attempts not begun count in full. *)
LEMMA AttemptsLeft ==
  ASSUME NEW c \in Nat, NEW n \in Nat, NEW k \in 0 .. n
  PROVE  c * (n - k) \in Nat /\ c * (n - k) <= c * n /\ (k >= 1 => c * (n - k) <= c * n - c)
<1>1. c * (n - k) = c * n - c * k /\ c * k \in Nat /\ (k >= 1 => c * k >= c)
  <2>1. c * k \in Nat /\ c * n \in Nat /\ c * (n - k) \in Nat
    OBVIOUS
  <2>2. c * (n - k) = c * n - c * k
    OBVIOUS
  <2>3. ASSUME k >= 1 PROVE c * k >= c
    <3>1. k - 1 \in Nat /\ c * (k - 1) \in Nat
      BY <2>3
    <3>2. c * k = c * (k - 1) + c
      BY <2>3
    <3> QED BY <2>1, <3>1, <3>2
  <2> QED BY <2>1, <2>2, <2>3
<1> QED BY <1>1

LEMMA StepsInRange ==
  ASSUME IInv, NEW t \in Thread, Running(t)
  PROVE  StepsLeft(t) \in 1 .. AttemptSteps * MaxAttempts + 1
<1> DEFINE attempts == AttemptSteps * (MaxAttempts - attempt[t])
<1>1. /\ MaxAttempts \in Nat \ {0} /\ attempt[t] \in 0 .. MaxAttempts
      /\ MaxCalls \in Nat \ {0} /\ calls[t] \in 0 .. MaxCalls - 1
      /\ pc[t] \in {"credential", "health", "slot", "fetch", "push", "backoff", "report", "ack"}
      /\ pc[t] \notin {"report", "ack"} => attempt[t] >= 1
  BY DeliveryAssumption DEF IInv, TypeOK, Running, Stage, AttemptCounted
<1>2. AttemptSteps \in Nat /\ AttemptSteps = 2 * MaxCalls + 4
  BY <1>1 DEF AttemptSteps
<1>3. attempts \in Nat /\ (attempt[t] >= 1 => attempts <= AttemptSteps * MaxAttempts - AttemptSteps)
  BY <1>1, <1>2, AttemptsLeft
<1>4. AttemptSteps * MaxAttempts >= AttemptSteps /\ AttemptSteps * MaxAttempts \in Nat
  <2>1. MaxAttempts \in 0 .. MaxAttempts /\ MaxAttempts >= 1
    BY <1>1
  <2>2. AttemptSteps * (MaxAttempts - MaxAttempts) <= AttemptSteps * MaxAttempts - AttemptSteps
    BY <1>1, <1>2, <2>1, AttemptsLeft
  <2>3. AttemptSteps * MaxAttempts \in Nat /\ AttemptSteps * (MaxAttempts - MaxAttempts) = 0
    BY <1>1, <1>2
  <2> QED BY <1>2, <2>2, <2>3
<1>5. CASE pc[t] \in {"report", "ack"}
  <2>1. StepsLeft(t) \in {1, 2}
    BY <1>5, StepsAt
  <2>2. AttemptSteps >= 4
    BY <1>1, <1>2
  <2> DEFINE most == AttemptSteps * MaxAttempts
  <2>3. most \in Nat /\ most >= 4
    BY <1>2, <1>4, <2>2
  <2> HIDE DEF attempts, most
  <2>4. StepsLeft(t) \in 1 .. most + 1
    BY <2>1, <2>3
  <2> QED BY <2>4 DEF most
<1>6. CASE pc[t] \notin {"report", "ack"}
  <2>1. \E n \in 2 .. AttemptSteps + 1 : StepsLeft(t) = n + attempts
    <3>1. CASE pc[t] \in {"credential", "health"}
      BY <1>1, <1>2, <3>1, StepsAt
    <3>2. CASE pc[t] \in {"slot", "fetch"}
      BY <1>1, <1>2, <3>2, StepsAt
    <3>3. CASE pc[t] \in {"push", "backoff"}
      BY <1>1, <1>2, <3>3, StepsAt
    <3> QED BY <1>1, <1>6, <3>1, <3>2, <3>3
  <2> QED BY <1>1, <1>2, <1>3, <1>4, <1>6, <2>1
<1> QED BY <1>5, <1>6

(* A step of Handle, by what it does to its goroutine. *)
LEMMA StepsFewer ==
  ASSUME IInv, NEW t \in Thread, Handle(t)
  PROVE  StepsLeft(t)' < StepsLeft(t)
<1> DEFINE attempts == AttemptSteps * (MaxAttempts - attempt[t])
<1>1. /\ MaxAttempts \in Nat /\ attempt[t] \in 0 .. MaxAttempts
      /\ MaxCalls \in Nat \ {0} /\ calls[t] \in 0 .. MaxCalls - 1
      /\ AttemptSteps \in Nat /\ AttemptSteps = 2 * MaxCalls + 4
      /\ Running(t) /\ StepsLeft(t) \in 1 .. AttemptSteps * MaxAttempts + 1
  <2>1. Running(t)
    BY DEF Handle, Proceed, ResolveCredential, CheckHealth, AcquireSlot, AbandonSlot,
           FetchTripDetails, PushTripDetails, AwaitRetry, ReportFailure, Acknowledge, Running
  <2> QED BY <2>1, StepsInRange, DeliveryAssumption DEF IInv, TypeOK, AttemptSteps
<1>2. attempts \in Nat
  BY <1>1, AttemptsLeft
<1>3. CASE Return(t)
  <2>1. pc'[t] = "idle"
    BY <1>3 DEF Return, GoTo, IInv, TypeOK
  <2> QED BY <1>1, <2>1, StepsAfter
<1>4. ASSUME pc[t] \in Stage, attempt' = attempt,
             \/ GoTo(t, "report") \/ GoTo(t, "backoff") \/ GoTo(t, "ack")
      PROVE  StepsLeft(t)' < StepsLeft(t)
  <2>1. pc'[t] \in {"report", "backoff", "ack"} /\ attempt'[t] = attempt[t]
    BY <1>4 DEF GoTo, IInv, TypeOK
  <2>2. StepsLeft(t)' <= 2 + attempts
    BY <1>1, <1>2, <2>1, StepsAfter
  <2>3. \E n \in Nat : StepsLeft(t) = 3 + n + attempts
    <3>1. CASE pc[t] \in {"credential", "health", "push"}
      <4>1. \/ StepsLeft(t) = 3 + (2 * MaxCalls + 2) + attempts
            \/ StepsLeft(t) = 3 + (2 * MaxCalls + 1) + attempts
            \/ StepsLeft(t) = 3 + 0 + attempts
        BY <1>1, <1>2, <3>1, StepsAt
      <4>2. 2 * MaxCalls + 2 \in Nat /\ 2 * MaxCalls + 1 \in Nat /\ 0 \in Nat
        BY <1>1
      <4> QED BY <4>1, <4>2
    <3>2. CASE pc[t] \in {"slot", "fetch"}
      <4>1. \/ StepsLeft(t) = 3 + 2 * (MaxCalls - calls[t]) + attempts
            \/ StepsLeft(t) = 3 + (2 * (MaxCalls - calls[t]) - 1) + attempts
        BY <1>1, <1>2, <3>2, StepsAt
      <4>2. 2 * (MaxCalls - calls[t]) \in Nat /\ 2 * (MaxCalls - calls[t]) - 1 \in Nat
        BY <1>1
      <4> QED BY <4>1, <4>2
    <3> QED BY <1>4, <3>1, <3>2 DEF Stage
  <2>4. StepsLeft(t)' \in Nat
    BY <1>1, <1>2, <2>1, StepsAfter
  <2> QED BY <1>2, <2>2, <2>3, <2>4
<1>5. ASSUME NEW stage, NEW retryable, Fail(t, stage, retryable), pc[t] \in Stage
      PROVE  StepsLeft(t)' < StepsLeft(t)
  BY <1>3, <1>4, <1>5 DEF Fail
<1>6. CASE ResolveCredential(t)
  <2>1. CASE Succeed(t, "health")
    <3>1. pc[t] = "credential" /\ pc'[t] = "health" /\ attempt'[t] = attempt[t]
      BY <1>6, <2>1 DEF ResolveCredential, Succeed, GoTo, IInv, TypeOK
    <3> QED BY <1>1, <1>2, <3>1, StepsAt, StepsAfter
  <2> QED BY <1>5, <1>6, <2>1 DEF ResolveCredential, Stage
<1>7. CASE CheckHealth(t)
  <2>1. CASE Succeed(t, "slot")
    <3>1. pc[t] = "health" /\ pc'[t] = "slot" /\ attempt'[t] = attempt[t] /\ calls'[t] = 0
      BY <1>7, <2>1 DEF CheckHealth, Succeed, GoTo, IInv, TypeOK
    <3> QED BY <1>1, <1>2, <3>1, StepsAt, StepsAfter
  <2> QED BY <1>5, <1>7, <2>1 DEF CheckHealth, Stage
<1>8. CASE AcquireSlot(t)
  <2>1. pc[t] = "slot" /\ pc'[t] = "fetch" /\ attempt'[t] = attempt[t] /\ calls'[t] = calls[t]
    BY <1>8 DEF AcquireSlot, GoTo, IInv, TypeOK
  <2> QED BY <1>1, <1>2, <2>1, StepsAt, StepsAfter
<1>9. CASE FetchTripDetails(t)
  <2>1. CASE Succeed(t, "push")
    <3>1. pc[t] = "fetch" /\ pc'[t] = "push" /\ attempt'[t] = attempt[t]
      BY <1>9, <2>1 DEF FetchTripDetails, Succeed, GoTo, IInv, TypeOK
    <3> QED BY <1>1, <1>2, <3>1, StepsAt, StepsAfter
  <2>2. CASE /\ GoTo(t, "slot")
             /\ calls' = [calls EXCEPT ![t] = @ + 1]
             /\ UNCHANGED <<task, attempt>>
    <3>1. /\ pc[t] = "fetch" /\ pc'[t] = "slot" /\ attempt'[t] = attempt[t]
          /\ calls'[t] = calls[t] + 1
      BY <1>9, <2>2 DEF FetchTripDetails, GoTo, IInv, TypeOK
    <3> QED BY <1>1, <1>2, <3>1, StepsAt, StepsAfter
  <2> QED BY <1>5, <1>9, <2>1, <2>2 DEF FetchTripDetails, Stage
<1>10. CASE PushTripDetails(t)
  <2>1. CASE Succeed(t, "ack")
    BY <1>4, <1>10, <2>1 DEF PushTripDetails, Succeed, Stage
  <2> QED BY <1>5, <1>10, <2>1 DEF PushTripDetails, Stage
<1>11. CASE AwaitRetry(t)
  <2>1. CASE GoTo(t, "credential") /\ attempt' = [attempt EXCEPT ![t] = @ + 1]
    <3>1. /\ pc[t] = "backoff" /\ pc'[t] = "credential" /\ attempt'[t] = attempt[t] + 1
          /\ attempt[t] + 1 <= MaxAttempts
      BY <1>11, <2>1, DeliveryAssumption DEF AwaitRetry, GoTo, IInv, TypeOK, RetryDelayDefined
    <3>2. AttemptSteps * (MaxAttempts - (attempt[t] + 1)) = attempts - AttemptSteps
      BY <1>1
    <3> HIDE DEF attempts
    <3>3. StepsLeft(t) = 2 + attempts
      BY <3>1, StepsAt DEF attempts
    <3>4. StepsLeft(t)' = 2 * MaxCalls + 5 + (attempts - AttemptSteps)
      BY <3>1, <3>2, StepsAfter
    <3> QED BY <1>1, <1>2, <3>3, <3>4
  <2> QED BY <1>3, <1>11, <2>1 DEF AwaitRetry
<1>12. CASE ReportFailure(t)
  <2>1. CASE Succeed(t, "ack")
    <3>1. pc[t] = "report" /\ pc'[t] = "ack"
      BY <1>12, <2>1 DEF ReportFailure, Succeed, GoTo, IInv, TypeOK
    <3> QED BY <3>1, StepsAt, StepsAfter
  <2> QED BY <1>3, <1>12, <2>1 DEF ReportFailure
<1>13. CASE Acknowledge(t) \/ AbandonSlot(t)
  BY <1>3, <1>13 DEF Acknowledge, AbandonSlot
<1> QED BY <1>6, <1>7, <1>8, <1>9, <1>10, <1>11, <1>12, <1>13 DEF Handle, Proceed

(* Nothing else gives a running goroutine more to do. *)
Stays(t) == pc'[t] = pc[t] /\ attempt'[t] = attempt[t] /\ calls'[t] = calls[t]

LEMMA StepsOfOthers ==
  ASSUME IInv, [Next]_vars, NEW t \in Thread, Running(t), ~Handle(t)
  PROVE  pc'[t] = "idle" \/ Stays(t)
<1>1. CASE UNCHANGED thread
  BY <1>1 DEF thread, Stays
<1>2. ASSUME NEW w \in Worker, ExitAndRestart(w) \/ Crash(w)
      PROVE  pc'[t] = "idle" \/ Stays(t)
  BY <1>2 DEF ExitAndRestart, Crash, Reset, Stays
<1>3. ASSUME NEW u \in Thread, u # t, Handle(u) \/ Leave(u) \/ \E m \in Msg : Take(u, m)
      PROVE  Stays(t)
  <2> USE <1>3 DEF IInv, TypeOK, GoTo, Return, Fail, Succeed, Stays
  <2>1. CASE Leave(u) \/ \E m \in Msg : Take(u, m)
    BY <2>1 DEF Leave, Take, thread
  <2>2. CASE ResolveCredential(u) \/ CheckHealth(u) \/ FetchTripDetails(u)
    BY <2>2 DEF ResolveCredential, CheckHealth, FetchTripDetails
  <2>3. CASE PushTripDetails(u) \/ AwaitRetry(u)
    BY <2>3 DEF PushTripDetails, AwaitRetry
  <2>5. CASE AcquireSlot(u) \/ AbandonSlot(u)
    BY <2>5 DEF AcquireSlot, AbandonSlot
  <2>4. CASE ReportFailure(u) \/ Acknowledge(u)
    BY <2>4 DEF ReportFailure, Acknowledge
  <2> QED BY <2>1, <2>2, <2>3, <2>4, <2>5 DEF Handle, Proceed
<1>4. CASE Leave(t) \/ \E m \in Msg : Take(t, m)
  BY <1>4 DEF Leave, Take, Running
<1> QED BY <1>1, <1>2, <1>3, <1>4
        DEF Next, vars, Deliver, BrokerSettles, StopConsuming, LoseChannel, Shutdown, DatePasses

(* The half of HandleReturns that no fairness is needed for: a goroutine that *)
(* runs has at most AttemptSteps * MaxAttempts + 1 steps before it, each of   *)
(* its own leaves fewer, and no other step leaves more.                       *)
THEOREM HandleEnds == Spec => HandleIsBounded
<1>1. ASSUME IInv, [Next]_vars, NEW t \in Thread, Running(t)
      PROVE  /\ StepsLeft(t) \in 1 .. AttemptSteps * MaxAttempts + 1
             /\ StepsLeft(t)' <= StepsLeft(t)
             /\ Handle(t) => StepsLeft(t)' < StepsLeft(t)
  <2>1. StepsLeft(t) \in 1 .. AttemptSteps * MaxAttempts + 1
    BY <1>1, StepsInRange
  <2>2. CASE Handle(t)
    <3>1. StepsLeft(t)' < StepsLeft(t)
      BY <1>1, <2>2, StepsFewer
    <3>2. StepsLeft(t)' \in Nat
      <4>1. /\ MaxAttempts \in Nat /\ attempt'[t] \in 0 .. MaxAttempts
            /\ MaxCalls \in Nat /\ calls'[t] \in 0 .. MaxCalls - 1
            /\ pc'[t] \in {"credential", "health", "slot", "fetch", "push", "backoff", "report",
                            "ack", "idle", "exited"}
        BY <1>1, NextIInv, DeliveryAssumption DEF IInv, TypeOK, Stage
      <4>2. AttemptSteps * (MaxAttempts - attempt'[t]) \in Nat
        BY <4>1, AttemptsLeft DEF AttemptSteps
      <4> QED BY <4>1, <4>2, StepsAfter
    <3> QED BY <2>1, <3>1, <3>2
  <2>3. CASE ~Handle(t)
    <3>1. CASE pc'[t] = "idle"
      BY <2>1, <2>3, <3>1, StepsAfter
    <3>2. CASE Stays(t)
      <4>1. StepsLeft(t)' = StepsLeft(t)
        BY <3>2 DEF StepsLeft, Ahead, Stays
      <4> QED BY <2>1, <2>3, <4>1
    <3> QED BY <1>1, <2>3, <3>1, <3>2, StepsOfOthers
  <2> QED BY <2>1, <2>2, <2>3
<1>2. IInv /\ [Next]_vars =>
        [\A t \in Thread :
           Running(t) => /\ StepsLeft(t) \in 1 .. AttemptSteps * MaxAttempts + 1
                         /\ StepsLeft(t)' <= StepsLeft(t)
                         /\ Handle(t) => StepsLeft(t)' < StepsLeft(t)]_vars
  BY <1>1
<1> QED BY <1>2, SpecIInv, PTL DEF Spec, HandleIsBounded

=============================================================================
