--------------------------- MODULE WorkerDelivery ---------------------------
(***************************************************************************)
(* The Worker processes and the RabbitMQ queue they consume: delivery with  *)
(* a prefetch limit, the goroutine pool of TripDetailsRefreshWorker.Run,    *)
(* every step of Handle (parse, attempts, dead-letter report, manual ack),  *)
(* controlled shutdown, loss of the AMQP channel and process crashes.       *)
(*                                                                          *)
(* The Master, Orbit and BITS are seen through the answers they give: each  *)
(* call succeeds, fails retryably or fails for good.  An answer may be lost *)
(* after its effect took place.                                             *)
(***************************************************************************)
EXTENDS Naturals, FiniteSets

CONSTANTS Msg,          \* jobs on the queue
          Malformed,    \* those whose envelope does not parse or validate
          Worker,       \* Worker processes, one AMQP channel each
          Thread,       \* goroutines of the pools (WorkerConcurrency each)
          Home,         \* Home[t]: the process goroutine t belongs to
          Prefetch,     \* channel.Qos prefetch count
          MaxAttempts,  \* WorkerConfig.MaxAttempts
          MaxCalls,     \* bound: BITS calls of one attempt (SEARCHBUSMAP)
          MaxFaults,    \* bound: crashes and lost channels
          NoMsg         \* no delivery in hand

ASSUME DeliveryAssumption ==
  /\ Malformed \subseteq Msg
  /\ Home \in [Thread -> Worker]
  /\ Prefetch \in Nat \ {0}
  /\ MaxAttempts \in Nat \ {0}
  /\ MaxCalls \in Nat \ {0}
  /\ MaxFaults \in Nat
  /\ NoMsg \notin Msg

VARIABLES
  queue,     \* messages ready on the broker
  unacked,   \* unacked[w]: delivered on w's channel and not settled
  settled,   \* messages the broker has removed
  acks,      \* acks[w]: basic.ack written by w, not yet seen by the broker
  buffer,    \* buffer[w]: deliveries received by w that no goroutine took
  channel,   \* channel[w]: the state of w's AMQP consumer
  ctx,       \* ctx[w]: the run context of process w
  pc,        \* pc[t]: what goroutine t does next
  task,      \* task[t]: the delivery in its hands
  attempt,   \* attempt[t]: the attempt counter of Handle
  calls,     \* calls[t]: BITS calls its fetch has had answered so far
  outcome,   \* outcome[m]: what became of m outside the Worker
  expired,   \* messages whose travel date has passed
  faults     \* faults so far

broker  == <<queue, unacked, settled, acks, buffer>>
process == <<channel, ctx>>
thread  == <<pc, task, attempt, calls>>
vars    == <<broker, process, thread, outcome, expired, faults>>

Stage   == {"credential", "health", "slot", "fetch", "push"}
Outcome == {"stored", "dead", "discarded"}

TypeOK ==
  /\ queue \in SUBSET Msg
  /\ unacked \in [Worker -> SUBSET Msg]
  /\ settled \in SUBSET Msg
  /\ acks \in [Worker -> SUBSET Msg]
  /\ buffer \in [Worker -> SUBSET Msg]
  /\ channel \in [Worker -> {"consuming", "cancelled", "closed"}]
  /\ ctx \in [Worker -> {"live", "cancelled"}]
  /\ pc \in [Thread -> {"idle", "backoff", "report", "ack", "exited"} \union Stage]
  /\ task \in [Thread -> Msg \union {NoMsg}]
  /\ attempt \in [Thread -> 0 .. MaxAttempts]
  /\ calls \in [Thread -> 0 .. MaxCalls - 1]
  /\ outcome \in [Msg -> SUBSET Outcome]
  /\ expired \in SUBSET Msg
  /\ faults \in 0 .. MaxFaults

Init ==
  /\ queue = Msg
  /\ unacked = [w \in Worker |-> {}]
  /\ settled = {}
  /\ acks = [w \in Worker |-> {}]
  /\ buffer = [w \in Worker |-> {}]
  /\ channel = [w \in Worker |-> "consuming"]
  /\ ctx = [w \in Worker |-> "live"]
  /\ pc = [t \in Thread |-> "idle"]
  /\ task = [t \in Thread |-> NoMsg]
  /\ attempt = [t \in Thread |-> 0]
  /\ calls = [t \in Thread |-> 0]
  /\ outcome = [m \in Msg |-> {}]
  /\ expired = {}
  /\ faults = 0

-----------------------------------------------------------------------------
(* The broker and the consumer channel.                                     *)

(* The broker pushes a ready message while the channel has prefetch credit. *)
Deliver(w, m) ==
  /\ channel[w] = "consuming"
  /\ m \in queue
  /\ Cardinality(unacked[w]) < Prefetch
  /\ queue' = queue \ {m}
  /\ unacked' = [unacked EXCEPT ![w] = @ \union {m}]
  /\ buffer' = [buffer EXCEPT ![w] = @ \union {m}]
  /\ UNCHANGED <<settled, acks, process, thread, outcome, expired, faults>>

(* The broker processes an acknowledgement and removes the message. *)
BrokerSettles(w, m) ==
  /\ m \in acks[w]
  /\ settled' = settled \union {m}
  /\ unacked' = [unacked EXCEPT ![w] = @ \ {m}]
  /\ acks' = [acks EXCEPT ![w] = @ \ {m}]
  /\ UNCHANGED <<queue, buffer, process, thread, outcome, expired, faults>>

(* The forwarder goroutine sees the cancelled context: it cancels the        *)
(* consumer and closes the output, so nothing buffered is handed out.        *)
StopConsuming(w) ==
  /\ channel[w] = "consuming"
  /\ ctx[w] = "cancelled"
  /\ channel' = [channel EXCEPT ![w] = "cancelled"]
  /\ UNCHANGED <<broker, ctx, thread, outcome, expired, faults>>

(* Mutant: an ack that was written is taken for one that was processed.      *)
RequeueUnwritten(w) == /\ queue' = queue \union (unacked[w] \ acks[w])
                       /\ unacked' = [unacked EXCEPT ![w] = {}]
                       /\ acks' = [acks EXCEPT ![w] = {}]
                       /\ UNCHANGED settled

(* The broker gets back everything w's channel had not settled, the acks it  *)
(* never saw included.                                                       *)
Requeue(w) == /\ queue' = queue \union unacked[w]
              /\ unacked' = [unacked EXCEPT ![w] = {}]
              /\ acks' = [acks EXCEPT ![w] = {}]
              /\ UNCHANGED settled

(* Mutant: the consumer reopens its channel under goroutines at work.        *)
ReopenChannel(w) ==
  /\ faults < MaxFaults
  /\ channel[w] = "consuming"
  /\ buffer' = [buffer EXCEPT ![w] = {}]
  /\ Requeue(w)
  /\ faults' = faults + 1
  /\ UNCHANGED <<channel, ctx, thread, outcome, expired>>

(* The channel dies under a running process.  The client library drops what  *)
(* it buffered, except the one delivery the forwarder may already hold; the  *)
(* goroutines keep working on deliveries they can no longer acknowledge.     *)
LoseChannel(w) ==
  /\ faults < MaxFaults
  /\ channel[w] # "closed"
  /\ channel' = [channel EXCEPT ![w] = "closed"]
  /\ \E kept \in SUBSET buffer[w] :
       /\ Cardinality(kept) <= IF channel[w] = "consuming" THEN 1 ELSE 0
       /\ buffer' = [buffer EXCEPT ![w] = kept]
  /\ Requeue(w)
  /\ faults' = faults + 1
  /\ UNCHANGED <<ctx, thread, outcome, expired>>

-----------------------------------------------------------------------------
(* One goroutine of the pool.                                               *)

Running(t) == pc[t] \notin {"idle", "exited"}

GoTo(t, step) == pc' = [pc EXCEPT ![t] = step]

(* Handle returns: the goroutine asks for its next delivery.  Nothing is     *)
(* acknowledged or rejected here.                                            *)
Return(t) == /\ GoTo(t, "idle")
             /\ task' = [task EXCEPT ![t] = NoMsg]
             /\ attempt' = [attempt EXCEPT ![t] = 0]
             /\ calls' = [calls EXCEPT ![t] = 0]

Invalid(m) == m \in Malformed \union expired

(* A goroutine receives a delivery and Handle parses it.  With the context   *)
(* already cancelled Handle returns at once; an envelope that is not valid   *)
(* (any more) is to be acknowledged without any call.                        *)
Take(t, m) ==
  LET w == Home[t] IN
  /\ pc[t] = "idle"
  /\ channel[w] # "cancelled"
  /\ m \in buffer[w]
  /\ buffer' = [buffer EXCEPT ![w] = @ \ {m}]
  /\ \/ /\ ctx[w] = "cancelled"
        /\ UNCHANGED <<thread, outcome>>
     \/ /\ ctx[w] = "live"
        /\ Invalid(m)
        /\ GoTo(t, "ack")
        /\ task' = [task EXCEPT ![t] = m]
        /\ outcome' = [outcome EXCEPT ![m] = @ \union {"discarded"}]
        /\ UNCHANGED <<attempt, calls>>
     \/ /\ ctx[w] = "live"
        /\ ~Invalid(m)
        /\ GoTo(t, "credential")
        /\ task' = [task EXCEPT ![t] = m]
        /\ attempt' = [attempt EXCEPT ![t] = 1]
        /\ UNCHANGED <<calls, outcome>>
  /\ UNCHANGED <<queue, unacked, settled, acks, process, expired, faults>>

(* A stage of the attempt failed: stop on a cancelled context, report when   *)
(* the failure is final or the attempts are used up, wait for a retry        *)
(* otherwise.                                                                *)
Fail(t, stage, retryable) ==
  \/ /\ ctx[Home[t]] = "cancelled"
     /\ Return(t)
  \/ /\ ctx[Home[t]] = "live"
     /\ GoTo(t, IF ~retryable \/ attempt[t] = MaxAttempts THEN "report" ELSE "backoff")
     /\ calls' = [calls EXCEPT ![t] = 0]
     /\ UNCHANGED <<task, attempt>>

Succeed(t, next) == /\ GoTo(t, next)
                    /\ calls' = [calls EXCEPT ![t] = 0]
                    /\ UNCHANGED <<task, attempt>>

ResolveCredential(t) ==
  /\ pc[t] = "credential"
  /\ \/ Succeed(t, "health")
     \/ \E retryable \in BOOLEAN : Fail(t, "credential", retryable)
  /\ UNCHANGED <<broker, process, outcome, expired, faults>>

CheckHealth(t) ==
  /\ pc[t] = "health"
  /\ \/ Succeed(t, "slot")
     \/ Fail(t, "health", TRUE)
  /\ UNCHANGED <<broker, process, outcome, expired, faults>>

(* The zone's counter admits the call, or cannot be asked (fail open).  A     *)
(* goroutine that is refused sleeps until the window ends and asks again:     *)
(* nothing is queued for it, other callers may use up every window before it  *)
(* does, and then this never happens.                                         *)
AcquireSlot(t) ==
  /\ pc[t] = "slot"
  /\ GoTo(t, "fetch")
  /\ UNCHANGED <<task, attempt, calls, broker, process, outcome, expired, faults>>

(* Only a cancelled context ends the wait for a slot with an error.          *)
AbandonSlot(t) ==
  /\ pc[t] = "slot"
  /\ ctx[Home[t]] = "cancelled"
  /\ Return(t)
  /\ UNCHANGED <<broker, process, outcome, expired, faults>>

(* One BITS call, made with a slot.  SEARCHBUSMAP makes one more for every    *)
(* entry its search lists, each with a slot of its own.  The client validates *)
(* the message again, so a date that passed meanwhile is final.               *)
FetchTripDetails(t) ==
  /\ pc[t] = "fetch"
  /\ \/ /\ task[t] \notin expired
        /\ Succeed(t, "push")
     \/ /\ task[t] \notin expired
        /\ calls[t] < MaxCalls - 1
        /\ GoTo(t, "slot")
        /\ calls' = [calls EXCEPT ![t] = @ + 1]
        /\ UNCHANGED <<task, attempt>>
     \/ /\ task[t] \notin expired
        /\ Fail(t, "fetch", TRUE)
     \/ Fail(t, "fetch", FALSE)
  /\ UNCHANGED <<broker, process, outcome, expired, faults>>

(* Mutant: a RETRYABLE answer counts as acknowledgement eligible. *)
PushAnyAnswer(t) ==
  LET m == task[t] IN
  /\ pc[t] = "push"
  /\ \/ /\ m \notin expired
        /\ outcome' = [outcome EXCEPT ![m] = @ \union {"stored"}]
        /\ Succeed(t, "ack")
     \/ /\ Succeed(t, "ack")
        /\ UNCHANGED outcome
  /\ UNCHANGED <<broker, process, expired, faults>>

(* POST /api/tripdetails.  The Master may have stored the result although    *)
(* the answer never arrives.                                                 *)
PushTripDetails(t) ==
  LET m == task[t] IN
  /\ pc[t] = "push"
  /\ \/ /\ m \notin expired
        /\ outcome' = [outcome EXCEPT ![m] = @ \union {"stored"}]
        /\ Succeed(t, "ack") \/ Fail(t, "push", TRUE)
     \/ /\ m \notin expired
        /\ Fail(t, "push", TRUE)
        /\ UNCHANGED outcome
     \/ /\ Fail(t, "push", FALSE)
        /\ UNCHANGED outcome
  /\ UNCHANGED <<broker, process, expired, faults>>

(* Mutant: the attempt counter is not advanced. *)
AwaitRetryForever(t) ==
  /\ pc[t] = "backoff"
  /\ GoTo(t, "credential")
  /\ UNCHANGED <<task, attempt, calls, broker, process, outcome, expired, faults>>

(* The retry delay elapses, or the context ends it.                          *)
AwaitRetry(t) ==
  /\ pc[t] = "backoff"
  /\ \/ /\ GoTo(t, "credential")
        /\ attempt' = [attempt EXCEPT ![t] = @ + 1]
        /\ UNCHANGED <<task, calls>>
     \/ /\ ctx[Home[t]] = "cancelled"
        /\ Return(t)
  /\ UNCHANGED <<broker, process, outcome, expired, faults>>

(* Mutant: the delivery is acknowledged whether or not the report got through. *)
ReportAndForget(t) ==
  /\ pc[t] = "report"
  /\ \E recorded \in BOOLEAN :
       outcome' = [outcome EXCEPT ![task[t]] = @ \union (IF recorded THEN {"dead"} ELSE {})]
  /\ Succeed(t, "ack")
  /\ UNCHANGED <<broker, process, expired, faults>>

(* POST /api/tripdetails/dlq, once.  When it fails Handle returns DLQ_ERROR: *)
(* the delivery is neither acknowledged nor rejected.                        *)
ReportFailure(t) ==
  LET m == task[t] IN
  /\ pc[t] = "report"
  /\ \/ /\ outcome' = [outcome EXCEPT ![m] = @ \union {"dead"}]
        /\ Succeed(t, "ack") \/ Return(t)
     \/ /\ UNCHANGED outcome
        /\ Return(t)
  /\ UNCHANGED <<broker, process, expired, faults>>

(* RabbitMQDelivery.Ack: refused after shutdown began and on a dead channel. *)
Acknowledge(t) ==
  LET w == Home[t] IN
  /\ pc[t] = "ack"
  /\ acks' = IF ctx[w] = "live" /\ channel[w] # "closed"
             THEN [acks EXCEPT ![w] = @ \union {task[t]}]
             ELSE acks
  /\ Return(t)
  /\ UNCHANGED <<queue, unacked, settled, buffer, process, outcome, expired, faults>>

(* Mutant: goroutines only watch the deliveries, not the context. *)
LeaveWhenClosed(t) ==
  /\ pc[t] = "idle"
  /\ channel[Home[t]] = "closed" /\ buffer[Home[t]] = {}
  /\ GoTo(t, "exited")
  /\ UNCHANGED <<broker, process, task, attempt, calls, outcome, expired, faults>>

(* The goroutine ends: context cancelled, or deliveries closed and drained.  *)
Leave(t) ==
  LET w == Home[t] IN
  /\ pc[t] = "idle"
  /\ ctx[w] = "cancelled" \/ (channel[w] = "closed" /\ buffer[w] = {})
  /\ GoTo(t, "exited")
  /\ UNCHANGED <<broker, process, task, attempt, calls, outcome, expired, faults>>

(* The steps of Handle that end by themselves: calls have timeouts, timers    *)
(* elapse.                                                                    *)
Proceed(t) ==
  \/ ResolveCredential(t) \/ CheckHealth(t) \/ AbandonSlot(t) \/ FetchTripDetails(t)
  \/ PushTripDetails(t) \/ AwaitRetry(t) \/ ReportFailure(t) \/ Acknowledge(t)

Handle(t) == Proceed(t) \/ AcquireSlot(t)

-----------------------------------------------------------------------------
(* Processes and time.                                                      *)

(* SIGTERM: main cancels the run context. *)
Shutdown(w) ==
  /\ ctx[w] = "live"
  /\ ctx' = [ctx EXCEPT ![w] = "cancelled"]
  /\ UNCHANGED <<broker, channel, thread, outcome, expired, faults>>

Pool(w) == {t \in Thread : Home[t] = w}

(* A new process in the place of w: fresh channel, context and goroutines.   *)
Reset(w) ==
  /\ Requeue(w)
  /\ buffer' = [buffer EXCEPT ![w] = {}]
  /\ channel' = [channel EXCEPT ![w] = "consuming"]
  /\ ctx' = [ctx EXCEPT ![w] = "live"]
  /\ pc' = [t \in Thread |-> IF t \in Pool(w) THEN "idle" ELSE pc[t]]
  /\ task' = [t \in Thread |-> IF t \in Pool(w) THEN NoMsg ELSE task[t]]
  /\ attempt' = [t \in Thread |-> IF t \in Pool(w) THEN 0 ELSE attempt[t]]
  /\ calls' = [t \in Thread |-> IF t \in Pool(w) THEN 0 ELSE calls[t]]

(* Run has returned: main closes the channel and exits; the process is       *)
(* started again by its supervisor.                                          *)
ExitAndRestart(w) ==
  /\ \A t \in Pool(w) : pc[t] = "exited"
  /\ Reset(w)
  /\ UNCHANGED <<outcome, expired, faults>>

Crash(w) ==
  /\ faults < MaxFaults
  /\ faults' = faults + 1
  /\ Reset(w)
  /\ UNCHANGED <<outcome, expired>>

(* Midnight passes the travel date of message m. *)
DatePasses(m) ==
  /\ m \notin expired
  /\ expired' = expired \union {m}
  /\ UNCHANGED <<broker, process, thread, outcome, faults>>

Next ==
  \/ \E w \in Worker, m \in Msg : Deliver(w, m) \/ BrokerSettles(w, m)
  \/ \E w \in Worker : \/ StopConsuming(w) \/ LoseChannel(w) \/ Shutdown(w)
                       \/ ExitAndRestart(w) \/ Crash(w)
  \/ \E t \in Thread : Handle(t) \/ Leave(t) \/ \E m \in Msg : Take(t, m)
  \/ \E m \in Msg : DatePasses(m)

Spec == Init /\ [][Next]_vars

(* The Go scheduler runs every runnable goroutine, every HTTP call and retry *)
(* delay ends (client timeouts, timers), and the broker serves its channels. *)
(* Nothing is assumed of the wait for a slot: no goroutine is promised one.  *)
Fairness ==
  /\ \A t \in Thread : /\ WF_vars(Proceed(t))
                       /\ WF_vars(Leave(t) \/ \E m \in Msg : Take(t, m))
  /\ \A w \in Worker : /\ WF_vars(StopConsuming(w))
                       /\ WF_vars(ExitAndRestart(w))
                       /\ WF_vars(\E m \in Msg : Deliver(w, m))
                       /\ WF_vars(\E m \in Msg : BrokerSettles(w, m))

FairSpec == Spec /\ Fairness

-----------------------------------------------------------------------------
(* Safety.                                                                  *)

(* Every published message is in exactly one place: ready, unacknowledged on *)
(* one channel, or settled; no sequence of lost channels, crashes and late   *)
(* acknowledgements loses or duplicates one.                                 *)
Conservation ==
  /\ queue \union settled \union UNION {unacked[w] : w \in Worker} = Msg
  /\ queue \intersect settled = {}
  /\ \A w \in Worker : /\ unacked[w] \intersect (queue \union settled) = {}
                       /\ acks[w] \subseteq unacked[w]
                       /\ \A v \in Worker \ {w} : unacked[v] \intersect unacked[w] = {}

(* No message is acknowledged, let alone settled, before the Master stored   *)
(* its result, recorded its failure, or the Worker discarded it as invalid   *)
(* (worker.go:44-46): a crash between the calls repeats work, never skips it. *)
AcknowledgedHasOutcome ==
  \A m \in Msg : m \in settled \/ (\E w \in Worker : m \in acks[w])
                => outcome[m] # {}

(* While its channel is alive, a delivery belongs to the goroutine that took *)
(* it: it is unacknowledged on that channel, not already acknowledged, and   *)
(* no other goroutine with a live channel works on the same message.         *)
ExclusiveWork ==
  \A t \in Thread :
    LET m == task[t]
        w == Home[t]
    IN  task[t] # NoMsg /\ channel[w] # "closed" =>
          /\ m \in unacked[w] \ (acks[w] \union buffer[w])
          /\ \A u \in Thread \ {t} :
               task[u] = m => channel[Home[u]] = "closed"

(* A retry delay is looked up only where RetryDelays has one: it holds       *)
(* MaxAttempts - 1 delays and is indexed with attempt - 1 (worker.go:102).   *)
RetryDelayDefined ==
  \A t \in Thread : pc[t] = "backoff" => attempt[t] \in 1 .. MaxAttempts - 1

(* The inductive invariant behind the four: it adds that what the channel    *)
(* buffered is still unacknowledged, that exactly the running goroutines     *)
(* hold a delivery, that the attempt counter runs from 1 while they do, and  *)
(* that Handle asks for an acknowledgement only with an outcome in hand.     *)
BufferedIsUnacked ==
  \A w \in Worker : channel[w] # "closed" => buffer[w] \subseteq unacked[w] \ acks[w]
RunningHoldsTask == \A t \in Thread : Running(t) <=> task[t] # NoMsg
AttemptCounted ==
  \A t \in Thread : pc[t] \in Stage \union {"backoff"} => attempt[t] >= 1
AckHasOutcome ==
  \A t \in Thread : pc[t] = "ack" => task[t] \in Msg /\ outcome[task[t]] # {}

IInv == /\ TypeOK
        /\ Conservation
        /\ AcknowledgedHasOutcome
        /\ ExclusiveWork
        /\ RetryDelayDefined
        /\ BufferedIsUnacked
        /\ RunningHoldsTask
        /\ AttemptCounted
        /\ AckHasOutcome

(* The detailed system keeps the contract of the pipeline.                   *)
Contract == INSTANCE DeliveryContract
KeepsContract == Contract!Spec

(* Calls and waits a goroutine has before it at most: an attempt is a         *)
(* credential, a health check, MaxCalls slots and BITS calls, a push and a    *)
(* delay; the last one has the report and the acknowledgement instead.        *)
AttemptSteps == 2 * MaxCalls + 4
Ahead(t) == [credential |-> 2 * MaxCalls + 5,
             health     |-> 2 * MaxCalls + 4,
             slot       |-> 2 * (MaxCalls - calls[t]) + 3,
             fetch      |-> 2 * (MaxCalls - calls[t]) + 2,
             push |-> 3, backoff |-> 2, report |-> 2, ack |-> 1, idle |-> 0, exited |-> 0][pc[t]]
StepsLeft(t) ==
  Ahead(t) + IF pc[t] \in Stage \union {"backoff"}
             THEN AttemptSteps * (MaxAttempts - attempt[t]) ELSE 0

(* Handle cannot be kept busy for ever: each of its steps leaves fewer to do, *)
(* and nothing that happens meanwhile, on the broker or in another goroutine, *)
(* gives it more: retries are bounded (worker.go:44, :80).  To be refused a   *)
(* slot is not a step; how often that happens is not bounded.                 *)
HandleIsBounded ==
  [][\A t \in Thread :
       Running(t) => /\ StepsLeft(t) \in 1 .. AttemptSteps * MaxAttempts + 1
                     /\ StepsLeft(t)' <= StepsLeft(t)
                     /\ Handle(t) => StepsLeft(t)' < StepsLeft(t)]_vars

-----------------------------------------------------------------------------
(* Liveness, under FairSpec.                                                *)

(* Handle returns unless the zone's quota keeps it: attempts are bounded and  *)
(* every wait ends but the one for a slot, so a goroutine is lost to a        *)
(* delivery only by being refused in every window from some moment on         *)
(* (worker.go:152-180), never by retries, reports or a dead channel.          *)
HandleReturns ==
  \A t \in Thread : ([]<>~Running(t)) \/ (<>[](pc[t] = "slot"))

(* Controlled shutdown completes: once the context is cancelled the pool     *)
(* drains, Run returns and the process is replaced.                          *)
ShutdownCompletes == \A w \in Worker : ctx[w] = "cancelled" ~> ctx[w] = "live"

-----------------------------------------------------------------------------
(* What the documents say and the code does not do.                         *)

(* constitution.md:48-49, "Failed deliveries MUST be retried or dead-lettered *)
(* for inspection": a delivery that failed, was not dead-lettered and is held *)
(* by no goroutine any more is handed out again or settled.                  *)
Abandoned(m) ==
  \E w \in Worker : /\ channel[w] = "consuming"
                    /\ m \in unacked[w] \ (buffer[w] \union acks[w])
                    /\ \A t \in Thread : task[t] # m
FailedDeliveriesContinue ==
  \A m \in Msg : (Abandoned(m) /\ outcome[m] = {}) ~> ~Abandoned(m)

=============================================================================
