------------------------- MODULE InventoryPublisher -------------------------
(***************************************************************************)
(* The Master's confirmed publication of Worker jobs: concurrent callers    *)
(* share one AMQP channel under a mutex, reconnect when it has died, publish *)
(* with one retry and wait for the broker's confirmation, unless their      *)
(* request is cancelled first.  The confirmations of a channel arrive in    *)
(* publication order on one Go channel, and nothing ties a confirmation to  *)
(* the publication it belongs to.                                           *)
(***************************************************************************)
EXTENDS Naturals, Sequences

CONSTANTS Caller,      \* concurrent requests
          Job,         \* reference IDs of the jobs they publish
          NoOne,       \* no caller holds the mutex
          NoJob,       \* no job
          MaxCalls,    \* bound: calls of the callers
          MaxCancels,  \* bound: cancelled requests
          MaxBreaks    \* bound: failures of the broker or of the connection

ASSUME PublisherAssumption ==
  /\ NoOne \notin Caller
  /\ NoJob \notin Job
  /\ MaxCalls \in Nat
  /\ MaxCancels \in Nat
  /\ MaxBreaks \in Nat

VARIABLES
  stage,     \* stage[c]: where caller c is in publish
  job,       \* job[c]: the job it publishes
  tries,     \* tries[c]: failed publish attempts so far
  mutex,     \* the caller inside publish
  open,      \* the publisher's connection and channel are usable
  wire,      \* publications the broker has not processed
  confirms,  \* confirmations of this channel nobody has read
  taken,     \* taken[j]: copies of j the broker has stored
  gone,      \* callers whose request context is cancelled
  calls, cancels, breaks  \* counts of the bounded events

client    == <<stage, job, tries, mutex>>
link      == <<open, wire, confirms>>
publisher == <<client, link, taken>>
vars      == <<publisher, gone, calls, cancels, breaks>>

Confirmation == [job : Job, ack : BOOLEAN]

TypeOK ==
  /\ stage \in [Caller -> {"free", "lock", "send", "await", "ok", "error"}]
  /\ job \in [Caller -> Job \union {NoJob}]
  /\ tries \in [Caller -> 0 .. 1]
  /\ mutex \in Caller \union {NoOne}
  /\ open \in BOOLEAN
  /\ wire \in Seq(Job)
  /\ confirms \in Seq(Confirmation)
  /\ taken \in [Job -> Nat]
  /\ gone \in SUBSET Caller
  /\ calls \in 0 .. MaxCalls
  /\ cancels \in 0 .. MaxCancels
  /\ breaks \in 0 .. MaxBreaks

Init ==
  /\ stage = [c \in Caller |-> "free"]
  /\ job = [c \in Caller |-> NoJob]
  /\ tries = [c \in Caller |-> 0]
  /\ mutex = NoOne
  /\ open = TRUE
  /\ wire = <<>>
  /\ confirms = <<>>
  /\ taken = [j \in Job |-> 0]
  /\ gone = {}
  /\ calls = 0
  /\ cancels = 0
  /\ breaks = 0

-----------------------------------------------------------------------------
(* A caller.                                                                *)

Publish(c, j) ==
  /\ stage[c] = "free"
  /\ stage' = [stage EXCEPT ![c] = "lock"]
  /\ job' = [job EXCEPT ![c] = j]
  /\ UNCHANGED <<tries, mutex, link, taken, cancels, breaks>>

(* Mutant: callers publish concurrently. *)
EnterWithoutMutex(c) ==
  /\ stage[c] = "lock"
  /\ stage' = [stage EXCEPT ![c] = "send"]
  /\ UNCHANGED <<job, tries, mutex, link, taken, cancels, breaks>>

Lock(c) ==
  /\ stage[c] = "lock"
  /\ mutex = NoOne
  /\ mutex' = c
  /\ stage' = [stage EXCEPT ![c] = "send"]
  /\ UNCHANGED <<job, tries, link, taken, cancels, breaks>>

(* Mutant: the mutex is kept when publish fails. *)
FinishUnlockedOnSuccess(c, result) ==
  /\ stage' = [stage EXCEPT ![c] = result]
  /\ tries' = [tries EXCEPT ![c] = 0]
  /\ mutex' = IF result = "ok" THEN NoOne ELSE mutex

(* publish returns with this result; the deferred unlock runs. *)
Finish(c, result) ==
  /\ stage' = [stage EXCEPT ![c] = result]
  /\ tries' = [tries EXCEPT ![c] = 0]
  /\ mutex' = NoOne

(* One turn of the retry loop that got the message out, over a new           *)
(* connection when the old one was dead.                                     *)
Send(c) ==
  /\ stage[c] = "send"
  /\ open' = TRUE
  /\ wire' = Append(IF open THEN wire ELSE <<>>, job[c])
  /\ confirms' = IF open THEN confirms ELSE <<>>
  /\ stage' = [stage EXCEPT ![c] = "await"]
  /\ UNCHANGED <<job, tries, mutex, taken, cancels, breaks>>

(* One turn that failed: connect did not succeed, or the publication failed  *)
(* and its channel is closed for the next turn.                              *)
SendFails(c) ==
  /\ stage[c] = "send"
  /\ breaks < MaxBreaks
  /\ breaks' = breaks + 1
  /\ open' = FALSE
  /\ wire' = <<>>
  /\ \/ /\ tries[c] = 0
        /\ tries' = [tries EXCEPT ![c] = 1]
        /\ UNCHANGED <<stage, mutex>>
     \/ /\ tries[c] = 1
        /\ Finish(c, "error")
  /\ UNCHANGED <<job, confirms, taken, cancels>>

(* awaitConfirmation: whichever of its three cases is ready.                 *)
ReadConfirmation(c) ==
  /\ stage[c] = "await"
  /\ confirms # <<>>
  /\ Finish(c, IF Head(confirms).ack THEN "ok" ELSE "error")
  /\ confirms' = Tail(confirms)
  /\ UNCHANGED <<job, open, wire, taken, cancels, breaks>>

SeeClosedChannel(c) ==
  /\ stage[c] = "await"
  /\ ~open
  /\ Finish(c, "error")
  /\ UNCHANGED <<job, link, taken, cancels, breaks>>

GiveUp(c) ==
  /\ stage[c] = "await"
  /\ c \in gone
  /\ Finish(c, "error")
  /\ UNCHANGED <<job, link, taken, cancels, breaks>>

(* The caller goes on with its result. *)
Collect(c) ==
  /\ stage[c] \in {"ok", "error"}
  /\ stage' = [stage EXCEPT ![c] = "free"]
  /\ job' = [job EXCEPT ![c] = NoJob]
  /\ UNCHANGED <<tries, mutex, link, taken, cancels, breaks>>

-----------------------------------------------------------------------------
(* The broker, the connection and the clients of the Master.                *)

(* The broker stores the oldest publication, or refuses it, and confirms. *)
BrokerTakes(ack) ==
  /\ open
  /\ wire # <<>>
  /\ wire' = Tail(wire)
  /\ confirms' = Append(confirms, [job |-> Head(wire), ack |-> ack])
  /\ taken' = IF ack THEN [taken EXCEPT ![Head(wire)] = @ + 1] ELSE taken
  /\ UNCHANGED <<client, open, cancels>>

BrokerRefuses ==
  /\ breaks < MaxBreaks
  /\ breaks' = breaks + 1
  /\ BrokerTakes(FALSE)

BrokerStores == BrokerTakes(TRUE) /\ UNCHANGED breaks

(* The connection dies.  Of the unread confirmations at most the one in the  *)
(* Go channel's buffer survives.                                             *)
LoseConnection ==
  /\ open
  /\ breaks < MaxBreaks
  /\ breaks' = breaks + 1
  /\ open' = FALSE
  /\ wire' = <<>>
  /\ confirms' \in {<<>>, IF confirms = <<>> THEN <<>> ELSE <<Head(confirms)>>}
  /\ UNCHANGED <<client, taken, cancels>>

(* The client of the request disconnects. *)
Cancel(c) ==
  /\ cancels < MaxCancels
  /\ c \notin gone
  /\ cancels' = cancels + 1
  /\ gone' = gone \union {c}
  /\ UNCHANGED <<publisher, breaks>>

Environment == BrokerStores \/ BrokerRefuses \/ LoseConnection

Work(c) ==
  \/ Lock(c) \/ Send(c) \/ SendFails(c)
  \/ ReadConfirmation(c) \/ SeeClosedChannel(c) \/ GiveUp(c)

(* On its own: callers publish one job after the other. *)
Call(c, j) == /\ calls < MaxCalls
              /\ calls' = calls + 1
              /\ gone' = gone \ {c}
              /\ Publish(c, j)

Next ==
  \/ \E c \in Caller : \/ \E j \in Job : Call(c, j)
                       \/ (Work(c) \/ Collect(c)) /\ UNCHANGED <<gone, calls>>
                       \/ stage[c] # "free" /\ Cancel(c) /\ UNCHANGED calls
  \/ Environment /\ UNCHANGED <<gone, calls>>

Spec == Init /\ [][Next]_vars

-----------------------------------------------------------------------------
(* A publication reported as confirmed is on the broker: queue_metrix.go:78  *)
(* records "a broker-confirmed publication" on the strength of it.           *)
ConfirmedIsTaken ==
  \A c \in Caller : stage[c] = "ok" => taken[job[c]] > 0

(* What the code does ensure: it holds as long as no request is cancelled,   *)
(* whatever breaks.  A cancelled request leaves its confirmation to be read  *)
(* by the next caller, whose own publication the broker may still lose.      *)
ConfirmedUnlessCancelled == cancels = 0 => ConfirmedIsTaken

(* Nobody waits for what cannot come.  Whoever awaits a confirmation has one *)
(* to read, a dead channel to notice or a publication the broker still has   *)
(* to process, and whoever is locked out waits for a caller that is on its   *)
(* way: awaitConfirmation has no time limit of its own                       *)
(* (inventory_event_publisher.go:115) and every other request queues behind  *)
(* it at :79.                                                                *)
AnswerComes == \A c \in Caller :
  stage[c] = "await" => confirms # <<>> \/ ~open \/ wire # <<>>

LockIsReleased == \A c \in Caller :
  stage[c] = "lock" => mutex = NoOne \/ stage[mutex] \in {"send", "await"}

NobodyWaitsInVain == AnswerComes /\ LockIsReleased

=============================================================================
