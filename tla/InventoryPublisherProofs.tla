---------------------- MODULE InventoryPublisherProofs ----------------------
(***************************************************************************)
(* Proofs about InventoryPublisher for any callers, jobs and bounds: one    *)
(* caller at a time is between the mutex's lock and unlock, and as long as  *)
(* no request is cancelled everybody reads the confirmation of its own      *)
(* publication; cancelled or not, nobody waits for what cannot come.        *)
(***************************************************************************)
EXTENDS InventoryPublisher, TLAPS

(* The callers inside publish hold the mutex, and calls in progress have a  *)
(* job.                                                                     *)
MutexHeld == \A c \in Caller : stage[c] \in {"send", "await"} <=> mutex = c
JobHeld   == \A c \in Caller : stage[c] # "free" => job[c] \in Job

(* Between two publications nothing is left on an open channel.             *)
ChannelClean ==
  (\A c \in Caller : stage[c] # "await") /\ open => wire = <<>> /\ confirms = <<>>

(* Whoever waits has its own publication or its own confirmation there.     *)
OwnConfirmation ==
  \A c \in Caller : stage[c] = "await" =>
    \/ open /\ wire = <<job[c]>> /\ confirms = <<>>
    \/ ~open /\ wire = <<>> /\ confirms = <<>>
    \/ /\ wire = <<>>
       /\ \E a \in BOOLEAN : /\ confirms = <<[job |-> job[c], ack |-> a]>>
                             /\ a => taken[job[c]] > 0

Undisturbed == /\ gone = {}
               /\ ChannelClean
               /\ OwnConfirmation
               /\ ConfirmedIsTaken

PInv == TypeOK /\ MutexHeld /\ JobHeld /\ (cancels = 0 => Undisturbed)

-----------------------------------------------------------------------------
LEMMA InitInv == Init => PInv
  BY PublisherAssumption
  DEF Init, PInv, TypeOK, MutexHeld, JobHeld, Undisturbed, ChannelClean,
      OwnConfirmation, ConfirmedIsTaken

(* The steps of a caller. *)

LEMMA PublishStep ==
  ASSUME PInv, NEW c \in Caller, NEW j \in Job, Publish(c, j),
         gone' \subseteq gone, calls' \in 0 .. MaxCalls
  PROVE  PInv'
  <1>1. /\ stage[c] = "free" /\ stage' = [stage EXCEPT ![c] = "lock"]
        /\ job' = [job EXCEPT ![c] = j]
        /\ UNCHANGED <<tries, mutex, open, wire, confirms, taken, cancels, breaks>>
    BY DEF Publish, link
  <1>2. TypeOK'
    BY <1>1 DEF PInv, TypeOK
  <1>3. MutexHeld' /\ JobHeld'
    BY <1>1 DEF PInv, TypeOK, MutexHeld, JobHeld
  <1>4. ASSUME cancels = 0 PROVE Undisturbed'
    BY <1>1, <1>4
    DEF PInv, TypeOK, Undisturbed, ChannelClean, OwnConfirmation, ConfirmedIsTaken
  <1> QED BY <1>1, <1>2, <1>3, <1>4 DEF PInv

(* A caller's next call, which has a context of its own.                     *)
LEMMA FreshStep ==
  ASSUME PInv, gone' \subseteq gone, calls' \in 0 .. MaxCalls,
         UNCHANGED <<publisher, cancels, breaks>>
  PROVE  PInv'
  <1>1. UNCHANGED <<stage, job, tries, mutex, open, wire, confirms, taken, cancels, breaks>>
    BY DEF publisher, client, link
  <1>2. TypeOK'
    BY <1>1 DEF PInv, TypeOK
  <1>3. MutexHeld' /\ JobHeld'
    BY <1>1 DEF PInv, MutexHeld, JobHeld
  <1>4. ASSUME cancels = 0 PROVE Undisturbed'
    BY <1>1, <1>4 DEF PInv, Undisturbed, ChannelClean, OwnConfirmation, ConfirmedIsTaken
  <1> QED BY <1>1, <1>2, <1>3, <1>4 DEF PInv

LEMMA LockStep ==
  ASSUME PInv, NEW c \in Caller, Lock(c), UNCHANGED <<gone, calls>> PROVE PInv'
  <1>1. /\ stage[c] = "lock" /\ stage' = [stage EXCEPT ![c] = "send"]
        /\ mutex = NoOne /\ mutex' = c
        /\ UNCHANGED <<job, tries, open, wire, confirms, taken, gone, calls, cancels, breaks>>
    BY DEF Lock, link
  <1>2. TypeOK'
    BY <1>1 DEF PInv, TypeOK
  <1>3. MutexHeld' /\ JobHeld'
    BY <1>1, PublisherAssumption DEF PInv, TypeOK, MutexHeld, JobHeld
  <1>4. ASSUME cancels = 0 PROVE Undisturbed'
    BY <1>1, <1>4
    DEF PInv, TypeOK, Undisturbed, ChannelClean, OwnConfirmation, ConfirmedIsTaken
  <1> QED BY <1>1, <1>2, <1>3, <1>4 DEF PInv

(* While c has the mutex before its publication, nobody awaits a confirmation. *)
LEMMA SenderIsAlone ==
  ASSUME PInv, NEW c \in Caller, stage[c] \in {"send", "await"}
  PROVE  /\ mutex = c
         /\ \A b \in Caller \ {c} : stage[b] \notin {"send", "await"}
  BY DEF PInv, MutexHeld

LEMMA SendStep ==
  ASSUME PInv, NEW c \in Caller, Send(c), UNCHANGED <<gone, calls>> PROVE PInv'
  <1>1. /\ stage[c] = "send" /\ stage' = [stage EXCEPT ![c] = "await"]
        /\ open' = TRUE
        /\ wire' = Append(IF open THEN wire ELSE <<>>, job[c])
        /\ confirms' = IF open THEN confirms ELSE <<>>
        /\ UNCHANGED <<job, tries, mutex, taken, gone, calls, cancels, breaks>>
    BY DEF Send
  <1>2. job[c] \in Job
    BY <1>1 DEF PInv, JobHeld
  <1>3. wire' \in Seq(Job) /\ confirms' \in Seq(Confirmation)
    BY <1>1, <1>2 DEF PInv, TypeOK
  <1>4. TypeOK'
    BY <1>1, <1>3 DEF PInv, TypeOK
  <1>5. MutexHeld' /\ JobHeld'
    BY <1>1, SenderIsAlone DEF PInv, TypeOK, MutexHeld, JobHeld
  <1>6. ASSUME cancels = 0 PROVE Undisturbed'
    <2>1. \A b \in Caller : stage[b] # "await"
      BY <1>1, SenderIsAlone
    <2>2. wire' = <<job[c]>> /\ confirms' = <<>>
      <3>1. (open => wire = <<>> /\ confirms = <<>>) /\ open \in BOOLEAN
        BY <1>6, <2>1 DEF PInv, TypeOK, Undisturbed, ChannelClean
      <3>2. wire' = Append(<<>>, job[c]) /\ confirms' = <<>>
        BY <1>1, <3>1
      <3>3. Append(<<>>, job[c]) = <<job[c]>>
        OBVIOUS
      <3> QED BY <3>2, <3>3
    <2>3. \A b \in Caller : stage'[b] = "await" => b = c
      BY <1>1, <2>1 DEF PInv, TypeOK
    <2>4. stage'[c] = "await"
      BY <1>1 DEF PInv, TypeOK
    <2>5. ConfirmedIsTaken'
      BY <1>1, <1>6 DEF PInv, TypeOK, Undisturbed, ConfirmedIsTaken
    <2> QED BY <1>1, <1>6, <2>2, <2>3, <2>4, <2>5
            DEF PInv, Undisturbed, ChannelClean, OwnConfirmation
  <1> QED BY <1>1, <1>4, <1>5, <1>6 DEF PInv

(* publish returns: the mutex is free again.  What remains to be shown of    *)
(* the step is about the channel and, for a success, the broker.             *)
LEMMA FinishStep ==
  ASSUME PInv, NEW c \in Caller, NEW result \in {"ok", "error"}, Finish(c, result),
         stage[c] \in {"send", "await"},
         UNCHANGED <<job, taken, gone, calls, cancels>>,
         open' \in BOOLEAN, wire' \in Seq(Job), confirms' \in Seq(Confirmation),
         breaks' \in 0 .. MaxBreaks,
         cancels = 0 => /\ open' => wire' = <<>> /\ confirms' = <<>>
                        /\ result = "ok" => taken[job[c]] > 0
  PROVE  PInv'
  <1>1. /\ stage' = [stage EXCEPT ![c] = result]
        /\ tries' = [tries EXCEPT ![c] = 0]
        /\ mutex' = NoOne
    BY DEF Finish
  <1>2. TypeOK'
    BY <1>1 DEF PInv, TypeOK
  <1>3. MutexHeld' /\ JobHeld'
    BY <1>1, SenderIsAlone, PublisherAssumption DEF PInv, TypeOK, MutexHeld, JobHeld
  <1>4. \A b \in Caller : stage'[b] # "await"
    BY <1>1, SenderIsAlone DEF PInv, TypeOK
  <1>5. ASSUME cancels = 0 PROVE Undisturbed'
    <2>1. ConfirmedIsTaken'
      BY <1>1, <1>5 DEF PInv, TypeOK, Undisturbed, ConfirmedIsTaken
    <2> QED BY <1>4, <1>5, <2>1 DEF PInv, Undisturbed, ChannelClean, OwnConfirmation
  <1> QED BY <1>2, <1>3, <1>5 DEF PInv

LEMMA SendFailsStep ==
  ASSUME PInv, NEW c \in Caller, SendFails(c), UNCHANGED <<gone, calls>> PROVE PInv'
  <1>1. /\ stage[c] = "send"
        /\ breaks < MaxBreaks /\ breaks' = breaks + 1
        /\ open' = FALSE /\ wire' = <<>>
        /\ UNCHANGED <<job, confirms, taken, gone, calls, cancels>>
    BY DEF SendFails
  <1>2. breaks' \in 0 .. MaxBreaks
    BY <1>1, PublisherAssumption DEF PInv, TypeOK
  <1>3. wire' \in Seq(Job) /\ confirms' \in Seq(Confirmation)
    BY <1>1 DEF PInv, TypeOK
  <1>4. CASE tries' = [tries EXCEPT ![c] = 1] /\ UNCHANGED <<stage, mutex>>
    <2>1. TypeOK'
      <3>1. tries' \in [Caller -> 0 .. 1]
        BY <1>4 DEF PInv, TypeOK
      <3> QED BY <1>1, <1>2, <1>3, <1>4, <3>1 DEF PInv, TypeOK
    <2>2. \A b \in Caller : stage[b] # "await"
      BY <1>1, SenderIsAlone
    <2> QED BY <1>1, <1>4, <2>1, <2>2
            DEF PInv, MutexHeld, JobHeld, Undisturbed, ChannelClean, OwnConfirmation,
                ConfirmedIsTaken
  <1>5. CASE Finish(c, "error")
    BY <1>1, <1>2, <1>3, <1>5, FinishStep
  <1> QED BY <1>4, <1>5 DEF SendFails

LEMMA ReadConfirmationStep ==
  ASSUME PInv, NEW c \in Caller, ReadConfirmation(c), UNCHANGED <<gone, calls>>
  PROVE  PInv'
  <1> DEFINE result == IF Head(confirms).ack THEN "ok" ELSE "error"
  <1>1. /\ stage[c] = "await" /\ confirms # <<>>
        /\ Finish(c, result)
        /\ confirms' = Tail(confirms)
        /\ UNCHANGED <<job, open, wire, taken, gone, calls, cancels, breaks>>
    BY DEF ReadConfirmation
  <1>2. /\ confirms' \in Seq(Confirmation)
        /\ open' \in BOOLEAN /\ wire' \in Seq(Job) /\ breaks' \in 0 .. MaxBreaks
    BY <1>1 DEF PInv, TypeOK
  <1>3. ASSUME cancels = 0
        PROVE  /\ wire' = <<>> /\ confirms' = <<>>
               /\ result = "ok" => taken[job[c]] > 0
    <2>1. PICK a \in BOOLEAN : /\ wire = <<>>
                               /\ confirms = <<[job |-> job[c], ack |-> a]>>
                               /\ a => taken[job[c]] > 0
      BY <1>1, <1>3 DEF PInv, Undisturbed, OwnConfirmation
    <2>2. Head(confirms).ack = a /\ Tail(confirms) = <<>>
      BY <2>1
    <2> QED BY <1>1, <2>1, <2>2
  <1>4. result \in {"ok", "error"}
    OBVIOUS
  <1> HIDE DEF result
  <1> QED BY <1>1, <1>2, <1>3, <1>4, FinishStep

LEMMA GiveUpStep ==
  ASSUME PInv, NEW c \in Caller, SeeClosedChannel(c) \/ GiveUp(c),
         UNCHANGED <<gone, calls>>
  PROVE  PInv'
  <1>1. /\ stage[c] = "await" /\ (~open \/ c \in gone)
        /\ Finish(c, "error")
        /\ UNCHANGED <<job, open, wire, confirms, taken, gone, calls, cancels, breaks>>
    BY DEF SeeClosedChannel, GiveUp, link
  <1>2. cancels = 0 => ~open
    BY <1>1 DEF PInv, Undisturbed
  <1>3. /\ open' \in BOOLEAN /\ wire' \in Seq(Job)
        /\ confirms' \in Seq(Confirmation) /\ breaks' \in 0 .. MaxBreaks
    BY <1>1 DEF PInv, TypeOK
  <1> QED BY <1>1, <1>2, <1>3, FinishStep

LEMMA CollectStep ==
  ASSUME PInv, NEW c \in Caller, Collect(c), UNCHANGED <<gone, calls>> PROVE PInv'
  <1>1. /\ stage[c] \in {"ok", "error"}
        /\ stage' = [stage EXCEPT ![c] = "free"]
        /\ job' = [job EXCEPT ![c] = NoJob]
        /\ UNCHANGED <<tries, mutex, open, wire, confirms, taken, gone, calls, cancels, breaks>>
    BY DEF Collect, link
  <1>2. TypeOK'
    BY <1>1 DEF PInv, TypeOK
  <1>3. MutexHeld' /\ JobHeld'
    BY <1>1 DEF PInv, TypeOK, MutexHeld, JobHeld
  <1>4. ASSUME cancels = 0 PROVE Undisturbed'
    BY <1>1, <1>4
    DEF PInv, TypeOK, Undisturbed, ChannelClean, OwnConfirmation, ConfirmedIsTaken
  <1> QED BY <1>1, <1>2, <1>3, <1>4 DEF PInv

(* A cancelled request ends the undisturbed part of the behaviour.           *)
LEMMA CancelStep ==
  ASSUME PInv, NEW c \in Caller, Cancel(c), UNCHANGED calls PROVE PInv'
  <1>1. /\ cancels < MaxCancels /\ cancels' = cancels + 1
        /\ gone' = gone \union {c}
        /\ UNCHANGED <<stage, job, tries, mutex, open, wire, confirms, taken, calls, breaks>>
    BY DEF Cancel, publisher, client, link
  <1>2. cancels' \in 1 .. MaxCancels
    BY <1>1, PublisherAssumption DEF PInv, TypeOK
  <1>3. TypeOK'
    BY <1>1, <1>2 DEF PInv, TypeOK
  <1> QED BY <1>1, <1>2, <1>3 DEF PInv, MutexHeld, JobHeld

-----------------------------------------------------------------------------
(* The steps of the environment. *)

LEMMA BrokerStep ==
  ASSUME PInv, NEW ack \in BOOLEAN, BrokerTakes(ack), breaks' \in 0 .. MaxBreaks,
         UNCHANGED <<gone, calls>>
  PROVE  PInv'
  <1> DEFINE j == Head(wire)
  <1>1. /\ open /\ wire # <<>>
        /\ wire' = Tail(wire)
        /\ confirms' = Append(confirms, [job |-> j, ack |-> ack])
        /\ taken' = IF ack THEN [taken EXCEPT ![j] = @ + 1] ELSE taken
        /\ UNCHANGED <<stage, job, tries, mutex, open, gone, calls, cancels>>
    BY DEF BrokerTakes, client
  <1>2. j \in Job /\ wire' \in Seq(Job)
    BY <1>1 DEF PInv, TypeOK
  <1>3. [job |-> j, ack |-> ack] \in Confirmation
    BY <1>2 DEF Confirmation
  <1>4. confirms' \in Seq(Confirmation)
    BY <1>1, <1>3 DEF PInv, TypeOK
  <1>5. /\ taken' \in [Job -> Nat]
        /\ \A i \in Job : taken[i] > 0 => taken'[i] > 0
        /\ ack => taken'[j] > 0
    <2> HIDE DEF j
    <2> QED BY <1>1, <1>2 DEF PInv, TypeOK
  <1>6. TypeOK'
    BY <1>1, <1>2, <1>4, <1>5 DEF PInv, TypeOK
  <1>7. MutexHeld' /\ JobHeld'
    BY <1>1 DEF PInv, MutexHeld, JobHeld
  <1>8. ASSUME cancels = 0 PROVE Undisturbed'
    <2>1. \A c \in Caller : stage[c] = "await" =>
            wire = <<job[c]>> /\ confirms = <<>>
      BY <1>1, <1>8 DEF PInv, Undisturbed, OwnConfirmation
    <2>2. \E c \in Caller : stage[c] = "await"
      BY <1>1, <1>8 DEF PInv, Undisturbed, ChannelClean
    <2>3. ASSUME NEW c \in Caller, stage[c] = "await"
          PROVE  /\ wire' = <<>>
                 /\ confirms' = <<[job |-> job[c], ack |-> ack]>>
                 /\ j = job[c]
      <3>1. wire = <<job[c]>> /\ confirms = <<>>
        BY <2>1, <2>3
      <3>2. Head(wire) = job[c] /\ Tail(wire) = <<>>
        BY <3>1
      <3> QED BY <1>1, <3>1, <3>2
    <2>4. OwnConfirmation'
      BY <1>1, <1>5, <2>3 DEF OwnConfirmation
    <2>5. ConfirmedIsTaken'
      BY <1>1, <1>5, <1>8 DEF PInv, JobHeld, Undisturbed, ConfirmedIsTaken
    <2> QED BY <1>1, <1>8, <2>2, <2>4, <2>5 DEF PInv, Undisturbed, ChannelClean
  <1> QED BY <1>1, <1>6, <1>7, <1>8 DEF PInv

LEMMA LoseConnectionStep ==
  ASSUME PInv, LoseConnection, UNCHANGED <<gone, calls>> PROVE PInv'
  <1>1. /\ open /\ open' = FALSE
        /\ breaks < MaxBreaks /\ breaks' = breaks + 1
        /\ wire' = <<>>
        /\ confirms' = <<>> \/ (confirms # <<>> /\ confirms' = <<Head(confirms)>>)
        /\ UNCHANGED <<stage, job, tries, mutex, taken, gone, calls, cancels>>
    BY DEF LoseConnection, client
  <1>2. breaks' \in 0 .. MaxBreaks
    BY <1>1, PublisherAssumption DEF PInv, TypeOK
  <1>3. confirms' \in Seq(Confirmation)
    <2>1. CASE confirms' = <<>>
      BY <2>1
    <2>2. CASE confirms # <<>> /\ confirms' = <<Head(confirms)>>
      <3>1. Head(confirms) \in Confirmation
        BY <2>2 DEF PInv, TypeOK
      <3>2. <<Head(confirms)>> \in Seq(Confirmation)
        BY <3>1
      <3> QED BY <2>2, <3>2
    <2> QED BY <1>1, <2>1, <2>2
  <1>4. TypeOK'
    <2>1. <<>> \in Seq(Job)
      OBVIOUS
    <2>2. wire' \in Seq(Job)
      BY <1>1, <2>1
    <2> QED BY <1>1, <1>2, <1>3, <2>2 DEF PInv, TypeOK
  <1>5. MutexHeld' /\ JobHeld'
    BY <1>1 DEF PInv, MutexHeld, JobHeld
  <1>6. ASSUME cancels = 0 PROVE Undisturbed'
    <2>1. ASSUME NEW c \in Caller, stage[c] = "await"
          PROVE  \/ confirms' = <<>>
                 \/ \E a \in BOOLEAN : /\ confirms' = <<[job |-> job[c], ack |-> a]>>
                                       /\ a => taken[job[c]] > 0
      <3>1. CASE confirms = <<>>
        BY <1>1, <3>1
      <3>2. CASE confirms # <<>>
        <4>1. PICK a \in BOOLEAN : /\ confirms = <<[job |-> job[c], ack |-> a]>>
                                   /\ a => taken[job[c]] > 0
          BY <1>1, <1>6, <2>1, <3>2 DEF PInv, Undisturbed, OwnConfirmation
        <4>2. <<Head(confirms)>> = confirms
          BY <4>1
        <4> QED BY <1>1, <4>1, <4>2
      <3> QED BY <3>1, <3>2
    <2>2. OwnConfirmation'
      BY <1>1, <2>1 DEF OwnConfirmation
    <2> QED BY <1>1, <1>6, <2>2 DEF PInv, Undisturbed, ChannelClean, ConfirmedIsTaken
  <1> QED BY <1>1, <1>4, <1>5, <1>6 DEF PInv

-----------------------------------------------------------------------------
LEMMA CallerStep ==
  ASSUME PInv, NEW c \in Caller, Work(c) \/ Collect(c), UNCHANGED <<gone, calls>>
  PROVE  PInv'
  BY LockStep, SendStep, SendFailsStep, ReadConfirmationStep, GiveUpStep, CollectStep DEF Work

LEMMA EnvironmentStep ==
  ASSUME PInv, Environment, UNCHANGED <<gone, calls>> PROVE PInv'
  <1>1. CASE BrokerStores
    BY <1>1, BrokerStep DEF BrokerStores, PInv, TypeOK
  <1>2. CASE BrokerRefuses
    <2>1. breaks' \in 0 .. MaxBreaks
      BY <1>2, PublisherAssumption DEF BrokerRefuses, PInv, TypeOK
    <2> QED BY <1>2, <2>1, BrokerStep DEF BrokerRefuses
  <1>3. CASE LoseConnection
    BY <1>3, LoseConnectionStep
  <1> QED BY <1>1, <1>2, <1>3 DEF Environment

LEMMA NextInv == PInv /\ [Next]_vars => PInv'
  <1> SUFFICES ASSUME PInv, [Next]_vars PROVE PInv'
    OBVIOUS
  <1>1. CASE UNCHANGED vars
    BY <1>1 DEF vars, publisher, client, link, PInv, TypeOK, MutexHeld, JobHeld,
                Undisturbed, ChannelClean, OwnConfirmation, ConfirmedIsTaken
  <1>2. ASSUME NEW c \in Caller, NEW j \in Job, Call(c, j) PROVE PInv'
    <2>1. gone' \subseteq gone /\ calls' \in 0 .. MaxCalls
      BY <1>2, PublisherAssumption DEF Call, PInv, TypeOK
    <2> QED BY <1>2, <2>1, PublishStep DEF Call
  <1> QED BY <1>1, <1>2, CallerStep, EnvironmentStep, CancelStep DEF Next

LEMMA Invariance == Spec => []PInv
  BY InitInv, NextInv, PTL DEF Spec

(* Every variable keeps its type; in particular publish fails at most once  *)
(* before it gives up.                                                      *)
THEOREM TypeCorrect == Spec => []TypeOK
  BY Invariance, PTL DEF PInv

(* The mutex is held exactly by the caller inside publish.                   *)
THEOREM PublishIsExclusive == Spec => []MutexHeld
  BY Invariance, PTL DEF PInv

(* As long as no request was cancelled, a publication reported as confirmed  *)
(* is on the broker, however often the connection dies or the broker refuses. *)
THEOREM ConfirmationsAreOwn == Spec => []ConfirmedUnlessCancelled
  <1>1. PInv => ConfirmedUnlessCancelled
    BY DEF PInv, Undisturbed, ConfirmedUnlessCancelled
  <1> QED BY <1>1, Invariance, PTL

-----------------------------------------------------------------------------
(* For the modules that publish through this one: the jobs that callers      *)
(* publish, that are on the wire or on the broker.  Only Publish adds one.    *)
PublishedJobs == ({job[c] : c \in Caller} \ {NoJob})
                   \union {wire[i] : i \in 1 .. Len(wire)}
                   \union {j \in Job : taken[j] > 0}

LEMMA PublishAdds ==
  ASSUME PInv, NEW c \in Caller, NEW j \in Job, Publish(c, j)
  PROVE  PublishedJobs' \subseteq PublishedJobs \union {j}
  <1>1. /\ \A b \in Caller : job'[b] = IF b = c THEN j ELSE job[b]
        /\ UNCHANGED <<wire, taken>>
    BY DEF Publish, link, PInv, TypeOK
  <1> QED BY <1>1 DEF PublishedJobs

LEMMA WireAdds ==
  ASSUME wire \in Seq(Job), NEW j \in Job, wire' \in {Append(wire, j), Append(<<>>, j)},
         j \in PublishedJobs, UNCHANGED <<job, taken>>
  PROVE  PublishedJobs' \subseteq PublishedJobs
  <1>1. \A i \in 1 .. Len(wire') : wire'[i] = j \/ \E k \in 1 .. Len(wire) : wire'[i] = wire[k]
    <2>1. CASE wire' = Append(<<>>, j)
      BY <2>1
    <2>2. CASE wire' = Append(wire, j)
      BY <2>2
    <2> QED BY <2>1, <2>2
  <1> QED BY <1>1 DEF PublishedJobs

LEMMA PublisherAdds ==
  ASSUME PInv, (\E c \in Caller : Work(c) \/ Collect(c)) \/ Environment
  PROVE  PublishedJobs' \subseteq PublishedJobs
  <1>1. CASE \E c \in Caller : Lock(c) \/ ReadConfirmation(c) \/ SeeClosedChannel(c) \/ GiveUp(c)
    <2>1. UNCHANGED <<job, wire, taken>>
      BY <1>1 DEF Lock, ReadConfirmation, SeeClosedChannel, GiveUp, link
    <2> QED BY <2>1 DEF PublishedJobs
  <1>2. ASSUME NEW c \in Caller, Collect(c) PROVE PublishedJobs' \subseteq PublishedJobs
    <2>1. /\ \A b \in Caller : job'[b] = IF b = c THEN NoJob ELSE job[b]
          /\ UNCHANGED <<wire, taken>>
      BY <1>2 DEF Collect, link, PInv, TypeOK
    <2> QED BY <2>1 DEF PublishedJobs
  <1>3. ASSUME NEW c \in Caller, Send(c) PROVE PublishedJobs' \subseteq PublishedJobs
    <2>1. job[c] \in Job /\ job[c] \in PublishedJobs
      BY <1>3, PublisherAssumption DEF Send, PInv, JobHeld, PublishedJobs
    <2> QED BY <1>3, <2>1, WireAdds DEF Send, PInv, TypeOK
  <1>4. CASE (\E c \in Caller : SendFails(c)) \/ LoseConnection
    <2>1. wire' = <<>> /\ UNCHANGED <<job, taken>>
      BY <1>4 DEF SendFails, LoseConnection, client
    <2>2. 1 .. Len(wire') = {}
      BY <2>1
    <2> QED BY <2>1, <2>2 DEF PublishedJobs
  <1>5. ASSUME NEW ack \in BOOLEAN, BrokerTakes(ack) PROVE PublishedJobs' \subseteq PublishedJobs
    <2>1. wire # <<>> /\ wire' = Tail(wire) /\ wire \in Seq(Job) /\ job' = job
      BY <1>5 DEF BrokerTakes, client, PInv, TypeOK
    <2>2. \A i \in 1 .. Len(wire') : wire'[i] = wire[i + 1] /\ i + 1 \in 1 .. Len(wire)
      BY <2>1
    <2>3. Head(wire) = wire[1] /\ 1 \in 1 .. Len(wire)
      BY <2>1
    <2>4. \A j \in Job : taken'[j] > 0 => taken[j] > 0 \/ j = Head(wire)
      BY <1>5 DEF BrokerTakes, PInv, TypeOK
    <2> QED BY <2>1, <2>2, <2>3, <2>4 DEF PublishedJobs
  <1> QED BY <1>1, <1>2, <1>3, <1>4, <1>5 DEF Work, Environment, BrokerStores, BrokerRefuses

-----------------------------------------------------------------------------
(* Nobody waits in vain.  Publications and confirmations move between wire   *)
(* and confirms; only the one who awaits takes a confirmation away, and only *)
(* a dead connection takes both.                                             *)

LEMMA AppendedIsThere ==
  ASSUME NEW S, NEW s \in Seq(S), NEW x \in S PROVE Append(s, x) # <<>>
  <1>1. Len(Append(s, x)) = Len(s) + 1 /\ Len(s) \in Nat
    OBVIOUS
  <1>2. Len(<<>>) = 0
    OBVIOUS
  <1> QED BY <1>1, <1>2

(* The steps that leave the channel alone and bring nobody to wait.          *)
LEMMA RestingChannel ==
  ASSUME AnswerComes, UNCHANGED <<open, wire, confirms>>,
         \A b \in Caller : stage'[b] = "await" => stage[b] = "await"
  PROVE  AnswerComes'
  BY DEF AnswerComes

(* After a step of the one who waits, nobody does.                           *)
LEMMA FinishFrees ==
  ASSUME PInv, NEW c \in Caller, NEW result \in {"ok", "error"}, Finish(c, result),
         stage[c] \in {"send", "await"}
  PROVE  AnswerComes'
  <1>1. \A b \in Caller : stage'[b] # "await"
    BY SenderIsAlone DEF Finish, PInv, TypeOK
  <1> QED BY <1>1 DEF AnswerComes

LEMMA CallerAnswer ==
  ASSUME PInv, AnswerComes, NEW c \in Caller, Work(c) \/ Collect(c) \/ \E j \in Job : Publish(c, j)
  PROVE  AnswerComes'
  <1>1. CASE Lock(c) \/ Collect(c) \/ \E j \in Job : Publish(c, j)
    <2>1. UNCHANGED <<open, wire, confirms>>
      BY <1>1 DEF Lock, Collect, Publish, link
    <2>2. \A b \in Caller : stage'[b] = "await" => stage[b] = "await"
      BY <1>1 DEF Lock, Collect, Publish, PInv, TypeOK
    <2> QED BY <2>1, <2>2, RestingChannel
  <1>2. CASE Send(c)
    <2>1. job[c] \in Job
      BY <1>2 DEF Send, PInv, JobHeld
    <2>2. wire' # <<>>
      <3>1. wire' = Append(wire, job[c]) \/ wire' = Append(<<>>, job[c])
        BY <1>2 DEF Send
      <3>2. wire \in Seq(Job) /\ <<>> \in Seq(Job)
        BY DEF PInv, TypeOK
      <3> QED BY <2>1, <3>1, <3>2, AppendedIsThere
    <2> QED BY <2>2 DEF AnswerComes
  <1>3. CASE SendFails(c)
    BY <1>3 DEF SendFails, AnswerComes
  <1>4. CASE ReadConfirmation(c)
    BY <1>4, FinishFrees DEF ReadConfirmation
  <1>5. CASE SeeClosedChannel(c) \/ GiveUp(c)
    BY <1>5, FinishFrees DEF SeeClosedChannel, GiveUp
  <1> QED BY <1>1, <1>2, <1>3, <1>4, <1>5 DEF Work

LEMMA EnvironmentAnswer ==
  ASSUME PInv, AnswerComes, Environment
  PROVE  AnswerComes'
  <1>1. ASSUME NEW ack \in BOOLEAN, BrokerTakes(ack) PROVE AnswerComes'
    <2>1. Head(wire) \in Job
      BY <1>1 DEF BrokerTakes, PInv, TypeOK
    <2>2. [job |-> Head(wire), ack |-> ack] \in Confirmation
      BY <2>1 DEF Confirmation
    <2>3. confirms' # <<>>
      BY <1>1, <2>2, AppendedIsThere DEF BrokerTakes, PInv, TypeOK
    <2> QED BY <2>3 DEF AnswerComes
  <1>2. CASE LoseConnection
    BY <1>2 DEF LoseConnection, AnswerComes
  <1> QED BY <1>1, <1>2 DEF Environment, BrokerStores, BrokerRefuses

LEMMA AnswerStep == PInv /\ AnswerComes /\ [Next]_vars => AnswerComes'
  <1> SUFFICES ASSUME PInv, AnswerComes, [Next]_vars PROVE AnswerComes'
    OBVIOUS
  <1>1. CASE UNCHANGED publisher
    BY <1>1 DEF publisher, client, link, AnswerComes
  <1>2. ASSUME NEW c \in Caller, NEW j \in Job, Call(c, j) PROVE AnswerComes'
    BY <1>2, CallerAnswer DEF Call
  <1>3. ASSUME NEW c \in Caller, Cancel(c) PROVE AnswerComes'
    BY <1>1, <1>3 DEF Cancel
  <1> QED BY <1>1, <1>2, <1>3, CallerAnswer, EnvironmentAnswer DEF Next, vars

(* The mutex belongs to somebody who will give it back.                      *)
LEMMA LockReleased == ASSUME PInv PROVE LockIsReleased
  BY DEF PInv, TypeOK, MutexHeld, LockIsReleased

(* The queue behind the publisher's mutex never stands still for good: who   *)
(* awaits has its answer coming, and who is locked out waits for such a one. *)
(* What is left to fairness is that the broker and the goroutines move on.   *)
THEOREM NobodyIsStuck == Spec => []NobodyWaitsInVain
  <1>1. Init => AnswerComes
    BY DEF Init, AnswerComes
  <1> QED BY <1>1, Invariance, AnswerStep, LockReleased, PTL DEF Spec, NobodyWaitsInVain

=============================================================================
