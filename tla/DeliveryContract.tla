-------------------------- MODULE DeliveryContract --------------------------
(***************************************************************************)
(* What the refresh pipeline promises about one queue of jobs, whatever     *)
(* happens to the processes that serve it: the broker forgets a job only    *)
(* after an outcome of that job exists outside the Worker, and a job it has *)
(* forgotten never comes back.  A job may be worked on any number of times, *)
(* also after it was settled, so outcomes accumulate.                       *)
(***************************************************************************)

CONSTANTS Msg,      \* the jobs published to the queue
          Outcome   \* what can become of a job outside the Worker

VARIABLES settled,  \* jobs the broker no longer holds
          outcome   \* outcome[m]: what has become of m so far

vars == <<settled, outcome>>

TypeOK == /\ settled \in SUBSET Msg
          /\ outcome \in [Msg -> SUBSET Outcome]

Init == /\ settled = {}
        /\ outcome = [m \in Msg |-> {}]

(* Some attempt at job m has the effect o. *)
Record(m, o) == /\ outcome' = [outcome EXCEPT ![m] = @ \union {o}]
                /\ UNCHANGED settled

(* The broker removes job m for good. *)
Settle(m) == /\ m \notin settled
             /\ outcome[m] # {}
             /\ settled' = settled \union {m}
             /\ UNCHANGED outcome

Next == \E m \in Msg : Settle(m) \/ \E o \in Outcome : Record(m, o)

Spec == Init /\ [][Next]_vars

=============================================================================
