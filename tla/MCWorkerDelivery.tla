-------------------------- MODULE MCWorkerDelivery --------------------------
(* Instances of WorkerDelivery for TLC. *)
EXTENDS WorkerDelivery, TLC

CONSTANTS m1, m2, w1, w2, t1, t2

TwoProcesses == (t1 :> w1) @@ (t2 :> w2)
OneProcess   == (t1 :> w1) @@ (t2 :> w1)


=============================================================================
