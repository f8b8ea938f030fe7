---------------------------- MODULE MCWorkerPool ----------------------------
(* Small instances of WorkerPool for TLC. *)
EXTENDS WorkerPool, TLC

CONSTANTS g1, g2, s1, s2

OneServer  == [g \in {g1, g2} |-> s1]
TwoServers == (g1 :> s1) @@ (g2 :> s2)
=============================================================================
