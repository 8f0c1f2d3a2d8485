---------------------------- MODULE MCWorkerLoop ----------------------------
(* Two request slots for up to three tasks, up to three ticks with         *)
(* requests in flight, and two throws.                                     *)
EXTENDS WorkerLoop
=============================================================================
