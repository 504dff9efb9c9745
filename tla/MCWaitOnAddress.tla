-------------------------- MODULE MCWaitOnAddress --------------------------
(* WaitOnAddress and its queues on a small instance. *)
EXTENDS WaitQueues, TLC

CONSTANTS a1, a2, b1

\* Both addresses fall into one bucket, so a list holds waiters of both.
OneBucket == (a1 :> b1) @@ (a2 :> b1)

ThreadSymmetry == Permutations(Thread)
=============================================================================
