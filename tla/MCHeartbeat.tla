---------------------------- MODULE MCHeartbeat -----------------------------
(* Heartbeat for TLC: the threads of the application are interchangeable. *)
EXTENDS Heartbeat, TLC

Symmetry == Permutations(Threads)
=============================================================================
