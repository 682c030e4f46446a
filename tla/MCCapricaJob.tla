---------------------------- MODULE MCCapricaJob ----------------------------
(* CapricaJob with model values for the threads; the cfg files choose how   *)
(* many await, how many poll, and whether run() may throw.                  *)
EXTENDS CapricaJob, TLC

CONSTANTS a1, a2, a3, p1, p2

ThreadSymmetry == Permutations(Awaiter) \cup Permutations(Poller)
=============================================================================
