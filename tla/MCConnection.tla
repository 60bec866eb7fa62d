---------------------------- MODULE MCConnection ----------------------------
(* Instances of Connection for TLC: threads are interchangeable. *)
EXTENDS Connection, TLC

ThreadSymmetry == Permutations(Thread)
=============================================================================
