---------------------------- MODULE MCObjectPool ----------------------------
(* ObjectPool for TLC. *)
EXTENDS ObjectPool, TLC

ThreadSymmetry == Permutations(Threads)

=============================================================================
