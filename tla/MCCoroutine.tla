---------------------------- MODULE MCCoroutine ----------------------------
(***************************************************************************)
(* Symmetry for the runs of Coroutine that check no liveness.              *)
(***************************************************************************)
EXTENDS Coroutine, TLC

Symmetry == Permutations(Futures) \cup Permutations(Generators) \cup Permutations(Posts)
=============================================================================
