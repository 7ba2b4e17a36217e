-------------------------- MODULE MCObjectLifetime --------------------------
(***************************************************************************)
(* An acceptor, a socket and two operations, with a counter so             *)
(* narrow that it wraps: two operations on one object bring it back to 0.  *)
(***************************************************************************)
EXTENDS ObjectLifetime, TLC

Symmetry == Permutations(Futures) \cup Permutations(Objects \ Acceptors)
=============================================================================
