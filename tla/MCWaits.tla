------------------------------ MODULE MCWaits -------------------------------
(***************************************************************************)
(* A timer, a signal set and a resolver, and waits that may be on any of   *)
(* them.  add and remove are called with arguments that are all accepted,  *)
(* that fail at the end, and that fail at once.                            *)
(***************************************************************************)
EXTENDS Waits

MCArguments == {<<1>>, <<2>>, <<1, Invalid>>, <<Invalid, 2>>, <<Text, 1, 2>>}
=============================================================================
