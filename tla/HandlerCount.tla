---------------------------- MODULE HandlerCount ----------------------------
(***************************************************************************)
(* The reference an I/O object keeps on itself while operations are in     *)
(* flight.                                                                 *)
(*                                                                         *)
(* Every I/O object (timer, signal, resolver, socket, acceptor, stream     *)
(* descriptor, strand) counts its in-flight operations in an unsigned      *)
(* short.  The operation that moves the count to 1 takes one reference on  *)
(* the object's own Zend object, the one that moves it to 0 drops one.     *)
(* This module holds the arithmetic alone, so that the state machines of   *)
(* KeepAlive and ObjectLifetime share it.                                  *)
(***************************************************************************)
EXTENDS Integers

CONSTANT Modulus    \* number of values of HANDLER_COUNT_TYPE: 2^16

ASSUME ModulusAssumption == Modulus \in Nat /\ Modulus >= 2

\* The values the counter can hold.
CountType == 0..(Modulus - 1)

\* handler_count_inc and handler_count_dec: unsigned, so they wrap.
CountInc(count) == (count + 1) % Modulus
CountDec(count) == (count - 1) % Modulus

\* Faulty variant of RefLost: the object is let go one operation too early.
RefLostEarly(count) == IF CountDec(count) = 1 THEN 1 ELSE 0

\* How many references one more (one less) operation adds to (removes from)
\* the object: the tests of PHP_ASIO_INC_HANDLER_COUNT and of resolve.
RefGained(count) == IF CountInc(count) = 1 THEN 1 ELSE 0
RefLost(count)   == IF CountDec(count) = 0 THEN 1 ELSE 0

(***************************************************************************)
(* The relation between the counter, the number of operations really in    *)
(* flight and the references the object holds on itself: one reference     *)
(* for every Modulus operations, the last group possibly incomplete.       *)
(***************************************************************************)
Balanced(count, inFlight, selfRefs) ==
    IF count = 0 THEN inFlight = Modulus * selfRefs
                 ELSE inFlight = Modulus * (selfRefs - 1) + count
=============================================================================
