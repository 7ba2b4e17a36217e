------------------------------ MODULE KeepAlive ------------------------------
(***************************************************************************)
(* One I/O object: its handler count and the references it holds on        *)
(* itself, against the number of operations that are in flight.            *)
(***************************************************************************)
EXTENDS HandlerCount

CONSTANT MaxInFlight    \* bound on simultaneous operations of one object

ASSUME MaxInFlightAssumption == MaxInFlight \in Nat

VARIABLES
    handler_count_,     \* base::handler_count_
    selfRefs,           \* references the object holds on itself
    inFlight            \* operations started and not yet resolved

vars == <<handler_count_, selfRefs, inFlight>>

TypeOK ==
    /\ handler_count_ \in CountType
    /\ selfRefs \in Nat
    /\ inFlight \in Nat

\* The object is allocated zeroed (p3::alloc_object uses ecalloc).
Init ==
    /\ handler_count_ = 0
    /\ selfRefs = 0
    /\ inFlight = 0

\* PHP_ASIO_INC_HANDLER_COUNT, when an operation starts.
Begin ==
    /\ inFlight < MaxInFlight
    /\ handler_count_' = CountInc(handler_count_)
    /\ selfRefs' = selfRefs + RefGained(handler_count_)
    /\ inFlight' = inFlight + 1

\* PHP_ASIO_DEC_HANDLER_COUNT, or the same two lines at the end of
\* future::resolve.
End ==
    /\ inFlight > 0
    /\ handler_count_' = CountDec(handler_count_)
    /\ selfRefs' = selfRefs - RefLost(handler_count_)
    /\ inFlight' = inFlight - 1

Next == Begin \/ End

Spec == Init /\ [][Next]_vars

-----------------------------------------------------------------------------
(***************************************************************************)
(* An object is kept alive by its own operations exactly while it has      *)
(* some, even when so many are in flight that the 16-bit count has wrapped *)
(* round to 0: the object must not die under a pending operation, nor keep *)
(* itself alive for ever (PHP_ASIO_INC_HANDLER_COUNT, future::resolve).    *)
(***************************************************************************)
AliveWhileInFlight == (selfRefs > 0) <=> (inFlight > 0)

(***************************************************************************)
(* The strengthening that is inductive: the count, taken together with the *)
(* number of self references, is never off, although the count alone is.   *)
(***************************************************************************)
CountBalanced == Balanced(handler_count_, inFlight, selfRefs)

IInv == TypeOK /\ CountBalanced
=============================================================================
