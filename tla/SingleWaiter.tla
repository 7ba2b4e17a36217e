---------------------------- MODULE SingleWaiter ----------------------------
(***************************************************************************)
(* What a Future promises to the coroutines that yield it, seen from       *)
(* outside: it remembers one waiter, the last to yield it before it is     *)
(* resolved, and its resolution wakes that waiter and no other.  A waiter  *)
(* that another replaces is never woken.                                   *)
(***************************************************************************)
CONSTANTS Futures, Generators, None

VARIABLES
    future,     \* "none", "open" while it may be waited for, "resolved"
    waiter,     \* the coroutine an open Future is going to wake
    asleep      \* the coroutines that wait for some Future

vars == <<future, waiter, asleep>>

TypeOK ==
    /\ future \in [Futures -> {"none", "open", "resolved"}]
    /\ waiter \in [Futures -> Generators \cup {None}]
    /\ asleep \in SUBSET Generators

Init ==
    /\ future = [f \in Futures |-> "none"]
    /\ waiter = [f \in Futures |-> None]
    /\ asleep = {}

\* An asynchronous operation starts.
Open(f) ==
    /\ future[f] = "none"
    /\ future' = [future EXCEPT ![f] = "open"]
    /\ UNCHANGED <<waiter, asleep>>

\* Coroutine g yields f; whoever waited for f before is given up.
Wait(g, f) ==
    /\ g \notin asleep
    /\ future[f] = "open"
    /\ asleep' = (asleep \ {waiter[f]}) \cup {g}
    /\ waiter' = [waiter EXCEPT ![f] = g]
    /\ UNCHANGED future

\* f is resolved and wakes its waiter, if it has one.
Resolve(f) ==
    /\ future[f] = "open"
    /\ future' = [future EXCEPT ![f] = "resolved"]
    /\ waiter' = [waiter EXCEPT ![f] = None]
    /\ asleep' = asleep \ {waiter[f]}

Next ==
    \/ \E f \in Futures : Open(f) \/ Resolve(f)
    \/ \E g \in Generators, f \in Futures : Wait(g, f)

Spec == Init /\ [][Next]_vars

=============================================================================
