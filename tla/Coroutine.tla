------------------------------ MODULE Coroutine ------------------------------
(***************************************************************************)
(* Coroutines: PHP generators that yield Futures and are resumed when the  *)
(* Futures are resolved.                                                   *)
(*                                                                         *)
(* A handler of the event loop is a posted callback or the resolution of   *)
(* a Future.  It runs the script's callback; if that returns a generator,  *)
(* the generator runs up to its first yield.  The resolution of a Future   *)
(* then resumes the generator that has yielded that Future.  All PHP code  *)
(* may start operations, post callbacks, run the loop again (Service::poll *)
(* and its kin) or run a callback on the spot (Service::dispatch), so      *)
(* handlers nest and are left in reverse order: stack holds those that are *)
(* running.  A transition between two pieces of PHP code is atomic.        *)
(*                                                                         *)
(* Scripts are assumed to return a new generator each time and to leave    *)
(* resuming it to the extension.                                           *)
(***************************************************************************)
EXTENDS Integers, SequencesExt

CONSTANTS
    Futures,        \* asynchronous operations
    Posts,          \* callbacks given to Service::post and dispatch
    Generators,     \* generators returned by callbacks
    ErrorCodes,     \* results of operations, 0 for success
    Other,          \* an object that is yielded and is not a Future
    None,           \* a null pointer, or no value
    MaxNesting      \* bound on the handlers running inside each other

Handlers == Futures \cup Posts

ASSUME CoroutineAssumption ==
    /\ Futures \cap Posts = {}
    /\ {None, Other} \cap (Futures \cup Generators) = {}
    /\ None # Other
    /\ 0 \in ErrorCodes
    /\ MaxNesting \in Nat

VARIABLES
    phase,          \* how far each handler has come
    stack,          \* the handlers that are running, innermost last
    runner,         \* the generator a handler is running, if any
    ec,             \* the error code an operation completes with
    generator_,     \* future::generator_; yield_ says it is set
    gstate,         \* the state of each generator
    current,        \* generator_current: the value it last yielded
    last_error_,    \* future::last_error_
    late,           \* generators that yielded a Future resolved before
    displaced,      \* generators whose place at a Future another one took
    outdated        \* handlers inside which another coroutine was resumed

handlers == <<phase, stack, runner, ec>>
vars == <<handlers, generator_, gstate, current, last_error_, late, displaced, outdated>>

\* Phases in which resolve has still to look at yield_.
Open == {"pending", "callback", "starting", "returned"}

Phases == {"none", "resuming", "done"} \cup Open

TypeOK ==
    /\ phase \in [Handlers -> Phases]
    /\ stack \in Seq(Handlers)
    /\ runner \in [Handlers -> Generators \cup {None}]
    /\ ec \in [Futures -> ErrorCodes]
    /\ generator_ \in [Futures -> Generators \cup {None}]
    /\ gstate \in [Generators -> {"fresh", "running", "suspended", "closed"}]
    /\ current \in [Generators -> Futures \cup {None, Other}]
    /\ last_error_ \in ErrorCodes
    /\ late \in SUBSET Generators
    /\ displaced \in SUBSET Generators
    /\ outdated \in SUBSET Handlers

Init ==
    /\ phase = [h \in Handlers |-> "none"]
    /\ stack = <<>>
    /\ runner = [h \in Handlers |-> None]
    /\ ec = [f \in Futures |-> 0]
    /\ generator_ = [f \in Futures |-> None]
    /\ gstate = [g \in Generators |-> "fresh"]
    /\ current = [g \in Generators |-> None]
    /\ last_error_ = 0
    /\ late = {}
    /\ displaced = {}
    /\ outdated = {}

-----------------------------------------------------------------------------
\* PHP code is running: the main script, a callback or a generator.
InPhp == \A h \in Handlers : phase[h] # "returned"

\* An asynchronous operation starts, or a callback is posted.
Start(h) ==
    /\ InPhp
    /\ phase[h] = "none"
    /\ phase' = [phase EXCEPT ![h] = "pending"]
    /\ UNCHANGED <<stack, runner, ec, generator_, gstate, current, last_error_,
                   late, displaced, outdated>>

\* The event loop invokes a handler; an operation has completed with error e.
\* Without a callback the handler goes on as if it had returned at once.
Dispatch(h, e) ==
    /\ InPhp
    /\ phase[h] = "pending"
    /\ Len(stack) < MaxNesting
    /\ phase' = [phase EXCEPT ![h] = "callback"]
    /\ stack' = Append(stack, h)
    /\ ec' = [f \in Futures |-> IF f = h THEN e ELSE ec[f]]
    /\ UNCHANGED <<runner, generator_, gstate, current, last_error_, late, displaced, outdated>>

-----------------------------------------------------------------------------
\* The callback of the innermost handler returns something that is no
\* generator.
CallbackReturns ==
    /\ stack # <<>>
    /\ phase[Last(stack)] = "callback"
    /\ phase' = [phase EXCEPT ![Last(stack)] = "returned"]
    /\ UNCHANGED <<stack, runner, ec, generator_, gstate, current, last_error_,
                   late, displaced, outdated>>

\* It returns generator g, which coroutine(retval) starts.
CallbackReturnsGenerator(g) ==
    /\ stack # <<>>
    /\ phase[Last(stack)] = "callback"
    /\ gstate[g] = "fresh"
    /\ phase' = [phase EXCEPT ![Last(stack)] = "starting"]
    /\ runner' = [runner EXCEPT ![Last(stack)] = g]
    /\ gstate' = [gstate EXCEPT ![g] = "running"]
    /\ UNCHANGED <<stack, ec, generator_, current, last_error_, late, displaced, outdated>>

-----------------------------------------------------------------------------
\* future::coroutine(g), when the generators are in states gs with current
\* values cur: a Future that g has yielded learns of g; a generator that
\* yielded anything else is released.
Registers(g, gs, cur) == gs[g] # "closed" /\ cur[g] \in Futures

\* Faulty variant of Adopt: the return after the assignments is missing.
AdoptNoReturn(g, gs, cur) ==
    /\ generator_' = IF Registers(g, gs, cur)
                     THEN [generator_ EXCEPT ![cur[g]] = g] ELSE generator_
    /\ gstate' = [gs EXCEPT ![g] = "closed"]

\* Faulty variant of Adopt: a Future keeps the first generator it learns of.
AdoptOnlyIfFree(g, gs, cur) ==
    /\ generator_' = IF Registers(g, gs, cur) /\ generator_[cur[g]] = None
                     THEN [generator_ EXCEPT ![cur[g]] = g] ELSE generator_
    /\ gstate' = IF Registers(g, gs, cur) THEN gs ELSE [gs EXCEPT ![g] = "closed"]

Adopt(g, gs, cur) ==
    /\ generator_' = IF Registers(g, gs, cur)
                     THEN [generator_ EXCEPT ![cur[g]] = g] ELSE generator_
    /\ gstate' = IF Registers(g, gs, cur) THEN gs ELSE [gs EXCEPT ![g] = "closed"]

\* The innermost handler is through.
Leave ==
    /\ phase' = [phase EXCEPT ![Last(stack)] = "done"]
    /\ runner' = [runner EXCEPT ![Last(stack)] = None]
    /\ stack' = Front(stack)
    /\ outdated' = outdated \ {Last(stack)}
    /\ UNCHANGED ec

\* What resolve passes to coroutine() once the generator has stopped: the one
\* the handler has started, or after generator_send the one the Future knows
\* by then.
Stopped(h) == IF phase[h] = "starting" THEN runner[h] ELSE generator_[h]

\* Generators that lose their place at v: those that wait for v, and the one
\* that v has resumed and that is still running.
PushedOut(v) ==
    {k \in Generators : \/ gstate[k] = "suspended" /\ current[k] = v
                        \/ phase[v] = "resuming" /\ runner[v] = k}

\* The generator that the innermost handler runs stops, yielding v or, for
\* s = "closed", returning.
GeneratorStops(v, s) ==
    /\ stack # <<>>
    /\ phase[Last(stack)] \in {"starting", "resuming"}
    /\ LET h == Last(stack)
           g == runner[h]
           gs == [gstate EXCEPT ![g] = s]
           cur == [current EXCEPT ![g] = v]
       IN
       /\ current' = cur
       /\ Adopt(Stopped(h), gs, cur)
       /\ \/ /\ phase[h] = "starting"
             /\ phase' = [phase EXCEPT ![h] = "returned"]
             /\ runner' = [runner EXCEPT ![h] = None]
             /\ UNCHANGED <<stack, ec, outdated>>
          \/ /\ phase[h] = "resuming"
             /\ Leave
       /\ late' = IF v \in Futures /\ phase[v] \notin Open
                  THEN late \cup {g} ELSE late \ {g}
       /\ displaced' = IF v \in Futures /\ Stopped(h) = g
                       THEN displaced \cup (PushedOut(v) \ {g}) ELSE displaced
    /\ UNCHANGED last_error_

GeneratorYields(v) ==
    /\ v \in Futures => phase[v] # "none"
    /\ GeneratorStops(v, "suspended")

GeneratorReturns == GeneratorStops(None, "closed")

-----------------------------------------------------------------------------
\* Faulty variant of ResumeGenerator: only a failure is published.
ResumeGeneratorErrorOnly ==
    LET f == Last(stack) IN
    /\ stack # <<>>
    /\ phase[f] = "returned"
    /\ f \in Futures
    /\ generator_[f] # None
    /\ last_error_' = IF ec[f] = 0 THEN last_error_ ELSE ec[f]
    /\ phase' = [phase EXCEPT ![f] = "resuming"]
    /\ runner' = [runner EXCEPT ![f] = generator_[f]]
    /\ gstate' = [gstate EXCEPT ![generator_[f]] = "running"]
    /\ outdated' = outdated \cup {stack[i] : i \in 1..Len(stack) - 1}
    /\ UNCHANGED <<stack, ec, generator_, current, late, displaced>>

\* resolve looks at yield_: with a generator, it publishes the error code and
\* sends the result (SendTargetAwaits: the generator can take it); otherwise
\* the handler is through.
ResumeGenerator ==
    LET f == Last(stack) IN
    /\ stack # <<>>
    /\ phase[f] = "returned"
    /\ f \in Futures
    /\ generator_[f] # None
    /\ last_error_' = ec[f]
    /\ phase' = [phase EXCEPT ![f] = "resuming"]
    /\ runner' = [runner EXCEPT ![f] = generator_[f]]
    /\ gstate' = [gstate EXCEPT ![generator_[f]] = "running"]
    /\ outdated' = outdated \cup {stack[i] : i \in 1..Len(stack) - 1}
    /\ UNCHANGED <<stack, ec, generator_, current, late, displaced>>

\* Faulty variant of NothingToResume: yield_ is not consulted.
NothingToResumeUnchecked ==
    /\ stack # <<>>
    /\ phase[Last(stack)] = "returned"
    /\ Leave
    /\ UNCHANGED <<generator_, gstate, current, last_error_, late, displaced>>

NothingToResume ==
    /\ stack # <<>>
    /\ phase[Last(stack)] = "returned"
    /\ Last(stack) \in Futures => generator_[Last(stack)] = None
    /\ Leave
    /\ UNCHANGED <<generator_, gstate, current, last_error_, late, displaced>>

-----------------------------------------------------------------------------
\* A step of the code that is running: a callback or a generator ends or
\* yields, or the extension goes on.
Proceed ==
    \/ CallbackReturns
    \/ \E g \in Generators : CallbackReturnsGenerator(g)
    \/ \E v \in Futures \cup {Other} : GeneratorYields(v)
    \/ GeneratorReturns
    \/ ResumeGenerator
    \/ NothingToResume

DispatchSome(h) == \E e \in ErrorCodes : Dispatch(h, e)

Next ==
    \/ \E h \in Handlers : Start(h) \/ DispatchSome(h)
    \/ Proceed

Spec == Init /\ [][Next]_vars

\* PHP code comes to an end; an operation that was started completes, and the
\* loop gets round to every handler.
Fairness ==
    /\ WF_vars(Proceed)
    /\ \A h \in Handlers : WF_vars(DispatchSome(h))

FairSpec == Spec /\ Fairness

-----------------------------------------------------------------------------
\* g has yielded f and has not been resumed since.
Awaits(g, f) == gstate[g] = "suspended" /\ current[g] = f

(***************************************************************************)
(* future::resolve never sends to a generator that is running, finished or *)
(* suspended on something else: whichever generator an unresolved Future   *)
(* knows, that generator is suspended on that very Future.                 *)
(***************************************************************************)
SendTargetAwaits ==
    \A f \in Futures : phase[f] \in Open /\ generator_[f] # None =>
        Awaits(generator_[f], f)

\* The inductive invariant behind SendTargetAwaits.  The stack holds exactly
\* the handlers that are running, and those past their callback run a
\* generator; while a Future has its coroutine running, the generator it knows
\* is that one or, after a nested handler, another that awaits the Future.
StackHoldsRunning ==
    /\ \A h \in Handlers : (phase[h] \in {"callback", "starting", "returned", "resuming"})
                              <=> \E i \in 1..Len(stack) : stack[i] = h
    /\ \A h \in Handlers : runner[h] # None <=> phase[h] \in {"starting", "resuming"}

ResumedIsKnown ==
    \A f \in Handlers : phase[f] = "resuming" =>
        /\ f \in Futures
        /\ generator_[f] # None
        /\ generator_[f] = runner[f] \/ Awaits(generator_[f], f)

\* Generators run where the stack says: the one a handler has started or resumed
\* is running until that handler goes on, and in no other handler.
RunnersNest ==
    /\ \A i, j \in 1..Len(stack) : i # j => stack[i] # stack[j]
    /\ \A h \in Handlers : runner[h] # None =>
          /\ gstate[runner[h]] = "running"
          /\ \E i \in 1..Len(stack) : stack[i] = h
          /\ \A k \in Handlers \ {h} : runner[k] # runner[h]
    /\ \A g \in Generators : gstate[g] = "running" =>
          \E h \in Handlers : runner[h] = g

UnstartedKnowsNone == \A f \in Futures : phase[f] = "none" => generator_[f] = None

\* What TimelyWaiterIsKnown needs besides: a coroutine that was resumed and
\* has kept its place is the one its Future still knows when it stops.
ResumedKeepsPlace ==
    \A f \in Futures : phase[f] = "resuming" /\ runner[f] \notin displaced =>
        generator_[f] = runner[f]

\* And WakesItsWaiter: a generator that has lost its place is unknown to the
\* Futures, and one that has never yielded has none to lose.
DisplacedAreUnknown ==
    /\ \A g \in displaced : gstate[g] # "fresh"
    /\ \A h \in Handlers : phase[h] = "starting" => runner[h] \notin displaced
    /\ \A f \in Futures : phase[f] \in Open \cup {"resuming"} => generator_[f] \notin displaced

IInv ==
    /\ TypeOK
    /\ StackHoldsRunning
    /\ RunnersNest
    /\ SendTargetAwaits
    /\ ResumedIsKnown
    /\ UnstartedKnowsNone

(***************************************************************************)
(* A coroutine that yielded a Future in time, and whose place no other     *)
(* coroutine took, is known to that Future, which is still to be resolved: *)
(* it cannot be forgotten (future::resolve lines 47 to 51), however deep   *)
(* handlers nest.                                                          *)
(***************************************************************************)
TimelyWaiterIsKnown ==
    \A g \in Generators \ (late \cup displaced), f \in Futures :
        Awaits(g, f) => phase[f] \in Open /\ generator_[f] = g

(***************************************************************************)
(* What the documentation of class Future says, of a Future that only one  *)
(* coroutine waits for: it knows a coroutine to resume.                    *)
(***************************************************************************)
AwaitedKnowsWaiter ==
    \A g \in Generators, f \in Futures :
        Awaits(g, f) /\ phase[f] \in Open => generator_[f] # None

(***************************************************************************)
(* Service::lastError called by a coroutine is the error of the Future it  *)
(* was resumed by, until it yields again or a handler nested in it resumes *)
(* another coroutine.                                                      *)
(***************************************************************************)
LastErrorIsOwn ==
    \A h \in Handlers \ outdated : phase[h] = "resuming" => last_error_ = ec[h]

(***************************************************************************)
(* A coroutine that yielded a Future in time is resumed, or has lost its   *)
(* place to another that yields the same Future.                           *)
(***************************************************************************)
TimelyWaitEnds ==
    \A g \in Generators :
        (gstate[g] = "suspended" /\ g \notin late) ~>
            (gstate[g] # "suspended" \/ g \in displaced)

FutureState ==
    [f \in Futures |-> IF phase[f] = "none" THEN "none"
                      ELSE IF phase[f] \in Open THEN "open" ELSE "resolved"]
WaiterOf == [f \in Futures |-> IF phase[f] \in Open THEN generator_[f] ELSE None]
Waiting == {g \in Generators \ (late \cup displaced) : \E f \in Futures : Awaits(g, f)}

SW == INSTANCE SingleWaiter
    WITH future <- FutureState, waiter <- WaiterOf, asleep <- Waiting

(***************************************************************************)
(* A Future keeps to the protocol of SingleWaiter, for the coroutines that *)
(* yield it in time and do not lose their place.                           *)
(***************************************************************************)
WakesItsWaiter == SW!Spec
=============================================================================
