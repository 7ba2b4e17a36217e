------------------------------- MODULE Strand -------------------------------
(***************************************************************************)
(* Strands: the callbacks posted to them and dispatched on them, the       *)
(* operations whose callback they have wrapped, and the handler count that *)
(* keeps a Strand alive meanwhile.                                         *)
(*                                                                         *)
(* A posted or dispatched callback counts until it has returned.  A        *)
(* WrappedHandler counts from wrap() on; every operation that was started  *)
(* with it gives back one, whether it is the first to use it or not.       *)
(*                                                                         *)
(* Handlers nest, as callbacks may run the loop.  The strand of Boost.Asio *)
(* is modelled as Strand uses it, from one thread: post queues a handler,  *)
(* dispatch calls it at once inside a handler of the same strand, or if    *)
(* the strand has nothing to do.  The completion of a wrapped operation is *)
(* dispatched.  When no handler of a Strand is running, the script may be  *)
(* the main script, or a callback that belongs to no Strand.               *)
(***************************************************************************)
EXTENDS HandlerCount, FiniteSets, SequencesExt

CONSTANTS
    Strands,        \* Strand objects
    Posted,         \* callbacks given to post
    Dispatched,     \* callbacks given to dispatch
    Futures,        \* operations started with a WrappedHandler
    Wrappers,       \* WrappedHandler objects
    None,           \* a null pointer
    MaxNesting      \* bound on the handlers running inside each other

Callbacks == Posted \cup Dispatched
Handlers == Callbacks \cup Futures

ASSUME StrandAssumption ==
    /\ Posted \cap Dispatched = {} /\ Callbacks \cap Futures = {}
    /\ Callbacks \cap Wrappers = {}
    /\ IsFiniteSet(Handlers \cup Wrappers)
    /\ None \notin Strands \cup Handlers
    /\ MaxNesting \in Nat

VARIABLES
    held,           \* Strands the script holds a reference on
    handler_count_, \* base::handler_count_ of each Strand
    selfRefs,       \* references a Strand holds on itself
    hstate,         \* what has become of each handler
    strand_,        \* the Strand of a handler: future::strand_
    wrappedBy,      \* wrapped_handler::strand_
    running,        \* the handlers that are running, innermost last
    awaits          \* what a running handler runs the loop for

vars == <<held, handler_count_, selfRefs, hstate, strand_, wrappedBy, running, awaits>>

TypeOK ==
    /\ held \in SUBSET Strands
    /\ handler_count_ \in [Strands -> CountType]
    /\ selfRefs \in [Strands -> Int]
    /\ hstate \in [Handlers ->
                    {"none", "refused", "pending", "queued", "running", "inline", "done"}]
    /\ strand_ \in [Handlers -> Strands \cup {None}]
    /\ wrappedBy \in [Wrappers -> Strands \cup {None}]
    /\ running \in Seq(Handlers)
    /\ awaits \in [Handlers -> Handlers \cup {None}]

\* Service::addStrand returns each Strand to the script.
Init ==
    /\ held = Strands
    /\ handler_count_ = [s \in Strands |-> 0]
    /\ selfRefs = [s \in Strands |-> 0]
    /\ hstate = [h \in Handlers |-> "none"]
    /\ strand_ = [h \in Handlers |-> None]
    /\ wrappedBy = [w \in Wrappers |-> None]
    /\ running = <<>>
    /\ awaits = [h \in Handlers |-> None]

-----------------------------------------------------------------------------
\* The script drops its last reference on s.
Release(s) ==
    /\ s \in held
    /\ held' = held \ {s}
    /\ UNCHANGED <<handler_count_, selfRefs, hstate, strand_, wrappedBy, running, awaits>>

IncHandlerCount(s) ==
    /\ handler_count_' = [handler_count_ EXCEPT ![s] = CountInc(@)]
    /\ selfRefs' = [selfRefs EXCEPT ![s] = @ + RefGained(handler_count_[s])]

DecHandlerCount(s) ==
    /\ handler_count_' = [handler_count_ EXCEPT ![s] = CountDec(@)]
    /\ selfRefs' = [selfRefs EXCEPT ![s] = @ - RefLost(handler_count_[s])]

-----------------------------------------------------------------------------
\* The thread is in s: some handler on its stack belongs to it.
RunningInThisThread(s) == \E i \in 1..Len(running) : strand_[running[i]] = s

\* A handler of s is queued or running.
Locked(s) == \E h \in Handlers : strand_[h] = s /\ hstate[h] \in {"queued", "running", "inline"}

\* What strand_.post and strand_.dispatch do with handler h of s.
Enqueued(h) ==
    /\ hstate' = [hstate EXCEPT ![h] = "queued"]
    /\ UNCHANGED running

CalledAtOnce(h) ==
    /\ Len(running) < MaxNesting
    /\ hstate' = [hstate EXCEPT ![h] = "inline"]
    /\ running' = Append(running, h)

\* Faulty variant of Post: it calls strand_.dispatch as well.
PostDispatches(s, p) ==
    /\ s \in held
    /\ hstate[p] = "none"
    /\ IncHandlerCount(s)
    /\ strand_' = [strand_ EXCEPT ![p] = s]
    /\ IF RunningInThisThread(s) THEN CalledAtOnce(p) ELSE Enqueued(p)
    /\ UNCHANGED <<held, wrappedBy, awaits>>

\* post: counted first, then queued.
Post(s, p) ==
    /\ s \in held
    /\ hstate[p] = "none"
    /\ IncHandlerCount(s)
    /\ strand_' = [strand_ EXCEPT ![p] = s]
    /\ Enqueued(p)
    /\ UNCHANGED <<held, wrappedBy, awaits>>

\* dispatch calls p on the spot if the thread is in s, or is in the loop and
\* s has nothing to do.
Dispatch(s, p) ==
    /\ s \in held
    /\ hstate[p] = "none"
    /\ IncHandlerCount(s)
    /\ strand_' = [strand_ EXCEPT ![p] = s]
    /\ \/ /\ RunningInThisThread(s) \/ ~Locked(s)
          /\ CalledAtOnce(p)
       \/ /\ ~RunningInThisThread(s) /\ (Locked(s) \/ running = <<>>)
          /\ Enqueued(p)
    /\ UNCHANGED <<held, wrappedBy, awaits>>

\* Faulty variant of Refuse: the parameters are parsed first,
\* but the count is taken back as well.
RefuseTwice(s, p) ==
    /\ s \in held
    /\ hstate[p] = "none"
    /\ DecHandlerCount(s)
    /\ strand_' = [strand_ EXCEPT ![p] = s]
    /\ hstate' = [hstate EXCEPT ![p] = "refused"]
    /\ UNCHANGED <<held, wrappedBy, running, awaits>>

\* post or dispatch with arguments that do not parse returns after counting.
Refuse(s, p) ==
    /\ s \in held
    /\ hstate[p] = "none"
    /\ IncHandlerCount(s)
    /\ strand_' = [strand_ EXCEPT ![p] = s]
    /\ hstate' = [hstate EXCEPT ![p] = "refused"]
    /\ UNCHANGED <<held, wrappedBy, running, awaits>>

-----------------------------------------------------------------------------
\* Faulty variant of Wrap: only post and dispatch are counted.
WrapUncounted(s, w) ==
    /\ s \in held
    /\ wrappedBy[w] = None
    /\ wrappedBy' = [wrappedBy EXCEPT ![w] = s]
    /\ UNCHANGED <<held, handler_count_, selfRefs, hstate, strand_, running, awaits>>

Wrap(s, w) ==
    /\ s \in held
    /\ wrappedBy[w] = None
    /\ IncHandlerCount(s)
    /\ wrappedBy' = [wrappedBy EXCEPT ![w] = s]
    /\ UNCHANGED <<held, hstate, strand_, running, awaits>>

\* An operation starts with w as its callback: it remembers the Strand.
StartWrapped(f, w) ==
    /\ hstate[f] = "none"
    /\ wrappedBy[w] # None
    /\ hstate' = [hstate EXCEPT ![f] = "pending"]
    /\ strand_' = [strand_ EXCEPT ![f] = wrappedBy[w]]
    /\ UNCHANGED <<held, handler_count_, selfRefs, wrappedBy, running, awaits>>

\* Faulty variant of Complete: the handler is posted to the Strand.
CompletePosted(f) ==
    /\ hstate[f] = "pending"
    /\ Enqueued(f)
    /\ UNCHANGED <<held, handler_count_, selfRefs, strand_, wrappedBy, awaits>>

\* The loop, called by the main script or by a handler, finds the operation
\* complete and dispatches its handler on the Strand.
Complete(f) ==
    /\ hstate[f] = "pending"
    /\ IF RunningInThisThread(strand_[f]) \/ ~Locked(strand_[f])
       THEN CalledAtOnce(f)
       ELSE Enqueued(f)
    /\ UNCHANGED <<held, handler_count_, selfRefs, strand_, wrappedBy, awaits>>

-----------------------------------------------------------------------------
\* The loop, called by the main script or by a handler, invokes a handler that
\* was queued on a Strand, unless it runs inside a handler of that Strand.
Run(h) ==
    /\ hstate[h] = "queued"
    /\ ~RunningInThisThread(strand_[h])
    /\ Len(running) < MaxNesting
    /\ hstate' = [hstate EXCEPT ![h] = "running"]
    /\ running' = Append(running, h)
    /\ UNCHANGED <<held, handler_count_, selfRefs, strand_, wrappedBy, awaits>>

Waiting(h) == awaits[h] # None /\ hstate[awaits[h]] # "done"

\* The innermost handler runs the loop until h has returned.  A script must
\* not wait for what is queued on a Strand that it is itself inside.
Await(h) ==
    /\ running # <<>> /\ ~Waiting(Last(running))
    /\ Len(running) < MaxNesting
    /\ \/ hstate[h] = "pending"
       \/ hstate[h] = "queued" /\ ~RunningInThisThread(strand_[h])
    /\ awaits' = [awaits EXCEPT ![Last(running)] = h]
    /\ UNCHANGED <<held, handler_count_, selfRefs, hstate, strand_, wrappedBy, running>>

\* The innermost handler returns and gives back one count.
Return ==
    LET h == Last(running) IN
    /\ running # <<>>
    /\ ~Waiting(h)
    /\ DecHandlerCount(strand_[h])
    /\ hstate' = [hstate EXCEPT ![h] = "done"]
    /\ running' = Front(running)
    /\ awaits' = [awaits EXCEPT ![h] = None]
    /\ UNCHANGED <<held, strand_, wrappedBy>>

Next ==
    \/ \E s \in Strands : Release(s)
    \/ \E s \in Strands, p \in Posted : Post(s, p)
    \/ \E s \in Strands, p \in Dispatched : Dispatch(s, p)
    \/ \E s \in Strands, p \in Callbacks : Refuse(s, p)
    \/ \E s \in Strands, w \in Wrappers : Wrap(s, w)
    \/ \E f \in Futures, w \in Wrappers : StartWrapped(f, w)
    \/ \E f \in Futures : Complete(f)
    \/ \E h \in Handlers : Run(h) \/ Await(h)
    \/ Return

Spec == Init /\ [][Next]_vars

\* The main script is in run, operations complete, and a handler that has not
\* to wait returns.
FairSpec ==
    /\ Spec
    /\ \A f \in Futures : WF_vars(Complete(f))
    /\ \A h \in Handlers : WF_vars(Run(h))
    /\ WF_vars(Return)

-----------------------------------------------------------------------------
\* What s has counted: its callbacks that have not returned (or were refused)
\* and the WrappedHandlers it has made.  What was given back for the latter:
\* the operations that were resolved.
Counted(s) ==
    {p \in Callbacks : strand_[p] = s /\ hstate[p] # "done"}
        \cup {w \in Wrappers : wrappedBy[w] = s}

Resolved(s) == {f \in Futures : strand_[f] = s /\ hstate[f] = "done"}

Net(s) == Cardinality(Counted(s)) - Cardinality(Resolved(s))

\* More operations were started with the WrappedHandlers of s than it has made
\* of them: some WrappedHandler was used again.
Overused(s) ==
    Cardinality({f \in Futures : strand_[f] = s})
        > Cardinality({w \in Wrappers : wrappedBy[w] = s})

(***************************************************************************)
(* A Strand is referenced as long as a handler that will use it has not    *)
(* returned, unless its WrappedHandlers were overused: the count is        *)
(* written at the end (STRAND_DISPATCH_CALLBACK, future::resolve lines 60  *)
(* and 61).                                                                *)
(***************************************************************************)
StrandOutlivesHandlers ==
    \A h \in Handlers :
        /\ hstate[h] \in {"pending", "queued", "running", "inline"}
        /\ ~Overused(strand_[h])
        => strand_[h] \in held \/ selfRefs[strand_[h]] > 0

(***************************************************************************)
(* Handlers of one Strand run one after the other, except that dispatch    *)
(* and the completion of a wrapped operation, inside a handler of the      *)
(* Strand, call theirs at once: a posted callback never runs inside        *)
(* another, nor does anything that was queued (class Strand: serialized    *)
(* handler execution).                                                     *)
(***************************************************************************)
Serialized ==
    \A i, j \in 1..Len(running) :
        i < j /\ strand_[running[i]] = strand_[running[j]] =>
            hstate[running[j]] = "inline" /\ running[j] \notin Posted

(***************************************************************************)
(* Every count is balanced against what was counted and given back,        *)
(* however often a WrappedHandler is used: handler_count_ is Net modulo    *)
(* the width of the counter.                                               *)
(***************************************************************************)
CountsBalanced ==
    \A s \in Strands : Balanced(handler_count_[s], Net(s), selfRefs[s])

(***************************************************************************)
(* As long as its WrappedHandlers are not overused, a Strand runs the      *)
(* protocol of KeepAlive (PHP_ASIO_INC_HANDLER_COUNT, _DEC_HANDLER_COUNT). *)
(***************************************************************************)
KA(s) == INSTANCE KeepAlive
    WITH MaxInFlight    <- Cardinality(Callbacks \cup Wrappers),
         handler_count_ <- handler_count_[s],
         selfRefs       <- selfRefs[s],
         inFlight       <- Net(s)

KeepsStrandsAlive ==
    /\ \A s \in Strands : KA(s)!Init
    /\ [][\A s \in Strands : Overused(s) \/ [KA(s)!Next]_(KA(s)!vars)]_vars

(***************************************************************************)
(* Whatever was posted, dispatched or started is resolved and returns,     *)
(* although handlers run the loop inside each other until some operation   *)
(* is resolved, one of their own Strand included: its completion must not  *)
(* wait for the Strand (STRAND_RESOLVE).                                   *)
(***************************************************************************)
EveryHandlerEnds ==
    \A h \in Handlers :
        hstate[h] \in {"pending", "queued", "running", "inline"} ~> hstate[h] = "done"
=============================================================================
