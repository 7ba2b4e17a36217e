------------------------------- MODULE Service -------------------------------
(***************************************************************************)
(* The event loop of a Service, as scripts drive it: callbacks are posted  *)
(* or dispatched, operations complete, and run, runOne, poll and pollOne   *)
(* invoke the handlers that are ready, in the order they became so.  A     *)
(* callback may itself run the loop, so loops and handlers are frames of   *)
(* one stack.  An exception that leaves a callback stays pending until the *)
(* innermost loop returns to PHP; until then no callback can be called.    *)
(*                                                                         *)
(* The io_service of Boost.Asio is modelled as Service uses it, from one   *)
(* thread: a handler is outstanding work until it has returned, and the    *)
(* loop stops itself when no work is outstanding.                          *)
(***************************************************************************)
EXTENDS Naturals, SequencesExt

CONSTANTS
    Posts,          \* callbacks given to post and dispatch
    Operations,     \* asynchronous operations of I/O objects
    MaxFrames       \* bound on the loops and handlers inside each other

Handlers == Posts \cup Operations
Methods == {"run", "runOne", "poll", "pollOne"}

ASSUME ServiceAssumption ==
    /\ Posts \cap Operations = {}
    /\ MaxFrames \in Nat

VARIABLES
    hstate,     \* what has become of each handler
    queue,      \* the handlers that are ready, first to run first
    frames,     \* loops, and handlers they invoke, innermost last
    stopped,    \* io_service_.stopped()
    meant,      \* the script called stop, or has run a loop it found stopped
    exception   \* an exception is pending (EG(exception))

serviceVars == <<hstate, queue, frames, stopped, meant, exception>>

Frame(t, x) == [type |-> t, what |-> x, count |-> 0]

ServiceTypeOK ==
    /\ hstate \in [Handlers -> {"none", "pending", "ready", "running", "inline",
                                "done", "skipped"}]
    /\ queue \in Seq(Handlers)
    /\ \A i \in 1..Len(frames) :
          \/ /\ frames[i].type = "loop" /\ frames[i].what \in Methods
             /\ frames[i].count \in IF frames[i].what \in {"runOne", "pollOne"} THEN {0, 1} ELSE Nat
          \/ frames[i].type \in {"handler", "inline"} /\ frames[i].what \in Handlers
    /\ stopped \in BOOLEAN
    /\ meant \in BOOLEAN
    /\ exception \in BOOLEAN

ServiceInit ==
    /\ hstate = [h \in Handlers |-> "none"]
    /\ queue = <<>>
    /\ frames = <<>>
    /\ stopped = FALSE
    /\ meant = FALSE
    /\ exception = FALSE

-----------------------------------------------------------------------------
InLoop == frames # <<>> /\ Last(frames).type = "loop"

\* PHP code is running, with no exception on its way.
InPhp == ~InLoop /\ ~exception

\* The work that keeps the loop going: inline callbacks are none.
Outstanding(hs) == {h \in Handlers : hs[h] \in {"pending", "ready", "running"}}

StopIfIdle(hs) == stopped' = (stopped \/ Outstanding(hs) = {})

Becomes(h, s) == hstate' = [hstate EXCEPT ![h] = s]

\* Faulty variant of Enqueue: a loop that runs already does not notice.
EnqueueUnnoticed(h) ==
    /\ Becomes(h, "ready")
    /\ queue' = IF frames = <<>> THEN Append(queue, h) ELSE queue
    /\ UNCHANGED <<frames, stopped, meant, exception>>

Enqueue(h) ==
    /\ Becomes(h, "ready")
    /\ queue' = Append(queue, h)
    /\ UNCHANGED <<frames, stopped, meant, exception>>

-----------------------------------------------------------------------------
Post(h) ==
    /\ InPhp
    /\ hstate[h] = "none"
    /\ Enqueue(h)

\* Within a loop the callback is called on the spot.
DispatchInline(h) ==
    /\ InPhp
    /\ hstate[h] = "none"
    /\ frames # <<>>
    /\ Len(frames) < MaxFrames
    /\ Becomes(h, "inline")
    /\ frames' = Append(frames, Frame("inline", h))
    /\ UNCHANGED <<queue, stopped, meant, exception>>

DispatchOutside(h) ==
    /\ frames = <<>>
    /\ Post(h)

Dispatch(h) == DispatchInline(h) \/ DispatchOutside(h)

\* An I/O object starts an operation.
StartOperation(o) ==
    /\ InPhp
    /\ hstate[o] = "none"
    /\ Becomes(o, "pending")
    /\ UNCHANGED <<queue, frames, stopped, meant, exception>>

\* A loop learns that an operation is complete.
Complete(o) ==
    /\ InLoop
    /\ hstate[o] = "pending"
    /\ Enqueue(o)

Stop ==
    /\ InPhp
    /\ stopped' = TRUE
    /\ meant' = TRUE
    /\ UNCHANGED <<hstate, queue, frames, exception>>

Reset ==
    /\ InPhp
    /\ stopped' = FALSE
    /\ meant' = FALSE
    /\ UNCHANGED <<hstate, queue, frames, exception>>

-----------------------------------------------------------------------------
\* Faulty variant of RunLoop: a loop is entered even if there is no work.
RunLoopUnchecked(m) ==
    /\ InPhp
    /\ Len(frames) + 1 < MaxFrames
    /\ frames' = Append(frames, Frame("loop", m))
    /\ meant' = (meant \/ stopped)
    /\ UNCHANGED <<hstate, queue, stopped, exception>>

\* Service::run, runOne, poll or pollOne is called.
RunLoop(m) ==
    /\ InPhp
    /\ Len(frames) + 1 < MaxFrames
    /\ frames' = Append(frames, Frame("loop", m))
    /\ meant' = (meant \/ stopped)
    /\ StopIfIdle(hstate)
    /\ UNCHANGED <<hstate, queue, exception>>

\* The loop may invoke one more handler.
MayTake ==
    /\ InLoop
    /\ ~stopped
    /\ queue # <<>>
    /\ Last(frames).what \in {"runOne", "pollOne"} => Last(frames).count = 0

\* Faulty variant of LoopTakes: the handler is no work once it is invoked.
LoopTakesFinished ==
    /\ MayTake
    /\ ~exception
    /\ Becomes(Head(queue), "running")
    /\ queue' = Tail(queue)
    /\ frames' = Append(frames, Frame("handler", Head(queue)))
    /\ StopIfIdle([hstate EXCEPT ![Head(queue)] = "done"])
    /\ UNCHANGED <<meant, exception>>

LoopTakes ==
    /\ MayTake
    /\ ~exception
    /\ Becomes(Head(queue), "running")
    /\ queue' = Tail(queue)
    /\ frames' = Append(frames, Frame("handler", Head(queue)))
    /\ UNCHANGED <<stopped, meant, exception>>

\* A handler of the innermost loop, the i-th frame, is through.
Finish(i, h, s) ==
    /\ Becomes(h, s)
    /\ frames' = [SubSeq(frames, 1, i) EXCEPT ![i].count = @ + 1]
    /\ StopIfIdle([hstate EXCEPT ![h] = s])

\* call_user_function does nothing while an exception is pending.
LoopSkips ==
    /\ MayTake
    /\ exception
    /\ Finish(Len(frames), Head(queue), "skipped")
    /\ queue' = Tail(queue)
    /\ UNCHANGED <<meant, exception>>

LoopReturns ==
    /\ InLoop
    /\ \/ stopped
       \/ Last(frames).what \in {"runOne", "pollOne"} /\ Last(frames).count = 1
       \/ Last(frames).what \in {"poll", "pollOne"} /\ queue = <<>>
    /\ frames' = Front(frames)
    /\ UNCHANGED <<hstate, queue, stopped, meant, exception>>

-----------------------------------------------------------------------------
\* A callback ends, by an exception or without; one that has an exception
\* pending and does not catch it ends by it.
CallbackEnds(throws) ==
    /\ frames # <<>> /\ ~InLoop
    /\ exception => throws
    /\ \/ /\ Last(frames).type = "handler"
          /\ Finish(Len(frames) - 1, Last(frames).what, "done")
       \/ /\ Last(frames).type = "inline"
          /\ Becomes(Last(frames).what, "done")
          /\ frames' = Front(frames)
          /\ UNCHANGED stopped
    /\ exception' = throws
    /\ UNCHANGED <<queue, meant>>

Catch ==
    /\ exception
    /\ ~InLoop
    /\ exception' = FALSE
    /\ UNCHANGED <<hstate, queue, frames, stopped, meant>>

LoopStep == LoopTakes \/ LoopSkips \/ LoopReturns

CallbackStep == \E throws \in BOOLEAN : CallbackEnds(throws)

ServiceNext ==
    \/ \E h \in Posts : Post(h) \/ Dispatch(h)
    \/ \E o \in Operations : StartOperation(o) \/ Complete(o)
    \/ \E m \in Methods : RunLoop(m)
    \/ Stop
    \/ Reset
    \/ LoopStep
    \/ CallbackStep
    \/ Catch

ServiceSpec == ServiceInit /\ [][ServiceNext]_serviceVars

\* A loop that can go on does, and operations complete.  A callback makes
\* finitely many calls: it ends, however often it runs the loop before.
ServiceFairness ==
    /\ WF_serviceVars(LoopStep)
    /\ \A o \in Operations : WF_serviceVars(Complete(o))
    /\ SF_serviceVars(CallbackStep)

FairServiceSpec == ServiceSpec /\ ServiceFairness

-----------------------------------------------------------------------------
(***************************************************************************)
(* A loop that the script has not stopped ends only when nothing is left:  *)
(* no callback posted by the last handler is overlooked.                   *)
(***************************************************************************)
OwnStopLeavesNothing ==
    stopped /\ ~meant /\ frames # <<>> => Outstanding(hstate) = {}

(***************************************************************************)
(* A loop never waits with nothing to wait for.                            *)
(***************************************************************************)
WaitingLoopHasWork == InLoop /\ ~stopped => Outstanding(hstate) # {}

(***************************************************************************)
(* Below an outermost run, no handler stays ready, whatever loops the      *)
(* callbacks run meanwhile, unless the loop is stopped: it is invoked, or  *)
(* skipped while an exception is pending (see ConsumedIsCalled).           *)
(***************************************************************************)
ReadyIsInvoked ==
    \A h \in Handlers :
        (hstate[h] = "ready" /\ frames # <<>> /\ frames[1].what = "run")
            ~> (hstate[h] # "ready" \/ stopped)

(***************************************************************************)
(* What the documentation of Service::post says: the handler is invoked.   *)
(***************************************************************************)
ConsumedIsCalled == \A h \in Handlers : hstate[h] # "skipped"
=============================================================================
