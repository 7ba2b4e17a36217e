------------------------------- MODULE Waits -------------------------------
(***************************************************************************)
(* Waiting for time, for signals and for addresses: Timer, Signal and      *)
(* Resolver, and what the fork notifications of Service do to them.        *)
(*                                                                         *)
(* Each wait is an operation on one object.  It waits until Boost.Asio     *)
(* decides on its outcome, is then ready, and is done when the loop has    *)
(* called its handler.  Between the two the script may cancel the object,  *)
(* set a new expiry or change the signal set, all too late for this wait.  *)
(*                                                                         *)
(* A signal is first written to a pipe, and delivered when the loop reads  *)
(* it from there.  A query is answered by a thread of Boost.Asio that works*)
(* on one at a time.  The script may act between any two steps, so loops   *)
(* that callbacks run need not be told apart from the outermost one, and   *)
(* ready handlers are reached in any order, which is more than they are.   *)
(***************************************************************************)
EXTENDS Naturals, SequencesExt

CONSTANTS
    Waits,          \* operations started by wait and resolve
    Timers, Signals, Resolvers,
    Numbers,        \* the numbers signals have
    Invalid,        \* an integer no signal has
    Text,           \* an argument that is no integer
    Arguments,      \* the arguments add and remove are called with
    NoObject,       \* the object of a wait not yet started, or done
    Null, List, EmptyList,   \* what handlers pass on
    MaxTime,        \* bound on the clock
    MaxRaised,      \* bound on the signals that are raised
    MaxForks        \* bound on the calls of forkPrepare

ASSUME WaitsAssumption ==
    /\ Timers \cap (Signals \cup Resolvers) = {} /\ Signals \cap Resolvers = {}
    /\ NoObject \notin Timers \cup Signals \cup Resolvers
    /\ Numbers \subseteq Nat \ {0}
    /\ {Invalid, Text} \cap Nat = {}
    /\ Arguments \subseteq Seq(Numbers \cup {Invalid, Text})
    /\ MaxTime \in Nat /\ MaxRaised \in Nat /\ MaxForks \in Nat

Objects == Timers \cup Signals \cup Resolvers

VARIABLES
    now,            \* the clock
    expiry,         \* the expiry of each timer
    registered,     \* the numbers in each signal set
    undelivered,    \* signals of each set that came while nothing waited
    pipe,           \* signals raised, in the order the loop reads them
    forking,        \* between forkPrepare and forkParent or forkChild
    forks,          \* how often forkPrepare was called
    raised,         \* how many signals were raised
    object,         \* the object of each wait
    phase,          \* how far each wait has come
    outcome,        \* what was decided on it
    value,          \* what its handler passes on besides the error code
    cancelled,      \* waits not done whose object was cancelled while they waited
    armed,          \* history: the expiry a wait on a timer began with
    told            \* history: the numbers add has reported to be in a set

timers == <<now, expiry>>
signals == <<registered, undelivered, told>>
kernel == <<pipe, raised>>
fork == <<forking, forks>>
waits == <<object, phase, outcome, value, cancelled, armed>>
vars == <<timers, signals, kernel, fork, waits>>

Outcomes == {"none", "ok", "aborted", "not_found"}
Phases == {"none", "waiting", "working", "ready", "done"}
Values == Numbers \cup {0, Null, List, EmptyList}

TypeOK ==
    /\ now \in 0..MaxTime
    /\ expiry \in [Timers -> 0..MaxTime]
    /\ registered \in [Signals -> SUBSET Numbers]
    /\ undelivered \in [Signals -> [Numbers -> Nat]]
    /\ pipe \in Seq(Numbers)
    /\ forking \in BOOLEAN /\ forks \in 0..MaxForks
    /\ raised \in 0..MaxRaised
    /\ object \in [Waits -> Objects \cup {NoObject}]
    /\ phase \in [Waits -> Phases]
    /\ outcome \in [Waits -> Outcomes]
    /\ value \in [Waits -> Values]
    /\ cancelled \in SUBSET Waits
    /\ armed \in [Waits -> 0..MaxTime]
    /\ told \in [Signals -> SUBSET Numbers]

Init ==
    /\ now = 0 /\ expiry = [t \in Timers |-> 0]
    /\ registered = [s \in Signals |-> {}]
    /\ undelivered = [s \in Signals |-> [n \in Numbers |-> 0]]
    /\ pipe = <<>> /\ raised = 0
    /\ forking = FALSE /\ forks = 0
    /\ object = [w \in Waits |-> NoObject]
    /\ phase = [w \in Waits |-> "none"]
    /\ outcome = [w \in Waits |-> "none"]
    /\ value = [w \in Waits |-> Null]
    /\ cancelled = {}
    /\ armed = [w \in Waits |-> 0]
    /\ told = [s \in Signals |-> {}]

WaitingOn(x) == {w \in Waits : object[w] = x /\ phase[w] = "waiting"}

-----------------------------------------------------------------------------
\* The operation is counted and handed to Boost.Asio in phase p.
Starts(w, x, p) ==
    /\ phase[w] = "none"
    /\ object' = [object EXCEPT ![w] = x]
    /\ phase' = [phase EXCEPT ![w] = p]

\* The waits in W are decided on and have their handlers queued.
Decide(W, result) ==
    /\ phase' = [w \in Waits |-> IF w \in W THEN "ready" ELSE phase[w]]
    /\ outcome' = [w \in Waits |-> IF w \in W THEN result ELSE outcome[w]]

\* Cancelling a timer or a signal set decides on what waits there.
Abort(x) ==
    /\ Decide(WaitingOn(x), "aborted")
    /\ cancelled' = cancelled \cup WaitingOn(x)

-----------------------------------------------------------------------------
\* Timer.  A timer whose expiry was never set has expired.
Tick ==
    /\ now < MaxTime
    /\ now' = now + 1
    /\ UNCHANGED <<expiry, signals, kernel, fork, waits>>

TimerWait(w, t) ==
    /\ Starts(w, t, "waiting")
    /\ armed' = [armed EXCEPT ![w] = expiry[t]]
    /\ UNCHANGED <<timers, signals, kernel, fork, outcome, value, cancelled>>

Expire(t) ==
    /\ WaitingOn(t) # {}
    /\ now >= expiry[t]
    /\ Decide(WaitingOn(t), "ok")
    /\ UNCHANGED <<timers, signals, kernel, fork, object, value, cancelled, armed>>

\* Faulty variant of ExpiresAt: the waits are left to the new expiry.
ExpiresAtKeepsWaits(t, time) ==
    /\ expiry' = [expiry EXCEPT ![t] = time]
    /\ UNCHANGED <<now, signals, kernel, fork, waits>>

\* A new expiry aborts the waits on the old one.
ExpiresAt(t, time) ==
    /\ expiry' = [expiry EXCEPT ![t] = time]
    /\ Abort(t)
    /\ UNCHANGED <<now, signals, kernel, fork, object, value, armed>>

ExpiresFromNow(t, duration) ==
    /\ now + duration <= MaxTime
    /\ ExpiresAt(t, now + duration)

\* Faulty variant of TimerCancel: it recalls handlers that are queued.
TimerCancelRecalls(t) ==
    LET W == {w \in Waits : object[w] = t /\ phase[w] \in {"waiting", "ready"}} IN
    /\ Decide(W, "aborted")
    /\ cancelled' = cancelled \cup W
    /\ UNCHANGED <<timers, signals, kernel, fork, object, value, armed>>

TimerCancel(t) ==
    /\ Abort(t)
    /\ UNCHANGED <<timers, signals, kernel, fork, object, value, armed>>

TimerHandler(w) ==
    /\ object[w] \in Timers
    /\ UNCHANGED value

-----------------------------------------------------------------------------
\* Signal.  add and remove go through their arguments, pass over what is no
\* integer, and stop at the first integer that Boost.Asio refuses.
Refused(args) == Invalid \in Range(args)
Treated(args) ==
    {args[i] : i \in {j \in DOMAIN args : \A k \in 1..j : args[k] # Invalid}} \ {Text}

\* Faulty variant of SignalAdd: it goes on after an error, which a later number
\* overwrites.
SignalAddGoesOn(s, args) ==
    LET Valid == Range(args) \cap Numbers IN
    /\ registered' = [registered EXCEPT ![s] = @ \cup Valid]
    /\ told' = [told EXCEPT ![s] = IF Last(args) = Invalid THEN @
                                   ELSE @ \cup (Range(args) \ {Text})]
    /\ UNCHANGED <<timers, undelivered, kernel, fork, waits>>

SignalAdd(s, args) ==
    /\ registered' = [registered EXCEPT ![s] = @ \cup Treated(args)]
    /\ told' = [told EXCEPT ![s] = IF Refused(args) THEN @ ELSE @ \cup Treated(args)]
    /\ UNCHANGED <<timers, undelivered, kernel, fork, waits>>

\* A number that leaves the set takes the signals it has not delivered along.
SignalRemove(s, args) ==
    /\ registered' = [registered EXCEPT ![s] = @ \ Treated(args)]
    /\ undelivered' = [undelivered EXCEPT ![s] =
                         [n \in Numbers |-> IF n \in Treated(args) THEN 0 ELSE @[n]]]
    /\ told' = [told EXCEPT ![s] = @ \ Range(args)]
    /\ UNCHANGED <<timers, kernel, fork, waits>>

SignalClear(s) ==
    /\ registered' = [registered EXCEPT ![s] = {}]
    /\ undelivered' = [undelivered EXCEPT ![s] = [n \in Numbers |-> 0]]
    /\ told' = [told EXCEPT ![s] = {}]
    /\ UNCHANGED <<timers, kernel, fork, waits>>

SignalCancel(s) ==
    /\ Abort(s)
    /\ UNCHANGED <<timers, signals, kernel, fork, object, value, armed>>

\* Only numbers that are in a set are raised: others never reach the loop.
Raise(n) ==
    /\ raised < MaxRaised
    /\ \E s \in Signals : n \in registered[s]
    /\ pipe' = Append(pipe, n)
    /\ raised' = raised + 1
    /\ UNCHANGED <<timers, signals, fork, waits>>

\* The loop reads a signal.  In each set that has its number it ends all
\* waits, or is kept if there is none.
Deliver ==
    /\ pipe # <<>> /\ ~forking
    /\ LET n == Head(pipe)
           S == {s \in Signals : n \in registered[s]}
           W == UNION {WaitingOn(s) : s \in S}
       IN  /\ Decide(W, "ok")
           /\ value' = [w \in Waits |-> IF w \in W THEN n ELSE value[w]]
           /\ undelivered' = [s \in Signals |->
                IF s \in S /\ WaitingOn(s) = {} THEN [undelivered[s] EXCEPT ![n] = @ + 1]
                ELSE undelivered[s]]
    /\ pipe' = Tail(pipe)
    /\ UNCHANGED <<timers, registered, told, raised, fork, object, cancelled, armed>>

Kept(s) == {n \in Numbers : undelivered[s][n] > 0}

\* Faulty variant of SignalWait: it waits for the next signal.
SignalWaitNext(w, s) ==
    /\ Starts(w, s, "waiting")
    /\ value' = [value EXCEPT ![w] = 0]
    /\ UNCHANGED <<timers, signals, kernel, fork, outcome, cancelled, armed>>

\* A wait takes a signal that was kept, that of the least number, or waits.
SignalWait(w, s) ==
    /\ \/ /\ Kept(s) = {}
          /\ Starts(w, s, "waiting")
          /\ value' = [value EXCEPT ![w] = 0]
          /\ UNCHANGED <<undelivered, outcome>>
       \/ \E n \in Kept(s) :
            /\ \A m \in Kept(s) : n <= m
            /\ Starts(w, s, "ready")
            /\ outcome' = [outcome EXCEPT ![w] = "ok"]
            /\ value' = [value EXCEPT ![w] = n]
            /\ undelivered' = [undelivered EXCEPT ![s][n] = @ - 1]
    /\ UNCHANGED <<timers, registered, told, kernel, fork, cancelled, armed>>

\* The number is passed on, 0 for a wait that was aborted.
SignalHandler(w) ==
    /\ object[w] \in Signals
    /\ UNCHANGED value

-----------------------------------------------------------------------------
\* Resolver.
Resolve(w, r) ==
    /\ Starts(w, r, "waiting")
    /\ UNCHANGED <<timers, signals, kernel, fork, outcome, value, cancelled, armed>>

Working == {w \in Waits : phase[w] = "working"}

\* Faulty variant of ResolverCancel: it reaches a query that is being answered.
ResolverCancelAll(r) ==
    /\ cancelled' = cancelled \cup {w \in Waits : object[w] = r /\ phase[w] # "done"}
    /\ UNCHANGED <<timers, signals, kernel, fork, object, phase, outcome, value, armed>>

\* Queries the thread has not begun are marked, and it will find that.
ResolverCancel(r) ==
    /\ cancelled' = cancelled \cup WaitingOn(r)
    /\ UNCHANGED <<timers, signals, kernel, fork, object, phase, outcome, value, armed>>

\* The thread begins with a query, or gives it back if it was cancelled.
Begin(w) ==
    /\ object[w] \in Resolvers /\ phase[w] = "waiting"
    /\ Working = {} /\ ~forking
    /\ \/ /\ w \in cancelled
          /\ Decide({w}, "aborted")
       \/ /\ w \notin cancelled
          /\ phase' = [phase EXCEPT ![w] = "working"]
          /\ UNCHANGED outcome
    /\ UNCHANGED <<timers, signals, kernel, fork, object, value, cancelled, armed>>

Answer(w, result) ==
    /\ phase[w] = "working"
    /\ Decide({w}, result)
    /\ UNCHANGED <<timers, signals, kernel, fork, object, value, cancelled, armed>>

\* The addresses found become a list, which is empty after an error.
ResolverHandler(w) ==
    /\ object[w] \in Resolvers
    /\ value' = [value EXCEPT ![w] = IF outcome[w] = "ok" THEN List ELSE EmptyList]

\* Faulty variant of Finish: the handler of a cancelled wait is dropped.
FinishUnlessAborted(w) ==
    /\ phase[w] = "ready"
    /\ outcome[w] # "aborted"
    /\ TimerHandler(w) \/ SignalHandler(w) \/ ResolverHandler(w)
    /\ phase' = [phase EXCEPT ![w] = "done"]
    /\ object' = [object EXCEPT ![w] = NoObject]
    /\ cancelled' = cancelled \ {w}
    /\ armed' = [armed EXCEPT ![w] = 0]
    /\ UNCHANGED <<timers, signals, kernel, fork, outcome>>

\* The loop calls the handler of w.
Finish(w) ==
    /\ phase[w] = "ready"
    /\ TimerHandler(w) \/ SignalHandler(w) \/ ResolverHandler(w)
    /\ phase' = [phase EXCEPT ![w] = "done"]
    /\ object' = [object EXCEPT ![w] = NoObject]
    /\ cancelled' = cancelled \ {w}
    /\ armed' = [armed EXCEPT ![w] = 0]
    /\ UNCHANGED <<timers, signals, kernel, fork, outcome>>

-----------------------------------------------------------------------------
\* forkPrepare stops the thread, which ends the query it works on, and takes
\* the pipe from the loop.
ForkPrepare ==
    /\ ~forking /\ forks < MaxForks
    /\ forking' = TRUE /\ forks' = forks + 1
    /\ \/ Working = {} /\ UNCHANGED <<phase, outcome>>
       \/ Working # {} /\ \E result \in {"ok", "not_found"} : Decide(Working, result)
    /\ UNCHANGED <<timers, signals, kernel, object, value, cancelled, armed>>

ForkParent ==
    /\ forking
    /\ forking' = FALSE
    /\ UNCHANGED <<timers, signals, kernel, forks, waits>>

\* The model follows the child from here on: it has the same waits, and a pipe
\* of its own; what was in the old one is delivered to the parent only.
ForkChild ==
    /\ forking
    /\ forking' = FALSE
    /\ pipe' = <<>>
    /\ UNCHANGED <<timers, signals, raised, forks, waits>>

Next ==
    \/ Tick
    \/ \E t \in Timers :
         \/ \E w \in Waits : TimerWait(w, t)
         \/ \E d \in 0..MaxTime : ExpiresAt(t, d) \/ ExpiresFromNow(t, d)
         \/ Expire(t)
         \/ TimerCancel(t)
    \/ \E s \in Signals :
         \/ \E w \in Waits : SignalWait(w, s)
         \/ \E args \in Arguments : SignalAdd(s, args) \/ SignalRemove(s, args)
         \/ SignalClear(s)
         \/ SignalCancel(s)
    \/ \E n \in Numbers : Raise(n)
    \/ Deliver
    \/ \E r \in Resolvers :
         \/ \E w \in Waits : Resolve(w, r)
         \/ ResolverCancel(r)
    \/ \E w \in Waits :
         \/ Begin(w)
         \/ \E result \in {"ok", "not_found"} : Answer(w, result)
         \/ Finish(w)
    \/ ForkPrepare
    \/ ForkParent
    \/ ForkChild

Spec == Init /\ [][Next]_vars

\* Time passes, the loop keeps running, the thread works, and a script that
\* has prepared a fork tells the Service of it.  Nothing makes signals come.
FairSpec ==
    /\ Spec
    /\ WF_vars(Tick)
    /\ WF_vars(Deliver)
    /\ WF_vars(ForkParent \/ ForkChild)
    /\ \A t \in Timers : WF_vars(Expire(t))
    /\ \A w \in Waits :
         /\ WF_vars(Finish(w))
         /\ WF_vars(Begin(w))
         /\ WF_vars(\E result \in {"ok", "not_found"} : Answer(w, result))

-----------------------------------------------------------------------------
Decided(w) == phase[w] \in {"ready", "done"}

\* Who cancels wants to know what was cancelled: a wait ends with
\* operation_aborted exactly if it was waiting when its object was cancelled or
\* given a new expiry.  One that was decided on before keeps its own result,
\* and so does a query the thread has begun.
AbortedIffCancelled ==
    \A w \in Waits :
        phase[w] = "ready" => (outcome[w] = "aborted" <=> w \in cancelled)

\* Once decided on, a wait that the loop has yet to reach is beyond the reach
\* of cancel, of a new expiry, of changes to the signal set, and of a fork.
DecidedStays ==
    [][\A w \in Waits : Decided(w) => outcome'[w] = outcome[w]]_vars

\* A wait that succeeds has lasted until the expiry it began with, although the
\* script may move the expiry to and fro while it waits, or after it was queued.
SuccessIsDue ==
    \A w \in Waits : object[w] \in Timers =>
        /\ phase[w] = "ready" /\ outcome[w] = "ok" => now >= armed[w]
        /\ phase[w] = "waiting" => armed[w] = expiry[object[w]]

\* No signal is missed between two waits: nothing waits on a set that has kept
\* a signal back, whatever was added, removed and cancelled before.
NothingMissed ==
    \A s \in Signals : WaitingOn(s) # {} => Kept(s) = {}

\* A script may rely on what add reports: as long as it removes nothing, the
\* numbers of the calls that succeeded are in the set, even when others failed
\* half-way.
ToldIsRegistered ==
    \A s \in Signals : told[s] \subseteq registered[s]

\* Nothing needs to end a wait on signals any more: the next signal is of no
\* number in its set, or the process forked after the k-th forkPrepare.
Revoked(w, k) ==
    /\ object[w] \in Signals /\ phase[w] = "waiting"
    /\ forks > k \/ (pipe # <<>> /\ Head(pipe) \notin registered[object[w]])

\* Every wait on a timer and every query ends, whether time is up, it is
\* cancelled, or the process forks.  So does a wait on signals if one of its set
\* is on its way, unless that number is removed or the process forks meanwhile;
\* signals that come after a fork end the waits that have outlived it.
EveryWaitEnds ==
    \A w \in Waits, k \in 0..MaxForks :
        LET MustEnd ==
              /\ phase[w] # "none" /\ forks = k
              /\ object[w] \in Signals /\ phase[w] = "waiting" =>
                   ~forking /\ pipe # <<>> /\ ~Revoked(w, k)
        IN  MustEnd ~> (phase[w] = "done" \/ Revoked(w, k))
=============================================================================
