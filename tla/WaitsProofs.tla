----------------------------- MODULE WaitsProofs -----------------------------
(***************************************************************************)
(* Waits end with the outcome their callers rely on: for any number of     *)
(* timers, signal sets, resolvers, waits, signals and forks.               *)
(***************************************************************************)
EXTENDS Waits, SequenceTheorems, TLAPS

\* Only queries are marked before they are decided on.
CancelledIsOpen ==
    \A w \in cancelled :
        phase[w] = "ready" \/ (phase[w] = "waiting" /\ object[w] \in Resolvers)

\* The thread begins with a query only if nobody has cancelled it.
WorkingIsQuery ==
    \A w \in Waits : phase[w] = "working" => object[w] \in Resolvers

Coherent == AbortedIffCancelled /\ CancelledIsOpen /\ WorkingIsQuery

IInv ==
    /\ TypeOK
    /\ Coherent
    /\ SuccessIsDue
    /\ NothingMissed
    /\ ToldIsRegistered

-----------------------------------------------------------------------------
(***************************************************************************)
(* What add and remove treat is among their arguments, and is a number:    *)
(* they stop before the first one that is refused.                         *)
(***************************************************************************)
LEMMA TreatedAreNumbers ==
    ASSUME NEW args \in Arguments
    PROVE  Treated(args) \subseteq Numbers /\ Treated(args) \subseteq Range(args)
<1>1. args \in Seq(Numbers \cup {Invalid, Text})
  BY WaitsAssumption
<1>2. \A i \in DOMAIN args : args[i] \in Numbers \cup {Invalid, Text} /\ i \in 1..i
  BY <1>1
<1>3. QED
  BY <1>2 DEF Treated, Range

(***************************************************************************)
(* Nothing is cancelled, kept or told before the first operation.          *)
(***************************************************************************)
LEMMA InitIInv == Init => IInv
<1>1. SUFFICES ASSUME Init
               PROVE  IInv
  OBVIOUS
<1> USE <1>1 DEF Init
<1>2. TypeOK
  <2>1. pipe \in Seq(Numbers)
    OBVIOUS
  <2>2. /\ undelivered \in [Signals -> [Numbers -> Nat]]
        /\ registered \in [Signals -> SUBSET Numbers]
        /\ told \in [Signals -> SUBSET Numbers]
    OBVIOUS
  <2>3. /\ phase \in [Waits -> Phases] /\ outcome \in [Waits -> Outcomes]
        /\ value \in [Waits -> Values] /\ object \in [Waits -> Objects \cup {NoObject}]
    BY DEF Phases, Outcomes, Values
  <2>4. /\ now \in 0..MaxTime /\ expiry \in [Timers -> 0..MaxTime]
        /\ armed \in [Waits -> 0..MaxTime]
        /\ forks \in 0..MaxForks /\ raised \in 0..MaxRaised
    BY WaitsAssumption
  <2>5. QED
    BY <2>1, <2>2, <2>3, <2>4 DEF TypeOK
<1>3. Coherent
  BY DEF Coherent, AbortedIffCancelled, CancelledIsOpen, WorkingIsQuery
<1>4. SuccessIsDue
  BY WaitsAssumption DEF SuccessIsDue, Objects
<1>5. NothingMissed /\ ToldIsRegistered
  BY DEF NothingMissed, ToldIsRegistered, WaitingOn
<1>6. QED
  BY <1>2, <1>3, <1>4, <1>5 DEF IInv

-----------------------------------------------------------------------------
(***************************************************************************)
(* Deciding on waits keeps the types of what it assigns.                   *)
(***************************************************************************)
LEMMA DecideTypes ==
    ASSUME TypeOK, NEW W \in SUBSET Waits, NEW result \in Outcomes, Decide(W, result)
    PROVE  phase' \in [Waits -> Phases] /\ outcome' \in [Waits -> Outcomes]
  BY DEF TypeOK, Decide, Phases

(***************************************************************************)
(* Cancelling a timer or a signal set marks exactly the waits it aborts.   *)
(***************************************************************************)
LEMMA AbortKeeps ==
    ASSUME TypeOK, Coherent, NEW x \in Timers \cup Signals, Abort(x), UNCHANGED object
    PROVE  Coherent' /\ cancelled' \in SUBSET Waits
<1> USE DEF Abort, Decide, WaitingOn, TypeOK, Coherent
<1>1. AbortedIffCancelled'
  BY WaitsAssumption DEF AbortedIffCancelled, CancelledIsOpen
<1>2. CancelledIsOpen'
  BY DEF CancelledIsOpen
<1>3. WorkingIsQuery'
  BY DEF WorkingIsQuery
<1>4. QED
  BY <1>1, <1>2, <1>3

(***************************************************************************)
(* What is decided on by an event was not cancelled before.                *)
(***************************************************************************)
LEMMA EventKeeps ==
    ASSUME TypeOK, Coherent, UNCHANGED <<object, cancelled>>,
           NEW W \in SUBSET Waits, NEW result \in Outcomes \ {"aborted"},
           \A w \in W : \/ phase[w] = "working"
                        \/ phase[w] = "waiting" /\ object[w] \in Timers \cup Signals,
           Decide(W, result)
    PROVE  Coherent'
<1>1. W \cap cancelled = {}
  BY WaitsAssumption DEF Coherent, CancelledIsOpen, TypeOK
<1> USE <1>1 DEF Decide, TypeOK, Coherent
<1>2. AbortedIffCancelled'
  BY DEF AbortedIffCancelled
<1>3. CancelledIsOpen'
  BY DEF CancelledIsOpen
<1>4. WorkingIsQuery'
  BY DEF WorkingIsQuery
<1>5. QED
  BY <1>2, <1>3, <1>4

(***************************************************************************)
(* An operation that starts has not been cancelled.                        *)
(***************************************************************************)
LEMMA StartKeeps ==
    ASSUME TypeOK, Coherent, NEW w \in Waits, NEW x \in Objects,
           Starts(w, x, "waiting"), UNCHANGED <<outcome, cancelled>>
    PROVE  /\ Coherent'
           /\ object' \in [Waits -> Objects \cup {NoObject}]
           /\ phase' \in [Waits -> Phases]
<1>1. w \notin cancelled
  BY DEF Coherent, CancelledIsOpen, Starts
<1> USE <1>1 DEF Starts, TypeOK, Coherent
<1>2. AbortedIffCancelled'
  BY DEF AbortedIffCancelled
<1>3. CancelledIsOpen'
  BY DEF CancelledIsOpen
<1>4. WorkingIsQuery'
  BY DEF WorkingIsQuery
<1>5. object' \in [Waits -> Objects \cup {NoObject}] /\ phase' \in [Waits -> Phases]
  BY DEF Phases
<1>6. QED
  BY <1>2, <1>3, <1>4, <1>5

-----------------------------------------------------------------------------
(***************************************************************************)
(* Timers: the clock, wait, expiry, expiresAt, expiresFromNow and cancel.  *)
(***************************************************************************)
LEMMA TickKeeps == IInv /\ Tick => IInv'
<1>1. SUFFICES ASSUME IInv, Tick
               PROVE  IInv'
  OBVIOUS
<1> USE <1>1 DEF IInv, Tick, signals, kernel, fork, waits
<1>2. TypeOK'
  BY WaitsAssumption DEF TypeOK
<1>3. Coherent'
  BY DEF Coherent, AbortedIffCancelled, CancelledIsOpen, WorkingIsQuery
<1>4. SuccessIsDue'
  BY WaitsAssumption DEF SuccessIsDue, TypeOK
<1>5. NothingMissed' /\ ToldIsRegistered'
  BY DEF NothingMissed, ToldIsRegistered, WaitingOn, Kept
<1>6. QED
  BY <1>2, <1>3, <1>4, <1>5

LEMMA TimerWaitKeeps ==
    ASSUME IInv, NEW w \in Waits, NEW t \in Timers, TimerWait(w, t)
    PROVE  IInv'
<1> USE DEF IInv, TimerWait, timers, signals, kernel, fork
<1>1. /\ Coherent'
      /\ object' \in [Waits -> Objects \cup {NoObject}]
      /\ phase' \in [Waits -> Phases]
  BY StartKeeps DEF Objects
<1>2. TypeOK'
  BY <1>1 DEF TypeOK
<1>3. SuccessIsDue'
  BY DEF SuccessIsDue, TypeOK, Starts
<1>4. NothingMissed'
  BY WaitsAssumption DEF NothingMissed, TypeOK, WaitingOn, Kept, Starts
<1>5. ToldIsRegistered'
  BY DEF ToldIsRegistered
<1>6. QED
  BY <1>1, <1>2, <1>3, <1>4, <1>5

LEMMA ExpireKeeps ==
    ASSUME IInv, NEW t \in Timers, Expire(t)
    PROVE  IInv'
<1> USE DEF IInv, Expire, timers, signals, kernel, fork
<1>1. phase' \in [Waits -> Phases] /\ outcome' \in [Waits -> Outcomes]
  BY DecideTypes DEF WaitingOn, Outcomes
<1>2. TypeOK'
  BY <1>1 DEF TypeOK
<1>3. Coherent'
  BY EventKeeps DEF WaitingOn, Outcomes
<1>4. SuccessIsDue'
  BY DEF SuccessIsDue, TypeOK, WaitingOn, Decide
<1>5. NothingMissed'
  BY DEF NothingMissed, WaitingOn, Kept, Decide
<1>6. ToldIsRegistered'
  BY DEF ToldIsRegistered
<1>7. QED
  BY <1>2, <1>3, <1>4, <1>5, <1>6

LEMMA ExpiresAtKeeps ==
    ASSUME IInv, NEW t \in Timers, NEW time \in 0..MaxTime, ExpiresAt(t, time)
    PROVE  IInv'
<1> USE DEF IInv, ExpiresAt, signals, kernel, fork
<1>1. Coherent' /\ cancelled' \in SUBSET Waits
  BY AbortKeeps
<1>2. phase' \in [Waits -> Phases] /\ outcome' \in [Waits -> Outcomes]
  BY DecideTypes DEF WaitingOn, Outcomes, Abort
<1>3. TypeOK'
  BY <1>1, <1>2 DEF TypeOK
<1>4. SuccessIsDue'
  BY DEF SuccessIsDue, TypeOK, WaitingOn, Decide, Abort
<1>5. NothingMissed'
  BY DEF NothingMissed, WaitingOn, Kept, Decide, Abort
<1>6. ToldIsRegistered'
  BY DEF ToldIsRegistered
<1>7. QED
  BY <1>1, <1>3, <1>4, <1>5, <1>6

LEMMA ExpiresFromNowKeeps ==
    ASSUME IInv, NEW t \in Timers, NEW duration \in 0..MaxTime, ExpiresFromNow(t, duration)
    PROVE  IInv'
<1>1. now + duration \in 0..MaxTime
  BY WaitsAssumption DEF IInv, TypeOK, ExpiresFromNow
<1>2. QED
  BY <1>1, ExpiresAtKeeps DEF ExpiresFromNow

LEMMA TimerCancelKeeps ==
    ASSUME IInv, NEW t \in Timers, TimerCancel(t)
    PROVE  IInv'
<1> USE DEF IInv, TimerCancel, timers, signals, kernel, fork
<1>1. Coherent' /\ cancelled' \in SUBSET Waits
  BY AbortKeeps
<1>2. phase' \in [Waits -> Phases] /\ outcome' \in [Waits -> Outcomes]
  BY DecideTypes DEF WaitingOn, Outcomes, Abort
<1>3. TypeOK'
  BY <1>1, <1>2 DEF TypeOK
<1>4. SuccessIsDue'
  BY DEF SuccessIsDue, TypeOK, WaitingOn, Decide, Abort
<1>5. NothingMissed'
  BY DEF NothingMissed, WaitingOn, Kept, Decide, Abort
<1>6. ToldIsRegistered'
  BY DEF ToldIsRegistered
<1>7. QED
  BY <1>1, <1>3, <1>4, <1>5, <1>6

-----------------------------------------------------------------------------
(***************************************************************************)
(* Signal sets: add, remove, clear and cancel, signals that come, and wait.*)
(* No number of the set, and nothing that was kept, is changed for others. *)
(***************************************************************************)
LEMMA SignalAddKeeps ==
    ASSUME IInv, NEW s \in Signals, NEW args \in Arguments, SignalAdd(s, args)
    PROVE  IInv'
<1> USE DEF IInv, SignalAdd, timers, kernel, fork, waits
<1>1. Treated(args) \subseteq Numbers
  BY TreatedAreNumbers
<1>2. TypeOK'
  BY <1>1 DEF TypeOK
<1>3. Coherent'
  BY DEF Coherent, AbortedIffCancelled, CancelledIsOpen, WorkingIsQuery
<1>4. SuccessIsDue'
  BY DEF SuccessIsDue
<1>5. NothingMissed'
  BY DEF NothingMissed, WaitingOn, Kept
<1>6. ToldIsRegistered'
  BY DEF ToldIsRegistered, TypeOK
<1>7. QED
  BY <1>2, <1>3, <1>4, <1>5, <1>6

LEMMA SignalRemoveKeeps ==
    ASSUME IInv, NEW s \in Signals, NEW args \in Arguments, SignalRemove(s, args)
    PROVE  IInv'
<1> USE DEF IInv, SignalRemove, timers, kernel, fork, waits
<1>1. Treated(args) \subseteq Range(args)
  BY TreatedAreNumbers
<1>2. TypeOK'
  <2>1. undelivered' \in [Signals -> [Numbers -> Nat]]
    BY DEF TypeOK
  <2>2. registered' \in [Signals -> SUBSET Numbers] /\ told' \in [Signals -> SUBSET Numbers]
    BY DEF TypeOK
  <2>3. QED
    BY <2>1, <2>2 DEF TypeOK
<1>3. Coherent'
  BY DEF Coherent, AbortedIffCancelled, CancelledIsOpen, WorkingIsQuery
<1>4. SuccessIsDue'
  BY DEF SuccessIsDue
<1>5. NothingMissed'
  <2>1. \A x \in Signals : Kept(x)' \subseteq Kept(x) /\ WaitingOn(x)' = WaitingOn(x)
    BY DEF Kept, WaitingOn, TypeOK
  <2>2. QED
    BY <2>1 DEF NothingMissed
<1>6. ToldIsRegistered'
  BY <1>1 DEF ToldIsRegistered, TypeOK
<1>7. QED
  BY <1>2, <1>3, <1>4, <1>5, <1>6

LEMMA SignalClearKeeps ==
    ASSUME IInv, NEW s \in Signals, SignalClear(s)
    PROVE  IInv'
<1> USE DEF IInv, SignalClear, timers, kernel, fork, waits
<1>1. TypeOK'
  <2>1. undelivered' \in [Signals -> [Numbers -> Nat]]
    BY DEF TypeOK
  <2>2. registered' \in [Signals -> SUBSET Numbers] /\ told' \in [Signals -> SUBSET Numbers]
    BY DEF TypeOK
  <2>3. QED
    BY <2>1, <2>2 DEF TypeOK
<1>2. Coherent'
  BY DEF Coherent, AbortedIffCancelled, CancelledIsOpen, WorkingIsQuery
<1>3. SuccessIsDue'
  BY DEF SuccessIsDue
<1>4. NothingMissed'
  <2>1. \A x \in Signals : Kept(x)' \subseteq Kept(x) /\ WaitingOn(x)' = WaitingOn(x)
    BY DEF Kept, WaitingOn, TypeOK
  <2>2. QED
    BY <2>1 DEF NothingMissed
<1>5. ToldIsRegistered'
  BY DEF ToldIsRegistered, TypeOK
<1>6. QED
  BY <1>1, <1>2, <1>3, <1>4, <1>5

LEMMA SignalCancelKeeps ==
    ASSUME IInv, NEW s \in Signals, SignalCancel(s)
    PROVE  IInv'
<1> USE DEF IInv, SignalCancel, timers, signals, kernel, fork
<1>1. Coherent' /\ cancelled' \in SUBSET Waits
  BY AbortKeeps
<1>2. phase' \in [Waits -> Phases] /\ outcome' \in [Waits -> Outcomes]
  BY DecideTypes DEF WaitingOn, Outcomes, Abort
<1>3. TypeOK'
  BY <1>1, <1>2 DEF TypeOK
<1>4. SuccessIsDue'
  BY WaitsAssumption DEF SuccessIsDue, TypeOK, WaitingOn, Decide, Abort
<1>5. NothingMissed'
  BY DEF NothingMissed, WaitingOn, Kept, Decide, Abort
<1>6. ToldIsRegistered'
  BY DEF ToldIsRegistered
<1>7. QED
  BY <1>1, <1>3, <1>4, <1>5, <1>6

LEMMA RaiseKeeps ==
    ASSUME IInv, NEW n \in Numbers, Raise(n)
    PROVE  IInv'
<1> USE DEF IInv, Raise, timers, signals, fork, waits
<1>1. TypeOK'
  BY WaitsAssumption DEF TypeOK
<1>2. Coherent'
  BY DEF Coherent, AbortedIffCancelled, CancelledIsOpen, WorkingIsQuery
<1>3. SuccessIsDue' /\ NothingMissed' /\ ToldIsRegistered'
  BY DEF SuccessIsDue, NothingMissed, ToldIsRegistered, WaitingOn, Kept
<1>4. QED
  BY <1>1, <1>2, <1>3

LEMMA DeliverKeeps == IInv /\ Deliver => IInv'
<1>1. SUFFICES ASSUME IInv, Deliver
               PROVE  IInv'
  OBVIOUS
<1> USE <1>1 DEF IInv
<1> DEFINE n == Head(pipe)
           S == {s \in Signals : n \in registered[s]}
           W == UNION {WaitingOn(s) : s \in S}
<1>2. /\ n \in Numbers /\ Tail(pipe) \in Seq(Numbers)
      /\ W \in SUBSET Waits
      /\ \A w \in W : phase[w] = "waiting" /\ object[w] \in Signals
      /\ \A s \in S : WaitingOn(s) \subseteq W
  BY DEF Deliver, TypeOK, WaitingOn
<1>3. /\ Decide(W, "ok")
      /\ value' = [w \in Waits |-> IF w \in W THEN n ELSE value[w]]
      /\ undelivered' = [s \in Signals |->
            IF s \in S /\ WaitingOn(s) = {} THEN [undelivered[s] EXCEPT ![n] = @ + 1]
            ELSE undelivered[s]]
      /\ pipe' = Tail(pipe)
      /\ UNCHANGED <<now, expiry, registered, told, raised, forking, forks,
                     object, cancelled, armed>>
  BY DEF Deliver, timers, fork
<1> HIDE DEF n, S, W
<1>4. TypeOK'
  <2>1. phase' \in [Waits -> Phases] /\ outcome' \in [Waits -> Outcomes]
    BY <1>2, <1>3, DecideTypes DEF Outcomes
  <2>2. value' \in [Waits -> Values]
    BY <1>2, <1>3 DEF TypeOK, Values
  <2>3. undelivered' \in [Signals -> [Numbers -> Nat]]
    BY <1>2, <1>3 DEF TypeOK
  <2>4. QED
    BY <1>2, <1>3, <2>1, <2>2, <2>3 DEF TypeOK
<1>5. Coherent'
  BY <1>2, <1>3, EventKeeps DEF Outcomes
<1>6. SuccessIsDue'
  BY <1>2, <1>3, WaitsAssumption DEF SuccessIsDue, TypeOK, Decide
<1>7. NothingMissed'
  <2>1. SUFFICES ASSUME NEW s \in Signals, WaitingOn(s)' # {}
                 PROVE  Kept(s)' = {}
    BY DEF NothingMissed
  <2>2. WaitingOn(s)' \subseteq WaitingOn(s) \ W
    BY <1>3 DEF WaitingOn, Decide
  <2>3. s \notin S
    BY <1>2, <2>1, <2>2
  <2>4. Kept(s)' = Kept(s)
    BY <1>3, <2>3 DEF Kept
  <2>5. QED
    BY <2>1, <2>2, <2>4 DEF NothingMissed
<1>8. ToldIsRegistered'
  BY <1>3 DEF ToldIsRegistered
<1>9. QED
  BY <1>4, <1>5, <1>6, <1>7, <1>8

LEMMA SignalWaitKeeps ==
    ASSUME IInv, NEW w \in Waits, NEW s \in Signals, SignalWait(w, s)
    PROVE  IInv'
<1> USE DEF IInv, SignalWait, timers, kernel, fork
<1>1. CASE /\ Kept(s) = {} /\ Starts(w, s, "waiting")
           /\ value' = [value EXCEPT ![w] = 0] /\ UNCHANGED <<undelivered, outcome>>
  <2>1. /\ Coherent'
        /\ object' \in [Waits -> Objects \cup {NoObject}]
        /\ phase' \in [Waits -> Phases]
    BY <1>1, StartKeeps DEF Objects
  <2>2. TypeOK'
    BY <1>1, <2>1 DEF TypeOK, Values
  <2>3. SuccessIsDue'
    BY <1>1, WaitsAssumption DEF SuccessIsDue, TypeOK, Starts
  <2>4. NothingMissed'
    BY <1>1 DEF NothingMissed, TypeOK, WaitingOn, Kept, Starts
  <2>5. ToldIsRegistered'
    BY DEF ToldIsRegistered
  <2>6. QED
    BY <2>1, <2>2, <2>3, <2>4, <2>5
<1>2. CASE \E n \in Kept(s) :
             /\ Starts(w, s, "ready")
             /\ outcome' = [outcome EXCEPT ![w] = "ok"]
             /\ value' = [value EXCEPT ![w] = n]
             /\ undelivered' = [undelivered EXCEPT ![s][n] = @ - 1]
  <2>1. PICK n \in Kept(s) :
             /\ Starts(w, s, "ready")
             /\ outcome' = [outcome EXCEPT ![w] = "ok"]
             /\ value' = [value EXCEPT ![w] = n]
             /\ undelivered' = [undelivered EXCEPT ![s][n] = @ - 1]
    BY <1>2
  <2>2. n \in Numbers /\ undelivered[s][n] \in Nat /\ undelivered[s][n] > 0
    BY DEF Kept, TypeOK
  <2>3. w \notin cancelled /\ phase[w] = "none"
    BY <2>1 DEF Starts, Coherent, CancelledIsOpen
  <2>4. TypeOK'
    <3>1. undelivered' \in [Signals -> [Numbers -> Nat]]
      BY <2>1, <2>2 DEF TypeOK
    <3>2. value' \in [Waits -> Values]
      BY <2>1, <2>2 DEF TypeOK, Values
    <3>3. /\ object' \in [Waits -> Objects \cup {NoObject}]
          /\ phase' \in [Waits -> Phases] /\ outcome' \in [Waits -> Outcomes]
      BY <2>1 DEF TypeOK, Starts, Phases, Outcomes, Objects
    <3>4. QED
      BY <3>1, <3>2, <3>3 DEF TypeOK
  <2>5. Coherent'
    BY <2>1, <2>3 DEF Coherent, AbortedIffCancelled, CancelledIsOpen, WorkingIsQuery,
                      TypeOK, Starts
  <2>6. SuccessIsDue'
    BY <2>1, WaitsAssumption DEF SuccessIsDue, TypeOK, Starts
  <2>7. NothingMissed'
    <3>1. \A x \in Signals : WaitingOn(x)' \subseteq WaitingOn(x)
      BY <2>1 DEF WaitingOn, Starts, TypeOK
    <3>2. \A x \in Signals \ {s} : Kept(x)' = Kept(x)
      BY <2>1 DEF Kept, TypeOK
    <3>3. WaitingOn(s) = {}
      BY <2>1 DEF NothingMissed
    <3>4. QED
      BY <3>1, <3>2, <3>3 DEF NothingMissed
  <2>8. ToldIsRegistered'
    BY DEF ToldIsRegistered
  <2>9. QED
    BY <2>4, <2>5, <2>6, <2>7, <2>8
<1>3. QED
  BY <1>1, <1>2

-----------------------------------------------------------------------------
(***************************************************************************)
(* Queries: resolve, cancel, and the thread that answers them.             *)
(***************************************************************************)
LEMMA ResolveKeeps ==
    ASSUME IInv, NEW w \in Waits, NEW r \in Resolvers, Resolve(w, r)
    PROVE  IInv'
<1> USE DEF IInv, Resolve, timers, signals, kernel, fork
<1>1. /\ Coherent'
      /\ object' \in [Waits -> Objects \cup {NoObject}]
      /\ phase' \in [Waits -> Phases]
  BY StartKeeps DEF Objects
<1>2. TypeOK'
  BY <1>1 DEF TypeOK
<1>3. SuccessIsDue'
  BY WaitsAssumption DEF SuccessIsDue, TypeOK, Starts
<1>4. NothingMissed'
  BY WaitsAssumption DEF NothingMissed, TypeOK, WaitingOn, Kept, Starts
<1>5. ToldIsRegistered'
  BY DEF ToldIsRegistered
<1>6. QED
  BY <1>1, <1>2, <1>3, <1>4, <1>5

LEMMA ResolverCancelKeeps ==
    ASSUME IInv, NEW r \in Resolvers, ResolverCancel(r)
    PROVE  IInv'
<1> USE DEF IInv, ResolverCancel, timers, signals, kernel, fork
<1>1. TypeOK'
  BY DEF TypeOK, WaitingOn
<1>2. Coherent'
  BY DEF Coherent, AbortedIffCancelled, CancelledIsOpen, WorkingIsQuery, WaitingOn
<1>3. SuccessIsDue' /\ NothingMissed' /\ ToldIsRegistered'
  BY DEF SuccessIsDue, NothingMissed, ToldIsRegistered, WaitingOn, Kept
<1>4. QED
  BY <1>1, <1>2, <1>3

LEMMA BeginKeeps ==
    ASSUME IInv, NEW w \in Waits, Begin(w)
    PROVE  IInv'
<1> USE DEF IInv, Begin, Decide, timers, signals, kernel, fork
<1>1. TypeOK'
  BY DEF TypeOK, Phases, Outcomes
<1>2. Coherent'
  BY DEF Coherent, AbortedIffCancelled, CancelledIsOpen, WorkingIsQuery, TypeOK
<1>3. SuccessIsDue'
  BY WaitsAssumption DEF SuccessIsDue, TypeOK
<1>4. NothingMissed'
  BY DEF NothingMissed, WaitingOn, Kept, TypeOK
<1>5. ToldIsRegistered'
  BY DEF ToldIsRegistered
<1>6. QED
  BY <1>1, <1>2, <1>3, <1>4, <1>5

LEMMA AnswerKeeps ==
    ASSUME IInv, NEW w \in Waits, NEW result \in {"ok", "not_found"}, Answer(w, result)
    PROVE  IInv'
<1> USE DEF IInv, Answer, timers, signals, kernel, fork
<1>1. phase' \in [Waits -> Phases] /\ outcome' \in [Waits -> Outcomes]
  BY DecideTypes DEF Outcomes
<1>2. TypeOK'
  BY <1>1 DEF TypeOK
<1>3. Coherent'
  BY EventKeeps DEF Outcomes
<1>4. SuccessIsDue'
  BY WaitsAssumption DEF SuccessIsDue, TypeOK, Decide, Coherent, WorkingIsQuery
<1>5. NothingMissed'
  BY DEF NothingMissed, WaitingOn, Kept, Decide
<1>6. ToldIsRegistered'
  BY DEF ToldIsRegistered
<1>7. QED
  BY <1>2, <1>3, <1>4, <1>5, <1>6

-----------------------------------------------------------------------------
(***************************************************************************)
(* The handlers, and the fork.                                             *)
(***************************************************************************)
LEMMA FinishKeeps ==
    ASSUME IInv, NEW w \in Waits, Finish(w)
    PROVE  IInv'
<1> USE DEF IInv, Finish, timers, signals, kernel, fork
<1>1. value' \in [Waits -> Values]
  BY DEF TimerHandler, SignalHandler, ResolverHandler, TypeOK, Values
<1>2. TypeOK'
  <2>1. phase' \in [Waits -> Phases] /\ object' \in [Waits -> Objects \cup {NoObject}]
    BY DEF TypeOK, Phases
  <2>2. armed' \in [Waits -> 0..MaxTime] /\ cancelled' \in SUBSET Waits
    BY WaitsAssumption DEF TypeOK
  <2>3. QED
    BY <1>1, <2>1, <2>2 DEF TypeOK
<1>3. Coherent'
  BY DEF Coherent, AbortedIffCancelled, CancelledIsOpen, WorkingIsQuery, TypeOK
<1>4. SuccessIsDue'
  BY WaitsAssumption DEF SuccessIsDue, TypeOK
<1>5. NothingMissed'
  BY DEF NothingMissed, WaitingOn, Kept, TypeOK
<1>6. ToldIsRegistered'
  BY DEF ToldIsRegistered
<1>7. QED
  BY <1>2, <1>3, <1>4, <1>5, <1>6

LEMMA ForkPrepareKeeps == IInv /\ ForkPrepare => IInv'
<1>1. SUFFICES ASSUME IInv, ForkPrepare
               PROVE  IInv'
  OBVIOUS
<1> USE <1>1 DEF IInv, ForkPrepare, timers, signals, kernel
<1>2. forking' \in BOOLEAN /\ forks' \in 0..MaxForks
  BY WaitsAssumption DEF TypeOK
<1>3. CASE UNCHANGED <<phase, outcome>>
  BY <1>2, <1>3
  DEF TypeOK, Coherent, AbortedIffCancelled, CancelledIsOpen, WorkingIsQuery,
      SuccessIsDue, NothingMissed, ToldIsRegistered, WaitingOn, Kept
<1>4. CASE \E result \in {"ok", "not_found"} : Decide(Working, result)
  <2>1. PICK result \in {"ok", "not_found"} : Decide(Working, result)
    BY <1>4
  <2>2. phase' \in [Waits -> Phases] /\ outcome' \in [Waits -> Outcomes]
    BY <2>1, DecideTypes DEF Outcomes, Working
  <2>3. TypeOK'
    BY <1>2, <2>2 DEF TypeOK
  <2>4. Coherent'
    BY <2>1, EventKeeps DEF Outcomes, Working
  <2>5. SuccessIsDue'
    BY <2>1, WaitsAssumption DEF SuccessIsDue, TypeOK, Decide, Working, Coherent,
                                 WorkingIsQuery
  <2>6. NothingMissed'
    BY <2>1 DEF NothingMissed, WaitingOn, Kept, Decide
  <2>7. ToldIsRegistered'
    BY DEF ToldIsRegistered
  <2>8. QED
    BY <2>3, <2>4, <2>5, <2>6, <2>7
<1>5. QED
  BY <1>3, <1>4

LEMMA ForkEndKeeps == IInv /\ (ForkParent \/ ForkChild) => IInv'
<1>1. SUFFICES ASSUME IInv, ForkParent \/ ForkChild
               PROVE  IInv'
  OBVIOUS
<1> USE <1>1 DEF IInv, ForkParent, ForkChild, timers, signals, kernel, waits
<1>2. <<>> \in Seq(Numbers)
  OBVIOUS
<1>3. TypeOK'
  <2>1. pipe' = pipe \/ pipe' = <<>>
    OBVIOUS
  <2>2. QED
    BY <1>2, <2>1 DEF TypeOK
<1>4. Coherent'
  BY DEF Coherent, AbortedIffCancelled, CancelledIsOpen, WorkingIsQuery
<1>5. SuccessIsDue' /\ NothingMissed' /\ ToldIsRegistered'
  BY DEF SuccessIsDue, NothingMissed, ToldIsRegistered, WaitingOn, Kept
<1>6. QED
  BY <1>3, <1>4, <1>5

-----------------------------------------------------------------------------
LEMMA NextKeeps == IInv /\ [Next]_vars => IInv'
<1>1. SUFFICES ASSUME IInv, [Next]_vars
               PROVE  IInv'
  OBVIOUS
<1>2. CASE UNCHANGED vars
  BY <1>1, <1>2
  DEF vars, timers, signals, kernel, fork, waits, IInv, TypeOK, Coherent,
      AbortedIffCancelled, CancelledIsOpen, WorkingIsQuery, SuccessIsDue,
      NothingMissed, ToldIsRegistered, WaitingOn, Kept
<1>3. CASE Next
  BY <1>1, <1>3, TickKeeps, TimerWaitKeeps, ExpireKeeps, ExpiresAtKeeps,
     ExpiresFromNowKeeps, TimerCancelKeeps, SignalAddKeeps, SignalRemoveKeeps,
     SignalClearKeeps, SignalCancelKeeps, RaiseKeeps, DeliverKeeps, SignalWaitKeeps,
     ResolveKeeps, ResolverCancelKeeps, BeginKeeps, AnswerKeeps, FinishKeeps,
     ForkPrepareKeeps, ForkEndKeeps
  DEF Next
<1>4. QED
  BY <1>1, <1>2, <1>3

(***************************************************************************)
(* Whatever is cancelled, moved, removed and forked, the waits, the sets   *)
(* and what was promised of them agree (timer.cpp, signal.cpp,             *)
(* resolver.cpp and the fork notifications of service.cpp).                *)
(***************************************************************************)
THEOREM IInvAlways == Spec => []IInv
  BY InitIInv, NextKeeps, PTL DEF Spec

(***************************************************************************)
(* A wait ends with operation_aborted exactly if it waited when its object *)
(* was cancelled, or given a new expiry.                                   *)
(***************************************************************************)
THEOREM AbortedIffCancelledAlways == Spec => []AbortedIffCancelled
<1>1. IInv => AbortedIffCancelled
  BY DEF IInv, Coherent
<1>2. QED
  BY <1>1, IInvAlways, PTL

(***************************************************************************)
(* A wait on a timer that succeeds has lasted until the expiry it began    *)
(* with, however the expiry was moved.                                     *)
(***************************************************************************)
THEOREM SuccessIsDueAlways == Spec => []SuccessIsDue
<1>1. IInv => SuccessIsDue
  BY DEF IInv
<1>2. QED
  BY <1>1, IInvAlways, PTL

(***************************************************************************)
(* Nothing waits on a signal set that has kept a signal back.              *)
(***************************************************************************)
THEOREM NothingMissedAlways == Spec => []NothingMissed
<1>1. IInv => NothingMissed
  BY DEF IInv
<1>2. QED
  BY <1>1, IInvAlways, PTL

(***************************************************************************)
(* The numbers add has reported are in the set until they are removed,     *)
(* whichever calls of add failed half-way.                                 *)
(***************************************************************************)
THEOREM ToldIsRegisteredAlways == Spec => []ToldIsRegistered
<1>1. IInv => ToldIsRegistered
  BY DEF IInv
<1>2. QED
  BY <1>1, IInvAlways, PTL

-----------------------------------------------------------------------------
(***************************************************************************)
(* An outcome stays if only waits that are not decided on get one.         *)
(***************************************************************************)
LEMMA OpenDecides ==
    ASSUME TypeOK, NEW W \in SUBSET Waits, NEW result,
           \A w \in W : phase[w] \in {"waiting", "working"}, Decide(W, result)
    PROVE  \A w \in Waits : Decided(w) => outcome'[w] = outcome[w]
  BY DEF TypeOK, Decided, Decide

LEMMA StepKeepsOutcomes ==
    ASSUME IInv, [Next]_vars
    PROVE  \A w \in Waits : Decided(w) => outcome'[w] = outcome[w]
<1> DEFINE Stays == \A w \in Waits : Decided(w) => outcome'[w] = outcome[w]
<1>1. CASE UNCHANGED outcome
  BY <1>1
<1>2. ASSUME NEW x \in Objects, Abort(x)
      PROVE  Stays
  BY <1>2, OpenDecides DEF Abort, WaitingOn, IInv
<1>3. ASSUME NEW t \in Timers, Expire(t)
      PROVE  Stays
  BY <1>3, OpenDecides DEF Expire, WaitingOn, IInv
<1>4. CASE Deliver
  <2>1. PICK W \in SUBSET Waits :
          Decide(W, "ok") /\ \A w \in W : phase[w] = "waiting"
    BY <1>4 DEF Deliver, WaitingOn
  <2>2. QED
    BY <2>1, OpenDecides DEF IInv
<1>5. ASSUME NEW w \in Waits, NEW s \in Signals, SignalWait(w, s)
      PROVE  Stays
  BY <1>5 DEF SignalWait, Starts, Decided, IInv, TypeOK
<1>6. ASSUME NEW w \in Waits, Begin(w)
      PROVE  Stays
  BY <1>6, OpenDecides DEF Begin, IInv
<1>7. ASSUME NEW w \in Waits, NEW result, Answer(w, result)
      PROVE  Stays
  BY <1>7, OpenDecides DEF Answer, IInv
<1>8. CASE ForkPrepare
  BY <1>8, OpenDecides DEF ForkPrepare, Working, IInv
<1>9. QED
  BY <1>1, <1>2, <1>3, <1>4, <1>5, <1>6, <1>7, <1>8
  DEF Next, vars, waits, Objects, Tick, TimerWait, ExpiresAt, ExpiresFromNow,
      TimerCancel, SignalAdd, SignalRemove, SignalClear, SignalCancel, Raise,
      Resolve, ResolverCancel, Finish, ForkParent, ForkChild

(***************************************************************************)
(* Once decided on, a wait that the loop has yet to reach keeps its        *)
(* outcome, whatever the script or a fork does.                            *)
(***************************************************************************)
THEOREM DecidedStaysAlways == Spec => DecidedStays
<1>1. IInv /\ [Next]_vars => [\A w \in Waits : Decided(w) => outcome'[w] = outcome[w]]_vars
  BY StepKeepsOutcomes
<1>2. QED
  BY <1>1, IInvAlways, PTL DEF Spec, DecidedStays
=============================================================================
