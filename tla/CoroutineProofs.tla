--------------------------- MODULE CoroutineProofs ---------------------------
(***************************************************************************)
(* future::resolve never sends to a generator that cannot take a value,    *)
(* and generators run in stack order: for any number of handlers and       *)
(* generators, and however deep the handlers nest.                         *)
(***************************************************************************)
EXTENDS Coroutine, SequenceTheorems, TLAPS

-----------------------------------------------------------------------------
(***************************************************************************)
(* The innermost handler, and the stack without it.                        *)
(***************************************************************************)
LEMMA StackTop ==
    ASSUME stack \in Seq(Handlers), stack # <<>>
    PROVE  /\ Len(stack) \in Nat \ {0}
           /\ Last(stack) = stack[Len(stack)]
           /\ Last(stack) \in Handlers
           /\ Front(stack) \in Seq(Handlers)
           /\ Len(Front(stack)) = Len(stack) - 1
           /\ \A i \in 1..Len(stack) - 1 : Front(stack)[i] = stack[i]
<1>1. Len(stack) \in Nat \ {0} /\ \A i \in 1..Len(stack) : stack[i] \in Handlers
  BY EmptySeq, LenProperties
<1>2. Last(stack) = stack[Len(stack)] /\ Last(stack) \in Handlers
  BY <1>1 DEF Last
<1>3. /\ Front(stack) \in Seq(Handlers)
      /\ Len(Front(stack)) = Len(stack) - 1
      /\ \A i \in 1..Len(stack) - 1 : Front(stack)[i] = stack[i]
  <2> DEFINE n == Len(stack) - 1
  <2>1. n \in Nat /\ 1 \in Int /\ \A i \in 1..n : stack[i] \in Handlers
    BY <1>1
  <2>2. /\ SubSeq(stack, 1, n) \in Seq(Handlers)
        /\ Len(SubSeq(stack, 1, n)) = IF 1 <= n THEN n - 1 + 1 ELSE 0
        /\ \A i \in 1..n - 1 + 1 : SubSeq(stack, 1, n)[i] = stack[1 + i - 1]
    BY <2>1, SubSeqProperties
  <2>3. Len(SubSeq(stack, 1, n)) = n
    <3>1. PICK m : m = Len(SubSeq(stack, 1, n))
      OBVIOUS
    <3>2. m = IF 1 <= n THEN n - 1 + 1 ELSE 0
      BY <2>2, <3>1, Zenon
    <3>3. m = n
      <4> HIDE DEF n
      <4>1. QED
        BY <2>1, <3>2
    <3>4. QED
      BY <3>1, <3>3, Zenon
  <2>4. ASSUME NEW i \in 1..n
        PROVE  SubSeq(stack, 1, n)[i] = stack[i]
    <3>1. i \in 1..n - 1 + 1 /\ 1 + i - 1 = i
      BY <2>1
    <3>2. SubSeq(stack, 1, n)[i] = stack[1 + i - 1]
      BY <2>2, <3>1
    <3>3. QED
      BY <3>1, <3>2
  <2>5. QED
    BY <2>2, <2>3, <2>4 DEF Front
<1>4. QED
  BY <1>1, <1>2, <1>3

(***************************************************************************)
(* Before anything has started no handler runs and no Future is open.      *)
(***************************************************************************)
LEMMA InitIInv == Init => IInv
<1>1. SUFFICES ASSUME Init
               PROVE  IInv
  OBVIOUS
<1> USE <1>1 DEF Init
<1>2. TypeOK
  BY CoroutineAssumption, EmptySeq DEF TypeOK, Phases
<1>3. StackHoldsRunning /\ RunnersNest
  BY DEF StackHoldsRunning, RunnersNest
<1>4. SendTargetAwaits /\ ResumedIsKnown
  BY DEF SendTargetAwaits, ResumedIsKnown, Handlers
<1>5. UnstartedKnowsNone
  BY DEF UnstartedKnowsNone
<1>6. QED
  BY <1>2, <1>3, <1>4, <1>5 DEF IInv

-----------------------------------------------------------------------------
(***************************************************************************)
(* Starting an operation or posting a callback touches no generator.       *)
(***************************************************************************)
LEMMA StartStep ==
    ASSUME IInv, NEW h \in Handlers, Start(h)
    PROVE  IInv'
<1> USE DEF IInv, TypeOK, Start
<1>1. TypeOK'
  BY DEF Phases, Open
<1>2. StackHoldsRunning'
  BY DEF StackHoldsRunning
<1>3. RunnersNest'
  BY DEF RunnersNest
<1>4. SendTargetAwaits'
  BY DEF SendTargetAwaits, Awaits, Open, UnstartedKnowsNone, Handlers
<1>5. ResumedIsKnown'
  BY DEF ResumedIsKnown, Awaits, Handlers
<1>6. UnstartedKnowsNone'
  BY DEF UnstartedKnowsNone, Handlers
<1>7. QED
  BY <1>1, <1>2, <1>3, <1>4, <1>5, <1>6

(***************************************************************************)
(* The loop invokes a handler: it becomes the innermost.                   *)
(***************************************************************************)
LEMMA DispatchStep ==
    ASSUME IInv, NEW h \in Handlers, NEW e \in ErrorCodes, Dispatch(h, e)
    PROVE  IInv'
<1> USE DEF IInv, TypeOK, Dispatch
<1>1. /\ stack' \in Seq(Handlers)
      /\ Len(stack) \in Nat /\ Len(stack') = Len(stack) + 1
      /\ \A i \in 1..Len(stack) : stack'[i] = stack[i] /\ stack[i] \in Handlers
      /\ stack'[Len(stack) + 1] = h
  BY AppendProperties, LenProperties
<1>2. \A i \in 1..Len(stack) : stack[i] # h
  BY DEF StackHoldsRunning
<1>3. TypeOK'
  BY <1>1 DEF Phases, Open
<1>4. StackHoldsRunning'
  <2>1. ASSUME NEW k \in Handlers
        PROVE  (\E i \in 1..Len(stack') : stack'[i] = k)
                   <=> k = h \/ \E i \in 1..Len(stack) : stack[i] = k
    BY <1>1
  <2>2. QED
    BY <2>1 DEF StackHoldsRunning
<1>5. RunnersNest'
  <2>1. \A i, j \in 1..Len(stack') : i # j => stack'[i] # stack'[j]
    BY <1>1, <1>2 DEF RunnersNest
  <2>2. \A k \in Handlers : (\E i \in 1..Len(stack) : stack[i] = k)
                                => \E i \in 1..Len(stack') : stack'[i] = k
    BY <1>1
  <2>3. QED
    BY <2>1, <2>2 DEF RunnersNest
<1>6. SendTargetAwaits'
  BY DEF SendTargetAwaits, Awaits, Open, Handlers
<1>7. ResumedIsKnown' /\ UnstartedKnowsNone'
  BY DEF ResumedIsKnown, UnstartedKnowsNone, Awaits, Handlers
<1>8. QED
  BY <1>3, <1>4, <1>5, <1>6, <1>7

(***************************************************************************)
(* The innermost handler's callback returns; the stack stays as it is.     *)
(***************************************************************************)
LEMMA CallbackReturnsStep ==
    ASSUME IInv, CallbackReturns
    PROVE  IInv'
<1> DEFINE h == Last(stack)
<1> USE DEF IInv, TypeOK, CallbackReturns
<1>1. h \in Handlers /\ phase[h] = "callback" /\ phase' = [phase EXCEPT ![h] = "returned"]
  BY StackTop
<1> HIDE DEF h
<1>2. TypeOK'
  BY <1>1 DEF Phases, Open
<1>3. StackHoldsRunning'
  BY <1>1 DEF StackHoldsRunning
<1>4. RunnersNest'
  BY DEF RunnersNest
<1>5. SendTargetAwaits' /\ ResumedIsKnown' /\ UnstartedKnowsNone'
  BY <1>1 DEF SendTargetAwaits, ResumedIsKnown, UnstartedKnowsNone, Awaits, Open, Handlers
<1>6. QED
  BY <1>2, <1>3, <1>4, <1>5

(***************************************************************************)
(* A handler on the stack that runs nothing may set a generator running    *)
(* that no handler runs.                                                   *)
(***************************************************************************)
LEMMA RunnerStarts ==
    ASSUME TypeOK, StackHoldsRunning, RunnersNest, NEW h \in Handlers, NEW g \in Generators,
           phase[h] \in {"callback", "returned"}, gstate[g] # "running", stack' = stack,
           runner' = [runner EXCEPT ![h] = g], gstate' = [gstate EXCEPT ![g] = "running"]
    PROVE  RunnersNest'
<1> USE DEF TypeOK
<1>1. runner[h] = None /\ \E i \in 1..Len(stack) : stack[i] = h
  BY DEF StackHoldsRunning
<1>2. g # None
  BY CoroutineAssumption
<1>3. \A k \in Handlers : runner[k] # g
  BY <1>2 DEF RunnersNest
<1>4. \A i, j \in 1..Len(stack) : i # j => stack[i] # stack[j]
  BY DEF RunnersNest
<1>5. ASSUME NEW k \in Handlers, runner'[k] # None
      PROVE  /\ gstate'[runner'[k]] = "running"
             /\ \E i \in 1..Len(stack) : stack[i] = k
             /\ \A l \in Handlers \ {k} : runner'[l] # runner'[k]
  <2>1. CASE k = h
    BY <1>1, <1>3, <2>1
  <2>2. CASE k # h
    <3>1. runner'[k] = runner[k] /\ runner[k] \in Generators /\ runner[k] # g
      BY <1>3, <1>5, <2>2
    <3>2. /\ gstate[runner[k]] = "running"
          /\ \E i \in 1..Len(stack) : stack[i] = k
          /\ \A l \in Handlers \ {k} : runner[l] # runner[k]
      BY <1>5, <3>1 DEF RunnersNest
    <3>3. QED
      BY <3>1, <3>2
  <2>3. QED
    BY <2>1, <2>2
<1>6. ASSUME NEW k \in Generators, gstate'[k] = "running"
      PROVE  \E l \in Handlers : runner'[l] = k
  <2>1. CASE k = g
    BY <2>1
  <2>2. CASE k # g
    <3>1. PICK l \in Handlers : runner[l] = k
      BY <1>6, <2>2 DEF RunnersNest
    <3>2. l # h
      BY <1>1, <3>1, CoroutineAssumption
    <3>3. QED
      BY <3>1, <3>2
  <2>3. QED
    BY <2>1, <2>2
<1>7. QED
  BY <1>4, <1>5, <1>6 DEF RunnersNest

(***************************************************************************)
(* It returns a generator, which nothing awaits or runs before it starts.  *)
(***************************************************************************)
LEMMA CallbackReturnsGeneratorStep ==
    ASSUME IInv, NEW g \in Generators, CallbackReturnsGenerator(g)
    PROVE  IInv'
<1> DEFINE h == Last(stack)
<1> USE DEF IInv, TypeOK, CallbackReturnsGenerator
<1>1. /\ h \in Handlers /\ phase[h] = "callback"
      /\ phase' = [phase EXCEPT ![h] = "starting"]
      /\ runner' = [runner EXCEPT ![h] = g]
  BY StackTop
<1> HIDE DEF h
<1>2. g # None /\ gstate[g] = "fresh"
  BY CoroutineAssumption
<1>3. TypeOK'
  BY <1>1 DEF Phases, Open
<1>4. StackHoldsRunning'
  BY <1>1, <1>2 DEF StackHoldsRunning
<1>5. RunnersNest'
  BY <1>1, <1>2, RunnerStarts
<1>6. SendTargetAwaits' /\ ResumedIsKnown' /\ UnstartedKnowsNone'
  BY <1>1, <1>2 DEF SendTargetAwaits, ResumedIsKnown, UnstartedKnowsNone, Awaits, Open, Handlers
<1>7. QED
  BY <1>3, <1>4, <1>5, <1>6

(***************************************************************************)
(* The Future resumes the generator it knows, which awaits it.             *)
(***************************************************************************)
LEMMA ResumeGeneratorStep ==
    ASSUME IInv, ResumeGenerator
    PROVE  IInv'
<1> DEFINE h == Last(stack)
           g == generator_[h]
<1> USE DEF IInv, TypeOK, ResumeGenerator
<1>1. /\ h \in Futures /\ phase[h] = "returned" /\ generator_[h] # None
      /\ phase' = [phase EXCEPT ![h] = "resuming"]
      /\ runner' = [runner EXCEPT ![h] = g]
      /\ gstate' = [gstate EXCEPT ![g] = "running"]
      /\ ec[h] \in ErrorCodes
  OBVIOUS
<1> HIDE DEF h
<1>2. h \in Handlers
  BY <1>1 DEF Handlers
<1>3. g \in Generators /\ g # None /\ gstate[g] = "suspended" /\ current[g] = h
  BY <1>1 DEF SendTargetAwaits, Awaits, Open
<1>4. TypeOK'
  <2>1. last_error_' \in ErrorCodes
    BY <1>1 DEF h
  <2>2. phase' \in [Handlers -> Phases]
    BY <1>1 DEF Phases
  <2>3. QED
    BY <1>1, <1>3, <2>1, <2>2
<1> HIDE DEF g
<1>5. StackHoldsRunning'
  BY <1>1, <1>2, <1>3 DEF StackHoldsRunning
<1>6. RunnersNest'
  BY <1>1, <1>2, <1>3, RunnerStarts
<1>7. SendTargetAwaits'
  BY <1>1, <1>2, <1>3 DEF SendTargetAwaits, Awaits, Open, Handlers
<1>8. ResumedIsKnown'
  BY <1>1, <1>2, <1>3 DEF ResumedIsKnown, Awaits, Handlers, g
<1>9. UnstartedKnowsNone'
  BY <1>1 DEF UnstartedKnowsNone, Handlers
<1>10. QED
  BY <1>4, <1>5, <1>6, <1>7, <1>8, <1>9

-----------------------------------------------------------------------------
(***************************************************************************)
(* The innermost handler leaves: the stack keeps the others.               *)
(***************************************************************************)
LEMMA LeaveStack ==
    ASSUME TypeOK, StackHoldsRunning, RunnersNest, stack # <<>>, Leave
    PROVE  /\ stack' \in Seq(Handlers)
           /\ \A i, j \in 1..Len(stack') : i # j => stack'[i] # stack'[j]
           /\ \A k \in Handlers : (\E i \in 1..Len(stack') : stack'[i] = k)
                  <=> k # Last(stack) /\ \E i \in 1..Len(stack) : stack[i] = k
           /\ StackHoldsRunning'
<1> DEFINE h == Last(stack)
           n == Len(stack)
<1>1. /\ n \in Nat \ {0} /\ h = stack[n] /\ h \in Handlers
      /\ stack' \in Seq(Handlers) /\ Len(stack') = n - 1
      /\ \A i \in 1..n - 1 : stack'[i] = stack[i]
      /\ phase' = [phase EXCEPT ![h] = "done"]
      /\ runner' = [runner EXCEPT ![h] = None]
  BY StackTop DEF TypeOK, Leave
<1>2. \A i, j \in 1..n : i # j => stack[i] # stack[j]
  BY DEF RunnersNest
<1> HIDE DEF h, n
<1>3. \A i, j \in 1..Len(stack') : i # j => stack'[i] # stack'[j]
  BY <1>1, <1>2
<1>4. ASSUME NEW k \in Handlers
      PROVE  (\E i \in 1..Len(stack') : stack'[i] = k) <=> k # h /\ \E i \in 1..n : stack[i] = k
  <2>1. ASSUME NEW i \in 1..Len(stack'), stack'[i] = k
        PROVE  k # h /\ \E j \in 1..n : stack[j] = k
    <3>1. i \in 1..n /\ i # n /\ stack[i] = k
      BY <1>1, <2>1
    <3>2. QED
      BY <1>1, <1>2, <3>1
  <2>2. ASSUME k # h, NEW i \in 1..n, stack[i] = k
        PROVE  \E j \in 1..Len(stack') : stack'[j] = k
    <3>1. i \in 1..n - 1
      BY <1>1, <2>2
    <3>2. QED
      BY <1>1, <2>2, <3>1
  <2>3. QED
    BY <2>1, <2>2
<1>5. StackHoldsRunning'
  <2>1. ASSUME NEW k \in Handlers
        PROVE  phase'[k] \in {"callback", "starting", "returned", "resuming"}
                   <=> \E i \in 1..Len(stack') : stack'[i] = k
    <3>1. phase[k] \in {"callback", "starting", "returned", "resuming"}
              <=> \E i \in 1..n : stack[i] = k
      BY DEF StackHoldsRunning, n
    <3>2. phase'[k] = IF k = h THEN "done" ELSE phase[k]
      BY <1>1 DEF TypeOK
    <3>3. QED
      BY <1>4, <3>1, <3>2
  <2>2. ASSUME NEW k \in Handlers
        PROVE  runner'[k] # None <=> phase'[k] \in {"starting", "resuming"}
    BY <1>1 DEF StackHoldsRunning, TypeOK
  <2>3. QED
    BY <2>1, <2>2 DEF StackHoldsRunning
<1>6. QED
  BY <1>1, <1>3, <1>4, <1>5 DEF h, n

(***************************************************************************)
(* resolve finds nobody to resume.                                         *)
(***************************************************************************)
LEMMA NothingToResumeStep ==
    ASSUME IInv, NothingToResume
    PROVE  IInv'
<1> DEFINE h == Last(stack)
<1> USE DEF IInv, NothingToResume
<1>1. /\ h \in Handlers /\ phase[h] = "returned"
      /\ phase' = [phase EXCEPT ![h] = "done"]
      /\ runner' = [runner EXCEPT ![h] = None]
      /\ ec' = ec
      /\ outdated' \in SUBSET Handlers
  BY StackTop DEF TypeOK, Leave
<1>2. /\ stack' \in Seq(Handlers)
      /\ \A i, j \in 1..Len(stack') : i # j => stack'[i] # stack'[j]
      /\ \A k \in Handlers : (\E i \in 1..Len(stack') : stack'[i] = k)
             <=> k # h /\ \E i \in 1..Len(stack) : stack[i] = k
      /\ StackHoldsRunning'
  BY LeaveStack
<1> HIDE DEF h
<1>3. runner[h] = None
  BY <1>1 DEF StackHoldsRunning
<1>4. TypeOK'
  BY <1>1, <1>2 DEF TypeOK, Phases
<1>5. RunnersNest'
  <2>1. runner' = runner
    BY <1>1, <1>3 DEF TypeOK
  <2>2. \A k \in Handlers : runner[k] # None => k # h
    BY <1>3
  <2>3. QED
    BY <1>2, <2>1, <2>2 DEF RunnersNest
<1>6. SendTargetAwaits' /\ ResumedIsKnown' /\ UnstartedKnowsNone'
  BY <1>1 DEF TypeOK, SendTargetAwaits, ResumedIsKnown, UnstartedKnowsNone, Awaits, Open, Handlers
<1>7. QED
  BY <1>2, <1>4, <1>5, <1>6

-----------------------------------------------------------------------------
(***************************************************************************)
(* What coroutine(k) does after generator g has stopped, if k is g or      *)
(* awaits a Future: no other generator moves, g no longer runs, and a      *)
(* Future learns only of a generator that awaits it.                       *)
(***************************************************************************)
LEMMA AdoptMoves ==
    ASSUME TypeOK, NEW g \in Generators, NEW k \in Generators,
           NEW v \in Futures \cup {None, Other}, NEW s \in {"suspended", "closed"},
           k = g \/ \E f \in Futures : Awaits(k, f),
           current' = [current EXCEPT ![g] = v],
           Adopt(k, [gstate EXCEPT ![g] = s], current')
    PROVE  /\ generator_' \in [Futures -> Generators \cup {None}]
           /\ gstate' \in [Generators -> {"fresh", "running", "suspended", "closed"}]
           /\ gstate'[g] \in {"suspended", "closed"}
           /\ \A j \in Generators \ {g} : gstate'[j] = gstate[j] /\ current'[j] = current[j]
           /\ \A f \in Futures : \/ generator_'[f] = generator_[f]
                                 \/ generator_'[f] = k /\ gstate'[k] = "suspended" /\ current'[k] = f
<1> DEFINE gs == [gstate EXCEPT ![g] = s]
<1> USE DEF TypeOK
<1>1. gs \in [Generators -> {"fresh", "running", "suspended", "closed"}]
  OBVIOUS
<1>2. CASE Registers(k, gs, current')
  <2>1. /\ current'[k] \in Futures
        /\ generator_' = [generator_ EXCEPT ![current'[k]] = k]
        /\ gstate' = gs
    BY <1>2 DEF Registers, Adopt
  <2>2. gs[k] = "suspended"
    <3>1. CASE k = g
      BY <1>2, <3>1 DEF Registers
    <3>2. CASE k # g
      BY <3>2 DEF Awaits
    <3>3. QED
      BY <3>1, <3>2
  <2>3. QED
    BY <1>1, <2>1, <2>2
<1>3. CASE ~ Registers(k, gs, current')
  <2>1. k = g
    <3>1. SUFFICES ASSUME k # g
                   PROVE  FALSE
      OBVIOUS
    <3>2. gs[k] = "suspended" /\ current'[k] \in Futures
      BY <3>1 DEF Awaits
    <3>3. QED
      BY <1>3, <3>2 DEF Registers
  <2>2. generator_' = generator_ /\ gstate' = [gs EXCEPT ![g] = "closed"]
    BY <1>3, <2>1 DEF Adopt
  <2>3. QED
    BY <1>1, <2>2
<1>4. QED
  BY <1>2, <1>3

(***************************************************************************)
(* After a generator g has stopped, whatever unresolved or resuming        *)
(* Futures knew before is as it was: they knew no running generator,       *)
(* except the Future that had resumed g.                                   *)
(***************************************************************************)
LEMMA StoppedKeepsWaiters ==
    ASSUME IInv, NEW h \in Handlers, runner[h] # None,
           \A j \in Generators \ {runner[h]} : gstate'[j] = gstate[j] /\ current'[j] = current[j],
           \A f \in Futures : \/ generator_'[f] = generator_[f]
                             \/ /\ gstate'[generator_'[f]] = "suspended"
                                /\ current'[generator_'[f]] = f,
           \A f \in Futures : generator_'[f] # generator_[f] =>
               generator_'[f] # None /\ phase[f] # "none",
           runner' = [runner EXCEPT ![h] = None],
           \/ phase[h] = "starting" /\ phase' = [phase EXCEPT ![h] = "returned"]
           \/ phase[h] = "resuming" /\ phase' = [phase EXCEPT ![h] = "done"]
    PROVE  SendTargetAwaits' /\ ResumedIsKnown' /\ UnstartedKnowsNone'
<1> DEFINE g == runner[h]
<1> USE DEF IInv, TypeOK
<1>1. g \in Generators /\ gstate[g] = "running"
  BY DEF RunnersNest
<1>2. \A k \in Handlers \ {h} : runner[k] # g
  BY DEF RunnersNest
<1> HIDE DEF g
<1>3. ASSUME NEW f \in Futures, Awaits(generator_[f], f), generator_[f] # None
      PROVE  gstate'[generator_[f]] = "suspended" /\ current'[generator_[f]] = f
  <2>1. generator_[f] \in Generators \ {g}
    BY <1>1, <1>3 DEF Awaits
  <2>2. QED
    BY <1>3, <2>1 DEF Awaits, g
<1>4. SendTargetAwaits'
  <2>1. SUFFICES ASSUME NEW f \in Futures, phase'[f] \in Open, generator_'[f] # None
                 PROVE  gstate'[generator_'[f]] = "suspended" /\ current'[generator_'[f]] = f
    BY DEF SendTargetAwaits, Awaits
  <2>2. CASE generator_'[f] = generator_[f]
    <3>1. f \in Handlers
      BY DEF Handlers
    <3>2. phase[f] \in Open
      BY <2>1, <3>1 DEF Open
    <3>3. Awaits(generator_[f], f)
      BY <2>1, <2>2, <3>2 DEF SendTargetAwaits
    <3>4. QED
      BY <1>3, <2>1, <2>2, <3>3
  <2>3. QED
    BY <2>2
<1>5. ResumedIsKnown'
  <2>1. SUFFICES ASSUME NEW f \in Handlers, phase'[f] = "resuming"
                 PROVE  /\ f \in Futures
                        /\ generator_'[f] # None
                        /\ \/ generator_'[f] = runner'[f]
                           \/ gstate'[generator_'[f]] = "suspended" /\ current'[generator_'[f]] = f
    BY DEF ResumedIsKnown, Awaits
  <2>2. f # h /\ phase[f] = "resuming" /\ runner'[f] = runner[f]
    BY <2>1
  <2>3. f \in Futures /\ generator_[f] # None /\ (generator_[f] = runner[f] \/ Awaits(generator_[f], f))
    BY <2>2 DEF ResumedIsKnown
  <2>4. CASE generator_'[f] = generator_[f]
    BY <1>3, <2>2, <2>3, <2>4
  <2>5. QED
    BY <2>3, <2>4
<1>6. UnstartedKnowsNone'
  BY DEF UnstartedKnowsNone, Handlers
<1>7. QED
  BY <1>4, <1>5, <1>6

(***************************************************************************)
(* A generator stops in the handler that runs it.                          *)
(***************************************************************************)
LEMMA GeneratorStopsStep ==
    ASSUME IInv, NEW v \in Futures \cup {None, Other}, NEW s \in {"suspended", "closed"},
           v \in Futures => phase[v] # "none",
           GeneratorStops(v, s)
    PROVE  IInv'
<1> DEFINE h == Last(stack)
           g == runner[h]
           k == IF phase[h] = "starting" THEN g ELSE generator_[h]
<1> USE DEF IInv
<1>1. /\ h \in Handlers
      /\ phase[h] \in {"starting", "resuming"}
      /\ current' = [current EXCEPT ![g] = v]
      /\ Adopt(k, [gstate EXCEPT ![g] = s], current')
      /\ runner' = [runner EXCEPT ![h] = None]
      /\ ec' = ec /\ last_error_' = last_error_
      /\ late' = IF v \in Futures /\ phase[v] \notin Open THEN late \cup {g} ELSE late \ {g}
      /\ displaced' = IF v \in Futures /\ k = g
                      THEN displaced \cup (PushedOut(v) \ {g}) ELSE displaced
      /\ outdated' \in SUBSET Handlers
  BY StackTop DEF GeneratorStops, Stopped, TypeOK, Leave
<1>2. \/ /\ phase[h] = "starting"
         /\ phase' = [phase EXCEPT ![h] = "returned"] /\ stack' = stack
      \/ phase[h] = "resuming" /\ Leave /\ phase' = [phase EXCEPT ![h] = "done"]
  BY DEF GeneratorStops, Leave
<1>3. /\ stack' \in Seq(Handlers)
      /\ \A i, j \in 1..Len(stack') : i # j => stack'[i] # stack'[j]
      /\ \A l \in Handlers \ {h} : (\E i \in 1..Len(stack') : stack'[i] = l)
             <=> \E i \in 1..Len(stack) : stack[i] = l
      /\ StackHoldsRunning'
  <2>1. CASE phase[h] = "starting"
    <3>1. StackHoldsRunning'
      <4> HIDE DEF h
      <4>1. QED
        BY <1>1, <1>2, <2>1 DEF StackHoldsRunning, TypeOK
    <3>2. QED
      BY <1>2, <2>1, <3>1 DEF TypeOK, RunnersNest
  <2>2. CASE phase[h] = "resuming"
    <3>1. stack # <<>> /\ Leave
      BY <1>2, <2>2 DEF GeneratorStops
    <3>2. QED
      BY <3>1, LeaveStack
  <2>3. QED
    BY <1>1, <2>1, <2>2
<1> HIDE DEF h
<1>4. g \in Generators /\ g # None /\ gstate[g] = "running"
  BY <1>1 DEF StackHoldsRunning, RunnersNest, TypeOK
<1>5. k \in Generators /\ (k = g \/ (h \in Futures /\ phase[h] = "resuming" /\ Awaits(k, h)))
  <2>1. CASE phase[h] = "starting"
    BY <1>4, <2>1
  <2>2. CASE phase[h] = "resuming"
    <3>1. h \in Futures
      BY <1>1, <1>2, <2>2 DEF ResumedIsKnown, TypeOK, StackHoldsRunning
    <3>2. k = generator_[h] /\ k # None /\ k \in Generators
      <4>1. generator_[h] # None
        BY <1>1, <2>2 DEF ResumedIsKnown
      <4>2. generator_[h] \in Generators
        BY <3>1, <4>1 DEF TypeOK
      <4>3. QED
        BY <2>2, <4>1, <4>2
    <3>3. k = g \/ Awaits(k, h)
      BY <1>1, <2>2, <3>2 DEF ResumedIsKnown
    <3>4. QED
      BY <2>2, <3>1, <3>2, <3>3
  <2>3. QED
    BY <1>1, <2>1, <2>2
<1> HIDE DEF g, k
<1>6. /\ generator_' \in [Futures -> Generators \cup {None}]
      /\ gstate' \in [Generators -> {"fresh", "running", "suspended", "closed"}]
      /\ gstate'[g] \in {"suspended", "closed"}
      /\ \A j \in Generators \ {g} : gstate'[j] = gstate[j] /\ current'[j] = current[j]
      /\ \A f \in Futures :
            \/ generator_'[f] = generator_[f]
            \/ generator_'[f] = k /\ gstate'[k] = "suspended" /\ current'[k] = f
  <2>1. k = g \/ \E f \in Futures : Awaits(k, f)
    BY <1>5
  <2>2. QED
    BY <1>1, <1>4, <1>5, <2>1, AdoptMoves
<1>7. TypeOK'
  <2>1. phase' \in [Handlers -> Phases] /\ current' \in [Generators -> Futures \cup {None, Other}]
    BY <1>1, <1>2, <1>4 DEF TypeOK, Phases, Open
  <2>2. late' \in SUBSET Generators /\ displaced' \in SUBSET Generators
        /\ outdated' \in SUBSET Handlers
    BY <1>1, <1>4 DEF TypeOK, PushedOut
  <2>3. runner' \in [Handlers -> Generators \cup {None}]
    BY <1>1 DEF TypeOK
  <2>4. QED
    BY <1>1, <1>3, <1>6, <2>1, <2>2, <2>3 DEF TypeOK
<1>8. RunnersNest'
  <2>1. \A l \in Handlers \ {h} : runner'[l] = runner[l] /\ runner[l] # g
    BY <1>1, <1>4 DEF RunnersNest, TypeOK, g
  <2>2. runner'[h] = None
    BY <1>1 DEF TypeOK
  <2>3. ASSUME NEW l \in Handlers, runner'[l] # None
        PROVE  /\ gstate'[runner'[l]] = "running"
               /\ \E i \in 1..Len(stack') : stack'[i] = l
               /\ \A m \in Handlers \ {l} : runner'[m] # runner'[l]
    <3>1. l # h /\ runner'[l] = runner[l] /\ runner[l] # g /\ runner[l] # None
      BY <2>1, <2>2, <2>3
    <3>2. /\ gstate[runner[l]] = "running"
          /\ \E i \in 1..Len(stack) : stack[i] = l
          /\ \A m \in Handlers \ {l} : runner[m] # runner[l]
      BY <3>1 DEF RunnersNest
    <3>3. runner[l] \in Generators
      BY <3>1 DEF TypeOK
    <3>4. QED
      BY <1>3, <1>6, <2>1, <2>2, <3>1, <3>2, <3>3
  <2>4. ASSUME NEW j \in Generators, gstate'[j] = "running"
        PROVE  \E l \in Handlers : runner'[l] = j
    <3>1. j # g /\ gstate[j] = "running"
      BY <1>6, <2>4
    <3>2. PICK l \in Handlers : runner[l] = j
      BY <3>1 DEF RunnersNest
    <3>3. QED
      BY <2>1, <3>1, <3>2 DEF g
  <2>5. QED
    BY <1>3, <2>3, <2>4 DEF RunnersNest
<1>9. SendTargetAwaits' /\ ResumedIsKnown' /\ UnstartedKnowsNone'
  <2>1. ASSUME NEW f \in Futures, generator_'[f] # generator_[f]
        PROVE  phase[f] # "none"
    <3>1. generator_'[f] = k /\ current'[k] = f
      BY <1>6, <2>1
    <3>2. CASE k = g
      BY <1>1, <1>4, <3>1, <3>2 DEF TypeOK
    <3>3. CASE k # g
      BY <1>5, <1>6, <3>1, <3>3 DEF Awaits
    <3>4. QED
      BY <3>2, <3>3
  <2>2. k # None
    BY <1>5, CoroutineAssumption
  <2>3. \A f \in Futures : \/ generator_'[f] = generator_[f]
                           \/ /\ gstate'[generator_'[f]] = "suspended"
                              /\ current'[generator_'[f]] = f
    BY <1>6
  <2>4. \A f \in Futures : generator_'[f] # generator_[f] =>
            generator_'[f] # None /\ phase[f] # "none"
    BY <1>6, <2>1, <2>2
  <2>5. /\ runner[h] # None
        /\ \A j \in Generators \ {runner[h]} : gstate'[j] = gstate[j] /\ current'[j] = current[j]
    BY <1>4, <1>6 DEF g
  <2>6. QED
    BY <1>1, <1>2, <2>3, <2>4, <2>5, StoppedKeepsWaiters
<1>10. QED
  BY <1>3, <1>7, <1>8, <1>9

-----------------------------------------------------------------------------
(***************************************************************************)
(* The inductive invariant: whatever the script does, the stack, the       *)
(* generators that run and those the Futures know fit together.            *)
(***************************************************************************)
THEOREM IInvAlways == Spec => []IInv
<1>1. Init => IInv
  BY InitIInv
<1>2. IInv /\ [Next]_vars => IInv'
  <2>1. SUFFICES ASSUME IInv, [Next]_vars
                 PROVE  IInv'
    OBVIOUS
  <2>2. ASSUME NEW h \in Handlers, Start(h)
        PROVE  IInv'
    BY <2>1, <2>2, StartStep
  <2>3. ASSUME NEW h \in Handlers, DispatchSome(h)
        PROVE  IInv'
    BY <2>1, <2>3, DispatchStep DEF DispatchSome
  <2>4. CASE CallbackReturns
    BY <2>1, <2>4, CallbackReturnsStep
  <2>5. ASSUME NEW g \in Generators, CallbackReturnsGenerator(g)
        PROVE  IInv'
    BY <2>1, <2>5, CallbackReturnsGeneratorStep
  <2>6. ASSUME NEW v \in Futures \cup {Other}, GeneratorYields(v)
        PROVE  IInv'
    BY <2>1, <2>6, GeneratorStopsStep DEF GeneratorYields
  <2>7. CASE GeneratorReturns
    BY <2>1, <2>7, CoroutineAssumption, GeneratorStopsStep DEF GeneratorReturns
  <2>8. CASE ResumeGenerator
    BY <2>1, <2>8, ResumeGeneratorStep
  <2>9. CASE NothingToResume
    BY <2>1, <2>9, NothingToResumeStep
  <2>10. CASE UNCHANGED vars
    BY <2>1, <2>10 DEF vars, handlers, IInv, TypeOK, StackHoldsRunning, RunnersNest,
                       SendTargetAwaits, ResumedIsKnown, UnstartedKnowsNone, Awaits
  <2>11. QED
    BY <2>1, <2>2, <2>3, <2>4, <2>5, <2>6, <2>7, <2>8, <2>9, <2>10 DEF Next, Proceed
<1>3. QED
  BY <1>1, <1>2, PTL DEF Spec

(***************************************************************************)
(* future::resolve (lines 47 to 49) never sends to a generator that is     *)
(* running, finished or suspended on something else.                       *)
(***************************************************************************)
THEOREM SendTargetAwaitsAlways == Spec => []SendTargetAwaits
<1>1. IInv => SendTargetAwaits
  BY DEF IInv
<1>2. QED
  BY <1>1, IInvAlways, PTL

-----------------------------------------------------------------------------
(***************************************************************************)
(* A handler that a coroutine of another handler was resumed in does not   *)
(* keep the error it has published; every other does.                      *)
(***************************************************************************)
LEMMA LastErrorStep ==
    ASSUME IInv, LastErrorIsOwn, Next
    PROVE  LastErrorIsOwn'
<1> USE DEF LastErrorIsOwn
<1>1. ASSUME NEW h \in Handlers, Start(h)
      PROVE  LastErrorIsOwn'
  BY <1>1 DEF Start, IInv, TypeOK
<1>2. ASSUME NEW h \in Handlers, NEW e \in ErrorCodes, Dispatch(h, e)
      PROVE  LastErrorIsOwn'
  <2>1. SUFFICES ASSUME NEW k \in Handlers \ outdated', phase'[k] = "resuming"
                 PROVE  last_error_' = ec'[k]
    OBVIOUS
  <2>2. k # h /\ phase[k] = "resuming" /\ k \notin outdated
    BY <1>2, <2>1 DEF Dispatch, IInv, TypeOK
  <2>3. k \in Futures
    BY <2>2 DEF IInv, ResumedIsKnown
  <2>4. QED
    BY <1>2, <2>2, <2>3 DEF Dispatch
<1>3. CASE CallbackReturns \/ \E g \in Generators : CallbackReturnsGenerator(g)
  <2>1. /\ phase'[Last(stack)] # "resuming" \/ phase' = phase
        /\ \A k \in Handlers \ {Last(stack)} : phase'[k] = phase[k]
    BY <1>3, StackTop DEF CallbackReturns, CallbackReturnsGenerator, IInv, TypeOK
  <2>2. UNCHANGED <<outdated, last_error_, ec>>
    BY <1>3 DEF CallbackReturns, CallbackReturnsGenerator
  <2>3. QED
    BY <2>1, <2>2
<1>4. CASE \/ \E v \in Futures \cup {None, Other}, s \in {"suspended", "closed"} : GeneratorStops(v, s)
           \/ NothingToResume
  <2>1. /\ phase'[Last(stack)] # "resuming"
        /\ \A k \in Handlers \ {Last(stack)} : phase'[k] = phase[k]
        /\ outdated' \in {outdated, outdated \ {Last(stack)}}
        /\ UNCHANGED <<last_error_, ec>>
    BY <1>4, StackTop DEF GeneratorStops, NothingToResume, Leave, IInv, TypeOK
  <2>2. QED
    BY <2>1
<1>5. CASE ResumeGenerator
  <2>1. SUFFICES ASSUME NEW k \in Handlers \ outdated', phase'[k] = "resuming"
                 PROVE  last_error_' = ec'[k]
    OBVIOUS
  <2>2. /\ Len(stack) \in Nat \ {0} /\ Last(stack) = stack[Len(stack)]
        /\ last_error_' = ec[Last(stack)] /\ ec' = ec
        /\ phase' = [phase EXCEPT ![Last(stack)] = "resuming"]
        /\ outdated' = outdated \cup {stack[i] : i \in 1..Len(stack) - 1}
    BY <1>5, StackTop DEF ResumeGenerator, IInv, TypeOK
  <2>3. ASSUME k # Last(stack)
        PROVE  FALSE
    <3>1. phase[k] = "resuming"
      BY <2>1, <2>2, <2>3 DEF IInv, TypeOK
    <3>2. PICK i \in 1..Len(stack) : stack[i] = k
      BY <3>1 DEF IInv, StackHoldsRunning
    <3>3. i \in 1..Len(stack) - 1
      BY <2>2, <2>3, <3>2
    <3>4. QED
      BY <2>1, <2>2, <3>2, <3>3
  <2>4. QED
    BY <2>2, <2>3
<1>6. QED
  BY <1>1, <1>2, <1>3, <1>4, <1>5
     DEF Next, Proceed, DispatchSome, GeneratorYields, GeneratorReturns

(***************************************************************************)
(* A coroutine asks for the error of the Future it was resumed by and gets *)
(* it, unless a handler nested in it has resumed another (last_error_).    *)
(***************************************************************************)
THEOREM LastErrorIsOwnAlways == Spec => []LastErrorIsOwn
<1>1. Init => LastErrorIsOwn
  BY DEF Init, LastErrorIsOwn
<1>2. IInv /\ LastErrorIsOwn /\ [Next]_vars => LastErrorIsOwn'
  <2>1. ASSUME LastErrorIsOwn, UNCHANGED vars
        PROVE  LastErrorIsOwn'
    BY <2>1 DEF vars, handlers, LastErrorIsOwn
  <2>2. QED
    BY <2>1, LastErrorStep
<1>3. QED
  BY <1>1, <1>2, IInvAlways, PTL DEF Spec

-----------------------------------------------------------------------------
(***************************************************************************)
(* What a generator that stops does to the places at Futures: it takes one *)
(* if it is the generator that is adopted and has yielded a Future, and it *)
(* changes no other.                                                       *)
(***************************************************************************)
LEMMA StopTakesPlace ==
    ASSUME IInv, NEW v \in Futures \cup {None, Other}, NEW s \in {"suspended", "closed"},
           GeneratorStops(v, s)
    PROVE  LET h == Last(stack)
               g == runner[h]
           IN
           /\ h \in Handlers /\ g \in Generators /\ gstate[g] = "running"
           /\ \/ phase[h] = "starting" /\ phase' = [phase EXCEPT ![h] = "returned"]
                                     /\ Stopped(h) = g
              \/ phase[h] = "resuming" /\ phase' = [phase EXCEPT ![h] = "done"] /\ h \in Futures
                                     /\ Stopped(h) = generator_[h]
           /\ runner' = [runner EXCEPT ![h] = None]
           /\ \A j \in Generators \ {g} : gstate'[j] = gstate[j] /\ current'[j] = current[j]
           /\ current'[g] = v /\ gstate'[g] \in {"suspended", "closed"}
           /\ Stopped(h) # g => generator_' = generator_
           /\ \A f \in Futures \ {v} : generator_'[f] = generator_[f]
           /\ gstate'[g] = "suspended" /\ v \in Futures /\ Stopped(h) = g => generator_'[v] = g
           /\ s = "suspended" /\ v \in Futures /\ Stopped(h) = g => gstate'[g] = "suspended"
           /\ v \in Futures => generator_'[v] \in {g, generator_[v]}
<1> DEFINE h == Last(stack)
           g == runner[h]
           k == Stopped(h)
           gs == [gstate EXCEPT ![g] = s]
<1> USE DEF IInv
<1>1. /\ h \in Handlers /\ phase[h] \in {"starting", "resuming"}
      /\ current' = [current EXCEPT ![g] = v]
      /\ Adopt(k, gs, current')
      /\ runner' = [runner EXCEPT ![h] = None]
      /\ \/ phase[h] = "starting" /\ phase' = [phase EXCEPT ![h] = "returned"]
         \/ phase[h] = "resuming" /\ phase' = [phase EXCEPT ![h] = "done"]
  BY StackTop DEF GeneratorStops, TypeOK, Leave
<1>2. k = IF phase[h] = "starting" THEN g ELSE generator_[h]
  BY DEF Stopped
<1> HIDE DEF h, k
<1>3. g \in Generators /\ gstate[g] = "running"
  BY <1>1 DEF StackHoldsRunning, RunnersNest, TypeOK
<1>4. phase[h] = "resuming" => h \in Futures /\ k \in Generators /\ (k = g \/ Awaits(k, h))
  BY <1>1, <1>2 DEF ResumedIsKnown, TypeOK
<1>5. k \in Generators /\ (k = g \/ \E f \in Futures : Awaits(k, f) /\ generator_[f] = k)
  BY <1>1, <1>2, <1>3, <1>4
<1>6. \A j \in Generators \ {g} : gs[j] = gstate[j] /\ current'[j] = current[j]
  BY <1>1 DEF TypeOK
<1>7. current'[g] = v /\ gs[g] = s
  BY <1>1, <1>3 DEF TypeOK
<1>8. CASE k = g
  <2>1. CASE Registers(k, gs, current')
    <3>1. v \in Futures /\ gstate' = gs /\ generator_' = [generator_ EXCEPT ![v] = g]
      BY <1>1, <1>7, <1>8, <2>1 DEF Registers, Adopt
    <3>2. /\ generator_'[v] = g
          /\ \A f \in Futures \ {v} : generator_'[f] = generator_[f]
      BY <3>1 DEF TypeOK
    <3> HIDE DEF gs
    <3>3. QED
      BY <1>1, <1>2, <1>3, <1>4, <1>6, <1>7, <1>8, <3>1, <3>2 DEF h, k
  <2>2. CASE ~ Registers(k, gs, current')
    <3>1. gstate' = [gs EXCEPT ![g] = "closed"] /\ generator_' = generator_
          /\ ~ (s = "suspended" /\ v \in Futures)
      BY <1>1, <1>7, <1>8, <2>2 DEF Adopt, Registers
    <3>2. /\ gstate'[g] = "closed"
          /\ \A j \in Generators \ {g} : gstate'[j] = gstate[j]
      BY <1>3, <3>1 DEF TypeOK
    <3> HIDE DEF gs
    <3>3. QED
      BY <1>1, <1>2, <1>3, <1>4, <1>6, <1>7, <1>8, <3>1, <3>2 DEF h, k
  <2>3. QED
    BY <2>1, <2>2
<1>9. CASE k # g
  <2>1. PICK f \in Futures : Awaits(k, f) /\ generator_[f] = k
    BY <1>5, <1>9
  <2>2. gs[k] = "suspended" /\ current'[k] = f
    BY <1>5, <1>6, <1>9, <2>1 DEF Awaits
  <2>3. Registers(k, gs, current')
    BY <2>2 DEF Registers
  <2>4. gstate' = gs /\ generator_' = [generator_ EXCEPT ![f] = k]
    BY <1>1, <2>2, <2>3 DEF Adopt
  <2>5. generator_' = generator_
    BY <2>1, <2>4 DEF TypeOK
  <2> HIDE DEF gs
  <2>6. QED
    BY <1>1, <1>2, <1>3, <1>4, <1>6, <1>7, <1>9, <2>4, <2>5 DEF h, k
<1>10. QED
  BY <1>8, <1>9

(***************************************************************************)
(* A generator that stops is known to its Future if it yielded in time and *)
(* has kept its place; it pushes out whoever waited there before.          *)
(***************************************************************************)
LEMMA WaiterStopsStep ==
    ASSUME IInv, TimelyWaiterIsKnown, ResumedKeepsPlace,
           NEW v \in Futures \cup {None, Other}, NEW s \in {"suspended", "closed"},
           GeneratorStops(v, s)
    PROVE  TimelyWaiterIsKnown' /\ ResumedKeepsPlace'
<1> DEFINE h == Last(stack)
           g == runner[h]
           k == Stopped(h)
<1>1. /\ h \in Handlers /\ g \in Generators /\ gstate[g] = "running"
      /\ \/ phase[h] = "starting" /\ phase' = [phase EXCEPT ![h] = "returned"] /\ k = g
         \/ phase[h] = "resuming" /\ phase' = [phase EXCEPT ![h] = "done"] /\ h \in Futures
                                /\ k = generator_[h]
      /\ runner' = [runner EXCEPT ![h] = None]
      /\ \A j \in Generators \ {g} : gstate'[j] = gstate[j] /\ current'[j] = current[j]
      /\ current'[g] = v
      /\ k # g => generator_' = generator_
      /\ \A f \in Futures \ {v} : generator_'[f] = generator_[f]
      /\ gstate'[g] = "suspended" /\ v \in Futures /\ k = g => generator_'[v] = g
      /\ v \in Futures => generator_'[v] \in {g, generator_[v]}
  BY StopTakesPlace, Zenon
<1>2. /\ late' = IF v \in Futures /\ phase[v] \notin Open THEN late \cup {g} ELSE late \ {g}
      /\ displaced' = IF v \in Futures /\ k = g
                      THEN displaced \cup (PushedOut(v) \ {g}) ELSE displaced
  BY DEF GeneratorStops
<1>3. \A l \in Handlers \ {h} : phase'[l] = phase[l] /\ runner'[l] = runner[l] /\ runner[l] # g
  BY <1>1, CoroutineAssumption DEF IInv, RunnersNest, TypeOK
<1>4. phase'[h] \in Open <=> phase[h] \in Open
  BY <1>1 DEF IInv, TypeOK, Open
<1>5. phase'[h] # "resuming"
  BY <1>1 DEF IInv, TypeOK
<1>6. displaced \subseteq displaced' /\ late \ {g} \subseteq late'
  BY <1>2
<1> HIDE DEF h, g, k
<1>7. TimelyWaiterIsKnown'
  <2>1. SUFFICES ASSUME NEW j \in Generators \ (late' \cup displaced'), NEW f \in Futures,
                        gstate'[j] = "suspended", current'[j] = f
                 PROVE  phase'[f] \in Open /\ generator_'[f] = j
    BY DEF TimelyWaiterIsKnown, Awaits
  <2>2. f \in Handlers
    BY DEF Handlers
  <2>3. CASE j = g
    <3>1. v = f /\ phase[f] \in Open
      BY <1>1, <1>2, <2>1, <2>3
    <3>2. phase'[f] \in Open
      BY <1>3, <1>4, <2>2, <3>1
    <3>3. k = g
      BY <1>1, <1>6, <2>1, <2>3 DEF ResumedKeepsPlace, g
    <3>4. QED
      BY <1>1, <2>1, <2>3, <3>1, <3>2, <3>3
  <2>4. CASE j # g
    <3>1. Awaits(j, f) /\ j \notin late /\ j \notin displaced
      BY <1>1, <1>6, <2>1, <2>4 DEF Awaits
    <3>2. phase[f] \in Open /\ generator_[f] = j
      BY <2>1, <3>1 DEF TimelyWaiterIsKnown
    <3>3. phase'[f] \in Open
      BY <1>3, <1>4, <2>2, <3>2
    <3>4. f = v => k # g
      BY <1>2, <2>1, <2>4, <3>1 DEF PushedOut, Awaits
    <3>5. generator_'[f] = generator_[f]
      BY <1>1, <3>4
    <3>6. QED
      BY <3>2, <3>3, <3>5
  <2>5. QED
    BY <2>3, <2>4
<1>8. ResumedKeepsPlace'
  <2>1. SUFFICES ASSUME NEW f \in Futures, phase'[f] = "resuming", runner'[f] \notin displaced'
                 PROVE  generator_'[f] = runner'[f]
    BY DEF ResumedKeepsPlace
  <2>2. f \in Handlers /\ f # h /\ phase[f] = "resuming" /\ runner'[f] = runner[f] /\ runner[f] # g
    BY <1>3, <1>5, <2>1 DEF Handlers
  <2>3. generator_[f] = runner[f]
    BY <1>6, <2>1, <2>2 DEF ResumedKeepsPlace
  <2>4. f = v => k # g
    <3>1. runner[f] \in Generators
      BY <2>2 DEF IInv, StackHoldsRunning, TypeOK
    <3>2. QED
      BY <1>2, <2>1, <2>2, <3>1 DEF PushedOut
  <2>5. generator_'[f] = generator_[f]
    BY <1>1, <2>4
  <2>6. QED
    BY <2>2, <2>3, <2>5
<1>9. QED
  BY <1>7, <1>8

(***************************************************************************)
(* The other steps: only ResumeGenerator takes a waiter from its place.    *)
(***************************************************************************)
LEMMA WaiterStep ==
    ASSUME IInv, TimelyWaiterIsKnown, ResumedKeepsPlace, Next
    PROVE  TimelyWaiterIsKnown' /\ ResumedKeepsPlace'
<1> USE DEF TimelyWaiterIsKnown, ResumedKeepsPlace, Awaits, Handlers
<1>1. ASSUME NEW h \in Handlers, Start(h)
      PROVE  TimelyWaiterIsKnown' /\ ResumedKeepsPlace'
  BY <1>1 DEF Start, IInv, TypeOK, Open
<1>2. ASSUME NEW h \in Handlers, NEW e \in ErrorCodes, Dispatch(h, e)
      PROVE  TimelyWaiterIsKnown' /\ ResumedKeepsPlace'
  BY <1>2 DEF Dispatch, IInv, TypeOK, Open
<1>3. CASE CallbackReturns
  BY <1>3, StackTop DEF CallbackReturns, IInv, TypeOK, Open
<1>4. ASSUME NEW g \in Generators, CallbackReturnsGenerator(g)
      PROVE  TimelyWaiterIsKnown' /\ ResumedKeepsPlace'
  BY <1>4, StackTop DEF CallbackReturnsGenerator, IInv, TypeOK, Open
<1>5. ASSUME NEW v \in Futures \cup {None, Other}, NEW s \in {"suspended", "closed"},
             GeneratorStops(v, s)
      PROVE  TimelyWaiterIsKnown' /\ ResumedKeepsPlace'
  BY <1>5, WaiterStopsStep
<1>6. CASE ResumeGenerator
  <2>1. PICK f \in Futures : /\ f = Last(stack) /\ generator_[f] \in Generators
                             /\ phase' = [phase EXCEPT ![f] = "resuming"]
                             /\ runner' = [runner EXCEPT ![f] = generator_[f]]
                             /\ gstate' = [gstate EXCEPT ![generator_[f]] = "running"]
                             /\ UNCHANGED <<generator_, current, late, displaced>>
    BY <1>6 DEF ResumeGenerator, IInv, TypeOK
  <2>2. QED
    BY <2>1 DEF IInv, TypeOK, Open
<1>7. CASE NothingToResume
  BY <1>7, StackTop, CoroutineAssumption DEF NothingToResume, Leave, IInv, TypeOK, Open
<1>8. QED
  BY <1>1, <1>2, <1>3, <1>4, <1>5, <1>6, <1>7
     DEF Next, Proceed, DispatchSome, GeneratorYields, GeneratorReturns

(***************************************************************************)
(* A coroutine that yielded a Future in time and whose place no other took *)
(* is known to that Future, however deep handlers nest.                    *)
(***************************************************************************)
THEOREM TimelyWaiterIsKnownAlways == Spec => []TimelyWaiterIsKnown
<1>1. Init => TimelyWaiterIsKnown /\ ResumedKeepsPlace
  BY DEF Init, TimelyWaiterIsKnown, ResumedKeepsPlace, Awaits, Handlers
<1>2. IInv /\ TimelyWaiterIsKnown /\ ResumedKeepsPlace /\ [Next]_vars
          => TimelyWaiterIsKnown' /\ ResumedKeepsPlace'
  <2>1. ASSUME TimelyWaiterIsKnown, ResumedKeepsPlace, UNCHANGED vars
        PROVE  TimelyWaiterIsKnown' /\ ResumedKeepsPlace'
    BY <2>1 DEF vars, handlers, TimelyWaiterIsKnown, ResumedKeepsPlace, Awaits
  <2>2. QED
    BY <2>1, WaiterStep
<1>3. QED
  BY <1>1, <1>2, IInvAlways, PTL DEF Spec

-----------------------------------------------------------------------------
(***************************************************************************)
(* A generator that stops is known to a Future only if it has not lost its *)
(* place, and it may push out others.                                      *)
(***************************************************************************)
LEMMA DisplacedStopsStep ==
    ASSUME IInv, DisplacedAreUnknown,
           NEW v \in Futures \cup {None, Other}, NEW s \in {"suspended", "closed"},
           v \in Futures => s = "suspended",
           GeneratorStops(v, s)
    PROVE  DisplacedAreUnknown'
<1> DEFINE h == Last(stack)
           g == runner[h]
           k == Stopped(h)
<1>1. /\ h \in Handlers /\ g \in Generators /\ gstate[g] = "running"
      /\ \/ phase[h] = "starting" /\ phase' = [phase EXCEPT ![h] = "returned"] /\ k = g
         \/ phase[h] = "resuming" /\ phase' = [phase EXCEPT ![h] = "done"] /\ h \in Futures
                                /\ k = generator_[h]
      /\ runner' = [runner EXCEPT ![h] = None]
      /\ \A j \in Generators \ {g} : gstate'[j] = gstate[j] /\ current'[j] = current[j]
      /\ current'[g] = v /\ gstate'[g] \in {"suspended", "closed"}
      /\ k # g => generator_' = generator_
      /\ \A f \in Futures \ {v} : generator_'[f] = generator_[f]
      /\ gstate'[g] = "suspended" /\ v \in Futures /\ k = g => generator_'[v] = g
      /\ s = "suspended" /\ v \in Futures /\ k = g => gstate'[g] = "suspended"
      /\ v \in Futures => generator_'[v] \in {g, generator_[v]}
  BY StopTakesPlace, Zenon
<1>2. displaced' = IF v \in Futures /\ k = g
                   THEN displaced \cup (PushedOut(v) \ {g}) ELSE displaced
  BY DEF GeneratorStops
<1>3. \A l \in Handlers \ {h} : phase'[l] = phase[l] /\ runner'[l] = runner[l] /\ runner[l] # g
  BY <1>1, CoroutineAssumption DEF IInv, RunnersNest, TypeOK
<1>4. phase'[h] \notin {"starting", "resuming"} /\ (phase'[h] \in Open => phase[h] = "starting")
  BY <1>1 DEF IInv, TypeOK, Open
<1>5. gstate'[g] # "fresh"
  BY <1>1
<1>6. k = g => g \notin displaced
  <2>1. phase[h] = "starting" => g \notin displaced
    BY <1>1 DEF DisplacedAreUnknown
  <2>2. phase[h] = "resuming" => k \notin displaced
    <3> HIDE DEF h, g, k
    <3>1. QED
      BY <1>1 DEF DisplacedAreUnknown
  <2> HIDE DEF h, g, k
  <2>3. QED
    BY <1>1, <2>1, <2>2
<1> HIDE DEF h, g, k
<1>7. \A j \in PushedOut(v) : v \in Futures => gstate[j] \in {"suspended", "running"}
  BY CoroutineAssumption DEF PushedOut, IInv, RunnersNest, Handlers
<1>8. ASSUME NEW j \in displaced'
      PROVE  gstate'[j] # "fresh"
  <2>1. CASE j = g
    BY <1>5, <2>1
  <2>2. CASE j # g
    <3>1. j \in Generators /\ gstate[j] # "fresh"
      BY <1>2, <1>7, <1>8 DEF DisplacedAreUnknown, IInv, TypeOK, PushedOut
    <3>2. QED
      BY <1>1, <2>2, <3>1
  <2>3. QED
    BY <2>1, <2>2
<1>9. ASSUME NEW l \in Handlers, phase'[l] = "starting"
      PROVE  runner'[l] \notin displaced'
  <2>1. l # h /\ phase[l] = "starting" /\ runner'[l] = runner[l] /\ runner[l] # None
    BY <1>3, <1>4, <1>9 DEF IInv, StackHoldsRunning
  <2>2. runner[l] \notin displaced /\ gstate[runner[l]] = "running"
    BY <2>1 DEF DisplacedAreUnknown, IInv, RunnersNest
  <2>3. ASSUME v \in Futures
        PROVE  runner[l] \notin PushedOut(v)
    <3>1. runner[l] = runner[v] => v = l
      BY <2>1, <2>3 DEF IInv, RunnersNest, Handlers
    <3>2. QED
      BY <2>1, <2>2, <3>1 DEF PushedOut
  <2>4. QED
    BY <1>2, <2>1, <2>2, <2>3
<1>10. ASSUME NEW f \in Futures, phase'[f] \in Open \cup {"resuming"}
       PROVE  generator_'[f] \notin displaced'
  <2>1. CASE generator_'[f] = g /\ k = g
    BY <1>2, <1>6, <2>1
  <2>2. CASE generator_'[f] = generator_[f] /\ ~ (f = v /\ k = g)
    <3>1. f \in Handlers /\ phase[f] \in Open \cup {"resuming"}
      BY <1>3, <1>4, <1>10 DEF Handlers, Open
    <3>2. generator_[f] \notin displaced
      BY <3>1 DEF DisplacedAreUnknown
    <3>3. ASSUME v \in Futures, k = g
          PROVE  generator_[f] \notin PushedOut(v)
      <4>1. CASE generator_[f] = None
        BY <4>1, CoroutineAssumption DEF PushedOut
      <4>2. CASE Awaits(generator_[f], f)
        <5>1. gstate[generator_[f]] # "running" /\ current[generator_[f]] # v
          BY <2>2, <3>3, <4>2 DEF Awaits
        <5>2. runner[v] # None => gstate[runner[v]] = "running"
          BY <3>3 DEF IInv, RunnersNest, Handlers
        <5>3. phase[v] = "resuming" => runner[v] # None
          BY <3>3 DEF IInv, StackHoldsRunning, Handlers
        <5>4. QED
          BY <5>1, <5>2, <5>3 DEF PushedOut
      <4>3. CASE phase[f] = "resuming" /\ generator_[f] = runner[f] /\ generator_[f] # None
        <5>1. gstate[runner[f]] = "running" /\ runner[v] # runner[f]
          BY <2>2, <3>1, <3>3, <4>3 DEF IInv, RunnersNest, Handlers
        <5>2. QED
          BY <4>3, <5>1 DEF PushedOut
      <4>4. QED
        BY <3>1, <4>1, <4>2, <4>3 DEF IInv, SendTargetAwaits, ResumedIsKnown
    <3>4. QED
      BY <1>2, <2>2, <3>2, <3>3
  <2>3. QED
    BY <1>1, <2>1, <2>2
<1>11. QED
  BY <1>8, <1>9, <1>10 DEF DisplacedAreUnknown

(***************************************************************************)
(* The other steps displace nobody.                                        *)
(***************************************************************************)
LEMMA DisplacedStep ==
    ASSUME IInv, DisplacedAreUnknown, Next
    PROVE  DisplacedAreUnknown'
<1> USE DEF DisplacedAreUnknown, Handlers
<1>1. ASSUME NEW h \in Handlers, Start(h)
      PROVE  DisplacedAreUnknown'
  <2>1. h \in Futures => generator_[h] = None
    BY <1>1 DEF Start, IInv, UnstartedKnowsNone
  <2>2. None \notin displaced
    BY CoroutineAssumption DEF IInv, TypeOK
  <2>3. QED
    BY <1>1, <2>1, <2>2 DEF Start, IInv, TypeOK, Open
<1>2. ASSUME NEW h \in Handlers, NEW e \in ErrorCodes, Dispatch(h, e)
      PROVE  DisplacedAreUnknown'
  BY <1>2 DEF Dispatch, IInv, TypeOK, Open
<1>3. CASE CallbackReturns
  BY <1>3, StackTop DEF CallbackReturns, IInv, TypeOK, Open
<1>4. ASSUME NEW g \in Generators, CallbackReturnsGenerator(g)
      PROVE  DisplacedAreUnknown'
  BY <1>4, StackTop DEF CallbackReturnsGenerator, IInv, TypeOK, Open
<1>5. ASSUME NEW v \in Futures \cup {Other}, GeneratorYields(v)
      PROVE  DisplacedAreUnknown'
  BY <1>5, DisplacedStopsStep DEF GeneratorYields
<1>6. CASE GeneratorReturns
  BY <1>6, CoroutineAssumption, DisplacedStopsStep DEF GeneratorReturns
<1>7. CASE ResumeGenerator
  BY <1>7 DEF ResumeGenerator, IInv, TypeOK, Open
<1>8. CASE NothingToResume
  BY <1>8, StackTop DEF NothingToResume, Leave, IInv, TypeOK, Open
<1>9. QED
  BY <1>1, <1>2, <1>3, <1>4, <1>5, <1>6, <1>7, <1>8
     DEF Next, Proceed, DispatchSome

-----------------------------------------------------------------------------
(***************************************************************************)
(* Behind the refinement: no coroutine waits that runs, and the one a      *)
(* Future is going to wake is the one that waits for it.                   *)
(***************************************************************************)
LEMMA WaitersAwait ==
    ASSUME IInv, TimelyWaiterIsKnown, NEW j \in Waiting
    PROVE  /\ j \in Generators /\ gstate[j] = "suspended" /\ current[j] \in Futures
           /\ phase[current[j]] \in Open
           /\ WaiterOf[current[j]] = j
BY DEF Waiting, TimelyWaiterIsKnown, Awaits, WaiterOf

(***************************************************************************)
(* A generator that stops waits for a Future it yielded, or nothing        *)
(* changes for those that wait.                                            *)
(***************************************************************************)
LEMMA StopRefines ==
    ASSUME IInv, TimelyWaiterIsKnown, ResumedKeepsPlace, DisplacedAreUnknown,
           NEW v \in Futures \cup {None, Other}, NEW s \in {"suspended", "closed"},
           v \in Futures => s = "suspended" /\ phase[v] # "none",
           GeneratorStops(v, s)
    PROVE  [SW!Next]_(SW!vars)
<1> DEFINE h == Last(stack)
           g == runner[h]
           k == Stopped(h)
<1>1. /\ h \in Handlers /\ g \in Generators /\ gstate[g] = "running"
      /\ \/ phase[h] = "starting" /\ phase' = [phase EXCEPT ![h] = "returned"] /\ k = g
         \/ phase[h] = "resuming" /\ phase' = [phase EXCEPT ![h] = "done"] /\ h \in Futures
                                /\ k = generator_[h]
      /\ runner' = [runner EXCEPT ![h] = None]
      /\ \A j \in Generators \ {g} : gstate'[j] = gstate[j] /\ current'[j] = current[j]
      /\ current'[g] = v /\ gstate'[g] \in {"suspended", "closed"}
      /\ k # g => generator_' = generator_
      /\ \A f \in Futures \ {v} : generator_'[f] = generator_[f]
      /\ gstate'[g] = "suspended" /\ v \in Futures /\ k = g => generator_'[v] = g
      /\ s = "suspended" /\ v \in Futures /\ k = g => gstate'[g] = "suspended"
      /\ v \in Futures => generator_'[v] \in {g, generator_[v]}
  BY StopTakesPlace, Zenon
<1>2. /\ late' = IF v \in Futures /\ phase[v] \notin Open THEN late \cup {g} ELSE late \ {g}
      /\ displaced' = IF v \in Futures /\ k = g
                      THEN displaced \cup (PushedOut(v) \ {g}) ELSE displaced
  BY DEF GeneratorStops
<1>3. \A f \in Handlers : /\ phase'[f] = "none" <=> phase[f] = "none"
                          /\ phase'[f] \in Open <=> phase[f] \in Open
  BY <1>1 DEF IInv, TypeOK, Open
<1>4. FutureState' = FutureState
  BY <1>3 DEF FutureState, Handlers
<1>5. k = g => g \notin displaced
  BY <1>1 DEF DisplacedAreUnknown, Open
<1>6. k # g => g \in displaced
  BY <1>1 DEF ResumedKeepsPlace
<1> HIDE DEF h, g, k
<1>7. g \notin Waiting
  BY <1>1 DEF Waiting, Awaits
<1>8. ASSUME NEW j \in Generators \ {g}
      PROVE  j \in Waiting' <=> j \in Waiting /\ j \notin displaced'
  BY <1>1, <1>2, <1>8 DEF Waiting, Awaits
<1>9. \A f \in Futures \ {v} : WaiterOf'[f] = WaiterOf[f]
  BY <1>1, <1>3 DEF WaiterOf, Handlers
<1>10. CASE v \in Futures /\ phase[v] \in Open /\ k = g
  <2>1. g \in Waiting'
    BY <1>1, <1>2, <1>5, <1>10 DEF Waiting, Awaits
  <2>2. WaiterOf'[v] = g
    BY <1>1, <1>3, <1>10 DEF WaiterOf, Handlers
  <2>3. ASSUME NEW j \in Generators \ {g}
        PROVE  j \in Waiting' <=> j \in Waiting /\ j # WaiterOf[v]
    <3>1. ASSUME j \in Waiting
          PROVE  j \in displaced' <=> j = WaiterOf[v]
      <4>1. j \notin displaced /\ gstate[j] = "suspended" /\ WaiterOf[current[j]] = j
        BY <3>1, WaitersAwait DEF Waiting
      <4>2. j \in displaced' <=> current[j] = v
        BY <1>2, <1>10, <2>3, <4>1 DEF PushedOut, Open
      <4>3. j = WaiterOf[v] => current[j] = v
        BY <1>10, CoroutineAssumption DEF WaiterOf, IInv, SendTargetAwaits, Awaits
      <4>4. QED
        BY <4>1, <4>2, <4>3
    <3>2. QED
      BY <1>8, <3>1
  <2>4. Waiting' = (Waiting \ {WaiterOf[v]}) \cup {g}
    BY <1>1, <1>7, <2>1, <2>3 DEF Waiting
  <2>5. WaiterOf' = [WaiterOf EXCEPT ![v] = g]
    BY <1>9, <1>10, <2>2 DEF WaiterOf
  <2>6. FutureState[v] = "open"
    BY <1>10 DEF FutureState, Open
  <2>7. SW!Wait(g, v)
    BY <1>4, <1>7, <2>4, <2>5, <2>6 DEF SW!Wait
  <2>8. QED
    BY <1>1, <1>10, <2>7 DEF SW!Next
<1>11. CASE ~ (v \in Futures /\ phase[v] \in Open /\ k = g)
  <2>1. g \notin Waiting'
    BY <1>1, <1>2, <1>6, <1>11 DEF Waiting, Awaits
  <2>2. ASSUME NEW j \in Generators \ {g}, j \in Waiting
        PROVE  j \notin displaced'
    <3>1. j \notin displaced /\ gstate[j] = "suspended" /\ phase[current[j]] \in Open
      BY <2>2, WaitersAwait DEF Waiting
    <3>2. ASSUME v \in Futures, k = g
          PROVE  j \notin PushedOut(v)
      <4>1. current[j] # v
        BY <1>11, <3>1, <3>2
      <4>2. phase[v] = "resuming" => gstate[runner[v]] = "running"
        BY <3>2 DEF IInv, RunnersNest, StackHoldsRunning, Handlers
      <4>3. QED
        BY <3>1, <4>1, <4>2 DEF PushedOut
    <3>3. QED
      BY <1>2, <3>1, <3>2
  <2>3. Waiting' = Waiting
    BY <1>7, <1>8, <2>1, <2>2 DEF Waiting
  <2>4. v \in Futures => WaiterOf'[v] = WaiterOf[v]
    BY <1>1, <1>3, <1>11 DEF WaiterOf, Handlers
  <2>5. WaiterOf' = WaiterOf
    BY <1>9, <2>4 DEF WaiterOf
  <2>6. QED
    BY <1>4, <2>3, <2>5 DEF SW!vars
<1>12. QED
  BY <1>10, <1>11

(***************************************************************************)
(* Every step is one of SingleWaiter, or changes nothing there.            *)
(***************************************************************************)
LEMMA StepRefines ==
    ASSUME IInv, TimelyWaiterIsKnown, ResumedKeepsPlace, DisplacedAreUnknown, Next
    PROVE  [SW!Next]_(SW!vars)
<1>1. ASSUME NEW h \in Handlers, Start(h)
      PROVE  [SW!Next]_(SW!vars)
  <2>1. Waiting' = Waiting
    BY <1>1 DEF Start, Waiting, Awaits
  <2>2. CASE h \in Futures
    <3>1. generator_[h] = None
      BY <1>1, <2>2 DEF Start, IInv, UnstartedKnowsNone
    <3>2. WaiterOf' = WaiterOf
      BY <1>1, <3>1 DEF Start, WaiterOf, IInv, TypeOK, Handlers, Open
    <3>3. FutureState[h] = "none" /\ FutureState' = [FutureState EXCEPT ![h] = "open"]
      BY <1>1, <2>2 DEF Start, FutureState, IInv, TypeOK, Handlers, Open
    <3>4. SW!Open(h)
      BY <2>1, <3>2, <3>3 DEF SW!Open
    <3>5. QED
      BY <2>2, <3>4 DEF SW!Next
  <2>3. CASE h \notin Futures
    <3>1. WaiterOf' = WaiterOf /\ FutureState' = FutureState
      BY <1>1, <2>3 DEF Start, WaiterOf, FutureState, IInv, TypeOK, Handlers
    <3>2. QED
      BY <2>1, <3>1 DEF SW!vars
  <2>4. QED
    BY <2>2, <2>3
<1>2. ASSUME NEW h \in Handlers, NEW e \in ErrorCodes, Dispatch(h, e)
      PROVE  [SW!Next]_(SW!vars)
  <2>1. Waiting' = Waiting
    BY <1>2 DEF Dispatch, Waiting, Awaits
  <2>2. WaiterOf' = WaiterOf /\ FutureState' = FutureState
    BY <1>2 DEF Dispatch, WaiterOf, FutureState, IInv, TypeOK, Handlers, Open
  <2>3. QED
    BY <2>1, <2>2 DEF SW!vars
<1>3. CASE CallbackReturns
  <2>1. Waiting' = Waiting
    BY <1>3 DEF CallbackReturns, Waiting, Awaits
  <2>2. WaiterOf' = WaiterOf /\ FutureState' = FutureState
    BY <1>3, StackTop DEF CallbackReturns, WaiterOf, FutureState, IInv, TypeOK, Handlers, Open
  <2>3. QED
    BY <2>1, <2>2 DEF SW!vars
<1>4. ASSUME NEW g \in Generators, CallbackReturnsGenerator(g)
      PROVE  [SW!Next]_(SW!vars)
  <2>1. Waiting' = Waiting
    BY <1>4 DEF CallbackReturnsGenerator, Waiting, Awaits, IInv, TypeOK
  <2>2. WaiterOf' = WaiterOf /\ FutureState' = FutureState
    BY <1>4, StackTop DEF CallbackReturnsGenerator, WaiterOf, FutureState, IInv, TypeOK,
                          Handlers, Open
  <2>3. QED
    BY <2>1, <2>2 DEF SW!vars
<1>5. ASSUME NEW v \in Futures \cup {Other}, GeneratorYields(v)
      PROVE  [SW!Next]_(SW!vars)
  BY <1>5, StopRefines DEF GeneratorYields
<1>6. CASE GeneratorReturns
  BY <1>6, CoroutineAssumption, StopRefines DEF GeneratorReturns
<1>7. CASE ResumeGenerator
  <2>1. PICK f \in Futures : /\ phase[f] = "returned" /\ generator_[f] # None
                             /\ phase' = [phase EXCEPT ![f] = "resuming"]
                             /\ gstate' = [gstate EXCEPT ![generator_[f]] = "running"]
                             /\ UNCHANGED <<generator_, current, late, displaced>>
    BY <1>7 DEF ResumeGenerator, IInv, TypeOK
  <2>2. FutureState[f] = "open" /\ FutureState' = [FutureState EXCEPT ![f] = "resolved"]
    BY <2>1 DEF FutureState, IInv, TypeOK, Handlers, Open
  <2>3. WaiterOf[f] = generator_[f] /\ WaiterOf' = [WaiterOf EXCEPT ![f] = None]
    BY <2>1 DEF WaiterOf, IInv, TypeOK, Handlers, Open
  <2>4. Waiting' = Waiting \ {generator_[f]}
    BY <2>1 DEF Waiting, Awaits, IInv, TypeOK
  <2>5. SW!Resolve(f)
    BY <2>2, <2>3, <2>4 DEF SW!Resolve
  <2>6. QED
    BY <2>5 DEF SW!Next
<1>8. CASE NothingToResume
  <2>1. PICK h \in Handlers : /\ phase[h] = "returned"
                              /\ h \in Futures => generator_[h] = None
                              /\ phase' = [phase EXCEPT ![h] = "done"]
    BY <1>8, StackTop DEF NothingToResume, Leave, IInv, TypeOK
  <2>2. UNCHANGED <<generator_, gstate, current, late, displaced>>
    BY <1>8 DEF NothingToResume
  <2>3. Waiting' = Waiting
    BY <2>2 DEF Waiting, Awaits
  <2>4. CASE h \in Futures
    <3>1. FutureState[h] = "open" /\ FutureState' = [FutureState EXCEPT ![h] = "resolved"]
      BY <2>1, <2>4 DEF FutureState, IInv, TypeOK, Handlers, Open
    <3>2. WaiterOf[h] = None /\ WaiterOf' = [WaiterOf EXCEPT ![h] = None]
      BY <2>1, <2>2, <2>4 DEF WaiterOf, IInv, TypeOK, Handlers, Open
    <3>3. Waiting' = Waiting \ {WaiterOf[h]}
      BY <2>3, <3>2, CoroutineAssumption DEF Waiting
    <3>4. SW!Resolve(h)
      BY <3>1, <3>2, <3>3 DEF SW!Resolve
    <3>5. QED
      BY <2>4, <3>4 DEF SW!Next
  <2>5. CASE h \notin Futures
    <3>1. WaiterOf' = WaiterOf /\ FutureState' = FutureState
      BY <2>1, <2>2, <2>5 DEF WaiterOf, FutureState, IInv, TypeOK, Handlers
    <3>2. QED
      BY <2>3, <3>1 DEF SW!vars
  <2>6. QED
    BY <2>4, <2>5
<1>9. QED
  BY <1>1, <1>2, <1>3, <1>4, <1>5, <1>6, <1>7, <1>8
     DEF Next, Proceed, DispatchSome

(***************************************************************************)
(* A Future keeps to the protocol of SingleWaiter, however deep handlers   *)
(* nest: it wakes the last coroutine that yielded it in time, and no other *)
(***************************************************************************)
THEOREM WakesItsWaiterAlways == Spec => WakesItsWaiter
<1>1. Init => TimelyWaiterIsKnown /\ ResumedKeepsPlace /\ DisplacedAreUnknown
  BY CoroutineAssumption
     DEF Init, TimelyWaiterIsKnown, ResumedKeepsPlace, DisplacedAreUnknown, Awaits, Handlers
<1>2. IInv /\ TimelyWaiterIsKnown /\ ResumedKeepsPlace /\ DisplacedAreUnknown /\ [Next]_vars
          => TimelyWaiterIsKnown' /\ ResumedKeepsPlace' /\ DisplacedAreUnknown'
  <2>1. ASSUME TimelyWaiterIsKnown, ResumedKeepsPlace, DisplacedAreUnknown, UNCHANGED vars
        PROVE  TimelyWaiterIsKnown' /\ ResumedKeepsPlace' /\ DisplacedAreUnknown'
    BY <2>1 DEF vars, handlers, TimelyWaiterIsKnown, ResumedKeepsPlace, DisplacedAreUnknown, Awaits
  <2>2. QED
    BY <2>1, WaiterStep, DisplacedStep
<1>3. Init => SW!Init
  <2>1. ASSUME Init
        PROVE  FutureState = [f \in Futures |-> "none"] /\ WaiterOf = [f \in Futures |-> None]
    BY <2>1 DEF Init, FutureState, WaiterOf, Handlers
  <2>2. ASSUME Init
        PROVE  Waiting = {}
    BY <2>2 DEF Init, Waiting, Awaits
  <2>3. QED
    BY <2>1, <2>2 DEF SW!Init
<1>4. IInv /\ TimelyWaiterIsKnown /\ ResumedKeepsPlace /\ DisplacedAreUnknown /\ [Next]_vars
          => [SW!Next]_(SW!vars)
  <2>1. ASSUME UNCHANGED vars
        PROVE  UNCHANGED SW!vars
    BY <2>1 DEF vars, handlers, SW!vars, FutureState, WaiterOf, Waiting, Awaits
  <2>2. QED
    BY <2>1, StepRefines
<1>5. QED
  BY <1>1, <1>2, <1>3, <1>4, IInvAlways, PTL DEF Spec, WakesItsWaiter, SW!Spec
=============================================================================
