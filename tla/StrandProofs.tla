---------------------------- MODULE StrandProofs ----------------------------
(***************************************************************************)
(* Handlers of a Strand are serialized as far as its dispatch allows, its  *)
(* count is balanced, and it outlives its handlers: for any number of      *)
(* Strands, callbacks, operations and WrappedHandlers, any nesting of      *)
(* handlers, every width of the counter, and whatever scripts do with      *)
(* their WrappedHandlers.                                                  *)
(***************************************************************************)
EXTENDS Strand, HandlerCountFacts, SequenceTheorems, FiniteSetTheorems

\* The stack holds the handlers that run, each once.
StackHoldsRunning ==
    /\ \A h \in Handlers : hstate[h] \in {"running", "inline"}
                              <=> \E i \in 1..Len(running) : running[i] = h
    /\ \A i, j \in 1..Len(running) : i # j => running[i] # running[j]

\* A handler belongs to a Strand from its beginning.
StrandsKnown == \A h \in Handlers : hstate[h] = "none" <=> strand_[h] = None

IInv == TypeOK /\ StackHoldsRunning /\ StrandsKnown /\ Serialized

-----------------------------------------------------------------------------
(***************************************************************************)
(* The innermost handler, and the stack without it.                        *)
(***************************************************************************)
LEMMA InnermostHandler ==
    ASSUME running \in Seq(Handlers), running # <<>>
    PROVE  /\ Len(running) \in Nat \ {0}
           /\ Last(running) = running[Len(running)] /\ Last(running) \in Handlers
           /\ Front(running) \in Seq(Handlers)
           /\ Len(Front(running)) = Len(running) - 1
           /\ \A i \in 1..Len(running) - 1 : Front(running)[i] = running[i]
<1>1. Len(running) \in Nat \ {0} /\ \A i \in 1..Len(running) : running[i] \in Handlers
  BY EmptySeq, LenProperties
<1> DEFINE n == Len(running) - 1
<1>2. n \in Nat /\ \A i \in 1..n : running[i] \in Handlers
  BY <1>1
<1>3. /\ SubSeq(running, 1, n) \in Seq(Handlers)
      /\ Len(SubSeq(running, 1, n)) = IF 1 <= n THEN n - 1 + 1 ELSE 0
      /\ \A i \in 1..n - 1 + 1 : SubSeq(running, 1, n)[i] = running[1 + i - 1]
  BY <1>2, SubSeqProperties
<1>4. (IF 1 <= n THEN n - 1 + 1 ELSE 0) = n
  <2> HIDE DEF n
  <2>1. QED
    BY <1>2
<1>5. \A i \in 1..n : i \in 1..n - 1 + 1 /\ 1 + i - 1 = i
  BY <1>2
<1>6. QED
  BY <1>1, <1>3, <1>4, <1>5 DEF Front, Last

(***************************************************************************)
(* Before anything is posted no handler runs.                              *)
(***************************************************************************)
LEMMA InitIInv == Init => IInv
<1>1. SUFFICES ASSUME Init
               PROVE  IInv
  OBVIOUS
<1> USE <1>1, StrandAssumption DEF Init
<1>2. /\ running \in Seq(Handlers) /\ Len(running) = 0
      /\ handler_count_ \in [Strands -> CountType]
  BY EmptySeq, ModulusAssumption DEF CountType
<1>3. TypeOK
  BY <1>2 DEF TypeOK
<1>4. StackHoldsRunning /\ Serialized
  BY <1>2 DEF StackHoldsRunning, Serialized
<1>5. StrandsKnown
  BY DEF StrandsKnown, Handlers
<1>6. QED
  BY <1>3, <1>4, <1>5 DEF IInv

-----------------------------------------------------------------------------
(***************************************************************************)
(* Handlers and Strands fit together: a step at a time.                    *)
(***************************************************************************)
LEMMA CountTypes ==
    ASSUME TypeOK, NEW s \in Strands, IncHandlerCount(s) \/ DecHandlerCount(s)
    PROVE  handler_count_' \in [Strands -> CountType] /\ selfRefs' \in [Strands -> Int]
<1>1. handler_count_[s] \in CountType /\ selfRefs[s] \in Int
  BY DEF TypeOK
<1>2. /\ CountInc(handler_count_[s]) \in CountType /\ CountDec(handler_count_[s]) \in CountType
      /\ RefGained(handler_count_[s]) \in Int /\ RefLost(handler_count_[s]) \in Int
  BY <1>1, CountIncValue, CountDecValue DEF RefGained, RefLost
<1>3. CASE IncHandlerCount(s)
  BY <1>1, <1>2, <1>3 DEF TypeOK, IncHandlerCount
<1>4. CASE DecHandlerCount(s)
  BY <1>1, <1>2, <1>4 DEF TypeOK, DecHandlerCount
<1>5. QED
  BY <1>3, <1>4

\* A handler that was not on the stack becomes the innermost one.
LEMMA EnterStack ==
    ASSUME IInv, NEW h \in Handlers, hstate[h] \in {"none", "pending", "queued"},
           NEW t \in {"running", "inline"},
           hstate' = [hstate EXCEPT ![h] = t], running' = Append(running, h),
           \A k \in Handlers \ {h} : strand_'[k] = strand_[k],
           IF t = "running" THEN ~RunningInThisThread(strand_'[h]) ELSE h \notin Posted
    PROVE  running' \in Seq(Handlers) /\ StackHoldsRunning' /\ Serialized'
<1>0. /\ running \in Seq(Handlers)
      /\ hstate \in [Handlers ->
            {"none", "refused", "pending", "queued", "running", "inline", "done"}]
      /\ StackHoldsRunning /\ Serialized
  BY DEF IInv, TypeOK
<1>1. /\ running' \in Seq(Handlers)
      /\ Len(running) \in Nat /\ Len(running') = Len(running) + 1
      /\ \A i \in 1..Len(running) : running'[i] = running[i] /\ running[i] \in Handlers
      /\ running'[Len(running) + 1] = h
  BY <1>0, AppendProperties, LenProperties
<1>2. \A i \in 1..Len(running) : running[i] # h
  BY <1>0, <1>1 DEF StackHoldsRunning
<1>3. StackHoldsRunning'
  <2>1. ASSUME NEW k \in Handlers
        PROVE  (\E i \in 1..Len(running') : running'[i] = k)
                   <=> k = h \/ \E i \in 1..Len(running) : running[i] = k
    BY <1>1
  <2>2. \A k \in Handlers : hstate'[k] \in {"running", "inline"}
                               <=> k = h \/ hstate[k] \in {"running", "inline"}
    BY <1>0
  <2>3. \A i, j \in 1..Len(running') : i # j => running'[i] # running'[j]
    BY <1>0, <1>1, <1>2 DEF StackHoldsRunning
  <2>4. QED
    BY <1>0, <2>1, <2>2, <2>3 DEF StackHoldsRunning
<1>4. Serialized'
  <2>1. SUFFICES ASSUME NEW i \in 1..Len(running'), NEW j \in 1..Len(running'),
                        i < j, strand_'[running'[i]] = strand_'[running'[j]]
                 PROVE  hstate'[running'[j]] = "inline" /\ running'[j] \notin Posted
    BY DEF Serialized
  <2>2. i \in 1..Len(running) /\ strand_'[running'[i]] = strand_[running[i]]
    <3>1. i \in 1..Len(running)
      BY <1>1, <2>1
    <3>2. QED
      BY <1>1, <1>2, <3>1
  <2>3. CASE j = Len(running) + 1
    <3>1. t # "running"
      BY <1>1, <2>1, <2>2, <2>3 DEF RunningInThisThread
    <3>2. QED
      BY <1>0, <1>1, <2>3, <3>1
  <2>4. CASE j \in 1..Len(running)
    <3>1. /\ strand_[running[i]] = strand_[running[j]] /\ hstate'[running'[j]] = hstate[running[j]]
          /\ running'[j] = running[j]
      BY <1>0, <1>1, <1>2, <2>1, <2>2, <2>4
    <3>2. QED
      BY <1>0, <2>1, <2>2, <2>4, <3>1 DEF Serialized
  <2>5. j = Len(running) + 1 \/ j \in 1..Len(running)
    BY <1>1, <2>1
  <2>6. QED
    BY <2>3, <2>4, <2>5
<1>5. QED
  BY <1>1, <1>3, <1>4

\* A handler that was not on the stack becomes something else.
LEMMA StayOff ==
    ASSUME IInv, NEW h \in Handlers, hstate[h] \in {"none", "pending"},
           NEW t \in {"refused", "pending", "queued"},
           hstate' = [hstate EXCEPT ![h] = t], running' = running,
           \A k \in Handlers \ {h} : strand_'[k] = strand_[k]
    PROVE  StackHoldsRunning' /\ Serialized'
<1>0. /\ running \in Seq(Handlers)
      /\ hstate \in [Handlers ->
            {"none", "refused", "pending", "queued", "running", "inline", "done"}]
      /\ StackHoldsRunning /\ Serialized
  BY DEF IInv, TypeOK
<1>1. \A i \in 1..Len(running) : running[i] # h /\ running[i] \in Handlers
  BY <1>0, LenProperties DEF StackHoldsRunning
<1>2. \A k \in Handlers : hstate'[k] \in {"running", "inline"}
                             <=> hstate[k] \in {"running", "inline"}
  BY <1>0
<1>3. StackHoldsRunning'
  BY <1>0, <1>2 DEF StackHoldsRunning
<1>4. Serialized'
  BY <1>0, <1>1 DEF Serialized
<1>5. QED
  BY <1>3, <1>4

\* Post, Dispatch and Refuse.
LEMMA PostFits ==
    ASSUME IInv, NEW s \in Strands, NEW p \in Callbacks,
           \/ p \in Posted /\ Post(s, p)
           \/ p \in Dispatched /\ Dispatch(s, p)
           \/ Refuse(s, p)
    PROVE  IInv'
<1>1. /\ hstate[p] = "none" /\ strand_' = [strand_ EXCEPT ![p] = s]
      /\ IncHandlerCount(s) /\ UNCHANGED <<held, wrappedBy, awaits>>
      /\ \/ UNCHANGED running /\ \E t \in {"refused", "queued"} : hstate' = [hstate EXCEPT ![p] = t]
         \/ p \in Dispatched /\ CalledAtOnce(p)
  BY DEF Post, Dispatch, Refuse, Enqueued
<1>2. p \in Handlers /\ None \notin Strands /\ Posted \cap Dispatched = {}
  BY StrandAssumption DEF Handlers
<1>3. /\ hstate \in [Handlers ->
            {"none", "refused", "pending", "queued", "running", "inline", "done"}]
      /\ strand_ \in [Handlers -> Strands \cup {None}] /\ running \in Seq(Handlers)
  BY DEF IInv, TypeOK
<1>4. \A k \in Handlers \ {p} : strand_'[k] = strand_[k]
  BY <1>1, <1>3
<1>5. running' \in Seq(Handlers) /\ StackHoldsRunning' /\ Serialized'
  <2>1. CASE UNCHANGED running /\ \E t \in {"refused", "queued"} : hstate' = [hstate EXCEPT ![p] = t]
    BY <1>1, <1>2, <1>3, <1>4, <2>1, StayOff
  <2>2. CASE p \in Dispatched /\ CalledAtOnce(p)
    BY <1>1, <1>2, <1>4, <2>2, EnterStack DEF CalledAtOnce
  <2>3. QED
    BY <1>1, <2>1, <2>2
<1>6. \E t \in {"refused", "queued", "inline"} : hstate' = [hstate EXCEPT ![p] = t]
  BY <1>1 DEF CalledAtOnce
<1>7. TypeOK'
  <2>1. handler_count_' \in [Strands -> CountType] /\ selfRefs' \in [Strands -> Int]
    BY <1>1, CountTypes DEF IInv
  <2>2. QED
    BY <1>1, <1>3, <1>5, <1>6, <2>1 DEF IInv, TypeOK
<1>8. StrandsKnown'
  BY <1>1, <1>2, <1>3, <1>6 DEF IInv, StrandsKnown
<1>9. QED
  BY <1>5, <1>7, <1>8 DEF IInv

LEMMA WrapFits ==
    ASSUME IInv, NEW s \in Strands, NEW w \in Wrappers, Wrap(s, w)
    PROVE  IInv'
<1>1. IncHandlerCount(s) /\ wrappedBy' = [wrappedBy EXCEPT ![w] = s]
      /\ UNCHANGED <<held, hstate, strand_, running, awaits>>
  BY DEF Wrap
<1>2. TypeOK'
  <2>1. handler_count_' \in [Strands -> CountType] /\ selfRefs' \in [Strands -> Int]
    BY <1>1, CountTypes DEF IInv
  <2>2. QED
    BY <1>1, <2>1 DEF IInv, TypeOK
<1>3. StackHoldsRunning' /\ Serialized'
  BY <1>1 DEF IInv, StackHoldsRunning, Serialized
<1>4. StrandsKnown'
  BY <1>1 DEF IInv, StrandsKnown
<1>5. QED
  BY <1>2, <1>3, <1>4 DEF IInv

LEMMA StartWrappedFits ==
    ASSUME IInv, NEW f \in Futures, NEW w \in Wrappers, StartWrapped(f, w)
    PROVE  IInv'
<1>1. /\ hstate[f] = "none" /\ hstate' = [hstate EXCEPT ![f] = "pending"]
      /\ wrappedBy[w] # None /\ strand_' = [strand_ EXCEPT ![f] = wrappedBy[w]]
      /\ UNCHANGED <<held, handler_count_, selfRefs, wrappedBy, running, awaits>>
  BY DEF StartWrapped
<1>2. f \in Handlers /\ wrappedBy[w] \in Strands
  BY <1>1 DEF Handlers, IInv, TypeOK
<1>3. /\ hstate \in [Handlers ->
            {"none", "refused", "pending", "queued", "running", "inline", "done"}]
      /\ strand_ \in [Handlers -> Strands \cup {None}]
  BY DEF IInv, TypeOK
<1>4. StackHoldsRunning' /\ Serialized'
  <2>1. \A k \in Handlers \ {f} : strand_'[k] = strand_[k]
    BY <1>1, <1>3
  <2>2. QED
    BY <1>1, <1>2, <2>1, StayOff
<1>5. TypeOK'
  BY <1>1, <1>2 DEF IInv, TypeOK
<1>6. StrandsKnown'
  BY <1>1, <1>2, <1>3, StrandAssumption DEF IInv, StrandsKnown
<1>7. QED
  BY <1>4, <1>5, <1>6 DEF IInv

\* Complete and Run.
LEMMA RunFits ==
    ASSUME IInv, NEW h \in Handlers, (h \in Futures /\ Complete(h)) \/ Run(h)
    PROVE  IInv'
<1>1. /\ hstate[h] \in {"pending", "queued"}
      /\ UNCHANGED <<held, handler_count_, selfRefs, strand_, wrappedBy, awaits>>
      /\ \E t \in {"queued", "running", "inline"} : hstate' = [hstate EXCEPT ![h] = t]
  BY DEF Complete, Run, CalledAtOnce, Enqueued
<1>2. running' \in Seq(Handlers) /\ StackHoldsRunning' /\ Serialized'
  <2>1. CASE h \in Futures /\ Complete(h)
    <3>1. h \notin Posted /\ hstate[h] = "pending" /\ (Enqueued(h) \/ CalledAtOnce(h))
      BY <2>1, StrandAssumption DEF Complete, Callbacks
    <3>2. CASE Enqueued(h)
      BY <1>1, <3>1, <3>2, StayOff DEF Enqueued, IInv, TypeOK
    <3>3. CASE CalledAtOnce(h)
      BY <1>1, <3>1, <3>3, EnterStack DEF CalledAtOnce
    <3>4. QED
      BY <3>1, <3>2, <3>3
  <2>2. CASE Run(h)
    <3>1. /\ hstate[h] = "queued" /\ hstate' = [hstate EXCEPT ![h] = "running"]
          /\ running' = Append(running, h) /\ UNCHANGED strand_
          /\ ~RunningInThisThread(strand_'[h])
      BY <2>2 DEF Run
    <3>2. QED
      BY <3>1, EnterStack
  <2>3. QED
    BY <2>1, <2>2
<1>3. TypeOK'
  BY <1>1, <1>2 DEF IInv, TypeOK
<1>4. StrandsKnown'
  BY <1>1 DEF IInv, TypeOK, StrandsKnown
<1>5. QED
  BY <1>2, <1>3, <1>4 DEF IInv

LEMMA AwaitFits ==
    ASSUME IInv, NEW h \in Handlers, Await(h)
    PROVE  IInv'
<1>1. /\ running # <<>> /\ awaits' = [awaits EXCEPT ![Last(running)] = h]
      /\ UNCHANGED <<held, handler_count_, selfRefs, hstate, strand_, wrappedBy, running>>
  BY DEF Await
<1>2. TypeOK'
  BY <1>1, InnermostHandler DEF IInv, TypeOK
<1>3. StackHoldsRunning' /\ Serialized' /\ StrandsKnown'
  BY <1>1 DEF IInv, StackHoldsRunning, Serialized, StrandsKnown
<1>4. QED
  BY <1>2, <1>3 DEF IInv

LEMMA ReturnFits == IInv /\ Return => IInv'
<1>1. SUFFICES ASSUME IInv, Return
               PROVE  IInv'
  OBVIOUS
<1> DEFINE h == Last(running)
<1>0. /\ TypeOK /\ StackHoldsRunning /\ StrandsKnown /\ Serialized
      /\ running \in Seq(Handlers) /\ running # <<>>
      /\ hstate \in [Handlers ->
            {"none", "refused", "pending", "queued", "running", "inline", "done"}]
      /\ strand_ \in [Handlers -> Strands \cup {None}]
  BY <1>1 DEF IInv, TypeOK, Return
<1>2. /\ Len(running) \in Nat \ {0} /\ h = running[Len(running)] /\ h \in Handlers
      /\ running' \in Seq(Handlers) /\ Len(running') = Len(running) - 1
      /\ \A i \in 1..Len(running) - 1 : running'[i] = running[i]
  BY <1>0, <1>1, InnermostHandler DEF Return
<1>3. /\ hstate' = [hstate EXCEPT ![h] = "done"] /\ DecHandlerCount(strand_[h])
      /\ awaits' = [awaits EXCEPT ![h] = None]
      /\ UNCHANGED <<held, strand_, wrappedBy>>
  BY <1>1 DEF Return
<1>4. hstate[h] \in {"running", "inline"} /\ strand_[h] \in Strands
  BY <1>0, <1>2, StrandAssumption DEF StackHoldsRunning, StrandsKnown
<1> HIDE DEF h
<1>5. TypeOK'
  <2>1. handler_count_' \in [Strands -> CountType] /\ selfRefs' \in [Strands -> Int]
    BY <1>0, <1>3, <1>4, CountTypes
  <2>2. QED
    BY <1>0, <1>2, <1>3, <2>1 DEF TypeOK
<1>6. \A i \in 1..Len(running') : i \in 1..Len(running) /\ running[i] # h /\ running[i] \in Handlers
  BY <1>0, <1>2, LenProperties DEF StackHoldsRunning
<1>7. StackHoldsRunning'
  <2>1. \A k \in Handlers : (\E i \in 1..Len(running') : running'[i] = k)
                               <=> k # h /\ \E i \in 1..Len(running) : running[i] = k
    <3> SUFFICES ASSUME NEW k \in Handlers
                 PROVE  (\E i \in 1..Len(running') : running'[i] = k)
                            <=> k # h /\ \E i \in 1..Len(running) : running[i] = k
      OBVIOUS
    <3>1. \A i \in 1..Len(running') : running'[i] = running[i]
      BY <1>2, <1>6
    <3>2. \A i \in 1..Len(running) : running[i] # h => i \in 1..Len(running')
      BY <1>2
    <3>3. QED
      BY <1>6, <3>1, <3>2
  <2>2. \A k \in Handlers : hstate'[k] \in {"running", "inline"}
                               <=> k # h /\ hstate[k] \in {"running", "inline"}
    BY <1>0, <1>2, <1>3
  <2>3. \A i, j \in 1..Len(running') : i # j => running'[i] # running'[j]
    BY <1>0, <1>2, <1>6 DEF StackHoldsRunning
  <2>4. QED
    BY <1>0, <2>1, <2>2, <2>3 DEF StackHoldsRunning
<1>8. StrandsKnown'
  BY <1>0, <1>3, <1>4 DEF StrandsKnown
<1>9. Serialized'
  <2>1. \A i \in 1..Len(running') : /\ running'[i] = running[i]
                                    /\ hstate'[running[i]] = hstate[running[i]]
    BY <1>0, <1>2, <1>3, <1>6
  <2>2. QED
    BY <1>0, <1>3, <1>6, <2>1 DEF Serialized
<1>10. QED
  BY <1>5, <1>7, <1>8, <1>9 DEF IInv

LEMMA NextFits == IInv /\ [Next]_vars => IInv'
<1>1. SUFFICES ASSUME IInv, [Next]_vars
               PROVE  IInv'
  OBVIOUS
<1>2. CASE UNCHANGED vars
  <2>1. TypeOK'
    BY <1>1, <1>2 DEF vars, IInv, TypeOK
  <2>2. StackHoldsRunning' /\ Serialized' /\ StrandsKnown'
    BY <1>1, <1>2 DEF vars, IInv, StackHoldsRunning, Serialized, StrandsKnown
  <2>3. QED
    BY <2>1, <2>2 DEF IInv
<1>3. ASSUME NEW s \in Strands, Release(s)
      PROVE  IInv'
  <2>1. /\ held' \in SUBSET Strands
        /\ UNCHANGED <<handler_count_, selfRefs, hstate, strand_, wrappedBy, running, awaits>>
    BY <1>1, <1>3 DEF Release, IInv, TypeOK
  <2>2. QED
    BY <1>1, <2>1 DEF IInv, TypeOK, StackHoldsRunning, StrandsKnown, Serialized
<1>4. Posted \subseteq Callbacks /\ Dispatched \subseteq Callbacks /\ Futures \subseteq Handlers
  BY DEF Callbacks, Handlers
<1>5. QED
  BY <1>1, <1>2, <1>3, <1>4, PostFits, WrapFits, StartWrappedFits, RunFits, AwaitFits, ReturnFits
  DEF Next

(***************************************************************************)
(* The handlers that run and their Strands fit together (class Strand).    *)
(***************************************************************************)
THEOREM IInvAlways == Spec => []IInv
  BY InitIInv, NextFits, PTL DEF Spec

(***************************************************************************)
(* However deep handlers nest, a handler runs inside another of its Strand *)
(* only where dispatch, or the completion of a wrapped operation, calls it *)
(* at once: never one that was posted or queued (class Strand).            *)
(***************************************************************************)
THEOREM SerializedAlways == Spec => []Serialized
<1>1. IInv => Serialized
  BY DEF IInv
<1>2. QED
  BY <1>1, IInvAlways, PTL

-----------------------------------------------------------------------------
(***************************************************************************)
(* What a Strand has counted and what was given back is finite.            *)
(***************************************************************************)
LEMMA CountedFinite ==
    ASSUME NEW s \in Strands
    PROVE  /\ Counted(s) \in SUBSET (Callbacks \cup Wrappers)
           /\ IsFiniteSet(Counted(s)) /\ Cardinality(Counted(s)) \in Nat
           /\ IsFiniteSet(Resolved(s)) /\ Cardinality(Resolved(s)) \in Nat
           /\ Net(s) \in Int
<1>1. Counted(s) \in SUBSET (Callbacks \cup Wrappers) /\ Resolved(s) \in SUBSET Futures
  BY DEF Counted, Resolved
<1>2. Counted(s) \in SUBSET (Handlers \cup Wrappers) /\ Resolved(s) \in SUBSET (Handlers \cup Wrappers)
  BY <1>1 DEF Handlers
<1>3. IsFiniteSet(Counted(s)) /\ IsFiniteSet(Resolved(s))
  BY <1>2, FS_Subset, StrandAssumption
<1>4. Cardinality(Counted(s)) \in Nat /\ Cardinality(Resolved(s)) \in Nat
  BY <1>3, FS_CardinalityType
<1>5. QED
  BY <1>1, <1>3, <1>4 DEF Net

\* Every Strand but s has counted and got back what it had.
OthersUnchanged(s) ==
    \A x \in Strands \ {s} :
        /\ Counted(x)' = Counted(x) /\ Resolved(x)' = Resolved(x)
        /\ handler_count_'[x] = handler_count_[x] /\ selfRefs'[x] = selfRefs[x]

\* s counts one thing more; a callback of s returns, or an operation is
\* resolved; or neither.
OneMore(s) ==
    /\ \E x \in Callbacks \cup Wrappers :
          x \notin Counted(s) /\ Counted(s)' = Counted(s) \cup {x}
    /\ Resolved(s)' = Resolved(s)
    /\ IncHandlerCount(s) /\ OthersUnchanged(s)

OneLess(s) ==
    /\ \/ /\ \E x \in Counted(s) : Counted(s)' = Counted(s) \ {x}
          /\ Resolved(s)' = Resolved(s)
       \/ /\ \E f \in Futures \ Resolved(s) : Resolved(s)' = Resolved(s) \cup {f}
          /\ Counted(s)' = Counted(s)
    /\ DecHandlerCount(s) /\ OthersUnchanged(s)

NoChange ==
    /\ \A x \in Strands : Counted(x)' = Counted(x) /\ Resolved(x)' = Resolved(x)
    /\ UNCHANGED <<handler_count_, selfRefs>>

(***************************************************************************)
(* Each of the three keeps the balance.                                    *)
(***************************************************************************)
LEMMA OneMoreCounted ==
    ASSUME TypeOK, CountsBalanced, NEW s \in Strands, OneMore(s)
    PROVE  /\ Net(s)' = Net(s) + 1
           /\ Net(s) < Cardinality(Callbacks \cup Wrappers)
           /\ handler_count_'[s] = CountInc(handler_count_[s])
           /\ selfRefs'[s] = selfRefs[s] + RefGained(handler_count_[s])
           /\ CountsBalanced'
<1>1. PICK x \in Callbacks \cup Wrappers : x \notin Counted(s) /\ Counted(s)' = Counted(s) \cup {x}
  BY DEF OneMore
<1>2. Cardinality(Counted(s) \cup {x}) = Cardinality(Counted(s)) + 1
  BY <1>1, CountedFinite, FS_AddElement
<1>3. Net(s)' = Net(s) + 1
  <2>1. /\ Cardinality(Counted(s)') = Cardinality(Counted(s)) + 1
        /\ Cardinality(Resolved(s)') = Cardinality(Resolved(s))
    BY <1>1, <1>2 DEF OneMore
  <2>2. QED
    BY <2>1, CountedFinite DEF Net
<1>4. Net(s) < Cardinality(Callbacks \cup Wrappers)
  <2>1. IsFiniteSet(Callbacks \cup Wrappers)
    BY FS_Subset, StrandAssumption DEF Handlers
  <2>2. Counted(s) \cup {x} \in SUBSET (Callbacks \cup Wrappers)
    BY <1>1, CountedFinite
  <2>3. /\ Cardinality(Counted(s) \cup {x}) <= Cardinality(Callbacks \cup Wrappers)
        /\ Cardinality(Callbacks \cup Wrappers) \in Nat
    BY <2>1, <2>2, FS_Subset, FS_CardinalityType
  <2>4. QED
    BY <1>2, <2>3, CountedFinite DEF Net
<1>5. /\ handler_count_'[s] = CountInc(handler_count_[s])
      /\ selfRefs'[s] = selfRefs[s] + RefGained(handler_count_[s])
  BY DEF OneMore, IncHandlerCount, TypeOK
<1>6. Balanced(handler_count_'[s], Net(s)', selfRefs'[s])
  <2>1. handler_count_[s] \in CountType /\ selfRefs[s] \in Int /\ Net(s) \in Int
        /\ Balanced(handler_count_[s], Net(s), selfRefs[s])
    BY CountedFinite DEF TypeOK, CountsBalanced
  <2>2. Balanced(CountInc(handler_count_[s]), Net(s) + 1, selfRefs[s] + RefGained(handler_count_[s]))
    BY <2>1, BalancedInc
  <2>3. QED
    BY <1>3, <1>5, <2>2
<1>7. \A y \in Strands \ {s} : Balanced(handler_count_'[y], Net(y)', selfRefs'[y])
  BY DEF OneMore, OthersUnchanged, CountsBalanced, Net
<1>8. CountsBalanced'
  BY <1>6, <1>7 DEF CountsBalanced, Balanced
<1>9. QED
  BY <1>3, <1>4, <1>5, <1>8

LEMMA OneLessCounted ==
    ASSUME TypeOK, CountsBalanced, NEW s \in Strands, OneLess(s)
    PROVE  /\ Net(s)' = Net(s) - 1
           /\ handler_count_'[s] = CountDec(handler_count_[s])
           /\ selfRefs'[s] = selfRefs[s] - RefLost(handler_count_[s])
           /\ CountsBalanced'
<1>1. Net(s)' = Net(s) - 1
  <2>1. ASSUME NEW x \in Counted(s), Counted(s)' = Counted(s) \ {x}, Resolved(s)' = Resolved(s)
        PROVE  Net(s)' = Net(s) - 1
    <3>1. Cardinality(Counted(s) \ {x}) = Cardinality(Counted(s)) - 1
      BY CountedFinite, FS_RemoveElement
    <3>2. /\ Cardinality(Counted(s)') = Cardinality(Counted(s)) - 1
          /\ Cardinality(Resolved(s)') = Cardinality(Resolved(s))
      BY <2>1, <3>1
    <3>3. QED
      BY <3>2, CountedFinite DEF Net
  <2>2. ASSUME NEW f \in Futures \ Resolved(s),
               Resolved(s)' = Resolved(s) \cup {f}, Counted(s)' = Counted(s)
        PROVE  Net(s)' = Net(s) - 1
    <3>1. Cardinality(Resolved(s) \cup {f}) = Cardinality(Resolved(s)) + 1
      BY CountedFinite, FS_AddElement
    <3>2. /\ Cardinality(Resolved(s)') = Cardinality(Resolved(s)) + 1
          /\ Cardinality(Counted(s)') = Cardinality(Counted(s))
      BY <2>2, <3>1
    <3>3. QED
      BY <3>2, CountedFinite DEF Net
  <2>3. QED
    BY <2>1, <2>2 DEF OneLess
<1>2. /\ handler_count_'[s] = CountDec(handler_count_[s])
      /\ selfRefs'[s] = selfRefs[s] - RefLost(handler_count_[s])
  BY DEF OneLess, DecHandlerCount, TypeOK
<1>3. Balanced(handler_count_'[s], Net(s)', selfRefs'[s])
  <2>1. handler_count_[s] \in CountType /\ selfRefs[s] \in Int /\ Net(s) \in Int
        /\ Balanced(handler_count_[s], Net(s), selfRefs[s])
    BY CountedFinite DEF TypeOK, CountsBalanced
  <2>2. Balanced(CountDec(handler_count_[s]), Net(s) - 1, selfRefs[s] - RefLost(handler_count_[s]))
    BY <2>1, BalancedDec
  <2>3. QED
    BY <1>1, <1>2, <2>2
<1>4. \A y \in Strands \ {s} : Balanced(handler_count_'[y], Net(y)', selfRefs'[y])
  BY DEF OneLess, OthersUnchanged, CountsBalanced, Net
<1>5. CountsBalanced'
  BY <1>3, <1>4 DEF CountsBalanced, Balanced
<1>6. QED
  BY <1>1, <1>2, <1>5

-----------------------------------------------------------------------------
(***************************************************************************)
(* A step makes one Strand count one thing more or less, or none.          *)
(***************************************************************************)
LEMMA PostCounts ==
    ASSUME IInv, NEW s \in Strands, NEW p \in Callbacks,
           \/ Post(s, p)
           \/ Dispatch(s, p)
           \/ Refuse(s, p)
    PROVE  OneMore(s)
<1>1. /\ hstate[p] = "none" /\ strand_' = [strand_ EXCEPT ![p] = s]
      /\ IncHandlerCount(s) /\ UNCHANGED wrappedBy
      /\ \E t \in {"refused", "queued", "inline"} : hstate' = [hstate EXCEPT ![p] = t]
  BY DEF Post, Dispatch, Refuse, Enqueued, CalledAtOnce
<1>2. /\ p \in Handlers \ Futures /\ p \notin Wrappers /\ None \notin Strands
      /\ Callbacks \subseteq Handlers /\ Futures \subseteq Handlers
  BY StrandAssumption DEF Handlers
<1>3. /\ hstate \in [Handlers ->
            {"none", "refused", "pending", "queued", "running", "inline", "done"}]
      /\ strand_ \in [Handlers -> Strands \cup {None}] /\ strand_[p] = None
      /\ handler_count_ \in [Strands -> CountType] /\ selfRefs \in [Strands -> Int]
  BY <1>1, <1>2 DEF IInv, TypeOK, StrandsKnown
<1>4. \A k \in Handlers \ {p} : hstate'[k] = hstate[k] /\ strand_'[k] = strand_[k]
  BY <1>1, <1>3
<1>5. hstate'[p] # "done" /\ strand_'[p] = s
  BY <1>1, <1>2, <1>3
<1>6. p \notin Counted(s) /\ Counted(s)' = Counted(s) \cup {p}
  BY <1>1, <1>2, <1>3, <1>4, <1>5 DEF Counted
<1>7. \A x \in Strands : Resolved(x)' = Resolved(x)
  BY <1>2, <1>4 DEF Resolved
<1>8. \A x \in Strands \ {s} : Counted(x)' = Counted(x)
  BY <1>1, <1>2, <1>3, <1>4, <1>5 DEF Counted
<1>9. OthersUnchanged(s)
  BY <1>1, <1>3, <1>7, <1>8 DEF OthersUnchanged, IncHandlerCount
<1>10. QED
  BY <1>1, <1>6, <1>7, <1>9 DEF OneMore

LEMMA WrapCounts ==
    ASSUME IInv, NEW s \in Strands, NEW w \in Wrappers, Wrap(s, w)
    PROVE  OneMore(s)
<1>1. /\ wrappedBy[w] = None /\ wrappedBy' = [wrappedBy EXCEPT ![w] = s]
      /\ IncHandlerCount(s) /\ UNCHANGED <<hstate, strand_>>
  BY DEF Wrap
<1>2. /\ w \notin Callbacks /\ None \notin Strands
      /\ wrappedBy \in [Wrappers -> Strands \cup {None}]
      /\ handler_count_ \in [Strands -> CountType] /\ selfRefs \in [Strands -> Int]
  BY StrandAssumption DEF IInv, TypeOK
<1>3. w \notin Counted(s) /\ Counted(s)' = Counted(s) \cup {w}
  BY <1>1, <1>2 DEF Counted
<1>4. \A x \in Strands : Resolved(x)' = Resolved(x)
  BY <1>1 DEF Resolved
<1>5. \A x \in Strands \ {s} : Counted(x)' = Counted(x)
  BY <1>1, <1>2 DEF Counted
<1>6. OthersUnchanged(s)
  BY <1>1, <1>2, <1>4, <1>5 DEF OthersUnchanged, IncHandlerCount
<1>7. QED
  BY <1>1, <1>3, <1>4, <1>6 DEF OneMore

LEMMA ReturnCounts ==
    ASSUME IInv, Return
    PROVE  \E h \in Handlers, s \in Strands :
              s = strand_[h] /\ hstate[h] \in {"running", "inline"} /\ OneLess(s)
<1>0. PICK h \in Handlers : h = Last(running) /\ hstate[h] \in {"running", "inline"}
  BY InnermostHandler DEF Return, IInv, TypeOK, StackHoldsRunning
<1>1. PICK s \in Strands : s = strand_[h]
  BY <1>0, StrandAssumption DEF IInv, TypeOK, StrandsKnown
<1>2. /\ hstate' = [hstate EXCEPT ![h] = "done"] /\ DecHandlerCount(s)
      /\ UNCHANGED <<strand_, wrappedBy>>
  BY <1>0, <1>1 DEF Return
<1>3. /\ hstate \in [Handlers ->
            {"none", "refused", "pending", "queued", "running", "inline", "done"}]
      /\ handler_count_ \in [Strands -> CountType] /\ selfRefs \in [Strands -> Int]
      /\ Callbacks \subseteq Handlers /\ Futures \subseteq Handlers
      /\ Callbacks \cap Futures = {} /\ Callbacks \cap Wrappers = {}
  BY StrandAssumption DEF IInv, TypeOK, Handlers
<1>4. hstate'[h] = "done" /\ \A k \in Handlers \ {h} : hstate'[k] = hstate[k]
  BY <1>2, <1>3
<1>5. \A x \in Strands \ {s} : Counted(x)' = Counted(x) /\ Resolved(x)' = Resolved(x)
  BY <1>1, <1>2, <1>3, <1>4 DEF Counted, Resolved
<1>6. OthersUnchanged(s)
  BY <1>2, <1>3, <1>5 DEF OthersUnchanged, DecHandlerCount
<1>7. CASE h \in Callbacks
  <2>1. h \in Counted(s) /\ Counted(s)' = Counted(s) \ {h}
    BY <1>0, <1>1, <1>2, <1>3, <1>4, <1>7 DEF Counted
  <2>2. Resolved(s)' = Resolved(s)
    BY <1>2, <1>3, <1>4, <1>7 DEF Resolved
  <2>3. QED
    BY <1>0, <1>1, <1>2, <1>6, <2>1, <2>2 DEF OneLess
<1>8. CASE h \in Futures
  <2>1. Counted(s)' = Counted(s)
    BY <1>2, <1>3, <1>4, <1>8 DEF Counted
  <2>2. h \notin Resolved(s) /\ Resolved(s)' = Resolved(s) \cup {h}
    BY <1>0, <1>1, <1>2, <1>3, <1>4, <1>8 DEF Resolved
  <2>3. QED
    BY <1>0, <1>1, <1>2, <1>6, <1>8, <2>1, <2>2 DEF OneLess
<1>9. QED
  BY <1>7, <1>8 DEF Handlers

LEMMA OtherStepsCount ==
    ASSUME IInv,
           \/ \E s \in Strands : Release(s)
           \/ \E f \in Futures, w \in Wrappers : StartWrapped(f, w)
           \/ \E f \in Futures : Complete(f)
           \/ \E h \in Handlers : Run(h) \/ Await(h)
           \/ UNCHANGED vars
    PROVE  NoChange
<1>1. /\ hstate \in [Handlers ->
            {"none", "refused", "pending", "queued", "running", "inline", "done"}]
      /\ strand_ \in [Handlers -> Strands \cup {None}]
      /\ Callbacks \subseteq Handlers /\ Futures \subseteq Handlers
      /\ Callbacks \cap Futures = {}
  BY StrandAssumption DEF IInv, TypeOK, Handlers
<1> DEFINE Uncounted ==
        /\ UNCHANGED <<handler_count_, selfRefs, wrappedBy>>
        /\ \/ UNCHANGED strand_
           \/ \E f \in Futures : /\ hstate[f] = "none"
                                 /\ \A k \in Handlers \ {f} : strand_'[k] = strand_[k]
        /\ \A h \in Handlers : (hstate'[h] = "done") <=> (hstate[h] = "done")
<1>2. Uncounted
  <2>1. ASSUME NEW f \in Futures, NEW w \in Wrappers, StartWrapped(f, w)
        PROVE  Uncounted
    BY <1>1, <2>1 DEF StartWrapped
  <2>2. ASSUME NEW h \in Handlers, Complete(h) \/ Run(h)
        PROVE  Uncounted
    BY <1>1, <2>2 DEF Complete, Run, Enqueued, CalledAtOnce
  <2>3. ASSUME \/ \E s \in Strands : Release(s)
               \/ \E h \in Handlers : Await(h)
               \/ UNCHANGED vars
        PROVE  Uncounted
    BY <2>3 DEF Release, Await, vars
  <2>4. QED
    BY <1>1, <2>1, <2>2, <2>3
<1>3. \A x \in Strands : Resolved(x)' = Resolved(x)
  BY <1>1, <1>2 DEF Resolved
<1>4. \A x \in Strands : Counted(x)' = Counted(x)
  BY <1>1, <1>2 DEF Counted
<1>5. QED
  BY <1>2, <1>3, <1>4 DEF NoChange

LEMMA StepCounts ==
    ASSUME IInv, [Next]_vars
    PROVE  \/ NoChange
           \/ \E s \in Strands : OneMore(s)
           \/ \E h \in Handlers, s \in Strands :
                 s = strand_[h] /\ hstate[h] \in {"running", "inline"} /\ OneLess(s)
<1>1. Posted \subseteq Callbacks /\ Dispatched \subseteq Callbacks
  BY DEF Callbacks
<1>2. QED
  BY <1>1, PostCounts, WrapCounts, ReturnCounts, OtherStepsCount DEF Next

LEMMA NextCounted ==
    ASSUME IInv, CountsBalanced, [Next]_vars
    PROVE  CountsBalanced'
<1>1. TypeOK
  BY DEF IInv
<1>2. CASE NoChange
  BY <1>2 DEF NoChange, CountsBalanced, Balanced, Net
<1>3. CASE \E s \in Strands : OneMore(s) \/ OneLess(s)
  BY <1>1, <1>3, OneMoreCounted, OneLessCounted
<1>4. QED
  BY <1>2, <1>3, StepCounts

LEMMA NothingCounted ==
    ASSUME Init, NEW s \in Strands
    PROVE  Net(s) = 0
<1>1. Counted(s) = {} /\ Resolved(s) = {}
  BY StrandAssumption DEF Init, Counted, Resolved, Handlers
<1>2. QED
  BY <1>1, FS_EmptySet DEF Net

-----------------------------------------------------------------------------
(***************************************************************************)
(* While a handler of s has not returned, s has counted more than was      *)
(* given back, unless its WrappedHandlers are overused.                    *)
(***************************************************************************)
LEMMA ActiveIsCounted ==
    ASSUME IInv, NEW h \in Handlers, NEW s \in Strands, s = strand_[h],
           hstate[h] \in {"pending", "queued", "running", "inline"}, ~Overused(s)
    PROVE  Net(s) > 0
<1> DEFINE F == {f \in Futures : strand_[f] = s}  W == {w \in Wrappers : wrappedBy[w] = s}
           G == F \ {h}
<1>1. /\ IsFiniteSet(F) /\ IsFiniteSet(W) /\ IsFiniteSet(G)
      /\ Cardinality(F) \in Nat /\ Cardinality(W) \in Nat /\ Cardinality(G) \in Nat
  <2>1. F \in SUBSET (Handlers \cup Wrappers) /\ W \in SUBSET (Handlers \cup Wrappers)
        /\ G \in SUBSET (Handlers \cup Wrappers)
    BY DEF Handlers
  <2>2. IsFiniteSet(F) /\ IsFiniteSet(W) /\ IsFiniteSet(G)
    BY <2>1, FS_Subset, StrandAssumption
  <2>3. QED
    BY <2>2, FS_CardinalityType
<1>2. Cardinality(F) <= Cardinality(W)
  <2>1. ~(Cardinality(F) > Cardinality(W))
    BY DEF Overused
  <2>2. QED
    BY <1>1, <2>1
<1>3. W \subseteq Counted(s) /\ Resolved(s) \subseteq F /\ h \notin Resolved(s)
  BY DEF Counted, Resolved
<1>4. CASE h \in Callbacks
  <2>1. h \notin W /\ W \cup {h} \in SUBSET Counted(s) /\ Resolved(s) \in SUBSET F
    BY <1>3, <1>4, StrandAssumption DEF Counted
  <2>2. /\ Cardinality(W \cup {h}) = Cardinality(W) + 1
        /\ Cardinality(W \cup {h}) <= Cardinality(Counted(s))
        /\ Cardinality(Resolved(s)) <= Cardinality(F)
    BY <1>1, <2>1, CountedFinite, FS_AddElement, FS_Subset
  <2> HIDE DEF F, W, G
  <2>3. QED
    BY <1>1, <1>2, <2>2, CountedFinite DEF Net
<1>5. CASE h \in Futures
  <2>1. h \in F /\ W \in SUBSET Counted(s) /\ Resolved(s) \in SUBSET G
    BY <1>3, <1>5
  <2>2. Cardinality(G) = Cardinality(F) - 1
    BY <1>1, <2>1, FS_RemoveElement
  <2>3. Cardinality(W) <= Cardinality(Counted(s))
    BY <2>1, CountedFinite, FS_Subset
  <2>4. Cardinality(Resolved(s)) <= Cardinality(G)
    BY <1>1, <2>1, FS_Subset
  <2> HIDE DEF F, W, G
  <2>5. QED
    BY <1>1, <1>2, <2>2, <2>3, <2>4, CountedFinite DEF Net
<1>6. QED
  BY <1>4, <1>5 DEF Handlers

(***************************************************************************)
(* Each count is balanced against the callbacks and WrappedHandlers it was *)
(* raised for and the operations that gave back, although posting,         *)
(* wrapping, starting and resolving are separate calls, and although a     *)
(* WrappedHandler may be used again.                                       *)
(***************************************************************************)
THEOREM CountedAlways == Spec => [](IInv /\ CountsBalanced)
<1>1. Init => CountsBalanced
  <2>1. ASSUME Init, NEW s \in Strands
        PROVE  Balanced(handler_count_[s], Net(s), selfRefs[s])
    BY <2>1, NothingCounted, ModulusAssumption DEF Init, Balanced
  <2>2. QED
    BY <2>1 DEF CountsBalanced
<1>2. IInv /\ CountsBalanced /\ [Next]_vars => (IInv /\ CountsBalanced)'
  BY NextFits, NextCounted
<1>3. QED
  BY <1>1, <1>2, InitIInv, PTL DEF Spec

(***************************************************************************)
(* A Strand is referenced while a handler that will use it has not         *)
(* returned, whether the script still holds it or not, unless more         *)
(* operations use its WrappedHandlers than it made of them                 *)
(* (STRAND_DISPATCH_CALLBACK, future::resolve).                            *)
(***************************************************************************)
THEOREM StrandOutlivesHandlersAlways == Spec => []StrandOutlivesHandlers
<1>1. IInv /\ CountsBalanced => StrandOutlivesHandlers
  <2>1. SUFFICES ASSUME IInv, CountsBalanced, NEW h \in Handlers,
                        hstate[h] \in {"pending", "queued", "running", "inline"},
                        ~Overused(strand_[h])
                 PROVE  selfRefs[strand_[h]] > 0
    BY DEF StrandOutlivesHandlers
  <2>2. PICK s \in Strands : s = strand_[h]
    BY <2>1, StrandAssumption DEF IInv, TypeOK, StrandsKnown
  <2>3. Net(s) > 0
    BY <2>1, <2>2, ActiveIsCounted
  <2>4. /\ handler_count_[s] \in CountType /\ selfRefs[s] \in Int /\ Net(s) \in Int
        /\ Balanced(handler_count_[s], Net(s), selfRefs[s])
    BY <2>1, CountedFinite DEF IInv, TypeOK, CountsBalanced
  <2>5. selfRefs[s] > 0
    BY <2>3, <2>4, BalancedKeepsAlive
  <2>6. QED
    BY <2>2, <2>5
<1>2. QED
  BY <1>1, CountedAlways, PTL

(***************************************************************************)
(* Every Strand runs the protocol of KeepAlive with its callbacks and      *)
(* operations, as the I/O objects do with theirs, as long as its           *)
(* WrappedHandlers are not overused.                                       *)
(***************************************************************************)
THEOREM KeepsStrandsAliveAlways == Spec => KeepsStrandsAlive
<1>1. Init => \A s \in Strands : KA(s)!Init
  BY NothingCounted DEF Init, KA!Init
<1>2. ASSUME IInv, CountsBalanced, [Next]_vars, NEW s \in Strands, ~Overused(s)
      PROVE  [KA(s)!Next]_(KA(s)!vars)
  <2>1. TypeOK
    BY <1>2 DEF IInv
  <2>2. ASSUME OneMore(s)
        PROVE  KA(s)!Next
    <3>1. KA(s)!Begin
      BY <1>2, <2>1, <2>2, OneMoreCounted
      DEF KA!Begin, KA!CountInc, KA!RefGained, CountInc, RefGained
    <3>2. QED
      BY <3>1 DEF KA!Next
  <2>3. ASSUME NEW h \in Handlers, s = strand_[h], hstate[h] \in {"running", "inline"}, OneLess(s)
        PROVE  KA(s)!Next
    <3>1. Net(s) > 0
      BY <1>2, <2>3, ActiveIsCounted
    <3>2. KA(s)!End
      BY <1>2, <2>1, <2>3, <3>1, OneLessCounted
      DEF KA!End, KA!CountDec, KA!RefLost, CountDec, RefLost
    <3>3. QED
      BY <3>2 DEF KA!Next
  <2>4. ASSUME NoChange \/ \E x \in Strands \ {s} : OneMore(x) \/ OneLess(x)
        PROVE  UNCHANGED KA(s)!vars
    <3>1. /\ Counted(s)' = Counted(s) /\ Resolved(s)' = Resolved(s)
          /\ handler_count_'[s] = handler_count_[s] /\ selfRefs'[s] = selfRefs[s]
      BY <1>2, <2>4 DEF NoChange, OneMore, OneLess, OthersUnchanged
    <3>2. Net(s)' = Net(s)
      BY <3>1 DEF Net
    <3>3. QED
      BY <3>1, <3>2 DEF KA!vars
  <2>5. QED
    BY <1>2, <2>2, <2>3, <2>4, StepCounts
<1>3. IInv /\ CountsBalanced /\ [Next]_vars
         => [\A s \in Strands : Overused(s) \/ [KA(s)!Next]_(KA(s)!vars)]_vars
  BY <1>2
<1>4. QED
  BY <1>1, <1>3, CountedAlways, PTL DEF Spec, KeepsStrandsAlive
=============================================================================
