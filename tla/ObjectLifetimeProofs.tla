------------------------ MODULE ObjectLifetimeProofs ------------------------
(***************************************************************************)
(* Reference counts are exact and nothing is used after it was freed, for  *)
(* any number of objects and operations and every width of the counter.    *)
(*                                                                         *)
(* The invariant IInv is inductive.  Its preservation is one lemma per     *)
(* group of actions; the counters are handled through HandlerCountFacts.   *)
(***************************************************************************)
EXTENDS ObjectLifetime, HandlerCountFacts, FiniteSetTheorems

-----------------------------------------------------------------------------
(***************************************************************************)
(* The operations of an object are finitely many.                          *)
(***************************************************************************)
LEMMA InFlightFinite ==
    \A o \in Objects : IsFiniteSet(InFlight(o)) /\ Cardinality(InFlight(o)) \in Nat
<1>1. TAKE o \in Objects
<1>2. InFlight(o) \in SUBSET Futures
  BY DEF InFlight
<1>3. IsFiniteSet(InFlight(o))
  BY <1>2, FS_Subset, ObjectsAssumption
<1>4. QED
  BY <1>3, FS_CardinalityType

(***************************************************************************)
(* What a handler's raw pointers lead to is allocated: the operation's own *)
(* references are part of the counts, and only allocated objects have any. *)
(***************************************************************************)
LEMMA OwnedIsLive ==
    ASSUME IInv, NEW f \in Futures, phase[f] \in Started
    PROVE  /\ io_object_[f] \in Objects
           /\ state[f] = "live" /\ refcount[f] = held[f] + 1
           /\ state[io_object_[f]] = "live" /\ selfRefs[io_object_[f]] > 0
           /\ Cardinality(InFlight(io_object_[f])) > 0
           /\ accepted[f] # None =>
                 /\ accepted[f] \in Objects /\ accepted[f] # io_object_[f]
                 /\ state[accepted[f]] = "live" /\ Accepting(accepted[f])
                 /\ refcount[accepted[f]] = held[accepted[f]] + selfRefs[accepted[f]] + 1
<1> DEFINE o == io_object_[f]
           s == accepted[f]
<1> USE ObjectsAssumption DEF IInv, TypeOK, Zobj
<1>1. o \in Objects
  BY DEF HandlersWellFormed
<1>2. state[f] = "live" /\ refcount[f] = held[f] + 1
  BY DEF RefcountExact, InternalRefs, OnlyLiveReferenced
<1>3. Cardinality(InFlight(o)) > 0
  <2>1. f \in InFlight(o)
    BY DEF InFlight
  <2>2. InFlight(o) # {}
    BY <2>1
  <2>3. IsFiniteSet(InFlight(o)) /\ Cardinality(InFlight(o)) \in Nat
    BY <1>1, InFlightFinite
  <2>4. Cardinality(InFlight(o)) # 0
    BY <2>2, <2>3, FS_EmptySet
  <2>5. QED
    BY <2>3, <2>4
<1>4. selfRefs[o] > 0
  <2>1. Balanced(handler_count_[o], Cardinality(InFlight(o)), selfRefs[o])
    BY <1>1 DEF EveryCountBalanced
  <2>2. Cardinality(InFlight(o)) \in Nat /\ selfRefs[o] \in Nat /\ handler_count_[o] \in CountType
    BY <1>1, InFlightFinite
  <2>3. QED
    BY <1>3, <2>1, <2>2, BalancedKeepsAlive
<1>5. state[o] = "live"
  <2>1. InternalRefs(o) > 0
    BY <1>1, <1>4 DEF InternalRefs
  <2>2. refcount[o] > 0
    BY <1>1, <2>1 DEF RefcountExact, InternalRefs
  <2>3. QED
    BY <1>1, <2>2 DEF OnlyLiveReferenced
<1>6. ASSUME s # None
      PROVE  /\ s \in Objects /\ s # o
             /\ state[s] = "live" /\ Accepting(s)
             /\ refcount[s] = held[s] + selfRefs[s] + 1
  <2>1. s \in Objects /\ s # o
    BY <1>6 DEF HandlersWellFormed
  <2>2. Accepting(s)
    BY DEF Accepting
  <2>3. refcount[s] = held[s] + selfRefs[s] + 1
    BY <2>1, <2>2 DEF RefcountExact, InternalRefs
  <2>4. state[s] = "live"
    BY <2>1, <2>3 DEF OnlyLiveReferenced
  <2>5. QED
    BY <2>1, <2>2, <2>3, <2>4
<1>7. QED
  BY <1>1, <1>2, <1>3, <1>4, <1>5, <1>6

-----------------------------------------------------------------------------
(***************************************************************************)
(* Before any object exists nothing is counted or referenced.              *)
(***************************************************************************)
LEMMA InitIInv == Init => IInv
<1>1. SUFFICES ASSUME Init
               PROVE  IInv
  OBVIOUS
<1> USE <1>1 DEF Init
<1>2. TypeOK
  BY ModulusAssumption DEF TypeOK, CountType, Started
<1>3. RefcountExact
  BY DEF RefcountExact, InternalRefs, Accepting, Started, Zobj
<1>4. OnlyLiveReferenced /\ HandlersWellFormed /\ AbandonedIsRooted
  BY DEF OnlyLiveReferenced, HandlersWellFormed, AbandonedIsRooted, Started
<1>5. EveryCountBalanced
  <2>1. SUFFICES ASSUME NEW o \in Objects
                 PROVE  Balanced(handler_count_[o], Cardinality(InFlight(o)), selfRefs[o])
    BY DEF EveryCountBalanced
  <2>2. InFlight(o) = {}
    BY DEF InFlight, Started
  <2>3. Cardinality(InFlight(o)) = 0
    BY <2>2, FS_EmptySet
  <2>4. QED
    BY <2>3, ModulusAssumption DEF Balanced
<1>6. QED
  BY <1>2, <1>3, <1>4, <1>5 DEF IInv

-----------------------------------------------------------------------------
(***************************************************************************)
(* A step that starts and ends no operation leaves every count and handler *)
(* as it was; it preserves the invariant if it preserves the conjuncts     *)
(* that speak of the heap.                                                 *)
(***************************************************************************)
LEMMA OperationsUnmoved ==
    ASSUME IInv, UNCHANGED <<counts, io_object_, accepted>>,
           \A f \in Futures : phase'[f] \in Started <=> phase[f] \in Started
    PROVE  /\ HandlersWellFormed' /\ EveryCountBalanced'
           /\ \A x \in Zobj : /\ Accepting(x)' <=> Accepting(x)
                              /\ InternalRefs(x)' = InternalRefs(x)
                              /\ InternalRefs(x) \in Nat
                              /\ refcount[x] = held[x] + InternalRefs(x)
<1> USE DEF IInv, counts
<1>1. HandlersWellFormed'
  BY DEF HandlersWellFormed
<1>2. EveryCountBalanced'
  <2>1. \A o \in Objects : InFlight(o)' = InFlight(o)
    BY DEF InFlight
  <2>2. QED
    BY <2>1 DEF EveryCountBalanced
<1>3. \A x \in Zobj : Accepting(x)' <=> Accepting(x)
  BY DEF Accepting
<1>4. \A x \in Zobj : InternalRefs(x)' = InternalRefs(x)
  BY <1>3 DEF InternalRefs
<1>5. \A x \in Zobj : InternalRefs(x) \in Nat
  BY DEF TypeOK, InternalRefs, Zobj
<1>6. QED
  BY <1>1, <1>2, <1>3, <1>4, <1>5 DEF RefcountExact

(***************************************************************************)
(* PHP code that copies or releases a reference, and the collector, keep   *)
(* the counts exact.                                                       *)
(***************************************************************************)
LEMMA CopyIInv ==
    ASSUME IInv, NEW x \in Zobj, Copy(x)
    PROVE  IInv'
<1> USE DEF IInv, Copy, TypeOK
<1>1. UNCHANGED <<counts, phase, io_object_, accepted>>
  OBVIOUS
<1>2. TypeOK'
  BY DEF counts
<1>3. RefcountExact'
  <2>1. \A y \in Zobj : /\ InternalRefs(y)' = InternalRefs(y) /\ InternalRefs(y) \in Nat
                        /\ refcount[y] = held[y] + InternalRefs(y)
    BY <1>1, OperationsUnmoved
  <2>2. QED
    BY <2>1 DEF RefcountExact
<1>4. OnlyLiveReferenced'
  BY DEF OnlyLiveReferenced
<1>5. AbandonedIsRooted'
  BY <1>1, OperationsUnmoved DEF AbandonedIsRooted
<1>6. QED
  BY <1>1, <1>2, <1>3, <1>4, <1>5, OperationsUnmoved

LEMMA ReleaseIInv ==
    ASSUME IInv, NEW x \in Zobj, Release(x)
    PROVE  IInv'
<1> USE DEF IInv, Release, TypeOK
<1>1. UNCHANGED <<counts, phase, io_object_, accepted>>
  OBVIOUS
<1>2. refcount[x] > 0
  BY <1>1, OperationsUnmoved
<1>3. TypeOK'
  BY <1>2 DEF PtrDtor, counts
<1>4. RefcountExact'
  BY <1>1, <1>2, OperationsUnmoved DEF RefcountExact
<1>5. OnlyLiveReferenced'
  <2>1. CASE refcount[x] = 1
    <3>1. held[x] = 1
      BY <1>1, <2>1, OperationsUnmoved
    <3>2. QED
      BY <2>1, <3>1 DEF OnlyLiveReferenced, PtrDtor
  <2>2. CASE refcount[x] # 1
    BY <1>2, <2>2 DEF OnlyLiveReferenced, PtrDtor
  <2>3. QED
    BY <2>1, <2>2
<1>6. AbandonedIsRooted'
  BY <1>1, OperationsUnmoved DEF AbandonedIsRooted, PtrDtor
<1>7. QED
  BY <1>1, <1>3, <1>4, <1>5, <1>6, OperationsUnmoved

LEMMA GcRunIInv ==
    ASSUME IInv, GcRun
    PROVE  IInv'
<1> USE DEF IInv, GcRun, TypeOK
<1>1. UNCHANGED <<counts, phase, io_object_, accepted>>
  OBVIOUS
<1>2. TypeOK'
  BY DEF counts
<1>3. RefcountExact'
  BY <1>1, OperationsUnmoved DEF RefcountExact
<1>4. OnlyLiveReferenced'
  BY <1>1, OperationsUnmoved DEF OnlyLiveReferenced
<1>5. AbandonedIsRooted'
  BY <1>1, OperationsUnmoved DEF AbandonedIsRooted
<1>6. QED
  BY <1>1, <1>2, <1>3, <1>4, <1>5, OperationsUnmoved

(***************************************************************************)
(* A factory's new object starts with the one reference it returns.        *)
(***************************************************************************)
LEMMA AddObjectIInv ==
    ASSUME IInv, NEW o \in Objects, AddObject(o)
    PROVE  IInv'
<1> USE ObjectsAssumption DEF IInv, AddObject, TypeOK, Zobj
<1>1. UNCHANGED <<counts, phase, io_object_, accepted>>
  OBVIOUS
<1>2. TypeOK'
  BY DEF counts
<1>3. InternalRefs(o) = 0
  BY <1>1, OperationsUnmoved DEF OnlyLiveReferenced
<1>4. RefcountExact'
  BY <1>1, <1>3, OperationsUnmoved DEF RefcountExact
<1>5. OnlyLiveReferenced'
  BY DEF OnlyLiveReferenced
<1>6. AbandonedIsRooted'
  BY <1>1, OperationsUnmoved DEF AbandonedIsRooted
<1>7. QED
  BY <1>1, <1>2, <1>4, <1>5, <1>6, OperationsUnmoved

-----------------------------------------------------------------------------
(***************************************************************************)
(* An operation that starts joins those of its object and of no other.     *)
(***************************************************************************)
LEMMA InFlightGrows ==
    ASSUME IInv, NEW o \in Objects, NEW f \in Futures, NEW s,
           FutureInit(o, f, s)
    PROVE  \A p \in Objects :
              Cardinality(InFlight(p))' = Cardinality(InFlight(p)) + (IF p = o THEN 1 ELSE 0)
<1> USE DEF IInv, TypeOK, FutureInit
<1>1. TAKE p \in Objects
<1>2. IsFiniteSet(InFlight(p)) /\ Cardinality(InFlight(p)) \in Nat
  BY InFlightFinite
<1>3. CASE p = o
  <2>1. InFlight(o)' = InFlight(o) \cup {f} /\ f \notin InFlight(o)
    BY DEF InFlight, Started
  <2> HIDE DEF IInv, TypeOK, FutureInit
  <2>2. Cardinality(InFlight(p) \cup {f}) = Cardinality(InFlight(p)) + 1
    BY <1>2, <1>3, <2>1, FS_AddElement
  <2>3. QED
    BY <1>3, <2>1, <2>2
<1>4. CASE p # o
  <2>1. InFlight(p)' = InFlight(p)
    BY <1>4 DEF InFlight, Started
  <2>2. QED
    BY <1>2, <1>4, <2>1
<1>5. QED
  BY <1>3, <1>4

(***************************************************************************)
(* An operation of any kind that starts takes exactly the references it    *)
(* will give back.  The socket an accept allocates is new, so no other     *)
(* operation is accepting into it.                                         *)
(***************************************************************************)
LEMMA StartIInv ==
    ASSUME IInv, NEW o \in Objects, NEW f \in Futures, NEW s \in Objects \cup {None},
           FutureInit(o, f, s),
           s # None => o \in Acceptors /\ s \notin Acceptors /\ state[s] = "none"
    PROVE  IInv'
<1> USE ObjectsAssumption DEF IInv, TypeOK, Zobj, FutureInit
<1> DEFINE c == handler_count_[o]
<1>1. "none" \notin Started /\ "pending" \in Started /\ phase[f] = "none"
  BY DEF Started
<1>2. f # o /\ f # s /\ o # s /\ state[o] = "live"
  BY DEF OnlyLiveReferenced
<1>3. c \in CountType /\ RefGained(c) \in {0, 1} /\ CountInc(c) \in CountType
  BY CountIncValue DEF RefGained
<1>4. ASSUME s # None
      PROVE  held[s] = 0 /\ refcount[s] = 0 /\ selfRefs[s] = 0 /\ ~Accepting(s)
  <2>1. held[s] = 0 /\ refcount[s] = 0
    BY <1>4 DEF OnlyLiveReferenced
  <2>2. InternalRefs(s) = 0
    BY <1>4, <2>1 DEF RefcountExact, InternalRefs
  <2>3. QED
    BY <1>4, <2>1, <2>2 DEF InternalRefs
<1>5. \A x \in Objects : Accepting(x)' <=> (x = s \/ Accepting(x))
  BY <1>1 DEF Accepting
<1>6. /\ refcount[f] = held[f]
      /\ \A x \in Objects : refcount[x] = held[x] + selfRefs[x] + (IF Accepting(x) THEN 1 ELSE 0)
  BY <1>1 DEF RefcountExact, InternalRefs
<1>7. TypeOK'
  BY <1>3 DEF Started
<1>8. RefcountExact'
  <2>1. refcount'[f] = held'[f] + InternalRefs(f)'
    BY <1>1 DEF InternalRefs
  <2>2. ASSUME NEW x \in Futures, x # f
        PROVE  refcount'[x] = held'[x] + InternalRefs(x)'
    <3>1. refcount'[x] = refcount[x] /\ held'[x] = held[x]
      BY <2>2
    <3>2. InternalRefs(x)' = InternalRefs(x)
      BY <2>2 DEF InternalRefs
    <3>3. QED
      BY <3>1, <3>2 DEF RefcountExact
  <2>3. ASSUME NEW x \in Objects
        PROVE  refcount'[x] = held'[x] + InternalRefs(x)'
    <3>1. InternalRefs(x)' = selfRefs'[x] + (IF Accepting(x)' THEN 1 ELSE 0)
      BY DEF InternalRefs
    <3>2. CASE x = s
      BY <1>2, <1>4, <1>5, <3>1, <3>2
    <3>3. CASE x = o
      BY <1>2, <1>3, <1>5, <1>6, <3>1, <3>3
    <3>4. CASE x # s /\ x # o
      BY <1>5, <1>6, <3>1, <3>4
    <3>5. QED
      BY <3>2, <3>3, <3>4
  <2>4. QED
    BY <2>1, <2>2, <2>3 DEF RefcountExact
<1>9. OnlyLiveReferenced'
  BY <1>2 DEF OnlyLiveReferenced
<1>10. HandlersWellFormed'
  <2>1. SUFFICES ASSUME NEW g \in Futures, phase'[g] \in Started
                 PROVE  /\ io_object_'[g] \in Objects
                        /\ accepted'[g] # None =>
                             /\ io_object_'[g] \in Acceptors
                             /\ accepted'[g] \notin Acceptors
                             /\ \A h \in Futures \ {g} :
                                  phase'[h] \in Started => accepted'[h] # accepted'[g]
    BY DEF HandlersWellFormed
  <2>2. CASE g = f
    BY <1>4, <2>2 DEF Accepting
  <2>3. CASE g # f
    <3>1. /\ phase'[g] = phase[g] /\ io_object_'[g] = io_object_[g]
          /\ accepted'[g] = accepted[g] /\ phase[g] \in Started
      BY <2>1, <2>3
    <3>2. accepted[g] # None => accepted[g] # s
      BY <1>4, <3>1 DEF Accepting
    <3>3. QED
      BY <2>3, <3>1, <3>2 DEF HandlersWellFormed
  <2>4. QED
    BY <2>2, <2>3
<1>11. EveryCountBalanced'
  <2>1. SUFFICES ASSUME NEW p \in Objects
                 PROVE  Balanced(handler_count_'[p], Cardinality(InFlight(p))', selfRefs'[p])
    BY DEF EveryCountBalanced
  <2>2. /\ Balanced(handler_count_[p], Cardinality(InFlight(p)), selfRefs[p])
        /\ Cardinality(InFlight(p)) \in Nat
    BY InFlightFinite DEF EveryCountBalanced
  <2>3. Cardinality(InFlight(p))' = Cardinality(InFlight(p)) + (IF p = o THEN 1 ELSE 0)
    BY InFlightGrows
  <2>4. CASE p = o
    <3>1. Balanced(CountInc(c), Cardinality(InFlight(o)) + 1, selfRefs[o] + RefGained(c))
      BY <2>2, <2>4, BalancedBegin
    <3>2. QED
      BY <2>3, <2>4, <3>1
  <2>5. CASE p # o
    BY <2>2, <2>3, <2>5
  <2>6. QED
    BY <2>4, <2>5
<1>12. AbandonedIsRooted'
  <2>1. SUFFICES ASSUME NEW x \in Zobj, state'[x] = "live", held'[x] = 0, ~Accepting(x)'
                 PROVE  x \in roots \cup scanned
    BY DEF AbandonedIsRooted
  <2>2. x # f
    BY <2>1
  <2>3. x # s
    BY <1>5, <2>1
  <2>4. ~Accepting(x)
    <3>1. CASE x \in Objects
      BY <1>5, <2>1, <3>1
    <3>2. CASE x \in Futures
      BY <3>2 DEF Accepting
    <3>3. QED
      BY <3>1, <3>2
  <2>5. QED
    BY <2>1, <2>2, <2>3, <2>4 DEF AbandonedIsRooted
<1>13. QED
  BY <1>7, <1>8, <1>9, <1>10, <1>11, <1>12

-----------------------------------------------------------------------------
(***************************************************************************)
(* The arguments of the callback and the value sent to a generator are     *)
(* references the script gains and the counts know of.                     *)
(***************************************************************************)
LEMMA GainIInv ==
    ASSUME IInv, NEW f \in Futures,
           phase[f] \in Started,
           \E p \in Started : phase' = [phase EXCEPT ![f] = p],
           held' \in [Zobj -> Nat], refcount' \in [Zobj -> Nat],
           \A x \in Zobj :
              \/ held'[x] = held[x] /\ refcount'[x] = refcount[x]
              \/ /\ x \in {io_object_[f], accepted[f]}
                 /\ held'[x] = held[x] + 1 /\ refcount'[x] = refcount[x] + 1,
           UNCHANGED <<state, roots, scanned, counts, io_object_, accepted>>
    PROVE  IInv'
<1> USE DEF IInv, TypeOK
<1>1. \A g \in Futures : phase'[g] \in Started <=> phase[g] \in Started
  OBVIOUS
<1>2. TypeOK'
  BY DEF counts
<1>3. RefcountExact'
  <2>1. \A y \in Zobj : /\ InternalRefs(y)' = InternalRefs(y) /\ InternalRefs(y) \in Nat
                        /\ refcount[y] = held[y] + InternalRefs(y)
    BY <1>1, OperationsUnmoved
  <2>2. QED
    BY <2>1 DEF RefcountExact
<1>4. \A x \in Zobj \cap {io_object_[f], accepted[f]} : state[x] = "live"
  <2>1. None \notin Zobj
    BY ObjectsAssumption
  <2>2. QED
    BY <2>1, OwnedIsLive
<1>5. OnlyLiveReferenced'
  BY <1>4 DEF OnlyLiveReferenced
<1>6. AbandonedIsRooted'
  <2>1. \A x \in Zobj : held'[x] = 0 => held[x] = 0
    OBVIOUS
  <2>2. \A x \in Zobj : Accepting(x)' <=> Accepting(x)
    BY <1>1, OperationsUnmoved
  <2>3. QED
    BY <2>1, <2>2 DEF AbandonedIsRooted
<1>7. QED
  BY <1>1, <1>2, <1>3, <1>5, <1>6, OperationsUnmoved

(***************************************************************************)
(* The steps of future::resolve up to and including generator_send.        *)
(***************************************************************************)
LEMMA ResolveIInv ==
    ASSUME IInv, NEW f \in Futures,
           CallbackInvoked(f) \/ NoCallback(f) \/ SendToGenerator(f)
    PROVE  IInv'
<1>1. "called" \in Started /\ "sent" \in Started /\ "pending" \in Started
  BY DEF Started
<1> USE DEF IInv, TypeOK
<1>2. CASE CallbackInvoked(f)
  <2>1. held' \in [Zobj -> Nat] /\ refcount' \in [Zobj -> Nat]
    BY <1>2 DEF CallbackInvoked
  <2>2. \A x \in Zobj :
           \/ held'[x] = held[x] /\ refcount'[x] = refcount[x]
           \/ /\ x \in {io_object_[f], accepted[f]}
              /\ held'[x] = held[x] + 1 /\ refcount'[x] = refcount[x] + 1
    BY <1>2 DEF CallbackInvoked
  <2>3. QED
    BY <1>1, <1>2, <2>1, <2>2, GainIInv DEF CallbackInvoked
<1>3. CASE NoCallback(f)
  BY <1>1, <1>3, GainIInv DEF NoCallback, heap
<1>4. CASE SendToGenerator(f)
  <2>1. held' \in [Zobj -> Nat] /\ refcount' \in [Zobj -> Nat]
    BY <1>4 DEF SendToGenerator
  <2>2. \A x \in Zobj :
           \/ held'[x] = held[x] /\ refcount'[x] = refcount[x]
           \/ /\ x \in {io_object_[f], accepted[f]}
              /\ held'[x] = held[x] + 1 /\ refcount'[x] = refcount[x] + 1
    BY <1>4 DEF SendToGenerator
  <2>3. QED
    BY <1>1, <1>4, <2>1, <2>2, GainIInv DEF SendToGenerator
<1>5. QED
  BY <1>2, <1>3, <1>4

(***************************************************************************)
(* An operation that finishes leaves its object's operations, no other's.  *)
(***************************************************************************)
LEMMA InFlightShrinks ==
    ASSUME IInv, NEW f \in Futures, Finish(f)
    PROVE  \A p \in Objects :
              Cardinality(InFlight(p))' =
                  Cardinality(InFlight(p)) - (IF p = io_object_[f] THEN 1 ELSE 0)
<1> USE DEF IInv, TypeOK, Finish
<1>1. TAKE p \in Objects
<1>2. IsFiniteSet(InFlight(p)) /\ Cardinality(InFlight(p)) \in Nat
  BY InFlightFinite
<1>3. CASE p = io_object_[f]
  <2>1. InFlight(p)' = InFlight(p) \ {f} /\ f \in InFlight(p)
    BY <1>3 DEF InFlight, Started
  <2>2. Cardinality(InFlight(p) \ {f}) = Cardinality(InFlight(p)) - 1
    BY <1>2, <2>1, FS_RemoveElement
  <2>3. QED
    BY <1>3, <2>1, <2>2
<1>4. CASE p # io_object_[f]
  <2>1. InFlight(p)' = InFlight(p)
    BY <1>4 DEF InFlight, Started
  <2>2. QED
    BY <1>2, <1>4, <2>1
<1>5. QED
  BY <1>3, <1>4

(***************************************************************************)
(* The end of future::resolve gives back exactly what the operation took:  *)
(* no count goes below the references that remain, nothing is freed that   *)
(* somebody still references.                                              *)
(***************************************************************************)
LEMMA FinishIInv ==
    ASSUME IInv, NEW f \in Futures, Finish(f)
    PROVE  IInv'
<1> USE ObjectsAssumption DEF IInv, TypeOK, Zobj, Finish
<1> DEFINE o == io_object_[f]
           s == accepted[f]
           c == handler_count_[o]
<1>1. phase[f] \in Started /\ "done" \notin Started
  BY DEF Started
<1>2. /\ o \in Objects /\ refcount[f] = held[f] + 1 /\ selfRefs[o] > 0
      /\ Cardinality(InFlight(o)) > 0
      /\ s # None => /\ s \in Objects /\ s # o /\ Accepting(s)
                     /\ refcount[s] = held[s] + selfRefs[s] + 1
  BY <1>1, OwnedIsLive
<1>3. f # o /\ f # s /\ o # s
  BY <1>2
<1>4. c \in CountType /\ RefLost(c) \in {0, 1} /\ CountDec(c) \in CountType
  BY <1>2, CountDecValue DEF RefLost
<1>5. \A x \in Objects : Accepting(x)' <=> (x # s /\ Accepting(x))
  <2>1. TAKE x \in Objects
  <2>2. CASE x = s
    <3>1. \A g \in Futures \ {f} : phase[g] \in Started => accepted[g] # s
      BY <1>1, <2>2 DEF HandlersWellFormed
    <3>2. QED
      BY <1>1, <2>2, <3>1 DEF Accepting
  <2>3. CASE x # s
    BY <1>1, <2>3 DEF Accepting
  <2>4. QED
    BY <2>2, <2>3
<1>6. \A x \in Objects : refcount[x] = held[x] + selfRefs[x] + (IF Accepting(x) THEN 1 ELSE 0)
  BY DEF RefcountExact, InternalRefs
<1>7. /\ \A x \in Zobj : refcount'[x] = refcount[x]
                           - (IF x = f \/ x = s THEN 1 ELSE IF x = o THEN RefLost(c) ELSE 0)
      /\ \A x \in Objects : selfRefs'[x] = selfRefs[x] - (IF x = o THEN RefLost(c) ELSE 0)
      /\ held' = held
  BY <1>2, <1>3, <1>4
<1>8. TypeOK'
  <2>1. \A x \in Zobj : refcount'[x] \in Nat
    BY <1>2, <1>3, <1>4, <1>6, <1>7
  <2>2. selfRefs' \in [Objects -> Nat]
    BY <1>2, <1>4
  <2>3. refcount' \in [Zobj -> Nat]
    BY <2>1
  <2>4. state' \in [Zobj -> {"none", "live", "freed"}] /\ roots' \in SUBSET Zobj
        /\ scanned' \in SUBSET Zobj
    BY <1>2 DEF PtrDtor
  <2>5. QED
    BY <1>4, <2>2, <2>3, <2>4
<1>9. RefcountExact'
  <2>1. ASSUME NEW x \in Futures
        PROVE  refcount'[x] = held'[x] + InternalRefs(x)'
    <3>1. CASE x = f
      BY <1>1, <1>2, <1>7, <3>1 DEF InternalRefs
    <3>2. CASE x # f
      <4>1. InternalRefs(x)' = InternalRefs(x)
        BY <3>2 DEF InternalRefs
      <4>2. refcount'[x] = refcount[x]
        BY <1>2, <1>7, <3>2
      <4>3. QED
        BY <1>7, <4>1, <4>2 DEF RefcountExact
    <3>3. QED
      BY <3>1, <3>2
  <2>2. ASSUME NEW x \in Objects
        PROVE  refcount'[x] = held'[x] + InternalRefs(x)'
    <3>1. InternalRefs(x)' = selfRefs'[x] + (IF Accepting(x)' THEN 1 ELSE 0)
      BY DEF InternalRefs
    <3>2. QED
      BY <1>2, <1>3, <1>4, <1>5, <1>6, <1>7, <3>1
  <2>3. QED
    BY <2>1, <2>2 DEF RefcountExact
<1>10. OnlyLiveReferenced'
  <2>1. SUFFICES ASSUME NEW x \in Zobj, state'[x] # "live"
                 PROVE  held'[x] = 0 /\ refcount'[x] = 0
    BY DEF OnlyLiveReferenced
  <2>2. CASE state[x] # "live"
    <3>1. x # f /\ x # o /\ x # s
      BY <1>1, <2>2, OwnedIsLive
    <3>2. QED
      BY <1>7, <2>2, <3>1 DEF OnlyLiveReferenced
  <2>3. CASE state[x] = "live"
    <3>1. x = s /\ refcount[s] = 1
      BY <2>1, <2>3 DEF PtrDtor
    <3>2. held[s] = 0
      <4>1. s # None
        BY <3>1
      <4>2. held[s] \in Nat /\ selfRefs[s] \in Nat
        BY <1>2, <4>1
      <4>3. refcount[s] = held[s] + selfRefs[s] + 1
        BY <1>2, <4>1
      <4> HIDE DEF IInv, TypeOK, Zobj, Finish, s
      <4>4. QED
        BY <3>1, <4>2, <4>3
    <3>3. QED
      BY <1>7, <3>1, <3>2
  <2>4. QED
    BY <2>2, <2>3
<1>11. HandlersWellFormed'
  <2>1. \A g \in Futures : phase'[g] \in Started => phase[g] \in Started
    BY <1>1
  <2>2. QED
    BY <2>1 DEF HandlersWellFormed
<1>12. EveryCountBalanced'
  <2>1. SUFFICES ASSUME NEW p \in Objects
                 PROVE  Balanced(handler_count_'[p], Cardinality(InFlight(p))', selfRefs'[p])
    BY DEF EveryCountBalanced
  <2>2. /\ Balanced(handler_count_[p], Cardinality(InFlight(p)), selfRefs[p])
        /\ Cardinality(InFlight(p)) \in Nat
    BY InFlightFinite DEF EveryCountBalanced
  <2>3. Cardinality(InFlight(p))' = Cardinality(InFlight(p)) - (IF p = o THEN 1 ELSE 0)
    BY InFlightShrinks
  <2>4. CASE p = o
    <3>1. Balanced(CountDec(c), Cardinality(InFlight(o)) - 1, selfRefs[o] - RefLost(c))
      BY <1>2, <2>2, <2>4, BalancedEnd
    <3>2. QED
      BY <2>3, <2>4, <3>1
  <2>5. CASE p # o
    BY <2>2, <2>3, <2>5
  <2>6. QED
    BY <2>4, <2>5
<1>13. AbandonedIsRooted'
  <2>1. SUFFICES ASSUME NEW x \in Zobj, state'[x] = "live", held'[x] = 0, ~Accepting(x)'
                 PROVE  x \in roots' \cup scanned'
    BY DEF AbandonedIsRooted
  <2>2. CASE x = s
    BY <1>2, <2>1, <2>2 DEF PtrDtor
  <2>3. CASE x # s
    <3>1. ~Accepting(x)
      <4>1. CASE x \in Objects
        BY <1>5, <2>1, <2>3, <4>1
      <4>2. CASE x \in Futures
        BY <4>2 DEF Accepting
      <4>3. QED
        BY <4>1, <4>2
    <3>2. state[x] = "live"
      BY <2>1, <2>3 DEF PtrDtor
    <3>3. x \in roots \cup scanned
      BY <1>7, <2>1, <3>1, <3>2 DEF AbandonedIsRooted
    <3>4. QED
      BY <2>3, <3>3 DEF PtrDtor
  <2>4. QED
    BY <2>2, <2>3
<1>14. QED
  BY <1>8, <1>9, <1>10, <1>11, <1>12, <1>13

-----------------------------------------------------------------------------
(***************************************************************************)
(* Every step of the extension and of the script keeps the invariant.      *)
(***************************************************************************)
LEMMA NextIInv == IInv /\ [Next]_vars => IInv'
<1>1. SUFFICES ASSUME IInv, [Next]_vars
               PROVE  IInv'
  OBVIOUS
<1>2. ASSUME NEW x \in Zobj, Copy(x) \/ Release(x)
      PROVE  IInv'
  BY <1>1, <1>2, CopyIInv, ReleaseIInv
<1>3. CASE GcRun
  BY <1>1, <1>3, GcRunIInv
<1>4. ASSUME NEW o \in Objects, AddObject(o)
      PROVE  IInv'
  BY <1>1, <1>4, AddObjectIInv
<1>5. ASSUME NEW o \in Objects, NEW f \in Futures, Start(o, f)
      PROVE  IInv'
  BY <1>1, <1>5, StartIInv DEF Start
<1>6. ASSUME NEW o \in Objects, NEW s \in Objects, NEW f \in Futures, Accept(o, f, s)
      PROVE  IInv'
  BY <1>1, <1>6, StartIInv DEF Accept
<1>7. ASSUME NEW f \in Futures,
             CallbackInvoked(f) \/ NoCallback(f) \/ SendToGenerator(f)
      PROVE  IInv'
  BY <1>1, <1>7, ResolveIInv
<1>8. ASSUME NEW f \in Futures, Finish(f)
      PROVE  IInv'
  BY <1>1, <1>8, FinishIInv
<1>9. CASE UNCHANGED vars
  <2>1. UNCHANGED <<heap, counts, phase, io_object_, accepted>>
    BY <1>9 DEF vars
  <2>2. HandlersWellFormed' /\ EveryCountBalanced' /\ RefcountExact'
    BY <1>1, <2>1, OperationsUnmoved DEF heap, RefcountExact
  <2>3. AbandonedIsRooted'
    BY <1>1, <2>1, OperationsUnmoved DEF IInv, heap, AbandonedIsRooted
  <2>4. TypeOK' /\ OnlyLiveReferenced'
    BY <1>1, <2>1 DEF IInv, heap, counts, TypeOK, OnlyLiveReferenced
  <2>5. QED
    BY <2>2, <2>3, <2>4 DEF IInv
<1>10. QED
  BY <1>1, <1>2, <1>3, <1>4, <1>5, <1>6, <1>7, <1>8, <1>9 DEF Next

(***************************************************************************)
(* The inductive invariant holds in every reachable state.                 *)
(***************************************************************************)
THEOREM IInvAlways == Spec => []IInv
  BY InitIInv, NextIInv, PTL DEF Spec

(***************************************************************************)
(* Reference counts are exact: Zend never frees an object an operation     *)
(* needs, and never keeps one for an operation that is over                *)
(* (PHP_ASIO_FUTURE_INIT, future::add, future::resolve).                   *)
(***************************************************************************)
THEOREM RefcountExactAlways == Spec => []RefcountExact
  BY IInvAlways, PTL DEF IInv

(***************************************************************************)
(* The raw pointers that handlers carry across the event loop are valid    *)
(* until future::resolve has used them, whatever the script drops          *)
(* meanwhile.                                                              *)
(***************************************************************************)
THEOREM NoUseAfterFreeAlways == Spec => []NoUseAfterFree
<1>1. IInv => NoUseAfterFree
  <2>1. SUFFICES ASSUME IInv
                 PROVE  NoUseAfterFree
    OBVIOUS
  <2>2. \A x \in Zobj : held[x] > 0 => state[x] = "live"
    BY <2>1 DEF IInv, TypeOK, OnlyLiveReferenced
  <2>3. QED
    BY <2>1, <2>2, OwnedIsLive DEF NoUseAfterFree
<1>2. QED
  BY <1>1, IInvAlways, PTL

(***************************************************************************)
(* The only way to leak an object is a collector run that falls between    *)
(* the script's last release of it and the GC_DELREF that ends its last    *)
(* operation (PHP_ASIO_OBJ_DTOR).                                          *)
(***************************************************************************)
THEOREM GarbageIsRootedAlways == Spec => []GarbageIsRooted
<1>1. IInv => GarbageIsRooted
  <2>1. SUFFICES ASSUME IInv, NEW x \in Zobj, state[x] = "live", refcount[x] = 0
                 PROVE  x \in roots \cup scanned
    BY DEF GarbageIsRooted
  <2>2. held[x] = 0 /\ InternalRefs(x) = 0
    BY <2>1 DEF IInv, TypeOK, RefcountExact, InternalRefs, Zobj
  <2>3. ~Accepting(x)
    <3>1. CASE x \in Objects
      BY <2>1, <2>2, <3>1, ObjectsAssumption DEF IInv, TypeOK, InternalRefs
    <3>2. CASE x \in Futures
      BY <2>1, <3>2, ObjectsAssumption DEF IInv, TypeOK, Accepting, Zobj
    <3>3. QED
      BY <3>1, <3>2 DEF Zobj
  <2>4. QED
    BY <2>1, <2>2, <2>3 DEF IInv, AbandonedIsRooted
<1>2. QED
  BY <1>1, IInvAlways, PTL

-----------------------------------------------------------------------------
(***************************************************************************)
(* A step changes the operations of an object, and with them its counter,  *)
(* as a step of KeepAlive does, or not at all.                             *)
(***************************************************************************)
LEMMA StepKeepsAlive ==
    ASSUME IInv, [Next]_vars, NEW o \in Objects
    PROVE  [KA(o)!Next]_(KA(o)!vars)
<1> USE DEF IInv, TypeOK
<1>1. ASSUME NEW p \in Objects, NEW f \in Futures, NEW s, FutureInit(p, f, s)
      PROVE  [KA(o)!Next]_(KA(o)!vars)
  <2>1. Cardinality(InFlight(o))' = Cardinality(InFlight(o)) + (IF o = p THEN 1 ELSE 0)
    BY <1>1, InFlightGrows
  <2>2. Cardinality(InFlight(o)) < Cardinality(Futures) \/ o # p
    <3>1. SUFFICES ASSUME o = p
                   PROVE  Cardinality(InFlight(o)) < Cardinality(Futures)
      OBVIOUS
    <3>2. InFlight(o) \in SUBSET Futures /\ f \notin InFlight(o)
      BY <1>1 DEF FutureInit, InFlight, Started
    <3>3. /\ Cardinality(InFlight(o)) <= Cardinality(Futures)
          /\ Cardinality(InFlight(o)) # Cardinality(Futures)
      BY <3>2, FS_Subset, ObjectsAssumption
    <3>4. Cardinality(InFlight(o)) \in Nat /\ Cardinality(Futures) \in Nat
      BY InFlightFinite, FS_CardinalityType, ObjectsAssumption
    <3>5. QED
      BY <3>3, <3>4
  <2>3. CASE o = p
    <3>1. /\ handler_count_[o]' = CountInc(handler_count_[o])
          /\ selfRefs[o]' = selfRefs[o] + RefGained(handler_count_[o])
      BY <1>1, <2>3 DEF FutureInit
    <3>2. KA(o)!Begin
      BY <2>1, <2>2, <2>3, <3>1 DEF KA!Begin, KA!CountInc, KA!RefGained, CountInc, RefGained
    <3>3. QED
      BY <3>2 DEF KA!Next
  <2>4. CASE o # p
    <3>1. handler_count_[o]' = handler_count_[o] /\ selfRefs[o]' = selfRefs[o]
      BY <1>1, <2>4 DEF FutureInit
    <3>2. Cardinality(InFlight(o))' = Cardinality(InFlight(o))
      BY <2>1, <2>4, InFlightFinite
    <3>3. QED
      BY <3>1, <3>2 DEF KA!vars
  <2>5. QED
    BY <2>3, <2>4
<1>2. ASSUME NEW f \in Futures, Finish(f)
      PROVE  [KA(o)!Next]_(KA(o)!vars)
  <2>1. Cardinality(InFlight(o))' =
           Cardinality(InFlight(o)) - (IF o = io_object_[f] THEN 1 ELSE 0)
    BY <1>2, InFlightShrinks
  <2>2. CASE o = io_object_[f]
    <3>1. /\ handler_count_[o]' = CountDec(handler_count_[o])
          /\ selfRefs[o]' = selfRefs[o] - RefLost(handler_count_[o])
      BY <1>2, <2>2 DEF Finish
    <3>2. Cardinality(InFlight(o)) > 0
      BY <1>2, <2>2, OwnedIsLive DEF Finish, Started
    <3>3. KA(o)!End
      BY <2>1, <2>2, <3>1, <3>2 DEF KA!End, KA!CountDec, KA!RefLost, CountDec, RefLost
    <3>4. QED
      BY <3>3 DEF KA!Next
  <2>3. CASE o # io_object_[f]
    <3>1. handler_count_[o]' = handler_count_[o] /\ selfRefs[o]' = selfRefs[o]
      BY <1>2, <2>3 DEF Finish
    <3>2. Cardinality(InFlight(o))' = Cardinality(InFlight(o))
      BY <2>1, <2>3, InFlightFinite
    <3>3. QED
      BY <3>1, <3>2 DEF KA!vars
  <2>4. QED
    BY <2>2, <2>3
<1>3. ASSUME UNCHANGED <<counts, io_object_>>,
             \A f \in Futures : phase'[f] \in Started <=> phase[f] \in Started
      PROVE  [KA(o)!Next]_(KA(o)!vars)
  <2>1. InFlight(o)' = InFlight(o)
    BY <1>3 DEF InFlight
  <2>2. handler_count_[o]' = handler_count_[o] /\ selfRefs[o]' = selfRefs[o]
    BY <1>3 DEF counts
  <2>3. QED
    BY <2>1, <2>2 DEF KA!vars
<1>4. ASSUME NEW f \in Futures,
             CallbackInvoked(f) \/ NoCallback(f) \/ SendToGenerator(f)
      PROVE  [KA(o)!Next]_(KA(o)!vars)
  <2>1. \A g \in Futures : phase'[g] \in Started <=> phase[g] \in Started
    BY <1>4 DEF CallbackInvoked, NoCallback, SendToGenerator, Started
  <2>2. UNCHANGED <<counts, io_object_>>
    BY <1>4 DEF CallbackInvoked, NoCallback, SendToGenerator
  <2>3. QED
    BY <1>3, <2>1, <2>2
<1>5. ASSUME UNCHANGED <<counts, phase, io_object_>>
      PROVE  [KA(o)!Next]_(KA(o)!vars)
  BY <1>3, <1>5
<1>6. CASE UNCHANGED vars
  BY <1>5, <1>6 DEF vars
<1>7. CASE \/ \E x \in Zobj : Copy(x) \/ Release(x)
           \/ GcRun
           \/ \E p \in Objects : AddObject(p)
  BY <1>5, <1>7 DEF Copy, Release, GcRun, AddObject
<1>8. QED
  BY <1>1, <1>2, <1>4, <1>6, <1>7 DEF Next, Start, Accept

(***************************************************************************)
(* Every I/O object runs the protocol of KeepAlive with its own            *)
(* operations, whatever the others do: what is proved of that protocol     *)
(* holds of each object (base.hpp, PHP_ASIO_INC_HANDLER_COUNT,             *)
(* future::resolve).                                                       *)
(***************************************************************************)
THEOREM KeepsObjectsAliveAlways == Spec => KeepsObjectsAlive
<1>1. Init => \A o \in Objects : KA(o)!Init
  <2>1. SUFFICES ASSUME Init, NEW o \in Objects
                 PROVE  KA(o)!Init
    OBVIOUS
  <2>2. InFlight(o) = {}
    BY <2>1 DEF Init, InFlight, Started
  <2>3. Cardinality(InFlight(o)) = 0
    BY <2>2, FS_EmptySet
  <2>4. QED
    BY <2>1, <2>3 DEF Init, KA!Init
<1>2. IInv /\ [Next]_vars => \A o \in Objects : [KA(o)!Next]_(KA(o)!vars)
  BY StepKeepsAlive
<1>3. IInv /\ [Next]_vars =>
         [\A o \in Objects : [KA(o)!Next]_(KA(o)!vars)]_vars
  BY <1>2
<1>4. QED
  BY <1>1, <1>3, IInvAlways, PTL DEF Spec, KeepsObjectsAlive
=============================================================================
