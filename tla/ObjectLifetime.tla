--------------------------- MODULE ObjectLifetime ---------------------------
(***************************************************************************)
(* Who keeps the Zend objects of the extension alive.                      *)
(*                                                                         *)
(* I/O objects and Futures are Zend objects with a reference count.  A     *)
(* script holds references on them; so does each asynchronous operation:   *)
(* one on its Future, through the handler count one on its I/O object, and *)
(* one on the socket an accept is going to fill.  The operation drops the  *)
(* references on the Future and on the I/O object with GC_DELREF, which    *)
(* never frees: an object that ends with a count of 0 is reclaimed only by *)
(* PHP's cycle collector, and only if it is still in its root buffer.      *)
(*                                                                         *)
(* PHP code is everything that may happen between two steps of the         *)
(* extension: it starts operations, copies and releases references, in the *)
(* main script, in callbacks and in generators alike.                      *)
(***************************************************************************)
EXTENDS HandlerCount, FiniteSets

CONSTANTS
    Objects,        \* I/O objects the script may create
    Acceptors,      \* those of them that are acceptors
    Futures,        \* asynchronous operations, each with its Future
    None,           \* a null pointer
    MaxHeld         \* bound on the references a script copies

Zobj == Objects \cup Futures

ASSUME ObjectsAssumption ==
    /\ IsFiniteSet(Futures)
    /\ Objects \cap Futures = {}
    /\ Acceptors \subseteq Objects
    /\ None \notin Zobj
    /\ MaxHeld \in Nat

VARIABLES
    state,          \* whether an object's memory is allocated
    refcount,       \* its Zend reference count
    held,           \* how many of its references PHP code holds
    roots,          \* objects in the collector's root buffer
    scanned,        \* objects the collector has dropped from the buffer
    handler_count_, \* base::handler_count_ of each I/O object
    selfRefs,       \* references an I/O object holds on itself
    phase,          \* how far each operation has come
    io_object_,     \* future::io_object_
    accepted        \* the socket bound into the handler of an accept

heap == <<state, refcount, held, roots, scanned>>
counts == <<handler_count_, selfRefs>>
vars == <<heap, counts, phase, io_object_, accepted>>

Started == {"pending", "called", "sent"}

TypeOK ==
    /\ state \in [Zobj -> {"none", "live", "freed"}]
    /\ refcount \in [Zobj -> Nat]
    /\ held \in [Zobj -> Nat]
    /\ roots \in SUBSET Zobj
    /\ scanned \in SUBSET Zobj
    /\ handler_count_ \in [Objects -> CountType]
    /\ selfRefs \in [Objects -> Nat]
    /\ phase \in [Futures -> {"none", "done"} \cup Started]
    /\ io_object_ \in [Futures -> Objects \cup {None}]
    /\ accepted \in [Futures -> Objects \cup {None}]

Init ==
    /\ state = [x \in Zobj |-> "none"]
    /\ refcount = [x \in Zobj |-> 0]
    /\ held = [x \in Zobj |-> 0]
    /\ roots = {}
    /\ scanned = {}
    /\ handler_count_ = [o \in Objects |-> 0]
    /\ selfRefs = [o \in Objects |-> 0]
    /\ phase = [f \in Futures |-> "none"]
    /\ io_object_ = [f \in Futures |-> None]
    /\ accepted = [f \in Futures |-> None]

-----------------------------------------------------------------------------
\* PHP code: what Zend does when a script copies or drops a reference.

\* ZVAL_COPY of a value the script already holds.
Copy(x) ==
    /\ held[x] \in 1..(MaxHeld - 1)
    /\ held' = [held EXCEPT ![x] = @ + 1]
    /\ refcount' = [refcount EXCEPT ![x] = @ + 1]
    /\ UNCHANGED <<state, roots, scanned, counts, phase, io_object_, accepted>>

\* Faulty variant of PtrDtor: an object that survives is not noted for the
\* collector (zval_ptr_dtor_nogc in place of zval_ptr_dtor).
PtrDtorNoGc(x) ==
    IF refcount[x] = 1
    THEN /\ state' = [state EXCEPT ![x] = "freed"]
         /\ roots' = roots \ {x}
         /\ scanned' = scanned \ {x}
    ELSE UNCHANGED <<state, roots, scanned>>

\* zval_ptr_dtor on one reference of x: frees the object with its last
\* reference, otherwise enters it into the collector's root buffer.
PtrDtor(x) ==
    IF refcount[x] = 1
    THEN /\ state' = [state EXCEPT ![x] = "freed"]
         /\ roots' = roots \ {x}
         /\ scanned' = scanned \ {x}
    ELSE /\ roots' = roots \cup {x}
         /\ scanned' = scanned \ {x}
         /\ UNCHANGED state

\* The script drops a reference: a variable is unset or goes out of scope, a
\* parameter or a temporary is released.
Release(x) ==
    /\ held[x] > 0
    /\ held' = [held EXCEPT ![x] = @ - 1]
    /\ refcount' = [refcount EXCEPT ![x] = @ - 1]
    /\ PtrDtor(x)
    /\ UNCHANGED <<counts, phase, io_object_, accepted>>

\* The cycle collector runs, because its buffer is full or the script calls
\* it: roots without references are freed, the others leave the buffer.
GcRun ==
    /\ roots # {}
    /\ state' = [x \in Zobj |-> IF x \in roots /\ refcount[x] = 0
                                THEN "freed" ELSE state[x]]
    /\ scanned' = scanned \cup {x \in roots : refcount[x] > 0}
    /\ roots' = {}
    /\ UNCHANGED <<refcount, held, counts, phase, io_object_, accepted>>

-----------------------------------------------------------------------------
\* Service::addTimer, addTcpSocket and the other factories: the new object is
\* returned to the script with its only reference.
AddObject(o) ==
    /\ state[o] = "none"
    /\ state' = [state EXCEPT ![o] = "live"]
    /\ refcount' = [refcount EXCEPT ![o] = 1]
    /\ held' = [held EXCEPT ![o] = 1]
    /\ UNCHANGED <<roots, scanned, counts, phase, io_object_, accepted>>

\* Faulty variant of FutureInit: future::add without its GC_ADDREF, so that
\* script and operation share one reference.
FutureInitShared(o, f, s) ==
    /\ held[o] > 0
    /\ phase[f] = "none"
    /\ handler_count_' = [handler_count_ EXCEPT ![o] = CountInc(@)]
    /\ selfRefs' = [selfRefs EXCEPT ![o] = @ + RefGained(handler_count_[o])]
    /\ state' = [x \in Zobj |-> IF x \in {f, s} THEN "live" ELSE state[x]]
    /\ refcount' = [x \in Zobj |->
                      CASE x \in {f, s} -> 1
                        [] x = o -> refcount[o] + RefGained(handler_count_[o])
                        [] OTHER -> refcount[x]]
    /\ held' = [held EXCEPT ![f] = 1]
    /\ phase' = [phase EXCEPT ![f] = "pending"]
    /\ io_object_' = [io_object_ EXCEPT ![f] = o]
    /\ accepted' = [accepted EXCEPT ![f] = s]
    /\ UNCHANGED <<roots, scanned>>

\* PHP_ASIO_FUTURE_INIT for an operation of o, which allocated the socket s
\* for its own use if s # None: o is kept alive through its handler count, the
\* new Future starts with two references, the script's and the operation's.
FutureInit(o, f, s) ==
    /\ held[o] > 0
    /\ phase[f] = "none"
    /\ handler_count_' = [handler_count_ EXCEPT ![o] = CountInc(@)]
    /\ selfRefs' = [selfRefs EXCEPT ![o] = @ + RefGained(handler_count_[o])]
    /\ state' = [x \in Zobj |-> IF x \in {f, s} THEN "live" ELSE state[x]]
    /\ refcount' = [x \in Zobj |->
                      CASE x = f -> 2
                        [] x = s -> 1
                        [] x = o -> refcount[o] + RefGained(handler_count_[o])
                        [] OTHER -> refcount[x]]
    /\ held' = [held EXCEPT ![f] = 1]
    /\ phase' = [phase EXCEPT ![f] = "pending"]
    /\ io_object_' = [io_object_ EXCEPT ![f] = o]
    /\ accepted' = [accepted EXCEPT ![f] = s]
    /\ UNCHANGED <<roots, scanned>>

\* Timer::wait, Signal::wait, Resolver::resolve, Socket::connect, read, ...
Start(o, f) == FutureInit(o, f, None)

\* Acceptor::accept: allocates the socket to accept into beforehand.
Accept(o, f, s) ==
    /\ o \in Acceptors
    /\ s \notin Acceptors
    /\ state[s] = "none"
    /\ FutureInit(o, f, s)

-----------------------------------------------------------------------------
\* future::resolve, from its first line to the call of the script's callback:
\* call_user_function copies the arguments, the I/O object and, for accept,
\* the accepted socket.
CallbackInvoked(f) ==
    /\ phase[f] = "pending"
    /\ phase' = [phase EXCEPT ![f] = "called"]
    /\ LET Args == {io_object_[f], accepted[f]} IN
         /\ held' = [x \in Zobj |-> IF x \in Args THEN held[x] + 1 ELSE held[x]]
         /\ refcount' = [x \in Zobj |-> IF x \in Args THEN refcount[x] + 1
                                                      ELSE refcount[x]]
    /\ UNCHANGED <<state, roots, scanned, counts, io_object_, accepted>>

\* The same when there is no callback or it is not callable.
NoCallback(f) ==
    /\ phase[f] = "pending"
    /\ phase' = [phase EXCEPT ![f] = "called"]
    /\ UNCHANGED <<heap, counts, io_object_, accepted>>

\* generator_send: the generator that yielded the Future gets a copy of the
\* result, which for accept is the accepted socket.
SendToGenerator(f) ==
    /\ phase[f] = "called"
    /\ phase' = [phase EXCEPT ![f] = "sent"]
    /\ held' = [x \in Zobj |-> IF x = accepted[f] THEN held[x] + 1 ELSE held[x]]
    /\ refcount' = [x \in Zobj |-> IF x = accepted[f] THEN refcount[x] + 1
                                                      ELSE refcount[x]]
    /\ UNCHANGED <<state, roots, scanned, counts, io_object_, accepted>>

\* Faulty variant of Finish: send_ is not released.
FinishKeepsSocket(f) ==
    LET o == io_object_[f] IN
    /\ phase[f] \in {"called", "sent"}
    /\ phase' = [phase EXCEPT ![f] = "done"]
    /\ handler_count_' = [handler_count_ EXCEPT ![o] = CountDec(@)]
    /\ selfRefs' = [selfRefs EXCEPT ![o] = @ - RefLost(handler_count_[o])]
    /\ refcount' = [x \in Zobj |->
                      CASE x = f -> refcount[f] - 1
                        [] x = o -> refcount[o] - RefLost(handler_count_[o])
                        [] OTHER -> refcount[x]]
    /\ UNCHANGED <<state, roots, scanned, held, io_object_, accepted>>

\* Faulty variant of Finish: the I/O object is let go of with every operation,
\* whatever its handler count.
FinishAlwaysReleases(f) ==
    LET o == io_object_[f] IN
    /\ phase[f] \in {"called", "sent"}
    /\ phase' = [phase EXCEPT ![f] = "done"]
    /\ handler_count_' = [handler_count_ EXCEPT ![o] = CountDec(@)]
    /\ selfRefs' = [selfRefs EXCEPT ![o] = @ - 1]
    /\ refcount' = [x \in Zobj |-> IF x \in {f, o, accepted[f]} THEN refcount[x] - 1
                                                                ELSE refcount[x]]
    /\ IF accepted[f] = None THEN UNCHANGED <<state, roots, scanned>>
                             ELSE PtrDtor(accepted[f])
    /\ UNCHANGED <<held, io_object_, accepted>>

\* The rest of future::resolve: releases send_ (for accept the operation's
\* reference on the socket), then the I/O object and the Future, the last two
\* by GC_DELREF alone.
Finish(f) ==
    LET o == io_object_[f]
        s == accepted[f]
    IN
    /\ phase[f] \in {"called", "sent"}
    /\ phase' = [phase EXCEPT ![f] = "done"]
    /\ handler_count_' = [handler_count_ EXCEPT ![o] = CountDec(@)]
    /\ selfRefs' = [selfRefs EXCEPT ![o] = @ - RefLost(handler_count_[o])]
    /\ refcount' = [x \in Zobj |->
                      CASE x = f -> refcount[f] - 1
                        [] x = o -> refcount[o] - RefLost(handler_count_[o])
                        [] x = s -> refcount[s] - 1
                        [] OTHER -> refcount[x]]
    /\ IF s = None THEN UNCHANGED <<state, roots, scanned>> ELSE PtrDtor(s)
    /\ UNCHANGED <<held, io_object_, accepted>>

-----------------------------------------------------------------------------
Next ==
    \/ \E x \in Zobj : Copy(x) \/ Release(x)
    \/ GcRun
    \/ \E o \in Objects : AddObject(o)
    \/ \E o \in Objects, f \in Futures : Start(o, f)
    \/ \E o, s \in Objects, f \in Futures : Accept(o, f, s)
    \/ \E f \in Futures : \/ CallbackInvoked(f)
                          \/ NoCallback(f)
                          \/ SendToGenerator(f)
                          \/ Finish(f)

Spec == Init /\ [][Next]_vars

-----------------------------------------------------------------------------
\* Operations of o that have started and not finished.
InFlight(o) == {f \in Futures : phase[f] \in Started /\ io_object_[f] = o}

\* Whether an operation still owns a reference on s, the socket it accepts.
Accepting(s) == \E f \in Futures : phase[f] \in Started /\ accepted[f] = s

\* The references on x that are not PHP code's.
InternalRefs(x) ==
    IF x \in Futures
    THEN IF phase[x] \in Started THEN 1 ELSE 0
    ELSE selfRefs[x] + (IF Accepting(x) THEN 1 ELSE 0)

(***************************************************************************)
(* Every reference count is the number of references that really exist:    *)
(* no operation takes a reference twice or forgets to give one back, on    *)
(* any interleaving of the operations of several objects                   *)
(* (PHP_ASIO_FUTURE_INIT, future::add, future::resolve).                   *)
(***************************************************************************)
RefcountExact == \A x \in Zobj : refcount[x] = held[x] + InternalRefs(x)

(***************************************************************************)
(* Nothing is used after it was freed: the Future, the I/O object and the  *)
(* socket whose raw pointers an operation's handler carries are allocated  *)
(* until future::resolve is through with them, and so is whatever the      *)
(* script can reach.                                                       *)
(***************************************************************************)
NoUseAfterFree ==
    /\ \A f \in Futures : phase[f] \in Started =>
          /\ state[f] = "live"
          /\ state[io_object_[f]] = "live"
          /\ accepted[f] # None => state[accepted[f]] = "live"
    /\ \A x \in Zobj : held[x] > 0 => state[x] = "live"

(***************************************************************************)
(* An object with no reference left is still within the collector's reach, *)
(* unless the collector came by after the script's last release and before *)
(* the operation's GC_DELREF: that order, and no other, leaks it           *)
(* (PHP_ASIO_OBJ_DTOR).                                                    *)
(***************************************************************************)
GarbageIsRooted ==
    \A x \in Zobj : state[x] = "live" /\ refcount[x] = 0 => x \in roots \cup scanned

-----------------------------------------------------------------------------
\* The strengthening of RefcountExact, NoUseAfterFree and GarbageIsRooted that
\* is inductive.

\* Only an allocated object is referenced.
OnlyLiveReferenced ==
    \A x \in Zobj : state[x] # "live" => held[x] = 0 /\ refcount[x] = 0

\* What a running operation's handler points to: a socket is accepted into by
\* one operation only, and that operation belongs to an acceptor.
HandlersWellFormed ==
    \A f \in Futures : phase[f] \in Started =>
        /\ io_object_[f] \in Objects
        /\ accepted[f] # None => /\ io_object_[f] \in Acceptors
                                 /\ accepted[f] \notin Acceptors
                                 /\ \A g \in Futures \ {f} :
                                       phase[g] \in Started => accepted[g] # accepted[f]

\* The count of each object is balanced, whatever the other objects do.
EveryCountBalanced ==
    \A o \in Objects :
        Balanced(handler_count_[o], Cardinality(InFlight(o)), selfRefs[o])

\* An object that only operations still reference has been through a release
\* by the script, but for a socket that is waiting to be accepted.
AbandonedIsRooted ==
    \A x \in Zobj : state[x] = "live" /\ held[x] = 0 /\ ~Accepting(x)
                       => x \in roots \cup scanned

IInv ==
    /\ TypeOK
    /\ RefcountExact
    /\ OnlyLiveReferenced
    /\ HandlersWellFormed
    /\ EveryCountBalanced
    /\ AbandonedIsRooted

-----------------------------------------------------------------------------
(***************************************************************************)
(* Each I/O object runs the protocol of KeepAlive with its own operations. *)
(***************************************************************************)
KA(o) == INSTANCE KeepAlive
    WITH MaxInFlight    <- Cardinality(Futures),
         handler_count_ <- handler_count_[o],
         selfRefs       <- selfRefs[o],
         inFlight       <- Cardinality(InFlight(o))

KeepsObjectsAlive ==
    /\ \A o \in Objects : KA(o)!Init
    /\ [][\A o \in Objects : [KA(o)!Next]_(KA(o)!vars)]_vars
=============================================================================
