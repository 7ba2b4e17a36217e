------------------------------ MODULE Callbacks ------------------------------
(***************************************************************************)
(* The PHP values an asynchronous operation holds: its callback and its    *)
(* extra argument.                                                         *)
(*                                                                         *)
(* PHP_ASIO_FUTURE_INIT copies both, so that they are alive when the       *)
(* operation resolves; PHP_ASIO_INVOKE_CALLBACK passes them to the script  *)
(* and lets them go.  A callback that was wrapped by a Strand is not       *)
(* copied: the operation takes over the one reference that wrap() added.   *)
(* The handler of a posted callback copies both as well, and lets them go  *)
(* itself.                                                                 *)
(*                                                                         *)
(* The callable of a WrappedHandler is found through a pointer to the      *)
(* argument slot of the call of wrap(), which the next calls overwrite: an *)
(* operation takes over whatever the slot holds by then.  Scripts may also *)
(* start several operations with one WrappedHandler.  A value from which   *)
(* more was taken over than wrap() added can be freed while it is in use;  *)
(* what its memory holds afterwards is not modelled.                       *)
(***************************************************************************)
EXTENDS Integers, FiniteSets

CONSTANTS
    Values,         \* PHP values with a reference count
    Callables,      \* those of them that can be called
    Futures,        \* asynchronous operations
    Posted,         \* callbacks given to post and dispatch
    Wrappers,       \* WrappedHandler objects
    None,           \* a null pointer
    MaxHeld         \* bound on the references a script holds on a value

Holders == Futures \cup Posted

ASSUME CallbacksAssumption ==
    /\ Futures \cap Posted = {}
    /\ IsFiniteSet(Holders \cup Wrappers)
    /\ Holders \cap Wrappers = {}
    /\ Callables \subseteq Values
    /\ None \notin Values \cup Wrappers
    /\ MaxHeld \in Nat

VARIABLES
    refcount,       \* the references added to each value less those dropped
    freed,          \* values whose count has been 0: their memory is gone
    held,           \* how many of its references the script holds
    stage,          \* how far each operation has come
    cb,             \* the callback an operation holds
    args,           \* the extra argument an operation holds
    wrapped,        \* the callable given to wrap() for each WrappedHandler
    slot,           \* what wrapped_handler::callback_ points to
    moved,          \* operations that took their callback over from a slot
    leaked          \* references nobody is going to drop

callbacksVars == <<refcount, freed, held, stage, cb, args, wrapped, slot, moved, leaked>>

CallbacksTypeOK ==
    /\ refcount \in [Values -> Int]
    /\ freed \in SUBSET Values
    /\ held \in [Values -> Nat]
    /\ stage \in [Holders -> {"none", "pending", "called", "done"}]
    /\ cb \in [Holders -> Values \cup {None}]
    /\ args \in [Holders -> Values \cup {None}]
    /\ wrapped \in [Wrappers -> Values \cup {None}]
    /\ slot \in [Wrappers -> Values \cup {None}]
    /\ moved \in SUBSET Futures
    /\ leaked \in [Values -> Nat]

CallbacksInit ==
    /\ refcount = [v \in Values |-> 1]
    /\ freed = {}
    /\ held = [v \in Values |-> 1]
    /\ stage = [o \in Holders |-> "none"]
    /\ cb = [o \in Holders |-> None]
    /\ args = [o \in Holders |-> None]
    /\ wrapped = [w \in Wrappers |-> None]
    /\ slot = [w \in Wrappers |-> None]
    /\ moved = {}
    /\ leaked = [v \in Values |-> 0]

-----------------------------------------------------------------------------
\* How many of the pointers x and y are v.
Uses(v, x, y) == (IF x = v THEN 1 ELSE 0) + (IF y = v THEN 1 ELSE 0)

\* ZVAL_COPY of x and y.
Added(x, y) ==
    /\ refcount' = [v \in Values |-> refcount[v] + Uses(v, x, y)]
    /\ UNCHANGED freed

\* zval_ptr_dtor of x and y: the last reference frees a value.
Dropped(x, y) ==
    /\ refcount' = [v \in Values |-> refcount[v] - Uses(v, x, y)]
    /\ freed' = freed \cup {v \in Values : refcount'[v] <= 0}

\* What the script can pass as an argument.
Known == {None} \cup {v \in Values \ freed : held[v] > 0}

\* A call reuses the argument slots of calls that have returned.
SlotsReused == slot' \in [Wrappers -> Values \cup {None}]

-----------------------------------------------------------------------------
\* The script calls some function.
Call ==
    /\ SlotsReused
    /\ UNCHANGED <<refcount, freed, held, stage, cb, args, wrapped, moved, leaked>>

Copy(v) ==
    /\ v \in Known
    /\ held[v] < MaxHeld
    /\ held' = [held EXCEPT ![v] = @ + 1]
    /\ Added(v, None)
    /\ UNCHANGED <<stage, cb, args, wrapped, slot, moved, leaked>>

Release(v) ==
    /\ held[v] > 0
    /\ held' = [held EXCEPT ![v] = @ - 1]
    /\ Dropped(v, None)
    /\ UNCHANGED <<stage, cb, args, wrapped, slot, moved, leaked>>

\* Faulty variant of Start: the extra argument is not copied.
StartUncopied(o, c, a) ==
    /\ stage[o] = "none"
    /\ {c, a} \subseteq Known
    /\ stage' = [stage EXCEPT ![o] = "pending"]
    /\ cb' = [cb EXCEPT ![o] = c]
    /\ args' = [args EXCEPT ![o] = a]
    /\ Added(c, None)
    /\ SlotsReused
    /\ UNCHANGED <<held, wrapped, moved, leaked>>

\* An operation starts with callback c and argument a, either of which may be
\* missing; or callback c is posted.
Start(o, c, a) ==
    /\ o \in Posted => c # None
    /\ stage[o] = "none"
    /\ {c, a} \subseteq Known
    /\ stage' = [stage EXCEPT ![o] = "pending"]
    /\ cb' = [cb EXCEPT ![o] = c]
    /\ args' = [args EXCEPT ![o] = a]
    /\ Added(c, a)
    /\ SlotsReused
    /\ UNCHANGED <<held, wrapped, moved, leaked>>

\* Strand::wrap: one reference is added for the operation to take over.
Wrap(w, c) ==
    /\ wrapped[w] = None
    /\ c \in Known \ {None}
    /\ wrapped' = [wrapped EXCEPT ![w] = c]
    /\ Added(c, None)
    /\ SlotsReused /\ slot'[w] = c
    /\ UNCHANGED <<held, stage, cb, args, moved, leaked>>

\* An operation starts with w as its callback: what the slot of w holds is
\* moved, not copied.
StartWrapped(o, w, a) ==
    /\ stage[o] = "none"
    /\ wrapped[w] # None
    /\ a \in Known
    /\ stage' = [stage EXCEPT ![o] = "pending"]
    /\ cb' = [cb EXCEPT ![o] = slot[w]]
    /\ args' = [args EXCEPT ![o] = a]
    /\ Added(None, a)
    /\ moved' = moved \cup {o}
    /\ SlotsReused
    /\ UNCHANGED <<held, wrapped, leaked>>

-----------------------------------------------------------------------------
\* The operation is resolved and calls its callback with a copy of the
\* argument that nothing releases.
Invoke(o) ==
    /\ stage[o] = "pending"
    /\ cb[o] \in Callables
    /\ stage' = [stage EXCEPT ![o] = "called"]
    /\ Added(args[o], None)
    /\ leaked' = [v \in Values |-> leaked[v] + Uses(v, args[o], None)]
    /\ SlotsReused
    /\ UNCHANGED <<held, cb, args, wrapped, moved>>

\* Faulty variant of Returned: the argument is not let go.
ReturnedKeepsArgument(o) ==
    /\ stage[o] = "called"
    /\ stage' = [stage EXCEPT ![o] = "done"]
    /\ Dropped(cb[o], None)
    /\ UNCHANGED <<held, cb, args, wrapped, slot, moved, leaked>>

\* The callback has returned: it and the argument are let go.
Returned(o) ==
    /\ stage[o] = "called"
    /\ stage' = [stage EXCEPT ![o] = "done"]
    /\ Dropped(cb[o], args[o])
    /\ UNCHANGED <<held, cb, args, wrapped, slot, moved, leaked>>

\* The handler of a posted callback tries to call it with its own argument.
Handle(p) ==
    /\ stage[p] = "pending"
    /\ stage' = [stage EXCEPT ![p] = "called"]
    /\ SlotsReused
    /\ UNCHANGED <<refcount, freed, held, cb, args, wrapped, moved, leaked>>

\* Without a callback that can be called only the argument is let go.
NotInvoked(o) ==
    /\ stage[o] = "pending"
    /\ cb[o] \notin Callables
    /\ stage' = [stage EXCEPT ![o] = "done"]
    /\ Dropped(args[o], None)
    /\ leaked' = [v \in Values |-> leaked[v] + Uses(v, cb[o], None)]
    /\ UNCHANGED <<held, cb, args, wrapped, slot, moved>>

CallbacksNext ==
    \/ Call
    \/ \E v \in Values : Copy(v) \/ Release(v)
    \/ \E o \in Holders, c, a \in Values \cup {None} : Start(o, c, a)
    \/ \E w \in Wrappers, c \in Values : Wrap(w, c)
    \/ \E o \in Futures, w \in Wrappers, a \in Values \cup {None} : StartWrapped(o, w, a)
    \/ \E o \in Futures : Invoke(o) \/ NotInvoked(o)
    \/ \E p \in Posted : Handle(p)
    \/ \E o \in Holders : Returned(o)

CallbacksSpec == CallbacksInit /\ [][CallbacksNext]_callbacksVars

-----------------------------------------------------------------------------
InFlight == {o \in Holders : stage[o] \in {"pending", "called"}}

\* The references that wrap() has added to v for operations to take over, and
\* those operations have taken over from slots that held v.
Offered(v) == {w \in Wrappers : wrapped[w] = v}
Taken(v) == {o \in moved : cb[o] = v}

\* More was taken over than added: some slot was read twice, or too late.
Overtaken(v) == Cardinality(Taken(v)) > Cardinality(Offered(v))

(***************************************************************************)
(* The comment above PHP_ASIO_FUTURE_INIT: the callback and the extra      *)
(* argument are still alive when the operation resolves, and they stay so  *)
(* until the callback has returned, whatever the script drops meanwhile;   *)
(* only a value that was overtaken may die, whatever becomes of others.    *)
(***************************************************************************)
ValuesAlive ==
    \A o \in InFlight : \A v \in {cb[o], args[o]} \ {None} : v \in freed => Overtaken(v)

(***************************************************************************)
(* References are accounted for one by one, in whatever order slots are    *)
(* overwritten and read: each is held by the script or by an operation, or *)
(* was added by wrap() and not taken over; the rest is what leaks, one     *)
(* reference for each call that got an argument and for each callback that *)
(* could not be called.                                                    *)
(***************************************************************************)
RefcountAccounted ==
    \A v \in Values :
        refcount[v] = held[v] + leaked[v]
                      + Cardinality({o \in InFlight : cb[o] = v})
                      + Cardinality({o \in InFlight : args[o] = v})
                      + Cardinality(Offered(v)) - Cardinality(Taken(v))
=============================================================================
