# php-asio in TLA+

php-asio is a PHP extension that wraps Boost.Asio: an event loop (`Service`),
I/O objects whose asynchronous operations return a `Future`, coroutines (PHP
generators that yield Futures), and Strands. Everything runs in one thread, but
little of it runs in the order it is written: a callback may start operations,
drop the last reference to the object it was called for, run the loop again, or
throw. The modules here model that machinery, check it with TLC on small
instances, and prove the parts that matter most for all instances with TLAPS.

Source paths below are relative to `src/src/` unless they name another directory.

## 1. The system

| Component | Source | State | Operations |
|---|---|---|---|
| Service | `service.cpp`, `strand.hpp` | the `io_service`, whether it is stopped, the loops and handlers on the C++ stack, PHP's pending exception | `add*` factories, `run`, `runOne`, `poll`, `pollOne`, `stop`, `reset`, `stopped`, `post`, `dispatch`, `forkPrepare`, `forkParent`, `forkChild`, `lastError` |
| Handler count | `base.hpp`, `common.hpp` | `handler_count_` (an unsigned short) of each I/O object, and the one reference the object keeps on itself while it is not 0 | `handler_count_inc`, `handler_count_dec`, `PHP_ASIO_OBJ_DTOR` |
| Future, coroutines | `future.cpp`, `generator.hpp` | `generator_`, `yield_`, `io_object_`, `strand_`, `callback_`; `last_error_`, one per thread | `add`, `resolve`, `coroutine`, `handle_strand`, `last_error` |
| Callbacks and arguments | `common.hpp`, `strand.hpp` | heap copies of callback and extra argument | `PHP_ASIO_FUTURE_INIT`, `PHP_ASIO_INVOKE_CALLBACK*`, `PHP_ASIO_DISPATCH_CALLBACK` |
| Strand, WrappedHandler | `strand.cpp`, `wrapped_handler.hpp` | Boost's strand, a handler count; a WrappedHandler holds its Strand and a pointer to the callable | `dispatch`, `post`, `runningInThisThread`, `wrap` |
| Timer | `timer.cpp` | the expiry and the waits on it | `expiresFromNow`, `expiresAt`, `wait`, `cancel` |
| Signal | `signal.cpp` | the set of signal numbers and the waits on it | `add`, `remove`, `clear`, `wait`, `cancel` |
| Resolver | `resolver.cpp` | queries in flight | `resolve`, `cancel` |
| Socket | `socket.cpp`, `io.hpp` | the descriptor; per thread the peer of the last datagram | `open`, `assign`, `bind`, `connect`, `read`, `write`, `recvFrom`, `sendTo`, `remoteAddr` ..., `available`, `atMark`, `cancel`, `close` |
| Acceptor | `acceptor.cpp` | the descriptor; the socket allocated for each accept | `open`, `assign`, `bind`, `listen`, `accept`, `cancel`, `close` |
| Stream descriptor | `stream_descriptor.cpp` | the descriptor | `assign`, `isOpen`, `read`, `write`, `release`, `cancel`, `close` |
| Extension entry | `php_asio.cpp` | none | argument descriptions and class registration |

How they interact. A script calls an I/O object. `PHP_ASIO_FUTURE_INIT` raises
the object's handler count (the first operation makes the object reference
itself), copies the callback and the argument, and `future::add` creates a
Future that the script and the operation share. The operation goes to
Boost.Asio with a handler that ends in `future::resolve`. A loop of the Service
calls that handler; `resolve` calls the component's own handler, which calls
the script; if the callback returns a generator, `coroutine` starts it, and
registers it with the Future it yields. `resolve` then resumes the generator
that had been registered with its own Future, and at the end gives back the
argument, the handler counts of I/O object and Strand, and the Future. Between
any two of these steps PHP code may run, and may run the loop again.

What is hard here:

- **Nesting in place of threads.** `run` and `poll` from within a callback, and
  `dispatch`, make handlers run inside handlers. State that `resolve` read before
  PHP code ran (`generator_`, `last_error_`, `io_object_`) may have changed after.
- **Lifetime without destructors.** Objects are reached through raw pointers and
  kept alive by counts; `GC_DELREF` drops references without ever freeing.
- **Counters at their limit.** The handler count wraps at 65,536.
- **Partial failure.** Exceptions stay pending while the loop goes on; refused
  calls have counted handlers already; a failed accept owns a socket.
- **Composed operations.** `read` and `write` may take many steps, and cancel and
  close find only those that wait for the descriptor at that moment.
- **Cancellation races completion.** What has been decided on waits in the queue of
  handlers, where no cancel, close or new expiry finds it.
- **Shared state.** The peer of the last datagram is kept per protocol and thread;
  a path in the file system belongs to the last socket that bound it.
- **Liveness.** A coroutine is resumed by its Future or never; a closed descriptor must
  let all its operations go.

What makes each component correct:

- *Handler count*: an object references itself exactly while it has operations
  in flight, whatever their number.
- *Object lifetime*: reference counts are exact, nothing is used after it is
  freed, and what nobody references is within reach of PHP's collector.
- *Coroutines*: only a generator suspended on a Future is resumed by it; one that
  waits in time is resumed; it reads its own error code.
- *Service*: no ready handler is overlooked, no loop waits for nothing, and every
  handler that is taken is called.
- *Strand*: a handler runs inside another one only where `dispatch` calls it on the spot;
  every handler ends; the Strand outlives its handlers.
- *Callbacks*: callback and argument are alive until the callback has returned.
- *Streams*: no byte is lost or read twice; reported lengths are true; a closed
  stream lets all its operations go.
- *Waits* (Timer, Signal, Resolver): each wait ends, once, by what it waits for or by
  being cancelled; what was decided before cancel stays; no signal is missed.
- *Datagrams*: a handler that asks for the peer learns that of its own datagram; no
  datagram is lost or handed over twice.
- *Sockets and acceptors*: an address leads to the one that is bound to it; what `accept`
  hands over is open exactly if it says so; each operation ends.

`PROJECT.json` lists the components, and the hazards with the line at which each
one bites and the property that covers it.

## 2. The modules

    HandlerCount   arithmetic of the counter
      +- KeepAlive           one object: count, self references, operations
      +- ObjectLifetime      all objects and Futures        implements KeepAlive per object
      |    +- MCObjectLifetime
      +- Strand              Strands, wrapped handlers      implements KeepAlive per Strand
    SingleWaiter   what a Future promises its waiter
      +- Coroutine           resolve, coroutine, nesting    implements SingleWaiter
           +- MCCoroutine
    Callbacks      references on PHP values
    Service        the loop
    StreamIO       assign, read, write, release, cancel, close of a stream
    Datagram       recvFrom, sendTo, the last peer
    Endpoint       open, assign, bind, listen, connect, accept, cancel, close
    Waits          Timer, Signal, Resolver, fork notifications
      +- MCWaits
    Proofs: HandlerCountFacts, ObjectLifetimeProofs, CoroutineProofs, WaitsProofs,
            StrandProofs, EndpointProofs, StreamIOProofs, and
            RuntimeProofs            KeepAlive, Service, Callbacks, Datagram

`RuntimeProofs` extends four modules at once, so that three of them name their initial
states, steps and invariants after themselves: `ServiceInit`, `CallbacksNext`, `DatagramSpec`
and so on. In all the others they are `Init`, `Next` and `Spec`.

**HandlerCount, KeepAlive.** `HandlerCount` is the arithmetic of
`HANDLER_COUNT_TYPE`, modulo `Modulus`. `KeepAlive` is the abstract specification
of one object: `Begin` is `PHP_ASIO_INC_HANDLER_COUNT`, `End` the same lines at
the end of `resolve`.

**ObjectLifetime.** Reference counts of I/O objects and Futures, split into those
PHP code holds (`held`) and the extension's. `Start` and `Accept` are the methods
that start operations. `CallbackInvoked` or `NoCallback`, then
`SendToGenerator`, then `Finish` are the pieces of `resolve` between which PHP code
runs. `Copy`, `Release` and `GcRun` are what Zend does. `GC_DELREF` in `Finish`
changes a count and nothing else, as in the code.

**Coroutine.** `stack` holds the handlers that are running; `phase` says how far
`resolve` has come in each. `Dispatch` calls the callback. `CallbackReturns*` and
`GeneratorStops` are the points at which PHP code hands control back;
`Adopt` is `future::coroutine`, `ResumeGenerator` the branch on `yield_`. A
generator is registered by what it has yielded *at that moment*, and after
`generator_send` it is the one the Future knows *by then* (`Stopped`), which need
not be the one that ran. Three history variables describe scripts: `late`
(generators that yielded a Future whose `resolve` had looked at `yield_` already),
`displaced` (generators whose place at a Future another one took) and `outdated`
(handlers inside which another coroutine was resumed).

**SingleWaiter.** A Future remembers the last coroutine to wait for it, and wakes
that one.

**Service.** `frames` is the C++ stack: loops, handlers they invoke, callbacks run
on the spot by `dispatch`. `LoopTakes`, `LoopSkips` (an exception is pending, so
`call_user_function` does nothing) and `LoopReturns` are one iteration of a loop;
`CallbackEnds` the return to it. `io_service` stops itself when no work is
outstanding, and a handler is work until it has returned.

**Strand.** `Post` queues a callback on the strand of Boost.Asio; `Dispatch` calls it on
the spot if the thread is in the strand already, or in the loop while the strand is idle
(`Locked`). `Refuse` is parameter parsing that fails after the count has been raised. `Wrap`
counts; `StartWrapped` is `future::handle_strand`, which only remembers the Strand. The
strand is entered when the operation is through (`Complete`): `STRAND_RESOLVE` passes the
handler to `strand.wrap()`, which dispatches, so it runs at once inside a handler of the
same Strand that runs the loop. `Run` is the loop invoking what was queued, which it does
not inside a handler of that Strand. `Await` is a handler that runs the loop until another
handler has returned. `Return` is the end of a handler, in `strand.hpp` for callbacks and in
`resolve` for operations. A WrappedHandler may be used any number of times.

**Callbacks.** Where each reference on a callback or an argument comes from and
goes, `ZVAL_COPY` by `zval_ptr_dtor`. It includes what leaks, in `leaked`, and the
pointer of a WrappedHandler to the argument slot of the call of `wrap()`. Every call may
write anything to the slots of earlier calls (`SlotsReused`), so an operation that is
started with a WrappedHandler which was kept in a variable takes over whatever its slot holds
by then. `freed` are the values whose count has reached 0.

**StreamIO.** `Read` and `Write` are the macros of `io.hpp`. An operation takes
steps (`Step`): it waits for the descriptor, moves bytes (`Receive`, `Send`) and is
queued. `Continue` is the handler of a step that Boost.Asio follows by the next
one, `ResolveRead` and `ResolveWrite` are `read_handler` and `write_handler`. `Assign`
gives a closed stream the descriptor of another connection, taken from a number or, by
`resource_to_fd`, from a PHP value. `Release` ends what waits, as `Close` does, but leaves
the descriptor to the script with its bytes: more may arrive while it is `released`, and `Assign`
may adopt it again, or another. A composed operation that was between two steps when the stream
was closed or released takes its next step on that descriptor; the history variable
`straddled` holds those.

**Datagram.** `RecvFrom` and `SendTo` start operations; Boost.Asio takes a datagram for the
first receive that waits and writes its peer to the endpoint the operation owns (`Take`).
`RecvHandler` copies the endpoint to the variables that all sockets of a protocol share
(`last`) and calls the callback; `HandlerEnds` is the end of `resolve`, after the coroutine has
run. In between, other handlers may run inside this one (`stack`, and `outdated` for the
history of it). `RemoteEndpoint` is `remoteAddr`, `remotePort` and `remotePath`. The history
variable `cameTo` remembers the socket at which each datagram arrived.

**Endpoint.** What addresses lead to (`entry`), who is bound and connected to what, and the
operations `connect` and `accept`. `LocalBind` removes a socket file before it binds, as the
code does, whether or not the bind then succeeds. `Establish` and `TakeConnection` are the
kernel's part; a connect that was cancelled goes on there. `AcceptHandler` gives the script
the socket that `accept` allocated, open or not.

**Waits.** One life cycle for the waits of three classes: `waiting`, for the Resolver
`working`, then `ready` with an outcome, then `done` when the loop has called the handler
(`Finish`). `ExpiresAt` aborts what waits. `SignalAdd` and `SignalRemove` treat their
arguments one after the other and stop at the first one refused (`Treated`). `Deliver` ends
all waits on the sets that have the number, or keeps the signal. `ResolverCancel` marks
queries, and the thread finds the mark (`Begin`). `ForkPrepare` stops signals and
queries until `ForkParent` or `ForkChild`.

The faulty variants next to some definitions (`Faulty variant of ...`) are not
part of the specifications. Each one is a plausible bug that makes one of the
properties fail: a check that the property says something.

Every module states the types of its variables in `TypeOK`, and the two uses of the counter
state its balance (`CountBalanced`, `CountsBalanced`). They are no claim of their own about the
code, so the runs do not list them. In the proofs they are the first part of the
inductive invariants.

## 3. What is checked

| Run | Bounds | Distinct states | Shows |
|---|---|---|---|
| `keep_alive` | the real width, 65,536; two operations more than two wraps | 131,075 | `AliveWhileInFlight` |
| `object_lifetime` | an acceptor, a socket, 2 operations, at most 2 references held by PHP code, `Modulus` 2 | 424,149 | `RefcountExact`, `NoUseAfterFree`, `GarbageIsRooted`, and `KeepsObjectsAlive`: each object implements `KeepAlive` |
| `coroutine` | 3 Futures, 1 posted callback, 2 generators, 2 error codes, nesting 2 | 417,964 | `SendTargetAwaits`, `TimelyWaiterIsKnown`, `LastErrorIsOwn`, `TimelyWaitEnds`, and `WakesItsWaiter`: the Futures implement `SingleWaiter` |
| `service` | 3 callbacks, 1 operation, 4 frames | 42,337 | `OwnStopLeavesNothing`, `WaitingLoopHasWork`, `ReadyIsInvoked` |
| `strand` | 2 Strands, 2 callbacks, 2 operations, 2 WrappedHandlers, nesting 3, `Modulus` 2 | 499,980 | `StrandOutlivesHandlers`, `Serialized`, `EveryHandlerEnds`, and `KeepsStrandsAlive`: each Strand implements `KeepAlive` unless its WrappedHandlers are overused |
| `callbacks` | 2 values, one of them callable, 2 operations, 1 posted callback, 1 WrappedHandler | 2,145,762 | `ValuesAlive`, `RefcountAccounted` |
| `stream` | 2 reads, 1 write, lengths up to 2, 2 bytes that arrive, 2 connections | 649,974 | `EachByteOnce`, `OneConnection`, `FullUnlessError`, `AloneIsContiguous`, `WriteDataIntact`, `EndsAfterClose` |
| `datagram` | 2 UDP sockets, 1 UNIX datagram socket, 2 receives, 1 send, 2 datagrams | 485,464 | `LastPeerIsOwn`, `EachDatagramOnce`, `EndsAfterClose` |
| `endpoint` | 2 acceptors, 3 sockets of which the script has 1, 1 address, 2 operations, either family | 148,584 | `BoundIsReachable`, `HandedOpenIffOk`, `EveryOneEnds` |
| `waits` | 2 waits, a timer, a signal set, a resolver, 2 signal numbers, 1 signal raised, 1 tick, 1 fork | 223,536 | `AbortedIffCancelled`, `DecidedStays`, `SuccessIsDue`, `NothingMissed`, `ToldIsRegistered`, `EveryWaitEnds` |

Why the bounds are enough:

- `Modulus` is 2 where several objects are modelled, so that two operations on one
  object already bring the count back to 0; the real width is checked alone, by
  `keep_alive`, and every width is covered by the proofs.
- `MaxHeld` 2 lets a script hold a reference while it drops another. Counts beyond
  2 repeat the same transitions.
- Three Futures and two generators let a coroutine yield one Future while another
  resolves it and a third is pending; nesting 2 is the least at which PHP code
  changes what the handler outside has read. The proofs cover every depth.
- Nesting 3 on a Strand is a handler, one that runs inside it because it belongs to the other
  Strand or is called at once, and one inside that. Two operations and two WrappedHandlers are
  what it takes to use one twice while the other waits.
- Four frames are a loop, its handler, a loop that handler runs, and its handler.
- Two reads of two bytes are the least that can alternate, be filled in two
  steps, and be cut short by an error after the first. There is one write, because the steps
  of a second one would only repeat on `sent` what the two reads show on `inbox`.
- A second connection of a stream is enough: what the third would find is what the
  second finds.
- Two receives let one be handled inside the other and compete for one datagram. Two
  sockets of one protocol are what it takes to mix up their peers; one of the other
  protocol shows that it is left alone.
- One address is what two acceptors and a socket fight for. A second one only adds
  objects that do not meet. Of three sockets one connects and two are there to be accepted;
  they may then connect themselves.
- Two waits are the least of which one is decided on and the other not; both may be on any
  of the three objects. One signal is either delivered, kept, or lost in the old pipe.
  The arguments of `add` and `remove` are accepted, refused at the end, and refused at once.
- Every bound is a guard on an input (a call of the script, an arriving byte), so it
  ends behaviours early and never removes a step of the code. That is also why
  deadlock is not checked: scripts may simply stop, and bounded inputs run out.

The configurations that use symmetry (`MCObjectLifetime`) check safety only;
properties under fairness are checked without it.

### Fairness

- `Coroutine`: weak fairness of `Proceed` (callbacks and generators end or yield,
  `resolve` goes on) and of `DispatchSome(h)` for each handler (an operation
  completes and the loop, called again and again, reaches it). Nothing makes a script
  start an operation or yield in time.
- `Service`: weak fairness of `LoopStep` (a loop that can go on does: it is C++ code)
  and of `Complete(o)`, strong fairness of `CallbackStep`. A callback makes finitely
  many calls, so it ends although the loops it runs disable that step
  again and again.
- `Strand`: weak fairness of `Complete(f)`, `Run(h)` and `Return`. The main script is in
  `run`, operations complete, and a handler returns unless it waits. A handler may run the loop until
  another has returned (`Await`), one of an operation of its own Strand included: that one is
  called inside it. It must not wait so for what is *queued* on a Strand it is inside, which
  would hang, in a loop of `poll`, for ever; the code does not exclude that, only this guard does.
- In `Service` a handler that the loop consumed without calling it, because an exception was
  pending, has been reached as well (`ReadyIsInvoked`); that it was not called is what the run
  `skipped_callback` shows.
- `Waits`: weak fairness of the clock, of expiry, of `Deliver`, of the thread of the
  resolver (`Begin`, `Answer`), of `Finish`, and of the second half of a fork. Nothing makes
  signals come. A wait whose set has the next signal on its way ends unless the script takes the number
  off the set or forks before it is delivered (`Revoked`): the child gets a new pipe.
  `EveryWaitEnds` says so of each fork by itself, so an earlier fork exempts nothing.
- `Datagram`: weak fairness of the handlers only; `Endpoint`: of the handlers and of the
  kernel, which ends its attempts to connect (`Establish`) and hands connections over
  (`TakeConnection`). Whether anybody connects is up to the peers.
- `StreamIO`: weak fairness of the handlers only (`Continue`, `ResolveRead`,
  `ResolveWrite`). Whether bytes arrive or can be sent is up to the peer, so
  nothing is assumed of it, and the only liveness claimed is that of a closed
  stream.

### Where the code and its documentation disagree

Each of these runs checks one statement that a document, a comment or a test makes,
and ends with a counterexample.

| Run | Statement | What happens |
|---|---|---|
| `forgotten_coroutine` | `future.hpp:17-18`, a coroutine resumes when the Future it yielded is resolved | While a coroutine runs, a handler nested in it yields the Future that resumed it. `resolve` (`future.cpp:50`) then passes *that* generator to `coroutine()`, and the one that just ran, suspended on a new Future, is registered nowhere. |
| `skipped_callback` | `stubs/Service.php:139`, `post` requests invocation of the handler | After a callback has thrown, the loop goes on, and the next callbacks are consumed without being called (`strand.hpp:29`). |

More were met while modelling; the models follow the code, and state the exception.

- A second coroutine that yields a Future takes the place of the first, which is never
  resumed (`future.cpp:92`): `displaced` in `Coroutine`, and the abstract `SingleWaiter`.
- `last_error_` is set only when a generator is resumed, after the callback
  (`future.cpp:48`), so `lastError()` in a callback, as in `tests/09-resolver.phpt:9`,
  tells of an older operation: `LastErrorIsOwn` is about coroutines.
- Two operations started with one WrappedHandler give back one count twice
  (`future.cpp:60` against `strand.cpp:40`), after which a Strand may be freed with a
  handler queued. `Strand` lets scripts do that. `StrandOutlivesHandlers` and
  `KeepsStrandsAlive` then exempt that Strand as long as more operations were started with
  WrappedHandlers of it than it has made (`Overused`); TLC finds the first violated without
  the exemption. A WrappedHandler that is never used keeps its Strand alive for ever.
- A WrappedHandler points to the argument slot of the call of `wrap()`
  (`strand.cpp:43`), which the next call overwrites. After
  `$h = $strand->wrap($callback); $timer->wait($h);` the operation calls, and lets go, what
  the slot holds by then. `Callbacks` has this too: `ValuesAlive` exempts the values of which
  operations have taken over more than `wrap()` had added (`Overtaken`), and no others.
- `stubs/IoObject.php:23` says that `cancel` cancels all asynchronous operations. A composed
  read or write whose step has just completed is not found and goes on (`socket.cpp:424`), and
  so does a query the resolver has begun (`AbortedIffCancelled` says which are).
- A composed read survives `close` and goes on with the next descriptor that is assigned:
  `straddled` in `StreamIO`.
- `bind` on a path removes the file of a socket that is still open, or still listening
  (`socket.cpp:160`, `acceptor.cpp:97`), also if the bind itself then fails: `displaced` in
  `Endpoint`.

## 4. What is proved

All theorems hold for every value of the constants that satisfies the named
assumptions (`ModulusAssumption`, `MaxInFlightAssumption`, `ObjectsAssumption`,
`CoroutineAssumption`, `WaitsAssumption`, `StrandAssumption`, `EndpointAssumption`,
`StreamAssumption`, `ServiceAssumption`, `CallbacksAssumption`, `DatagramAssumption`: finite or
disjoint sets, natural bounds, a counter with at least two values). Nothing else is assumed
of the scripts.

**RuntimeProofs, KeepAlive** - `BalancedAlways`, `AliveWhileInFlightAlways`. That the object references itself
exactly while operations are in flight is not inductive: a count of 0 says nothing
after a wrap. The invariant is `Balanced`: the count is the number of operations modulo
the width, and the number of self references is the number of times operations have filled
the counter from 0, that is operations divided by the width, rounded up. `HandlerCountFacts` proves the
arithmetic once (`BalancedBegin`, `BalancedEnd`, `BalancedKeepsAlive`), for KeepAlive,
ObjectLifetime and Strand.

**ObjectLifetimeProofs** - `RefcountExactAlways`, `NoUseAfterFreeAlways`,
`GarbageIsRootedAlways`, `KeepsObjectsAliveAlways`. `RefcountExact` alone does not
survive a step: to know that a release leaves a positive count one needs that the
operation's own reference exists, hence the balance of the object's count
(`EveryCountBalanced`), that handlers point to objects of the right kind and no socket is
accepted by two operations (`HandlersWellFormed`), and that what is not live is not
referenced (`OnlyLiveReferenced`). `AbandonedIsRooted` carries `GarbageIsRooted`. `IInvAlways`
is their conjunction; one lemma per action proves its preservation. The refinement
follows: a step changes the operations in flight of at most one object, by one.

**CoroutineProofs** - `SendTargetAwaitsAlways`, `LastErrorIsOwnAlways`,
`TimelyWaiterIsKnownAlways`, `WakesItsWaiterAlways`, for
any depth of nesting. `IInv` ties three things together: the stack holds exactly the
handlers that are running, without repetition; a generator that runs does so in one of them;
and while a Future has its coroutine running, the generator it knows is that one or, after
a nested handler, another that awaits it (`ResumedIsKnown`). The last is what `resolve`
needs for its second look at `generator_` to be safe. `TimelyWaiterIsKnown` needs
`ResumedKeepsPlace` besides (a resumed coroutine that nobody displaced is still the one
its Future knows when it stops), and the refinement needs `DisplacedAreUnknown` (a Future never
wakes a generator that lost its place).

**WaitsProofs** - `AbortedIffCancelledAlways`, `SuccessIsDueAlways`, `NothingMissedAlways`,
`ToldIsRegisteredAlways`, `DecidedStaysAlways`, of `Spec`: no fairness is used. That what is aborted was
cancelled needs the reverse for what is not decided on yet: of the waits that are
open only queries can be marked (`CancelledIsOpen`), and what the thread works on is a query
(`WorkingIsQuery`); so whatever time, a signal or an answer ends is unmarked. Three
lemmas carry this for all the actions alike: an operation starts (`StartKeeps`), is aborted
(`AbortKeeps`), is ended by an event (`EventKeeps`). `ToldIsRegistered` rests on
`TreatedAreNumbers`: add registers numbers only, and remove drops only
what it was given.

**StrandProofs** - `SerializedAlways`, `CountedAlways`, `StrandOutlivesHandlersAlways`,
`KeepsStrandsAliveAlways`, for any nesting and any use of WrappedHandlers. That handlers nest only
where one is called at once needs that the stack holds the handlers that run, each once
(`StackHoldsRunning`), and that a handler belongs to a Strand from its beginning
(`StrandsKnown`). `CountsBalanced` balances the count of each Strand against what was counted, less
what was given back; with WrappedHandlers that are overused the difference may drop below
what is still to come, even below 0, and the balance holds all the same. What the exemption
says is used only in the last step: as long as a Strand has made at least as many WrappedHandlers as
operations use, a handler that has not returned makes the difference positive
(`ActiveIsCounted`), whichever of them those operations use.

**EndpointProofs** - `BoundIsReachableAlways`, `HandedOpenIffOkAlways`. `BoundIsReachable` needs that
what is closed has no address (`NamedAreOpen`). `HandedOpenIffOk` needs that the socket an accept
allocated belongs to no other accept and is not the script's before it is handed over
(`AcceptsOwnSockets`), and that nothing else is open (`OpenAreAllocated`).

**StreamIOProofs** - `EachByteOnceAlways`, `OneConnectionAlways`, `AloneIsContiguousAlways`,
`WriteDataIntactAlways`, `FullUnlessErrorAlways`. The invariant has three layers. *Progress*: how far
each operation has come agrees with the phase it is in, and its buffer holds as many bytes
as it has counted, so that cutting the buffer to that length, which `read_handler` does,
loses nothing. *Where bytes are* (`BytesInv`): what waits to be read are the last bytes that
arrived, every byte taken from there that is of the present connection is in a buffer, and
none is in two. *Histories*: a read that no other overlapped has the last byte taken for its
own last as long as it may take another step, so that this continues it, and likewise for
writes; one that did not outlive its connection has only bytes of the present one as long as it
may go on, so `close` and `assign` cannot mix two. `FullUnlessError` is a property of steps:
only `ResolveRead` and `ResolveWrite` end an operation, and what they find follows from the
progress part.

**RuntimeProofs, Service** - `OwnStopLeavesNothingAlways`, `WaitingLoopHasWorkAlways`,
for any nesting of loops and any number of callbacks. The two
hold each other up: a loop that waits does not stop, and one that stops by itself does not
wait. What makes them survive the steps of PHP code is that code runs, within a loop, only
because some loop invoked a handler, which is work until it returns (`CallbackIsWork`): so
while a callback runs, no loop has stopped by itself, and what the callback posts or starts
cannot come too late. This needs the shape of the stack (`FramesFit`: it begins with a loop,
a loop below the top has a handler above it, and every handler a loop below), that what
is on the stack is running and there once (`FramesRun`), and that what is queued is ready and
queued once (`QueueReady`). The exception paths (`LoopSkips`, a callback that throws)
are steps like the others: `FinishKept` covers both ways in which a handler is counted.

**RuntimeProofs, Callbacks** - `RefcountAccountedAlways` and `ValuesAliveAlways`, whatever slots
are overwritten with and however often they are read. `RefcountAccounted` is one equation for each
value. It counts what operations took over by what they found in the slot, not by what `wrap()` was
called with, and is inductive with that. `ValuesAlive` needs that what was freed stays without
a count (`FreedUncounted`): as long as no more was taken over than added, a count of 0 leaves no
operation that holds the value, and nobody can begin to use it. Overtaken values stay
overtaken, because nothing is given back to a slot. One lemma (`AccountKept`) turns the
equation of each value into the invariant; the others compute how many pointers each action
adds or drops.

**RuntimeProofs, Datagram** - `EachDatagramOnceAlways`, `LastPeerIsOwnAlways`, for any number of
sockets, receives and datagrams. `EachDatagramOnce` counts receivers and sockets; the
invariant has instead that places are disjoint (`DatagramsApart`: a number stands once in one
inbox, or with one receive, and has arrived), exhaustive for each datagram whose own socket is
open (`NoneLost`), and that it is nowhere but there (`InItsSocket`). That cancelling cannot
drop a datagram needs that a receive which waits has none
and no error (`WaitingAreQueued`, `TakenWithoutError`), so that what `Cancel` aborts has taken
nothing. `LastPeerIsOwn` needs that the stack holds the receives whose handlers run, each once
(`StackHoldsRunning`): the one `recv_handler` begins with is not on it yet, and makes all of its
protocol that are on it outdated.

**Only model-checked.** Liveness (`TimelyWaitEnds`, `ReadyIsInvoked`, `EveryHandlerEnds`,
`EndsAfterClose`, `EveryOneEnds`, `EveryWaitEnds`): fairness and `ENABLED` are beyond the
prover. Every safety invariant and every action property of a passing run is a theorem.

## 5. What the models assume

- Zend: `zval_ptr_dtor` frees with the last reference and otherwise enters the object
  into the collector's root buffer; the collector frees the roots whose count is 0 and
  drops the others from the buffer; `call_user_function` does nothing while an exception is
  pending; strings are changed in place only through their only reference.
- Boost.Asio, used from one thread: handlers are queued in the order in which they
  become ready; a handler is work until it returns; composed operations are sequences of
  `async_read_some` or `async_write_some`; operations of one direction are served first
  come, first served; cancel, close and release end those that wait with
  `operation_aborted`. A step that could move bytes at once is modelled as waiting and then
  moving. Two strands are taken to be independent, although Boost.Asio may give them one
  implementation by their hash. The steps between of a composed operation, which pass through the
  strand too, run no PHP code and are left out.
- Scripts return a new generator each time, leave resuming it to the extension, yield
  objects, and keep the Service alive as long as its objects. Exceptions are modelled in
  `Service` only.
- The optional parts `ENABLE_COROUTINE` and `ENABLE_STRAND` are compiled in,
  `ENABLE_NULL_BUFFERS` is not.
- A timer whose expiry was never set has expired. Signals reach the loop through a pipe, of
  which the child of a fork gets a new one. One thread answers queries, in any order; `cancel`
  of a resolver reaches those it has not begun.
- The kernel: closing a socket resets its connection, and those in its backlog; a path stays
  when its socket is closed, a port is free again; datagrams are not reordered within
  a socket.
- A stream is connected when `StreamIO` starts; how it came to that is `Endpoint`'s. Errors
  of a stream are not told apart, nor are the ways in which a connect fails. A descriptor that
  was released is left alone by the script until it is assigned again, or for good.
- `resource_to_fd` takes the descriptor of a PHP stream that the script keeps open.
- Addresses are well-formed, and `remoteAddr` is asked of a TCP socket that is connected: from
  `from_string` and `remote_endpoint` a C++ exception would end the process.
- The operations of `Datagram`, `Endpoint` and `Waits` use no Strand: a Strand delays
  a handler, and handlers may be delayed at will here. Callback, argument and the data of
  `sendTo` are kept as by every other operation (`Callbacks`, `StreamIO`).

## 6. What is not modelled, and the plan

Not modelled, for good: `php_asio.cpp` (tables); `available`, `atMark` and the address
getters of stream sockets (they ask the socket and change nothing); several threads (not supported,
`src/README.md` lists them as to do); yielding something that is not an object
(`future.cpp:90` reads its class from garbage: no outcome can be stated); destroying a
Service before its objects.

Done, in this order: `HandlerCount`, `KeepAlive`, `ObjectLifetime` and their proofs; `Coroutine`,
`SingleWaiter` and their proofs; `Service`; `Strand`; `Callbacks`; `StreamIO`; `Waits`
and its proofs; `Datagram`; `Endpoint`; the proofs of `Strand`, `Endpoint` and `StreamIO`;
those of `Service`, `Callbacks` and `Datagram`.

Next:

1. Service composed with Strand: the rules by which loops nest and stop (`Service`), for the
   handlers of Strands.
2. Exceptions in `Coroutine`: what a generator that throws, or a callback before it, leaves of
   the Future that is being resolved.
