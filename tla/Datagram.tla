------------------------------ MODULE Datagram ------------------------------
(***************************************************************************)
(* recvFrom and sendTo on datagram sockets, and the peer they remember.    *)
(*                                                                         *)
(* A receive allocates an endpoint that Boost.Asio fills in with the peer  *)
(* of the datagram it takes.  recv_handler copies that to a variable that  *)
(* all sockets of one protocol share, calls the callback, and returns the  *)
(* data, with which resolve resumes the coroutine.  remoteAddr, remotePort *)
(* and remotePath of any socket read that variable.  Callback and          *)
(* coroutine may run the loop, which runs other handlers inside this one.  *)
(*                                                                         *)
(* Datagrams are numbered in the order they arrive, each from a peer of    *)
(* its own that goes by the same number; 0 stands for none.  Loss,         *)
(* duplication and reordering on the way are up to the network, which lets *)
(* any of them arrive at any socket.                                       *)
(***************************************************************************)
EXTENDS Naturals, SequencesExt, FiniteSetsExt

CONSTANTS
    Receives,       \* operations started by recvFrom
    Sends,          \* operations started by sendTo
    UdpSockets, UdgSockets,
    NoSocket,       \* the socket of an operation not yet started, or done
    MaxArrived      \* bound on the datagrams that arrive

Ops == Receives \cup Sends
Sockets == UdpSockets \cup UdgSockets
Protocols == {"udp", "udg"}
Protocol(s) == IF s \in UdpSockets THEN "udp" ELSE "udg"

ASSUME DatagramAssumption ==
    /\ IsFiniteSet(Ops) /\ Receives \cap Sends = {}
    /\ UdpSockets \cap UdgSockets = {}
    /\ NoSocket \notin Sockets
    /\ MaxArrived \in Nat

VARIABLES
    open,           \* sockets that are open
    inbox,          \* the datagrams that wait in each socket
    arrived,        \* how many datagrams have arrived
    receivers,      \* the receives of each socket that wait for a datagram
    phase,          \* how far each operation has come
    socket,         \* the socket of each operation
    ec,             \* its error code
    taken,          \* the datagram a receive has taken, and its endpoint
    last,           \* last_addr_ and last_port_, last_path_
    stack,          \* receives whose handlers run, the innermost last
    cameTo,         \* history: the socket each datagram arrived at
    outdated        \* history: those in which another one of their protocol ran

kernel == <<open, inbox, arrived, cameTo>>
handlers == <<last, stack, outdated>>
datagramVars == <<kernel, receivers, phase, socket, ec, taken, handlers>>

DatagramTypeOK ==
    /\ open \subseteq Sockets
    /\ inbox \in [Sockets -> Seq(1..MaxArrived)]
    /\ arrived \in 0..MaxArrived
    /\ cameTo \in [1..MaxArrived -> Sockets \cup {NoSocket}]
    /\ receivers \in [Sockets -> Seq(Receives)]
    /\ phase \in [Ops -> {"none", "waiting", "ready", "running", "done"}]
    /\ socket \in [Ops -> Sockets \cup {NoSocket}]
    /\ ec \in [Ops -> {"ok", "aborted", "bad_descriptor", "unreachable"}]
    /\ taken \in [Receives -> 0..MaxArrived]
    /\ last \in [Protocols -> 0..MaxArrived]
    /\ stack \in Seq(Receives)
    /\ outdated \in SUBSET Receives

DatagramInit ==
    /\ open = Sockets
    /\ inbox = [s \in Sockets |-> <<>>] /\ arrived = 0
    /\ cameTo = [d \in 1..MaxArrived |-> NoSocket]
    /\ receivers = [s \in Sockets |-> <<>>]
    /\ phase = [o \in Ops |-> "none"]
    /\ socket = [o \in Ops |-> NoSocket]
    /\ ec = [o \in Ops |-> "ok"]
    /\ taken = [r \in Receives |-> 0]
    /\ last = [p \in Protocols |-> 0] /\ stack = <<>> /\ outdated = {}

-----------------------------------------------------------------------------
\* The network.
Arrive(s) ==
    /\ arrived < MaxArrived
    /\ s \in open
    /\ arrived' = arrived + 1
    /\ inbox' = [inbox EXCEPT ![s] = Append(@, arrived')]
    /\ cameTo' = [cameTo EXCEPT ![arrived'] = s]
    /\ UNCHANGED <<open, receivers, phase, socket, ec, taken, handlers>>

\* The descriptor is served: the first receive takes the first datagram.
Take(r) ==
    LET s == socket[r] IN
    /\ phase[r] = "waiting" /\ r = Head(receivers[s])
    /\ inbox[s] # <<>>
    /\ phase' = [phase EXCEPT ![r] = "ready"]
    /\ receivers' = [receivers EXCEPT ![s] = Tail(@)]
    /\ taken' = [taken EXCEPT ![r] = Head(inbox[s])]
    /\ inbox' = [inbox EXCEPT ![s] = Tail(@)]
    /\ UNCHANGED <<open, arrived, cameTo, socket, ec, handlers>>

\* The datagram of a send leaves, or cannot reach its destination.
Transmit(x) ==
    /\ phase[x] = "waiting"
    /\ phase' = [phase EXCEPT ![x] = "ready"]
    /\ \E e \in {"ok", "unreachable"} : ec' = [ec EXCEPT ![x] = e]
    /\ UNCHANGED <<kernel, receivers, socket, taken, handlers>>

-----------------------------------------------------------------------------
\* An operation on s waits, or fails at once if s is closed.
Starts(o, s) ==
    /\ phase[o] = "none"
    /\ socket' = [socket EXCEPT ![o] = s]
    /\ phase' = [phase EXCEPT ![o] = IF s \in open THEN "waiting" ELSE "ready"]
    /\ ec' = [ec EXCEPT ![o] = IF s \in open THEN "ok" ELSE "bad_descriptor"]

\* Without a positive length recvFrom returns null and starts nothing.
RecvFrom(r, s) ==
    /\ Starts(r, s)
    /\ receivers' = [receivers EXCEPT ![s] = IF s \in open THEN Append(@, r) ELSE @]
    /\ UNCHANGED <<kernel, taken, handlers>>

\* The data is copied by reference and released by write_handler, as for
\* writes to a stream.
SendTo(x, s) ==
    /\ Starts(x, s)
    /\ UNCHANGED <<kernel, receivers, taken, handlers>>

UdpSendTo(x, s) == s \in UdpSockets /\ SendTo(x, s)
UdgSendTo(x, s) == s \in UdgSockets /\ SendTo(x, s)

-----------------------------------------------------------------------------
\* Faulty variant of RecvHandler: nothing is remembered of a receive that
\* failed.
RecvHandlerUnlessError(r) ==
    /\ phase[r] = "ready"
    /\ last' = IF ec[r] = "ok" THEN [last EXCEPT ![Protocol(socket[r])] = taken[r]] ELSE last
    /\ phase' = [phase EXCEPT ![r] = "running"]
    /\ stack' = Append(stack, r)
    /\ outdated' = outdated \cup {h \in Range(stack) :
                                    Protocol(socket[h]) = Protocol(socket[r])}
    /\ UNCHANGED <<kernel, receivers, socket, ec, taken>>

\* recv_handler remembers the peer, that of a failed receive too, and calls
\* the callback.
RecvHandler(r) ==
    /\ phase[r] = "ready"
    /\ last' = [last EXCEPT ![Protocol(socket[r])] = taken[r]]
    /\ phase' = [phase EXCEPT ![r] = "running"]
    /\ stack' = Append(stack, r)
    /\ outdated' = outdated \cup {h \in Range(stack) :
                                    Protocol(socket[h]) = Protocol(socket[r])}
    /\ UNCHANGED <<kernel, receivers, socket, ec, taken>>

UdpRecvHandler(r) == socket[r] \in UdpSockets /\ RecvHandler(r)
UdgRecvHandler(r) == socket[r] \in UdgSockets /\ RecvHandler(r)

\* The operation is over, and what it knew is freed.
Forgotten(o) ==
    /\ phase' = [phase EXCEPT ![o] = "done"]
    /\ socket' = [socket EXCEPT ![o] = NoSocket]
    /\ ec' = [ec EXCEPT ![o] = "ok"]

\* The callback, and the coroutine that resolve resumes after it, are through.
HandlerEnds(r) ==
    /\ stack # <<>> /\ r = Last(stack)
    /\ phase[r] = "running"
    /\ stack' = Front(stack)
    /\ outdated' = outdated \ {r}
    /\ Forgotten(r)
    /\ UNCHANGED <<kernel, receivers, taken, last>>

\* write_handler.
WriteHandler(x) ==
    /\ phase[x] = "ready"
    /\ Forgotten(x)
    /\ UNCHANGED <<kernel, receivers, taken, handlers>>

\* What remoteAddr, remotePort and remotePath tell of a socket.
RemoteEndpoint(s) == last[Protocol(s)]

-----------------------------------------------------------------------------
WaitingOn(s) == {o \in Ops : socket[o] = s /\ phase[o] = "waiting"}

\* What waits for s ends; a receive that has its datagram, and a send whose
\* datagram has left, do not wait.
AbortWaiting(s) ==
    /\ phase' = [o \in Ops |-> IF o \in WaitingOn(s) THEN "ready" ELSE phase[o]]
    /\ ec' = [o \in Ops |-> IF o \in WaitingOn(s) THEN "aborted" ELSE ec[o]]
    /\ receivers' = [receivers EXCEPT ![s] = <<>>]

\* Faulty variant of Cancel: the operations that are through report an error.
CancelReady(s) ==
    LET W == {o \in Ops : socket[o] = s /\ phase[o] \in {"waiting", "ready"}} IN
    /\ s \in open
    /\ phase' = [o \in Ops |-> IF o \in W THEN "ready" ELSE phase[o]]
    /\ ec' = [o \in Ops |-> IF o \in W THEN "aborted" ELSE ec[o]]
    /\ receivers' = [receivers EXCEPT ![s] = <<>>]
    /\ taken' = [r \in Receives |-> IF r \in W THEN 0 ELSE taken[r]]
    /\ UNCHANGED <<kernel, socket, handlers>>

Cancel(s) ==
    /\ s \in open
    /\ AbortWaiting(s)
    /\ UNCHANGED <<kernel, socket, taken, handlers>>

\* Faulty variant of Close: the operations that wait are left alone.
CloseKeepsWaiting(s) ==
    /\ s \in open
    /\ open' = open \ {s}
    /\ inbox' = [inbox EXCEPT ![s] = <<>>]
    /\ UNCHANGED <<arrived, cameTo, receivers, phase, ec, socket, taken, handlers>>

Close(s) ==
    /\ s \in open
    /\ AbortWaiting(s)
    /\ open' = open \ {s}
    /\ inbox' = [inbox EXCEPT ![s] = <<>>]
    /\ UNCHANGED <<arrived, cameTo, socket, taken, handlers>>

DatagramNext ==
    \/ \E s \in Sockets :
         \/ Arrive(s)
         \/ \E r \in Receives : RecvFrom(r, s)
         \/ \E x \in Sends : UdpSendTo(x, s) \/ UdgSendTo(x, s)
         \/ Cancel(s)
         \/ Close(s)
    \/ \E r \in Receives :
         \/ Take(r)
         \/ UdpRecvHandler(r)
         \/ UdgRecvHandler(r)
         \/ HandlerEnds(r)
    \/ \E x \in Sends : Transmit(x) \/ WriteHandler(x)

DatagramSpec == DatagramInit /\ [][DatagramNext]_datagramVars

\* The loop reaches every handler that is queued, and the innermost one that
\* runs comes to its end; nothing makes datagrams arrive or leave.
FairDatagramSpec ==
    /\ DatagramSpec
    /\ \A r \in Receives : WF_datagramVars(UdpRecvHandler(r) \/ UdgRecvHandler(r))
    /\ \A x \in Sends : WF_datagramVars(WriteHandler(x))
    /\ WF_datagramVars(\E r \in Receives : HandlerEnds(r))

-----------------------------------------------------------------------------
\* A callback or coroutine that asks any socket of its protocol for the peer
\* learns that of its own datagram, unless another receive of the protocol was
\* handled meanwhile, inside it.  After a failed receive it learns nobody, and
\* not the peer of an older datagram.
LastPeerIsOwn ==
    \A r \in Range(stack) \ outdated :
        RemoteEndpoint(socket[r]) = (IF ec[r] = "ok" THEN taken[r] ELSE 0)

\* A datagram is taken by one receive of the socket it arrived at, which
\* reports it, or waits there; none is lost as long as that socket is open,
\* whichever receives are cancelled and whichever other sockets are closed.
EachDatagramOnce ==
    \A d \in 1..arrived :
        LET takers == {r \in Receives : taken[r] = d}
            places == {s \in Sockets : d \in Range(inbox[s])}
        IN  /\ Cardinality(takers) + Cardinality(places) <= 1
            /\ cameTo[d] \in open => takers \cup places # {}
            /\ places \subseteq {cameTo[d]}
            /\ \A r \in takers : ec[r] = "ok" /\ socket[r] \in {cameTo[d], NoSocket}

\* All operations of a closed socket end, and those started on it afterwards.
EndsAfterClose ==
    \A o \in Ops :
        phase[o] # "none" /\ socket[o] \notin open ~> phase[o] = "done"
=============================================================================
