------------------------------ MODULE Endpoint ------------------------------
(***************************************************************************)
(* How sockets and acceptors come to their addresses and connections:      *)
(* open, assign, bind, listen, connect, accept, cancel and close.          *)
(*                                                                         *)
(* connect and accept are operations that wait until the kernel has made a *)
(* connection, are then ready, and are done when the loop has called their *)
(* handler.  accept allocates the socket for the connection when it starts,*)
(* and its handler gives it to the script, whatever has become of it.      *)
(*                                                                         *)
(* Sockets of the two families never meet, so a behaviour is about one.    *)
(* They differ in bind: an internet port belongs to the socket that binds  *)
(* it until that is closed; a path is a file that stays, and bind removes a*)
(* socket file that is in its way.  A call that changes nothing but returns*)
(* an error code is no step of this model.                                 *)
(***************************************************************************)
EXTENDS Naturals, SequencesExt

CONSTANTS
    Acceptors, Sockets,
    Clients,        \* the sockets the script has from the start
    Addresses,
    Operations,     \* operations started by connect and accept
    NoAddress, NoSocket, NoObject,
    Free, File, Stale,  \* an address nobody has; a file that is no socket;
                        \* the file of a socket that is closed
    NoPeer, Gone        \* not connected; connected to what is closed

Objects == Acceptors \cup Sockets

ASSUME EndpointAssumption ==
    /\ Acceptors \cap Sockets = {}
    /\ Clients \subseteq Sockets
    /\ {NoAddress, Free, File, Stale} \cap (Objects \cup Addresses) = {}
    /\ {NoSocket, NoObject, NoPeer, Gone} \cap Objects = {}

VARIABLES
    family,         \* the family of all sockets and acceptors
    entry,          \* what each address leads to
    open,           \* the objects that are open
    name,           \* the address each object is bound to
    listening,      \* the acceptors that listen
    backlog,        \* the connections each has yet to accept
    connecting,     \* the address the kernel is connecting a socket to
    link,           \* the peer of a socket, or the acceptor whose backlog it is in
    known,          \* the sockets the script has
    phase,          \* how far each operation has come
    object,         \* the object it was started on
    accepted,       \* the socket an accept has allocated
    ec,             \* its error code
    displaced       \* history: objects whose file another bind has removed

kernel == <<entry, open, name, listening, backlog, connecting, link>>
ops == <<phase, object, accepted, ec>>
vars == <<family, kernel, known, ops, displaced>>

TypeOK ==
    /\ family \in {"unix", "inet"}
    /\ entry \in [Addresses -> Objects \cup {Free, File, Stale}]
    /\ open \in SUBSET Objects
    /\ name \in [Objects -> Addresses \cup {NoAddress}]
    /\ listening \in SUBSET (open \cap Acceptors)
    /\ backlog \in [Acceptors -> Seq(Sockets \cup {Gone})]
    /\ connecting \in [Sockets -> Addresses \cup {NoAddress}]
    /\ link \in [Sockets -> Objects \cup {NoPeer, Gone}]
    /\ known \in SUBSET Sockets
    /\ phase \in [Operations -> {"none", "waiting", "ready", "done"}]
    /\ object \in [Operations -> Objects \cup {NoObject}]
    /\ accepted \in [Operations -> Sockets \cup {NoSocket}]
    /\ ec \in [Operations -> {"ok", "aborted", "refused", "failed"}]
    /\ displaced \in SUBSET Objects

Init ==
    /\ family \in {"unix", "inet"}
    /\ entry \in [Addresses -> IF family = "unix" THEN {Free, File, Stale} ELSE {Free}]
    /\ open = {}
    /\ name = [x \in Objects |-> NoAddress]
    /\ listening = {}
    /\ backlog = [a \in Acceptors |-> <<>>]
    /\ connecting = [s \in Sockets |-> NoAddress]
    /\ link = [s \in Sockets |-> NoPeer]
    /\ known = Clients
    /\ phase = [o \in Operations |-> "none"]
    /\ object = [o \in Operations |-> NoObject]
    /\ accepted = [o \in Operations |-> NoSocket]
    /\ ec = [o \in Operations |-> "ok"]
    /\ displaced = {}

Usable == Acceptors \cup known

-----------------------------------------------------------------------------
\* An object is opened, in vain if it is open.
Open(x) ==
    /\ x \in Usable \ open
    /\ open' = open \cup {x}
    /\ UNCHANGED <<family, entry, name, listening, backlog, connecting, link, known, ops,
                   displaced>>

SocketOpen(x) == x \in Sockets /\ Open(x)
AcceptorOpen(x) == x \in Acceptors /\ Open(x)

\* An object adopts a native socket that is bound to a, and that listens in
\* the case of an acceptor.
Assign(x, a) ==
    /\ x \in Usable \ open
    /\ entry[a] = Free
    /\ open' = open \cup {x}
    /\ entry' = [entry EXCEPT ![a] = x]
    /\ name' = [name EXCEPT ![x] = a]
    /\ listening' = listening \cup ({x} \cap Acceptors)
    /\ UNCHANGED <<family, backlog, connecting, link, known, ops, displaced>>

SocketAssign(x, a) == x \in Sockets /\ Assign(x, a)
AcceptorAssign(x, a) == x \in Acceptors /\ Assign(x, a)

-----------------------------------------------------------------------------
\* An internet socket that listens, connects or is connected has a port of its
\* own, if it was bound to none.
Bindable(x) ==
    /\ x \in open /\ name[x] = NoAddress
    /\ family = "inet" =>
         /\ x \notin listening
         /\ x \in Sockets => link[x] = NoPeer /\ connecting[x] = NoAddress

InetBind(x, a) ==
    /\ family = "inet" /\ x \in Usable
    /\ Bindable(x) /\ entry[a] = Free
    /\ entry' = [entry EXCEPT ![a] = x]
    /\ name' = [name EXCEPT ![x] = a]
    /\ UNCHANGED <<family, open, listening, backlog, connecting, link, known, ops, displaced>>

\* A socket file is removed before anything else, even if the bind then fails,
\* and even if another socket is bound to it.
LocalBind(x, path) ==
    LET removed == IF entry[path] = File THEN File ELSE Free IN
    /\ family = "unix" /\ x \in Usable
    /\ displaced' = displaced \cup ({entry[path]} \cap Objects)
    /\ \/ /\ Bindable(x) /\ removed = Free
          /\ entry' = [entry EXCEPT ![path] = x]
          /\ name' = [name EXCEPT ![x] = path]
       \/ /\ ~Bindable(x) \/ removed # Free
          /\ entry' = [entry EXCEPT ![path] = removed]
          /\ UNCHANGED name
    /\ UNCHANGED <<family, open, listening, backlog, connecting, link, known, ops>>

SocketBind(x, a) == x \in Sockets /\ (InetBind(x, a) \/ LocalBind(x, a))
AcceptorBind(x, a) == x \in Acceptors /\ (InetBind(x, a) \/ LocalBind(x, a))

\* Without an address an internet acceptor gets a port of its own; a local one
\* cannot listen.
Listen(x) ==
    /\ x \in Acceptors \cap open
    /\ family = "unix" => name[x] # NoAddress
    /\ listening' = listening \cup {x}
    /\ UNCHANGED <<family, entry, open, name, backlog, connecting, link, known, ops, displaced>>

-----------------------------------------------------------------------------
\* connect opens the socket if need be.  A socket that is connected, or being
\* connected, cannot be once more.
Connect(o, s, a) ==
    /\ phase[o] = "none" /\ s \in known
    /\ object' = [object EXCEPT ![o] = s]
    /\ open' = open \cup {s}
    /\ \/ /\ link[s] = NoPeer /\ connecting[s] = NoAddress
          /\ phase' = [phase EXCEPT ![o] = "waiting"]
          /\ connecting' = [connecting EXCEPT ![s] = a]
          /\ UNCHANGED ec
       \/ /\ link[s] # NoPeer \/ connecting[s] # NoAddress
          /\ phase' = [phase EXCEPT ![o] = "ready"]
          /\ ec' = [ec EXCEPT ![o] = "failed"]
          /\ UNCHANGED connecting
    /\ UNCHANGED <<family, entry, name, listening, backlog, link, known, accepted, displaced>>

WaitingOn(x) == {o \in Operations : object[o] = x /\ phase[o] = "waiting"}

\* The waits in W are through, with error e.
Ready(W, e) ==
    /\ phase' = [o \in Operations |-> IF o \in W THEN "ready" ELSE phase[o]]
    /\ ec' = [o \in Operations |-> IF o \in W THEN e ELSE ec[o]]

\* The kernel comes to an end with a connection, even if nothing waits for it
\* any more: it is in the backlog of the acceptor the address leads to, or
\* there is none.
Establish(s) ==
    LET x == entry[connecting[s]] IN
    /\ connecting[s] # NoAddress
    /\ connecting' = [connecting EXCEPT ![s] = NoAddress]
    /\ \/ /\ x \in listening
          /\ backlog' = [backlog EXCEPT ![x] = Append(@, s)]
          /\ link' = [link EXCEPT ![s] = x]
          /\ Ready(WaitingOn(s), "ok")
       \/ /\ x \notin listening
          /\ Ready(WaitingOn(s), "refused")
          /\ UNCHANGED <<backlog, link>>
    /\ UNCHANGED <<family, entry, open, name, listening, known, object, accepted, displaced>>

\* Faulty variant of Accept: two accepts on one acceptor share a socket.
AcceptShared(o, x, s) ==
    /\ phase[o] = "none"
    /\ s \in Sockets \ known
    /\ s \in Range(accepted) => \E p \in WaitingOn(x) : accepted[p] = s
    /\ object' = [object EXCEPT ![o] = x]
    /\ accepted' = [accepted EXCEPT ![o] = s]
    /\ phase' = [phase EXCEPT ![o] = IF x \in listening THEN "waiting" ELSE "ready"]
    /\ ec' = [ec EXCEPT ![o] = IF x \in listening THEN "ok" ELSE "failed"]
    /\ UNCHANGED <<family, kernel, known, displaced>>

\* accept allocates a socket that is not open.
Accept(o, x, s) ==
    /\ phase[o] = "none"
    /\ s \in Sockets \ (known \cup Range(accepted))
    /\ object' = [object EXCEPT ![o] = x]
    /\ accepted' = [accepted EXCEPT ![o] = s]
    /\ phase' = [phase EXCEPT ![o] = IF x \in listening THEN "waiting" ELSE "ready"]
    /\ ec' = [ec EXCEPT ![o] = IF x \in listening THEN "ok" ELSE "failed"]
    /\ UNCHANGED <<family, kernel, known, displaced>>

\* The first connection of the backlog goes to the socket of an accept.
TakeConnection(o) ==
    LET x == object[o]
        s == accepted[o]
        peer == Head(backlog[x])
    IN  /\ phase[o] = "waiting" /\ x \in Acceptors
        /\ backlog[x] # <<>>
        /\ backlog' = [backlog EXCEPT ![x] = Tail(@)]
        /\ open' = open \cup {s}
        /\ link' = [t \in Sockets |->
                      CASE t = s -> peer [] t = peer -> s [] OTHER -> link[t]]
        /\ Ready({o}, "ok")
        /\ UNCHANGED <<family, entry, name, listening, connecting, known, object, accepted,
                       displaced>>

-----------------------------------------------------------------------------
\* The operation is over, and what it knew is freed.
Forgotten(o) ==
    /\ phase[o] = "ready"
    /\ phase' = [phase EXCEPT ![o] = "done"]
    /\ object' = [object EXCEPT ![o] = NoObject]
    /\ accepted' = [accepted EXCEPT ![o] = NoSocket]
    /\ ec' = [ec EXCEPT ![o] = "ok"]
    /\ UNCHANGED <<family, kernel, displaced>>

ConnectHandler(o) ==
    /\ object[o] \in Sockets
    /\ Forgotten(o)
    /\ UNCHANGED known

\* The script gets the socket, whether or not it was connected.
AcceptHandler(o) ==
    /\ object[o] \in Acceptors
    /\ Forgotten(o)
    /\ known' = known \cup {accepted[o]}

-----------------------------------------------------------------------------
\* What waits ends.  The kernel goes on connecting.
Cancel(x) ==
    /\ x \in Usable \cap open
    /\ Ready(WaitingOn(x), "aborted")
    /\ UNCHANGED <<family, kernel, known, object, accepted, displaced>>

SocketCancel(x) == x \in Sockets /\ Cancel(x)
AcceptorCancel(x) == x \in Acceptors /\ Cancel(x)

\* The file of a local socket stays when the socket is closed.
Abandoned(a, x) ==
    IF entry[a] # x THEN entry[a] ELSE IF family = "unix" THEN Stale ELSE Free

\* What Close does to names and connections: those in the backlog are reset,
\* as is the connection of a socket.
Vanish(x) ==
    /\ open' = open \ {x}
    /\ entry' = [a \in Addresses |-> Abandoned(a, x)]
    /\ name' = [name EXCEPT ![x] = NoAddress]
    /\ listening' = listening \ {x}
    /\ backlog' = [a \in Acceptors |->
                     IF a = x THEN <<>>
                     ELSE [i \in DOMAIN backlog[a] |->
                             IF backlog[a][i] = x THEN Gone ELSE backlog[a][i]]]
    /\ connecting' = [s \in Sockets |-> IF s = x THEN NoAddress ELSE connecting[s]]
    /\ link' = [s \in Sockets |->
                  CASE s = x -> NoPeer [] link[s] = x -> Gone [] OTHER -> link[s]]
    /\ displaced' = displaced \ {x}

\* Faulty variant of Close: the operations that wait are left alone.
CloseKeepsWaiting(x) ==
    /\ x \in Usable \cap open
    /\ Vanish(x)
    /\ UNCHANGED <<family, known, ops>>

\* Faulty variant of AcceptorClose: the file of a local acceptor is removed,
\* whoever has bound it since.
AcceptorCloseUnlinks(x) ==
    /\ x \in Acceptors \cap open
    /\ Ready(WaitingOn(x), "aborted")
    /\ open' = open \ {x}
    /\ entry' = [a \in Addresses |-> IF a = name[x] THEN Free ELSE entry[a]]
    /\ name' = [name EXCEPT ![x] = NoAddress]
    /\ listening' = listening \ {x}
    /\ backlog' = [backlog EXCEPT ![x] = <<>>]
    /\ link' = [s \in Sockets |-> IF link[s] = x THEN Gone ELSE link[s]]
    /\ displaced' = displaced \ {x}
    /\ UNCHANGED <<family, connecting, known, object, accepted>>

Close(x) ==
    /\ x \in Usable \cap open
    /\ Vanish(x)
    /\ Ready(WaitingOn(x), "aborted")
    /\ UNCHANGED <<family, known, object, accepted>>

SocketClose(x) == x \in Sockets /\ Close(x)
AcceptorClose(x) == x \in Acceptors /\ Close(x)

Next ==
    \/ \E x \in Objects :
         \/ SocketOpen(x) \/ AcceptorOpen(x)
         \/ \E a \in Addresses :
              \/ SocketAssign(x, a) \/ AcceptorAssign(x, a)
              \/ SocketBind(x, a) \/ AcceptorBind(x, a)
         \/ Listen(x)
         \/ SocketCancel(x) \/ AcceptorCancel(x)
         \/ SocketClose(x) \/ AcceptorClose(x)
    \/ \E s \in Sockets : Establish(s)
    \/ \E o \in Operations :
         \/ \E s \in Sockets, a \in Addresses : Connect(o, s, a)
         \/ \E x \in Acceptors, s \in Sockets : Accept(o, x, s)
         \/ TakeConnection(o)
         \/ ConnectHandler(o)
         \/ AcceptHandler(o)

Spec == Init /\ [][Next]_vars

\* The kernel ends its attempts to connect and hands connections over, and the
\* loop reaches every handler; no script needs to do anything.
FairSpec ==
    /\ Spec
    /\ \A s \in Sockets : WF_vars(Establish(s))
    /\ \A o \in Operations :
         /\ WF_vars(TakeConnection(o))
         /\ WF_vars(ConnectHandler(o) \/ AcceptHandler(o))

-----------------------------------------------------------------------------
\* An address leads to the object that is bound to it until that is closed.  The
\* one exception is a path: another bind to it, even one that fails, takes it
\* away for good.
BoundIsReachable ==
    \A x \in open :
        name[x] # NoAddress => entry[name[x]] = x \/ (family = "unix" /\ x \in displaced)

\* The handler of an accept tells by its error code what it passes to the
\* script: an open socket that only it knows of, or one that was never opened.
HandedOpenIffOk ==
    \A o \in Operations :
        phase[o] = "ready" /\ object[o] \in Acceptors =>
            /\ accepted[o] \in open <=> ec[o] = "ok"
            /\ accepted[o] \notin known
            /\ \A p \in Operations \ {o} : accepted[p] # accepted[o]

\* Every connect ends, also after close, and so does every accept once its
\* acceptor has been closed.
EveryOneEnds ==
    \A o \in Operations :
        (phase[o] = "waiting" /\ object[o] \notin listening) ~> phase[o] = "done"
=============================================================================
