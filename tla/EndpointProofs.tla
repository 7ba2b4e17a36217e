--------------------------- MODULE EndpointProofs ---------------------------
(***************************************************************************)
(* Addresses lead where they should, and accept hands over what its error  *)
(* code tells: for any number of sockets, acceptors, addresses and         *)
(* operations.                                                             *)
(***************************************************************************)
EXTENDS Endpoint, SequenceTheorems, TLAPS

\* What is closed is bound to nothing.
NamedAreOpen == \A x \in Objects : name[x] # NoAddress => x \in open

\* An accept has a socket of its own from its start to its handler, which is
\* opened when it takes a connection.
AcceptsOwnSockets ==
    \A o \in Operations :
        /\ phase[o] \in {"none", "done"} => object[o] = NoObject
        /\ accepted[o] # NoSocket <=> object[o] \in Acceptors
        /\ object[o] \in Acceptors =>
             /\ accepted[o] \notin known
             /\ accepted[o] \in open <=> phase[o] = "ready" /\ ec[o] = "ok"
             /\ \A p \in Operations \ {o} : accepted[p] # accepted[o]

\* Nobody opens a socket that has yet to be allocated.
OpenAreAllocated == \A s \in Sockets \cap open : s \in known \cup Range(accepted)

NamesInv == NamedAreOpen /\ BoundIsReachable
SocketsInv == AcceptsOwnSockets /\ OpenAreAllocated

IInv == TypeOK /\ NamesInv /\ SocketsInv

-----------------------------------------------------------------------------
LEMMA InitIInv == Init => IInv
<1>1. SUFFICES ASSUME Init
               PROVE  IInv
  OBVIOUS
<1> USE <1>1, EndpointAssumption DEF Init
<1>2. TypeOK
  <2>1. /\ backlog \in [Acceptors -> Seq(Sockets \cup {Gone})]
        /\ entry \in [Addresses -> Objects \cup {Free, File, Stale}]
    BY EmptySeq
  <2>2. QED
    BY <2>1 DEF TypeOK
<1>3. NamesInv
  BY DEF NamesInv, NamedAreOpen, BoundIsReachable
<1>4. SocketsInv
  BY DEF SocketsInv, AcceptsOwnSockets, OpenAreAllocated, Objects
<1>5. QED
  BY <1>2, <1>3, <1>4 DEF IInv

-----------------------------------------------------------------------------
(***************************************************************************)
(* Opening objects leaves every address as it is.                          *)
(***************************************************************************)
LEMMA OpeningKeepsNames ==
    ASSUME TypeOK, NamesInv, UNCHANGED <<family, entry, name, displaced>>, open \subseteq open',
           open' \subseteq Objects
    PROVE  NamesInv'
  BY DEF TypeOK, NamesInv, NamedAreOpen, BoundIsReachable

(***************************************************************************)
(* An operation that is allowed to use a socket is none that accepts it.   *)
(***************************************************************************)
LEMMA OpeningKeepsSockets ==
    ASSUME TypeOK, SocketsInv, UNCHANGED <<known, ops>>, NEW x \in Usable, open' = open \cup {x}
    PROVE  SocketsInv'
<1> USE EndpointAssumption DEF TypeOK, SocketsInv, Objects, Usable, ops
<1>1. AcceptsOwnSockets'
  BY DEF AcceptsOwnSockets
<1>2. OpenAreAllocated'
  BY DEF OpenAreAllocated
<1>3. QED
  BY <1>1, <1>2

LEMMA OpenKeeps ==
    ASSUME IInv, NEW x \in Objects, Open(x)
    PROVE  IInv'
<1> USE DEF IInv, Open
<1>1. TypeOK'
  BY DEF TypeOK, Usable, ops
<1>2. NamesInv'
  BY OpeningKeepsNames DEF TypeOK
<1>3. SocketsInv'
  BY OpeningKeepsSockets
<1>4. QED
  BY <1>1, <1>2, <1>3

LEMMA AssignKeeps ==
    ASSUME IInv, NEW x \in Objects, NEW a \in Addresses, Assign(x, a)
    PROVE  IInv'
<1> USE DEF IInv, Assign
<1>1. TypeOK'
  BY DEF TypeOK, Usable, ops
<1>2. NamesInv'
  BY EndpointAssumption DEF TypeOK, NamesInv, NamedAreOpen, BoundIsReachable
<1>3. SocketsInv'
  BY OpeningKeepsSockets
<1>4. QED
  BY <1>1, <1>2, <1>3

(***************************************************************************)
(* Binding changes addresses only.                                         *)
(***************************************************************************)
LEMMA BindKeeps ==
    ASSUME IInv, NEW x \in Objects, NEW a \in Addresses, InetBind(x, a) \/ LocalBind(x, a)
    PROVE  IInv'
<1> USE EndpointAssumption DEF IInv
<1>1. UNCHANGED <<family, open, listening, backlog, connecting, link, known, ops>>
  BY DEF InetBind, LocalBind
<1>2. CASE InetBind(x, a)
  <2> USE <1>2 DEF InetBind, Bindable
  <2>1. TypeOK'
    BY <1>1 DEF TypeOK, ops
  <2>2. NamesInv'
    BY DEF TypeOK, NamesInv, NamedAreOpen, BoundIsReachable
  <2>3. QED
    BY <1>1, <2>1, <2>2
    DEF ops, SocketsInv, AcceptsOwnSockets, OpenAreAllocated
<1>3. CASE LocalBind(x, a)
  <2> USE <1>3 DEF LocalBind, Bindable
  <2>1. TypeOK'
    BY <1>1 DEF TypeOK, ops
  <2>2. NamesInv'
    BY DEF TypeOK, NamesInv, NamedAreOpen, BoundIsReachable
  <2>3. QED
    BY <1>1, <2>1, <2>2
    DEF ops, SocketsInv, AcceptsOwnSockets, OpenAreAllocated
<1>4. QED
  BY <1>2, <1>3

LEMMA ListenKeeps ==
    ASSUME IInv, NEW x \in Objects, Listen(x)
    PROVE  IInv'
<1> USE DEF IInv, Listen
<1>1. TypeOK'
  BY DEF TypeOK, ops
<1>2. NamesInv'
  BY OpeningKeepsNames DEF TypeOK
<1>3. SocketsInv'
  BY DEF ops, SocketsInv, AcceptsOwnSockets, OpenAreAllocated
<1>4. QED
  BY <1>1, <1>2, <1>3

LEMMA ConnectKeeps ==
    ASSUME IInv, NEW o \in Operations, NEW s \in Sockets, NEW a \in Addresses, Connect(o, s, a)
    PROVE  IInv'
<1> USE EndpointAssumption DEF IInv, Connect
<1>1. TypeOK'
  <2>1. /\ object' \in [Operations -> Objects \cup {NoObject}]
        /\ phase' \in [Operations -> {"none", "waiting", "ready", "done"}]
        /\ ec' \in [Operations -> {"ok", "aborted", "refused", "failed"}]
        /\ connecting' \in [Sockets -> Addresses \cup {NoAddress}]
    <3>1. object' \in [Operations -> Objects \cup {NoObject}]
      BY DEF TypeOK, Objects
    <3>2. CASE link[s] = NoPeer /\ connecting[s] = NoAddress
      <4>1. /\ phase' = [phase EXCEPT ![o] = "waiting"]
            /\ connecting' = [connecting EXCEPT ![s] = a]
            /\ ec' = ec
        BY <3>2
      <4>2. connecting' \in [Sockets -> Addresses \cup {NoAddress}]
        BY <4>1 DEF TypeOK
      <4>3. QED
        BY <3>1, <4>1, <4>2 DEF TypeOK
    <3>3. CASE link[s] # NoPeer \/ connecting[s] # NoAddress
      BY <3>1, <3>3 DEF TypeOK
    <3>4. QED
      BY <3>2, <3>3
  <2>2. open' \in SUBSET Objects /\ listening' \in SUBSET (open' \cap Acceptors)
    BY DEF TypeOK, Objects
  <2>3. QED
    BY <2>1, <2>2 DEF TypeOK
<1>2. NamesInv'
  BY OpeningKeepsNames DEF TypeOK, Objects
<1>3. object[o] = NoObject /\ accepted[o] = NoSocket
  BY DEF SocketsInv, AcceptsOwnSockets, Objects
<1>4. AcceptsOwnSockets'
  BY <1>3 DEF TypeOK, SocketsInv, AcceptsOwnSockets, Objects
<1>5. OpenAreAllocated'
  BY DEF SocketsInv, OpenAreAllocated
<1>6. QED
  BY <1>1, <1>2, <1>4, <1>5 DEF SocketsInv

(***************************************************************************)
(* What waits can become ready in any way but with a connection: then the  *)
(* socket of an accept is still not open.                                  *)
(***************************************************************************)
LEMMA ReadyKeepsSockets ==
    ASSUME TypeOK, SocketsInv, UNCHANGED <<known, object, accepted>>,
           open' \cap (Sockets \ known) = open \cap (Sockets \ known), open' \subseteq open,
           NEW x \in Objects,
           NEW e \in {"ok", "aborted", "refused"}, e = "ok" => x \in Sockets,
           Ready(WaitingOn(x), e)
    PROVE  SocketsInv' /\ phase' \in [Operations -> {"none", "waiting", "ready", "done"}]
                       /\ ec' \in [Operations -> {"ok", "aborted", "refused", "failed"}]
<1> USE EndpointAssumption DEF TypeOK, SocketsInv, Ready, WaitingOn, Objects
<1>1. AcceptsOwnSockets'
  BY DEF AcceptsOwnSockets
<1>2. OpenAreAllocated'
  BY DEF OpenAreAllocated
<1>3. QED
  BY <1>1, <1>2

-----------------------------------------------------------------------------
(***************************************************************************)
(* A socket whose connection is made goes to the end of a backlog.         *)
(***************************************************************************)
LEMMA EstablishKeeps ==
    ASSUME IInv, NEW s \in Sockets, Establish(s)
    PROVE  IInv'
<1> USE EndpointAssumption DEF IInv, Establish
<1> DEFINE x == entry[connecting[s]]
<1>1. connecting[s] \in Addresses
  BY DEF TypeOK
<1>2. /\ SocketsInv'
      /\ phase' \in [Operations -> {"none", "waiting", "ready", "done"}]
      /\ ec' \in [Operations -> {"ok", "aborted", "refused", "failed"}]
  BY ReadyKeepsSockets DEF Objects
<1>3. NamesInv'
  BY DEF NamesInv, NamedAreOpen, BoundIsReachable
<1>4. CASE x \in listening
  <2>1. /\ x \in Acceptors /\ backlog[x] \in Seq(Sockets \cup {Gone})
        /\ backlog' = [backlog EXCEPT ![x] = Append(backlog[x], s)]
        /\ link' = [link EXCEPT ![s] = x]
    BY <1>4 DEF TypeOK
  <2>2. Append(backlog[x], s) \in Seq(Sockets \cup {Gone})
    BY <2>1, AppendProperties
  <2>3. TypeOK'
    BY <1>2, <2>1, <2>2 DEF TypeOK, Objects
  <2>4. QED
    BY <1>2, <1>3, <2>3
<1>5. CASE x \notin listening
  <2>1. TypeOK'
    BY <1>2, <1>5 DEF TypeOK
  <2>2. QED
    BY <1>2, <1>3, <2>1
<1>6. QED
  BY <1>4, <1>5

LEMMA AcceptKeeps ==
    ASSUME IInv, NEW o \in Operations, NEW x \in Acceptors, NEW s \in Sockets, Accept(o, x, s)
    PROVE  IInv'
<1> USE EndpointAssumption DEF IInv, Accept, kernel
<1>1. TypeOK'
  BY DEF TypeOK, Objects
<1>2. NamesInv'
  BY DEF NamesInv, NamedAreOpen, BoundIsReachable
<1>3. object[o] = NoObject /\ accepted[o] = NoSocket
  BY DEF SocketsInv, AcceptsOwnSockets, Objects
<1>4. s \notin known /\ s \notin open /\ \A p \in Operations : accepted[p] # s
  BY DEF TypeOK, SocketsInv, OpenAreAllocated, Range
<1>5. AcceptsOwnSockets'
  BY <1>3, <1>4 DEF TypeOK, SocketsInv, AcceptsOwnSockets, Objects
<1>6. OpenAreAllocated'
  BY <1>3 DEF TypeOK, SocketsInv, OpenAreAllocated, Range
<1>7. QED
  BY <1>1, <1>2, <1>5, <1>6 DEF SocketsInv

(***************************************************************************)
(* A waiting accept opens its socket for the first connection of the       *)
(* backlog.                                                                *)
(***************************************************************************)
LEMMA TakeConnectionKeeps ==
    ASSUME IInv, NEW o \in Operations, TakeConnection(o)
    PROVE  IInv'
<1> USE EndpointAssumption DEF IInv
<1> DEFINE x == object[o]
           s == accepted[o]
           peer == Head(backlog[x])
           rest == Tail(backlog[x])
<1>1. /\ phase[o] = "waiting" /\ x \in Acceptors
      /\ backlog[x] \in Seq(Sockets \cup {Gone}) /\ backlog[x] # <<>>
      /\ backlog' = [backlog EXCEPT ![x] = rest]
      /\ open' = open \cup {s}
      /\ link' = [t \in Sockets |->
                    CASE t = s -> peer [] t = peer -> s [] OTHER -> link[t]]
      /\ phase' = [phase EXCEPT ![o] = "ready"]
      /\ ec' = [ec EXCEPT ![o] = "ok"]
      /\ UNCHANGED <<family, entry, name, listening, connecting, known, object, accepted,
                     displaced>>
  BY DEF TakeConnection, Ready, TypeOK
<1>2. s \in Sockets /\ s \notin known /\ s \notin open
  BY <1>1 DEF TypeOK, SocketsInv, AcceptsOwnSockets
<1>3. peer \in Sockets \cup {Gone} /\ rest \in Seq(Sockets \cup {Gone})
  BY <1>1, HeadTailProperties
<1> HIDE DEF rest, peer
<1>4. TypeOK'
  <2>1. backlog' \in [Acceptors -> Seq(Sockets \cup {Gone})]
    BY <1>1, <1>3 DEF TypeOK
  <2>2. link' \in [Sockets -> Objects \cup {NoPeer, Gone}]
    BY <1>1, <1>2, <1>3 DEF TypeOK, Objects
  <2>3. /\ open' \in SUBSET Objects
        /\ listening' \in SUBSET (open' \cap Acceptors)
        /\ phase' \in [Operations -> {"none", "waiting", "ready", "done"}]
        /\ ec' \in [Operations -> {"ok", "aborted", "refused", "failed"}]
    BY <1>1, <1>2 DEF TypeOK, Objects
  <2>4. QED
    BY <1>1, <2>1, <2>2, <2>3 DEF TypeOK
<1>5. NamesInv'
  BY <1>1, <1>2, <1>4, OpeningKeepsNames DEF TypeOK
<1>6. AcceptsOwnSockets'
  BY <1>1, <1>2 DEF TypeOK, SocketsInv, AcceptsOwnSockets, Objects
<1>7. OpenAreAllocated'
  BY <1>1, <1>2 DEF TypeOK, SocketsInv, OpenAreAllocated, Range
<1>8. QED
  BY <1>4, <1>5, <1>6, <1>7 DEF SocketsInv

-----------------------------------------------------------------------------
(***************************************************************************)
(* A handler frees what its operation knew.  That of an accept gives its   *)
(* socket, which nobody else has, to the script.                           *)
(***************************************************************************)
LEMMA ForgottenKeeps ==
    ASSUME IInv, NEW o \in Operations, ConnectHandler(o) \/ AcceptHandler(o)
    PROVE  IInv'
<1> USE EndpointAssumption DEF IInv
<1>1. /\ phase[o] = "ready"
      /\ phase' = [phase EXCEPT ![o] = "done"]
      /\ object' = [object EXCEPT ![o] = NoObject]
      /\ accepted' = [accepted EXCEPT ![o] = NoSocket]
      /\ ec' = [ec EXCEPT ![o] = "ok"]
      /\ UNCHANGED <<family, entry, open, name, listening, backlog, connecting, link, displaced>>
  BY DEF ConnectHandler, AcceptHandler, Forgotten, kernel
<1>2. \/ object[o] \in Sockets /\ accepted[o] = NoSocket /\ known' = known
      \/ /\ object[o] \in Acceptors /\ accepted[o] \in Sockets
         /\ known' = known \cup {accepted[o]}
  BY DEF ConnectHandler, AcceptHandler, TypeOK, SocketsInv, AcceptsOwnSockets
<1>3. TypeOK'
  BY <1>1, <1>2 DEF TypeOK
<1>4. NamesInv'
  BY <1>1 DEF NamesInv, NamedAreOpen, BoundIsReachable
<1>5. AcceptsOwnSockets'
  BY <1>1, <1>2 DEF TypeOK, SocketsInv, AcceptsOwnSockets, Objects
<1>6. OpenAreAllocated'
  BY <1>1, <1>2 DEF TypeOK, SocketsInv, OpenAreAllocated, Range
<1>7. QED
  BY <1>3, <1>4, <1>5, <1>6 DEF SocketsInv

LEMMA CancelKeeps ==
    ASSUME IInv, NEW x \in Objects, Cancel(x)
    PROVE  IInv'
<1> USE DEF IInv, Cancel, kernel
<1>1. /\ SocketsInv'
      /\ phase' \in [Operations -> {"none", "waiting", "ready", "done"}]
      /\ ec' \in [Operations -> {"ok", "aborted", "refused", "failed"}]
  BY ReadyKeepsSockets
<1>2. TypeOK'
  BY <1>1 DEF TypeOK
<1>3. NamesInv'
  BY DEF NamesInv, NamedAreOpen, BoundIsReachable
<1>4. QED
  BY <1>1, <1>2, <1>3

(***************************************************************************)
(* What is closed gives its address up, and no socket of an accept was     *)
(* open that is not.                                                       *)
(***************************************************************************)
LEMMA CloseKeeps ==
    ASSUME IInv, NEW x \in Objects, Close(x)
    PROVE  IInv'
<1> USE EndpointAssumption DEF IInv, Close, Vanish
<1> DEFINE without(b) == [i \in DOMAIN b |-> IF b[i] = x THEN Gone ELSE b[i]]
<1>1. x \in open /\ (x \in Sockets => x \in known)
  BY DEF Usable, Objects
<1>2. /\ SocketsInv'
      /\ phase' \in [Operations -> {"none", "waiting", "ready", "done"}]
      /\ ec' \in [Operations -> {"ok", "aborted", "refused", "failed"}]
  BY <1>1, ReadyKeepsSockets
<1>3. \A a \in Acceptors :
        /\ backlog'[a] = IF a = x THEN <<>> ELSE without(backlog[a])
        /\ backlog[a] \in Seq(Sockets \cup {Gone})
        /\ Len(backlog[a]) \in Nat /\ DOMAIN backlog[a] = 1..Len(backlog[a])
  BY LenProperties DEF TypeOK
<1>4. \A a \in Acceptors : without(backlog[a]) \in Seq(Sockets \cup {Gone})
  <2> SUFFICES ASSUME NEW a \in Acceptors
               PROVE  without(backlog[a]) \in Seq(Sockets \cup {Gone})
    OBVIOUS
  <2>1. \A i \in 1..Len(backlog[a]) : backlog[a][i] \in Sockets \cup {Gone}
    BY <1>3, LenProperties
  <2>2. without(backlog[a]) \in [1..Len(backlog[a]) -> Sockets \cup {Gone}]
    BY <1>3, <2>1
  <2>3. QED
    BY <1>3, <2>2, SeqDef
<1> HIDE DEF without
<1>5. TypeOK'
  <2>1. entry' \in [Addresses -> Objects \cup {Free, File, Stale}]
    BY DEF TypeOK, Abandoned
  <2>2. backlog' \in [Acceptors -> Seq(Sockets \cup {Gone})]
    <3>1. <<>> \in Seq(Sockets \cup {Gone})
      BY EmptySeq
    <3>2. \A a \in Acceptors : backlog'[a] \in Seq(Sockets \cup {Gone})
      BY <1>3, <1>4, <3>1
    <3>3. QED
      BY <3>2
  <2>3. /\ connecting' \in [Sockets -> Addresses \cup {NoAddress}]
        /\ link' \in [Sockets -> Objects \cup {NoPeer, Gone}]
        /\ name' \in [Objects -> Addresses \cup {NoAddress}]
    BY DEF TypeOK
  <2>4. /\ open' \in SUBSET Objects
        /\ listening' \in SUBSET (open' \cap Acceptors)
        /\ displaced' \in SUBSET Objects
    BY DEF TypeOK
  <2>5. QED
    BY <1>2, <2>1, <2>2, <2>3, <2>4 DEF TypeOK
<1>6. NamesInv'
  BY DEF TypeOK, NamesInv, NamedAreOpen, BoundIsReachable, Abandoned
<1>7. QED
  BY <1>2, <1>5, <1>6

-----------------------------------------------------------------------------
LEMMA NextKeepsIInv == IInv /\ [Next]_vars => IInv'
<1>1. SUFFICES ASSUME IInv, [Next]_vars
               PROVE  IInv'
  OBVIOUS
<1>2. CASE UNCHANGED vars
  BY <1>1, <1>2
  DEF vars, kernel, ops, IInv, TypeOK, NamesInv, NamedAreOpen, BoundIsReachable,
      SocketsInv, AcceptsOwnSockets, OpenAreAllocated
<1>3. CASE \E x \in Objects : SocketOpen(x) \/ AcceptorOpen(x)
  BY <1>1, <1>3, OpenKeeps DEF SocketOpen, AcceptorOpen
<1>4. CASE \E x \in Objects, a \in Addresses : SocketAssign(x, a) \/ AcceptorAssign(x, a)
  BY <1>1, <1>4, AssignKeeps DEF SocketAssign, AcceptorAssign
<1>5. CASE \E x \in Objects, a \in Addresses : SocketBind(x, a) \/ AcceptorBind(x, a)
  BY <1>1, <1>5, BindKeeps DEF SocketBind, AcceptorBind
<1>6. CASE \E x \in Objects : Listen(x)
  BY <1>1, <1>6, ListenKeeps
<1>7. CASE \E x \in Objects : SocketCancel(x) \/ AcceptorCancel(x)
  BY <1>1, <1>7, CancelKeeps DEF SocketCancel, AcceptorCancel
<1>8. CASE \E x \in Objects : SocketClose(x) \/ AcceptorClose(x)
  BY <1>1, <1>8, CloseKeeps DEF SocketClose, AcceptorClose
<1>9. CASE \E s \in Sockets : Establish(s)
  BY <1>1, <1>9, EstablishKeeps
<1>10. CASE \E o \in Operations, s \in Sockets, a \in Addresses : Connect(o, s, a)
  BY <1>1, <1>10, ConnectKeeps
<1>11. CASE \E o \in Operations, x \in Acceptors, s \in Sockets : Accept(o, x, s)
  BY <1>1, <1>11, AcceptKeeps
<1>12. CASE \E o \in Operations : TakeConnection(o)
  BY <1>1, <1>12, TakeConnectionKeeps
<1>13. CASE \E o \in Operations : ConnectHandler(o) \/ AcceptHandler(o)
  BY <1>1, <1>13, ForgottenKeeps
<1>14. QED
  BY <1>1, <1>2, <1>3, <1>4, <1>5, <1>6, <1>7, <1>8, <1>9, <1>10, <1>11, <1>12, <1>13 DEF Next

\* The strengthened invariant holds in every reachable state, TypeOK with it.
THEOREM IInvAlways == Spec => []IInv
  BY InitIInv, NextKeepsIInv, PTL DEF Spec

\* As long as a socket or an acceptor is open, the address it was bound to leads
\* to it, unless another bind has removed its file.
THEOREM BoundIsReachableAlways == Spec => []BoundIsReachable
<1>1. IInv => BoundIsReachable
  BY DEF IInv, NamesInv
<1>2. QED
  BY <1>1, IInvAlways, PTL

\* An accept whose handler is due has a socket nobody else has, and that socket
\* is open exactly if the handler gets no error.
THEOREM HandedOpenIffOkAlways == Spec => []HandedOpenIffOk
<1>1. IInv => HandedOpenIffOk
  BY DEF IInv, SocketsInv, AcceptsOwnSockets, HandedOpenIffOk
<1>2. QED
  BY <1>1, IInvAlways, PTL
=============================================================================
