------------------------------ MODULE StreamIO ------------------------------
(***************************************************************************)
(* Reading from and writing to one stream: a TCP or UNIX socket, or a      *)
(* stream descriptor.                                                      *)
(*                                                                         *)
(* read and write start an operation that holds a buffer until it is       *)
(* resolved.  One that asks for some bytes takes one step: it waits for    *)
(* the descriptor, moves bytes and has its handler queued.  The others are *)
(* composed by Boost.Asio of such steps and go on until they are through.  *)
(* Between two steps they are in the queue of handlers, where cancel and   *)
(* close do not find them.  Steps of several operations in one direction   *)
(* interleave, and the script may drop or change the data it is writing.   *)
(*                                                                         *)
(* Bytes that arrive are numbered, bytes that are sent are known by the    *)
(* operation and their place in its data.  The stream is connected when    *)
(* the model starts; once closed, it may be assigned another descriptor.   *)
(* A descriptor that is released instead stays with the script, which may  *)
(* assign it again, but is taken to leave its bytes alone meanwhile.       *)
(***************************************************************************)
EXTENDS Naturals, SequencesExt

CONSTANTS
    Reads,          \* operations started by read
    Writes,         \* operations started by write
    MaxLength,      \* bound on the length of a read or of written data
    MaxArrived,     \* bound on the bytes that arrive
    MaxAssigned     \* bound on the descriptors assigned

Ops == Reads \cup Writes
Directions == {"read", "write"}
Direction(o) == IF o \in Reads THEN "read" ELSE "write"

ASSUME StreamAssumption ==
    /\ IsFiniteSet(Ops)
    /\ Reads \cap Writes = {}
    /\ MaxLength \in Nat
    /\ MaxArrived \in Nat /\ MaxAssigned \in Nat

VARIABLES
    open,           \* the descriptor is open
    released,       \* it is not, but the script still has it
    peerGone,       \* the peer has closed its end
    arrived,        \* how many bytes have arrived
    inbox,          \* those of them that wait to be read
    sent,           \* the bytes written, each with its operation
    assigned,       \* how many descriptors have been assigned
    first,          \* the first byte of the present or next connection
    queue,          \* operations that wait for the descriptor
    phase,          \* how far each operation has come
    some,           \* read_some or write_some
    length,         \* the length of its buffer
    total,          \* how many bytes it has moved
    buffer,         \* the bytes in the buffer of a read
    ec,             \* whether its last step failed
    refcount,       \* references on the data of a write
    held,           \* whether the script holds one of them
    overlapped,     \* history: those that shared their direction with another
    straddled       \* history: those that went on with a descriptor assigned since

connection == <<assigned, first>>
io == <<open, released, peerGone, arrived, inbox, sent, connection>>
data == <<refcount, held>>
history == <<overlapped, straddled>>
vars == <<io, queue, phase, some, length, total, buffer, ec, data, history>>

TypeOK ==
    /\ open \in BOOLEAN /\ peerGone \in BOOLEAN
    /\ released \in BOOLEAN
    /\ arrived \in 0..MaxArrived
    /\ inbox \in Seq(1..MaxArrived)
    /\ sent \in Seq(Writes \X (1..MaxLength))
    /\ queue \in [Directions -> Seq(Ops)]
    /\ phase \in [Ops -> {"none", "waiting", "moved", "done"}]
    /\ some \in [Ops -> BOOLEAN]
    /\ length \in [Ops -> 0..MaxLength]
    /\ total \in [Ops -> 0..MaxLength]
    /\ buffer \in [Reads -> Seq(1..MaxArrived)]
    /\ ec \in [Ops -> {"ok", "failed"}]
    /\ refcount \in [Writes -> 0..2]
    /\ held \in [Writes -> BOOLEAN]
    /\ assigned \in 0..MaxAssigned /\ first \in 1..(MaxArrived + 1)
    /\ overlapped \in SUBSET Ops /\ straddled \in SUBSET Ops

Init ==
    /\ open = TRUE /\ peerGone = FALSE
    /\ released = FALSE
    /\ arrived = 0
    /\ inbox = <<>>
    /\ sent = <<>>
    /\ queue = [d \in Directions |-> <<>>]
    /\ phase = [o \in Ops |-> "none"]
    /\ some = [o \in Ops |-> FALSE]
    /\ length = [o \in Ops |-> 0]
    /\ total = [o \in Ops |-> 0]
    /\ buffer = [r \in Reads |-> <<>>]
    /\ ec = [o \in Ops |-> "ok"]
    /\ refcount = [w \in Writes |-> 1]
    /\ held = [w \in Writes |-> TRUE]
    /\ assigned = 0 /\ first = 1
    /\ overlapped = {} /\ straddled = {}

InFlight == {o \in Ops : phase[o] \in {"waiting", "moved"}}

-----------------------------------------------------------------------------
\* The outside world: bytes arrive, and the peer closes the connection.
Arrive ==
    /\ open \/ released
    /\ ~peerGone
    /\ arrived < MaxArrived
    /\ arrived' = arrived + 1
    /\ inbox' = Append(inbox, arrived + 1)
    /\ UNCHANGED <<open, released, peerGone, sent, connection, queue, phase, some, length,
                   total, buffer, ec, data, history>>

PeerLeaves ==
    /\ open \/ released
    /\ ~peerGone
    /\ peerGone' = TRUE
    /\ UNCHANGED <<open, released, arrived, inbox, sent, connection, queue, phase, some, length,
                   total, buffer, ec, data, history>>

\* The script drops a string that is being written, or gives its variable a
\* new value; before and after the write that changes nothing here.
LetGo(w) ==
    /\ w \in InFlight
    /\ held[w]
    /\ held' = [held EXCEPT ![w] = FALSE]
    /\ refcount' = [refcount EXCEPT ![w] = @ - 1]
    /\ UNCHANGED <<io, queue, phase, some, length, total, buffer, ec, history>>

-----------------------------------------------------------------------------
\* async_read_some, async_write_some of n bytes: one more step of o.
Step(o, n) ==
    \/ /\ open /\ n > 0
       /\ phase' = [phase EXCEPT ![o] = "waiting"]
       /\ queue' = [queue EXCEPT ![Direction(o)] = Append(@, o)]
       /\ ec' = [ec EXCEPT ![o] = "ok"]
    \/ /\ n = 0
       /\ phase' = [phase EXCEPT ![o] = "moved"]
       /\ ec' = [ec EXCEPT ![o] = "ok"]
       /\ UNCHANGED queue
    \/ /\ ~open /\ n > 0
       /\ phase' = [phase EXCEPT ![o] = "moved"]
       /\ ec' = [ec EXCEPT ![o] = "failed"]
       /\ UNCHANGED queue

\* o joins the operations in flight in its direction.
Joins(o) ==
    LET others == {p \in InFlight : Direction(p) = Direction(o)} IN
    /\ overlapped' = IF others = {} THEN overlapped ELSE overlapped \cup others \cup {o}
    /\ UNCHANGED straddled

\* Without a positive length read returns null and starts nothing.
Read(r, n, s) ==
    /\ phase[r] = "none"
    /\ n > 0
    /\ length' = [length EXCEPT ![r] = n]
    /\ some' = [some EXCEPT ![r] = s]
    /\ Step(r, n)
    /\ Joins(r)
    /\ UNCHANGED <<io, total, buffer, data>>

\* Faulty variant of Write: the data is not copied.
WriteUncopied(w, n, s) ==
    /\ phase[w] = "none"
    /\ held[w]
    /\ length' = [length EXCEPT ![w] = n]
    /\ some' = [some EXCEPT ![w] = s]
    /\ Step(w, n)
    /\ Joins(w)
    /\ UNCHANGED <<io, total, buffer, refcount, held>>

Write(w, n, s) ==
    /\ phase[w] = "none"
    /\ held[w]
    /\ length' = [length EXCEPT ![w] = n]
    /\ some' = [some EXCEPT ![w] = s]
    /\ refcount' = [refcount EXCEPT ![w] = @ + 1]
    /\ Step(w, n)
    /\ Joins(w)
    /\ UNCHANGED <<io, total, buffer, held>>

-----------------------------------------------------------------------------
\* A step that waits has ended with error e, having moved n bytes.
Moved(o, n, e) ==
    /\ phase' = [phase EXCEPT ![o] = "moved"]
    /\ ec' = [ec EXCEPT ![o] = e]
    /\ total' = [total EXCEPT ![o] = @ + n]
    /\ queue' = [queue EXCEPT ![Direction(o)] = Tail(@)]

\* The first read that waits takes the bytes that are there, or learns that
\* there will be none.
Receive(r) ==
    LET n == IF Len(inbox) < length[r] - total[r] THEN Len(inbox) ELSE length[r] - total[r] IN
    /\ queue["read"] # <<>> /\ r = Head(queue["read"])
    /\ n > 0
    /\ buffer' = [buffer EXCEPT ![r] = SubSeq(@, 1, total[r]) \o SubSeq(inbox, 1, n)]
    /\ inbox' = SubSeq(inbox, n + 1, Len(inbox))
    /\ Moved(r, n, "ok")
    /\ UNCHANGED <<open, released, peerGone, arrived, sent, connection, some, length, data,
                   history>>

ReceiveEnd(r) ==
    /\ queue["read"] # <<>> /\ r = Head(queue["read"])
    /\ inbox = <<>> /\ peerGone
    /\ Moved(r, 0, "failed")
    /\ UNCHANGED <<io, some, length, buffer, data, history>>

\* The first write that waits sends n bytes, or fails as the peer has gone.
Send(w, n) ==
    /\ queue["write"] # <<>> /\ w = Head(queue["write"])
    /\ n \in 1..(length[w] - total[w])
    /\ sent' = sent \o [i \in 1..n |-> <<w, total[w] + i>>]
    /\ Moved(w, n, "ok")
    /\ UNCHANGED <<open, released, peerGone, arrived, inbox, connection, some, length,
                   buffer, data, history>>

SendFails(w) ==
    /\ queue["write"] # <<>> /\ w = Head(queue["write"])
    /\ peerGone
    /\ Moved(w, 0, "failed")
    /\ UNCHANGED <<io, some, length, buffer, data, history>>

-----------------------------------------------------------------------------
\* The handler of a step: a composed operation goes on unless it failed or
\* has moved all bytes.
GoesOn(o) == ~some[o] /\ ec[o] = "ok" /\ total[o] < length[o]

\* Faulty variant of Continue: it starts again at the front of the buffer.
ContinueFromFront(o) ==
    /\ phase[o] = "moved"
    /\ GoesOn(o)
    /\ Step(o, length[o])
    /\ total' = [total EXCEPT ![o] = 0]
    /\ UNCHANGED <<io, some, length, buffer, data, history>>

Continue(o) ==
    /\ phase[o] = "moved"
    /\ GoesOn(o)
    /\ Step(o, length[o] - total[o])
    /\ UNCHANGED <<io, some, length, total, buffer, data, history>>

\* The operation is over, and what it knew is freed.
Forgotten(o) ==
    /\ phase' = [phase EXCEPT ![o] = "done"]
    /\ some' = [some EXCEPT ![o] = FALSE]
    /\ length' = [length EXCEPT ![o] = 0]
    /\ total' = [total EXCEPT ![o] = 0]
    /\ ec' = [ec EXCEPT ![o] = "ok"]

\* Faulty variant of ResolveRead: a read that failed has read nothing.
ResolveReadEmptyOnError(r) ==
    /\ phase[r] = "moved"
    /\ ~GoesOn(r)
    /\ buffer' = [buffer EXCEPT ![r] = IF ec[r] = "ok" THEN SubSeq(@, 1, total[r]) ELSE <<>>]
    /\ Forgotten(r)
    /\ UNCHANGED <<io, queue, data, history>>

\* read_handler: the buffer is cut to the bytes read and handed over.
ResolveRead(r) ==
    /\ phase[r] = "moved"
    /\ ~GoesOn(r)
    /\ buffer' = [buffer EXCEPT ![r] = SubSeq(@, 1, total[r])]
    /\ Forgotten(r)
    /\ UNCHANGED <<io, queue, data, history>>

\* Faulty variant of ResolveWrite: success is reported as soon as some bytes
\* are sent.
ResolveWriteEarly(w) ==
    /\ phase[w] = "moved"
    /\ refcount' = [refcount EXCEPT ![w] = @ - 1]
    /\ Forgotten(w)
    /\ UNCHANGED <<io, queue, buffer, held, history>>

\* write_handler: the data is released.
ResolveWrite(w) ==
    /\ phase[w] = "moved"
    /\ ~GoesOn(w)
    /\ refcount' = [refcount EXCEPT ![w] = @ - 1]
    /\ Forgotten(w)
    /\ UNCHANGED <<io, queue, buffer, held, history>>

-----------------------------------------------------------------------------
\* The operations that wait for the descriptor end; those between two steps,
\* and those that are through, do not wait for it.
AbortWaiting ==
    /\ phase' = [o \in Ops |-> IF phase[o] = "waiting" THEN "moved" ELSE phase[o]]
    /\ ec' = [o \in Ops |-> IF phase[o] = "waiting" THEN "failed" ELSE ec[o]]
    /\ queue' = [d \in Directions |-> <<>>]

Cancel ==
    /\ open
    /\ AbortWaiting
    /\ UNCHANGED <<io, some, length, total, buffer, data, history>>

\* Faulty variant of Close: the operations that wait are left alone.
CloseKeepsWaiting ==
    /\ open
    /\ open' = FALSE /\ peerGone' = FALSE
    /\ inbox' = <<>>
    /\ first' = arrived + 1
    /\ UNCHANGED <<released, arrived, sent, assigned, queue, phase, some, length, total,
                   buffer, ec, data, history>>

\* Nobody reads what is left of the connection.
Close ==
    /\ open
    /\ open' = FALSE /\ peerGone' = FALSE
    /\ inbox' = <<>>
    /\ first' = arrived + 1
    /\ AbortWaiting
    /\ UNCHANGED <<released, arrived, sent, assigned, some, length, total, buffer, data,
                   history>>

\* stream_descriptor::release: the descriptor is given up, not closed.
Release ==
    /\ open
    /\ open' = FALSE /\ released' = TRUE
    /\ AbortWaiting
    /\ UNCHANGED <<peerGone, arrived, inbox, sent, connection, some, length, total, buffer,
                   data, history>>

\* What assign can be called with: a number, or a PHP value of which
\* resource_to_fd takes the descriptor.  It refuses what is no stream, streams
\* in memory, and plain files.
Arguments == {"number", "stream", "php_std", "no_stream", "php_memory", "plain_file"}
ResourceToFd(argument) == argument \in {"stream", "php_std"}
HasDescriptor(argument) == argument = "number" \/ ResourceToFd(argument)

\* The stream adopts the descriptor it has released before, or that of another
\* connection.  Operations that were between two steps when it lost the old one
\* go on with this one.
Assign(argument) ==
    /\ ~open /\ assigned < MaxAssigned
    /\ HasDescriptor(argument)
    /\ open' = TRUE /\ released' = FALSE
    /\ assigned' = assigned + 1
    /\ straddled' = straddled \cup {o \in Ops : phase[o] = "moved" /\ GoesOn(o)}
    /\ \/ released /\ UNCHANGED <<peerGone, inbox, first>>
       \/ peerGone' = FALSE /\ inbox' = <<>> /\ first' = arrived + 1
    /\ UNCHANGED <<arrived, sent, queue, phase, some, length, total, buffer, ec, data,
                   overlapped>>

Next ==
    \/ Arrive
    \/ PeerLeaves
    \/ \E w \in Writes : LetGo(w)
    \/ \E r \in Reads, n \in 1..MaxLength, s \in BOOLEAN : Read(r, n, s)
    \/ \E w \in Writes, n \in 0..MaxLength, s \in BOOLEAN : Write(w, n, s)
    \/ \E r \in Reads : Receive(r) \/ ReceiveEnd(r)
    \/ \E w \in Writes, n \in 1..MaxLength : Send(w, n)
    \/ \E w \in Writes : SendFails(w)
    \/ \E o \in Ops : Continue(o)
    \/ \E r \in Reads : ResolveRead(r)
    \/ \E w \in Writes : ResolveWrite(w)
    \/ Cancel
    \/ Close
    \/ Release
    \/ \E argument \in Arguments : Assign(argument)

Spec == Init /\ [][Next]_vars

\* The loop keeps running and reaches every handler that is queued; whether
\* bytes arrive or can be sent is up to the peer.
FairSpec ==
    /\ Spec
    /\ \A o \in Ops : WF_vars(Continue(o))
    /\ \A r \in Reads : WF_vars(ResolveRead(r))
    /\ \A w \in Writes : WF_vars(ResolveWrite(w))

-----------------------------------------------------------------------------
\* What r has read so far, or handed over.
Got(r) == IF phase[r] = "done" THEN buffer[r] ELSE SubSeq(buffer[r], 1, total[r])

\* No byte of a connection is lost and none is handed over twice, whatever is
\* cut from the buffers, cancelled, closed or resolved with an error in between:
\* each byte that arrived is in the inbox or was read by one operation.  Only
\* closing drops what nobody has read of the connection; releasing its descriptor
\* does not, unless another is assigned in its place.
EachByteOnce ==
    \A b \in 1..arrived :
        LET readers == {r \in Reads : b \in Range(Got(r))} IN
        IF b \in Range(inbox) THEN readers = {}
        ELSE Cardinality(readers) \in (IF b < first THEN {0, 1} ELSE {1})

\* A read does not mix the bytes of two connections, unless it was between two
\* steps when the stream lost its descriptor and went on with one assigned since.
OneConnection ==
    \A r \in Reads \ straddled :
        \A b, c \in Range(Got(r)) : b < first <=> c < first

\* The length an operation is resolved with means what its caller takes it to
\* mean: read with read_some false and write go all the way unless they report
\* an error, read_some and write_some make some progress.
FullUnlessError ==
    [][\A o \in InFlight :
        phase'[o] = "done" /\ ec[o] = "ok" =>
            IF some[o] THEN length[o] > 0 => total[o] > 0 ELSE total[o] = length[o]]_vars

Consecutive(s) == \A i \in 1..(Len(s) - 1) : s[i + 1] = s[i] + 1
PlacesIn(w) == {i \in DOMAIN sent : sent[i][1] = w}

\* As long as it shares its direction with no other, an operation moves bytes
\* that are next to each other in the stream, in order, however many steps it
\* takes; with a second one in flight their steps may alternate, and those of one
\* that outlived its connection miss what was dropped.
AloneIsContiguous ==
    /\ \A r \in Reads \ (overlapped \cup straddled) : Consecutive(Got(r))
    /\ \A w \in Writes \ overlapped :
         \A i, j \in PlacesIn(w) : sent[j][2] - sent[i][2] = j - i

\* The data of a write in flight is neither freed nor changed under it,
\* whatever the script does with its string meanwhile: PHP frees a string with
\* its last reference, and changes it in place if a variable holds the only one.
WriteDataIntact ==
    \A w \in Writes \cap InFlight : refcount[w] > (IF held[w] THEN 1 ELSE 0)

\* A stream without descriptor lets go of its operations: those that wait, those
\* between two steps, and those started afterwards are all resolved.  Only one
\* that finds a descriptor assigned at its next step may wait again.
EndsAfterClose ==
    \A o \in Ops : o \in InFlight /\ ~open ~> (phase[o] = "done" \/ o \in straddled)
=============================================================================
