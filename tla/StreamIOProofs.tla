--------------------------- MODULE StreamIOProofs ---------------------------
(***************************************************************************)
(* The bytes of a stream are handed over once and in order, the data that  *)
(* is written stays, and an operation moves what it reports: for any       *)
(* number of operations, any bytes, and any order of steps.                *)
(***************************************************************************)
EXTENDS StreamIO, SequenceTheorems, FiniteSetTheorems, TLAPS

\* What waits is queued once, in its own direction, on an open descriptor.
QueueInv ==
    /\ \A d \in Directions : \A i \in 1..Len(queue[d]) :
         /\ phase[queue[d][i]] = "waiting" /\ Direction(queue[d][i]) = d
         /\ \A j \in 1..Len(queue[d]) : queue[d][i] = queue[d][j] => i = j
    /\ \A o \in Ops : phase[o] = "waiting" => open

\* An operation waits only for what it still has to move.
ProgressInv ==
    \A o \in Ops :
        /\ total[o] <= length[o]
        /\ phase[o] = "none" => total[o] = 0
        /\ phase[o] = "waiting" => total[o] < length[o]
        /\ phase[o] = "moved" /\ ec[o] = "ok" /\ some[o] /\ length[o] > 0 => total[o] > 0

\* A write in flight has a reference of its own.
ReferencesInv ==
    \A w \in Writes :
        refcount[w] = (IF held[w] THEN 1 ELSE 0) + (IF w \in InFlight THEN 1 ELSE 0)

\* Cutting a buffer to the bytes read changes nothing.
BufferInv == \A r \in Reads : phase[r] # "done" => Len(buffer[r]) = total[r]

\* How many bytes are no longer in the inbox.
Taken == arrived - Len(inbox)

\* The inbox holds the last bytes that arrived; each of those before them that is
\* of the present connection, and none twice, is in a buffer.
InboxIsLast ==
    /\ Len(inbox) <= arrived /\ first <= Taken + 1
    /\ \A i \in 1..Len(inbox) : inbox[i] = Taken + i
ReadAreTaken == \A r \in Reads : \A i \in 1..Len(buffer[r]) : buffer[r][i] <= Taken
ReadOnce ==
    \A r, q \in Reads :
        \A i \in 1..Len(buffer[r]), j \in 1..Len(buffer[q]) : buffer[r][i] = buffer[q][j] => r = q
TakenAreRead ==
    \A b \in first..Taken : \E r \in Reads : \E i \in 1..Len(buffer[r]) : buffer[r][i] = b

BytesInv == InboxIsLast /\ ReadAreTaken /\ ReadOnce /\ TakenAreRead

\* o may take another step.
Active(o) == phase[o] = "waiting" \/ (phase[o] = "moved" /\ GoesOn(o))

\* A read that may take another step has bytes of the present connection only.
ConnectionInv ==
    \A r \in Reads \ straddled :
        /\ \A i, j \in 1..Len(buffer[r]) : buffer[r][i] < first <=> buffer[r][j] < first
        /\ open /\ Active(r) => \A i \in 1..Len(buffer[r]) : buffer[r][i] >= first

OverlapInv == \A o, p \in InFlight : o # p /\ Direction(o) = Direction(p) => o \in overlapped

\* The next byte of the inbox is the one after the last that a lone read has.
ReadsInv ==
    \A r \in Reads \ (overlapped \cup straddled) :
        /\ Consecutive(buffer[r])
        /\ open /\ Active(r) /\ Len(buffer[r]) > 0 => buffer[r][Len(buffer[r])] = Taken

\* The last byte sent is the last that a lone write has sent, if any.
WritesInv ==
    /\ \A i \in 1..Len(sent) :
         phase[sent[i][1]] # "done" => sent[i][2] <= total[sent[i][1]]
    /\ \A w \in Writes \ overlapped : \A i \in 1..Len(sent) : sent[i][1] = w =>
         /\ \A j \in 1..Len(sent) : sent[j][1] = w => sent[j][2] - sent[i][2] = j - i
         /\ w \in InFlight => sent[Len(sent)] = <<w, total[w]>>

Base == TypeOK /\ QueueInv /\ ProgressInv

IInv ==
    /\ Base /\ ReferencesInv /\ OverlapInv
    /\ BufferInv /\ BytesInv /\ ConnectionInv /\ ReadsInv
    /\ WritesInv

-----------------------------------------------------------------------------
LEMMA InitIInv == Init => IInv
<1>1. SUFFICES ASSUME Init
               PROVE  IInv
  OBVIOUS
<1> USE <1>1, StreamAssumption DEF Init
<1>2. /\ inbox \in Seq(1..MaxArrived) /\ Len(inbox) = 0
      /\ sent \in Seq(Writes \X (1..MaxLength)) /\ Len(sent) = 0
      /\ \A d \in Directions : queue[d] \in Seq(Ops) /\ Len(queue[d]) = 0
      /\ \A r \in Reads : buffer[r] \in Seq(1..MaxArrived) /\ Len(buffer[r]) = 0
  BY EmptySeq
<1>3. TypeOK
  <2>1. 0 \in 0..MaxLength /\ 0 \in 0..MaxArrived /\ 0 \in 0..MaxAssigned
    OBVIOUS
  <2>2. 1 \in 1..(MaxArrived + 1) /\ 1 \in 0..2
    OBVIOUS
  <2>3. /\ queue \in [Directions -> Seq(Ops)]
        /\ buffer \in [Reads -> Seq(1..MaxArrived)]
    BY <1>2
  <2>4. QED
    BY <1>2, <2>1, <2>2, <2>3 DEF TypeOK
<1>4. QueueInv /\ ProgressInv
  BY <1>2 DEF QueueInv, ProgressInv
<1>5. ReferencesInv /\ OverlapInv
  BY DEF ReferencesInv, OverlapInv, InFlight, Ops
<1>6. BufferInv /\ BytesInv
  BY <1>2 DEF BufferInv, BytesInv, InboxIsLast, ReadAreTaken, ReadOnce, TakenAreRead, Taken, Ops
<1>7. ConnectionInv /\ ReadsInv /\ WritesInv
  BY <1>2 DEF ConnectionInv, ReadsInv, WritesInv, Consecutive
<1>8. QED
  BY <1>3, <1>4, <1>5, <1>6, <1>7 DEF IInv, Base

-----------------------------------------------------------------------------
(***************************************************************************)
(* The step of an operation that does not wait: it is queued at the end,   *)
(* or has its handler called at once.                                      *)
(***************************************************************************)
LEMMA StepKeepsQueue ==
    ASSUME TypeOK, QueueInv, NEW o \in Ops, NEW n \in 0..MaxLength, Step(o, n),
           phase[o] # "waiting", open' = open
    PROVE  /\ QueueInv'
           /\ phase' \in [Ops -> {"none", "waiting", "moved", "done"}]
           /\ queue' \in [Directions -> Seq(Ops)]
           /\ ec' \in [Ops -> {"ok", "failed"}]
<1> DEFINE d == Direction(o)
           q == Append(queue[d], o)
<1>1. d \in Directions
  BY DEF Direction, Directions
<1>2. CASE open /\ n > 0
  <2>1. /\ phase' = [phase EXCEPT ![o] = "waiting"]
        /\ queue' = [queue EXCEPT ![d] = q]
        /\ ec' = [ec EXCEPT ![o] = "ok"]
    BY <1>2, StreamAssumption DEF Step
  <2>2. /\ queue[d] \in Seq(Ops) /\ Len(queue[d]) \in Nat
        /\ q \in Seq(Ops) /\ Len(q) = Len(queue[d]) + 1
        /\ \A i \in 1..Len(queue[d]) : q[i] = queue[d][i]
        /\ q[Len(queue[d]) + 1] = o
    BY <1>1, AppendProperties, LenProperties DEF TypeOK
  <2> HIDE DEF q
  <2>3. /\ phase' \in [Ops -> {"none", "waiting", "moved", "done"}]
        /\ queue' \in [Directions -> Seq(Ops)]
        /\ ec' \in [Ops -> {"ok", "failed"}]
    BY <1>1, <2>1, <2>2 DEF TypeOK
  <2>4. \A i \in 1..Len(queue[d]) : queue[d][i] # o
    BY <1>1 DEF QueueInv
  <2>5. ASSUME NEW c \in Directions, NEW i \in 1..Len(queue'[c])
        PROVE  /\ phase'[queue'[c][i]] = "waiting" /\ Direction(queue'[c][i]) = c
               /\ \A j \in 1..Len(queue'[c]) : queue'[c][i] = queue'[c][j] => i = j
    <3>1. CASE c # d
      <4>1. queue'[c] = queue[c]
        BY <2>1, <3>1 DEF TypeOK
      <4>2. /\ phase[queue[c][i]] = "waiting" /\ queue[c][i] \in Ops
            /\ Direction(queue[c][i]) = c
            /\ \A j \in 1..Len(queue[c]) : queue[c][i] = queue[c][j] => i = j
        BY <2>5, <4>1, ElementOfSeq DEF TypeOK, QueueInv
      <4>3. phase'[queue[c][i]] = "waiting"
        BY <2>1, <4>2 DEF TypeOK
      <4>4. QED
        BY <4>1, <4>2, <4>3
    <3>2. CASE c = d
      <4>1. queue'[c] = q
        BY <1>1, <2>1, <3>2 DEF TypeOK
      <4>2. \A k \in 1..Len(queue[d]) :
              phase'[queue[d][k]] = "waiting" /\ Direction(queue[d][k]) = d
        <5>1. ASSUME NEW k \in 1..Len(queue[d])
              PROVE  /\ phase[queue[d][k]] = "waiting" /\ Direction(queue[d][k]) = d
                     /\ queue[d][k] \in Ops
          BY <1>1, <2>2, ElementOfSeq DEF QueueInv
        <5>2. QED
          BY <2>1, <5>1 DEF TypeOK
      <4>3. phase'[q[i]] = "waiting" /\ Direction(q[i]) = d
        <5>1. CASE i = Len(queue[d]) + 1
          BY <2>1, <2>2, <5>1 DEF TypeOK
        <5>2. CASE i # Len(queue[d]) + 1
          <6>1. i \in 1..Len(queue[d])
            BY <2>2, <2>5, <4>1, <5>2
          <6>2. QED
            BY <2>2, <4>2, <6>1
        <5>3. QED
          BY <5>1, <5>2
      <4>4. ASSUME NEW j \in 1..Len(q), q[i] = q[j]
            PROVE  i = j
        <5>1. \A k \in 1..Len(queue[d]) : q[k] # o /\ q[k] = queue[d][k]
          BY <2>2, <2>4
        <5>2. \A k, l \in 1..Len(queue[d]) : queue[d][k] = queue[d][l] => k = l
          BY <1>1 DEF QueueInv
        <5>3. i \in 1..Len(queue[d]) + 1 /\ j \in 1..Len(queue[d]) + 1
          BY <2>2, <2>5, <4>1, <4>4
        <5>4. QED
          BY <2>2, <4>4, <5>1, <5>2, <5>3
      <4>5. QED
        BY <3>2, <4>1, <4>3, <4>4
    <3>3. QED
      BY <3>1, <3>2
  <2>6. \A p \in Ops : phase'[p] = "waiting" => open'
    BY <1>2
  <2>7. QED
    BY <2>3, <2>5, <2>6 DEF QueueInv
<1>3. CASE ~(open /\ n > 0)
  <2>1. /\ phase' = [phase EXCEPT ![o] = "moved"]
        /\ queue' = queue
        /\ \E e \in {"ok", "failed"} : ec' = [ec EXCEPT ![o] = e]
    BY <1>3, StreamAssumption DEF Step
  <2>2. \A c \in Directions : \A i \in 1..Len(queue[c]) : queue[c][i] # o
    BY DEF QueueInv
  <2>3. \A c \in Directions : \A i \in 1..Len(queue[c]) : queue[c][i] \in Ops
    BY ElementOfSeq DEF TypeOK
  <2>4. \A c \in Directions : \A i \in 1..Len(queue[c]) :
          phase'[queue[c][i]] = phase[queue[c][i]]
    BY <2>1, <2>2, <2>3 DEF TypeOK
  <2>5. \A p \in Ops : phase'[p] = "waiting" => phase[p] = "waiting"
    BY <2>1 DEF TypeOK
  <2>6. QueueInv'
    BY <2>1, <2>4, <2>5 DEF QueueInv
  <2>7. QED
    BY <2>1, <2>6 DEF TypeOK
<1>4. QED
  BY <1>2, <1>3

(***************************************************************************)
(* A step that has waited leaves the front of its queue.                   *)
(***************************************************************************)
LEMMA MovedKeepsQueue ==
    ASSUME TypeOK, QueueInv, NEW o \in Ops, NEW n, NEW e \in {"ok", "failed"}, Moved(o, n, e),
           queue[Direction(o)] # <<>>, o = Head(queue[Direction(o)]), open' = open
    PROVE  /\ phase[o] = "waiting" /\ open
           /\ QueueInv'
           /\ phase' \in [Ops -> {"none", "waiting", "moved", "done"}]
           /\ queue' \in [Directions -> Seq(Ops)]
           /\ ec' \in [Ops -> {"ok", "failed"}]
<1> DEFINE d == Direction(o)
           q == Tail(queue[d])
<1>1. d \in Directions
  BY DEF Direction, Directions
<1>2. /\ queue[d] \in Seq(Ops) /\ Len(queue[d]) \in Nat \ {0}
      /\ q \in Seq(Ops) /\ Len(q) = Len(queue[d]) - 1
      /\ \A i \in 1..Len(q) : q[i] = queue[d][i + 1]
      /\ o = queue[d][1]
  BY <1>1, HeadTailProperties, LenProperties, EmptySeq DEF TypeOK
<1>3. /\ phase' = [phase EXCEPT ![o] = "moved"]
      /\ queue' = [queue EXCEPT ![d] = q]
      /\ ec' = [ec EXCEPT ![o] = e]
  BY DEF Moved
<1> HIDE DEF q
<1>4. 1 \in 1..Len(queue[d])
  BY <1>2
<1>5. phase[o] = "waiting" /\ open
  BY <1>1, <1>2, <1>4 DEF QueueInv
<1>6. /\ phase' \in [Ops -> {"none", "waiting", "moved", "done"}]
      /\ queue' \in [Directions -> Seq(Ops)]
      /\ ec' \in [Ops -> {"ok", "failed"}]
  BY <1>1, <1>2, <1>3 DEF TypeOK
<1>7. \A c \in Directions : \A i \in 1..Len(queue[c]) : queue[c][i] \in Ops
  BY ElementOfSeq DEF TypeOK
<1>8. ASSUME NEW c \in Directions, NEW i \in 1..Len(queue'[c])
      PROVE  /\ phase'[queue'[c][i]] = "waiting" /\ Direction(queue'[c][i]) = c
             /\ \A j \in 1..Len(queue'[c]) : queue'[c][i] = queue'[c][j] => i = j
  <2>1. CASE c # d
    <3>1. queue'[c] = queue[c]
      BY <1>3, <2>1 DEF TypeOK
    <3>2. queue[c][i] # o /\ queue[c][i] \in Ops
      BY <1>7, <1>8, <2>1, <3>1 DEF QueueInv
    <3>3. phase'[queue[c][i]] = phase[queue[c][i]]
      BY <1>3, <3>2 DEF TypeOK
    <3>4. /\ phase[queue[c][i]] = "waiting" /\ Direction(queue[c][i]) = c
          /\ \A j \in 1..Len(queue[c]) : queue[c][i] = queue[c][j] => i = j
      BY <1>8, <3>1 DEF QueueInv
    <3>5. QED
      BY <3>1, <3>3, <3>4, Zenon
  <2>2. CASE c = d
    <3>1. queue'[c] = q
      BY <1>1, <1>3, <2>2 DEF TypeOK
    <3>2. \A k \in 1..Len(q) : k + 1 \in 1..Len(queue[d]) /\ k + 1 # 1 /\ q[k] = queue[d][k + 1]
      <4>1. \A k \in 1..Len(q) : k + 1 \in 1..Len(queue[d]) /\ k + 1 # 1
        BY <1>2
      <4>2. QED
        BY <1>2, <4>1
    <3>3. q[i] # o /\ q[i] \in Ops /\ phase[q[i]] = "waiting" /\ Direction(q[i]) = d
      BY <1>1, <1>2, <1>4, <1>7, <1>8, <3>1, <3>2 DEF QueueInv
    <3>4. ASSUME NEW j \in 1..Len(q), q[i] = q[j]
          PROVE  i = j
      <4>1. i + 1 = j + 1
        BY <1>1, <1>8, <3>1, <3>2, <3>4 DEF QueueInv
      <4>2. QED
        BY <1>2, <1>8, <3>1, <4>1
    <3>5. QED
      BY <1>3, <2>2, <3>1, <3>3, <3>4 DEF TypeOK
  <2>3. QED
    BY <2>1, <2>2
<1>9. \A p \in Ops : phase'[p] = "waiting" => open'
  BY <1>5
<1>10. QED
  BY <1>5, <1>6, <1>8, <1>9 DEF QueueInv

(***************************************************************************)
(* The queues hold what they held, and what waits is the same.             *)
(***************************************************************************)
LEMMA SameWaiting ==
    ASSUME TypeOK, QueueInv, queue' = queue, open => open',
           \A o \in Ops : phase'[o] = "waiting" <=> phase[o] = "waiting"
    PROVE  QueueInv'
<1>1. \A d \in Directions : \A i \in 1..Len(queue[d]) : queue[d][i] \in Ops
  BY ElementOfSeq DEF TypeOK
<1>2. QED
  BY <1>1 DEF QueueInv

(***************************************************************************)
(* The bytes that a read receives are the first of the inbox, and go to    *)
(* the end of its buffer.                                                  *)
(***************************************************************************)
ReceivedBytes(r, n) ==
    /\ total[r] + n <= length[r]
    /\ Len(buffer[r]) = total[r]
    /\ buffer' = [buffer EXCEPT ![r] = buffer'[r]]
    /\ buffer'[r] \in Seq(1..MaxArrived) /\ Len(buffer'[r]) = total[r] + n
    /\ \A i \in 1..total[r] : buffer'[r][i] = buffer[r][i]
    /\ \A i \in 1..n : buffer'[r][total[r] + i] = inbox[i]
    /\ inbox' \in Seq(1..MaxArrived) /\ Len(inbox') = Len(inbox) - n
    /\ \A i \in 1..(Len(inbox) - n) : inbox'[i] = inbox[n + i]

LEMMA ReceiveTakesTheFirst ==
    ASSUME TypeOK, QueueInv, BufferInv, NEW r \in Reads, Receive(r)
    PROVE  /\ phase[r] = "waiting" /\ open
           /\ \E n \in 1..Len(inbox) : ReceivedBytes(r, n) /\ Moved(r, n, "ok")
<1> DEFINE n == IF Len(inbox) < length[r] - total[r] THEN Len(inbox) ELSE length[r] - total[r]
           old == SubSeq(buffer[r], 1, total[r])
           new == SubSeq(inbox, 1, n)
           rest == SubSeq(inbox, n + 1, Len(inbox))
<1>1. /\ r \in Ops /\ Direction(r) = "read" /\ open' = open
      /\ queue["read"] # <<>> /\ r = Head(queue["read"]) /\ n > 0
      /\ Moved(r, n, "ok")
      /\ buffer' = [buffer EXCEPT ![r] = old \o new]
      /\ inbox' = rest
  BY DEF Receive, Ops, Direction
<1>2. /\ Len(inbox) \in Nat /\ length[r] \in Nat /\ total[r] \in Nat
      /\ \A i \in 1..Len(inbox) : inbox[i] \in 1..MaxArrived
      /\ buffer[r] \in Seq(1..MaxArrived)
  <2>1. inbox \in Seq(1..MaxArrived) /\ buffer[r] \in Seq(1..MaxArrived)
    BY DEF TypeOK
  <2>2. length[r] \in 0..MaxLength /\ total[r] \in 0..MaxLength
    BY DEF TypeOK, Ops
  <2>3. QED
    BY <2>1, <2>2, LenProperties, ElementOfSeq, StreamAssumption
<1>3. n \in 1..Len(inbox) /\ total[r] + n <= length[r]
  <2>1. n > 0
    BY <1>1
  <2>2. CASE Len(inbox) < length[r] - total[r]
    BY <1>2, <2>1, <2>2
  <2>3. CASE ~(Len(inbox) < length[r] - total[r])
    BY <1>2, <2>1, <2>3
  <2>4. QED
    BY <2>2, <2>3
<1> HIDE DEF n
<1>4. phase[r] = "waiting" /\ open
  BY <1>1, MovedKeepsQueue
<1>5. Len(buffer[r]) = total[r] /\ old = buffer[r]
  BY <1>2, <1>4, SubSeqFull DEF BufferInv
<1>6. /\ new \in Seq(1..MaxArrived) /\ Len(new) = n
      /\ \A i \in 1..n : new[i] = inbox[i]
  <2>1. \A i \in 1..n : inbox[i] \in 1..MaxArrived
    BY <1>2, <1>3
  <2>2. /\ new \in Seq(1..MaxArrived)
        /\ Len(new) = IF 1 <= n THEN n - 1 + 1 ELSE 0
        /\ \A i \in 1..n - 1 + 1 : new[i] = inbox[1 + i - 1]
    BY <1>3, <2>1, SubSeqProperties
  <2>3. QED
    BY <1>2, <1>3, <2>2
<1>7. /\ rest \in Seq(1..MaxArrived) /\ Len(rest) = Len(inbox) - n
      /\ \A i \in 1..(Len(inbox) - n) : rest[i] = inbox[n + i]
  <2>1. \A i \in n + 1..Len(inbox) : inbox[i] \in 1..MaxArrived
    BY <1>2, <1>3
  <2>2. /\ rest \in Seq(1..MaxArrived)
        /\ Len(rest) = IF n + 1 <= Len(inbox) THEN Len(inbox) - (n + 1) + 1 ELSE 0
        /\ \A i \in 1..Len(inbox) - (n + 1) + 1 : rest[i] = inbox[n + 1 + i - 1]
    BY <1>2, <1>3, <2>1, SubSeqProperties
  <2>3. QED
    BY <1>2, <1>3, <2>2
<1> HIDE DEF new, rest, old
<1>8. /\ old \o new \in Seq(1..MaxArrived)
      /\ Len(old \o new) = total[r] + n
      /\ \A i \in 1..total[r] + n :
           (old \o new)[i] = IF i <= total[r] THEN buffer[r][i] ELSE new[i - total[r]]
  <2>1. old \in Seq(1..MaxArrived) /\ Len(old) = total[r]
    BY <1>2, <1>5
  <2>2. /\ old \o new \in Seq(1..MaxArrived)
        /\ Len(old \o new) = Len(old) + Len(new)
        /\ \A i \in 1..Len(old) + Len(new) :
             (old \o new)[i] = IF i <= Len(old) THEN old[i] ELSE new[i - Len(old)]
    BY <1>6, <2>1, ConcatProperties
  <2>3. QED
    BY <1>5, <1>6, <2>1, <2>2
<1>9. buffer'[r] = old \o new
  BY <1>1 DEF TypeOK
<1>10. \A i \in 1..n : (old \o new)[total[r] + i] = inbox[i]
  <2> SUFFICES ASSUME NEW i \in 1..n
               PROVE  (old \o new)[total[r] + i] = inbox[i]
    OBVIOUS
  <2>1. /\ total[r] + i \in 1..total[r] + n /\ ~(total[r] + i <= total[r])
        /\ (total[r] + i) - total[r] = i
    BY <1>2, <1>3
  <2>2. (old \o new)[total[r] + i] = new[(total[r] + i) - total[r]]
    BY <1>8, <2>1
  <2>3. QED
    BY <1>6, <2>1, <2>2
<1>11. \A i \in 1..total[r] : (old \o new)[i] = buffer[r][i]
  BY <1>2, <1>3, <1>8
<1>12. ReceivedBytes(r, n)
  BY <1>1, <1>3, <1>5, <1>7, <1>8, <1>9, <1>10, <1>11 DEF ReceivedBytes
<1>13. QED
  BY <1>1, <1>3, <1>4, <1>12

(***************************************************************************)
(* The bytes that a write sends are the next of its data.                  *)
(***************************************************************************)
SentBytes(w, n) ==
    /\ total[w] + n <= length[w]
    /\ sent' \in Seq(Writes \X (1..MaxLength)) /\ Len(sent') = Len(sent) + n
    /\ \A i \in 1..Len(sent) : sent'[i] = sent[i]
    /\ \A i \in 1..n : sent'[Len(sent) + i] = <<w, total[w] + i>>

LEMMA SendAppendsTheNext ==
    ASSUME TypeOK, QueueInv, NEW w \in Writes, NEW n \in 1..MaxLength, Send(w, n)
    PROVE  phase[w] = "waiting" /\ open /\ SentBytes(w, n)
<1> DEFINE new == [i \in 1..n |-> <<w, total[w] + i>>]
           S == Writes \X (1..MaxLength)
<1>1. /\ w \in Ops /\ Direction(w) = "write" /\ open' = open
      /\ queue["write"] # <<>> /\ w = Head(queue["write"])
      /\ Moved(w, n, "ok")
      /\ sent' = sent \o new /\ n \in 1..(length[w] - total[w])
  BY StreamAssumption DEF Send, Ops, Direction
<1>2. phase[w] = "waiting" /\ open
  BY <1>1, MovedKeepsQueue
<1>3. length[w] \in 0..MaxLength /\ total[w] \in Nat /\ n \in Nat /\ total[w] + n <= length[w]
  BY <1>1, StreamAssumption DEF TypeOK
<1>4. /\ new \in Seq(S) /\ Len(new) = n
      /\ \A i \in 1..n : new[i] = <<w, total[w] + i>>
  <2>1. \A i \in 1..n : <<w, total[w] + i>> \in S
    BY <1>3, StreamAssumption
  <2>2. new \in [1..n -> S]
    BY <2>1
  <2>3. QED
    BY <1>3, <2>2, SeqDef, LenProperties
<1> HIDE DEF new
<1>5. /\ sent \in Seq(S) /\ Len(sent) \in Nat
      /\ sent \o new \in Seq(S) /\ Len(sent \o new) = Len(sent) + n
      /\ \A i \in 1..Len(sent) + n :
           (sent \o new)[i] = IF i <= Len(sent) THEN sent[i] ELSE new[i - Len(sent)]
  <2>1. sent \in Seq(S) /\ Len(sent) \in Nat
    BY LenProperties DEF TypeOK
  <2> HIDE DEF S
  <2>2. QED
    BY <1>4, <2>1, ConcatProperties
<1>6. \A i \in 1..Len(sent) : (sent \o new)[i] = sent[i]
  BY <1>3, <1>5
<1>7. \A i \in 1..n : (sent \o new)[Len(sent) + i] = <<w, total[w] + i>>
  <2>1. \A i \in 1..n : /\ Len(sent) + i \in 1..Len(sent) + n /\ ~(Len(sent) + i <= Len(sent))
                        /\ Len(sent) + i - Len(sent) = i
    BY <1>3, <1>5
  <2>2. \A i \in 1..n : (sent \o new)[Len(sent) + i] = new[i]
    BY <1>5, <2>1
  <2>3. QED
    BY <1>4, <2>2
<1>8. QED
  BY <1>1, <1>2, <1>3, <1>5, <1>6, <1>7 DEF SentBytes

-----------------------------------------------------------------------------
(***************************************************************************)
(* Types, queues and lengths, action by action.                            *)
(***************************************************************************)
LEMMA OutsideKeepsBase ==
    ASSUME IInv, Arrive \/ PeerLeaves \/ (\E w \in Writes : LetGo(w))
    PROVE  Base'
<1> USE StreamAssumption DEF IInv, Base
<1>1. UNCHANGED <<open, released, sent, connection, queue, phase, some, length, total, buffer,
                  ec, history>>
  BY DEF Arrive, PeerLeaves, LetGo, io
<1>2. QueueInv'
  BY <1>1, SameWaiting
<1>3. ProgressInv'
  BY <1>1 DEF ProgressInv
<1>4. CASE Arrive
  <2>1. arrived + 1 \in 1..MaxArrived /\ arrived + 1 \in 0..MaxArrived
    BY <1>4 DEF Arrive, TypeOK
  <2>2. inbox' \in Seq(1..MaxArrived)
    BY <1>4, <2>1, AppendProperties DEF Arrive, TypeOK
  <2>3. TypeOK'
    BY <1>1, <1>4, <2>1, <2>2 DEF Arrive, TypeOK, connection, data, history
  <2>4. QED
    BY <1>2, <1>3, <2>3
<1>5. CASE PeerLeaves
  <2>1. TypeOK'
    BY <1>1, <1>5 DEF PeerLeaves, TypeOK, connection, data, history
  <2>2. QED
    BY <1>2, <1>3, <2>1
<1>6. ASSUME NEW w \in Writes, LetGo(w)
      PROVE  Base'
  <2>1. refcount[w] = 2
    BY <1>6 DEF LetGo, ReferencesInv
  <2>2. refcount' \in [Writes -> 0..2] /\ held' \in [Writes -> BOOLEAN]
    BY <1>6, <2>1 DEF LetGo, TypeOK
  <2>3. TypeOK'
    BY <1>1, <1>6, <2>2 DEF LetGo, TypeOK, io, connection, history
  <2>4. QED
    BY <1>2, <1>3, <2>3
<1>7. QED
  BY <1>4, <1>5, <1>6

(***************************************************************************)
(* A step, the first or another one, of an operation that has n bytes left.*)
(***************************************************************************)
LEMMA StepKeepsProgress ==
    ASSUME TypeOK, ProgressInv, NEW o \in Ops, NEW n \in Nat, Step(o, n),
           total' = total, total[o] + n = length'[o], length'[o] \in 0..MaxLength,
           length' = [length EXCEPT ![o] = length'[o]],
           \A p \in Ops \ {o} : some'[p] = some[p], n = 0 => length'[o] = 0
    PROVE  ProgressInv'
<1> USE StreamAssumption
<1>1. /\ \E f \in {"waiting", "moved"} : phase' = [phase EXCEPT ![o] = f]
      /\ \E e \in {"ok", "failed"} : ec' = [ec EXCEPT ![o] = e]
      /\ phase'[o] = "waiting" => n > 0
      /\ phase'[o] = "moved" /\ ec'[o] = "ok" => n = 0
  BY DEF Step, TypeOK
<1>2. \A p \in Ops \ {o} :
        /\ phase'[p] = phase[p] /\ ec'[p] = ec[p]
        /\ length'[p] = length[p] /\ some'[p] = some[p]
  BY <1>1 DEF TypeOK
<1>3. /\ total[o] <= length'[o]
      /\ phase'[o] # "none"
      /\ phase'[o] = "waiting" => total[o] < length'[o]
      /\ ~(phase'[o] = "moved" /\ ec'[o] = "ok" /\ length'[o] > 0)
  <2>1. total[o] \in Nat /\ length'[o] \in Nat
    BY DEF TypeOK
  <2>2. phase'[o] \in {"waiting", "moved"}
    BY <1>1 DEF TypeOK
  <2>3. QED
    BY <1>1, <2>1, <2>2
<1>4. QED
  BY <1>2, <1>3 DEF ProgressInv

LEMMA StartKeepsBase ==
    ASSUME IInv, NEW o \in Ops, NEW n \in 0..MaxLength, NEW s \in BOOLEAN,
           (o \in Reads /\ Read(o, n, s)) \/ (o \in Writes /\ Write(o, n, s))
    PROVE  Base'
<1> USE StreamAssumption DEF IInv, Base
<1>1. /\ phase[o] = "none" /\ Step(o, n) /\ Joins(o)
      /\ length' = [length EXCEPT ![o] = n]
      /\ some' = [some EXCEPT ![o] = s]
      /\ UNCHANGED <<open, released, peerGone, arrived, inbox, sent, assigned, first, total, buffer,
                     held>>
  BY DEF Read, Write, io, connection, data
<1>2. refcount' \in [Writes -> 0..2]
  <2>1. CASE o \in Reads /\ Read(o, n, s)
    BY <2>1 DEF Read, data, TypeOK
  <2>2. CASE o \in Writes /\ Write(o, n, s)
    <3>1. refcount[o] = 1
      BY <2>2 DEF Write, ReferencesInv, InFlight
    <3>2. refcount' = [refcount EXCEPT ![o] = 2]
      BY <2>2, <3>1 DEF Write
    <3>3. 2 \in 0..2
      OBVIOUS
    <3>4. QED
      BY <3>2, <3>3 DEF TypeOK
  <2>3. QED
    BY <2>1, <2>2
<1>3. /\ QueueInv'
      /\ phase' \in [Ops -> {"none", "waiting", "moved", "done"}]
      /\ queue' \in [Directions -> Seq(Ops)]
      /\ ec' \in [Ops -> {"ok", "failed"}]
  BY <1>1, StepKeepsQueue
<1>4. length' \in [Ops -> 0..MaxLength] /\ some' \in [Ops -> BOOLEAN]
  BY <1>1 DEF TypeOK
<1>5. overlapped' \in SUBSET Ops /\ straddled' \in SUBSET Ops
  BY <1>1 DEF Joins, InFlight, TypeOK
<1>6. TypeOK'
  BY <1>1, <1>2, <1>3, <1>4, <1>5 DEF TypeOK
<1>7. ProgressInv'
  <2>1. length'[o] = n /\ total[o] = 0
    BY <1>1 DEF TypeOK, ProgressInv
  <2>2. \A p \in Ops \ {o} : some'[p] = some[p]
    BY <1>1 DEF TypeOK
  <2>3. total' = total /\ length' = [length EXCEPT ![o] = length'[o]] /\ Step(o, n)
    BY <1>1, <2>1
  <2>4. n \in Nat /\ total[o] + n = length'[o]
    BY <2>1
  <2>5. QED
    BY <2>1, <2>2, <2>3, <2>4, StepKeepsProgress
<1>8. QED
  BY <1>3, <1>6, <1>7

LEMMA ContinueKeepsBase ==
    ASSUME IInv, NEW o \in Ops, Continue(o)
    PROVE  Base'
<1> USE StreamAssumption DEF IInv, Base
<1> DEFINE n == length[o] - total[o]
<1>1. /\ phase[o] = "moved" /\ total[o] < length[o] /\ Step(o, n)
      /\ UNCHANGED <<open, released, peerGone, arrived, inbox, sent, assigned, first, some, length,
                     total, buffer, refcount, held, overlapped, straddled>>
  BY DEF Continue, GoesOn, io, connection, data, history
<1>2. length[o] \in 0..MaxLength /\ total[o] \in 0..MaxLength
  BY DEF TypeOK
<1>3. n \in 1..MaxLength /\ total[o] + n = length[o]
  BY <1>1, <1>2
<1> HIDE DEF n
<1>4. /\ QueueInv'
      /\ phase' \in [Ops -> {"none", "waiting", "moved", "done"}]
      /\ queue' \in [Directions -> Seq(Ops)]
      /\ ec' \in [Ops -> {"ok", "failed"}]
  BY <1>1, <1>3, StepKeepsQueue
<1>5. TypeOK'
  BY <1>1, <1>4 DEF TypeOK
<1>6. length' = [length EXCEPT ![o] = length'[o]] /\ length'[o] = length[o]
  BY <1>1 DEF TypeOK
<1>7. ProgressInv'
  BY <1>1, <1>2, <1>3, <1>6, StepKeepsProgress
<1>8. QED
  BY <1>4, <1>5, <1>7

(***************************************************************************)
(* A step moves at most what is left, and some bytes unless it fails.      *)
(***************************************************************************)
LEMMA MovedKeepsProgress ==
    ASSUME TypeOK, ProgressInv, NEW o \in Ops, NEW n \in Nat, NEW e \in {"ok", "failed"},
           Moved(o, n, e), total[o] + n <= length[o], e = "ok" => n > 0,
           UNCHANGED <<some, length>>
    PROVE  ProgressInv' /\ total' \in [Ops -> 0..MaxLength]
<1> USE StreamAssumption
<1>1. /\ phase' = [phase EXCEPT ![o] = "moved"]
      /\ ec' = [ec EXCEPT ![o] = e]
      /\ total' = [total EXCEPT ![o] = total[o] + n]
  BY DEF Moved
<1>2. length[o] \in 0..MaxLength /\ total[o] \in 0..MaxLength
  BY DEF TypeOK
<1>3. total[o] + n \in 0..MaxLength
  BY <1>2
<1>4. total' \in [Ops -> 0..MaxLength]
  BY <1>1, <1>3 DEF TypeOK
<1>5. \A p \in Ops \ {o} : phase'[p] = phase[p] /\ ec'[p] = ec[p] /\ total'[p] = total[p]
  BY <1>1 DEF TypeOK
<1>6. phase'[o] = "moved" /\ ec'[o] = e /\ total'[o] = total[o] + n
  BY <1>1 DEF TypeOK
<1>7. e = "ok" => total'[o] > 0
  BY <1>2, <1>6
<1>8. QED
  BY <1>4, <1>5, <1>6, <1>7 DEF ProgressInv

LEMMA ReceiveKeepsBase ==
    ASSUME IInv, NEW r \in Reads, Receive(r)
    PROVE  Base'
<1> USE StreamAssumption DEF IInv, Base
<1>1. /\ r \in Ops /\ Direction(r) = "read"
      /\ queue["read"] # <<>> /\ r = Head(queue["read"])
      /\ UNCHANGED <<open, released, peerGone, arrived, sent, assigned, first, some, length,
                     refcount, held, overlapped, straddled>>
  BY DEF Receive, Ops, Direction, connection, data, history
<1>2. PICK n \in 1..Len(inbox) : ReceivedBytes(r, n) /\ Moved(r, n, "ok")
  BY ReceiveTakesTheFirst
<1>3. /\ QueueInv'
      /\ phase' \in [Ops -> {"none", "waiting", "moved", "done"}]
      /\ queue' \in [Directions -> Seq(Ops)]
      /\ ec' \in [Ops -> {"ok", "failed"}]
  BY <1>1, <1>2, MovedKeepsQueue
<1>4. ProgressInv' /\ total' \in [Ops -> 0..MaxLength]
  <2>1. n \in Nat /\ n > 0 /\ total[r] + n <= length[r]
    BY <1>2 DEF ReceivedBytes
  <2>2. QED
    BY <1>1, <1>2, <2>1, MovedKeepsProgress
<1>5. inbox' \in Seq(1..MaxArrived) /\ buffer' \in [Reads -> Seq(1..MaxArrived)]
  BY <1>2 DEF ReceivedBytes, TypeOK
<1>6. TypeOK'
  BY <1>1, <1>3, <1>4, <1>5 DEF TypeOK
<1>7. QED
  BY <1>3, <1>4, <1>6

LEMMA SendKeepsBase ==
    ASSUME IInv, NEW w \in Writes, NEW n \in 1..MaxLength, Send(w, n)
    PROVE  Base'
<1> USE StreamAssumption DEF IInv, Base
<1>1. /\ w \in Ops /\ Direction(w) = "write"
      /\ queue["write"] # <<>> /\ w = Head(queue["write"])
      /\ Moved(w, n, "ok")
      /\ UNCHANGED <<open, released, peerGone, arrived, inbox, assigned, first, some, length,
                     buffer, refcount, held, overlapped, straddled>>
  BY DEF Send, Ops, Direction, connection, data, history
<1>2. SentBytes(w, n)
  BY SendAppendsTheNext
<1>3. /\ QueueInv'
      /\ phase' \in [Ops -> {"none", "waiting", "moved", "done"}]
      /\ queue' \in [Directions -> Seq(Ops)]
      /\ ec' \in [Ops -> {"ok", "failed"}]
  BY <1>1, MovedKeepsQueue
<1>4. ProgressInv' /\ total' \in [Ops -> 0..MaxLength]
  <2>1. n \in Nat /\ n > 0 /\ total[w] + n <= length[w]
    BY <1>2 DEF SentBytes
  <2>2. QED
    BY <1>1, <2>1, MovedKeepsProgress
<1>5. TypeOK'
  BY <1>1, <1>2, <1>3, <1>4 DEF TypeOK, SentBytes
<1>6. QED
  BY <1>3, <1>4, <1>5

LEMMA FailingKeepsBase ==
    ASSUME IInv, NEW o \in Ops,
           (o \in Reads /\ ReceiveEnd(o)) \/ (o \in Writes /\ SendFails(o))
    PROVE  Base'
<1> USE StreamAssumption DEF IInv, Base
<1>1. /\ queue[Direction(o)] # <<>> /\ o = Head(queue[Direction(o)])
      /\ Moved(o, 0, "failed")
      /\ UNCHANGED <<open, released, peerGone, arrived, inbox, sent, assigned, first, some, length,
                     buffer, refcount, held, overlapped, straddled>>
  BY DEF ReceiveEnd, SendFails, Ops, Direction, io, connection, data, history
<1>2. /\ QueueInv'
      /\ phase' \in [Ops -> {"none", "waiting", "moved", "done"}]
      /\ queue' \in [Directions -> Seq(Ops)]
      /\ ec' \in [Ops -> {"ok", "failed"}]
  BY <1>1, MovedKeepsQueue
<1>3. ProgressInv' /\ total' \in [Ops -> 0..MaxLength]
  <2>1. total[o] + 0 <= length[o]
    BY DEF TypeOK, ProgressInv
  <2>2. QED
    BY <1>1, <2>1, MovedKeepsProgress
<1>4. TypeOK'
  BY <1>1, <1>2, <1>3 DEF TypeOK
<1>5. QED
  BY <1>2, <1>3, <1>4

LEMMA ResolveKeepsBase ==
    ASSUME IInv, NEW o \in Ops,
           (o \in Reads /\ ResolveRead(o)) \/ (o \in Writes /\ ResolveWrite(o))
    PROVE  Base' /\ UNCHANGED <<buffer, io>>
<1> USE StreamAssumption DEF IInv, Base
<1>1. phase[o] = "moved" /\ Forgotten(o) /\ UNCHANGED <<io, queue, history>>
  BY DEF ResolveRead, ResolveWrite
<1>2. buffer' = buffer
  <2>1. CASE o \in Reads /\ ResolveRead(o)
    <3>1. Len(buffer[o]) = total[o] /\ buffer[o] \in Seq(1..MaxArrived)
      BY <1>1, <2>1 DEF BufferInv, TypeOK
    <3>2. SubSeq(buffer[o], 1, total[o]) = buffer[o]
      BY <3>1, SubSeqFull
    <3>3. buffer' = [buffer EXCEPT ![o] = buffer[o]]
      BY <2>1, <3>2 DEF ResolveRead
    <3>4. QED
      BY <3>3 DEF TypeOK
  <2>2. CASE o \in Writes /\ ResolveWrite(o)
    BY <2>2 DEF ResolveWrite
  <2>3. QED
    BY <2>1, <2>2
<1>3. refcount' \in [Writes -> 0..2] /\ held' = held
  <2>1. CASE o \in Reads /\ ResolveRead(o)
    BY <2>1 DEF ResolveRead, data, TypeOK
  <2>2. CASE o \in Writes /\ ResolveWrite(o)
    <3>1. refcount[o] \in 1..2
      BY <2>2 DEF ResolveWrite, ReferencesInv, InFlight, Ops
    <3>2. refcount[o] - 1 \in 0..2
      BY <3>1
    <3>3. QED
      BY <2>2, <3>2 DEF ResolveWrite, TypeOK
  <2>3. QED
    BY <2>1, <2>2
<1>4. QueueInv'
  <2>1. \A p \in Ops : phase'[p] = "waiting" <=> phase[p] = "waiting"
    BY <1>1 DEF Forgotten, TypeOK
  <2>2. QED
    BY <1>1, <2>1, SameWaiting DEF io
<1>5. 0 \in 0..MaxLength
  OBVIOUS
<1>6. /\ phase' \in [Ops -> {"none", "waiting", "moved", "done"}]
      /\ some' \in [Ops -> BOOLEAN] /\ length' \in [Ops -> 0..MaxLength]
      /\ total' \in [Ops -> 0..MaxLength] /\ ec' \in [Ops -> {"ok", "failed"}]
  BY <1>1, <1>5 DEF Forgotten, TypeOK
<1>7. TypeOK'
  BY <1>1, <1>2, <1>3, <1>6 DEF TypeOK, io, connection, history
<1>8. ProgressInv'
  <2>1. \A p \in Ops \ {o} :
          /\ phase'[p] = phase[p] /\ some'[p] = some[p] /\ length'[p] = length[p]
          /\ total'[p] = total[p] /\ ec'[p] = ec[p]
    BY <1>1 DEF Forgotten, TypeOK
  <2>2. phase'[o] = "done" /\ total'[o] = 0 /\ length'[o] = 0
    BY <1>1 DEF Forgotten, TypeOK
  <2>3. QED
    BY <2>1, <2>2 DEF ProgressInv
<1>9. QED
  BY <1>1, <1>2, <1>4, <1>7, <1>8

LEMMA AbortKeepsBase ==
    ASSUME IInv, Cancel \/ Close \/ Release
    PROVE  Base'
<1> USE StreamAssumption DEF IInv, Base
<1>1. /\ AbortWaiting
      /\ UNCHANGED <<arrived, sent, assigned, some, length, total, buffer, refcount, held,
                     overlapped, straddled>>
  BY DEF Cancel, Close, Release, io, connection, data, history
<1>2. /\ open' \in BOOLEAN /\ released' \in BOOLEAN /\ peerGone' \in BOOLEAN
      /\ inbox' \in Seq(1..MaxArrived) /\ first' \in 1..(MaxArrived + 1)
  <2>1. CASE Cancel \/ Release
    BY <2>1 DEF Cancel, Release, io, connection, TypeOK
  <2>2. CASE Close
    <3>1. <<>> \in Seq(1..MaxArrived)
      BY EmptySeq
    <3>2. arrived + 1 \in 1..(MaxArrived + 1)
      BY DEF TypeOK
    <3>3. QED
      BY <2>2, <3>1, <3>2 DEF Close, TypeOK
  <2>3. QED
    BY <2>1, <2>2
<1>3. /\ phase' \in [Ops -> {"none", "waiting", "moved", "done"}]
      /\ ec' \in [Ops -> {"ok", "failed"}]
  BY <1>1 DEF AbortWaiting, TypeOK
<1>4. /\ queue' \in [Directions -> Seq(Ops)]
      /\ \A d \in Directions : Len(queue'[d]) = 0
  <2>1. <<>> \in Seq(Ops) /\ Len(<<>>) = 0
    BY EmptySeq
  <2>2. QED
    BY <1>1, <2>1 DEF AbortWaiting
<1>5. TypeOK'
  BY <1>1, <1>2, <1>3, <1>4 DEF TypeOK
<1>6. QueueInv'
  <2>1. \A p \in Ops : phase'[p] # "waiting"
    BY <1>1 DEF AbortWaiting
  <2>2. QED
    BY <1>4, <2>1 DEF QueueInv
<1>7. ProgressInv'
  <2>1. \A p \in Ops :
          \/ phase[p] = "waiting" /\ phase'[p] = "moved" /\ ec'[p] = "failed"
          \/ phase[p] # "waiting" /\ phase'[p] = phase[p] /\ ec'[p] = ec[p]
    BY <1>1 DEF AbortWaiting
  <2>2. QED
    BY <1>1, <2>1 DEF ProgressInv
<1>8. QED
  BY <1>5, <1>6, <1>7

LEMMA AssignKeepsBase ==
    ASSUME IInv, NEW argument, Assign(argument)
    PROVE  Base'
<1> USE StreamAssumption DEF IInv, Base
<1>1. /\ open' = TRUE /\ released' = FALSE
      /\ assigned' = assigned + 1 /\ assigned < MaxAssigned
      /\ straddled' = straddled \cup {o \in Ops : phase[o] = "moved" /\ GoesOn(o)}
      /\ UNCHANGED <<arrived, sent, queue, phase, some, length, total, buffer, ec, refcount, held,
                     overlapped>>
  BY DEF Assign, data
<1>2. /\ assigned' \in 0..MaxAssigned /\ straddled' \in SUBSET Ops
      /\ peerGone' \in BOOLEAN /\ inbox' \in Seq(1..MaxArrived) /\ first' \in 1..(MaxArrived + 1)
  <2>1. assigned' \in 0..MaxAssigned /\ straddled' \in SUBSET Ops
    BY <1>1 DEF TypeOK
  <2>2. <<>> \in Seq(1..MaxArrived) /\ arrived + 1 \in 1..(MaxArrived + 1)
    BY EmptySeq DEF TypeOK
  <2>3. QED
    BY <2>1, <2>2 DEF Assign, TypeOK
<1>3. TypeOK'
  BY <1>1, <1>2 DEF TypeOK
<1>4. QueueInv'
  BY <1>1, SameWaiting
<1>5. ProgressInv'
  BY <1>1 DEF ProgressInv
<1>6. QED
  BY <1>3, <1>4, <1>5

LEMMA NextKeepsBase ==
    ASSUME IInv, Next
    PROVE  Base'
<1>1. CASE Arrive \/ PeerLeaves \/ (\E w \in Writes : LetGo(w))
  BY <1>1, OutsideKeepsBase
<1>2. CASE \E r \in Reads, n \in 1..MaxLength, s \in BOOLEAN : Read(r, n, s)
  BY <1>2, StartKeepsBase, StreamAssumption DEF Ops
<1>3. CASE \E w \in Writes, n \in 0..MaxLength, s \in BOOLEAN : Write(w, n, s)
  BY <1>3, StartKeepsBase DEF Ops
<1>4. CASE \E r \in Reads : Receive(r)
  BY <1>4, ReceiveKeepsBase
<1>5. CASE \E w \in Writes, n \in 1..MaxLength : Send(w, n)
  BY <1>5, SendKeepsBase
<1>6. CASE (\E r \in Reads : ReceiveEnd(r)) \/ (\E w \in Writes : SendFails(w))
  BY <1>6, FailingKeepsBase DEF Ops
<1>7. CASE \E o \in Ops : Continue(o)
  BY <1>7, ContinueKeepsBase
<1>8. CASE (\E r \in Reads : ResolveRead(r)) \/ (\E w \in Writes : ResolveWrite(w))
  BY <1>8, ResolveKeepsBase DEF Ops
<1>9. CASE Cancel \/ Close \/ Release
  BY <1>9, AbortKeepsBase
<1>10. CASE \E argument \in Arguments : Assign(argument)
  BY <1>10, AssignKeepsBase
<1>11. QED
  BY <1>1, <1>2, <1>3, <1>4, <1>5, <1>6, <1>7, <1>8, <1>9, <1>10 DEF Next

-----------------------------------------------------------------------------
(***************************************************************************)
(* How operations come and go: one is in flight from its start to its end, *)
(* a lone one may take another step on the same connection only, and those *)
(* in flight together know of each other.                                  *)
(***************************************************************************)
Advance ==
    /\ overlapped \subseteq overlapped' /\ straddled \subseteq straddled'
    /\ \A o \in Ops :
         /\ phase[o] = "done" => phase'[o] = "done"
         /\ o \in InFlight' => o \in InFlight \/ phase[o] = "none"
         /\ open' /\ Active(o)' /\ o \notin straddled' => phase[o] = "none" \/ (open /\ Active(o))

LEMMA SamePhasesAdvance ==
    ASSUME OverlapInv, UNCHANGED <<open, phase, some, length, total, ec, history>>
    PROVE  Advance /\ OverlapInv'
  BY DEF Advance, OverlapInv, InFlight, Active, GoesOn, history

LEMMA StartAdvances ==
    ASSUME IInv, NEW o \in Ops, NEW n \in 0..MaxLength, NEW s \in BOOLEAN,
           (o \in Reads /\ Read(o, n, s)) \/ (o \in Writes /\ Write(o, n, s))
    PROVE  Advance /\ OverlapInv' /\ InFlight' = InFlight \cup {o} /\ phase[o] = "none"
<1> USE DEF IInv, Base
<1>1. /\ phase[o] = "none" /\ Step(o, n) /\ Joins(o)
      /\ length' = [length EXCEPT ![o] = n]
      /\ some' = [some EXCEPT ![o] = s]
      /\ UNCHANGED <<open, total>>
  BY DEF Read, Write, io
<1>2. /\ \E f \in {"waiting", "moved"} : phase' = [phase EXCEPT ![o] = f]
      /\ \E e \in {"ok", "failed"} : ec' = [ec EXCEPT ![o] = e]
  BY <1>1, StreamAssumption DEF Step
<1>3. \A p \in Ops \ {o} :
        /\ phase'[p] = phase[p] /\ ec'[p] = ec[p]
        /\ length'[p] = length[p] /\ some'[p] = some[p] /\ total'[p] = total[p]
  BY <1>1, <1>2 DEF TypeOK
<1>4. phase'[o] \in {"waiting", "moved"}
  BY <1>2 DEF TypeOK
<1>5. InFlight' = InFlight \cup {o}
  BY <1>3, <1>4 DEF InFlight
<1>6. overlapped \subseteq overlapped' /\ straddled' = straddled
  BY <1>1 DEF Joins
<1>7. Advance
  BY <1>1, <1>3, <1>5, <1>6 DEF Advance, Active, GoesOn
<1>8. OverlapInv'
  <2>1. o \notin InFlight
    BY <1>1 DEF InFlight
  <2>2. \A p \in InFlight : Direction(p) = Direction(o) => {o, p} \subseteq overlapped'
    BY <1>1 DEF Joins
  <2>3. QED
    BY <1>5, <1>6, <2>1, <2>2 DEF OverlapInv
<1>9. QED
  BY <1>1, <1>5, <1>7, <1>8

(***************************************************************************)
(* No other action lets an operation begin.                                *)
(***************************************************************************)
LEMMA OthersAdvance ==
    ASSUME OverlapInv, overlapped' = overlapped, straddled \subseteq straddled',
           \A o \in Ops :
             /\ phase[o] = "done" => phase'[o] = "done"
             /\ phase'[o] \in {"waiting", "moved"} => phase[o] \in {"waiting", "moved"}
             /\ open' /\ Active(o)' /\ o \notin straddled' => open /\ Active(o)
    PROVE  Advance /\ OverlapInv' /\ InFlight' \subseteq InFlight
<1>1. InFlight' \subseteq InFlight
  BY DEF InFlight
<1>2. QED
  BY <1>1 DEF Advance, OverlapInv

LEMMA MovedAdvances ==
    ASSUME TypeOK, OverlapInv, NEW o \in Ops, NEW n, NEW e \in {"ok", "failed"}, Moved(o, n, e),
           phase[o] = "waiting", UNCHANGED <<open, some, length, history>>
    PROVE  Advance /\ OverlapInv' /\ InFlight' = InFlight
<1>1. \A p \in Ops \ {o} : phase'[p] = phase[p] /\ ec'[p] = ec[p] /\ total'[p] = total[p]
  BY DEF Moved, TypeOK
<1>2. phase'[o] = "moved"
  BY DEF Moved, TypeOK
<1>3. Active(o)
  BY DEF Active
<1>4. \A p \in Ops \ {o} : Active(p)' => Active(p)
  BY <1>1 DEF Active, GoesOn
<1>5. Advance /\ OverlapInv'
  BY <1>1, <1>2, <1>3, <1>4, OthersAdvance DEF history
<1>6. InFlight' = InFlight
  BY <1>1, <1>2 DEF InFlight
<1>7. QED
  BY <1>5, <1>6

LEMMA ContinueAdvances ==
    ASSUME TypeOK, OverlapInv, NEW o \in Ops, Continue(o)
    PROVE  Advance /\ OverlapInv' /\ InFlight' = InFlight
<1>1. phase[o] = "moved" /\ GoesOn(o) /\ UNCHANGED <<open, some, length, total, history>>
  BY DEF Continue, io
<1>2. /\ \E f \in {"waiting", "moved"} : phase' = [phase EXCEPT ![o] = f]
      /\ \E e \in {"ok", "failed"} : ec' = [ec EXCEPT ![o] = e]
  BY DEF Continue, Step
<1>3. \A p \in Ops \ {o} : phase'[p] = phase[p] /\ ec'[p] = ec[p]
  BY <1>2 DEF TypeOK
<1>4. phase'[o] \in {"waiting", "moved"}
  BY <1>2 DEF TypeOK
<1>5. Active(o) /\ \A p \in Ops \ {o} : Active(p)' => Active(p)
  BY <1>1, <1>3 DEF Active, GoesOn
<1>6. Advance /\ OverlapInv'
  BY <1>1, <1>3, <1>4, <1>5, OthersAdvance DEF history
<1>7. InFlight' = InFlight
  BY <1>1, <1>3, <1>4 DEF InFlight
<1>8. QED
  BY <1>6, <1>7

LEMMA ResolveAdvances ==
    ASSUME TypeOK, OverlapInv, NEW o \in Ops, phase[o] = "moved", Forgotten(o),
           UNCHANGED <<open, history>>
    PROVE  Advance /\ OverlapInv' /\ InFlight' = InFlight \ {o}
<1>1. \A p \in Ops \ {o} :
        /\ phase'[p] = phase[p] /\ some'[p] = some[p] /\ length'[p] = length[p]
        /\ total'[p] = total[p] /\ ec'[p] = ec[p]
  BY DEF Forgotten, TypeOK
<1>2. phase'[o] = "done"
  BY DEF Forgotten, TypeOK
<1>3. ~Active(o)'
  BY <1>2 DEF Active
<1>4. \A p \in Ops \ {o} : Active(p)' => Active(p)
  BY <1>1 DEF Active, GoesOn
<1>5. Advance /\ OverlapInv'
  BY <1>1, <1>2, <1>3, <1>4, OthersAdvance DEF history
<1>6. InFlight' = InFlight \ {o}
  BY <1>1, <1>2 DEF InFlight
<1>7. QED
  BY <1>5, <1>6

LEMMA AbortAdvances ==
    ASSUME TypeOK, OverlapInv, AbortWaiting, open' => open,
           UNCHANGED <<some, length, total, history>>
    PROVE  Advance /\ OverlapInv' /\ InFlight' = InFlight
<1>1. \A p \in Ops :
        \/ phase[p] = "waiting" /\ phase'[p] = "moved" /\ ec'[p] = "failed"
        \/ phase[p] # "waiting" /\ phase'[p] = phase[p] /\ ec'[p] = ec[p]
  BY DEF AbortWaiting
<1>2. \A p \in Ops : Active(p)' => Active(p)
  BY <1>1 DEF Active, GoesOn
<1>3. Advance /\ OverlapInv'
  BY <1>1, <1>2, OthersAdvance DEF history
<1>4. InFlight' = InFlight
  BY <1>1 DEF InFlight
<1>5. QED
  BY <1>3, <1>4

LEMMA AssignAdvances ==
    ASSUME IInv, NEW argument, Assign(argument)
    PROVE  Advance /\ OverlapInv' /\ InFlight' = InFlight
<1>1. /\ ~open /\ UNCHANGED <<phase, some, length, total, ec, overlapped>>
      /\ straddled' = straddled \cup {o \in Ops : phase[o] = "moved" /\ GoesOn(o)}
  BY DEF Assign
<1>2. \A o \in Ops : phase[o] # "waiting"
  BY <1>1 DEF IInv, Base, QueueInv
<1>3. \A o \in Ops : Active(o)' => o \in straddled'
  BY <1>1, <1>2 DEF Active, GoesOn
<1>4. QED
  BY <1>1, <1>3, OthersAdvance DEF IInv, InFlight

-----------------------------------------------------------------------------
\* Nobody can read any more what was left of the present connection.
Dropped ==
    /\ inbox' = <<>> /\ first' = arrived + 1
    /\ ~(open /\ open')
    /\ UNCHANGED <<arrived, sent, buffer>>

(***************************************************************************)
(* Where the bytes are changes with Arrive, Receive and Send only, and     *)
(* when they are dropped.                                                  *)
(***************************************************************************)
LEMMA NextAdvances ==
    ASSUME IInv, Next
    PROVE  /\ Advance /\ OverlapInv'
           /\ \/ UNCHANGED <<arrived, inbox, first, sent, buffer>>
              \/ Arrive
              \/ \E r \in Reads : Receive(r)
              \/ \E w \in Writes, n \in 1..MaxLength : Send(w, n)
              \/ Dropped
<1> USE DEF IInv, Base
<1>1. CASE Arrive
  BY <1>1, SamePhasesAdvance DEF Arrive
<1>2. CASE PeerLeaves \/ (\E w \in Writes : LetGo(w))
  <2>1. UNCHANGED <<open, phase, some, length, total, ec, history, arrived, inbox, first, sent,
                    buffer>>
    BY <1>2 DEF PeerLeaves, LetGo, io, connection
  <2>2. QED
    BY <2>1, SamePhasesAdvance
<1>3. ASSUME NEW o \in Ops, NEW n \in 0..MaxLength, NEW s \in BOOLEAN,
             (o \in Reads /\ Read(o, n, s)) \/ (o \in Writes /\ Write(o, n, s))
      PROVE  Advance /\ OverlapInv' /\ UNCHANGED <<arrived, inbox, first, sent, buffer>>
  <2>1. UNCHANGED <<arrived, inbox, first, sent, buffer>>
    BY <1>3 DEF Read, Write, io, connection
  <2>2. QED
    BY <1>3, <2>1, StartAdvances
<1>4. ASSUME NEW r \in Reads, Receive(r)
      PROVE  Advance /\ OverlapInv'
  <2>1. PICK n \in 1..Len(inbox) : phase[r] = "waiting" /\ Moved(r, n, "ok")
    BY <1>4, ReceiveTakesTheFirst
  <2>2. UNCHANGED <<open, some, length, history>> /\ r \in Ops
    BY <1>4 DEF Receive, Ops
  <2>3. QED
    BY <2>1, <2>2, MovedAdvances
<1>5. ASSUME NEW w \in Writes, NEW n \in 1..MaxLength, Send(w, n)
      PROVE  Advance /\ OverlapInv'
  <2>1. phase[w] = "waiting"
    BY <1>5, SendAppendsTheNext
  <2>2. UNCHANGED <<open, some, length, history>> /\ w \in Ops /\ Moved(w, n, "ok")
    BY <1>5 DEF Send, Ops
  <2>3. QED
    BY <2>1, <2>2, MovedAdvances
<1>6. ASSUME NEW o \in Ops,
             (o \in Reads /\ ReceiveEnd(o)) \/ (o \in Writes /\ SendFails(o))
      PROVE  Advance /\ OverlapInv' /\ UNCHANGED <<arrived, inbox, first, sent, buffer>>
  <2>1. /\ queue[Direction(o)] # <<>> /\ o = Head(queue[Direction(o)])
        /\ Moved(o, 0, "failed")
        /\ UNCHANGED <<open, some, length, history, arrived, inbox, first, sent, buffer>>
    BY <1>6, StreamAssumption DEF ReceiveEnd, SendFails, Ops, Direction, io, connection
  <2>2. phase[o] = "waiting"
    BY <2>1, MovedKeepsQueue
  <2>3. QED
    BY <2>1, <2>2, MovedAdvances
<1>7. ASSUME NEW o \in Ops, Continue(o)
      PROVE  Advance /\ OverlapInv' /\ UNCHANGED <<arrived, inbox, first, sent, buffer>>
  <2>1. UNCHANGED <<arrived, inbox, first, sent, buffer>>
    BY <1>7 DEF Continue, io, connection
  <2>2. QED
    BY <1>7, <2>1, ContinueAdvances
<1>8. ASSUME NEW o \in Ops,
             (o \in Reads /\ ResolveRead(o)) \/ (o \in Writes /\ ResolveWrite(o))
      PROVE  Advance /\ OverlapInv' /\ UNCHANGED <<arrived, inbox, first, sent, buffer>>
  <2>1. phase[o] = "moved" /\ Forgotten(o) /\ UNCHANGED <<io, history>>
    BY <1>8 DEF ResolveRead, ResolveWrite
  <2>2. UNCHANGED <<open, history, arrived, inbox, first, sent>>
    BY <2>1 DEF io, connection
  <2>3. buffer' = buffer
    BY <1>8, ResolveKeepsBase
  <2>4. QED
    BY <2>1, <2>2, <2>3, ResolveAdvances
<1>9. CASE Cancel
  <2>1. /\ AbortWaiting
        /\ UNCHANGED <<open, some, length, total, history, arrived, inbox, first, sent, buffer>>
    BY <1>9 DEF Cancel, io, connection
  <2>2. QED
    BY <2>1, AbortAdvances
<1>10. CASE Close
  <2>1. Dropped /\ AbortWaiting /\ open /\ UNCHANGED <<some, length, total, history>>
    BY <1>10 DEF Close, Dropped
  <2>2. QED
    BY <2>1, AbortAdvances
<1>11. CASE Release
  <2>1. /\ AbortWaiting /\ open
        /\ UNCHANGED <<some, length, total, history, arrived, inbox, first, sent, buffer>>
    BY <1>11 DEF Release, connection
  <2>2. QED
    BY <2>1, AbortAdvances
<1>12. ASSUME NEW argument \in Arguments, Assign(argument)
       PROVE  /\ Advance /\ OverlapInv'
              /\ UNCHANGED <<arrived, inbox, first, sent, buffer>> \/ Dropped
  <2>1. UNCHANGED <<arrived, inbox, first, sent, buffer>> \/ Dropped
    BY <1>12 DEF Assign, Dropped
  <2>2. QED
    BY <1>12, <2>1, AssignAdvances
<1>13. CASE \/ \E r \in Reads, n \in 1..MaxLength, s \in BOOLEAN : Read(r, n, s)
            \/ \E w \in Writes, n \in 0..MaxLength, s \in BOOLEAN : Write(w, n, s)
  BY <1>3, <1>13, StreamAssumption DEF Ops
<1>14. CASE \/ \E r \in Reads : ReceiveEnd(r) \/ ResolveRead(r)
            \/ \E w \in Writes : SendFails(w) \/ ResolveWrite(w)
  BY <1>6, <1>8, <1>14 DEF Ops
<1>15. QED
  BY <1>1, <1>2, <1>4, <1>5, <1>7, <1>9, <1>10, <1>11, <1>12, <1>13, <1>14 DEF Next

(***************************************************************************)
(* How much an operation has moved changes as it receives or sends, and    *)
(* at its end.                                                             *)
(***************************************************************************)
LEMMA TotalsStay ==
    ASSUME IInv, Next, NEW o \in Ops, phase'[o] # "done", total'[o] # total[o]
    PROVE  \/ o \in Reads /\ Receive(o)
           \/ o \in Writes /\ \E n \in 1..MaxLength : Send(o, n)
<1> USE DEF IInv, Base, TypeOK
<1>1. ASSUME NEW p \in Ops, NEW n, NEW e, Moved(p, n, e), ~(p = o /\ n # 0)
      PROVE  FALSE
  <2>1. total' = [total EXCEPT ![p] = total[p] + n] /\ total[p] \in 0..MaxLength
    BY <1>1 DEF Moved
  <2>2. CASE p # o
    BY <2>1, <2>2
  <2>3. CASE n = 0
    BY <2>1, <2>3
  <2>4. QED
    BY <1>1, <2>2, <2>3
<1>2. CASE \E r \in Reads : Receive(r)
  <2>1. PICK r \in Reads : Receive(r)
    BY <1>2
  <2>2. r \in Ops /\ \E n : Moved(r, n, "ok")
    BY <2>1 DEF Receive, Ops
  <2>3. QED
    BY <1>1, <2>1, <2>2
<1>3. CASE \E w \in Writes, n \in 1..MaxLength : Send(w, n)
  <2>1. PICK w \in Writes, n \in 1..MaxLength : Send(w, n)
    BY <1>3
  <2>2. w \in Ops /\ Moved(w, n, "ok")
    BY <2>1 DEF Send, Ops
  <2>3. QED
    BY <1>1, <2>1, <2>2
<1>4. ASSUME NEW p \in Ops, Moved(p, 0, "failed")
      PROVE  FALSE
  BY <1>1, <1>4
<1>5. ASSUME NEW p \in Ops, Forgotten(p)
      PROVE  FALSE
  BY <1>5 DEF Forgotten
<1>6. CASE \/ \E r \in Reads : ReceiveEnd(r) \/ ResolveRead(r)
           \/ \E w \in Writes : SendFails(w) \/ ResolveWrite(w)
  BY <1>4, <1>5, <1>6 DEF ReceiveEnd, ResolveRead, SendFails, ResolveWrite, Ops
<1>7. CASE \/ Arrive \/ PeerLeaves \/ (\E w \in Writes : LetGo(w))
           \/ Cancel \/ Close \/ Release \/ \E argument \in Arguments : Assign(argument)
  BY <1>7 DEF Arrive, PeerLeaves, LetGo, Cancel, Close, Release, Assign
<1>8. CASE \/ \E r \in Reads, n \in 1..MaxLength, s \in BOOLEAN : Read(r, n, s)
           \/ \E w \in Writes, n \in 0..MaxLength, s \in BOOLEAN : Write(w, n, s)
           \/ \E p \in Ops : Continue(p)
  BY <1>8 DEF Read, Write, Continue
<1>9. QED
  BY <1>2, <1>3, <1>6, <1>7, <1>8 DEF Next

(***************************************************************************)
(* The references of a write: the script may drop its own, and the write   *)
(* has one from its start to its end.                                      *)
(***************************************************************************)
LEMMA NextKeepsReferences ==
    ASSUME IInv, Next
    PROVE  ReferencesInv'
<1> USE DEF IInv, Base
<1>1. CASE UNCHANGED <<data, InFlight>>
  BY <1>1 DEF ReferencesInv, data
<1>2. CASE Arrive \/ PeerLeaves
  BY <1>1, <1>2 DEF Arrive, PeerLeaves, InFlight
<1>3. ASSUME NEW w \in Writes, LetGo(w)
      PROVE  ReferencesInv'
  <2>1. InFlight' = InFlight /\ refcount[w] = 2
    BY <1>3 DEF LetGo, InFlight, ReferencesInv
  <2>2. QED
    BY <1>3, <2>1 DEF LetGo, ReferencesInv, TypeOK
<1>4. ASSUME NEW r \in Reads, NEW n \in 1..MaxLength, NEW s \in BOOLEAN, Read(r, n, s)
      PROVE  ReferencesInv'
  <2>1. r \in Ops /\ r \notin Writes /\ n \in 0..MaxLength /\ UNCHANGED <<refcount, held>>
    BY <1>4, StreamAssumption DEF Ops, Read, data
  <2>2. InFlight' = InFlight \cup {r}
    BY <1>4, <2>1, StartAdvances
  <2>3. QED
    BY <2>1, <2>2 DEF ReferencesInv
<1>5. ASSUME NEW w \in Writes, NEW n \in 0..MaxLength, NEW s \in BOOLEAN, Write(w, n, s)
      PROVE  ReferencesInv'
  <2>1. w \in Ops /\ held[w] /\ held' = held /\ refcount' = [refcount EXCEPT ![w] = refcount[w] + 1]
    BY <1>5 DEF Ops, Write
  <2>2. InFlight' = InFlight \cup {w} /\ w \notin InFlight
    BY <1>5, <2>1, StartAdvances DEF InFlight
  <2>3. refcount[w] = 1
    BY <2>1, <2>2 DEF ReferencesInv
  <2>4. QED
    BY <2>1, <2>2, <2>3 DEF ReferencesInv, TypeOK
<1>6. ASSUME NEW r \in Reads, Receive(r)
      PROVE  ReferencesInv'
  <2>1. PICK n \in 1..Len(inbox) : phase[r] = "waiting" /\ Moved(r, n, "ok")
    BY <1>6, ReceiveTakesTheFirst
  <2>2. UNCHANGED <<open, some, length, history, data>> /\ r \in Ops
    BY <1>6 DEF Receive, Ops
  <2>3. QED
    BY <1>1, <2>1, <2>2, MovedAdvances
<1>7. ASSUME NEW w \in Writes, NEW n \in 1..MaxLength, Send(w, n)
      PROVE  ReferencesInv'
  <2>1. phase[w] = "waiting"
    BY <1>7, SendAppendsTheNext
  <2>2. UNCHANGED <<open, some, length, history, data>> /\ w \in Ops /\ Moved(w, n, "ok")
    BY <1>7 DEF Send, Ops
  <2>3. QED
    BY <1>1, <2>1, <2>2, MovedAdvances
<1>8. ASSUME NEW o \in Ops,
             (o \in Reads /\ ReceiveEnd(o)) \/ (o \in Writes /\ SendFails(o))
      PROVE  ReferencesInv'
  <2>1. /\ queue[Direction(o)] # <<>> /\ o = Head(queue[Direction(o)])
        /\ Moved(o, 0, "failed")
        /\ UNCHANGED <<open, some, length, history, data>>
    BY <1>8, StreamAssumption DEF ReceiveEnd, SendFails, Ops, Direction, io
  <2>2. phase[o] = "waiting"
    BY <2>1, MovedKeepsQueue
  <2>3. QED
    BY <1>1, <2>1, <2>2, MovedAdvances
<1>9. ASSUME NEW o \in Ops, Continue(o)
      PROVE  ReferencesInv'
  BY <1>1, <1>9, ContinueAdvances DEF Continue
<1>10. ASSUME NEW r \in Reads, ResolveRead(r)
       PROVE  ReferencesInv'
  <2>1. /\ r \in Ops /\ r \notin Writes /\ phase[r] = "moved" /\ Forgotten(r)
        /\ UNCHANGED <<open, history, refcount, held>>
    BY <1>10, StreamAssumption DEF ResolveRead, Ops, io, data
  <2>2. InFlight' = InFlight \ {r}
    BY <2>1, ResolveAdvances
  <2>3. QED
    BY <2>1, <2>2 DEF ReferencesInv
<1>11. ASSUME NEW w \in Writes, ResolveWrite(w)
       PROVE  ReferencesInv'
  <2>1. /\ w \in Ops /\ phase[w] = "moved" /\ Forgotten(w)
        /\ UNCHANGED <<open, history, held>>
        /\ refcount' = [refcount EXCEPT ![w] = refcount[w] - 1]
    BY <1>11 DEF ResolveWrite, Ops, io
  <2>2. InFlight' = InFlight \ {w} /\ w \in InFlight
    BY <2>1, ResolveAdvances DEF InFlight
  <2>3. refcount[w] = (IF held[w] THEN 1 ELSE 0) + 1
    BY <2>2 DEF ReferencesInv
  <2>4. QED
    BY <2>1, <2>2, <2>3 DEF ReferencesInv, TypeOK
<1>12. CASE Cancel \/ Close \/ Release
  <2>1. AbortWaiting /\ (open' => open) /\ UNCHANGED <<some, length, total, history, data>>
    BY <1>12 DEF Cancel, Close, Release, io
  <2>2. QED
    BY <1>1, <2>1, AbortAdvances
<1>13. ASSUME NEW argument \in Arguments, Assign(argument)
       PROVE  ReferencesInv'
  BY <1>1, <1>13, AssignAdvances DEF Assign
<1>14. CASE \/ \E r \in Reads : ReceiveEnd(r)
            \/ \E w \in Writes : SendFails(w)
  BY <1>8, <1>14 DEF Ops
<1>15. QED
  BY <1>2, <1>3, <1>4, <1>5, <1>6, <1>7, <1>9, <1>10, <1>11, <1>12, <1>13, <1>14 DEF Next

-----------------------------------------------------------------------------
(***************************************************************************)
(* The bytes that a read receives come after all those that any read has   *)
(* received before.                                                        *)
(***************************************************************************)
LEMMA ReceivedAreNext ==
    ASSUME IInv, NEW r \in Reads, NEW n \in 1..Len(inbox), ReceivedBytes(r, n),
           arrived' = arrived
    PROVE  /\ Taken \in Nat /\ Taken' = Taken + n /\ Len(buffer[r]) \in Nat
           /\ \A q \in Reads \ {r} : buffer'[q] = buffer[q]
           /\ Len(buffer'[r]) = Len(buffer[r]) + n
           /\ \A i \in 1..Len(buffer[r]) : buffer'[r][i] = buffer[r][i]
           /\ \A i \in 1..n : buffer'[r][Len(buffer[r]) + i] = Taken + i
<1> USE StreamAssumption DEF IInv, Base, ReceivedBytes
<1>1. /\ Len(inbox) \in Nat /\ arrived \in Nat /\ total[r] \in Nat
      /\ n \in Nat
  <2>1. inbox \in Seq(1..MaxArrived) /\ arrived \in 0..MaxArrived /\ total[r] \in 0..MaxLength
    BY DEF TypeOK, Ops
  <2>2. QED
    BY <2>1, LenProperties
<1>2. Len(inbox) <= arrived
  BY DEF BytesInv, InboxIsLast
<1>3. Taken \in Nat /\ Taken' = Taken + n
  BY <1>1, <1>2 DEF Taken
<1>4. \A q \in Reads \ {r} : buffer'[q] = buffer[q]
  <2>1. buffer' = [buffer EXCEPT ![r] = buffer'[r]]
    OBVIOUS
  <2>2. QED
    BY <2>1 DEF TypeOK
<1>5. \A i \in 1..n : buffer'[r][total[r] + i] = Taken + i
  BY <1>1 DEF BytesInv, InboxIsLast
<1>6. QED
  BY <1>1, <1>3, <1>4, <1>5

LEMMA ReceiveKeepsBytes ==
    ASSUME IInv, NEW r \in Reads, Receive(r)
    PROVE  BytesInv'
<1> USE DEF IInv, Base
<1>1. PICK n \in 1..Len(inbox) : ReceivedBytes(r, n)
  BY ReceiveTakesTheFirst
<1>2. arrived' = arrived /\ first' = first
  BY DEF Receive, connection
<1>3. /\ Taken \in Nat /\ Taken' = Taken + n /\ Len(buffer[r]) \in Nat
      /\ \A q \in Reads \ {r} : buffer'[q] = buffer[q]
      /\ Len(buffer'[r]) = Len(buffer[r]) + n
      /\ \A i \in 1..Len(buffer[r]) : buffer'[r][i] = buffer[r][i]
      /\ \A i \in 1..n : buffer'[r][Len(buffer[r]) + i] = Taken + i
  BY <1>1, <1>2, ReceivedAreNext
<1>4. /\ inbox \in Seq(1..MaxArrived) /\ Len(inbox) \in Nat
      /\ arrived \in Nat /\ first \in Nat /\ n \in Nat
      /\ \A q \in Reads : buffer[q] \in Seq(1..MaxArrived) /\ Len(buffer[q]) \in Nat
  BY LenProperties, StreamAssumption DEF TypeOK
<1>5. /\ Len(inbox') = Len(inbox) - n
      /\ \A i \in 1..(Len(inbox) - n) : inbox'[i] = inbox[n + i]
  BY <1>1 DEF ReceivedBytes
<1>6. /\ Len(inbox) <= arrived /\ first <= Taken + 1
      /\ \A i \in 1..Len(inbox) : inbox[i] = Taken + i
      /\ \A q \in Reads : \A i \in 1..Len(buffer[q]) : buffer[q][i] <= Taken
  BY DEF BytesInv, InboxIsLast, ReadAreTaken
<1>7. Len(inbox') <= arrived' /\ first' <= Taken' + 1
  BY <1>2, <1>3, <1>4, <1>5, <1>6
<1>8. \A i \in 1..Len(inbox') : inbox'[i] = Taken' + i
  BY <1>3, <1>4, <1>5, <1>6
<1>9. \A q \in Reads : \A i \in 1..Len(buffer[q]) : buffer[q][i] \in Nat
  <2> SUFFICES ASSUME NEW q \in Reads, NEW i \in 1..Len(buffer[q])
               PROVE  buffer[q][i] \in Nat
    OBVIOUS
  <2>1. buffer[q][i] \in 1..MaxArrived
    BY <1>4, ElementOfSeq
  <2>2. QED
    BY <2>1, StreamAssumption
<1>10. ASSUME NEW q \in Reads, NEW i \in 1..Len(buffer'[q])
       PROVE  \/ i \in 1..Len(buffer[q]) /\ buffer'[q][i] = buffer[q][i]
              \/ q = r /\ buffer'[q][i] \in Taken + 1..Taken + n
  <2>1. CASE q # r
    BY <1>3, <1>10, <2>1
  <2>2. CASE q = r /\ i \in 1..Len(buffer[r])
    BY <1>3, <2>2
  <2>3. CASE q = r /\ i \notin 1..Len(buffer[r])
    <3>1. i \in 1..(Len(buffer[r]) + n)
      BY <1>3, <1>10, <2>3
    <3>2. PICK k \in 1..n : i = Len(buffer[r]) + k
      <4>1. i - Len(buffer[r]) \in 1..n /\ i = Len(buffer[r]) + (i - Len(buffer[r]))
        BY <1>3, <1>4, <2>3, <3>1
      <4>2. QED
        BY <4>1
    <3>3. buffer'[r][i] = Taken + k
      BY <1>3, <3>2
    <3>4. Taken + k \in Taken + 1..Taken + n
      BY <1>3, <1>4
    <3>5. QED
      BY <2>3, <3>3, <3>4
  <2>4. QED
    BY <2>1, <2>2, <2>3
<1>11. ASSUME NEW q \in Reads, NEW i \in 1..Len(buffer'[q])
       PROVE  buffer'[q][i] <= Taken'
  <2>1. CASE i \in 1..Len(buffer[q]) /\ buffer'[q][i] = buffer[q][i]
    <3>1. buffer[q][i] <= Taken /\ buffer[q][i] \in Nat
      BY <1>6, <1>9, <2>1
    <3>2. QED
      BY <1>3, <1>4, <2>1, <3>1
  <2>2. CASE buffer'[q][i] \in Taken + 1..Taken + n
    BY <1>3, <1>4, <2>2
  <2>3. QED
    BY <1>10, <2>1, <2>2
<1>12. ASSUME NEW p \in Reads, NEW q \in Reads, NEW i \in 1..Len(buffer'[p]),
              NEW j \in 1..Len(buffer'[q]), buffer'[p][i] = buffer'[q][j], p # q
       PROVE  FALSE
  <2>1. CASE i \in 1..Len(buffer[p]) /\ j \in 1..Len(buffer[q])
        /\ buffer'[p][i] = buffer[p][i] /\ buffer'[q][j] = buffer[q][j]
    BY <1>12, <2>1 DEF BytesInv, ReadOnce
  <2>2. CASE i \in 1..Len(buffer[p]) /\ buffer'[p][i] = buffer[p][i]
        /\ buffer'[q][j] \in Taken + 1..Taken + n
    <3>1. buffer[p][i] <= Taken /\ buffer[p][i] \in Nat
      BY <1>6, <1>9, <2>2
    <3>2. QED
      BY <1>3, <1>12, <2>2, <3>1
  <2>3. CASE j \in 1..Len(buffer[q]) /\ buffer'[q][j] = buffer[q][j]
        /\ buffer'[p][i] \in Taken + 1..Taken + n
    <3>1. buffer[q][j] <= Taken /\ buffer[q][j] \in Nat
      BY <1>6, <1>9, <2>3
    <3>2. QED
      BY <1>3, <1>12, <2>3, <3>1
  <2>4. QED
    BY <1>10, <1>12, <2>1, <2>2, <2>3
<1>13. ASSUME NEW b \in first..Taken'
       PROVE  \E q \in Reads : \E i \in 1..Len(buffer'[q]) : buffer'[q][i] = b
  <2>1. CASE b \in first..Taken
    <3>1. PICK q \in Reads : \E i \in 1..Len(buffer[q]) : buffer[q][i] = b
      BY <2>1 DEF BytesInv, TakenAreRead
    <3>2. PICK i \in 1..Len(buffer[q]) : buffer[q][i] = b
      BY <3>1
    <3>3. CASE q = r
      <4>1. buffer'[r][i] = b
        BY <1>3, <3>2, <3>3
      <4>2. i \in 1..Len(buffer[r]) + n
        BY <1>3, <1>4, <3>2, <3>3
      <4>3. QED
        BY <1>3, <4>1, <4>2
    <3>4. CASE q # r
      BY <1>3, <3>2, <3>4
    <3>5. QED
      BY <3>3, <3>4
  <2>2. CASE b \notin first..Taken
    <3>1. b - Taken \in 1..n /\ b = Taken + (b - Taken)
      BY <1>3, <1>4, <1>6, <1>13, <2>2
    <3>2. Len(buffer[r]) + (b - Taken) \in 1..Len(buffer'[r])
      BY <1>3, <1>4, <3>1
    <3>3. buffer'[r][Len(buffer[r]) + (b - Taken)] = b
      BY <1>3, <3>1
    <3>4. QED
      BY <3>2, <3>3
  <2>3. QED
    BY <2>1, <2>2
<1>14. QED
  BY <1>2, <1>7, <1>8, <1>11, <1>12, <1>13
  DEF BytesInv, InboxIsLast, ReadAreTaken, ReadOnce, TakenAreRead

LEMMA NextKeepsBytes ==
    ASSUME IInv, Next
    PROVE  BytesInv' /\ BufferInv'
<1> USE DEF IInv, Base
<1>1. /\ inbox \in Seq(1..MaxArrived) /\ Len(inbox) \in Nat /\ arrived \in Nat /\ first \in Nat
      /\ \A r \in Reads : buffer[r] \in Seq(1..MaxArrived) /\ Len(buffer[r]) \in Nat
  BY LenProperties, StreamAssumption DEF TypeOK
<1>2. ASSUME UNCHANGED <<arrived, inbox, first, buffer>>
      PROVE  BytesInv'
  <2>1. Taken' = Taken
    BY <1>2 DEF Taken
  <2>2. QED
    BY <1>2, <2>1 DEF BytesInv, InboxIsLast, ReadAreTaken, ReadOnce, TakenAreRead
<1>3. ASSUME Arrive
      PROVE  BytesInv'
  <2>1. arrived + 1 \in 1..MaxArrived
    BY <1>3, StreamAssumption DEF Arrive, TypeOK
  <2>2. /\ Len(inbox') = Len(inbox) + 1
        /\ \A i \in 1..Len(inbox) : inbox'[i] = inbox[i]
        /\ inbox'[Len(inbox) + 1] = arrived + 1
    BY <1>1, <1>3, <2>1, AppendProperties DEF Arrive
  <2>3. arrived' = arrived + 1 /\ first' = first /\ buffer' = buffer
    BY <1>3 DEF Arrive, connection
  <2>4. Taken' = Taken /\ Taken \in Int /\ arrived + 1 = Taken + (Len(inbox) + 1)
    BY <1>1, <2>2, <2>3 DEF Taken
  <2>5. \A i \in 1..Len(inbox') : inbox'[i] = Taken' + i
    BY <1>1, <2>2, <2>4 DEF BytesInv, InboxIsLast
  <2>6. InboxIsLast'
    BY <1>1, <2>2, <2>3, <2>4, <2>5 DEF BytesInv, InboxIsLast
  <2>7. ReadAreTaken' /\ ReadOnce' /\ TakenAreRead'
    BY <2>3, <2>4 DEF BytesInv, ReadAreTaken, ReadOnce, TakenAreRead
  <2>8. QED
    BY <2>6, <2>7 DEF BytesInv
<1>4. ASSUME Dropped
      PROVE  BytesInv'
  <2>1. /\ arrived' = arrived /\ first' = arrived + 1 /\ buffer' = buffer
        /\ inbox' = <<>> /\ Len(inbox') = 0
    BY <1>4, EmptySeq DEF Dropped
  <2>2. Taken' = arrived /\ Taken <= arrived /\ Taken \in Int
    BY <1>1, <2>1 DEF Taken
  <2>3. \A r \in Reads : \A i \in 1..Len(buffer[r]) : buffer[r][i] <= Taken /\ buffer[r][i] \in Int
    <3> SUFFICES ASSUME NEW r \in Reads, NEW i \in 1..Len(buffer[r])
                 PROVE  buffer[r][i] <= Taken /\ buffer[r][i] \in Int
      OBVIOUS
    <3>1. buffer[r][i] \in 1..MaxArrived
      BY <1>1, ElementOfSeq
    <3>2. QED
      BY <3>1, StreamAssumption DEF BytesInv, ReadAreTaken
  <2>4. \A r \in Reads : \A i \in 1..Len(buffer[r]) : buffer[r][i] <= arrived
    BY <1>1, <2>2, <2>3
  <2>5. InboxIsLast'
    BY <1>1, <2>1, <2>2 DEF InboxIsLast
  <2>6. ReadAreTaken' /\ ReadOnce'
    BY <2>1, <2>2, <2>4 DEF BytesInv, ReadAreTaken, ReadOnce
  <2>7. TakenAreRead'
    BY <1>1, <2>1, <2>2 DEF TakenAreRead
  <2>8. QED
    BY <2>5, <2>6, <2>7 DEF BytesInv
<1>5. BytesInv'
  <2>1. ASSUME NEW w \in Writes, NEW n \in 1..MaxLength, Send(w, n)
        PROVE  UNCHANGED <<arrived, inbox, first, buffer>>
    BY <2>1 DEF Send, connection
  <2>2. QED
    BY <1>2, <1>3, <1>4, <2>1, NextAdvances, ReceiveKeepsBytes
<1>6. BufferInv'
  <2> SUFFICES ASSUME NEW r \in Reads, phase'[r] # "done"
               PROVE  Len(buffer'[r]) = total'[r]
    BY DEF BufferInv
  <2>1. phase[r] # "done" /\ Len(buffer[r]) = total[r]
    BY NextAdvances DEF Advance, BufferInv, Ops
  <2>2. CASE Receive(r)
    <3>1. PICK n \in 1..Len(inbox) : ReceivedBytes(r, n) /\ Moved(r, n, "ok")
      BY <2>2, ReceiveTakesTheFirst
    <3>2. total'[r] = total[r] + n
      BY <3>1 DEF Moved, TypeOK, Ops
    <3>3. QED
      BY <3>1, <3>2 DEF ReceivedBytes
  <2>3. CASE ~Receive(r)
    <3>1. total'[r] = total[r]
      BY <2>3, TotalsStay, StreamAssumption DEF Ops
    <3>2. buffer'[r] = buffer[r]
      <4>1. ASSUME NEW q \in Reads, Receive(q)
            PROVE  buffer'[r] = buffer[r]
        BY <2>3, <4>1 DEF Receive, TypeOK
      <4>2. CASE Arrive \/ Dropped \/ \E w \in Writes, n \in 1..MaxLength : Send(w, n)
        BY <4>2 DEF Arrive, Dropped, Send
      <4>3. QED
        BY <4>1, <4>2, NextAdvances
    <3>3. QED
      BY <2>1, <3>1, <3>2
  <2>4. QED
    BY <2>2, <2>3
<1>7. QED
  BY <1>5, <1>6

-----------------------------------------------------------------------------
(***************************************************************************)
(* A read that has not begun has nothing.                                  *)
(***************************************************************************)
LEMMA BytesAreTyped ==
    ASSUME IInv
    PROVE  /\ Len(inbox) \in Nat /\ arrived \in Nat /\ first \in Nat /\ Taken \in Int
           /\ \A r \in Reads :
                /\ r \in Ops /\ Len(buffer[r]) \in Nat
                /\ \A i \in 1..Len(buffer[r]) : buffer[r][i] \in Nat
                /\ phase[r] = "none" => Len(buffer[r]) = 0
<1> USE StreamAssumption DEF IInv, Base
<1>1. Len(inbox) \in Nat /\ arrived \in Nat /\ first \in Nat
  BY LenProperties DEF TypeOK
<1>2. Taken \in Int
  BY <1>1 DEF Taken
<1>3. ASSUME NEW r \in Reads
      PROVE  /\ r \in Ops /\ Len(buffer[r]) \in Nat
             /\ \A i \in 1..Len(buffer[r]) : buffer[r][i] \in Nat
             /\ phase[r] = "none" => Len(buffer[r]) = 0
  <2>1. buffer[r] \in Seq(1..MaxArrived)
    BY DEF TypeOK
  <2>2. Len(buffer[r]) \in Nat /\ \A i \in 1..Len(buffer[r]) : buffer[r][i] \in 1..MaxArrived
    BY <2>1, LenProperties, ElementOfSeq
  <2>3. r \in Ops
    BY DEF Ops
  <2>4. phase[r] = "none" => Len(buffer[r]) = 0
    BY <2>3 DEF BufferInv, ProgressInv
  <2>5. QED
    BY <2>2, <2>3, <2>4
<1>4. QED
  BY <1>1, <1>2, <1>3

LEMMA NextKeepsConnections ==
    ASSUME IInv, Next
    PROVE  ConnectionInv'
<1> USE DEF IInv, Base
<1>1. Advance
  BY NextAdvances
<1>2. /\ Len(inbox) \in Nat /\ arrived \in Nat /\ first \in Nat /\ Taken \in Int
      /\ \A r \in Reads :
           /\ r \in Ops /\ Len(buffer[r]) \in Nat
           /\ \A i \in 1..Len(buffer[r]) : buffer[r][i] \in Nat
           /\ phase[r] = "none" => Len(buffer[r]) = 0
  BY BytesAreTyped
<1>3. \A r \in Reads \ straddled' :
        /\ r \notin straddled
        /\ open' /\ Active(r)' => Len(buffer[r]) = 0 \/ (open /\ Active(r))
  BY <1>1, <1>2 DEF Advance
<1>4. \A r \in Reads \ straddled :
        /\ \A i, j \in 1..Len(buffer[r]) : buffer[r][i] < first <=> buffer[r][j] < first
        /\ open /\ Active(r) => \A i \in 1..Len(buffer[r]) : buffer[r][i] >= first
  BY DEF ConnectionInv
<1>5. ASSUME NEW r \in Reads \ straddled', buffer'[r] = buffer[r], first' = first
      PROVE  /\ \A i, j \in 1..Len(buffer'[r]) : buffer'[r][i] < first' <=> buffer'[r][j] < first'
             /\ open' /\ Active(r)' => \A i \in 1..Len(buffer'[r]) : buffer'[r][i] >= first'
  BY <1>3, <1>4, <1>5
<1>6. ASSUME UNCHANGED <<first, buffer>>
      PROVE  ConnectionInv'
  BY <1>5, <1>6 DEF ConnectionInv
<1>7. ASSUME Dropped
      PROVE  ConnectionInv'
  <2>1. first' = arrived + 1 /\ buffer' = buffer /\ ~(open /\ open')
    BY <1>7 DEF Dropped
  <2>2. Taken <= arrived
    BY <1>2 DEF Taken
  <2>3. ASSUME NEW r \in Reads, NEW i \in 1..Len(buffer[r])
        PROVE  buffer[r][i] < first'
    <3>1. buffer[r][i] <= Taken /\ buffer[r][i] \in Nat
      BY <1>2 DEF BytesInv, ReadAreTaken
    <3>2. QED
      BY <1>2, <2>1, <2>2, <3>1
  <2>4. ASSUME NEW r \in Reads \ straddled', open', Active(r)'
        PROVE  Len(buffer'[r]) = 0
    BY <1>3, <2>1, <2>4
  <2>5. ASSUME NEW r \in Reads \ straddled'
        PROVE  /\ \A i, j \in 1..Len(buffer'[r]) : buffer'[r][i] < first' <=> buffer'[r][j] < first'
               /\ open' /\ Active(r)' => \A i \in 1..Len(buffer'[r]) : buffer'[r][i] >= first'
    BY <2>1, <2>3, <2>4
  <2>6. QED
    BY <2>5 DEF ConnectionInv
<1>8. ASSUME NEW r \in Reads, Receive(r)
      PROVE  ConnectionInv'
  <2>1. PICK n \in 1..Len(inbox) : ReceivedBytes(r, n) /\ phase[r] = "waiting" /\ open
    BY <1>8, ReceiveTakesTheFirst
  <2>2. arrived' = arrived /\ first' = first
    BY <1>8 DEF Receive, connection
  <2>3. /\ \A q \in Reads \ {r} : buffer'[q] = buffer[q]
        /\ Len(buffer'[r]) = Len(buffer[r]) + n
        /\ \A i \in 1..Len(buffer[r]) : buffer'[r][i] = buffer[r][i]
        /\ \A i \in 1..n : buffer'[r][Len(buffer[r]) + i] = Taken + i
    BY <2>1, <2>2, ReceivedAreNext
  <2>4. ASSUME r \notin straddled', NEW i \in 1..Len(buffer'[r])
        PROVE  buffer'[r][i] >= first /\ buffer'[r][i] \in Int
    <3>1. CASE i \in 1..Len(buffer[r])
      <4>1. buffer[r][i] >= first
        BY <1>3, <1>4, <2>1, <2>4, <3>1 DEF Active
      <4>2. QED
        BY <1>2, <2>3, <3>1, <4>1
    <3>2. CASE i \notin 1..Len(buffer[r])
      <4>1. PICK k \in 1..n : i = Len(buffer[r]) + k
        <5>1. i - Len(buffer[r]) \in 1..n /\ i = Len(buffer[r]) + (i - Len(buffer[r]))
          BY <1>2, <2>3, <2>4, <3>2
        <5>2. QED
          BY <5>1
      <4>2. buffer'[r][i] = Taken + k
        BY <2>3, <4>1
      <4>3. first <= Taken + 1
        BY DEF BytesInv, InboxIsLast
      <4>4. Taken + k >= first /\ Taken + k \in Int
        BY <1>2, <4>3
      <4>5. QED
        BY <4>2, <4>4
    <3>3. QED
      BY <3>1, <3>2
  <2>5. ASSUME r \notin straddled', NEW i \in 1..Len(buffer'[r])
        PROVE  ~(buffer'[r][i] < first')
    BY <1>2, <2>2, <2>4, <2>5
  <2>6. \A q \in Reads \ straddled' :
          /\ \A i, j \in 1..Len(buffer'[q]) : buffer'[q][i] < first' <=> buffer'[q][j] < first'
          /\ open' /\ Active(q)' => \A i \in 1..Len(buffer'[q]) : buffer'[q][i] >= first'
    <3> SUFFICES ASSUME NEW q \in Reads \ straddled'
                 PROVE  /\ \A i, j \in 1..Len(buffer'[q]) :
                             buffer'[q][i] < first' <=> buffer'[q][j] < first'
                        /\ open' /\ Active(q)' =>
                             \A i \in 1..Len(buffer'[q]) : buffer'[q][i] >= first'
      OBVIOUS
    <3>1. CASE q = r
      BY <2>2, <2>4, <2>5, <3>1
    <3>2. CASE q # r
      BY <1>5, <2>2, <2>3, <3>2
    <3>3. QED
      BY <3>1, <3>2
  <2>7. QED
    BY <2>6 DEF ConnectionInv
<1>9. ASSUME NEW w \in Writes, NEW n \in 1..MaxLength, Send(w, n)
      PROVE  UNCHANGED <<first, buffer>>
  BY <1>9 DEF Send, connection
<1>10. Arrive => UNCHANGED <<first, buffer>>
  BY DEF Arrive, connection
<1>11. QED
  BY <1>6, <1>7, <1>8, <1>9, <1>10, NextAdvances

(***************************************************************************)
(* A read that other reads overtake shares its direction with them.        *)
(***************************************************************************)
LEMMA NextKeepsReads ==
    ASSUME IInv, Next
    PROVE  ReadsInv'
<1> USE DEF IInv, Base
<1>1. Advance
  BY NextAdvances
<1>2. /\ Len(inbox) \in Nat /\ arrived \in Nat /\ first \in Nat /\ Taken \in Int
      /\ \A r \in Reads :
           /\ r \in Ops /\ Len(buffer[r]) \in Nat
           /\ \A i \in 1..Len(buffer[r]) : buffer[r][i] \in Nat
           /\ phase[r] = "none" => Len(buffer[r]) = 0
  BY BytesAreTyped
<1>3. \A r \in Reads \ (overlapped' \cup straddled') :
        /\ r \notin overlapped \cup straddled
        /\ open' /\ Active(r)' => Len(buffer[r]) = 0 \/ (open /\ Active(r))
  BY <1>1, <1>2 DEF Advance
<1>4. \A r \in Reads \ (overlapped \cup straddled) :
        /\ Consecutive(buffer[r])
        /\ open /\ Active(r) /\ Len(buffer[r]) > 0 => buffer[r][Len(buffer[r])] = Taken
  BY DEF ReadsInv
<1>5. ASSUME buffer' = buffer, Taken' = Taken \/ ~(open /\ open')
      PROVE  ReadsInv'
  <2> SUFFICES ASSUME NEW r \in Reads \ (overlapped' \cup straddled')
               PROVE  /\ Consecutive(buffer'[r])
                      /\ open' /\ Active(r)' /\ Len(buffer'[r]) > 0 =>
                           buffer'[r][Len(buffer'[r])] = Taken'
    BY DEF ReadsInv
  <2>1. Consecutive(buffer'[r])
    BY <1>3, <1>4, <1>5
  <2>2. open' /\ Active(r)' /\ Len(buffer'[r]) > 0 => buffer'[r][Len(buffer'[r])] = Taken'
    BY <1>3, <1>4, <1>5
  <2>3. QED
    BY <2>1, <2>2
<1>6. ASSUME UNCHANGED <<arrived, inbox, buffer>>
      PROVE  ReadsInv'
  BY <1>5, <1>6 DEF Taken
<1>7. ASSUME Arrive
      PROVE  ReadsInv'
  <2>1. Len(inbox') = Len(inbox) + 1 /\ arrived' = arrived + 1 /\ buffer' = buffer
    <3>1. inbox \in Seq(1..MaxArrived) /\ arrived + 1 \in 1..MaxArrived
      BY <1>7, StreamAssumption DEF Arrive, TypeOK
    <3>2. QED
      BY <1>7, <3>1, AppendProperties DEF Arrive
  <2>2. Taken' = Taken
    BY <1>2, <2>1 DEF Taken
  <2>3. QED
    BY <1>5, <2>1, <2>2
<1>8. ASSUME Dropped
      PROVE  ReadsInv'
  BY <1>5, <1>8 DEF Dropped
<1>9. ASSUME NEW r \in Reads, Receive(r)
      PROVE  ReadsInv'
  <2>1. PICK n \in 1..Len(inbox) : ReceivedBytes(r, n) /\ phase[r] = "waiting" /\ open
    BY <1>9, ReceiveTakesTheFirst
  <2>2. arrived' = arrived /\ open' = open
    BY <1>9 DEF Receive
  <2>3. /\ Taken' = Taken + n
        /\ \A q \in Reads \ {r} : buffer'[q] = buffer[q]
        /\ Len(buffer'[r]) = Len(buffer[r]) + n
        /\ \A i \in 1..Len(buffer[r]) : buffer'[r][i] = buffer[r][i]
        /\ \A i \in 1..n : buffer'[r][Len(buffer[r]) + i] = Taken + i
    BY <2>1, <2>2, ReceivedAreNext
  <2>4. ASSUME NEW q \in Reads \ (overlapped' \cup straddled')
        PROVE  /\ Consecutive(buffer'[q])
               /\ open' /\ Active(q)' /\ Len(buffer'[q]) > 0 =>
                    buffer'[q][Len(buffer'[q])] = Taken'
    <3>1. CASE q # r
      <4>1. Active(q) => q \in overlapped
        <5>1. Active(q) => q \in InFlight /\ r \in InFlight
          BY <1>2, <2>1 DEF Active, InFlight
        <5>2. Direction(q) = Direction(r)
          BY DEF Direction
        <5>3. QED
          BY <3>1, <5>1, <5>2 DEF OverlapInv
      <4>2. ~(open' /\ Active(q)' /\ Len(buffer'[q]) > 0)
        BY <1>2, <1>3, <2>3, <3>1, <4>1
      <4>3. Consecutive(buffer'[q])
        BY <1>3, <1>4, <2>3, <3>1
      <4>4. QED
        BY <4>2, <4>3
    <3>2. CASE q = r
      <4> DEFINE m == Len(buffer[r])
      <4>1. /\ m \in Nat
            /\ Consecutive(buffer[r])
            /\ m > 0 => buffer[r][m] = Taken
        BY <1>2, <1>3, <1>4, <2>1, <3>2 DEF Active
      <4>2. buffer'[r][Len(buffer'[r])] = Taken'
        BY <1>2, <2>3
      <4>3. ASSUME NEW i \in 1..(Len(buffer'[r]) - 1)
            PROVE  buffer'[r][i + 1] = buffer'[r][i] + 1
        <5>1. CASE i < m
          <6>1. i \in 1..m /\ i + 1 \in 1..m /\ i \in 1..(m - 1)
            BY <4>1, <4>3, <5>1
          <6>2. QED
            BY <2>3, <4>1, <6>1 DEF Consecutive
        <5>2. CASE i = m
          <6>1. m \in 1..m /\ m > 0 /\ 1 \in 1..n
            BY <4>1, <4>3, <5>2
          <6>2. buffer'[r][m] = Taken /\ buffer'[r][m + 1] = Taken + 1
            BY <2>3, <4>1, <6>1
          <6>3. QED
            BY <5>2, <6>2
        <5>3. CASE i > m
          <6>1. i - m \in 1..n /\ i + 1 - m \in 1..n
            BY <2>3, <4>1, <4>3, <5>3
          <6>2. /\ i = m + (i - m) /\ i + 1 = m + (i + 1 - m)
            BY <4>1, <4>3
          <6>3. buffer'[r][i] = Taken + (i - m) /\ buffer'[r][i + 1] = Taken + (i + 1 - m)
            BY <2>3, <6>1, <6>2
          <6>4. QED
            BY <1>2, <4>1, <6>3
        <5>4. QED
          BY <4>1, <5>1, <5>2, <5>3
      <4>4. Consecutive(buffer'[r])
        BY <4>3 DEF Consecutive
      <4>5. QED
        BY <3>2, <4>2, <4>4
    <3>3. QED
      BY <3>1, <3>2
  <2>5. QED
    BY <2>4 DEF ReadsInv
<1>10. ASSUME NEW w \in Writes, NEW n \in 1..MaxLength, Send(w, n)
       PROVE  UNCHANGED <<arrived, inbox, buffer>>
  BY <1>10 DEF Send
<1>11. QED
  BY <1>6, <1>7, <1>8, <1>9, <1>10, NextAdvances

-----------------------------------------------------------------------------
(***************************************************************************)
(* What has been sent is named by its write and a place in its data.       *)
(***************************************************************************)
LEMMA SentAreTyped ==
    ASSUME IInv
    PROVE  /\ Len(sent) \in Nat
           /\ \A i \in 1..Len(sent) :
                /\ sent[i] = <<sent[i][1], sent[i][2]>>
                /\ sent[i][1] \in Writes /\ sent[i][1] \in Ops /\ phase[sent[i][1]] # "none"
                /\ sent[i][2] \in Nat
           /\ \A o \in Ops : total[o] \in Nat
<1> USE StreamAssumption DEF IInv, Base
<1>1. sent \in Seq(Writes \X (1..MaxLength))
  BY DEF TypeOK
<1>2. \A i \in 1..Len(sent) : sent[i] \in Writes \X (1..MaxLength)
  BY <1>1, ElementOfSeq
<1>3. \A o \in Ops : total[o] \in Nat
  BY DEF TypeOK
<1>4. ASSUME NEW i \in 1..Len(sent)
      PROVE  phase[sent[i][1]] # "none"
  <2>1. sent[i][1] \in Ops /\ sent[i][2] \in 1..MaxLength
    BY <1>2 DEF Ops
  <2>2. phase[sent[i][1]] = "none" => sent[i][2] <= 0
    BY <2>1 DEF WritesInv, ProgressInv
  <2>3. QED
    BY <2>1, <2>2
<1>5. QED
  BY <1>1, <1>2, <1>3, <1>4, LenProperties DEF Ops

(***************************************************************************)
(* As long as nothing is sent, only the ends of writes matter.             *)
(***************************************************************************)
LEMMA SilentKeepsWrites ==
    ASSUME IInv, Next, sent' = sent, \A w \in Writes, n \in 1..MaxLength : ~Send(w, n)
    PROVE  WritesInv'
<1> USE DEF IInv, Base
<1>1. Advance
  BY NextAdvances
<1>2. /\ Len(sent) \in Nat
      /\ \A i \in 1..Len(sent) :
           /\ sent[i][1] \in Writes /\ sent[i][1] \in Ops /\ phase[sent[i][1]] # "none"
           /\ sent[i][2] \in Nat
  BY SentAreTyped
<1>3. \A w \in Writes : phase'[w] # "done" => phase[w] # "done" /\ total'[w] = total[w]
  BY <1>1, TotalsStay, StreamAssumption DEF Advance, Ops
<1>4. \A i \in 1..Len(sent') :
        phase'[sent'[i][1]] # "done" => sent'[i][2] <= total'[sent'[i][1]]
  BY <1>2, <1>3 DEF WritesInv
<1>5. ASSUME NEW w \in Writes \ overlapped', NEW i \in 1..Len(sent'), sent'[i][1] = w
      PROVE  /\ \A j \in 1..Len(sent') : sent'[j][1] = w => sent'[j][2] - sent'[i][2] = j - i
             /\ w \in InFlight' => sent'[Len(sent')] = <<w, total'[w]>>
  <2>1. w \notin overlapped
    BY <1>1, <1>5 DEF Advance
  <2>2. w \in InFlight' => w \in InFlight /\ total'[w] = total[w]
    BY <1>1, <1>2, <1>3, <1>5 DEF Advance, InFlight
  <2>3. QED
    BY <1>5, <2>1, <2>2 DEF WritesInv
<1>6. QED
  BY <1>4, <1>5 DEF WritesInv

(***************************************************************************)
(* A write that sends is the only one in flight, or knows of others.       *)
(***************************************************************************)
LEMMA SendKeepsWrites ==
    ASSUME IInv, Next, NEW w \in Writes, NEW n \in 1..MaxLength, Send(w, n)
    PROVE  WritesInv'
<1> USE DEF IInv, Base
<1> DEFINE m == Len(sent)
           t == total[w]
<1>1. Advance
  BY NextAdvances
<1>2. /\ m \in Nat
      /\ \A i \in 1..m :
           /\ sent[i] = <<sent[i][1], sent[i][2]>>
           /\ sent[i][1] \in Writes /\ sent[i][1] \in Ops /\ phase[sent[i][1]] # "none"
           /\ sent[i][2] \in Nat
      /\ t \in Nat /\ n \in Nat /\ w \in Ops
  BY SentAreTyped, StreamAssumption DEF Ops
<1>3. /\ phase[w] = "waiting"
      /\ Len(sent') = m + n
      /\ \A i \in 1..m : sent'[i] = sent[i]
      /\ \A i \in 1..n : sent'[m + i] = <<w, t + i>>
  BY SendAppendsTheNext DEF SentBytes
<1>4. /\ phase' = [phase EXCEPT ![w] = "moved"] /\ total' = [total EXCEPT ![w] = t + n]
      /\ overlapped' = overlapped
  BY DEF Send, Moved, history
<1>5. /\ phase'[w] = "moved" /\ total'[w] = t + n
      /\ \A v \in Ops \ {w} : phase'[v] = phase[v] /\ total'[v] = total[v]
  BY <1>2, <1>4 DEF TypeOK
<1>6. ASSUME NEW i \in 1..Len(sent')
      PROVE  \/ i \in 1..m /\ sent'[i] = sent[i]
             \/ i - m \in 1..n /\ sent'[i] = <<w, t + (i - m)>>
  <2>1. CASE i \in 1..m
    BY <1>3, <2>1
  <2>2. CASE i \notin 1..m
    <3>1. i - m \in 1..n /\ i = m + (i - m)
      BY <1>2, <1>3, <1>6, <2>2
    <3>2. QED
      BY <1>3, <3>1
  <2>3. QED
    BY <2>1, <2>2
<1>7. \A i \in 1..m : phase[sent[i][1]] # "done" => sent[i][2] <= total[sent[i][1]]
  BY DEF WritesInv
<1>8. ASSUME NEW i \in 1..Len(sent'), phase'[sent'[i][1]] # "done"
      PROVE  sent'[i][2] <= total'[sent'[i][1]]
  <2>1. CASE i \in 1..m /\ sent'[i] = sent[i] /\ sent[i][1] # w
    BY <1>2, <1>5, <1>7, <1>8, <2>1
  <2>2. CASE i \in 1..m /\ sent'[i] = sent[i] /\ sent[i][1] = w
    <3>1. sent[i][2] <= t
      BY <1>3, <1>7, <2>2
    <3>2. QED
      BY <1>2, <1>5, <2>2, <3>1
  <2>3. CASE i - m \in 1..n /\ sent'[i] = <<w, t + (i - m)>>
    <3>1. sent'[i][1] = w /\ sent'[i][2] = t + (i - m)
      BY <2>3
    <3>2. QED
      BY <1>2, <1>5, <2>3, <3>1
  <2>4. QED
    BY <1>6, <2>1, <2>2, <2>3
<1>9. sent'[Len(sent')] = <<w, total'[w]>>
  BY <1>2, <1>3, <1>5
<1>10. ASSUME NEW v \in Writes \ overlapped', NEW i \in 1..Len(sent'), sent'[i][1] = v, v # w
       PROVE  /\ \A j \in 1..Len(sent') : sent'[j][1] = v => sent'[j][2] - sent'[i][2] = j - i
              /\ v \in InFlight' => sent'[Len(sent')] = <<v, total'[v]>>
  <2>1. \A j \in 1..Len(sent') : sent'[j][1] = v => j \in 1..m /\ sent'[j] = sent[j]
    <3> SUFFICES ASSUME NEW j \in 1..Len(sent'), sent'[j][1] = v
                 PROVE  j \in 1..m /\ sent'[j] = sent[j]
      OBVIOUS
    <3>1. sent'[j] # <<w, t + (j - m)>>
      BY <1>10
    <3>2. QED
      BY <1>6, <3>1
  <2>2. i \in 1..m /\ sent[i][1] = v
    BY <1>10, <2>1
  <2>3. \A j \in 1..Len(sent') : sent'[j][1] = v => sent'[j][2] - sent'[i][2] = j - i
    <3>1. sent'[i] = sent[i] /\ v \notin overlapped
      BY <1>4, <1>10, <2>1
    <3>2. \A j \in 1..m : sent[j][1] = v => sent[j][2] - sent[i][2] = j - i
      BY <2>2, <3>1 DEF WritesInv
    <3>3. QED
      BY <2>1, <3>1, <3>2
  <2>4. v \notin InFlight'
    <3>1. v \in Ops /\ Direction(v) = Direction(w)
      BY StreamAssumption DEF Ops, Direction
    <3>2. v \notin InFlight
      BY <1>2, <1>3, <1>4, <1>10, <3>1 DEF OverlapInv, InFlight
    <3>3. QED
      BY <1>1, <1>2, <2>2, <3>1, <3>2 DEF Advance
  <2>5. QED
    BY <2>3, <2>4
<1>11. ASSUME w \notin overlapped', NEW i \in 1..Len(sent'), sent'[i][1] = w
       PROVE  sent'[i][2] = t + (i - m)
  <2>1. CASE i - m \in 1..n /\ sent'[i] = <<w, t + (i - m)>>
    BY <2>1
  <2>2. CASE i \in 1..m /\ sent'[i] = sent[i]
    <3>1. w \in InFlight
      BY <1>2, <1>3 DEF InFlight
    <3>2. sent[m] = <<w, t>> /\ m \in 1..m
      BY <1>2, <1>4, <1>11, <2>2, <3>1 DEF WritesInv
    <3>3. sent[m][1] = w /\ sent[m][2] = t
      BY <3>2
    <3>4. sent[m][2] - sent[i][2] = m - i
      <4>1. \A j \in 1..m : sent[j][1] = w => sent[j][2] - sent[i][2] = j - i
        BY <1>4, <1>11, <2>2 DEF WritesInv
      <4>2. sent[m][1] = w => sent[m][2] - sent[i][2] = m - i
        BY <3>2, <4>1
      <4>3. QED
        BY <3>3, <4>2
    <3>5. sent[i][2] \in Nat /\ t \in Nat /\ m \in Nat /\ i \in Nat
      BY <1>2, <2>2
    <3>6. sent[i][2] = t + (i - m)
      BY <3>3, <3>4, <3>5
    <3>7. QED
      BY <2>2, <3>6
  <2>3. QED
    BY <1>6, <2>1, <2>2
<1>12. ASSUME w \notin overlapped', NEW i \in 1..Len(sent'), sent'[i][1] = w
       PROVE  /\ \A j \in 1..Len(sent') : sent'[j][1] = w => sent'[j][2] - sent'[i][2] = j - i
              /\ w \in InFlight' => sent'[Len(sent')] = <<w, total'[w]>>
  <2>1. sent'[i][2] = t + (i - m)
    BY <1>11, <1>12
  <2>2. ASSUME NEW j \in 1..Len(sent'), sent'[j][1] = w
        PROVE  sent'[j][2] - sent'[i][2] = j - i
    <3>1. sent'[j][2] = t + (j - m)
      BY <1>11, <1>12, <2>2
    <3>2. (t + (j - m)) - (t + (i - m)) = j - i
      BY <1>2, <1>3
    <3>3. QED
      BY <2>1, <3>1, <3>2
  <2>3. QED
    BY <1>9, <2>2
<1>13. QED
  BY <1>8, <1>10, <1>12 DEF WritesInv

LEMMA NextKeepsWrites ==
    ASSUME IInv, Next
    PROVE  WritesInv'
<1>1. CASE \E w \in Writes, n \in 1..MaxLength : Send(w, n)
  BY <1>1, SendKeepsWrites
<1>2. CASE \A w \in Writes, n \in 1..MaxLength : ~Send(w, n)
  <2>1. (Arrive \/ Dropped \/ \E r \in Reads : Receive(r)) => sent' = sent
    BY DEF Arrive, Dropped, Receive
  <2>2. sent' = sent
    BY <1>2, <2>1, NextAdvances
  <2>3. QED
    BY <1>2, <2>2, SilentKeepsWrites
<1>3. QED
  BY <1>1, <1>2

-----------------------------------------------------------------------------
LEMMA NextKeepsIInv == IInv /\ [Next]_vars => IInv'
<1>1. SUFFICES ASSUME IInv, [Next]_vars
               PROVE  IInv'
  OBVIOUS
<1>2. CASE Next
  BY <1>1, <1>2, NextKeepsBase, NextKeepsReferences, NextAdvances, NextKeepsBytes,
     NextKeepsConnections, NextKeepsReads, NextKeepsWrites
  DEF IInv
<1>3. CASE UNCHANGED vars
  <2>1. UNCHANGED <<open, released, peerGone, arrived, inbox, sent, assigned, first, queue, phase,
                    some, length, total, buffer, ec, refcount, held, overlapped, straddled>>
    BY <1>3 DEF vars, io, connection, data, history
  <2>2. Base'
    BY <1>1, <2>1 DEF IInv, Base, TypeOK, QueueInv, ProgressInv
  <2>3. ReferencesInv' /\ OverlapInv' /\ BufferInv'
    BY <1>1, <2>1 DEF IInv, ReferencesInv, OverlapInv, BufferInv, InFlight
  <2>4. Taken' = Taken
    BY <2>1 DEF Taken
  <2>5. BytesInv'
    BY <1>1, <2>1, <2>4 DEF IInv, BytesInv, InboxIsLast, ReadAreTaken, ReadOnce, TakenAreRead
  <2>6. ConnectionInv' /\ ReadsInv'
    BY <1>1, <2>1, <2>4 DEF IInv, ConnectionInv, ReadsInv, Active, GoesOn, Consecutive
  <2>7. WritesInv'
    BY <1>1, <2>1 DEF IInv, WritesInv, InFlight
  <2>8. QED
    BY <2>2, <2>3, <2>5, <2>6, <2>7 DEF IInv
<1>4. QED
  BY <1>1, <1>2, <1>3

\* The strengthened invariant holds in every reachable state, TypeOK with it.
THEOREM IInvAlways == Spec => []IInv
  BY InitIInv, NextKeepsIInv, PTL DEF Spec

(***************************************************************************)
(* What a read has got is all that is in its buffer.                       *)
(***************************************************************************)
LEMMA GotIsBuffer ==
    ASSUME IInv, NEW r \in Reads
    PROVE  Got(r) = buffer[r] /\ Range(Got(r)) = {buffer[r][i] : i \in 1..Len(buffer[r])}
<1>1. buffer[r] \in Seq(1..MaxArrived)
  BY DEF IInv, Base, TypeOK
<1>2. phase[r] # "done" => SubSeq(buffer[r], 1, total[r]) = buffer[r]
  BY <1>1, SubSeqFull DEF IInv, BufferInv
<1>3. Got(r) = buffer[r]
  BY <1>2 DEF Got
<1>4. QED
  BY <1>1, <1>3, LenProperties DEF Range

\* However reads interleave, fail, are cancelled or have their buffers cut: no
\* byte is read twice, and none of an open connection is lost.
THEOREM EachByteOnceAlways == Spec => []EachByteOnce
<1>1. ASSUME IInv
      PROVE  EachByteOnce
  <2> SUFFICES ASSUME NEW b \in 1..arrived
               PROVE  LET readers == {r \in Reads : b \in Range(Got(r))} IN
                      IF b \in Range(inbox) THEN readers = {}
                      ELSE Cardinality(readers) \in (IF b < first THEN {0, 1} ELSE {1})
    BY DEF EachByteOnce
  <2> DEFINE readers == {r \in Reads : b \in Range(Got(r))}
  <2>1. /\ Len(inbox) \in Nat /\ arrived \in Nat /\ first \in Nat /\ Taken \in Int
    BY <1>1, BytesAreTyped
  <2>2. Range(inbox) = {inbox[i] : i \in 1..Len(inbox)}
    BY <1>1, LenProperties DEF IInv, Base, TypeOK, Range
  <2>3. b \in Range(inbox) <=> b > Taken
    <3>1. \A i \in 1..Len(inbox) : inbox[i] = Taken + i
      BY <1>1 DEF IInv, BytesInv, InboxIsLast
    <3>2. b > Taken => b - Taken \in 1..Len(inbox) /\ b = Taken + (b - Taken)
      BY <2>1 DEF Taken
    <3>3. b > Taken => b \in Range(inbox)
      BY <2>2, <3>1, <3>2
    <3>4. b \in Range(inbox) => b > Taken
      BY <2>1, <2>2, <3>1
    <3>5. QED
      BY <3>3, <3>4
  <2>4. \A r \in Reads : r \in readers <=> \E i \in 1..Len(buffer[r]) : buffer[r][i] = b
    BY <1>1, GotIsBuffer
  <2>5. \A r, q \in readers : r = q
    BY <1>1, <2>4 DEF IInv, BytesInv, ReadOnce
  <2>6. CASE b > Taken
    <3>1. readers = {}
      BY <1>1, <2>1, <2>4, <2>6 DEF IInv, BytesInv, ReadAreTaken
    <3>2. QED
      BY <2>3, <2>6, <3>1
  <2>7. CASE ~(b > Taken)
    <3>1. b >= first => readers # {}
      <4>1. b >= first => b \in first..Taken
        BY <2>1, <2>7
      <4>2. QED
        BY <1>1, <2>4, <4>1 DEF IInv, BytesInv, TakenAreRead
    <3>2. readers = {} => Cardinality(readers) = 0
      BY FS_EmptySet
    <3>3. readers # {} => Cardinality(readers) = 1
      <4>1. ASSUME readers # {}
            PROVE  \E r : readers = {r}
        BY <2>5, <4>1
      <4>2. QED
        BY <4>1, FS_Singleton
    <3>4. b < first \/ b >= first
      BY <2>1
    <3>5. Cardinality(readers) \in (IF b < first THEN {0, 1} ELSE {1})
      BY <2>1, <3>1, <3>2, <3>3
    <3>6. QED
      BY <2>3, <2>7, <3>5
  <2>8. QED
    BY <2>6, <2>7
<1>2. QED
  BY <1>1, IInvAlways, PTL

\* No read mixes two connections unless it outlived the first between two steps.
THEOREM OneConnectionAlways == Spec => []OneConnection
<1>1. ASSUME IInv
      PROVE  OneConnection
  BY <1>1, GotIsBuffer DEF OneConnection, IInv, ConnectionInv
<1>2. QED
  BY <1>1, IInvAlways, PTL

\* An operation that shares its direction with no other moves what is next to
\* each other in the stream.
THEOREM AloneIsContiguousAlways == Spec => []AloneIsContiguous
<1>1. ASSUME IInv
      PROVE  AloneIsContiguous
  <2>1. \A r \in Reads \ (overlapped \cup straddled) : Consecutive(Got(r))
    BY <1>1, GotIsBuffer DEF IInv, ReadsInv
  <2>2. DOMAIN sent = 1..Len(sent)
    BY <1>1, LenProperties DEF IInv, Base, TypeOK
  <2>3. \A w \in Writes \ overlapped :
          \A i, j \in PlacesIn(w) : sent[j][2] - sent[i][2] = j - i
    BY <1>1, <2>2 DEF IInv, WritesInv, PlacesIn
  <2>4. QED
    BY <2>1, <2>3 DEF AloneIsContiguous
<1>2. QED
  BY <1>1, IInvAlways, PTL

\* The string being written is neither freed nor changed in place, whatever the
\* script drops.
THEOREM WriteDataIntactAlways == Spec => []WriteDataIntact
<1>1. ASSUME IInv
      PROVE  WriteDataIntact
  BY <1>1 DEF IInv, ReferencesInv, WriteDataIntact
<1>2. QED
  BY <1>1, IInvAlways, PTL

(***************************************************************************)
(* An operation ends by its handler only, once it does not go on.          *)
(***************************************************************************)
LEMMA EndsByItsHandler ==
    ASSUME IInv, Next, NEW o \in InFlight, phase'[o] = "done"
    PROVE  phase[o] = "moved" /\ ~GoesOn(o)
<1> USE DEF IInv, Base, TypeOK
<1>1. o \in Ops /\ phase[o] \in {"waiting", "moved"}
  BY DEF InFlight
<1>2. ASSUME NEW p \in Ops, \E f \in {"waiting", "moved"} : phase' = [phase EXCEPT ![p] = f]
      PROVE  FALSE
  BY <1>1, <1>2
<1>3. ASSUME NEW p \in Ops, NEW n, NEW e, Moved(p, n, e)
      PROVE  FALSE
  BY <1>2, <1>3 DEF Moved
<1>4. ASSUME NEW p \in Ops, NEW n, Step(p, n)
      PROVE  FALSE
  BY <1>2, <1>4 DEF Step
<1>5. ASSUME phase' = phase
      PROVE  FALSE
  BY <1>1, <1>5
<1>6. ASSUME AbortWaiting
      PROVE  FALSE
  BY <1>1, <1>6 DEF AbortWaiting
<1>7. ASSUME NEW p \in Ops, phase[p] = "moved", ~GoesOn(p), Forgotten(p)
      PROVE  phase[o] = "moved" /\ ~GoesOn(o)
  BY <1>1, <1>7 DEF Forgotten
<1>8. CASE \/ \E r \in Reads : ResolveRead(r)
           \/ \E w \in Writes : ResolveWrite(w)
  BY <1>7, <1>8 DEF ResolveRead, ResolveWrite, Ops
<1>9. CASE \/ \E r \in Reads : Receive(r) \/ ReceiveEnd(r)
           \/ \E w \in Writes, n \in 1..MaxLength : Send(w, n)
           \/ \E w \in Writes : SendFails(w)
  BY <1>3, <1>9 DEF Receive, ReceiveEnd, Send, SendFails, Ops
<1>10. CASE \/ \E r \in Reads, n \in 1..MaxLength, s \in BOOLEAN : Read(r, n, s)
            \/ \E w \in Writes, n \in 0..MaxLength, s \in BOOLEAN : Write(w, n, s)
            \/ \E p \in Ops : Continue(p)
  BY <1>4, <1>10 DEF Read, Write, Continue, Ops
<1>11. CASE \/ Arrive \/ PeerLeaves \/ (\E w \in Writes : LetGo(w))
            \/ \E argument \in Arguments : Assign(argument)
  BY <1>5, <1>11 DEF Arrive, PeerLeaves, LetGo, Assign
<1>12. CASE Cancel \/ Close \/ Release
  BY <1>6, <1>12 DEF Cancel, Close, Release
<1>13. QED
  BY <1>8, <1>9, <1>10, <1>11, <1>12 DEF Next

\* Whoever reads or writes all gets all or an error, and whoever asks for some
\* gets some or an error.
THEOREM FullUnlessErrorAlways == Spec => FullUnlessError
<1> DEFINE Full ==
        \A o \in InFlight :
            phase'[o] = "done" /\ ec[o] = "ok" =>
                IF some[o] THEN length[o] > 0 => total[o] > 0 ELSE total[o] = length[o]
<1>1. ASSUME IInv, Next
      PROVE  Full
  <2> SUFFICES ASSUME NEW o \in InFlight, phase'[o] = "done", ec[o] = "ok"
               PROVE  IF some[o] THEN length[o] > 0 => total[o] > 0 ELSE total[o] = length[o]
    OBVIOUS
  <2>1. phase[o] = "moved" /\ ~GoesOn(o)
    BY <1>1, EndsByItsHandler
  <2>2. o \in Ops /\ total[o] \in 0..MaxLength /\ length[o] \in 0..MaxLength /\ some[o] \in BOOLEAN
    BY <1>1 DEF InFlight, IInv, Base, TypeOK
  <2>3. total[o] <= length[o]
    BY <1>1, <2>2 DEF IInv, Base, ProgressInv
  <2>4. CASE some[o]
    BY <1>1, <2>1, <2>2, <2>4 DEF IInv, Base, ProgressInv
  <2>5. CASE ~some[o]
    BY <2>1, <2>2, <2>3, <2>5, StreamAssumption DEF GoesOn
  <2>6. QED
    BY <2>4, <2>5
<1>2. ASSUME IInv, [Next]_vars
      PROVE  [Full]_vars
  BY <1>1, <1>2
<1>3. QED
  BY <1>2, IInvAlways, PTL DEF Spec, FullUnlessError
=============================================================================
