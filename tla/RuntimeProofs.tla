---------------------------- MODULE RuntimeProofs ----------------------------
(***************************************************************************)
(* What all the objects rest on: that an I/O object outlives its           *)
(* operations (KeepAlive), the event loop (Service), the references that   *)
(* callbacks and arguments hold (Callbacks), and the datagrams of several  *)
(* sockets with what recv_handler remembers of them (Datagram).            *)
(*                                                                         *)
(* The four specifications share no state and are proved one by one.       *)
(* Init, Next and Spec are those of KeepAlive; the other modules name      *)
(* theirs after themselves.                                                *)
(***************************************************************************)
EXTENDS KeepAlive, Service, Callbacks, Datagram,
        HandlerCountFacts, SequenceTheorems, FiniteSetTheorems

(***************************************************************************)
(* Facts about sequences that the stacks and queues of Service and         *)
(* Datagram need: a sequence that is not empty, and what is left when its  *)
(* first element is taken.                                                 *)
(***************************************************************************)
LEMMA HeadAndTail ==
    ASSUME NEW S, NEW q \in Seq(S), q # <<>>
    PROVE  /\ Len(q) \in Nat \ {0} /\ Head(q) = q[1] /\ q[1] \in S
           /\ Tail(q) \in Seq(S) /\ Len(Tail(q)) = Len(q) - 1
           /\ \A i \in 1..Len(q) - 1 : Tail(q)[i] = q[i + 1]
<1>1. Len(q) \in Nat \ {0} /\ Head(q) = q[1]
  BY EmptySeq
<1>2. QED
  BY <1>1, HeadTailProperties

\* A sequence that is not empty, and what is left when its last element goes.
LEMMA LastAndFront ==
    ASSUME NEW S, NEW q \in Seq(S), q # <<>>
    PROVE  /\ Len(q) \in Nat \ {0} /\ Last(q) = q[Len(q)] /\ Last(q) \in S
           /\ Front(q) \in Seq(S) /\ Len(Front(q)) = Len(q) - 1
           /\ \A i \in 1..Len(q) - 1 : Front(q)[i] = q[i]
<1>1. Len(q) \in Nat \ {0} /\ \A i \in 1..Len(q) : q[i] \in S
  BY EmptySeq, LenProperties
<1> DEFINE n == Len(q) - 1
<1>2. n \in Nat /\ \A i \in 1..n : q[i] \in S
  BY <1>1
<1>3. /\ SubSeq(q, 1, n) \in Seq(S)
      /\ Len(SubSeq(q, 1, n)) = IF 1 <= n THEN n - 1 + 1 ELSE 0
      /\ \A i \in 1..n - 1 + 1 : SubSeq(q, 1, n)[i] = q[1 + i - 1]
  BY <1>2, SubSeqProperties
<1>4. (IF 1 <= n THEN n - 1 + 1 ELSE 0) = n
  <2> HIDE DEF n
  <2>1. QED
    BY <1>2
<1>5. \A i \in 1..n : i \in 1..n - 1 + 1 /\ 1 + i - 1 = i
  BY <1>2
<1>6. QED
  BY <1>1, <1>3, <1>4, <1>5 DEF Front, Last

\* The elements of a sequence, by their places.
LEMMA InRange ==
    ASSUME NEW S, NEW q \in Seq(S)
    PROVE  \A x : x \in Range(q) <=> \E i \in 1..Len(q) : q[i] = x
  BY LenProperties DEF Range

-----------------------------------------------------------------------------
(***************************************************************************)
(* KeepAlive: an I/O object outlives its operations, for every width of    *)
(* the counter and every number of simultaneous operations.                *)
(***************************************************************************)

(***************************************************************************)
(* A fresh object is balanced: no count, no operation, no self reference.  *)
(***************************************************************************)
LEMMA InitBalanced == Init => IInv
  BY ModulusAssumption
  DEF Init, IInv, TypeOK, CountBalanced, Balanced, CountType

(***************************************************************************)
(* The increment of an operation that starts and the decrement of          *)
(* future::resolve both keep the balance.                                  *)
(***************************************************************************)
LEMMA StepBalanced == IInv /\ [Next]_vars => IInv'
<1>1. SUFFICES ASSUME IInv, [Next]_vars
               PROVE  IInv'
  OBVIOUS
<1> USE <1>1 DEF IInv, TypeOK, CountBalanced
<1>2. CASE Begin
  BY <1>2, BalancedBegin, CountIncValue DEF Begin
<1>3. CASE End
  BY <1>3, BalancedEnd, CountDecValue DEF End
<1>4. CASE UNCHANGED vars
  BY <1>4 DEF vars
<1>5. QED
  BY <1>1, <1>2, <1>3, <1>4 DEF Next

(***************************************************************************)
(* The count is always balanced against operations and self references     *)
(* (base::handler_count_inc and handler_count_dec with their callers).     *)
(***************************************************************************)
THEOREM BalancedAlways == Spec => []IInv
  BY InitBalanced, StepBalanced, PTL DEF Spec

(***************************************************************************)
(* An I/O object references itself exactly while it has an operation in    *)
(* flight, however often its 16-bit count has wrapped.                     *)
(***************************************************************************)
THEOREM AliveWhileInFlightAlways == Spec => []AliveWhileInFlight
<1>1. IInv => AliveWhileInFlight
  BY BalancedKeepsAlive DEF IInv, TypeOK, CountBalanced, AliveWhileInFlight
<1>2. QED
  BY <1>1, BalancedAlways, PTL

-----------------------------------------------------------------------------
(***************************************************************************)
(* Service: the stack of loops and callbacks, the queue, and when the loop *)
(* stops itself.                                                           *)
(***************************************************************************)

\* A loop or a callback on the stack.
Frames == [type : {"loop", "handler", "inline"}, what : Methods \cup Handlers, count : Nat]

\* The methods whose loop invokes at most one handler.
Once == {"runOne", "pollOne"}

\* The stack begins with a loop, and what a loop is waiting for is the handler
\* above it, of which runOne and pollOne have not had one before.
FramesFit ==
    /\ frames # <<>> => frames[1].type = "loop"
    /\ \A i \in 1..Len(frames) - 1 : frames[i].type = "loop" =>
          /\ frames[i + 1].type = "handler"
          /\ frames[i].what \in Once => frames[i].count = 0
    /\ \A i \in 2..Len(frames) : frames[i].type = "handler" => frames[i - 1].type = "loop"

\* A callback on the stack is running, and is there once.
FramesRun ==
    /\ \A i \in 1..Len(frames) :
          /\ frames[i].type = "handler" => hstate[frames[i].what] = "running"
          /\ frames[i].type = "inline" => hstate[frames[i].what] = "inline"
    /\ \A i, j \in 1..Len(frames) :
          i # j /\ frames[i].type # "loop" /\ frames[j].type # "loop"
            => frames[i].what # frames[j].what

\* What is queued is ready, and queued once.
QueueReady ==
    /\ \A i \in 1..Len(queue) : hstate[queue[i]] = "ready"
    /\ \A i, j \in 1..Len(queue) : i # j => queue[i] # queue[j]

ServiceIInv ==
    /\ ServiceTypeOK /\ frames \in Seq(Frames)
    /\ FramesFit /\ FramesRun /\ QueueReady
    /\ OwnStopLeavesNothing /\ WaitingLoopHasWork

\* What ServiceTypeOK says of a frame.
IsFrame(f) ==
    \/ /\ f.type = "loop" /\ f.what \in Methods
       /\ f.count \in IF f.what \in Once THEN {0, 1} ELSE Nat
    \/ f.type \in {"handler", "inline"} /\ f.what \in Handlers

FramesTyped == frames \in Seq(Frames) /\ \A i \in 1..Len(frames) : IsFrame(frames[i])

-----------------------------------------------------------------------------
\* A new io_service: nothing queued, no loop, not stopped.
LEMMA InitService == ServiceInit => ServiceIInv
<1>1. SUFFICES ASSUME ServiceInit
               PROVE  ServiceIInv
  OBVIOUS
<1> USE <1>1 DEF ServiceInit
<1>2. /\ queue \in Seq(Handlers) /\ frames \in Seq(Frames)
      /\ Len(frames) = 0 /\ Len(queue) = 0
  BY EmptySeq
<1>3. ServiceTypeOK
  <2>1. \A i \in 1..Len(frames) : FALSE
    BY <1>2
  <2>2. hstate \in [Handlers -> {"none", "pending", "ready", "running", "inline", "done", "skipped"}]
    OBVIOUS
  <2>3. QED
    BY <1>2, <2>1, <2>2 DEF ServiceTypeOK
<1>4. FramesFit /\ FramesRun /\ QueueReady
  BY <1>2 DEF FramesFit, FramesRun, QueueReady
<1>5. OwnStopLeavesNothing /\ WaitingLoopHasWork
  BY DEF OwnStopLeavesNothing, WaitingLoopHasWork, InLoop
<1>6. QED
  BY <1>2, <1>3, <1>4, <1>5 DEF ServiceIInv

(***************************************************************************)
(* The innermost frame, when there is one.                                 *)
(***************************************************************************)
LEMMA InnermostFrame ==
    ASSUME ServiceIInv, frames # <<>>
    PROVE  /\ Len(frames) \in Nat \ {0} /\ Len(frames) \in 1..Len(frames)
           /\ Last(frames) = frames[Len(frames)] /\ Last(frames) \in Frames
           /\ frames \in Seq(Frames) /\ FramesTyped
<1>1. frames \in Seq(Frames)
  BY DEF ServiceIInv
<1>2. /\ Len(frames) \in Nat \ {0}
      /\ Last(frames) = frames[Len(frames)] /\ Last(frames) \in Frames
  BY <1>1, LastAndFront
<1>3. FramesTyped
  BY <1>1 DEF FramesTyped, IsFrame, Once, ServiceIInv, ServiceTypeOK
<1>4. QED
  BY <1>1, <1>2, <1>3

(***************************************************************************)
(* A callback that runs is called by a loop, the handler of which is work. *)
(***************************************************************************)
LEMMA CallbackIsWork ==
    ASSUME ServiceIInv, frames # <<>>, ~InLoop
    PROVE  Outstanding(hstate) # {}
<1>1. /\ Len(frames) \in Nat \ {0} /\ frames[Len(frames)].type # "loop" /\ FramesTyped
  BY InnermostFrame DEF InLoop
<1>2. frames[1].type = "loop"
  BY DEF ServiceIInv, FramesFit
<1>3. Len(frames) # 1
  BY <1>1, <1>2
<1>4. 1 \in 1..Len(frames) - 1 /\ 2 \in 1..Len(frames) /\ 1 + 1 = 2
  <2> DEFINE n == Len(frames)
  <2>1. n \in Nat /\ n # 0 /\ n # 1
    BY <1>1, <1>3
  <2> HIDE DEF n
  <2>2. 1 \in 1..n - 1 /\ 2 \in 1..n
    BY <2>1
  <2>3. QED
    BY <2>2 DEF n
<1>5. frames[2].type = "handler"
  BY <1>2, <1>4 DEF ServiceIInv, FramesFit
<1>6. frames[2].what \in Handlers /\ hstate[frames[2].what] = "running"
  BY <1>1, <1>4, <1>5 DEF ServiceIInv, FramesRun, FramesTyped, IsFrame
<1>7. QED
  BY <1>6 DEF Outstanding

-----------------------------------------------------------------------------
(***************************************************************************)
(* Frames fit together when one is pushed, popped, or has its handler      *)
(* counted.                                                                *)
(***************************************************************************)
LEMMA PushFits ==
    ASSUME ServiceIInv, NEW f \in Frames, IsFrame(f), frames' = Append(frames, f),
           frames = <<>> => f.type = "loop",
           f.type = "handler" => InLoop,
           InLoop => /\ f.type = "handler"
                     /\ Last(frames).what \in Once => Last(frames).count = 0
    PROVE  FramesTyped' /\ FramesFit'
<1> DEFINE n == Len(frames)
<1>1. frames \in Seq(Frames) /\ FramesTyped
  BY DEF ServiceIInv, ServiceTypeOK, FramesTyped, IsFrame, Once
<1>2. /\ frames' \in Seq(Frames) /\ Len(frames') = n + 1 /\ frames'[n + 1] = f
      /\ \A i \in 1..n : frames'[i] = frames[i]
      /\ n \in Nat
  BY <1>1, AppendProperties, LenProperties
<1>3. \A i \in 1..Len(frames') : i \in 1..n \/ i = n + 1
  BY <1>2
<1>4. FramesTyped'
  BY <1>1, <1>2, <1>3 DEF FramesTyped
<1>5. n # 0 => /\ n \in 1..n /\ frames # <<>>
               /\ Last(frames) = frames[n] /\ (InLoop <=> frames[n].type = "loop")
  <2>1. n # 0 => n \in 1..n /\ frames # <<>>
    BY <1>2, EmptySeq
  <2>2. frames # <<>> => Last(frames) = frames[n]
    BY <1>1, LastAndFront
  <2>3. QED
    BY <2>1, <2>2 DEF InLoop
<1>6. n = 0 => frames = <<>>
  BY <1>1, EmptySeq
<1>7. FramesFit
  BY DEF ServiceIInv
<1>8. frames'[1].type = "loop"
  <2>1. CASE n = 0
    BY <1>2, <1>6, <2>1
  <2>2. CASE n # 0
    BY <1>2, <1>5, <1>7, <2>2 DEF FramesFit
  <2>3. QED
    BY <2>1, <2>2
<1>9. ASSUME NEW i \in 1..n, frames'[i].type = "loop"
      PROVE  /\ frames'[i + 1].type = "handler"
             /\ frames'[i].what \in Once => frames'[i].count = 0
  <2>1. CASE i = n
    BY <1>2, <1>5, <1>9, <2>1
  <2>2. CASE i # n
    <3>1. i \in 1..n - 1 /\ i + 1 \in 1..n
      BY <1>2, <2>2
    <3>2. QED
      BY <1>2, <1>7, <1>9, <3>1 DEF FramesFit
  <2>3. QED
    BY <2>1, <2>2
<1>10. ASSUME NEW i \in 2..n + 1, frames'[i].type = "handler"
       PROVE  frames'[i - 1].type = "loop"
  <2>1. CASE i = n + 1
    BY <1>2, <1>5, <1>10, <2>1
  <2>2. CASE i # n + 1
    <3>1. i \in 2..n /\ i \in 1..n /\ i - 1 \in 1..n
      BY <1>2, <2>2
    <3>2. QED
      BY <1>2, <1>7, <1>10, <3>1 DEF FramesFit
  <2>3. QED
    BY <2>1, <2>2
<1>11. Len(frames') - 1 = n
  BY <1>2
<1>12. QED
  BY <1>2, <1>4, <1>8, <1>9, <1>10, <1>11 DEF FramesFit

\* Without its last frame the stack is still a stack.
LEMMA PopFits ==
    ASSUME ServiceIInv, frames # <<>>, frames' = Front(frames)
    PROVE  /\ FramesTyped' /\ FramesFit' /\ Len(frames') = Len(frames) - 1
           /\ \A i \in 1..Len(frames') : i \in 1..Len(frames) /\ frames'[i] = frames[i]
<1>1. /\ frames' \in Seq(Frames) /\ Len(frames') = Len(frames) - 1
      /\ Len(frames) \in Nat \ {0}
      /\ \A i \in 1..Len(frames) - 1 : frames'[i] = frames[i]
  BY LastAndFront DEF ServiceIInv
<1>2. FramesTyped /\ FramesFit
  BY InnermostFrame DEF ServiceIInv
<1>3. \A i \in 1..Len(frames') : i \in 1..Len(frames) /\ frames'[i] = frames[i]
  BY <1>1
<1>4. FramesTyped'
  BY <1>1, <1>2, <1>3 DEF FramesTyped
<1>5. frames' # <<>> => frames'[1].type = "loop"
  <2>1. frames' # <<>> => 1 \in 1..Len(frames')
    BY <1>1, EmptySeq
  <2>2. QED
    BY <1>2, <1>3, <2>1 DEF FramesFit
<1>6. \A i \in 1..Len(frames') - 1 : i \in 1..Len(frames') /\ i + 1 \in 1..Len(frames')
                                      /\ i \in 1..Len(frames) - 1
  BY <1>1
<1>7. \A i \in 2..Len(frames') : i \in 1..Len(frames') /\ i - 1 \in 1..Len(frames')
                                  /\ i \in 2..Len(frames)
  BY <1>1
<1>8. FramesFit'
  BY <1>2, <1>3, <1>5, <1>6, <1>7 DEF FramesFit
<1>9. QED
  BY <1>1, <1>3, <1>4, <1>8

\* The loop in the n-th frame counts the handler that was above it.
LEMMA CountedFits ==
    ASSUME ServiceIInv, NEW n \in 1..Len(frames),
           frames' = [SubSeq(frames, 1, n) EXCEPT ![n].count = @ + 1],
           frames[n].type = "loop",
           frames[n].what \in Once => frames[n].count = 0
    PROVE  /\ FramesTyped' /\ FramesFit' /\ Len(frames') = n
           /\ \A i \in 1..n : /\ i \in 1..Len(frames)
                              /\ frames'[i].type = frames[i].type
                              /\ frames'[i].what = frames[i].what
<1> DEFINE s == SubSeq(frames, 1, n)
           f == [frames[n] EXCEPT !.count = @ + 1]
<1>1. /\ frames # <<>> /\ frames \in Seq(Frames) /\ Len(frames) \in Nat /\ n \in Nat \ {0}
      /\ \A i \in 1..n : i \in 1..Len(frames) /\ frames[i] \in Frames
      /\ FramesTyped /\ FramesFit
  <2>1. frames \in Seq(Frames) /\ FramesTyped /\ FramesFit
    BY DEF ServiceIInv, ServiceTypeOK, FramesTyped, IsFrame, Once
  <2>2. Len(frames) \in Nat /\ n \in Nat \ {0} /\ \A i \in 1..Len(frames) : frames[i] \in Frames
    BY <2>1, LenProperties
  <2>3. frames # <<>>
    BY <2>2, EmptySeq
  <2>4. QED
    BY <2>1, <2>2, <2>3
<1>2. /\ s \in Seq(Frames) /\ Len(s) = n
      /\ \A i \in 1..n : s[i] = frames[i]
  <2>1. /\ s \in Seq(Frames)
        /\ Len(s) = IF 1 <= n THEN n - 1 + 1 ELSE 0
        /\ \A i \in 1..n - 1 + 1 : s[i] = frames[1 + i - 1]
    BY <1>1, SubSeqProperties
  <2>2. (IF 1 <= n THEN n - 1 + 1 ELSE 0) = n /\ \A i \in 1..n : i \in 1..n - 1 + 1 /\ 1 + i - 1 = i
    BY <1>1
  <2> HIDE DEF s
  <2>3. QED
    BY <2>1, <2>2
<1>3. /\ n \in 1..n /\ f \in Frames /\ f.type = frames[n].type /\ f.what = frames[n].what
      /\ f.count = frames[n].count + 1
  <2>1. n \in 1..n /\ frames[n] \in Frames
    BY <1>1
  <2>2. QED
    BY <2>1 DEF Frames
<1>4. frames' = [s EXCEPT ![n] = f]
  BY <1>2, <1>3
<1>5. /\ frames' \in Seq(Frames) /\ Len(frames') = n
      /\ \A i \in 1..n : frames'[i] = IF i = n THEN f ELSE frames[i]
  <2> HIDE DEF s, f
  <2>1. s \in Seq(Frames) /\ n \in 1..Len(s) /\ f \in Frames
    BY <1>2, <1>3
  <2>2. /\ [s EXCEPT ![n] = f] \in Seq(Frames) /\ Len([s EXCEPT ![n] = f]) = Len(s)
        /\ \A i \in 1..Len(s) : [s EXCEPT ![n] = f][i] = IF i = n THEN f ELSE s[i]
    BY <2>1, ExceptSeq
  <2>3. QED
    BY <1>2, <1>4, <2>2
<1>6. \A i \in 1..n : /\ i \in 1..Len(frames)
                      /\ frames'[i].type = frames[i].type
                      /\ frames'[i].what = frames[i].what
                      /\ i # n => frames'[i] = frames[i]
  BY <1>1, <1>3, <1>5
<1>7. IsFrame(f)
  <2>1. frames[n].count \in Nat /\ frames[n].what \in Methods
    <3>1. IsFrame(frames[n]) /\ frames[n] \in Frames
      BY <1>1 DEF FramesTyped
    <3>2. frames[n].what \in Methods
      BY <3>1 DEF IsFrame
    <3>3. frames[n].count \in Nat
      BY <3>1 DEF Frames
    <3>4. QED
      BY <3>2, <3>3
  <2>2. QED
    BY <1>3, <2>1 DEF IsFrame
<1>8. FramesTyped'
  <2>1. \A i \in 1..n : IsFrame(frames'[i])
    <3> HIDE DEF f
    <3>1. QED
      BY <1>1, <1>5, <1>7 DEF FramesTyped
  <2>2. QED
    BY <1>5, <2>1 DEF FramesTyped
<1>9. FramesFit'
  <2>1. frames'[1].type = "loop"
    <3>1. 1 \in 1..n
      BY <1>1
    <3>2. QED
      BY <1>1, <1>6, <3>1 DEF FramesFit
  <2>2. \A i \in 1..n - 1 : i \in 1..n /\ i + 1 \in 1..n /\ i # n /\ i \in 1..Len(frames) - 1
    BY <1>1
  <2>3. \A i \in 2..n : i \in 1..n /\ i - 1 \in 1..n /\ i \in 2..Len(frames)
    BY <1>1
  <2>4. ASSUME NEW i \in 1..n - 1, frames'[i].type = "loop"
        PROVE  /\ frames'[i + 1].type = "handler"
               /\ frames'[i].what \in Once => frames'[i].count = 0
    <3>1. frames'[i] = frames[i] /\ frames'[i + 1].type = frames[i + 1].type
      BY <1>6, <2>2
    <3>2. i \in 1..Len(frames) - 1 /\ frames[i].type = "loop"
      BY <2>2, <2>4, <3>1
    <3>3. /\ frames[i + 1].type = "handler"
          /\ frames[i].what \in Once => frames[i].count = 0
      <4>1. FramesFit
        BY DEF ServiceIInv
      <4>2. QED
        BY <3>2, <4>1 DEF FramesFit
    <3>4. QED
      <4> HIDE DEF s, f
      <4>1. QED
        BY <3>1, <3>3
  <2>5. \A i \in 2..n : frames'[i].type = "handler" => frames'[i - 1].type = "loop"
    <3>1. FramesFit
      BY DEF ServiceIInv
    <3>2. \A i \in 2..n : /\ i \in 2..Len(frames) /\ frames'[i].type = frames[i].type
                          /\ frames'[i - 1].type = frames[i - 1].type
      BY <1>6, <2>3
    <3> HIDE DEF s, f
    <3>3. QED
      BY <3>1, <3>2 DEF FramesFit
  <2>6. QED
    BY <1>5, <2>1, <2>4, <2>5 DEF FramesFit
<1>10. QED
  BY <1>5, <1>6, <1>8, <1>9

(***************************************************************************)
(* Only a callback that runs is on the stack.                              *)
(***************************************************************************)
LEMMA NotOnStack ==
    ASSUME ServiceIInv, NEW h \in Handlers, hstate[h] \notin {"running", "inline"},
           NEW i \in 1..Len(frames), frames[i].type # "loop"
    PROVE  frames[i].what # h
<1>1. frames[i].type \in {"handler", "inline"}
  BY DEF ServiceIInv, ServiceTypeOK
<1>2. QED
  BY <1>1 DEF ServiceIInv, FramesRun

\* Frames that stay keep what they run.
LEMMA RunKept ==
    ASSUME ServiceIInv,
           \A i \in 1..Len(frames') :
             /\ i \in 1..Len(frames)
             /\ frames'[i].type = frames[i].type /\ frames'[i].what = frames[i].what
             /\ frames[i].type # "loop" => hstate'[frames[i].what] = hstate[frames[i].what]
    PROVE  FramesRun'
<1>1. FramesRun
  BY DEF ServiceIInv
<1>2. ASSUME NEW i \in 1..Len(frames')
      PROVE  /\ frames'[i].type = "handler" => hstate'[frames'[i].what] = "running"
             /\ frames'[i].type = "inline" => hstate'[frames'[i].what] = "inline"
  BY <1>1, <1>2 DEF FramesRun
<1>3. ASSUME NEW i \in 1..Len(frames'), NEW j \in 1..Len(frames'),
             i # j, frames'[i].type # "loop", frames'[j].type # "loop"
      PROVE  frames'[i].what # frames'[j].what
  BY <1>1, <1>3 DEF FramesRun
<1>4. QED
  BY <1>2, <1>3 DEF FramesRun

\* A callback h that did not run is pushed, as a handler or inline.
LEMMA PushRuns ==
    ASSUME ServiceIInv, NEW h \in Handlers, hstate[h] \notin {"running", "inline"},
           NEW t \in {"handler", "inline"}, frames' = Append(frames, Frame(t, h)),
           hstate' = [hstate EXCEPT ![h] = IF t = "handler" THEN "running" ELSE "inline"]
    PROVE  FramesRun'
<1> DEFINE n == Len(frames)
           f == Frame(t, h)
<1>1. f \in Frames /\ f.type = t /\ f.what = h
  BY DEF Frame, Frames
<1>2. /\ n \in Nat /\ Len(frames') = n + 1 /\ frames'[n + 1] = f
      /\ \A i \in 1..n : frames'[i] = frames[i]
  BY <1>1, AppendProperties, LenProperties DEF ServiceIInv
<1> HIDE DEF f, n
<1>3. \A i \in 1..n + 1 : i \in 1..n \/ i = n + 1
  BY <1>2
<1>4. \A i \in 1..n : frames[i].type # "loop" => frames[i].what # h
  BY NotOnStack DEF n
<1>5. \A i \in 1..n : frames[i].type # "loop" => frames[i].what \in Handlers
  BY DEF n, ServiceIInv, ServiceTypeOK
<1>6. /\ hstate'[h] = IF t = "handler" THEN "running" ELSE "inline"
      /\ \A x \in Handlers : x # h => hstate'[x] = hstate[x]
  BY DEF ServiceIInv, ServiceTypeOK
<1>7. FramesRun
  BY DEF ServiceIInv
<1>8. ASSUME NEW i \in 1..n + 1
      PROVE  /\ frames'[i].type = "handler" => hstate'[frames'[i].what] = "running"
             /\ frames'[i].type = "inline" => hstate'[frames'[i].what] = "inline"
  <2>1. CASE i = n + 1
    BY <1>1, <1>2, <1>6, <2>1
  <2>2. CASE i \in 1..n
    BY <1>2, <1>4, <1>5, <1>6, <1>7, <2>2 DEF FramesRun, n
  <2>3. QED
    BY <1>3, <2>1, <2>2
<1>9. ASSUME NEW i \in 1..n + 1, NEW j \in 1..n + 1,
             i # j, frames'[i].type # "loop", frames'[j].type # "loop"
      PROVE  frames'[i].what # frames'[j].what
  <2>1. CASE i = n + 1
    BY <1>1, <1>2, <1>3, <1>4, <1>9, <2>1
  <2>2. CASE j = n + 1
    BY <1>1, <1>2, <1>3, <1>4, <1>9, <2>2
  <2>3. CASE i \in 1..n /\ j \in 1..n
    BY <1>2, <1>7, <1>9, <2>3 DEF FramesRun, n
  <2>4. QED
    BY <1>3, <2>1, <2>2, <2>3
<1>10. QED
  BY <1>2, <1>8, <1>9 DEF FramesRun

-----------------------------------------------------------------------------
(***************************************************************************)
(* The queue: a handler is appended, or the first one is taken out.        *)
(***************************************************************************)
LEMMA EnqueuedReady ==
    ASSUME ServiceIInv, NEW h \in Handlers, hstate[h] # "ready",
           hstate' = [hstate EXCEPT ![h] = "ready"], queue' = Append(queue, h)
    PROVE  queue' \in Seq(Handlers) /\ QueueReady'
<1> DEFINE n == Len(queue)
<1>1. queue \in Seq(Handlers) /\ QueueReady
  BY DEF ServiceIInv, ServiceTypeOK
<1>2. /\ n \in Nat /\ queue' \in Seq(Handlers) /\ Len(queue') = n + 1
      /\ queue'[n + 1] = h
      /\ \A i \in 1..n : queue'[i] = queue[i] /\ queue[i] \in Handlers
  BY <1>1, AppendProperties, LenProperties
<1>3. \A i \in 1..n : queue[i] # h
  BY <1>1 DEF QueueReady
<1>4. /\ hstate'[h] = "ready" /\ \A x \in Handlers : x # h => hstate'[x] = hstate[x]
  BY DEF ServiceIInv, ServiceTypeOK
<1>5. \A i \in 1..n + 1 : i \in 1..n \/ i = n + 1
  BY <1>2
<1>6. \A i \in 1..n + 1 : hstate'[queue'[i]] = "ready"
  BY <1>1, <1>2, <1>3, <1>4, <1>5 DEF QueueReady
<1>7. \A i, j \in 1..n + 1 : i # j => queue'[i] # queue'[j]
  BY <1>1, <1>2, <1>3, <1>5 DEF QueueReady
<1>8. QED
  BY <1>2, <1>6, <1>7 DEF QueueReady

\* The handler that poll and run take next is ready.
LEMMA FirstIsReady ==
    ASSUME ServiceIInv, queue # <<>>
    PROVE  Head(queue) \in Handlers /\ hstate[Head(queue)] = "ready"
<1>1. Len(queue) \in Nat \ {0} /\ Head(queue) = queue[1] /\ queue[1] \in Handlers
  BY HeadAndTail DEF ServiceIInv, ServiceTypeOK
<1>2. 1 \in 1..Len(queue)
  BY <1>1
<1>3. QED
  BY <1>1, <1>2 DEF ServiceIInv, QueueReady

\* The first handler is taken out and becomes x.
LEMMA DequeuedReady ==
    ASSUME ServiceIInv, queue # <<>>, queue' = Tail(queue), NEW x,
           hstate' = [hstate EXCEPT ![Head(queue)] = x]
    PROVE  queue' \in Seq(Handlers) /\ QueueReady'
<1>1. queue \in Seq(Handlers) /\ QueueReady
  BY DEF ServiceIInv, ServiceTypeOK
<1>2. /\ Len(queue) \in Nat \ {0} /\ Head(queue) = queue[1] /\ queue' \in Seq(Handlers)
      /\ Len(queue') = Len(queue) - 1
      /\ \A i \in 1..Len(queue) - 1 : queue'[i] = queue[i + 1]
  BY <1>1, HeadAndTail
<1>3. /\ \A i \in 1..Len(queue') : i + 1 \in 1..Len(queue) /\ i + 1 # 1
      /\ \A i, j \in 1..Len(queue') : i # j => i + 1 # j + 1
      /\ 1 \in 1..Len(queue)
  BY <1>2
<1>4. \A i \in 1..Len(queue') : /\ queue'[i] = queue[i + 1] /\ queue[i + 1] # Head(queue)
                                /\ queue[i + 1] \in Handlers
  BY <1>1, <1>2, <1>3, ElementOfSeq DEF QueueReady
<1>5. \A h \in Handlers : h # Head(queue) => hstate'[h] = hstate[h]
  BY DEF ServiceIInv, ServiceTypeOK
<1>6. \A i \in 1..Len(queue') : hstate'[queue'[i]] = "ready"
  BY <1>1, <1>3, <1>4, <1>5 DEF QueueReady
<1>7. \A i, j \in 1..Len(queue') : i # j => queue'[i] # queue'[j]
  BY <1>1, <1>3, <1>4 DEF QueueReady
<1>8. QED
  BY <1>2, <1>6, <1>7 DEF QueueReady

\* The queue is as it was, and no handler in it has changed.
LEMMA StillReady ==
    ASSUME ServiceIInv, queue' = queue,
           \A h \in Handlers : hstate[h] = "ready" => hstate'[h] = "ready"
    PROVE  queue' \in Seq(Handlers) /\ QueueReady'
<1>1. queue \in Seq(Handlers) /\ \A i \in 1..Len(queue) : queue[i] \in Handlers
  BY LenProperties DEF ServiceIInv, ServiceTypeOK
<1>2. QED
  BY <1>1 DEF ServiceIInv, QueueReady

-----------------------------------------------------------------------------
(***************************************************************************)
(* The parts of the invariant, put together in the next state.             *)
(***************************************************************************)
States == {"none", "pending", "ready", "running", "inline", "done", "skipped"}

\* ServiceTypeOK from what is known of each variable.
LEMMA TypesAgain ==
    ASSUME FramesTyped', hstate' \in [Handlers -> States], queue' \in Seq(Handlers),
           stopped' \in BOOLEAN, meant' \in BOOLEAN, exception' \in BOOLEAN
    PROVE  ServiceTypeOK' /\ frames' \in Seq(Frames)
BY DEF ServiceTypeOK, FramesTyped, IsFrame, Once, States

\* ServiceTypeOK, variable by variable.
LEMMA TypesNow ==
    ASSUME ServiceIInv
    PROVE  /\ hstate \in [Handlers -> States] /\ queue \in Seq(Handlers)
           /\ stopped \in BOOLEAN /\ meant \in BOOLEAN /\ exception \in BOOLEAN
           /\ FramesTyped
BY DEF ServiceIInv, ServiceTypeOK, FramesTyped, IsFrame, Once, States

\* The stack is as it was, and the callbacks on it run on.
LEMMA SameStack ==
    ASSUME ServiceIInv, frames' = frames,
           \A h \in Handlers : hstate[h] \in {"running", "inline"} => hstate'[h] = hstate[h]
    PROVE  FramesTyped' /\ FramesFit' /\ FramesRun'
<1>1. FramesTyped /\ FramesFit /\ FramesRun
  BY TypesNow DEF ServiceIInv
<1>2. FramesTyped' /\ FramesFit'
  BY <1>1 DEF FramesTyped, FramesFit
<1>3. \A i \in 1..Len(frames) : frames[i].type # "loop" =>
        frames[i].what \in Handlers /\ hstate[frames[i].what] \in {"running", "inline"}
  BY <1>1 DEF FramesTyped, IsFrame, FramesRun
<1>4. FramesRun'
  BY <1>3, RunKept
<1>5. QED
  BY <1>2, <1>4

(***************************************************************************)
(* A loop stops itself in the step that leaves no work.                    *)
(***************************************************************************)
LEMMA StopIsOwn ==
    ASSUME ServiceIInv, StopIfIdle(hstate'),
           Outstanding(hstate') \subseteq Outstanding(hstate),
           meant => meant', stopped /\ frames = <<>> => meant'
    PROVE  OwnStopLeavesNothing' /\ WaitingLoopHasWork' /\ stopped' \in BOOLEAN
<1>1. OwnStopLeavesNothing /\ stopped \in BOOLEAN
  BY TypesNow DEF ServiceIInv
<1>2. (stopped' <=> stopped \/ Outstanding(hstate') = {}) /\ stopped' \in BOOLEAN
  BY DEF StopIfIdle
<1>3. Outstanding(hstate)' = Outstanding(hstate')
  BY DEF Outstanding
<1>4. ASSUME stopped', ~meant' PROVE Outstanding(hstate') = {}
  BY <1>1, <1>2, <1>4 DEF OwnStopLeavesNothing
<1>5. OwnStopLeavesNothing'
  BY <1>3, <1>4 DEF OwnStopLeavesNothing
<1>6. WaitingLoopHasWork'
  BY <1>2, <1>3 DEF WaitingLoopHasWork
<1>7. QED
  BY <1>2, <1>5, <1>6

\* While there was work before the step, only the script can have stopped.
LEMMA StopIsMeant ==
    ASSUME ServiceIInv, stopped' = stopped, meant' = meant,
           frames' # <<>> => frames # <<>>,
           frames # <<>> => Outstanding(hstate) # {},
           InLoop' /\ ~stopped => Outstanding(hstate') # {}
    PROVE  OwnStopLeavesNothing' /\ WaitingLoopHasWork'
<1>1. Outstanding(hstate)' = Outstanding(hstate')
  BY DEF Outstanding
<1>2. stopped /\ frames # <<>> => meant
  BY DEF ServiceIInv, OwnStopLeavesNothing
<1>3. QED
  BY <1>1, <1>2 DEF OwnStopLeavesNothing, WaitingLoopHasWork

\* Below a loop or an inline call there is a callback or nothing.
LEMMA ReturnsToCallback ==
    ASSUME ServiceIInv, frames # <<>>, Last(frames).type # "handler", frames' = Front(frames)
    PROVE  ~InLoop'
<1> DEFINE n == Len(frames)
<1>1. /\ FramesTyped' /\ Len(frames') = n - 1
      /\ \A i \in 1..Len(frames') : i \in 1..Len(frames) /\ frames'[i] = frames[i]
  BY PopFits
<1>2. n \in Nat \ {0} /\ Last(frames) = frames[n]
  BY InnermostFrame
<1>3. SUFFICES ASSUME frames' # <<>>
               PROVE  Last(frames').type # "loop"
  BY DEF InLoop
<1>4. frames' \in Seq(Frames)
  BY <1>1 DEF FramesTyped
<1>5. Last(frames') = frames'[n - 1] /\ n - 1 \in Nat \ {0}
  <2>1. Last(frames') = frames'[Len(frames')] /\ Len(frames') \in Nat \ {0}
    BY <1>3, <1>4, LastAndFront
  <2> HIDE DEF n
  <2>2. QED
    BY <1>1, <2>1
<1>6. n - 1 \in 1..n - 1 /\ n - 1 + 1 = n
  <2> HIDE DEF n
  <2>1. QED
    BY <1>2, <1>5
<1>7. frames[n].type # "handler" /\ frames'[n - 1] = frames[n - 1]
  BY <1>1, <1>2, <1>6
<1>8. frames[n - 1].type # "loop"
  BY <1>6, <1>7 DEF ServiceIInv, FramesFit
<1>9. QED
  BY <1>5, <1>7, <1>8

-----------------------------------------------------------------------------
(***************************************************************************)
(* Each action keeps the invariant.                                        *)
(***************************************************************************)
LEMMA InPhpHasWork ==
    ASSUME ServiceIInv, InPhp
    PROVE  ~InLoop /\ (frames # <<>> => Outstanding(hstate) # {})
BY CallbackIsWork DEF InPhp

\* A handler becomes ready while there is work, or outside all loops.
LEMMA EnqueueKept ==
    ASSUME ServiceIInv, NEW h \in Handlers, hstate[h] \in {"none", "pending"},
           Enqueue(h), frames # <<>> => Outstanding(hstate) # {}
    PROVE  ServiceIInv'
<1>1. /\ hstate' = [hstate EXCEPT ![h] = "ready"] /\ queue' = Append(queue, h)
      /\ frames' = frames /\ stopped' = stopped /\ meant' = meant /\ exception' = exception
  BY DEF Enqueue, Becomes
<1>2. /\ hstate' \in [Handlers -> States] /\ hstate'[h] = "ready"
      /\ \A x \in Handlers : x # h => hstate'[x] = hstate[x]
  BY <1>1, TypesNow DEF States
<1>3. queue' \in Seq(Handlers) /\ QueueReady'
  BY <1>1, EnqueuedReady
<1>4. FramesTyped' /\ FramesFit' /\ FramesRun'
  BY <1>1, <1>2, SameStack
<1>5. ServiceTypeOK' /\ frames' \in Seq(Frames)
  BY <1>1, <1>2, <1>3, <1>4, TypesAgain, TypesNow
<1>6. Outstanding(hstate') # {}
  BY <1>2 DEF Outstanding
<1>7. OwnStopLeavesNothing' /\ WaitingLoopHasWork'
  BY <1>1, <1>6, StopIsMeant
<1>8. QED
  BY <1>3, <1>4, <1>5, <1>7 DEF ServiceIInv

\* Service::post, and Service::dispatch from outside the loops.
LEMMA PostKept ==
    ASSUME ServiceIInv, NEW h \in Posts, Post(h)
    PROVE  ServiceIInv'
BY InPhpHasWork, EnqueueKept DEF Post, Handlers

\* A loop that learns of a completed operation has that one as work.
LEMMA CompleteKept ==
    ASSUME ServiceIInv, NEW o \in Operations, Complete(o)
    PROVE  ServiceIInv'
<1>1. o \in Outstanding(hstate)
  BY DEF Complete, Outstanding, Handlers
<1>2. QED
  BY <1>1, EnqueueKept DEF Complete, Handlers

\* An operation is started by PHP code, which a loop is waiting for.
LEMMA StartKept ==
    ASSUME ServiceIInv, NEW o \in Operations, StartOperation(o)
    PROVE  ServiceIInv'
<1>1. /\ hstate' = [hstate EXCEPT ![o] = "pending"] /\ queue' = queue
      /\ frames' = frames /\ stopped' = stopped /\ meant' = meant /\ exception' = exception
      /\ InPhp /\ hstate[o] = "none" /\ o \in Handlers
  BY DEF StartOperation, Becomes, Handlers
<1>2. /\ hstate' \in [Handlers -> States]
      /\ \A x \in Handlers : x # o => hstate'[x] = hstate[x]
  BY <1>1, TypesNow DEF States
<1>3. queue' \in Seq(Handlers) /\ QueueReady'
  BY <1>1, <1>2, StillReady
<1>4. FramesTyped' /\ FramesFit' /\ FramesRun'
  BY <1>1, <1>2, SameStack
<1>5. ServiceTypeOK' /\ frames' \in Seq(Frames)
  BY <1>1, <1>2, <1>3, <1>4, TypesAgain, TypesNow
<1>6. ~InLoop'
  BY <1>1, InPhpHasWork DEF InLoop
<1>7. OwnStopLeavesNothing' /\ WaitingLoopHasWork'
  BY <1>1, <1>6, InPhpHasWork, StopIsMeant
<1>8. QED
  BY <1>3, <1>4, <1>5, <1>7 DEF ServiceIInv

\* Stopping and resetting are the doing of the script, and count as meant.
LEMMA FlagsKept ==
    ASSUME ServiceIInv, Stop \/ Reset \/ Catch
    PROVE  ServiceIInv'
<1>1. /\ hstate' = hstate /\ queue' = queue /\ frames' = frames /\ ~InLoop
      /\ stopped' \in BOOLEAN /\ meant' \in BOOLEAN /\ exception' \in BOOLEAN
      /\ stopped' /\ ~meant' => stopped /\ ~meant
  <2>1. stopped \in BOOLEAN /\ meant \in BOOLEAN /\ exception \in BOOLEAN
    BY TypesNow
  <2>2. hstate' = hstate /\ queue' = queue /\ frames' = frames /\ ~InLoop
    BY DEF Stop, Reset, Catch, InPhp
  <2>3. /\ stopped' \in {stopped, TRUE, FALSE} /\ meant' \in {meant, TRUE, FALSE}
        /\ exception' \in {exception, FALSE}
        /\ stopped' /\ ~meant' => stopped /\ ~meant
    <3>1. CASE Stop
      BY <3>1, Zenon DEF Stop
    <3>2. CASE Reset
      BY <3>2, Zenon DEF Reset
    <3>3. CASE Catch
      BY <3>3, Zenon DEF Catch
    <3>4. QED
      BY <3>1, <3>2, <3>3
  <2>4. QED
    BY <2>1, <2>2, <2>3, Zenon
<1>2. FramesTyped' /\ FramesFit' /\ FramesRun'
  BY <1>1, SameStack
<1>3. queue' \in Seq(Handlers) /\ QueueReady'
  BY <1>1, StillReady
<1>4. ServiceTypeOK' /\ frames' \in Seq(Frames)
  BY <1>1, <1>2, <1>3, TypesAgain, TypesNow
<1>5. OwnStopLeavesNothing' /\ WaitingLoopHasWork'
  BY <1>1 DEF ServiceIInv, OwnStopLeavesNothing, WaitingLoopHasWork, InLoop
<1>6. QED
  BY <1>2, <1>3, <1>4, <1>5 DEF ServiceIInv

\* What the innermost frame is after a push.
LEMMA PushedIsLast ==
    ASSUME ServiceIInv, NEW f \in Frames, frames' = Append(frames, f)
    PROVE  frames' # <<>> /\ Last(frames') = f
<1>1. /\ frames' \in Seq(Frames) /\ Len(frames') = Len(frames) + 1
      /\ frames'[Len(frames) + 1] = f /\ Len(frames) \in Nat
  BY AppendProperties, LenProperties DEF ServiceIInv
<1>2. Len(frames') # 0
  BY <1>1
<1>3. frames' # <<>>
  BY <1>2, EmptySeq
<1>4. QED
  BY <1>1, <1>3, LastAndFront

\* Service::dispatch within a loop puts no work in the queue.
LEMMA DispatchInlineKept ==
    ASSUME ServiceIInv, NEW h \in Posts, DispatchInline(h)
    PROVE  ServiceIInv'
<1> DEFINE f == Frame("inline", h)
<1>1. /\ hstate' = [hstate EXCEPT ![h] = "inline"] /\ queue' = queue
      /\ frames' = Append(frames, f) /\ frames # <<>>
      /\ stopped' = stopped /\ meant' = meant /\ exception' = exception
      /\ InPhp /\ hstate[h] = "none" /\ h \in Handlers
  BY DEF DispatchInline, Becomes, Handlers
<1>2. f \in Frames /\ IsFrame(f) /\ f.type = "inline"
  BY <1>1 DEF Frame, Frames, IsFrame
<1>3. /\ hstate' \in [Handlers -> States]
      /\ \A x \in Handlers : x # h => hstate'[x] = hstate[x]
  BY <1>1, TypesNow DEF States
<1>4. queue' \in Seq(Handlers) /\ QueueReady'
  BY <1>1, <1>3, StillReady
<1>5. FramesTyped' /\ FramesFit'
  <2>1. ~InLoop
    BY <1>1 DEF InPhp
  <2> HIDE DEF f
  <2>2. QED
    BY <1>1, <1>2, <2>1, PushFits
<1>6. FramesRun'
  <2>1. hstate' = [hstate EXCEPT ![h] = IF "inline" = "handler" THEN "running" ELSE "inline"]
    BY <1>1
  <2>2. QED
    BY <1>1, <2>1, PushRuns
<1>7. ServiceTypeOK' /\ frames' \in Seq(Frames)
  BY <1>1, <1>3, <1>4, <1>5, TypesAgain, TypesNow
<1>8. ~InLoop'
  <2> HIDE DEF f
  <2>1. QED
    BY <1>1, <1>2, PushedIsLast DEF InLoop
<1>9. OwnStopLeavesNothing' /\ WaitingLoopHasWork'
  BY <1>1, <1>8, InPhpHasWork, StopIsMeant
<1>10. QED
  BY <1>4, <1>5, <1>6, <1>7, <1>9 DEF ServiceIInv

\* A loop that is entered looks for work first.
LEMMA RunLoopKept ==
    ASSUME ServiceIInv, NEW m \in Methods, RunLoop(m)
    PROVE  ServiceIInv'
<1> DEFINE f == Frame("loop", m)
<1>1. /\ hstate' = hstate /\ queue' = queue /\ frames' = Append(frames, f)
      /\ meant' = (meant \/ stopped) /\ exception' = exception /\ StopIfIdle(hstate')
      /\ ~InLoop
  BY DEF RunLoop, InPhp
<1>2. f \in Frames /\ IsFrame(f) /\ f.type = "loop"
  BY DEF Frame, Frames, IsFrame
<1> HIDE DEF f
<1>3. queue' \in Seq(Handlers) /\ QueueReady'
  BY <1>1, StillReady
<1>4. FramesTyped' /\ FramesFit'
  BY <1>1, <1>2, PushFits
<1>5. FramesRun'
  <2> DEFINE n == Len(frames)
  <2>1. /\ n \in Nat /\ Len(frames') = n + 1 /\ frames'[n + 1] = f
        /\ \A i \in 1..n : frames'[i] = frames[i]
    BY <1>1, <1>2, AppendProperties, LenProperties DEF ServiceIInv
  <2>2. \A i \in 1..Len(frames') : frames'[i].type # "loop" => i \in 1..n /\ frames'[i] = frames[i]
    <3> HIDE DEF n
    <3>1. \A i \in 1..n + 1 : i \in 1..n \/ i = n + 1
      BY <2>1
    <3>2. QED
      BY <1>2, <2>1, <3>1
  <2>3. QED
    BY <1>1, <2>2 DEF ServiceIInv, FramesRun
<1>6. OwnStopLeavesNothing' /\ WaitingLoopHasWork' /\ stopped' \in BOOLEAN
  BY <1>1, StopIsOwn
<1>7. ServiceTypeOK' /\ frames' \in Seq(Frames)
  BY <1>1, <1>3, <1>4, <1>6, TypesAgain, TypesNow
<1>8. QED
  BY <1>3, <1>4, <1>5, <1>6, <1>7 DEF ServiceIInv

\* A loop that invokes a handler has not stopped.
LEMMA LoopTakesKept ==
    ASSUME ServiceIInv, LoopTakes
    PROVE  ServiceIInv'
<1> DEFINE h == Head(queue)
           f == Frame("handler", h)
<1>1. /\ hstate' = [hstate EXCEPT ![h] = "running"] /\ queue' = Tail(queue)
      /\ frames' = Append(frames, f) /\ queue # <<>> /\ frames # <<>> /\ InLoop
      /\ stopped' = stopped /\ meant' = meant /\ exception' = exception
      /\ ~stopped
      /\ Last(frames).what \in Once => Last(frames).count = 0
  BY DEF LoopTakes, MayTake, Becomes, InLoop, Once
<1>2. h \in Handlers /\ hstate[h] = "ready"
  BY <1>1, FirstIsReady
<1>3. f \in Frames /\ IsFrame(f) /\ f.type = "handler"
  BY <1>2 DEF Frame, Frames, IsFrame
<1>4. queue' \in Seq(Handlers) /\ QueueReady'
  BY <1>1, DequeuedReady
<1>5. hstate' \in [Handlers -> States]
  BY <1>1, <1>2, TypesNow DEF States
<1>6. FramesTyped' /\ FramesFit'
  <2> HIDE DEF f
  <2>1. QED
    BY <1>1, <1>3, PushFits
<1>7. FramesRun'
  <2>1. hstate' = [hstate EXCEPT ![h] = IF "handler" = "handler" THEN "running" ELSE "inline"]
    BY <1>1
  <2>2. QED
    BY <1>1, <1>2, <2>1, PushRuns
<1>8. ServiceTypeOK' /\ frames' \in Seq(Frames)
  BY <1>1, <1>4, <1>5, <1>6, TypesAgain, TypesNow
<1>9. ~InLoop'
  <2> HIDE DEF f
  <2>1. QED
    BY <1>1, <1>3, PushedIsLast DEF InLoop
<1>10. OwnStopLeavesNothing' /\ WaitingLoopHasWork'
  BY <1>1, <1>9 DEF OwnStopLeavesNothing, WaitingLoopHasWork
<1>11. QED
  BY <1>4, <1>6, <1>7, <1>8, <1>10 DEF ServiceIInv

\* What a loop returns to is a callback or nothing.
LEMMA LoopReturnsKept ==
    ASSUME ServiceIInv, LoopReturns
    PROVE  ServiceIInv'
<1>1. /\ hstate' = hstate /\ queue' = queue /\ frames' = Front(frames)
      /\ stopped' = stopped /\ meant' = meant /\ exception' = exception
      /\ frames # <<>> /\ Last(frames).type = "loop"
  BY DEF LoopReturns, InLoop
<1>2. queue' \in Seq(Handlers) /\ QueueReady'
  BY <1>1, StillReady
<1>3. /\ FramesTyped' /\ FramesFit'
      /\ \A i \in 1..Len(frames') : i \in 1..Len(frames) /\ frames'[i] = frames[i]
  BY <1>1, PopFits
<1>4. FramesRun'
  BY <1>1, <1>3, RunKept
<1>5. ServiceTypeOK' /\ frames' \in Seq(Frames)
  BY <1>1, <1>2, <1>3, TypesAgain, TypesNow
<1>6. ~InLoop'
  BY <1>1, ReturnsToCallback
<1>7. OwnStopLeavesNothing' /\ WaitingLoopHasWork'
  BY <1>1, <1>6 DEF ServiceIInv, OwnStopLeavesNothing, WaitingLoopHasWork
<1>8. QED
  BY <1>2, <1>3, <1>4, <1>5, <1>7 DEF ServiceIInv

(***************************************************************************)
(* A handler that is counted is work no longer: the stack is cut back to   *)
(* its loop, and what it leaves is what was there but for the handler.     *)
(***************************************************************************)
LEMMA FinishKept ==
    ASSUME ServiceIInv, NEW n \in 1..Len(frames), NEW h \in Handlers,
           NEW r \in {"done", "skipped"},
           Finish(n, h, r), frames[n].type = "loop",
           frames[n].what \in Once => frames[n].count = 0,
           \A i \in 1..n : frames[i].type # "loop" => frames[i].what # h,
           meant' = meant, exception' \in BOOLEAN,
           queue' \in Seq(Handlers), QueueReady'
    PROVE  ServiceIInv'
<1>1. /\ hstate' = [hstate EXCEPT ![h] = r] /\ StopIfIdle(hstate')
      /\ frames' = [SubSeq(frames, 1, n) EXCEPT ![n].count = @ + 1]
  BY DEF Finish, Becomes
<1>2. /\ hstate' \in [Handlers -> States] /\ hstate'[h] = r
      /\ \A x \in Handlers : x # h => hstate'[x] = hstate[x]
  BY <1>1, TypesNow DEF States
<1>3. /\ FramesTyped' /\ FramesFit' /\ Len(frames') = n
      /\ \A i \in 1..n : /\ i \in 1..Len(frames)
                         /\ frames'[i].type = frames[i].type
                         /\ frames'[i].what = frames[i].what
  BY <1>1, CountedFits
<1>4. FramesRun'
  <2>1. ASSUME NEW i \in 1..n, frames[i].type # "loop"
        PROVE  hstate'[frames[i].what] = hstate[frames[i].what]
    <3>1. frames[i].what \in Handlers
      BY <1>3, <2>1, TypesNow DEF FramesTyped, IsFrame
    <3>2. QED
      BY <1>2, <2>1, <3>1
  <2>2. QED
    BY <1>3, <2>1, RunKept
<1>5. Outstanding(hstate') \subseteq Outstanding(hstate)
  BY <1>2 DEF Outstanding
<1>6. frames # <<>>
  <2>1. Len(frames) # 0
    BY LenProperties DEF ServiceIInv
  <2>2. QED
    BY <2>1, EmptySeq
<1>7. OwnStopLeavesNothing' /\ WaitingLoopHasWork' /\ stopped' \in BOOLEAN
  BY <1>1, <1>5, <1>6, StopIsOwn
<1>8. ServiceTypeOK' /\ frames' \in Seq(Frames)
  BY <1>2, <1>3, <1>7, TypesAgain, TypesNow
<1>9. QED
  BY <1>3, <1>4, <1>7, <1>8 DEF ServiceIInv

\* A handler that is skipped because of an exception is work no longer.
LEMMA LoopSkipsKept ==
    ASSUME ServiceIInv, LoopSkips
    PROVE  ServiceIInv'
<1> DEFINE n == Len(frames)
           h == Head(queue)
<1>1. /\ Finish(n, h, "skipped") /\ queue' = Tail(queue) /\ queue # <<>>
      /\ meant' = meant /\ exception' = exception /\ frames # <<>>
      /\ Last(frames).type = "loop"
      /\ Last(frames).what \in Once => Last(frames).count = 0
  BY DEF LoopSkips, MayTake, InLoop, Once
<1>2. h \in Handlers /\ hstate[h] = "ready"
  BY <1>1, FirstIsReady
<1>3. n \in 1..n /\ Last(frames) = frames[n]
  BY <1>1, InnermostFrame
<1>4. queue' \in Seq(Handlers) /\ QueueReady'
  <2>1. hstate' = [hstate EXCEPT ![h] = "skipped"]
    BY <1>1 DEF Finish, Becomes
  <2>2. QED
    BY <1>1, <2>1, DequeuedReady
<1>5. \A i \in 1..n : frames[i].type # "loop" => frames[i].what # h
  BY <1>2, NotOnStack
<1>6. exception' \in BOOLEAN
  BY <1>1, TypesNow
<1>7. QED
  BY <1>1, <1>2, <1>3, <1>4, <1>5, <1>6, FinishKept

\* A callback that a loop has invoked ends.
LEMMA HandlerEndsKept ==
    ASSUME ServiceIInv, frames # <<>>, Last(frames).type = "handler",
           Finish(Len(frames) - 1, Last(frames).what, "done"),
           queue' = queue, meant' = meant, exception' \in BOOLEAN
    PROVE  ServiceIInv'
<1> DEFINE n == Len(frames) - 1
           h == Last(frames).what
<1>1. /\ Len(frames) \in Nat \ {0} /\ Len(frames) \in 1..Len(frames)
      /\ Last(frames) = frames[Len(frames)] /\ FramesTyped
  BY InnermostFrame
<1>2. FramesFit /\ FramesRun
  BY DEF ServiceIInv
<1>3. Len(frames) # 1
  BY <1>1, <1>2 DEF FramesFit
<1>4. n \in 1..n /\ n \in 1..Len(frames) /\ n + 1 = Len(frames) /\ Len(frames) \in 2..Len(frames)
      /\ \A i \in 1..n : i \in 1..Len(frames) /\ i # Len(frames)
  <2> DEFINE k == Len(frames)
  <2>1. k \in Nat /\ k # 0 /\ k # 1
    BY <1>1, <1>3
  <2> HIDE DEF k
  <2>2. /\ k - 1 \in 1..k - 1 /\ k - 1 \in 1..k /\ k - 1 + 1 = k /\ k \in 2..k
        /\ \A i \in 1..k - 1 : i \in 1..k /\ i # k
    BY <2>1
  <2>3. QED
    BY <2>2 DEF k
<1>5. h \in Handlers /\ hstate[h] = "running"
  BY <1>1, <1>2 DEF FramesTyped, IsFrame, FramesRun
<1>6. /\ frames[n].type = "loop"
      /\ frames[n].what \in Once => frames[n].count = 0
  BY <1>1, <1>2, <1>4 DEF FramesFit
<1>7. \A i \in 1..n : frames[i].type # "loop" => frames[i].what # h
  BY <1>1, <1>2, <1>4 DEF FramesRun
<1>8. queue' \in Seq(Handlers) /\ QueueReady'
  <2>1. hstate' = [hstate EXCEPT ![h] = "done"]
    BY DEF Finish, Becomes
  <2>2. \A x \in Handlers : x # h => hstate'[x] = hstate[x]
    BY <2>1, TypesNow
  <2>3. \A x \in Handlers : hstate[x] = "ready" => hstate'[x] = "ready"
    BY <1>5, <2>2
  <2>4. QED
    BY <2>3, StillReady
<1>9. QED
  BY <1>4, <1>5, <1>6, <1>7, <1>8, FinishKept

\* A callback that dispatch has called ends, in the callback it was called from.
LEMMA InlineEndsKept ==
    ASSUME ServiceIInv, frames # <<>>, Last(frames).type = "inline",
           Becomes(Last(frames).what, "done"), frames' = Front(frames),
           queue' = queue, meant' = meant, stopped' = stopped, exception' \in BOOLEAN
    PROVE  ServiceIInv'
<1> DEFINE n == Len(frames)
           h == Last(frames).what
<1>1. /\ n \in Nat \ {0} /\ n \in 1..n /\ Last(frames) = frames[n] /\ FramesTyped
  BY InnermostFrame
<1>2. FramesRun
  BY DEF ServiceIInv
<1>3. h \in Handlers /\ hstate[h] = "inline"
  BY <1>1, <1>2 DEF FramesTyped, IsFrame, FramesRun
<1>4. /\ hstate' \in [Handlers -> States]
      /\ \A x \in Handlers : x # h => hstate'[x] = hstate[x]
  BY <1>3, TypesNow DEF States, Becomes
<1>5. queue' \in Seq(Handlers) /\ QueueReady'
  <2>1. \A x \in Handlers : hstate[x] = "ready" => hstate'[x] = "ready"
    BY <1>3, <1>4
  <2>2. QED
    BY <2>1, StillReady
<1>6. /\ FramesTyped' /\ FramesFit' /\ Len(frames') = n - 1
      /\ \A i \in 1..Len(frames') : i \in 1..n /\ frames'[i] = frames[i]
  BY PopFits
<1>7. FramesRun'
  <2>1. \A i \in 1..Len(frames') : i # n
    BY <1>1, <1>6
  <2>2. \A i \in 1..Len(frames') : frames[i].type # "loop" =>
          frames[i].what \in Handlers /\ frames[i].what # h
    BY <1>1, <1>2, <1>6, <2>1 DEF FramesRun, FramesTyped, IsFrame
  <2>3. QED
    BY <1>4, <1>6, <2>2, RunKept
<1>8. ServiceTypeOK' /\ frames' \in Seq(Frames)
  BY <1>4, <1>5, <1>6, TypesAgain, TypesNow
<1>9. ~InLoop' /\ ~InLoop
  BY ReturnsToCallback DEF InLoop
<1>10. OwnStopLeavesNothing' /\ WaitingLoopHasWork'
  BY <1>9, CallbackIsWork, StopIsMeant
<1>11. QED
  BY <1>5, <1>6, <1>7, <1>8, <1>10 DEF ServiceIInv

\* A callback ends, with an exception or without.
LEMMA CallbackEndsKept ==
    ASSUME ServiceIInv, NEW throws \in BOOLEAN, CallbackEnds(throws)
    PROVE  ServiceIInv'
BY HandlerEndsKept, InlineEndsKept DEF CallbackEnds

-----------------------------------------------------------------------------
\* Every step of the event loop keeps the invariant.
LEMMA ServiceStep == ServiceIInv /\ [ServiceNext]_serviceVars => ServiceIInv'
<1>1. SUFFICES ASSUME ServiceIInv, [ServiceNext]_serviceVars
               PROVE  ServiceIInv'
  OBVIOUS
<1>2. ASSUME NEW h \in Posts, Post(h) \/ Dispatch(h)
      PROVE  ServiceIInv'
  BY <1>1, <1>2, PostKept, DispatchInlineKept DEF Dispatch, DispatchOutside
<1>3. ASSUME NEW o \in Operations, StartOperation(o) \/ Complete(o)
      PROVE  ServiceIInv'
  BY <1>1, <1>3, StartKept, CompleteKept
<1>4. ASSUME NEW m \in Methods, RunLoop(m)
      PROVE  ServiceIInv'
  BY <1>1, <1>4, RunLoopKept
<1>5. CASE Stop \/ Reset \/ Catch
  BY <1>1, <1>5, FlagsKept
<1>6. CASE LoopStep
  BY <1>1, <1>6, LoopTakesKept, LoopSkipsKept, LoopReturnsKept DEF LoopStep
<1>7. CASE CallbackStep
  BY <1>1, <1>7, CallbackEndsKept DEF CallbackStep
<1>8. CASE UNCHANGED serviceVars
  <2>1. /\ hstate' = hstate /\ queue' = queue /\ frames' = frames
        /\ stopped' = stopped /\ meant' = meant /\ exception' = exception
    BY <1>8 DEF serviceVars
  <2>2. FramesTyped' /\ FramesFit' /\ FramesRun'
    BY <1>1, <2>1, SameStack
  <2>3. queue' \in Seq(Handlers) /\ QueueReady'
    BY <1>1, <2>1, StillReady
  <2>4. ServiceTypeOK' /\ frames' \in Seq(Frames)
    BY <1>1, <2>1, <2>2, <2>3, TypesAgain, TypesNow
  <2>5. OwnStopLeavesNothing' /\ WaitingLoopHasWork'
    BY <1>1, <2>1 DEF ServiceIInv, OwnStopLeavesNothing, WaitingLoopHasWork, InLoop
  <2>6. QED
    BY <2>2, <2>3, <2>4, <2>5 DEF ServiceIInv
<1>9. QED
  BY <1>1, <1>2, <1>3, <1>4, <1>5, <1>6, <1>7, <1>8 DEF ServiceNext

(***************************************************************************)
(* The inductive invariant of the event loop holds always: loops and the   *)
(* callbacks they invoke alternate on the stack, each callback is there    *)
(* once and running, what is queued is ready, and a loop that the script   *)
(* has not stopped is stopped exactly when nothing is outstanding.         *)
(***************************************************************************)
THEOREM ServiceIInvAlways == ServiceSpec => []ServiceIInv
<1>1. ServiceInit => ServiceIInv
  BY InitService
<1>2. ServiceIInv /\ [ServiceNext]_serviceVars => ServiceIInv'
  BY ServiceStep
<1>3. QED
  BY <1>1, <1>2, PTL DEF ServiceSpec

(***************************************************************************)
(* A loop that the script has not stopped ends only when nothing is left,  *)
(* whatever the callbacks post, start and run (Service::run and poll with  *)
(* the counting of work in io_service).                                    *)
(***************************************************************************)
THEOREM OwnStopLeavesNothingAlways == ServiceSpec => []OwnStopLeavesNothing
<1>1. ServiceIInv => OwnStopLeavesNothing
  BY DEF ServiceIInv
<1>2. QED
  BY <1>1, ServiceIInvAlways, PTL

(***************************************************************************)
(* A loop never waits with nothing to wait for: while it is not stopped,   *)
(* a callback is queued or an operation is under way.                      *)
(***************************************************************************)
THEOREM WaitingLoopHasWorkAlways == ServiceSpec => []WaitingLoopHasWork
<1>1. ServiceIInv => WaitingLoopHasWork
  BY DEF ServiceIInv
<1>2. QED
  BY <1>1, ServiceIInvAlways, PTL

-----------------------------------------------------------------------------
(***************************************************************************)
(* Callbacks: the references of callbacks, arguments and WrappedHandlers.  *)
(***************************************************************************)

\* An operation that took its callback over from a slot has started.
MovedStarted == \A o \in moved : stage[o] # "none"

\* Nothing counts for a value that was freed, unless it was overtaken.
FreedUncounted ==
    \A v \in Values :
        IF v \in freed THEN Overtaken(v) \/ refcount[v] = 0 ELSE refcount[v] > 0

CallbacksIInv == CallbacksTypeOK /\ MovedStarted /\ RefcountAccounted /\ FreedUncounted

\* How many of the pointers to v the pointer x is.
Is(x, v) == IF x = v THEN 1 ELSE 0

\* The operations in flight that hold v.
CallbackUsers(v) == {o \in InFlight : cb[o] = v}
ArgumentUsers(v) == {o \in InFlight : args[o] = v}

\* The equation of RefcountAccounted, for v, and the sets it counts.
Account(v) ==
    refcount[v] = held[v] + leaked[v] + Cardinality(CallbackUsers(v))
                  + Cardinality(ArgumentUsers(v))
                  + Cardinality(Offered(v)) - Cardinality(Taken(v))

Countable(v) ==
    /\ Cardinality(CallbackUsers(v)) \in Nat /\ Cardinality(ArgumentUsers(v)) \in Nat
    /\ Cardinality(Offered(v)) \in Nat /\ Cardinality(Taken(v)) \in Nat

\* The script does not hold v, nor does an operation.
Unheld(v) == held[v] = 0 /\ CallbackUsers(v) = {} /\ ArgumentUsers(v) = {}

(***************************************************************************)
(* Those who hold a pointer to v, when x, which points to y, joins them.   *)
(***************************************************************************)
LEMMA OneMoreUser ==
    ASSUME NEW S, NEW T, NEW x, NEW y, NEW v, IsFiniteSet(S), x \notin S,
           T = IF y = v THEN S \cup {x} ELSE S
    PROVE  Cardinality(S) \in Nat /\ Cardinality(T) = Cardinality(S) + Is(y, v)
<1>1. Cardinality(S) \in Nat /\ Cardinality(S \cup {x}) = Cardinality(S) + 1
  BY FS_AddElement, FS_CardinalityType
<1>2. QED
  BY <1>1 DEF Is

\* The holders of pointers to v are finitely many.
LEMMA UsersFinite ==
    ASSUME CallbacksTypeOK, NEW v
    PROVE  /\ IsFiniteSet(CallbackUsers(v)) /\ IsFiniteSet(ArgumentUsers(v))
           /\ IsFiniteSet(Offered(v)) /\ IsFiniteSet(Taken(v))
<1>1. /\ CallbackUsers(v) \subseteq Holders \cup Wrappers
      /\ ArgumentUsers(v) \subseteq Holders \cup Wrappers
      /\ Offered(v) \subseteq Holders \cup Wrappers
      /\ Taken(v) \subseteq Holders \cup Wrappers
  BY DEF CallbacksTypeOK, CallbackUsers, ArgumentUsers, Offered, Taken, InFlight, Holders
<1>2. QED
  BY <1>1, CallbacksAssumption, FS_Subset

(***************************************************************************)
(* The equation for one value, with the counts it relates.                 *)
(***************************************************************************)
LEMMA AccountOf ==
    ASSUME CallbacksIInv, NEW v \in Values
    PROVE  /\ v # None /\ held[v] \in Nat /\ leaked[v] \in Nat /\ refcount[v] \in Int
           /\ Countable(v) /\ Account(v)
<1>1. v # None /\ held[v] \in Nat /\ leaked[v] \in Nat /\ refcount[v] \in Int
  BY CallbacksAssumption DEF CallbacksIInv, CallbacksTypeOK
<1>2. Countable(v)
  BY UsersFinite, FS_CardinalityType DEF CallbacksIInv, Countable
<1>3. Account(v)
  BY DEF CallbacksIInv, RefcountAccounted, Account, CallbackUsers, ArgumentUsers
<1>4. QED
  BY <1>1, <1>2, <1>3

(***************************************************************************)
(* A value that was freed and not overtaken is held by nobody.             *)
(***************************************************************************)
LEMMA FreedUnheld ==
    ASSUME CallbacksIInv, NEW v \in freed, ~Overtaken(v)
    PROVE  v \in Values /\ refcount[v] = 0 /\ Unheld(v)
<1>1. v \in Values /\ refcount[v] = 0
  BY DEF CallbacksIInv, CallbacksTypeOK, FreedUncounted
<1>2. /\ Cardinality(Taken(v)) <= Cardinality(Offered(v))
      /\ held[v] \in Nat /\ leaked[v] \in Nat /\ Countable(v) /\ Account(v)
  BY <1>1, AccountOf DEF Countable, Overtaken
<1>3. /\ held[v] = 0
      /\ Cardinality(CallbackUsers(v)) = 0 /\ Cardinality(ArgumentUsers(v)) = 0
  <2>1. 0 = held[v] + leaked[v] + Cardinality(CallbackUsers(v))
            + Cardinality(ArgumentUsers(v))
            + Cardinality(Offered(v)) - Cardinality(Taken(v))
    BY <1>1, <1>2 DEF Account
  <2>2. /\ Cardinality(CallbackUsers(v)) \in Nat /\ Cardinality(ArgumentUsers(v)) \in Nat
        /\ Cardinality(Offered(v)) \in Nat /\ Cardinality(Taken(v)) \in Nat
        /\ held[v] \in Nat /\ leaked[v] \in Nat
        /\ Cardinality(Taken(v)) <= Cardinality(Offered(v))
    BY <1>2 DEF Countable
  <2>3. QED
    BY <2>1, <2>2
<1>4. QED
  BY <1>1, <1>3, UsersFinite, FS_EmptySet DEF CallbacksIInv, Unheld

(***************************************************************************)
(* A step keeps the accounts if it keeps the equation of every value, lets *)
(* no value that was overtaken off, and does not touch a freed one.        *)
(***************************************************************************)
LEMMA AccountKept ==
    ASSUME CallbacksIInv, held' \in [Values -> Nat], leaked' \in [Values -> Nat],
           refcount' = [v \in Values |-> refcount'[v]],
           \A v \in Values : Countable(v)' /\ Account(v)',
           \A v \in freed : Overtaken(v) => Overtaken(v)',
           \A v \in freed : Unheld(v) => refcount'[v] = refcount[v],
           \/ freed' = freed /\ \A v \in Values : refcount'[v] >= refcount[v]
           \/ freed' = freed \cup {v \in Values : refcount'[v] <= 0}
    PROVE  RefcountAccounted' /\ FreedUncounted' /\ refcount' \in [Values -> Int]
<1>1. RefcountAccounted'
  BY DEF RefcountAccounted, Account, CallbackUsers, ArgumentUsers
<1>2. ASSUME NEW v \in Values
      PROVE  refcount'[v] \in Int /\ (~Overtaken(v)' => refcount'[v] >= 0)
  BY <1>2 DEF Account, Countable, Overtaken
<1>3. FreedUncounted'
  <2>1. SUFFICES ASSUME NEW v \in Values
                 PROVE  IF v \in freed' THEN Overtaken(v)' \/ refcount'[v] = 0
                        ELSE refcount'[v] > 0
    BY DEF FreedUncounted
  <2>2. CASE v \in freed
    <3>1. ~Overtaken(v)' => refcount'[v] = 0
      BY <2>2, FreedUnheld
    <3>2. v \in freed'
      BY <2>2
    <3>3. QED
      BY <3>1, <3>2
  <2>3. CASE v \notin freed
    <3>1. refcount[v] > 0 /\ refcount[v] \in Int /\ refcount'[v] \in Int
      BY <1>2, <2>3, AccountOf DEF CallbacksIInv, FreedUncounted
    <3>2. CASE freed' = freed /\ \A x \in Values : refcount'[x] >= refcount[x]
      BY <2>3, <3>1, <3>2
    <3>3. CASE freed' = freed \cup {x \in Values : refcount'[x] <= 0}
      <4>1. v \in freed' <=> refcount'[v] <= 0
        BY <2>3, <3>3
      <4>2. QED
        BY <1>2, <3>1, <4>1
    <3>4. QED
      BY <3>2, <3>3
  <2>4. QED
    BY <2>2, <2>3
<1>4. QED
  BY <1>1, <1>2, <1>3

(***************************************************************************)
(* Operation o starts: each of its pointers has one user more.             *)
(***************************************************************************)
LEMMA StartedUsers ==
    ASSUME CallbacksTypeOK, NEW o \in Holders, NEW v \in Values,
           stage[o] = "none", stage' = [stage EXCEPT ![o] = "pending"],
           cb' = [cb EXCEPT ![o] = cb'[o]], args' = [args EXCEPT ![o] = args'[o]]
    PROVE  /\ Cardinality(CallbackUsers(v)') = Cardinality(CallbackUsers(v)) + Is(cb'[o], v)
           /\ Cardinality(ArgumentUsers(v)') = Cardinality(ArgumentUsers(v)) + Is(args'[o], v)
<1>1. /\ o \notin InFlight /\ InFlight' = InFlight \cup {o}
      /\ \A h \in InFlight : cb'[h] = cb[h] /\ args'[h] = args[h]
  BY DEF CallbacksTypeOK, InFlight
<1>2. /\ o \notin CallbackUsers(v) /\ o \notin ArgumentUsers(v)
      /\ CallbackUsers(v)' = IF cb'[o] = v THEN CallbackUsers(v) \cup {o} ELSE CallbackUsers(v)
      /\ ArgumentUsers(v)' = IF args'[o] = v THEN ArgumentUsers(v) \cup {o} ELSE ArgumentUsers(v)
  BY <1>1 DEF CallbackUsers, ArgumentUsers
<1>3. QED
  BY <1>2, UsersFinite, OneMoreUser

(***************************************************************************)
(* Operation o is over: each of its pointers has one user less.            *)
(***************************************************************************)
LEMMA EndedUsers ==
    ASSUME CallbacksTypeOK, NEW o \in InFlight, NEW v \in Values,
           stage' = [stage EXCEPT ![o] = "done"], UNCHANGED <<cb, args>>
    PROVE  /\ Cardinality(CallbackUsers(v)') \in Nat
           /\ Cardinality(ArgumentUsers(v)') \in Nat
           /\ Cardinality(CallbackUsers(v)) = Cardinality(CallbackUsers(v)') + Is(cb[o], v)
           /\ Cardinality(ArgumentUsers(v)) = Cardinality(ArgumentUsers(v)') + Is(args[o], v)
<1>1. o \in InFlight /\ InFlight' = InFlight \ {o}
  BY DEF CallbacksTypeOK, InFlight
<1>2. /\ o \notin CallbackUsers(v)' /\ o \notin ArgumentUsers(v)'
      /\ CallbackUsers(v) = IF cb[o] = v THEN CallbackUsers(v)' \cup {o} ELSE CallbackUsers(v)'
      /\ ArgumentUsers(v) = IF args[o] = v THEN ArgumentUsers(v)' \cup {o} ELSE ArgumentUsers(v)'
  BY <1>1 DEF CallbackUsers, ArgumentUsers
<1>3. IsFiniteSet(CallbackUsers(v)') /\ IsFiniteSet(ArgumentUsers(v)')
  <2>1. CallbackUsers(v)' \subseteq CallbackUsers(v) /\ ArgumentUsers(v)' \subseteq ArgumentUsers(v)
    BY <1>2
  <2>2. QED
    BY <2>1, UsersFinite, FS_Subset
<1>4. /\ Cardinality(CallbackUsers(v)') \in Nat
      /\ Cardinality(CallbackUsers(v)) = Cardinality(CallbackUsers(v)') + Is(cb[o], v)
  BY <1>2, <1>3, OneMoreUser
<1>5. /\ Cardinality(ArgumentUsers(v)') \in Nat
      /\ Cardinality(ArgumentUsers(v)) = Cardinality(ArgumentUsers(v)') + Is(args[o], v)
  BY <1>2, <1>3, OneMoreUser
<1>6. QED
  BY <1>4, <1>5

\* Added and Dropped, value by value.
LEMMA CountedPointers ==
    ASSUME CallbacksIInv, NEW x, NEW y
    PROVE  /\ Added(x, y) =>
                /\ refcount' = [v \in Values |-> refcount[v] + Is(x, v) + Is(y, v)]
                /\ freed' = freed /\ \A v \in Values : refcount'[v] >= refcount[v]
           /\ Dropped(x, y) =>
                /\ refcount' = [v \in Values |-> refcount[v] - Is(x, v) - Is(y, v)]
                /\ freed' = freed \cup {v \in Values : refcount'[v] <= 0}
           /\ \A v \in Values : Uses(v, x, None) = Is(x, v) /\ Is(None, v) = 0
           /\ \A v \in Values : Is(x, v) \in Nat /\ Is(y, v) \in Nat /\ refcount[v] \in Int
<1>1. \A v \in Values : refcount[v] \in Int /\ None # v
  BY CallbacksAssumption DEF CallbacksIInv, CallbacksTypeOK
<1>2. \A v \in Values : /\ Is(x, v) \in Nat /\ Is(y, v) \in Nat /\ Is(None, v) = 0
                        /\ Uses(v, x, y) = Is(x, v) + Is(y, v)
                        /\ Uses(v, x, None) = Is(x, v)
  BY <1>1 DEF Is, Uses
<1>3. \A v \in Values : /\ refcount[v] + Uses(v, x, y) = refcount[v] + Is(x, v) + Is(y, v)
                        /\ refcount[v] - Uses(v, x, y) = refcount[v] - Is(x, v) - Is(y, v)
                        /\ refcount[v] + Is(x, v) + Is(y, v) >= refcount[v]
  BY <1>1, <1>2
<1>4. ASSUME Added(x, y)
      PROVE  /\ refcount' = [v \in Values |-> refcount[v] + Is(x, v) + Is(y, v)]
             /\ freed' = freed /\ \A v \in Values : refcount'[v] >= refcount[v]
  BY <1>3, <1>4 DEF Added
<1>5. ASSUME Dropped(x, y)
      PROVE  /\ refcount' = [v \in Values |-> refcount[v] - Is(x, v) - Is(y, v)]
             /\ freed' = freed \cup {v \in Values : refcount'[v] <= 0}
  BY <1>3, <1>5 DEF Dropped
<1>6. QED
  BY <1>1, <1>2, <1>4, <1>5

-----------------------------------------------------------------------------
\* At first the script holds all the references.
LEMMA InitCallbacks == CallbacksInit => CallbacksIInv
<1>1. SUFFICES ASSUME CallbacksInit
               PROVE  CallbacksIInv
  OBVIOUS
<1> USE <1>1, CallbacksAssumption DEF CallbacksInit
<1>2. CallbacksTypeOK /\ MovedStarted
  BY DEF CallbacksTypeOK, MovedStarted
<1>3. ASSUME NEW v \in Values
      PROVE  Account(v)
  <2>1. /\ CallbackUsers(v) = {} /\ ArgumentUsers(v) = {}
        /\ Offered(v) = {} /\ Taken(v) = {}
    BY <1>3 DEF CallbackUsers, ArgumentUsers, Offered, Taken, InFlight
  <2>2. QED
    BY <1>3, <2>1, FS_EmptySet DEF Account
<1>4. RefcountAccounted
  BY <1>3 DEF RefcountAccounted, Account, CallbackUsers, ArgumentUsers
<1>5. FreedUncounted
  BY DEF FreedUncounted
<1>6. QED
  BY <1>2, <1>4, <1>5 DEF CallbacksIInv

\* Copy and Release: the script holds one reference more, or less.
LEMMA ScriptAccounted ==
    ASSUME CallbacksIInv, NEW v \in Values, Copy(v) \/ Release(v)
    PROVE  CallbacksIInv'
<1>1. /\ held' \in [Values -> Nat]
      /\ refcount' = [x \in Values |-> refcount[x] + held'[x] - held[x]]
      /\ UNCHANGED <<stage, cb, args, wrapped, slot, moved, leaked>>
      /\ \A x \in Values \ {v} : held'[x] = held[x]
      /\ v \in freed => held[v] > 0
      /\ \/ freed' = freed /\ \A x \in Values : refcount'[x] >= refcount[x]
         \/ freed' = freed \cup {x \in Values : refcount'[x] <= 0}
  <2>1. /\ held \in [Values -> Nat] /\ refcount \in [Values -> Int] /\ v # None
        /\ \A x \in Values : Is(None, x) = 0 /\ Is(v, x) = IF x = v THEN 1 ELSE 0
    BY CallbacksAssumption DEF CallbacksIInv, CallbacksTypeOK, Is
  <2>2. CASE Copy(v)
    <3>1. /\ held' = [held EXCEPT ![v] = @ + 1] /\ v \notin freed
          /\ refcount' = [x \in Values |-> refcount[x] + Is(v, x) + Is(None, x)]
          /\ freed' = freed /\ \A x \in Values : refcount'[x] >= refcount[x]
          /\ UNCHANGED <<stage, cb, args, wrapped, slot, moved, leaked>>
      BY <2>1, <2>2, CountedPointers DEF Copy, Known
    <3>2. QED
      BY <2>1, <3>1
  <2>3. CASE Release(v)
    <3>1. /\ held' = [held EXCEPT ![v] = @ - 1] /\ held[v] > 0
          /\ refcount' = [x \in Values |-> refcount[x] - Is(v, x) - Is(None, x)]
          /\ freed' = freed \cup {x \in Values : refcount'[x] <= 0}
          /\ UNCHANGED <<stage, cb, args, wrapped, slot, moved, leaked>>
      BY <2>1, <2>3, CountedPointers DEF Release
    <3>2. QED
      BY <2>1, <3>1
  <2>4. QED
    BY <2>2, <2>3
<1>2. \A x : /\ CallbackUsers(x)' = CallbackUsers(x) /\ ArgumentUsers(x)' = ArgumentUsers(x)
             /\ Offered(x)' = Offered(x) /\ Taken(x)' = Taken(x)
  BY <1>1 DEF CallbackUsers, ArgumentUsers, Offered, Taken, InFlight
<1>3. ASSUME NEW x \in Values
      PROVE  Countable(x)' /\ Account(x)'
  <2>1. leaked'[x] = leaked[x] /\ held'[x] \in Nat
        /\ refcount'[x] = refcount[x] + held'[x] - held[x]
    BY <1>1
  <2>2. QED
    BY <1>2, <2>1, AccountOf DEF Account, Countable
<1>4. \A x \in freed : /\ Overtaken(x) => Overtaken(x)'
                       /\ Unheld(x) => refcount'[x] = refcount[x]
  <2>1. SUFFICES ASSUME NEW x \in freed
                 PROVE  /\ Overtaken(x) => Overtaken(x)'
                        /\ Unheld(x) => refcount'[x] = refcount[x]
    OBVIOUS
  <2>2. Overtaken(x) => Overtaken(x)'
    BY <1>2 DEF Overtaken
  <2>3. x \in Values
    BY DEF CallbacksIInv, CallbacksTypeOK
  <2>4. Unheld(x) => x # v
    BY <1>1 DEF Unheld
  <2>5. x # v => refcount'[x] = refcount[x]
    BY <1>1, <2>3, AccountOf
  <2>6. QED
    BY <2>2, <2>4, <2>5
<1>5. leaked' \in [Values -> Nat]
  BY <1>1 DEF CallbacksIInv, CallbacksTypeOK
<1>6. refcount' = [x \in Values |-> refcount'[x]] /\ freed' \in SUBSET Values
  BY <1>1 DEF CallbacksIInv, CallbacksTypeOK
<1>7. RefcountAccounted' /\ FreedUncounted' /\ refcount' \in [Values -> Int]
  BY <1>1, <1>3, <1>4, <1>5, <1>6, AccountKept
<1>8. CallbacksTypeOK' /\ MovedStarted'
  BY <1>1, <1>6, <1>7 DEF CallbacksIInv, CallbacksTypeOK, MovedStarted
<1>9. QED
  BY <1>7, <1>8 DEF CallbacksIInv

\* Start: callback and argument are copied.
LEMMA StartAccounted ==
    ASSUME CallbacksIInv, NEW o \in Holders,
           NEW c \in Values \cup {None}, NEW a \in Values \cup {None}, Start(o, c, a)
    PROVE  CallbacksIInv'
<1>1. /\ refcount' = [v \in Values |-> refcount[v] + Is(c, v) + Is(a, v)]
      /\ freed' = freed /\ \A v \in Values : refcount'[v] >= refcount[v]
      /\ stage[o] = "none" /\ stage' = [stage EXCEPT ![o] = "pending"]
      /\ cb' = [cb EXCEPT ![o] = c] /\ args' = [args EXCEPT ![o] = a]
      /\ UNCHANGED <<held, wrapped, moved, leaked>>
      /\ slot' \in [Wrappers -> Values \cup {None}]
      /\ {c, a} \subseteq Known
  BY CountedPointers DEF Start, SlotsReused
<1>2. held' \in [Values -> Nat] /\ leaked' \in [Values -> Nat]
  BY <1>1 DEF CallbacksIInv, CallbacksTypeOK
<1>3. \A v : Offered(v)' = Offered(v) /\ Taken(v)' = Taken(v)
  <2>1. \A h \in moved : h # o /\ cb'[h] = cb[h]
    BY <1>1 DEF CallbacksIInv, CallbacksTypeOK, MovedStarted, Holders
  <2>2. QED
    BY <1>1, <2>1 DEF Offered, Taken
<1>4. ASSUME NEW v \in Values
      PROVE  Countable(v)' /\ Account(v)'
  <2>1. /\ Cardinality(CallbackUsers(v)') = Cardinality(CallbackUsers(v)) + Is(c, v)
        /\ Cardinality(ArgumentUsers(v)') = Cardinality(ArgumentUsers(v)) + Is(a, v)
    <3>1. CallbacksTypeOK /\ cb'[o] = c /\ args'[o] = a
      BY <1>1 DEF CallbacksIInv, CallbacksTypeOK
    <3>2. QED
      BY <1>1, <3>1, StartedUsers
  <2>2. leaked'[v] = leaked[v] /\ held'[v] = held[v]
    BY <1>1
  <2>3. refcount'[v] = refcount[v] + Is(c, v) + Is(a, v) /\ Is(c, v) \in Nat /\ Is(a, v) \in Nat
    BY <1>1 DEF Is
  <2>4. QED
    BY <1>3, <2>1, <2>2, <2>3, AccountOf DEF Account, Countable
<1>5. \A v \in freed : /\ Overtaken(v) => Overtaken(v)'
                       /\ Unheld(v) => refcount'[v] = refcount[v]
  <2>1. \A v \in freed : v \in Values /\ c # v /\ a # v
    BY <1>1, CallbacksAssumption DEF Known, CallbacksIInv, CallbacksTypeOK
  <2>2. \A v \in freed : refcount'[v] = refcount[v] + 0 + 0 /\ refcount[v] \in Int
    BY <1>1, <2>1, AccountOf DEF Is
  <2>3. QED
    BY <1>3, <2>2 DEF Overtaken
<1>6. RefcountAccounted' /\ FreedUncounted' /\ refcount' \in [Values -> Int]
  BY <1>1, <1>2, <1>4, <1>5, AccountKept
<1>7. CallbacksTypeOK' /\ MovedStarted'
  BY <1>1, <1>2, <1>6 DEF CallbacksIInv, CallbacksTypeOK, MovedStarted
<1>8. QED
  BY <1>6, <1>7 DEF CallbacksIInv

\* Wrap: the reference that an operation will take over.
LEMMA WrapAccounted ==
    ASSUME CallbacksIInv, NEW w \in Wrappers, NEW c \in Values, Wrap(w, c)
    PROVE  CallbacksIInv'
<1>1. /\ refcount' = [v \in Values |-> refcount[v] + Is(c, v) + Is(None, v)]
      /\ freed' = freed /\ \A v \in Values : refcount'[v] >= refcount[v]
      /\ wrapped[w] = None /\ wrapped' = [wrapped EXCEPT ![w] = c]
      /\ slot' \in [Wrappers -> Values \cup {None}]
      /\ c \notin freed /\ c # None
      /\ UNCHANGED <<held, stage, cb, args, moved, leaked>>
  BY CountedPointers, CallbacksAssumption DEF Wrap, SlotsReused, Known
<1>2. /\ held' \in [Values -> Nat] /\ leaked' \in [Values -> Nat]
      /\ wrapped' \in [Wrappers -> Values \cup {None}]
  BY <1>1 DEF CallbacksIInv, CallbacksTypeOK
<1>3. \A v : /\ CallbackUsers(v)' = CallbackUsers(v) /\ ArgumentUsers(v)' = ArgumentUsers(v)
             /\ Taken(v)' = Taken(v)
  BY <1>1 DEF CallbackUsers, ArgumentUsers, Taken, InFlight
<1>4. ASSUME NEW v \in Values
      PROVE  /\ w \notin Offered(v)
             /\ Offered(v)' = IF c = v THEN Offered(v) \cup {w} ELSE Offered(v)
  <2>1. w \notin Offered(v)
    BY <1>1, AccountOf DEF Offered
  <2>2. \A x \in Wrappers : wrapped'[x] = IF x = w THEN c ELSE wrapped[x]
    BY <1>1 DEF CallbacksIInv, CallbacksTypeOK
  <2>3. QED
    BY <2>1, <2>2 DEF Offered
<1>5. ASSUME NEW v \in Values
      PROVE  Countable(v)' /\ Account(v)'
  <2>1. leaked'[v] = leaked[v] /\ held'[v] = held[v]
    BY <1>1
  <2>2. Cardinality(Offered(v)') = Cardinality(Offered(v)) + Is(c, v)
    BY <1>4, UsersFinite, OneMoreUser DEF CallbacksIInv
  <2>3. refcount'[v] = refcount[v] + Is(c, v) /\ Is(c, v) \in Nat
    <3>1. refcount[v] \in Int /\ Is(None, v) = 0 /\ Is(c, v) \in Nat
      BY AccountOf, CountedPointers
    <3>2. QED
      BY <1>1, <3>1
  <2>4. QED
    BY <1>3, <2>1, <2>2, <2>3, AccountOf DEF Account, Countable
<1>6. \A v \in freed : /\ Overtaken(v) => Overtaken(v)'
                       /\ Unheld(v) => refcount'[v] = refcount[v]
  <2>1. \A v \in freed : v \in Values /\ c # v /\ None # v
    BY <1>1, CallbacksAssumption DEF CallbacksIInv, CallbacksTypeOK
  <2>2. \A v \in freed : refcount'[v] = refcount[v] + 0 + 0 /\ refcount[v] \in Int
    BY <1>1, <2>1, AccountOf DEF Is
  <2>3. \A v \in freed : Offered(v)' = Offered(v)
    BY <1>4, <2>1
  <2>4. QED
    BY <1>3, <2>2, <2>3 DEF Overtaken
<1>7. RefcountAccounted' /\ FreedUncounted' /\ refcount' \in [Values -> Int]
  BY <1>1, <1>2, <1>5, <1>6, AccountKept
<1>8. CallbacksTypeOK' /\ MovedStarted'
  BY <1>1, <1>2, <1>7 DEF CallbacksIInv, CallbacksTypeOK, MovedStarted
<1>9. QED
  BY <1>7, <1>8 DEF CallbacksIInv

\* StartWrapped: what the slot holds is moved, not copied.
LEMMA StartWrappedAccounted ==
    ASSUME CallbacksIInv, NEW o \in Futures, NEW w \in Wrappers,
           NEW a \in Values \cup {None}, StartWrapped(o, w, a)
    PROVE  CallbacksIInv'
<1>1. /\ refcount' = [v \in Values |-> refcount[v] + Is(None, v) + Is(a, v)]
      /\ freed' = freed /\ \A v \in Values : refcount'[v] >= refcount[v]
      /\ stage[o] = "none" /\ stage' = [stage EXCEPT ![o] = "pending"]
      /\ cb' = [cb EXCEPT ![o] = slot[w]] /\ args' = [args EXCEPT ![o] = a]
      /\ moved' = moved \cup {o}
      /\ UNCHANGED <<held, wrapped, leaked>>
      /\ slot' \in [Wrappers -> Values \cup {None}] /\ o \in Holders
      /\ a \in Known
  BY CountedPointers DEF StartWrapped, SlotsReused, Holders
<1>2. /\ held' \in [Values -> Nat] /\ leaked' \in [Values -> Nat]
      /\ slot[w] \in Values \cup {None}
  BY <1>1 DEF CallbacksIInv, CallbacksTypeOK
<1>3. ASSUME NEW v
      PROVE  /\ Offered(v)' = Offered(v) /\ o \notin Taken(v)
             /\ Taken(v)' = IF slot[w] = v THEN Taken(v) \cup {o} ELSE Taken(v)
  <2>1. /\ o \notin moved
        /\ \A h \in moved : cb'[h] = cb[h]
        /\ cb'[o] = slot[w]
    BY <1>1 DEF CallbacksIInv, CallbacksTypeOK, MovedStarted, Holders
  <2>2. QED
    BY <1>1, <2>1 DEF Offered, Taken
<1>4. ASSUME NEW v \in Values
      PROVE  Countable(v)' /\ Account(v)'
  <2>1. /\ Cardinality(CallbackUsers(v)') = Cardinality(CallbackUsers(v)) + Is(slot[w], v)
        /\ Cardinality(ArgumentUsers(v)') = Cardinality(ArgumentUsers(v)) + Is(a, v)
    <3>1. CallbacksTypeOK /\ cb'[o] = slot[w] /\ args'[o] = a
      BY <1>1 DEF CallbacksIInv, CallbacksTypeOK
    <3>2. QED
      BY <1>1, <3>1, StartedUsers
  <2>2. Cardinality(Taken(v)') = Cardinality(Taken(v)) + Is(slot[w], v)
    BY <1>3, UsersFinite, OneMoreUser DEF CallbacksIInv
  <2>3. /\ refcount'[v] = refcount[v] + Is(a, v)
        /\ Is(slot[w], v) \in Nat /\ Is(a, v) \in Nat
    <3>1. /\ refcount[v] \in Int /\ Is(None, v) = 0
          /\ Is(slot[w], v) \in Nat /\ Is(a, v) \in Nat
      BY AccountOf, CountedPointers
    <3>2. QED
      BY <1>1, <3>1
  <2>4. leaked'[v] = leaked[v] /\ held'[v] = held[v] /\ Offered(v)' = Offered(v)
    BY <1>1, <1>3
  <2>5. QED
    BY <2>1, <2>2, <2>3, <2>4, AccountOf DEF Account, Countable
<1>5. \A v \in freed : /\ Overtaken(v) => Overtaken(v)'
                       /\ Unheld(v) => refcount'[v] = refcount[v]
  <2>1. SUFFICES ASSUME NEW v \in freed
                 PROVE  (Overtaken(v) => Overtaken(v)') /\ refcount'[v] = refcount[v]
    OBVIOUS
  <2>2. v \in Values /\ a # v /\ None # v
    BY <1>1, CallbacksAssumption DEF Known, CallbacksIInv, CallbacksTypeOK
  <2>3. refcount'[v] = refcount[v] + 0 + 0 /\ refcount[v] \in Int
    BY <1>1, <2>2, AccountOf DEF Is
  <2>4. Cardinality(Taken(v)') = Cardinality(Taken(v)) + Is(slot[w], v)
    BY <1>3, UsersFinite, OneMoreUser DEF CallbacksIInv
  <2>5. Is(slot[w], v) \in Nat /\ Offered(v)' = Offered(v) /\ Countable(v)
    BY <1>3, <2>2, AccountOf DEF Is
  <2>6. QED
    BY <2>3, <2>4, <2>5 DEF Overtaken, Countable
<1>6. RefcountAccounted' /\ FreedUncounted' /\ refcount' \in [Values -> Int]
  BY <1>1, <1>2, <1>4, <1>5, AccountKept
<1>7. CallbacksTypeOK'
  BY <1>1, <1>2, <1>6 DEF CallbacksIInv, CallbacksTypeOK
<1>8. MovedStarted'
  BY <1>1 DEF CallbacksIInv, CallbacksTypeOK, MovedStarted, Holders
<1>9. QED
  BY <1>6, <1>7, <1>8 DEF CallbacksIInv

\* Handle, and Invoke, whose copy of the argument nothing releases.
LEMMA CalledAccounted ==
    ASSUME CallbacksIInv, NEW o \in Holders,
           Handle(o) \/ Invoke(o)
    PROVE  CallbacksIInv'
<1>1. /\ stage[o] = "pending" /\ stage' = [stage EXCEPT ![o] = "called"]
      /\ UNCHANGED <<held, cb, args, wrapped, moved>>
      /\ slot' \in [Wrappers -> Values \cup {None}]
  BY DEF Handle, Invoke, SlotsReused
<1>2. /\ refcount' = [v \in Values |-> refcount'[v]] /\ leaked' \in [Values -> Nat]
      /\ freed' = freed
      /\ \A v \in Values : /\ refcount'[v] - refcount[v] = leaked'[v] - leaked[v]
                           /\ refcount'[v] \in Int /\ refcount'[v] >= refcount[v]
                           /\ args[o] # v => refcount'[v] = refcount[v]
  <2>1. refcount \in [Values -> Int] /\ leaked \in [Values -> Nat]
    BY DEF CallbacksIInv, CallbacksTypeOK
  <2>2. CASE Handle(o)
    BY <2>1, <2>2 DEF Handle
  <2>3. CASE Invoke(o)
    <3>1. /\ refcount' = [v \in Values |-> refcount[v] + Is(args[o], v) + Is(None, v)]
          /\ leaked' = [v \in Values |-> leaked[v] + Is(args[o], v)]
          /\ \A v \in Values : Is(args[o], v) \in Nat /\ Is(None, v) = 0
          /\ freed' = freed
      BY <2>3, CountedPointers DEF Invoke
    <3>2. ASSUME NEW v \in Values
          PROVE  /\ refcount'[v] = refcount[v] + Is(args[o], v) /\ refcount'[v] \in Int
                 /\ leaked'[v] = leaked[v] + Is(args[o], v) /\ leaked'[v] \in Nat
                 /\ refcount[v] \in Int /\ leaked[v] \in Nat /\ Is(args[o], v) \in Nat
                 /\ args[o] # v => Is(args[o], v) = 0
      BY <2>1, <3>1 DEF Is
    <3>3. QED
      BY <3>1, <3>2
  <2>4. QED
    BY <2>2, <2>3
<1>3. o \in InFlight /\ InFlight' = InFlight /\ held' \in [Values -> Nat]
  BY <1>1 DEF CallbacksIInv, CallbacksTypeOK, InFlight
<1>4. \A v : /\ CallbackUsers(v)' = CallbackUsers(v) /\ ArgumentUsers(v)' = ArgumentUsers(v)
             /\ Offered(v)' = Offered(v) /\ Taken(v)' = Taken(v)
  BY <1>1, <1>3 DEF CallbackUsers, ArgumentUsers, Offered, Taken
<1>5. ASSUME NEW v \in Values
      PROVE  Countable(v)' /\ Account(v)'
  <2>1. held'[v] = held[v]
    BY <1>1
  <2>2. /\ refcount'[v] - refcount[v] = leaked'[v] - leaked[v]
        /\ refcount'[v] \in Int /\ leaked'[v] \in Nat
    BY <1>2
  <2>3. QED
    BY <1>4, <2>1, <2>2, AccountOf DEF Account, Countable
<1>6. \A v \in freed : /\ Overtaken(v) => Overtaken(v)'
                       /\ Unheld(v) => refcount'[v] = refcount[v]
  <2>1. \A v \in freed : v \in Values /\ (Unheld(v) => args[o] # v)
    BY <1>3 DEF Unheld, ArgumentUsers, CallbacksIInv, CallbacksTypeOK
  <2>2. QED
    BY <1>2, <1>4, <2>1 DEF Overtaken
<1>7. RefcountAccounted' /\ FreedUncounted' /\ refcount' \in [Values -> Int]
  BY <1>2, <1>3, <1>5, <1>6, AccountKept
<1>8. CallbacksTypeOK' /\ MovedStarted'
  BY <1>1, <1>2, <1>3, <1>7 DEF CallbacksIInv, CallbacksTypeOK, MovedStarted
<1>9. QED
  BY <1>7, <1>8 DEF CallbacksIInv

\* Returned, and NotInvoked, which loses the reference to what is no callable.
LEMMA EndAccounted ==
    ASSUME CallbacksIInv, NEW o \in Holders,
           Returned(o) \/ NotInvoked(o)
    PROVE  CallbacksIInv'
<1>1. /\ o \in InFlight /\ stage' = [stage EXCEPT ![o] = "done"]
      /\ UNCHANGED <<held, cb, args, wrapped, slot, moved>>
  BY DEF Returned, NotInvoked, InFlight
<1>2. /\ refcount' = [v \in Values |-> refcount'[v]] /\ leaked' \in [Values -> Nat]
      /\ freed' = freed \cup {v \in Values : refcount'[v] <= 0}
      /\ \A v \in Values :
           /\ refcount'[v] - leaked'[v] = refcount[v] - leaked[v] - Is(cb[o], v) - Is(args[o], v)
           /\ refcount'[v] \in Int
           /\ cb[o] # v /\ args[o] # v => refcount'[v] = refcount[v]
  <2>1. /\ refcount \in [Values -> Int] /\ leaked \in [Values -> Nat]
        /\ \A v \in Values : Is(cb[o], v) \in Nat /\ Is(args[o], v) \in Nat /\ Is(None, v) = 0
        /\ \A v \in Values : cb[o] # v /\ args[o] # v => Is(cb[o], v) = 0 /\ Is(args[o], v) = 0
    BY CountedPointers DEF CallbacksIInv, CallbacksTypeOK, Is
  <2>2. CASE Returned(o)
    <3>1. /\ refcount' = [v \in Values |-> refcount[v] - Is(cb[o], v) - Is(args[o], v)]
          /\ freed' = freed \cup {v \in Values : refcount'[v] <= 0}
          /\ leaked' = leaked
      BY <2>2, CountedPointers DEF Returned
    <3>2. QED
      BY <2>1, <3>1
  <2>3. CASE NotInvoked(o)
    <3>1. /\ refcount' = [v \in Values |-> refcount[v] - Is(args[o], v) - Is(None, v)]
          /\ freed' = freed \cup {v \in Values : refcount'[v] <= 0}
      BY <2>3, CountedPointers DEF NotInvoked
    <3>2. leaked' = [v \in Values |-> leaked[v] + Is(cb[o], v)]
      BY <2>3, CountedPointers DEF NotInvoked
    <3>3. ASSUME NEW v \in Values
          PROVE  /\ refcount'[v] = refcount[v] - Is(args[o], v) /\ leaked'[v] = leaked[v] + Is(cb[o], v)
                 /\ refcount'[v] \in Int /\ leaked'[v] \in Nat
                 /\ args[o] # v => refcount'[v] = refcount[v]
      BY <2>1, <3>1, <3>2 DEF Is
    <3>4. leaked' \in [Values -> Nat] /\ refcount' = [v \in Values |-> refcount'[v]]
      BY <3>1, <3>2, <3>3
    <3>5. QED
      BY <2>1, <3>1, <3>3, <3>4
  <2>4. QED
    BY <2>2, <2>3
<1>3. held' \in [Values -> Nat]
  BY <1>1 DEF CallbacksIInv, CallbacksTypeOK
<1>4. \A v : Offered(v)' = Offered(v) /\ Taken(v)' = Taken(v)
  BY <1>1 DEF Offered, Taken
<1>5. ASSUME NEW v \in Values
      PROVE  Countable(v)' /\ Account(v)'
  <2>1. /\ Cardinality(CallbackUsers(v)') \in Nat /\ Cardinality(ArgumentUsers(v)') \in Nat
        /\ Cardinality(CallbackUsers(v)) = Cardinality(CallbackUsers(v)') + Is(cb[o], v)
        /\ Cardinality(ArgumentUsers(v)) = Cardinality(ArgumentUsers(v)') + Is(args[o], v)
    BY <1>1, EndedUsers DEF CallbacksIInv
  <2>2. held'[v] = held[v]
    BY <1>1
  <2>3. /\ refcount'[v] - leaked'[v] = refcount[v] - leaked[v] - Is(cb[o], v) - Is(args[o], v)
        /\ refcount'[v] \in Int /\ leaked'[v] \in Nat
    BY <1>2
  <2>4. Is(cb[o], v) \in Nat /\ Is(args[o], v) \in Nat
    BY DEF Is
  <2>5. /\ held[v] \in Nat /\ leaked[v] \in Nat /\ refcount[v] \in Int
        /\ Cardinality(Offered(v)) \in Nat /\ Cardinality(Taken(v)) \in Nat /\ Account(v)
    BY AccountOf DEF Countable
  <2>6. refcount'[v] = held[v] + leaked'[v] + Cardinality(CallbackUsers(v)')
                       + Cardinality(ArgumentUsers(v)')
                       + Cardinality(Offered(v)) - Cardinality(Taken(v))
    <3> DEFINE r == refcount[v]  r1 == refcount'[v]  l == leaked[v]  l1 == leaked'[v]
               c == Cardinality(CallbackUsers(v))  c1 == Cardinality(CallbackUsers(v)')
               a == Cardinality(ArgumentUsers(v))  a1 == Cardinality(ArgumentUsers(v)')
               f == Cardinality(Offered(v))  t == Cardinality(Taken(v))
               ic == Is(cb[o], v)  ia == Is(args[o], v)  h == held[v]
    <3>1. r = h + l + c + a + f - t
      BY <2>5 DEF Account
    <3>2. /\ r1 \in Int /\ r \in Int /\ l1 \in Nat /\ l \in Nat /\ h \in Nat
          /\ c1 \in Nat /\ a1 \in Nat /\ f \in Nat /\ t \in Nat /\ ic \in Nat /\ ia \in Nat
      BY <2>1, <2>3, <2>4, <2>5
    <3>3. c = c1 + ic /\ a = a1 + ia /\ r1 - l1 = r - l - ic - ia
      BY <2>1, <2>3
    <3>4. r1 = h + l1 + c1 + a1 + f - t
      <4> HIDE DEF r, r1, l, l1, c, c1, a, a1, f, t, ic, ia, h
      <4>1. QED
        BY <3>1, <3>2, <3>3
    <3>5. QED
      BY <3>4
  <2>7. /\ Cardinality(Offered(v)') = Cardinality(Offered(v))
        /\ Cardinality(Taken(v)') = Cardinality(Taken(v))
    BY <1>4
  <2>8. Countable(v)'
    BY <2>1, <2>5, <2>7 DEF Countable
  <2>9. Account(v)'
    BY <2>2, <2>6, <2>7 DEF Account
  <2>10. QED
    BY <2>8, <2>9
<1>6. \A v \in freed : /\ Overtaken(v) => Overtaken(v)'
                       /\ Unheld(v) => refcount'[v] = refcount[v]
  <2>1. \A v \in freed : v \in Values /\ (Unheld(v) => cb[o] # v /\ args[o] # v)
    BY <1>1 DEF Unheld, CallbackUsers, ArgumentUsers, CallbacksIInv, CallbacksTypeOK
  <2>2. \A v : Overtaken(v) => Overtaken(v)'
    BY <1>4 DEF Overtaken
  <2>3. \A v \in freed : Unheld(v) => refcount'[v] = refcount[v]
    BY <1>2, <2>1
  <2>4. QED
    BY <2>2, <2>3
<1>7. RefcountAccounted' /\ FreedUncounted' /\ refcount' \in [Values -> Int]
  BY <1>2, <1>3, <1>5, <1>6, AccountKept
<1>8. CallbacksTypeOK' /\ MovedStarted'
  BY <1>1, <1>2, <1>3, <1>7 DEF CallbacksIInv, CallbacksTypeOK, MovedStarted
<1>9. QED
  BY <1>7, <1>8 DEF CallbacksIInv

\* Every step keeps the account of every value.
LEMMA StepAccounted ==
    ASSUME CallbacksIInv, [CallbacksNext]_callbacksVars
    PROVE  CallbacksIInv'
<1>1. ASSUME NEW v \in Values, Copy(v) \/ Release(v)
      PROVE  CallbacksIInv'
  BY <1>1, ScriptAccounted
<1>2. ASSUME NEW o \in Holders, NEW c \in Values \cup {None}, NEW a \in Values \cup {None},
             Start(o, c, a)
      PROVE  CallbacksIInv'
  BY <1>2, StartAccounted
<1>3. ASSUME NEW w \in Wrappers, NEW c \in Values, Wrap(w, c)
      PROVE  CallbacksIInv'
  BY <1>3, WrapAccounted
<1>4. ASSUME NEW o \in Futures, NEW w \in Wrappers, NEW a \in Values \cup {None},
             StartWrapped(o, w, a)
      PROVE  CallbacksIInv'
  BY <1>4, StartWrappedAccounted
<1>5. ASSUME NEW o \in Holders, Handle(o) \/ Invoke(o) \/ NotInvoked(o) \/ Returned(o)
      PROVE  CallbacksIInv'
  BY <1>5, CalledAccounted, EndAccounted
<1>6. ASSUME Call \/ UNCHANGED callbacksVars
      PROVE  CallbacksIInv'
  <2>1. /\ UNCHANGED <<refcount, freed, held, stage, cb, args, wrapped, moved, leaked>>
        /\ slot' \in [Wrappers -> Values \cup {None}]
    BY <1>6 DEF Call, SlotsReused, callbacksVars, CallbacksIInv, CallbacksTypeOK
  <2>2. QED
    BY <2>1 DEF CallbacksIInv, CallbacksTypeOK, MovedStarted, RefcountAccounted,
                FreedUncounted, Overtaken, Offered, Taken, InFlight
<1>7. Futures \subseteq Holders /\ Posted \subseteq Holders
  BY DEF Holders
<1>8. QED
  BY <1>1, <1>2, <1>3, <1>4, <1>5, <1>6, <1>7 DEF CallbacksNext

(***************************************************************************)
(* The references of callbacks, arguments and WrappedHandlers are          *)
(* accounted for, for any number of each and whatever scripts do with      *)
(* their WrappedHandlers (PHP_ASIO_FUTURE_INIT to                          *)
(* PHP_ASIO_INVOKE_CALLBACK_END).                                          *)
(***************************************************************************)
THEOREM CallbacksIInvAlways == CallbacksSpec => []CallbacksIInv
<1>1. CallbacksIInv /\ [CallbacksNext]_callbacksVars => CallbacksIInv'
  BY StepAccounted
<1>2. QED
  BY <1>1, InitCallbacks, PTL DEF CallbacksSpec

(***************************************************************************)
(* A refcount is what the script, the operations in flight, the leaks and  *)
(* what wrap() added less what was taken over account for: no reference is *)
(* dropped twice, and none is lost but by Invoke and NotInvoked.           *)
(***************************************************************************)
THEOREM RefcountAccountedAlways == CallbacksSpec => []RefcountAccounted
<1>1. CallbacksIInv => RefcountAccounted
  BY DEF CallbacksIInv
<1>2. QED
  BY <1>1, CallbacksIInvAlways, PTL

(***************************************************************************)
(* The callback and the argument that an operation is to hand over are     *)
(* alive until it has, unless more was taken over of a value than wrap()   *)
(* added (the zval pointers future and handler hold).                      *)
(***************************************************************************)
THEOREM ValuesAliveAlways == CallbacksSpec => []ValuesAlive
<1>1. ASSUME CallbacksIInv
      PROVE  ValuesAlive
  <2>1. SUFFICES ASSUME NEW o \in InFlight, NEW v \in {cb[o], args[o]} \ {None}, v \in freed,
                        ~Overtaken(v)
                 PROVE  FALSE
    BY DEF ValuesAlive
  <2>2. Unheld(v)
    BY <1>1, <2>1, FreedUnheld
  <2>3. QED
    BY <2>1, <2>2 DEF Unheld, CallbackUsers, ArgumentUsers
<1>2. QED
  BY <1>1, CallbacksIInvAlways, PTL

-----------------------------------------------------------------------------
(***************************************************************************)
(* Datagram: receives and their datagrams, in the sockets of both          *)
(* protocols.                                                              *)
(***************************************************************************)

\* The stack holds the receives whose handlers run, each once.
StackHoldsRunning ==
    /\ \A r \in Receives : phase[r] = "running" <=> \E i \in 1..Len(stack) : stack[i] = r
    /\ \A i, j \in 1..Len(stack) : i # j => stack[i] # stack[j]

\* A receive that waits does so in the queue of its socket, without an error.
WaitingAreQueued ==
    \A r \in Receives : phase[r] = "waiting" =>
        /\ ec[r] = "ok" /\ socket[r] \in Sockets
        /\ \E i \in 1..Len(receivers[socket[r]]) : receivers[socket[r]][i] = r

\* Only a receive that is through, and reports no error, has a datagram.
TakenWithoutError ==
    \A r \in Receives : phase[r] \in {"none", "waiting"} \/ ec[r] # "ok" => taken[r] = 0

\* A datagram has arrived before it is anywhere, and is in one place only.
DatagramsApart ==
    /\ \A s \in Sockets : \A i \in 1..Len(inbox[s]) : inbox[s][i] <= arrived
    /\ \A s, t \in Sockets : \A i \in 1..Len(inbox[s]), j \in 1..Len(inbox[t]) :
          inbox[s][i] = inbox[t][j] => s = t /\ i = j
    /\ \A r \in Receives : taken[r] <= arrived
    /\ \A q, r \in Receives : taken[q] = taken[r] /\ taken[r] # 0 => q = r
    /\ \A r \in Receives, s \in Sockets : \A i \in 1..Len(inbox[s]) : inbox[s][i] # taken[r]

\* While its socket is open, what has arrived waits or was taken.
NoneLost ==
    \A d \in 1..arrived : cameTo[d] \in open =>
        \/ \E r \in Receives : taken[r] = d
        \/ \E s \in Sockets : \E i \in 1..Len(inbox[s]) : inbox[s][i] = d

\* A datagram waits, and is taken, where it has arrived.
InItsSocket ==
    /\ \A s \in Sockets : \A i \in 1..Len(inbox[s]) : cameTo[inbox[s][i]] = s
    /\ \A r \in Receives : taken[r] # 0 => socket[r] \in {cameTo[taken[r]], NoSocket}

DatagramIInv ==
    /\ DatagramTypeOK /\ StackHoldsRunning /\ WaitingAreQueued /\ TakenWithoutError
    /\ DatagramsApart /\ NoneLost /\ InItsSocket /\ LastPeerIsOwn

-----------------------------------------------------------------------------
\* At first nothing has arrived and no receive has started.
LEMMA InitDatagram == DatagramInit => DatagramIInv
<1>1. SUFFICES ASSUME DatagramInit
               PROVE  DatagramIInv
  OBVIOUS
<1> USE <1>1, DatagramAssumption DEF DatagramInit
<1>2. /\ \A S : <<>> \in Seq(S)
      /\ Len(stack) = 0 /\ \A s \in Sockets : Len(inbox[s]) = 0
  BY EmptySeq
<1>3. DatagramTypeOK
  BY <1>2 DEF DatagramTypeOK
<1>4. Range(stack) = {}
  <2>1. stack \in Seq(Receives) /\ \A i \in 1..Len(stack) : FALSE
    BY <1>2
  <2>2. QED
    BY <2>1, InRange
<1>5. StackHoldsRunning /\ WaitingAreQueued /\ TakenWithoutError
  BY <1>2 DEF StackHoldsRunning, WaitingAreQueued, TakenWithoutError, Ops
<1>6. DatagramsApart /\ InItsSocket
  BY <1>2 DEF DatagramsApart, InItsSocket
<1>7. NoneLost /\ LastPeerIsOwn
  BY <1>4 DEF NoneLost, LastPeerIsOwn
<1>8. QED
  BY <1>3, <1>5, <1>6, <1>7 DEF DatagramIInv

-----------------------------------------------------------------------------
\* Every step keeps the types.
LEMMA DatagramTypes ==
    ASSUME DatagramTypeOK, WaitingAreQueued, DatagramNext
    PROVE  DatagramTypeOK'
<1> USE DEF Ops
<1>1. ASSUME NEW s \in Sockets, Arrive(s)
      PROVE  DatagramTypeOK'
  <2>1. /\ arrived \in 0..MaxArrived /\ MaxArrived \in Nat /\ arrived < MaxArrived
        /\ inbox \in [Sockets -> Seq(1..MaxArrived)]
    BY <1>1, DatagramAssumption DEF Arrive, DatagramTypeOK
  <2>2. arrived + 1 \in 1..MaxArrived
    BY <2>1
  <2>3. Append(inbox[s], arrived + 1) \in Seq(1..MaxArrived)
    BY <2>1, <2>2, AppendProperties
  <2>4. /\ inbox' = [inbox EXCEPT ![s] = Append(inbox[s], arrived + 1)] /\ arrived' = arrived + 1
        /\ cameTo' = [cameTo EXCEPT ![arrived + 1] = s]
        /\ UNCHANGED <<open, receivers, phase, socket, ec, taken, last, stack, outdated>>
    BY <1>1 DEF Arrive, handlers
  <2>5. inbox' \in [Sockets -> Seq(1..MaxArrived)] /\ arrived' \in 0..MaxArrived
    BY <2>1, <2>2, <2>3, <2>4
  <2>6. QED
    BY <2>4, <2>5 DEF DatagramTypeOK
<1>2. ASSUME NEW r \in Receives, Take(r)
      PROVE  DatagramTypeOK'
  <2> DEFINE s == socket[r]
  <2>1. s \in Sockets /\ receivers[s] # <<>>
    BY <1>2, EmptySeq DEF Take, WaitingAreQueued
  <2>2. receivers[s] \in Seq(Receives) /\ inbox[s] \in Seq(1..MaxArrived) /\ inbox[s] # <<>>
    BY <1>2, <2>1 DEF DatagramTypeOK, Take
  <2>3. /\ Tail(receivers[s]) \in Seq(Receives) /\ Tail(inbox[s]) \in Seq(1..MaxArrived)
        /\ Head(inbox[s]) \in 1..MaxArrived
    BY <2>1, <2>2, HeadTailProperties
  <2>4. /\ phase' = [phase EXCEPT ![r] = "ready"]
        /\ receivers' = [receivers EXCEPT ![s] = Tail(receivers[s])]
        /\ taken' = [taken EXCEPT ![r] = Head(inbox[s])]
        /\ inbox' = [inbox EXCEPT ![s] = Tail(inbox[s])]
        /\ UNCHANGED <<open, arrived, cameTo, socket, ec, last, stack, outdated>>
    BY <1>2 DEF Take, handlers
  <2>5. Head(inbox[s]) \in 0..MaxArrived
    BY <2>3
  <2> HIDE DEF s
  <2>6. QED
    BY <2>1, <2>3, <2>4, <2>5 DEF DatagramTypeOK
<1>3. ASSUME NEW r \in Receives, NEW s \in Sockets, RecvFrom(r, s)
      PROVE  DatagramTypeOK'
  <2>1. receivers[s] \in Seq(Receives)
    BY DEF DatagramTypeOK
  <2>2. Append(receivers[s], r) \in Seq(Receives)
    BY <2>1, AppendProperties
  <2>3. QED
    BY <1>3, <2>1, <2>2 DEF RecvFrom, Starts, DatagramTypeOK, kernel, handlers
<1>4. ASSUME NEW x \in Sends, NEW s \in Sockets, SendTo(x, s)
      PROVE  DatagramTypeOK'
  BY <1>4 DEF SendTo, Starts, DatagramTypeOK, kernel, handlers
<1>5. ASSUME NEW s \in Sockets, Cancel(s) \/ Close(s)
      PROVE  DatagramTypeOK'
  <2>1. <<>> \in Seq(Receives) /\ <<>> \in Seq(1..MaxArrived)
    BY EmptySeq
  <2>2. phase' \in [Ops -> {"none", "waiting", "ready", "running", "done"}]
    BY <1>5 DEF Cancel, Close, AbortWaiting, DatagramTypeOK
  <2>3. ec' \in [Ops -> {"ok", "aborted", "bad_descriptor", "unreachable"}]
    BY <1>5 DEF Cancel, Close, AbortWaiting, DatagramTypeOK
  <2>4. /\ receivers' = [receivers EXCEPT ![s] = <<>>]
        /\ inbox' = inbox \/ inbox' = [inbox EXCEPT ![s] = <<>>]
        /\ open' = open \/ open' = open \ {s}
    BY <1>5 DEF Cancel, Close, AbortWaiting, kernel
  <2>5. UNCHANGED <<arrived, cameTo, socket, taken, last, stack, outdated>>
    BY <1>5 DEF Cancel, Close, kernel, handlers
  <2>6. /\ receivers' \in [Sockets -> Seq(Receives)] /\ inbox' \in [Sockets -> Seq(1..MaxArrived)]
        /\ open' \subseteq Sockets
    BY <2>1, <2>4 DEF DatagramTypeOK
  <2>7. QED
    BY <2>2, <2>3, <2>5, <2>6 DEF DatagramTypeOK
<1>6. ASSUME NEW r \in Receives, RecvHandler(r)
      PROVE  DatagramTypeOK'
  <2>1. stack \in Seq(Receives) /\ taken[r] \in 0..MaxArrived
    BY DEF DatagramTypeOK
  <2>2. stack' \in Seq(Receives) /\ Range(stack) \subseteq Receives
    BY <1>6, <2>1, AppendProperties, RangeOfSeq DEF RecvHandler
  <2>3. last' \in [Protocols -> 0..MaxArrived]
    BY <1>6, <2>1 DEF RecvHandler, DatagramTypeOK
  <2>4. outdated' \in SUBSET Receives
    BY <1>6, <2>2 DEF RecvHandler, DatagramTypeOK
  <2>5. QED
    BY <1>6, <2>2, <2>3, <2>4 DEF RecvHandler, DatagramTypeOK, kernel
<1>7. ASSUME NEW r \in Receives, HandlerEnds(r)
      PROVE  DatagramTypeOK'
  <2>1. stack' \in Seq(Receives)
    BY <1>7, LastAndFront DEF HandlerEnds, DatagramTypeOK
  <2>2. QED
    BY <1>7, <2>1 DEF HandlerEnds, Forgotten, DatagramTypeOK, kernel
<1>8. ASSUME NEW x \in Sends, Transmit(x) \/ WriteHandler(x)
      PROVE  DatagramTypeOK'
  BY <1>8 DEF Transmit, WriteHandler, Forgotten, DatagramTypeOK, kernel, handlers
<1>9. QED
  BY <1>1, <1>2, <1>3, <1>4, <1>5, <1>6, <1>7, <1>8
  DEF DatagramNext, UdpSendTo, UdgSendTo, UdpRecvHandler, UdgRecvHandler

-----------------------------------------------------------------------------
\* recv_handler pushes a receive, the end of its callback takes it off.
LEMMA RunningStacked ==
    ASSUME DatagramIInv, DatagramNext
    PROVE  StackHoldsRunning'
<1>1. ASSUME NEW r \in Receives, RecvHandler(r)
      PROVE  StackHoldsRunning'
  <2>1. stack \in Seq(Receives) /\ Len(stack) \in Nat
    BY LenProperties DEF DatagramIInv, DatagramTypeOK
  <2>2. /\ Len(stack') = Len(stack) + 1 /\ stack'[Len(stack) + 1] = r
        /\ \A i \in 1..Len(stack) : stack'[i] = stack[i]
    BY <1>1, <2>1, AppendProperties DEF RecvHandler
  <2>3. /\ phase[r] # "running"
        /\ \A h \in Receives : phase'[h] = IF h = r THEN "running" ELSE phase[h]
    BY <1>1 DEF RecvHandler, DatagramIInv, DatagramTypeOK, Ops
  <2>4. /\ \A i \in 1..Len(stack) : stack[i] \in Receives /\ stack[i] # r
        /\ \A i \in 1..Len(stack) + 1 : i \in 1..Len(stack) \/ i = Len(stack) + 1
        /\ 1..Len(stack) \subseteq 1..Len(stack) + 1 /\ Len(stack) + 1 \in 1..Len(stack) + 1
    BY <2>1, <2>3, LenProperties DEF DatagramIInv, StackHoldsRunning
  <2>5. \A h \in Receives : phase'[h] = "running" <=> \E i \in 1..Len(stack') : stack'[i] = h
    BY <2>2, <2>3, <2>4 DEF DatagramIInv, StackHoldsRunning
  <2>6. \A i, j \in 1..Len(stack') : i # j => stack'[i] # stack'[j]
    BY <2>2, <2>4 DEF DatagramIInv, StackHoldsRunning
  <2>7. QED
    BY <2>5, <2>6 DEF StackHoldsRunning
<1>2. ASSUME NEW r \in Receives, HandlerEnds(r)
      PROVE  StackHoldsRunning'
  <2>1. stack \in Seq(Receives) /\ stack # <<>>
    BY <1>2 DEF HandlerEnds, DatagramIInv, DatagramTypeOK
  <2>2. /\ Len(stack) \in Nat \ {0} /\ r = stack[Len(stack)] /\ Len(stack') = Len(stack) - 1
        /\ \A i \in 1..Len(stack') : stack'[i] = stack[i]
    BY <1>2, <2>1, LastAndFront DEF HandlerEnds
  <2>3. \A h \in Receives : phase'[h] = IF h = r THEN "done" ELSE phase[h]
    BY <1>2 DEF HandlerEnds, Forgotten, DatagramIInv, DatagramTypeOK, Ops
  <2>4. /\ \A i \in 1..Len(stack) : i \in 1..Len(stack') \/ i = Len(stack)
        /\ \A i \in 1..Len(stack') : i \in 1..Len(stack) /\ i # Len(stack)
        /\ Len(stack) \in 1..Len(stack)
    BY <2>2
  <2>5. /\ \A h \in Receives : phase[h] = "running" <=> \E i \in 1..Len(stack) : stack[i] = h
        /\ \A i, j \in 1..Len(stack) : i # j => stack[i] # stack[j]
    BY DEF DatagramIInv, StackHoldsRunning
  <2>6. ASSUME NEW h \in Receives
        PROVE  phase'[h] = "running" <=> \E i \in 1..Len(stack') : stack'[i] = h
    <3>1. CASE h = r
      <4>1. \A i \in 1..Len(stack') : stack'[i] # r
        BY <2>2, <2>4, <2>5
      <4>2. QED
        BY <2>3, <3>1, <4>1
    <3>2. CASE h # r
      <4>1. (\E i \in 1..Len(stack') : stack'[i] = h) <=> \E i \in 1..Len(stack) : stack[i] = h
        BY <2>2, <2>4, <3>2
      <4>2. phase'[h] = phase[h]
        BY <2>3, <3>2
      <4>3. QED
        BY <2>5, <4>1, <4>2
    <3>3. QED
      BY <3>1, <3>2
  <2>7. \A i, j \in 1..Len(stack') : i # j => stack'[i] # stack'[j]
    BY <2>2, <2>4, <2>5
  <2>8. QED
    BY <2>6, <2>7 DEF StackHoldsRunning
<1>3. ASSUME stack' = stack,
             \A h \in Receives : phase'[h] = "running" <=> phase[h] = "running"
      PROVE  StackHoldsRunning'
  BY <1>3 DEF DatagramIInv, StackHoldsRunning
<1>4. ASSUME NEW s \in Sockets, Arrive(s) \/ Cancel(s) \/ Close(s)
      PROVE  StackHoldsRunning'
  BY <1>3, <1>4 DEF Arrive, Cancel, Close, AbortWaiting, WaitingOn, handlers, Ops
<1>5. ASSUME NEW s \in Sockets, NEW o \in Ops, (o \in Receives /\ RecvFrom(o, s)) \/ SendTo(o, s)
      PROVE  StackHoldsRunning'
  BY <1>3, <1>5 DEF RecvFrom, SendTo, Starts, handlers, DatagramIInv, DatagramTypeOK, Ops
<1>6. ASSUME NEW r \in Receives, Take(r)
      PROVE  StackHoldsRunning'
  BY <1>3, <1>6 DEF Take, handlers, DatagramIInv, DatagramTypeOK, Ops
<1>7. ASSUME NEW x \in Sends, Transmit(x) \/ WriteHandler(x)
      PROVE  StackHoldsRunning'
  BY <1>3, <1>7 DEF Transmit, WriteHandler, Forgotten, handlers, DatagramIInv, DatagramTypeOK, Ops
<1>8. QED
  BY <1>1, <1>2, <1>4, <1>5, <1>6, <1>7
  DEF DatagramNext, UdpSendTo, UdgSendTo, UdpRecvHandler, UdgRecvHandler, Ops

\* A receive waits from recvFrom until it takes a datagram or is aborted.
LEMMA WaitingQueued ==
    ASSUME DatagramIInv, DatagramNext
    PROVE  WaitingAreQueued'
<1> USE DEF Ops
<1>a. DatagramTypeOK /\ WaitingAreQueued /\ Receives \cap Sends = {}
  BY DatagramAssumption DEF DatagramIInv
<1>1. ASSUME NEW r \in Receives, Take(r)
      PROVE  WaitingAreQueued'
  <2> DEFINE s == socket[r]
  <2>1. /\ s \in Sockets /\ receivers[s] # <<>> /\ r = Head(receivers[s])
        /\ receivers[s] \in Seq(Receives)
    BY <1>1, <1>a, EmptySeq DEF Take, WaitingAreQueued, DatagramTypeOK
  <2>2. /\ phase' = [phase EXCEPT ![r] = "ready"] /\ UNCHANGED <<socket, ec>>
        /\ receivers' = [receivers EXCEPT ![s] = Tail(receivers[s])]
    BY <1>1 DEF Take
  <2>3. /\ Len(receivers[s]) \in Nat \ {0} /\ r = receivers[s][1]
        /\ Len(Tail(receivers[s])) = Len(receivers[s]) - 1
        /\ \A i \in 1..Len(receivers[s]) - 1 : Tail(receivers[s])[i] = receivers[s][i + 1]
    BY <2>1, HeadAndTail
  <2>4. ASSUME NEW q \in Receives, phase'[q] = "waiting"
        PROVE  /\ ec'[q] = "ok" /\ socket'[q] \in Sockets
               /\ \E i \in 1..Len(receivers'[socket'[q]]) : receivers'[socket'[q]][i] = q
    <3>1. phase[q] = "waiting" /\ q # r
      BY <1>a, <2>2, <2>4 DEF DatagramTypeOK
    <3>2. /\ ec[q] = "ok" /\ socket[q] \in Sockets
          /\ \E i \in 1..Len(receivers[socket[q]]) : receivers[socket[q]][i] = q
      BY <1>a, <3>1 DEF WaitingAreQueued
    <3>3. CASE socket[q] # s
      <4>1. receivers'[socket[q]] = receivers[socket[q]]
        BY <1>a, <2>2, <3>3, <3>2 DEF DatagramTypeOK
      <4>2. QED
        BY <2>2, <3>2, <4>1
    <3>4. CASE socket[q] = s
      <4>1. receivers'[s] = Tail(receivers[s])
        BY <1>a, <2>1, <2>2 DEF DatagramTypeOK
      <4>2. PICK i \in 1..Len(receivers[s]) : receivers[s][i] = q
        BY <3>2, <3>4
      <4>3. i - 1 \in 1..Len(receivers[s]) - 1 /\ (i - 1) + 1 = i
        BY <2>3, <3>1, <4>2
      <4>4. receivers'[s][i - 1] = q /\ i - 1 \in 1..Len(receivers'[s])
        <5> HIDE DEF s
        <5>1. QED
          BY <2>3, <4>1, <4>2, <4>3
      <4>5. QED
        BY <2>2, <3>2, <3>4, <4>4
    <3>5. QED
      BY <3>3, <3>4
  <2>5. QED
    BY <2>4 DEF WaitingAreQueued
<1>2. ASSUME NEW r \in Receives, NEW s \in Sockets, RecvFrom(r, s)
      PROVE  WaitingAreQueued'
  <2>1. /\ phase[r] = "none"
        /\ socket' = [socket EXCEPT ![r] = s]
        /\ phase' = [phase EXCEPT ![r] = IF s \in open THEN "waiting" ELSE "ready"]
        /\ ec' = [ec EXCEPT ![r] = IF s \in open THEN "ok" ELSE "bad_descriptor"]
        /\ receivers' = [receivers EXCEPT ![s] = IF s \in open THEN Append(receivers[s], r)
                                                 ELSE receivers[s]]
    BY <1>2 DEF RecvFrom, Starts
  <2>2. /\ receivers[s] \in Seq(Receives) /\ Len(receivers[s]) \in Nat
        /\ Len(Append(receivers[s], r)) = Len(receivers[s]) + 1
        /\ Append(receivers[s], r)[Len(receivers[s]) + 1] = r
        /\ \A i \in 1..Len(receivers[s]) : Append(receivers[s], r)[i] = receivers[s][i]
    BY <1>a, AppendProperties, LenProperties DEF DatagramTypeOK
  <2>3. ASSUME NEW q \in Receives, phase'[q] = "waiting"
        PROVE  /\ ec'[q] = "ok" /\ socket'[q] \in Sockets
               /\ \E i \in 1..Len(receivers'[socket'[q]]) : receivers'[socket'[q]][i] = q
    <3>1. CASE q = r
      <4>1. /\ s \in open /\ ec'[r] = "ok" /\ socket'[r] = s
            /\ receivers'[s] = Append(receivers[s], r)
        BY <1>a, <2>1, <2>3, <3>1 DEF DatagramTypeOK
      <4>2. Len(receivers[s]) + 1 \in 1..Len(receivers'[s])
        BY <2>2, <4>1
      <4>3. QED
        BY <2>2, <3>1, <4>1, <4>2
    <3>2. CASE q # r
      <4>1. phase[q] = "waiting" /\ ec'[q] = ec[q] /\ socket'[q] = socket[q]
        BY <1>a, <2>1, <2>3, <3>2 DEF DatagramTypeOK
      <4>2. /\ ec[q] = "ok" /\ socket[q] \in Sockets
            /\ \E i \in 1..Len(receivers[socket[q]]) : receivers[socket[q]][i] = q
        BY <1>a, <4>1 DEF WaitingAreQueued
      <4>3. \/ receivers'[socket[q]] = receivers[socket[q]]
            \/ socket[q] = s /\ receivers'[s] = Append(receivers[s], r)
        BY <1>a, <2>1, <4>2 DEF DatagramTypeOK
      <4>4. \E i \in 1..Len(receivers'[socket[q]]) : receivers'[socket[q]][i] = q
        <5>1. CASE receivers'[socket[q]] = receivers[socket[q]]
          BY <4>2, <5>1
        <5>2. CASE socket[q] = s /\ receivers'[s] = Append(receivers[s], r)
          <6>1. PICK i \in 1..Len(receivers[s]) : receivers[s][i] = q
            BY <4>2, <5>2
          <6>2. i \in 1..Len(receivers'[s]) /\ receivers'[s][i] = q
            BY <2>2, <5>2, <6>1
          <6>3. QED
            BY <5>2, <6>2
        <5>3. QED
          BY <4>3, <5>1, <5>2
      <4>5. QED
        BY <4>1, <4>2, <4>4
    <3>3. QED
      BY <3>1, <3>2
  <2>4. QED
    BY <2>3 DEF WaitingAreQueued
<1>3. ASSUME NEW s \in Sockets, Cancel(s) \/ Close(s)
      PROVE  WaitingAreQueued'
  <2>1. /\ phase' = [o \in Ops |-> IF o \in WaitingOn(s) THEN "ready" ELSE phase[o]]
        /\ ec' = [o \in Ops |-> IF o \in WaitingOn(s) THEN "aborted" ELSE ec[o]]
        /\ receivers' = [receivers EXCEPT ![s] = <<>>] /\ socket' = socket
    BY <1>3 DEF Cancel, Close, AbortWaiting
  <2>2. ASSUME NEW q \in Receives, phase'[q] = "waiting"
        PROVE  /\ phase[q] = "waiting" /\ ec'[q] = ec[q] /\ socket'[q] = socket[q]
               /\ receivers'[socket[q]] = receivers[socket[q]]
    <3>1. q \notin WaitingOn(s) /\ phase[q] = "waiting"
      BY <2>1, <2>2
    <3>2. socket[q] # s /\ socket[q] \in Sockets
      BY <1>a, <3>1 DEF WaitingOn, WaitingAreQueued
    <3>3. QED
      BY <1>a, <2>1, <3>1, <3>2 DEF DatagramTypeOK
  <2>3. QED
    BY <1>a, <2>2 DEF WaitingAreQueued
<1>4. ASSUME receivers' = receivers,
             \A q \in Receives : phase'[q] = "waiting" =>
                phase[q] = "waiting" /\ ec'[q] = ec[q] /\ socket'[q] = socket[q]
      PROVE  WaitingAreQueued'
  BY <1>a, <1>4 DEF WaitingAreQueued
<1>5. ASSUME NEW r \in Receives, RecvHandler(r) \/ HandlerEnds(r)
      PROVE  WaitingAreQueued'
  BY <1>a, <1>4, <1>5 DEF RecvHandler, HandlerEnds, Forgotten, DatagramTypeOK, kernel
<1>6. ASSUME NEW x \in Sends, \/ \E s \in Sockets : SendTo(x, s)
                              \/ Transmit(x) \/ WriteHandler(x)
      PROVE  WaitingAreQueued'
  BY <1>a, <1>4, <1>6
  DEF SendTo, Starts, Transmit, WriteHandler, Forgotten, DatagramTypeOK, kernel
<1>7. ASSUME NEW s \in Sockets, Arrive(s)
      PROVE  WaitingAreQueued'
  BY <1>4, <1>7 DEF Arrive
<1>8. QED
  BY <1>1, <1>2, <1>3, <1>5, <1>6, <1>7
  DEF DatagramNext, UdpSendTo, UdgSendTo, UdpRecvHandler, UdgRecvHandler

\* A receive takes a datagram only when it ends without an error.
LEMMA TakenFits ==
    ASSUME DatagramIInv, DatagramNext
    PROVE  TakenWithoutError'
<1> USE DEF Ops
<1>a. /\ DatagramTypeOK /\ WaitingAreQueued /\ TakenWithoutError
      /\ Receives \cap Sends = {}
  BY DatagramAssumption DEF DatagramIInv
<1>1. ASSUME NEW r \in Receives, Take(r)
      PROVE  TakenWithoutError'
  <2>1. /\ phase'[r] = "ready" /\ ec' = ec /\ ec[r] = "ok"
        /\ \A h \in Receives \ {r} : phase'[h] = phase[h] /\ taken'[h] = taken[h]
    BY <1>a, <1>1 DEF Take, DatagramTypeOK, WaitingAreQueued
  <2>2. QED
    BY <1>a, <2>1 DEF TakenWithoutError
<1>2. ASSUME taken' = taken,
             \A h \in Receives : phase'[h] \in {"none", "waiting"} \/ ec'[h] # "ok"
                                   => phase[h] \in {"none", "waiting"} \/ ec[h] # "ok"
      PROVE  TakenWithoutError'
  BY <1>a, <1>2 DEF TakenWithoutError
<1>3. ASSUME NEW s \in Sockets, NEW r \in Receives, RecvFrom(r, s)
      PROVE  TakenWithoutError'
  BY <1>a, <1>2, <1>3 DEF RecvFrom, Starts, DatagramTypeOK
<1>4. ASSUME NEW s \in Sockets, Cancel(s) \/ Close(s)
      PROVE  TakenWithoutError'
  <2>1. /\ taken' = taken
        /\ \A h \in Receives : \/ phase[h] = "waiting"
                               \/ phase'[h] = phase[h] /\ ec'[h] = ec[h]
    BY <1>4 DEF Cancel, Close, AbortWaiting, WaitingOn
  <2>2. QED
    BY <1>2, <2>1
<1>5. ASSUME NEW r \in Receives, RecvHandler(r) \/ HandlerEnds(r)
      PROVE  TakenWithoutError'
  BY <1>a, <1>2, <1>5 DEF RecvHandler, HandlerEnds, Forgotten, DatagramTypeOK
<1>6. ASSUME NEW x \in Sends, \/ \E s \in Sockets : SendTo(x, s)
                              \/ Transmit(x) \/ WriteHandler(x)
      PROVE  TakenWithoutError'
  BY <1>a, <1>2, <1>6
  DEF SendTo, Starts, Transmit, WriteHandler, Forgotten, DatagramTypeOK
<1>7. ASSUME NEW s \in Sockets, Arrive(s)
      PROVE  TakenWithoutError'
  BY <1>2, <1>7 DEF Arrive
<1>8. QED
  BY <1>1, <1>3, <1>4, <1>5, <1>6, <1>7
  DEF DatagramNext, UdpSendTo, UdgSendTo, UdpRecvHandler, UdgRecvHandler

\* Arrive: the datagram is the newest, and at the end of one inbox.
LEMMA ArrivedIsNew ==
    ASSUME DatagramIInv, NEW s \in Sockets, Arrive(s)
    PROVE  DatagramsApart' /\ NoneLost' /\ InItsSocket'
<1>1. /\ inbox \in [Sockets -> Seq(1..MaxArrived)] /\ arrived \in Nat /\ MaxArrived \in Nat
      /\ taken \in [Receives -> Nat] /\ arrived + 1 \in 1..MaxArrived
      /\ cameTo \in [1..MaxArrived -> Sockets \cup {NoSocket}] /\ arrived < MaxArrived
  BY DatagramAssumption DEF DatagramIInv, DatagramTypeOK, Arrive
<1>2. /\ inbox' = [inbox EXCEPT ![s] = Append(inbox[s], arrived + 1)]
      /\ arrived' = arrived + 1 /\ taken' = taken /\ open' = open
      /\ cameTo' = [cameTo EXCEPT ![arrived + 1] = s] /\ socket' = socket
  BY DEF Arrive
<1>3. /\ Len(inbox[s]) \in Nat /\ Len(inbox'[s]) = Len(inbox[s]) + 1
      /\ inbox'[s][Len(inbox[s]) + 1] = arrived + 1
      /\ \A i \in 1..Len(inbox[s]) : inbox'[s][i] = inbox[s][i]
      /\ \A t \in Sockets \ {s} : inbox'[t] = inbox[t]
  BY <1>1, <1>2, AppendProperties, LenProperties
<1>4. \A t \in Sockets : \A i \in 1..Len(inbox'[t]) :
         \/ i \in 1..Len(inbox[t]) /\ inbox'[t][i] = inbox[t][i]
         \/ t = s /\ i = Len(inbox[s]) + 1 /\ inbox'[t][i] = arrived + 1
  BY <1>3
<1>5. \A t \in Sockets : \A i \in 1..Len(inbox[t]) :
         inbox[t][i] \in Nat /\ inbox[t][i] <= arrived
  BY <1>1, ElementOfSeq DEF DatagramIInv, DatagramsApart
<1>6. DatagramsApart'
  <2>1. \A t \in Sockets : \A i \in 1..Len(inbox'[t]) : inbox'[t][i] <= arrived'
    BY <1>1, <1>2, <1>4, <1>5
  <2>2. \A t, u \in Sockets : \A i \in 1..Len(inbox'[t]), j \in 1..Len(inbox'[u]) :
           inbox'[t][i] = inbox'[u][j] => t = u /\ i = j
    <3>1. SUFFICES ASSUME NEW t \in Sockets, NEW u \in Sockets,
                          NEW i \in 1..Len(inbox'[t]), NEW j \in 1..Len(inbox'[u]),
                          inbox'[t][i] = inbox'[u][j]
                   PROVE  t = u /\ i = j
      OBVIOUS
    <3>2. /\ i \in 1..Len(inbox[t]) => inbox[t][i] # arrived + 1
          /\ j \in 1..Len(inbox[u]) => inbox[u][j] # arrived + 1
      BY <1>1, <1>5
    <3>3. /\ \/ i \in 1..Len(inbox[t]) /\ inbox'[t][i] = inbox[t][i]
             \/ t = s /\ i = Len(inbox[s]) + 1 /\ inbox'[t][i] = arrived + 1
          /\ \/ j \in 1..Len(inbox[u]) /\ inbox'[u][j] = inbox[u][j]
             \/ u = s /\ j = Len(inbox[s]) + 1 /\ inbox'[u][j] = arrived + 1
      BY <1>4
    <3>4. i \in 1..Len(inbox[t]) /\ j \in 1..Len(inbox[u]) /\ inbox[t][i] = inbox[u][j]
             => t = u /\ i = j
      BY DEF DatagramIInv, DatagramsApart
    <3>5. QED
      BY <3>1, <3>2, <3>3, <3>4
  <2>3. \A r \in Receives : taken'[r] <= arrived' /\ taken[r] \in Nat /\ taken[r] <= arrived
    BY <1>1, <1>2 DEF DatagramIInv, DatagramsApart
  <2>4. \A q, r \in Receives : taken'[q] = taken'[r] /\ taken'[r] # 0 => q = r
    BY <1>2 DEF DatagramIInv, DatagramsApart
  <2>5. \A r \in Receives, t \in Sockets : \A i \in 1..Len(inbox'[t]) : inbox'[t][i] # taken'[r]
    <3>1. SUFFICES ASSUME NEW r \in Receives, NEW t \in Sockets, NEW i \in 1..Len(inbox'[t])
                   PROVE  inbox'[t][i] # taken[r]
      BY <1>2
    <3>2. taken[r] # arrived + 1
      BY <1>1, <2>3
    <3>3. QED
      BY <1>4, <3>2 DEF DatagramIInv, DatagramsApart
  <2>6. QED
    BY <2>1, <2>2, <2>3, <2>4, <2>5 DEF DatagramsApart
<1>7. \A d \in 1..arrived : d \in 1..MaxArrived /\ d # arrived + 1 /\ cameTo'[d] = cameTo[d]
  BY <1>1, <1>2
<1>8. NoneLost'
  <2>1. SUFFICES ASSUME NEW d \in 1..arrived + 1, cameTo'[d] \in open
                 PROVE  \/ \E r \in Receives : taken'[r] = d
                        \/ \E t \in Sockets : \E i \in 1..Len(inbox'[t]) : inbox'[t][i] = d
    BY <1>2 DEF NoneLost
  <2>2. CASE d = arrived + 1
    <3>1. Len(inbox[s]) + 1 \in 1..Len(inbox'[s])
      BY <1>3
    <3>2. QED
      BY <1>3, <2>2, <3>1
  <2>3. CASE d # arrived + 1
    <3>1. d \in 1..arrived
      BY <1>1, <2>3
    <3>2. \A t \in Sockets : \A i \in 1..Len(inbox[t]) :
             i \in 1..Len(inbox'[t]) /\ inbox'[t][i] = inbox[t][i]
      BY <1>3
    <3>3. QED
      BY <1>2, <1>7, <2>1, <3>1, <3>2 DEF DatagramIInv, NoneLost
  <2>4. QED
    BY <2>2, <2>3
<1>9. InItsSocket'
  <2>1. ASSUME NEW t \in Sockets, NEW i \in 1..Len(inbox'[t])
        PROVE  cameTo'[inbox'[t][i]] = t
    <3>1. CASE i \in 1..Len(inbox[t]) /\ inbox'[t][i] = inbox[t][i]
      <4>1. inbox[t][i] \in 1..arrived
        <5>1. inbox[t][i] \in 1..MaxArrived
          BY <1>1, <3>1, ElementOfSeq
        <5>2. QED
          BY <1>1, <1>5, <3>1, <5>1
      <4>2. QED
        BY <1>7, <3>1, <4>1 DEF DatagramIInv, InItsSocket
    <3>2. CASE t = s /\ inbox'[t][i] = arrived + 1
      BY <1>1, <1>2, <3>2
    <3>3. QED
      BY <1>4, <2>1, <3>1, <3>2
  <2>2. ASSUME NEW r \in Receives, taken[r] # 0
        PROVE  socket[r] \in {cameTo'[taken[r]], NoSocket}
    <3>1. taken[r] \in 1..arrived
      BY <1>1, <2>2 DEF DatagramIInv, DatagramsApart
    <3>2. QED
      BY <1>7, <2>2, <3>1 DEF DatagramIInv, InItsSocket
  <2>3. QED
    BY <1>2, <2>1, <2>2 DEF InItsSocket
<1>10. QED
  BY <1>6, <1>8, <1>9

\* Take: the datagram goes from the head of an inbox to the receive.
LEMMA TakenIsMoved ==
    ASSUME DatagramIInv, NEW r \in Receives, Take(r)
    PROVE  DatagramsApart' /\ NoneLost' /\ InItsSocket'
<1>1. PICK s \in Sockets :
         /\ socket[r] = s /\ inbox[s] # <<>> /\ inbox' = [inbox EXCEPT ![s] = Tail(inbox[s])]
         /\ taken' = [taken EXCEPT ![r] = Head(inbox[s])]
  BY DEF Take, DatagramIInv, WaitingAreQueued
<1>2. /\ inbox \in [Sockets -> Seq(1..MaxArrived)] /\ taken \in [Receives -> Nat]
      /\ UNCHANGED <<arrived, cameTo, open, socket>> /\ arrived \in Nat
  BY DEF Take, DatagramIInv, DatagramTypeOK
<1>3. /\ Len(inbox[s]) \in Nat \ {0} /\ Len(inbox'[s]) = Len(inbox[s]) - 1
      /\ Head(inbox[s]) = inbox[s][1]
      /\ \A i \in 1..Len(inbox[s]) - 1 : inbox'[s][i] = inbox[s][i + 1]
      /\ \A t \in Sockets \ {s} : inbox'[t] = inbox[t]
  <2>1. inbox'[s] = Tail(inbox[s]) /\ \A t \in Sockets \ {s} : inbox'[t] = inbox[t]
    BY <1>1, <1>2
  <2>2. QED
    BY <1>1, <1>2, <2>1, HeadAndTail
<1>4. ASSUME NEW t \in Sockets, NEW i \in 1..Len(inbox'[t])
      PROVE  \E j \in 1..Len(inbox[t]) : /\ inbox'[t][i] = inbox[t][j]
                                         /\ j = IF t = s THEN i + 1 ELSE i
  <2>1. CASE t = s
    <3>1. i \in 1..Len(inbox[s]) - 1 /\ i + 1 \in 1..Len(inbox[s])
      BY <1>3, <1>4, <2>1
    <3>2. QED
      BY <1>3, <2>1, <3>1
  <2>2. CASE t # s
    BY <1>3, <1>4, <2>2
  <2>3. QED
    BY <2>1, <2>2
<1>5. 1 \in 1..Len(inbox[s]) /\ taken'[r] = inbox[s][1] /\ \A h \in Receives \ {r} : taken'[h] = taken[h]
  BY <1>1, <1>2, <1>3
<1>6. DatagramsApart'
  <2>1. \A t \in Sockets : \A i \in 1..Len(inbox'[t]) : inbox'[t][i] <= arrived'
    <3>1. \A t \in Sockets : \A j \in 1..Len(inbox[t]) : inbox[t][j] <= arrived
      BY DEF DatagramIInv, DatagramsApart
    <3>2. ASSUME NEW t \in Sockets, NEW i \in 1..Len(inbox'[t])
          PROVE  inbox'[t][i] <= arrived
      <4>1. PICK j \in 1..Len(inbox[t]) : inbox'[t][i] = inbox[t][j]
        BY <1>4
      <4>2. QED
        BY <3>1, <4>1
    <3>3. QED
      BY <1>2, <3>2
  <2>2. \A t, u \in Sockets : \A i \in 1..Len(inbox'[t]), j \in 1..Len(inbox'[u]) :
           inbox'[t][i] = inbox'[u][j] => t = u /\ i = j
    <3>1. SUFFICES ASSUME NEW t \in Sockets, NEW u \in Sockets,
                          NEW i \in 1..Len(inbox'[t]), NEW j \in 1..Len(inbox'[u]),
                          inbox'[t][i] = inbox'[u][j]
                   PROVE  t = u /\ i = j
      OBVIOUS
    <3>2. PICK k \in 1..Len(inbox[t]) : inbox'[t][i] = inbox[t][k] /\ k = IF t = s THEN i + 1 ELSE i
      BY <1>4
    <3>3. PICK l \in 1..Len(inbox[u]) : inbox'[u][j] = inbox[u][l] /\ l = IF u = s THEN j + 1 ELSE j
      BY <1>4
    <3>4. t = u /\ k = l
      <4>1. k \in 1..Len(inbox[t]) /\ l \in 1..Len(inbox[u]) /\ inbox[t][k] = inbox[u][l]
        BY <3>1, <3>2, <3>3
      <4>2. QED
        BY <4>1 DEF DatagramIInv, DatagramsApart
    <3>5. i \in Int /\ j \in Int
      <4>1. Len(inbox'[t]) \in Int /\ Len(inbox'[u]) \in Int
        BY <1>2, <1>3, LenProperties
      <4>2. QED
        BY <4>1
    <3>6. QED
      BY <3>2, <3>3, <3>4, <3>5
  <2>3. \A h \in Receives : taken'[h] <= arrived'
    BY <1>2, <1>5 DEF DatagramIInv, DatagramsApart
  <2>4. \A q, h \in Receives : taken'[q] = taken'[h] /\ taken'[h] # 0 => q = h
    BY <1>5 DEF DatagramIInv, DatagramsApart
  <2>5. \A h \in Receives, t \in Sockets : \A i \in 1..Len(inbox'[t]) : inbox'[t][i] # taken'[h]
    <3>1. SUFFICES ASSUME NEW h \in Receives, NEW t \in Sockets, NEW i \in 1..Len(inbox'[t])
                   PROVE  inbox'[t][i] # taken'[h]
      OBVIOUS
    <3>2. PICK k \in 1..Len(inbox[t]) : inbox'[t][i] = inbox[t][k] /\ k = IF t = s THEN i + 1 ELSE i
      BY <1>4
    <3>3. t = s => k # 1
      BY <3>2
    <3>4. CASE h = r
      BY <1>5, <3>2, <3>3, <3>4 DEF DatagramIInv, DatagramsApart
    <3>5. CASE h # r
      BY <1>5, <3>2, <3>5 DEF DatagramIInv, DatagramsApart
    <3>6. QED
      BY <3>4, <3>5
  <2>6. QED
    BY <2>1, <2>2, <2>3, <2>4, <2>5 DEF DatagramsApart
<1>7. NoneLost'
  <2>1. SUFFICES ASSUME NEW d \in 1..arrived, cameTo[d] \in open
                 PROVE  \/ \E h \in Receives : taken'[h] = d
                        \/ \E t \in Sockets : \E i \in 1..Len(inbox'[t]) : inbox'[t][i] = d
    BY <1>2 DEF NoneLost
  <2>2. ASSUME NEW h \in Receives, taken[h] = d
        PROVE  \E q \in Receives : taken'[q] = d
    <3>1. taken[r] = 0 /\ d # 0
      BY <1>2 DEF Take, DatagramIInv, TakenWithoutError
    <3>2. QED
      BY <1>5, <2>2, <3>1
  <2>3. ASSUME NEW t \in Sockets, NEW i \in 1..Len(inbox[t]), inbox[t][i] = d
        PROVE  \/ \E h \in Receives : taken'[h] = d
               \/ \E u \in Sockets : \E j \in 1..Len(inbox'[u]) : inbox'[u][j] = d
    <3>1. CASE t # s
      BY <1>3, <2>3, <3>1
    <3>2. CASE t = s /\ i = 1
      BY <1>5, <2>3, <3>2
    <3>3. CASE t = s /\ i # 1
      <4>1. i - 1 \in 1..Len(inbox'[s]) /\ i - 1 \in 1..Len(inbox[s]) - 1 /\ (i - 1) + 1 = i
        BY <1>3, <2>3, <3>3
      <4>2. inbox'[s][i - 1] = d
        BY <1>3, <2>3, <3>3, <4>1
      <4>3. QED
        BY <4>1, <4>2
    <3>4. QED
      BY <3>1, <3>2, <3>3
  <2>4. QED
    BY <2>1, <2>2, <2>3 DEF DatagramIInv, NoneLost
<1>8. InItsSocket'
  <2>1. ASSUME NEW t \in Sockets, NEW i \in 1..Len(inbox'[t])
        PROVE  cameTo[inbox'[t][i]] = t
    BY <1>4 DEF DatagramIInv, InItsSocket
  <2>2. cameTo[taken'[r]] = s
    BY <1>5 DEF DatagramIInv, InItsSocket
  <2>3. \A h \in Receives : taken'[h] # 0 => socket[h] \in {cameTo[taken'[h]], NoSocket}
    BY <1>1, <1>5, <2>2 DEF DatagramIInv, InItsSocket
  <2>4. QED
    BY <1>2, <2>1, <2>3 DEF InItsSocket
<1>9. QED
  BY <1>6, <1>7, <1>8

\* Every step keeps each datagram in one place, that of its socket.
LEMMA DatagramsKept ==
    ASSUME DatagramIInv, DatagramNext
    PROVE  DatagramsApart' /\ NoneLost' /\ InItsSocket'
<1> USE DEF Ops
<1>a. /\ DatagramTypeOK /\ DatagramsApart /\ NoneLost /\ InItsSocket /\ TakenWithoutError
      /\ Receives \cap Sends = {}
  BY DatagramAssumption DEF DatagramIInv
<1>1. ASSUME UNCHANGED <<inbox, arrived, cameTo, open, taken>>,
             \A r \in Receives : taken[r] # 0 => socket'[r] \in {socket[r], NoSocket}
      PROVE  DatagramsApart' /\ NoneLost' /\ InItsSocket'
  BY <1>a, <1>1 DEF DatagramsApart, NoneLost, InItsSocket
<1>2. ASSUME NEW s \in Sockets, Close(s)
      PROVE  DatagramsApart' /\ NoneLost' /\ InItsSocket'
  <2>1. /\ open' = open \ {s} /\ UNCHANGED <<arrived, cameTo, taken, socket>>
        /\ inbox' = [inbox EXCEPT ![s] = <<>>]
    BY <1>2 DEF Close
  <2>2. \A t \in Sockets : \A i \in 1..Len(inbox'[t]) :
           i \in 1..Len(inbox[t]) /\ inbox'[t][i] = inbox[t][i]
    BY <1>a, <2>1, EmptySeq DEF DatagramTypeOK
  <2>3. \A t \in Sockets \ {s} : inbox'[t] = inbox[t]
    BY <1>a, <2>1 DEF DatagramTypeOK
  <2>4. NoneLost'
    <3>1. SUFFICES ASSUME NEW d \in 1..arrived, cameTo[d] \in open \ {s}
                   PROVE  \/ \E r \in Receives : taken[r] = d
                          \/ \E t \in Sockets : \E i \in 1..Len(inbox'[t]) : inbox'[t][i] = d
      BY <2>1 DEF NoneLost
    <3>2. ASSUME NEW t \in Sockets, NEW i \in 1..Len(inbox[t]), inbox[t][i] = d
          PROVE  \E u \in Sockets : \E k \in 1..Len(inbox'[u]) : inbox'[u][k] = d
      <4>1. cameTo[d] = t
        BY <1>a, <3>2 DEF InItsSocket
      <4>2. QED
        BY <2>3, <3>1, <3>2, <4>1
    <3>3. QED
      BY <1>a, <3>1, <3>2 DEF NoneLost
  <2>5. DatagramsApart' /\ InItsSocket'
    BY <1>a, <2>1, <2>2 DEF DatagramsApart, InItsSocket
  <2>6. QED
    BY <2>4, <2>5
<1>3. ASSUME NEW s \in Sockets, NEW r \in Receives, RecvFrom(r, s)
      PROVE  DatagramsApart' /\ NoneLost' /\ InItsSocket'
  <2>1. phase[r] = "none" /\ socket' = [socket EXCEPT ![r] = s]
    BY <1>3 DEF RecvFrom, Starts
  <2>2. taken[r] = 0 /\ \A h \in Receives \ {r} : socket'[h] = socket[h]
    BY <1>a, <2>1 DEF TakenWithoutError, DatagramTypeOK
  <2>3. QED
    BY <1>1, <1>3, <2>2 DEF RecvFrom, kernel
<1>4. ASSUME NEW x \in Sends, \/ \E s \in Sockets : SendTo(x, s)
                              \/ Transmit(x) \/ WriteHandler(x)
      PROVE  DatagramsApart' /\ NoneLost' /\ InItsSocket'
  <2>1. \A h \in Receives : socket'[h] = socket[h]
    BY <1>a, <1>4 DEF SendTo, Starts, Transmit, WriteHandler, Forgotten, DatagramTypeOK
  <2>2. QED
    BY <1>1, <1>4, <2>1 DEF SendTo, Transmit, WriteHandler, kernel
<1>5. ASSUME NEW r \in Receives, RecvHandler(r) \/ HandlerEnds(r)
      PROVE  DatagramsApart' /\ NoneLost' /\ InItsSocket'
  <2>1. \A h \in Receives : socket'[h] \in {socket[h], NoSocket}
    BY <1>a, <1>5 DEF RecvHandler, HandlerEnds, Forgotten, DatagramTypeOK
  <2>2. QED
    BY <1>1, <1>5, <2>1 DEF RecvHandler, HandlerEnds, kernel
<1>6. ASSUME NEW s \in Sockets, Cancel(s)
      PROVE  DatagramsApart' /\ NoneLost' /\ InItsSocket'
  BY <1>1, <1>6 DEF Cancel, kernel
<1>7. QED
  BY <1>2, <1>3, <1>4, <1>5, <1>6, ArrivedIsNew, TakenIsMoved
  DEF DatagramNext, UdpSendTo, UdgSendTo, UdpRecvHandler, UdgRecvHandler

\* A handler that runs inside another of its protocol makes that one outdated.
LEMMA PeerKept ==
    ASSUME DatagramIInv, DatagramNext
    PROVE  LastPeerIsOwn'
<1> USE DEF Ops
<1>a. /\ DatagramTypeOK /\ StackHoldsRunning /\ TakenWithoutError /\ LastPeerIsOwn
      /\ Receives \cap Sends = {} /\ stack \in Seq(Receives)
  BY DatagramAssumption DEF DatagramIInv, DatagramTypeOK
<1>b. \A x : x \in Range(stack) <=> \E i \in 1..Len(stack) : stack[i] = x
  BY <1>a, InRange
<1>c. \A h \in Range(stack) : h \in Receives /\ phase[h] = "running"
  BY <1>a, <1>b, RangeOfSeq DEF StackHoldsRunning
<1>1. ASSUME UNCHANGED <<last, stack, outdated>>,
             \A h \in Receives : phase[h] = "running" =>
                socket'[h] = socket[h] /\ ec'[h] = ec[h] /\ taken'[h] = taken[h]
      PROVE  LastPeerIsOwn'
  BY <1>a, <1>c, <1>1 DEF LastPeerIsOwn, RemoteEndpoint
<1>2. ASSUME NEW r \in Receives, RecvHandler(r)
      PROVE  LastPeerIsOwn'
  <2>1. /\ phase[r] = "ready"
        /\ last' = [last EXCEPT ![Protocol(socket[r])] = taken[r]]
        /\ stack' = Append(stack, r)
        /\ outdated' = outdated \cup {h \in Range(stack) :
                                        Protocol(socket[h]) = Protocol(socket[r])}
        /\ UNCHANGED <<socket, ec, taken>>
    BY <1>2 DEF RecvHandler
  <2>2. Protocol(socket[r]) \in Protocols /\ last \in [Protocols -> 0..MaxArrived]
    BY <1>a DEF Protocol, Protocols, DatagramTypeOK
  <2>3. \A h : h \in Range(stack') => h \in Range(stack) \/ h = r
    <3>1. /\ Len(stack) \in Nat /\ Len(stack') = Len(stack) + 1 /\ stack' \in Seq(Receives)
          /\ \A i \in 1..Len(stack) : stack'[i] = stack[i]
          /\ stack'[Len(stack) + 1] = r
      BY <1>a, <2>1, AppendProperties, LenProperties
    <3>2. \A x : x \in Range(stack') <=> \E i \in 1..Len(stack') : stack'[i] = x
      BY <3>1, InRange
    <3>3. \A i \in 1..Len(stack') : i \in 1..Len(stack) \/ i = Len(stack) + 1
      BY <3>1
    <3>4. QED
      BY <1>b, <3>1, <3>2, <3>3
  <2>4. SUFFICES ASSUME NEW h \in Range(stack') \ outdated'
                 PROVE  last'[Protocol(socket[h])] = IF ec[h] = "ok" THEN taken[h] ELSE 0
    BY <2>1 DEF LastPeerIsOwn, RemoteEndpoint, Protocol
  <2>5. CASE h = r
    <3>1. ec[r] # "ok" => taken[r] = 0
      BY <1>a DEF TakenWithoutError
    <3>2. last'[Protocol(socket[r])] = taken[r]
      BY <2>1, <2>2
    <3>3. QED
      BY <2>5, <3>1, <3>2
  <2>6. CASE h # r
    <3>1. /\ h \in Range(stack) \ outdated
          /\ Protocol(socket[h]) # Protocol(socket[r])
      BY <2>1, <2>3, <2>4, <2>6
    <3>2. last'[Protocol(socket[h])] = last[Protocol(socket[h])]
      BY <2>1, <2>2, <3>1 DEF Protocol, Protocols
    <3>3. QED
      BY <1>a, <3>1, <3>2 DEF LastPeerIsOwn, RemoteEndpoint
  <2>7. QED
    BY <2>5, <2>6
<1>3. ASSUME NEW r \in Receives, HandlerEnds(r)
      PROVE  LastPeerIsOwn'
  <2>1. /\ stack # <<>> /\ r = Last(stack) /\ stack' = Front(stack)
        /\ outdated' = outdated \ {r} /\ UNCHANGED <<taken, last>>
        /\ socket' = [socket EXCEPT ![r] = NoSocket] /\ ec' = [ec EXCEPT ![r] = "ok"]
    BY <1>3 DEF HandlerEnds, Forgotten
  <2>2. ASSUME NEW h \in Range(stack')
        PROVE  h \in Range(stack) /\ h # r
    <3>1. /\ Len(stack) \in Nat \ {0} /\ r = stack[Len(stack)]
          /\ stack' \in Seq(Receives) /\ Len(stack') = Len(stack) - 1
          /\ \A i \in 1..Len(stack) - 1 : stack'[i] = stack[i]
      BY <1>a, <2>1, LastAndFront
    <3>2. PICK i \in 1..Len(stack') : stack'[i] = h
      BY <2>2, <3>1, InRange
    <3>3. /\ i \in 1..Len(stack) /\ Len(stack) \in 1..Len(stack) /\ i # Len(stack)
          /\ stack[i] = h
      BY <3>1, <3>2
    <3>4. QED
      BY <1>a, <1>b, <3>1, <3>3 DEF StackHoldsRunning
  <2>3. \A h \in Receives : h # r => socket'[h] = socket[h] /\ ec'[h] = ec[h]
    BY <1>a, <2>1 DEF DatagramTypeOK
  <2>4. QED
    BY <1>a, <1>c, <2>1, <2>2, <2>3 DEF LastPeerIsOwn, RemoteEndpoint
<1>4. ASSUME NEW s \in Sockets, NEW r \in Receives, RecvFrom(r, s)
      PROVE  LastPeerIsOwn'
  BY <1>a, <1>1, <1>4 DEF RecvFrom, Starts, handlers, DatagramTypeOK
<1>5. ASSUME NEW s \in Sockets, Arrive(s) \/ Cancel(s) \/ Close(s)
      PROVE  LastPeerIsOwn'
  BY <1>1, <1>5 DEF Arrive, Cancel, Close, AbortWaiting, WaitingOn, handlers
<1>6. ASSUME NEW r \in Receives, Take(r)
      PROVE  LastPeerIsOwn'
  BY <1>a, <1>1, <1>6 DEF Take, handlers, DatagramTypeOK
<1>7. ASSUME NEW x \in Sends, \/ \E s \in Sockets : SendTo(x, s)
                              \/ Transmit(x) \/ WriteHandler(x)
      PROVE  LastPeerIsOwn'
  BY <1>a, <1>1, <1>7
  DEF SendTo, Starts, Transmit, WriteHandler, Forgotten, handlers, DatagramTypeOK
<1>8. QED
  BY <1>2, <1>3, <1>4, <1>5, <1>6, <1>7
  DEF DatagramNext, UdpSendTo, UdgSendTo, UdpRecvHandler, UdgRecvHandler

-----------------------------------------------------------------------------
(***************************************************************************)
(* Sockets, receives and the datagrams between them fit together, for any  *)
(* number of each and any nesting of handlers.                             *)
(***************************************************************************)
THEOREM DatagramIInvAlways == DatagramSpec => []DatagramIInv
<1>1. DatagramIInv /\ [DatagramNext]_datagramVars => DatagramIInv'
  <2>1. SUFFICES ASSUME DatagramIInv, [DatagramNext]_datagramVars
                 PROVE  DatagramIInv'
    OBVIOUS
  <2>2. CASE DatagramNext
    BY <2>1, <2>2, DatagramTypes, RunningStacked, WaitingQueued, TakenFits, DatagramsKept,
       PeerKept DEF DatagramIInv
  <2>3. CASE UNCHANGED datagramVars
    <3>1. UNCHANGED <<open, inbox, arrived, cameTo, receivers, phase, socket, ec, taken,
                      last, stack, outdated>>
      BY <2>3 DEF datagramVars, kernel, handlers
    <3>2. DatagramTypeOK' /\ StackHoldsRunning'
      BY <2>1, <3>1 DEF DatagramIInv, DatagramTypeOK, StackHoldsRunning
    <3>3. WaitingAreQueued' /\ TakenWithoutError' /\ NoneLost' /\ InItsSocket'
      BY <2>1, <3>1 DEF DatagramIInv, WaitingAreQueued, TakenWithoutError, NoneLost, InItsSocket
    <3>4. DatagramsApart' /\ LastPeerIsOwn'
      BY <2>1, <3>1 DEF DatagramIInv, DatagramsApart, LastPeerIsOwn, RemoteEndpoint
    <3>5. QED
      BY <3>2, <3>3, <3>4 DEF DatagramIInv
  <2>4. QED
    BY <2>1, <2>2, <2>3
<1>2. QED
  BY <1>1, InitDatagram, PTL DEF DatagramSpec

(***************************************************************************)
(* recv_handler of any socket leaves what remoteAddr and remotePath tell   *)
(* its callback and its coroutine.                                         *)
(***************************************************************************)
THEOREM LastPeerIsOwnAlways == DatagramSpec => []LastPeerIsOwn
<1>1. DatagramIInv => LastPeerIsOwn
  BY DEF DatagramIInv
<1>2. QED
  BY <1>1, DatagramIInvAlways, PTL

(***************************************************************************)
(* No datagram is handed over twice, or by another socket than the one it  *)
(* arrived at, and none is lost while that socket is open, whatever is     *)
(* cancelled and whichever other sockets are closed.                       *)
(***************************************************************************)
THEOREM EachDatagramOnceAlways == DatagramSpec => []EachDatagramOnce
<1>1. ASSUME DatagramIInv, NEW d \in 1..arrived
      PROVE  LET takers == {r \in Receives : taken[r] = d}
                 places == {s \in Sockets : d \in Range(inbox[s])}
             IN  /\ Cardinality(takers) + Cardinality(places) <= 1
                 /\ cameTo[d] \in open => takers \cup places # {}
                 /\ places \subseteq {cameTo[d]}
                 /\ \A r \in takers : ec[r] = "ok" /\ socket[r] \in {cameTo[d], NoSocket}
  <2> DEFINE takers == {r \in Receives : taken[r] = d}
             places == {s \in Sockets : d \in Range(inbox[s])}
  <2>1. \A s \in Sockets : d \in Range(inbox[s]) <=> \E i \in 1..Len(inbox[s]) : inbox[s][i] = d
    BY <1>1, InRange DEF DatagramIInv, DatagramTypeOK
  <2>2. d # 0
    BY <1>1 DEF DatagramIInv, DatagramTypeOK
  <2>3. \A q, r \in takers : q = r
    BY <1>1, <2>2 DEF DatagramIInv, DatagramsApart
  <2>4. \A s, t \in places : s = t
    BY <1>1, <2>1 DEF DatagramIInv, DatagramsApart
  <2>5. takers = {} \/ places = {}
    BY <1>1, <2>1 DEF DatagramIInv, DatagramsApart
  <2>6. cameTo[d] \in open => takers # {} \/ places # {}
    BY <1>1, <2>1 DEF DatagramIInv, NoneLost
  <2>7. /\ places \subseteq {cameTo[d]}
        /\ \A r \in takers : ec[r] = "ok" /\ socket[r] \in {cameTo[d], NoSocket}
    <3>1. TakenWithoutError /\ InItsSocket
      BY <1>1 DEF DatagramIInv
    <3>2. places \subseteq {cameTo[d]}
      BY <2>1, <3>1 DEF InItsSocket
    <3>3. \A r \in takers : taken[r] = d /\ taken[r] # 0
      BY <2>2
    <3>4. QED
      BY <3>1, <3>2, <3>3 DEF TakenWithoutError, InItsSocket
  <2>8. Cardinality(takers) + Cardinality(places) <= 1
    <3> HIDE DEF takers, places
    <3>1. takers = {} \/ \E r : takers = {r}
      BY <2>3
    <3>2. places = {} \/ \E s : places = {s}
      BY <2>4
    <3>3. Cardinality(takers) \in {0, 1} /\ Cardinality(places) \in {0, 1}
      BY <3>1, <3>2, FS_EmptySet, FS_Singleton
    <3>4. Cardinality(takers) = 0 \/ Cardinality(places) = 0
      BY <2>5, FS_EmptySet
    <3>5. QED
      BY <3>3, <3>4
  <2>9. QED
    BY <2>6, <2>7, <2>8
<1>2. DatagramIInv => EachDatagramOnce
  BY <1>1 DEF EachDatagramOnce
<1>3. QED
  BY <1>2, DatagramIInvAlways, PTL
=============================================================================
