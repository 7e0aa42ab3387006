-------------------------- MODULE EventQueueProofs --------------------------
(***************************************************************************)
(* Proofs about EventQueue, for any number of producers and closers, any   *)
(* queue and batch size and any event sizes: its type invariant, the bound *)
(* on the queue, the shutdown handshake, what a drain covers, and that it  *)
(* implements FifoHandoff.                                                 *)
(***************************************************************************)
EXTENDS EventQueue, SequenceTheorems, FiniteSetTheorems, TLAPS

(***************************************************************************)
(* A sequence falls into two parts at any of its positions.                *)
(***************************************************************************)
LEMMA SplitAt ==
    ASSUME NEW S, NEW seq \in Seq(S), NEW n \in 0..Len(seq)
    PROVE  /\ SubSeq(seq, 1, n) \in Seq(S)
           /\ SubSeq(seq, n + 1, Len(seq)) \in Seq(S)
           /\ Len(SubSeq(seq, 1, n)) = n
           /\ Len(SubSeq(seq, n + 1, Len(seq))) = Len(seq) - n
           /\ SubSeq(seq, 1, n) \o SubSeq(seq, n + 1, Len(seq)) = seq
<1>1. Len(seq) \in Nat /\ \A i \in 1..Len(seq) : seq[i] \in S
  BY LenProperties, ElementOfSeq
<1>2. SubSeq(seq, 1, n) \in Seq(S) /\ Len(SubSeq(seq, 1, n)) = n
  <2>1. \A i \in 1..n : seq[i] \in S
    BY <1>1
  <2> QED
    BY <1>1, <2>1, SubSeqProperties
<1>3. /\ SubSeq(seq, n + 1, Len(seq)) \in Seq(S)
      /\ Len(SubSeq(seq, n + 1, Len(seq))) = Len(seq) - n
  <2>1. \A i \in (n + 1)..Len(seq) : seq[i] \in S
    BY <1>1
  <2>2. n + 1 \in Int /\ Len(seq) \in Int
    BY <1>1
  <2> QED
    BY <1>1, <2>1, <2>2, SubSeqProperties
<1>4. SubSeq(seq, 1, n) \o SubSeq(seq, n + 1, Len(seq)) = seq
  <2>1. 1 \in 1..(Len(seq) + 1) /\ n \in (1 - 1)..Len(seq) /\ Len(seq) \in n..Len(seq)
    BY <1>1
  <2> QED
    BY <2>1, ConcatAdjacentSubSeq, SubSeqFull
<1> QED
  BY <1>2, <1>3, <1>4

(***************************************************************************)
(* A batch takes no more than there is, and at least one event of a run    *)
(* that has any (_take_events: the first event is never turned away).      *)
(***************************************************************************)
LEMMA BatchLengthBounds ==
    ASSUME NEW events \in Seq(Event)
    PROVE  /\ BatchLength(events) \in 0..Len(events)
           /\ events # << >> => BatchLength(events) >= 1
<1> DEFINE Open == {i \in 1..Len(events) : ~IsFull(events, i - 1)}
<1>1. Len(events) \in Nat
  BY LenProperties
<1>2. IsFiniteSet(1..Len(events)) /\ Cardinality(1..Len(events)) = Len(events)
  BY <1>1, FS_Interval
<1>3. /\ IsFiniteSet(Open)
      /\ Cardinality(Open) <= Len(events)
  BY <1>2, FS_Subset
<1>4. Cardinality(Open) \in Nat
  BY <1>3, FS_CardinalityType
<1>5. ASSUME events # << >>
      PROVE  Cardinality(Open) >= 1
  <2>1. Len(events) >= 1
    BY <1>1, <1>5, EmptySeq
  <2>2. {1} \subseteq Open
    BY <1>1, <2>1 DEF IsFull
  <2>3. Cardinality({1}) = 1
    BY FS_Singleton
  <2> QED
    BY <1>3, <1>4, <2>2, <2>3, FS_Subset
<1> QED
  BY <1>1, <1>3, <1>4, <1>5 DEF BatchLength


LEMMA ShiftCountBounds ==
    ASSUME queue \in Seq(Event)
    PROVE  /\ ShiftCount \in 0..Len(queue)
           /\ ShiftCount <= MaxBatchSize
           /\ Len(queue) - ShiftCount <= (IF Len(queue) < MaxBatchSize
                                          THEN 0 ELSE Len(queue) - MaxBatchSize)
BY QueueAssumption, LenProperties DEF ShiftCount

(***************************************************************************)
(* Type correctness.                                                       *)
(***************************************************************************)
LEMMA InitTypeOK == Init => TypeOK
<1> SUFFICES ASSUME Init PROVE TypeOK
  OBVIOUS
<1> USE DEF Init
<1>1. queue \in Seq(Event) /\ taken \in Seq(Event) /\ batch \in Seq(Event) /\ handed \in Seq(Event)
  OBVIOUS
<1>2. calls \in [Producers -> 0..MaxCalls] /\ producerAt \in [Producers -> ProducerPlaces]
  BY QueueAssumption DEF ProducerPlaces
<1>3. closerAt \in [Closers -> CloserPlaces]
  BY DEF CloserPlaces
<1> QED
  BY <1>1, <1>2, <1>3 DEF TypeOK, WorkerPlaces

LEMMA ProducerTypeOK ==
    ASSUME TypeOK, NEW p \in Producers, ProducerStep(p)
    PROVE  TypeOK'
<1> USE QueueAssumption DEF TypeOK, ProducerPlaces, queueVars, producerVars,
                            workerVars, closerVars
<1>1. CASE CheckFlags(p)
  <2>1. calls' \in [Producers -> 0..MaxCalls]
    BY <1>1 DEF CheckFlags
  <2> QED
    BY <1>1, <2>1 DEF CheckFlags
<1>2. CASE Push(p)
  <2>2. queue' \in Seq(Event)
    <3>1. CASE UNCHANGED queue
      BY <3>1
    <3>2. ASSUME NEW k \in Kinds,
                 queue' = Append(queue, [by |-> p, nth |-> calls[p], kind |-> k])
          PROVE  queue' \in Seq(Event)
      BY <3>2, AppendProperties DEF Event
    <3> QED
      BY <1>2, <3>1, <3>2 DEF Push
  <2>3. \/ producerAt' = [producerAt EXCEPT ![p] = "idle"]
        \/ producerAt' = [producerAt EXCEPT ![p] = "notify"]
    BY <1>2, Zenon DEF Push
  <2>4. producerAt' \in [Producers -> ProducerPlaces]
    BY <2>3
  <2>5. queueDropped' \in Nat
    BY <1>2 DEF Push
  <2> QED
    BY <1>2, <2>2, <2>4, <2>5 DEF Push
<1>3. CASE Notify(p)
  BY <1>3 DEF Notify
<1> QED
  BY <1>1, <1>2, <1>3 DEF ProducerStep

LEMMA WorkerTypeOK ==
    ASSUME TypeOK, WorkerStep \/ TransportStep
    PROVE  TypeOK'
<1> USE DEF TypeOK, WorkerPlaces, WorkerGoes, queueVars, producerVars,
            workerVars, closerVars
<1>1. CASE Woken
  BY <1>1 DEF Woken
<1>2. CASE IntervalOver
  BY <1>2 DEF IntervalOver
<1>3. CASE ClearWake
  BY <1>3 DEF ClearWake
<1>4. CASE CheckClosing
  BY <1>4 DEF CheckClosing
<1>5. CASE Shift
  <2>1. queue' \in Seq(Event) /\ taken' \in Seq(Event)
    BY <1>5, ShiftCountBounds, SplitAt DEF Shift
  <2> QED
    BY <1>5, <2>1 DEF Shift
<1>6. CASE PutBack
  <2> DEFINE n == BatchLength(taken)
  <2>1. n \in 0..Len(taken)
    BY BatchLengthBounds
  <2>2. SubSeq(taken, 1, n) \in Seq(Event) /\ SubSeq(taken, n + 1, Len(taken)) \in Seq(Event)
    BY <2>1, SplitAt
  <2>3. queue' \in Seq(Event) /\ batch' \in Seq(Event)
    BY <1>6, <2>2, ConcatProperties DEF PutBack
  <2> QED
    BY <1>6, <2>3, EmptySeq DEF PutBack
<1>7. CASE Send
  <2>1. handed' \in Seq(Event)
    BY <1>7, ConcatProperties DEF Send
  <2>2. workerAt' \in WorkerPlaces
    BY <1>7 DEF Send, AfterFlush
  <2>3. stopSending' \in BOOLEAN
    BY <1>7 DEF Send
  <2>4. batch' \in Seq(Event)
    BY <1>7, EmptySeq DEF Send
  <2> QED
    BY <1>7, <2>1, <2>2, <2>3, <2>4 DEF Send
<1>8. CASE Replay
  BY <1>8 DEF Replay
<1>9. CASE DrainGoesOn
  BY <1>9 DEF DrainGoesOn
<1>10. CASE DrainEnds
  BY <1>10 DEF DrainEnds
<1>11. CASE DrainBuffer
  BY <1>11 DEF DrainBuffer
<1> QED
  BY <1>1, <1>2, <1>3, <1>4, <1>5, <1>6, <1>7, <1>8, <1>9, <1>10, <1>11
     DEF WorkerStep, TransportStep

LEMMA PendingType ==
    ASSUME TypeOK
    PROVE  /\ Pending \in Seq(Event)
           /\ Len(Pending) = Len(batch) + Len(taken) + Len(queue)
           /\ Len(Pending) \in Nat
           /\ Len(handed) \in Nat /\ Len(batch) \in Nat /\ Len(taken) \in Nat
           /\ Len(queue) \in Nat
<1>1. batch \in Seq(Event) /\ taken \in Seq(Event) /\ queue \in Seq(Event) /\ handed \in Seq(Event)
  BY DEF TypeOK
<1>2. batch \o taken \in Seq(Event) /\ Len(batch \o taken) = Len(batch) + Len(taken)
  BY <1>1, ConcatProperties
<1>3. Pending \in Seq(Event) /\ Len(Pending) = Len(batch \o taken) + Len(queue)
  BY <1>1, <1>2, ConcatProperties DEF Pending
<1> QED
  BY <1>1, <1>2, <1>3, LenProperties

LEMMA CloserTypeOK ==
    ASSUME TypeOK, NEW c \in Closers, CallClose(c) \/ CloserStep(c) \/ Elapse(c)
    PROVE  TypeOK'
<1> USE DEF TypeOK, CloserPlaces, CloserGoes, queueVars, producerVars,
            workerVars, closerVars
<1>1. CASE CallClose(c)
  BY <1>1 DEF CallClose
<1>2. CASE SetDeadline(c)
  BY <1>2 DEF SetDeadline
<1>3. CASE SetClosing(c)
  <2>1. acceptedAtClose' \in Nat
    BY <1>3, PendingType DEF SetClosing
  <2> QED
    BY <1>3, <2>1 DEF SetClosing
<1>4. CASE WakeWorker(c)
  BY <1>4 DEF WakeWorker
<1>5. CASE Joined(c)
  BY <1>5 DEF Joined
<1>6. CASE JoinTimesOut(c)
  BY <1>6 DEF JoinTimesOut
<1>7. CASE SetClosed(c)
  BY <1>7 DEF SetClosed
<1>8. CASE CloseTransport(c)
  BY <1>8 DEF CloseTransport
<1>9. CASE Elapse(c)
  BY <1>9 DEF Elapse
<1> QED
  BY <1>1, <1>2, <1>3, <1>4, <1>5, <1>6, <1>7, <1>8, <1>9 DEF CloserStep

LEMMA NextTypeOK ==
    ASSUME TypeOK, [Next]_vars
    PROVE  TypeOK'
<1>1. CASE Next
  BY <1>1, ProducerTypeOK, WorkerTypeOK, CloserTypeOK DEF Next
<1>2. CASE UNCHANGED vars
  BY <1>2 DEF TypeOK, vars, queueVars, producerVars, workerVars, closerVars
<1> QED
  BY <1>1, <1>2

\* Every variable keeps its type, whatever the threads do.
THEOREM TypeCorrect == Spec => []TypeOK
<1>1. Init => TypeOK
  BY InitTypeOK
<1>2. TypeOK /\ [Next]_vars => TypeOK'
  BY NextTypeOK
<1> QED
  BY <1>1, <1>2, PTL DEF Spec

-----------------------------------------------------------------------------
(***************************************************************************)
(* The inductive invariant behind the safety properties.                   *)
(***************************************************************************)
\* The worker holds events only between the steps of a flush.
HeldOnlyInFlush ==
    /\ taken # << >> => workerAt = "measuring"
    /\ batch # << >> => workerAt = "sending"
    /\ Len(taken) <= MaxBatchSize

\* The worker drains, and a closer waits, only once _closing is set.
ClosingFirst ==
    /\ leaving => closing
    /\ workerAt \in {"draining", "drainingBuffer", "done"} => leaving
    /\ \A c \in Closers :
           closerAt[c] \in {"closingSet", "joining", "joined", "timedOut"} => closing

\* The worker will come to its wait without clearing the wake event first.
BackToWait ==
    \/ workerAt \in {"waiting", "replaying"}
    \/ workerAt \in {"taking", "measuring", "sending"} /\ ~leaving

\* From the moment a closer sets the event, it is set whenever that is so.
SignalKept == CloseSignalled /\ BackToWait => wake

\* Nothing that was accepted when the close began has left the line unhanded.
NothingLost == Len(handed) + Len(Pending) >= acceptedAtClose

\* A closer that goes on to close the transport has seen the worker end.
WorkerEnded ==
    /\ \A c \in Closers : closerAt[c] \in {"joined", "closingTransport"} => workerAt = "done"
    /\ transportClosed => workerAt = "done"

IInv ==
    /\ TypeOK
    /\ HeldOnlyInFlush
    /\ QueueOvershoot
    /\ ClosingFirst
    /\ SignalKept
    /\ NothingLost
    /\ DrainCovers
    /\ WorkerEnded

LEMMA InitIInv == Init => IInv
<1> SUFFICES ASSUME Init PROVE IInv
  OBVIOUS
<1>1. TypeOK
  BY InitTypeOK
<1>2. HeldOnlyInFlush /\ QueueOvershoot
  BY QueueAssumption, EmptySeq DEF Init, HeldOnlyInFlush, QueueOvershoot
<1>3. ClosingFirst /\ SignalKept /\ WorkerEnded /\ DrainCovers
  BY DEF Init, ClosingFirst, SignalKept, CloseSignalled, WorkerEnded, DrainCovers
<1>4. NothingLost
  BY <1>1, PendingType DEF Init, NothingLost, TypeOK
<1> QED
  BY <1>1, <1>2, <1>3, <1>4 DEF IInv

LEMMA HeldOnlyInFlushKept ==
    ASSUME TypeOK, HeldOnlyInFlush, [Next]_vars
    PROVE  HeldOnlyInFlush'
<1> USE DEF HeldOnlyInFlush, WorkerGoes, queueVars, producerVars, workerVars, closerVars
<1>1. ASSUME NEW p \in Producers, ProducerStep(p)
      PROVE  HeldOnlyInFlush'
  BY <1>1 DEF ProducerStep, CheckFlags, Push, Notify
<1>2. CASE Shift
  <2>1. Len(taken') <= MaxBatchSize
    BY <1>2, ShiftCountBounds, SplitAt DEF Shift, TypeOK
  <2> QED
    BY <1>2, <2>1 DEF Shift
<1>3. CASE PutBack
  BY <1>3, QueueAssumption, EmptySeq DEF PutBack
<1>4. CASE WorkerStep /\ ~Shift /\ ~PutBack
  BY <1>4 DEF WorkerStep, Woken, IntervalOver, ClearWake, CheckClosing,
              DrainGoesOn, DrainEnds
<1>5. CASE TransportStep
  BY <1>5 DEF TransportStep, Send, Replay, DrainBuffer
<1>6. ASSUME NEW c \in Closers, CallClose(c) \/ CloserStep(c) \/ Elapse(c)
      PROVE  HeldOnlyInFlush'
  BY <1>6 DEF CallClose, CloserStep, SetDeadline, SetClosing, WakeWorker, Joined,
              JoinTimesOut, SetClosed, CloseTransport, Elapse
<1>7. CASE UNCHANGED vars
  BY <1>7 DEF vars
<1> QED
  BY <1>1, <1>2, <1>3, <1>4, <1>5, <1>6, <1>7 DEF Next

LEMMA QueueOvershootKept ==
    ASSUME TypeOK, HeldOnlyInFlush, QueueOvershoot, [Next]_vars
    PROVE  QueueOvershoot'
<1> USE DEF QueueOvershoot, WorkerGoes, queueVars, producerVars, workerVars, closerVars
<1>0. /\ QueueSize \in Nat /\ MaxBatchSize \in Nat \ {0}
      /\ Len(queue) \in Nat /\ Len(taken) \in Nat
  BY QueueAssumption, PendingType
<1>1. ASSUME NEW p \in Producers, ProducerStep(p)
      PROVE  QueueOvershoot'
  <2>1. CASE CheckFlags(p) \/ Notify(p)
    BY <2>1 DEF CheckFlags, Notify
  <2>2. CASE Push(p)
    <3>1. CASE UNCHANGED queue
      BY <2>2, <3>1 DEF Push
    <3>2. ASSUME NEW k \in Kinds, Len(queue) < QueueSize,
                 queue' = Append(queue, [by |-> p, nth |-> calls[p], kind |-> k])
          PROVE  QueueOvershoot'
      <4>1. Len(queue') = Len(queue) + 1
        BY <3>2, AppendProperties DEF TypeOK, Event
      <4> QED
        BY <1>0, <2>2, <3>2, <4>1 DEF Push
    <3>3. CASE Len(queue) >= QueueSize
      BY <2>2, <3>1, <3>3 DEF Push
    <3>4. CASE Len(queue) < QueueSize
      <4>1. \E k \in Kinds : queue' = Append(queue, [by |-> p, nth |-> calls[p], kind |-> k])
        <5>1. ~(Len(queue) >= QueueSize)
          BY <1>0, <3>4
        <5> QED
          BY <2>2, <5>1, Zenon DEF Push
      <4> QED
        BY <3>2, <3>4, <4>1
    <3> QED
      BY <1>0, <3>3, <3>4
  <2> QED
    BY <1>1, <2>1, <2>2 DEF ProducerStep
<1>2. CASE Shift
  <2>1. Len(queue') = Len(queue) - ShiftCount
    BY <1>2, ShiftCountBounds, SplitAt DEF Shift, TypeOK
  <2>2. ShiftCount \in 0..Len(queue)
    BY ShiftCountBounds DEF TypeOK
  <2>3. Len(queue') <= QueueSize
    BY <1>0, <2>1, <2>2, ShiftCountBounds DEF TypeOK
  <2> QED
    BY <1>0, <1>2, <2>1, <2>2, <2>3 DEF Shift
<1>3. CASE PutBack
  <2> DEFINE n == BatchLength(taken)
  <2>1. n \in 0..Len(taken) /\ (taken # << >> => n >= 1)
    BY BatchLengthBounds DEF TypeOK
  <2>2. /\ SubSeq(taken, n + 1, Len(taken)) \in Seq(Event)
        /\ Len(SubSeq(taken, n + 1, Len(taken))) = Len(taken) - n
    BY <2>1, SplitAt DEF TypeOK
  <2>3. Len(queue') = Len(taken) - n + Len(queue)
    BY <1>3, <2>2, ConcatProperties DEF PutBack, TypeOK
  <2>4. taken = << >> => Len(taken) = 0
    BY EmptySeq
  <2> QED
    BY <1>0, <1>3, <2>1, <2>3, <2>4 DEF PutBack, HeldOnlyInFlush
<1>4. CASE WorkerStep /\ ~Shift /\ ~PutBack
  BY <1>4 DEF WorkerStep, Woken, IntervalOver, ClearWake, CheckClosing,
              DrainGoesOn, DrainEnds
<1>5. CASE TransportStep
  BY <1>5 DEF TransportStep, Send, Replay, DrainBuffer
<1>6. ASSUME NEW c \in Closers, CallClose(c) \/ CloserStep(c) \/ Elapse(c)
      PROVE  QueueOvershoot'
  BY <1>6 DEF CallClose, CloserStep, SetDeadline, SetClosing, WakeWorker, Joined,
              JoinTimesOut, SetClosed, CloseTransport, Elapse
<1>7. CASE UNCHANGED vars
  BY <1>7 DEF vars
<1> QED
  BY <1>1, <1>2, <1>3, <1>4, <1>5, <1>6, <1>7 DEF Next

LEMMA ClosingFirstKept ==
    ASSUME TypeOK, ClosingFirst, [Next]_vars
    PROVE  ClosingFirst'
<1> USE DEF ClosingFirst, WorkerGoes, queueVars, producerVars, workerVars, closerVars
<1>1. ASSUME NEW p \in Producers, ProducerStep(p)
      PROVE  ClosingFirst'
  BY <1>1 DEF ProducerStep, CheckFlags, Push, Notify
<1>2. CASE WorkerStep
  BY <1>2 DEF WorkerStep, Woken, IntervalOver, ClearWake, CheckClosing, Shift, PutBack,
              DrainGoesOn, DrainEnds
<1>3. CASE TransportStep
  <2>1. CASE Send
    BY <2>1 DEF Send, AfterFlush
  <2>2. CASE Replay
    BY <2>2 DEF Replay
  <2>3. CASE DrainBuffer
    BY <2>3 DEF DrainBuffer
  <2> QED
    BY <1>3, <2>1, <2>2, <2>3 DEF TransportStep
<1>4. ASSUME NEW c \in Closers, CallClose(c) \/ CloserStep(c) \/ Elapse(c)
      PROVE  ClosingFirst'
  <2> USE DEF CloserGoes, TypeOK
  <2>1. CASE CallClose(c)
    BY <2>1 DEF CallClose
  <2>2. CASE SetDeadline(c) \/ SetClosing(c) \/ WakeWorker(c)
    BY <2>2 DEF SetDeadline, SetClosing, WakeWorker
  <2>3. CASE Joined(c) \/ JoinTimesOut(c)
    BY <2>3 DEF Joined, JoinTimesOut
  <2>4. CASE SetClosed(c) \/ CloseTransport(c) \/ Elapse(c)
    BY <2>4 DEF SetClosed, CloseTransport, Elapse
  <2> QED
    BY <1>4, <2>1, <2>2, <2>3, <2>4 DEF CloserStep
<1>5. CASE UNCHANGED vars
  BY <1>5 DEF vars
<1> QED
  BY <1>1, <1>2, <1>3, <1>4, <1>5 DEF Next

LEMMA SignalKeptKept ==
    ASSUME TypeOK, ClosingFirst, SignalKept, [Next]_vars
    PROVE  SignalKept'
<1> USE DEF SignalKept, CloseSignalled, BackToWait, WorkerGoes,
            queueVars, producerVars, workerVars, closerVars
<1>1. ASSUME NEW p \in Producers, ProducerStep(p)
      PROVE  SignalKept'
  BY <1>1 DEF ProducerStep, CheckFlags, Push, Notify
<1>2. CASE CheckClosing
  BY <1>2 DEF CheckClosing, ClosingFirst
<1>3. CASE WorkerStep /\ ~CheckClosing
  BY <1>3 DEF WorkerStep, Woken, IntervalOver, ClearWake, Shift, PutBack,
              DrainGoesOn, DrainEnds, ClosingFirst
<1>4. CASE TransportStep
  BY <1>4 DEF TransportStep, Send, Replay, DrainBuffer, AfterFlush
<1>5. ASSUME NEW c \in Closers, CallClose(c) \/ CloserStep(c) \/ Elapse(c)
      PROVE  SignalKept'
  <2> USE DEF CloserGoes, TypeOK
  <2>1. CASE CallClose(c) \/ SetDeadline(c) \/ SetClosing(c)
    BY <2>1 DEF CallClose, SetDeadline, SetClosing
  <2>2. CASE WakeWorker(c)
    BY <2>2 DEF WakeWorker
  <2>3. CASE Joined(c) \/ JoinTimesOut(c)
    BY <2>3 DEF Joined, JoinTimesOut
  <2>4. CASE SetClosed(c) \/ CloseTransport(c) \/ Elapse(c)
    BY <2>4 DEF SetClosed, CloseTransport, Elapse
  <2> QED
    BY <1>5, <2>1, <2>2, <2>3, <2>4 DEF CloserStep
<1>6. CASE UNCHANGED vars
  BY <1>6 DEF vars
<1> QED
  BY <1>1, <1>2, <1>3, <1>4, <1>5, <1>6 DEF Next

LEMMA WorkerEndedKept ==
    ASSUME TypeOK, WorkerEnded, [Next]_vars
    PROVE  WorkerEnded'
<1> USE DEF WorkerEnded, WorkerGoes, queueVars, producerVars, workerVars, closerVars
<1>1. ASSUME NEW p \in Producers, ProducerStep(p)
      PROVE  WorkerEnded'
  BY <1>1 DEF ProducerStep, CheckFlags, Push, Notify
<1>2. CASE WorkerStep
  BY <1>2 DEF WorkerStep, Woken, IntervalOver, ClearWake, CheckClosing, Shift, PutBack,
              DrainGoesOn, DrainEnds
<1>3. CASE TransportStep
  <2>1. CASE Send
    BY <2>1 DEF Send, AfterFlush
  <2>2. CASE Replay
    BY <2>2 DEF Replay
  <2>3. CASE DrainBuffer
    BY <2>3 DEF DrainBuffer
  <2> QED
    BY <1>3, <2>1, <2>2, <2>3 DEF TransportStep
<1>4. ASSUME NEW c \in Closers, CallClose(c) \/ CloserStep(c) \/ Elapse(c)
      PROVE  WorkerEnded'
  <2> USE DEF CloserGoes, TypeOK
  <2>1. CASE CallClose(c)
    BY <2>1 DEF CallClose
  <2>2. CASE SetDeadline(c) \/ SetClosing(c) \/ WakeWorker(c)
    BY <2>2 DEF SetDeadline, SetClosing, WakeWorker
  <2>3. CASE Joined(c) \/ JoinTimesOut(c)
    BY <2>3 DEF Joined, JoinTimesOut
  <2>4. CASE SetClosed(c) \/ CloseTransport(c) \/ Elapse(c)
    BY <2>4 DEF SetClosed, CloseTransport, Elapse
  <2> QED
    BY <1>4, <2>1, <2>2, <2>3, <2>4 DEF CloserStep
<1>5. CASE UNCHANGED vars
  BY <1>5 DEF vars
<1> QED
  BY <1>1, <1>2, <1>3, <1>4, <1>5 DEF Next

-----------------------------------------------------------------------------
(***************************************************************************)
(* The queue implements FifoHandoff.                                       *)
(***************************************************************************)
LEMMA ConcatThree ==
    ASSUME NEW S, NEW a \in Seq(S), NEW b \in Seq(S), NEW c \in Seq(S)
    PROVE  /\ a \o b \in Seq(S)
           /\ (a \o b) \o c \in Seq(S)
           /\ (a \o b) \o c = a \o (b \o c)
BY ConcatProperties, ConcatAssociative

\* A prefix of a line and what follows it.
LEMMA FrontOfConcat ==
    ASSUME NEW S, NEW s \in Seq(S), NEW t \in Seq(S), s # << >>
    PROVE  /\ Len(s) \in 1..Len(s \o t)
           /\ SubSeq(s \o t, 1, Len(s)) = s
           /\ SubSeq(s \o t, Len(s) + 1, Len(s \o t)) = t
<1>1. Len(s) \in Nat /\ Len(s) >= 1 /\ Len(t) \in Nat
  BY EmptySeq, LenProperties
<1>2. Len(s \o t) = Len(s) + Len(t)
  BY ConcatProperties
<1>3. SubSeq(s \o t, 1, Len(s)) = s
  BY <1>1, SubSeqOfConcat1, SubSeqFull
<1>4. SubSeq(s \o t, Len(s) + 1, Len(s \o t)) = t
  <2>1. CASE t = << >>
    <3>1. Len(t) = 0
      BY <2>1
    <3> QED
      BY <1>1, <1>2, <2>1, <3>1, SubSeqEmpty
  <2>2. CASE t # << >>
    <3>1. Len(t) >= 1
      BY <2>2, EmptySeq
    <3>2. /\ Len(s) + 1 \in (Len(s) + 1)..(Len(s) + Len(t))
          /\ Len(s) + Len(t) \in (Len(s) + 1)..(Len(s) + Len(t))
          /\ (Len(s) + 1) - Len(s) = 1
          /\ (Len(s) + Len(t)) - Len(s) = Len(t)
      BY <1>1, <3>1
    <3>3. SubSeq(s \o t, Len(s) + 1, Len(s) + Len(t)) = SubSeq(t, 1, Len(t))
      BY <3>2, SubSeqOfConcat2
    <3> QED
      BY <1>2, <3>3, SubSeqFull
  <2> QED
    BY <2>1, <2>2
<1> QED
  BY <1>1, <1>2, <1>3, <1>4

LEMMA PushAppends ==
    ASSUME TypeOK, NEW p \in Producers, Push(p)
    PROVE  /\ handed' = handed
           /\ \/ Pending' = Pending
              \/ \E e \in Event : Pending' = Append(Pending, e)
<1>1. handed' = handed /\ batch' = batch /\ taken' = taken
  BY DEF Push, workerVars
<1>2. \/ queue' = queue
      \/ \E k \in Kinds : queue' = Append(queue, [by |-> p, nth |-> calls[p], kind |-> k])
  BY Zenon DEF Push
<1>3. CASE queue' = queue
  BY <1>1, <1>3 DEF Pending
<1>4. ASSUME NEW k \in Kinds,
             queue' = Append(queue, [by |-> p, nth |-> calls[p], kind |-> k])
      PROVE  \E e \in Event : Pending' = Append(Pending, e)
  <2> DEFINE e == [by |-> p, nth |-> calls[p], kind |-> k]
  <2>1. e \in Event
    BY DEF TypeOK, Event
  <2>2. queue \in Seq(Event) /\ batch \o taken \in Seq(Event) /\ <<e>> \in Seq(Event)
    BY <2>1, ConcatProperties DEF TypeOK
  <2>3. queue' = queue \o <<e>>
    BY <1>4, <2>1, <2>2, AppendIsConcat
  <2>4. (batch \o taken) \o (queue \o <<e>>) = ((batch \o taken) \o queue) \o <<e>>
    BY <2>2, ConcatThree
  <2>5. Pending' = Pending \o <<e>>
    BY <1>1, <2>3, <2>4 DEF Pending
  <2>6. Pending' = Append(Pending, e)
    BY <2>1, <2>5, PendingType, AppendIsConcat
  <2> QED
    BY <2>1, <2>6
<1> QED
  BY <1>1, <1>2, <1>3, <1>4

LEMMA TakingKeepsPending ==
    ASSUME TypeOK, HeldOnlyInFlush, Shift \/ PutBack
    PROVE  UNCHANGED <<Pending, handed>>
<1>1. queue \in Seq(Event) /\ taken \in Seq(Event) /\ batch = << >>
  BY DEF TypeOK, HeldOnlyInFlush, Shift, PutBack, WorkerGoes
<1>2. CASE Shift
  <2> DEFINE front == SubSeq(queue, 1, ShiftCount)
             back  == SubSeq(queue, ShiftCount + 1, Len(queue))
  <2>1. front \in Seq(Event) /\ front \o back = queue
    BY <1>1, ShiftCountBounds, SplitAt
  <2>2. taken = << >> /\ taken' = front /\ queue' = back /\ batch' = batch /\ handed' = handed
    BY <1>2 DEF Shift, WorkerGoes, HeldOnlyInFlush
  <2>3. << >> \o front = front /\ << >> \o << >> = << >> /\ << >> \o queue = queue
    BY <1>1, <2>1, EmptySeq, ConcatEmptySeq
  <2> QED
    BY <1>1, <2>1, <2>2, <2>3 DEF Pending
<1>3. CASE PutBack
  <2> DEFINE n == BatchLength(taken)
             front == SubSeq(taken, 1, n)
             back  == SubSeq(taken, n + 1, Len(taken))
  <2>1. n \in 0..Len(taken)
    BY <1>1, BatchLengthBounds
  <2>2. front \in Seq(Event) /\ back \in Seq(Event) /\ front \o back = taken
    BY <1>1, <2>1, SplitAt
  <2>3. batch' = front /\ taken' = << >> /\ queue' = back \o queue /\ handed' = handed
    BY <1>3 DEF PutBack
  <2>4. << >> \o taken = taken /\ front \o << >> = front
    BY <1>1, <2>2, ConcatEmptySeq
  <2>5. front \o (back \o queue) = (front \o back) \o queue
    <3>1. front \in Seq(Event) /\ back \in Seq(Event) /\ queue \in Seq(Event)
      BY <1>1, <2>2
    <3> HIDE DEF front, back
    <3> QED
      BY <3>1, ConcatThree
  <2> QED
    BY <1>1, <2>2, <2>3, <2>4, <2>5 DEF Pending
<1> QED
  BY <1>2, <1>3

LEMMA SendHands ==
    ASSUME TypeOK, HeldOnlyInFlush, Send
    PROVE  \/ UNCHANGED <<Pending, handed>>
           \/ \E n \in 1..Len(Pending) :
                 /\ handed' = handed \o SubSeq(Pending, 1, n)
                 /\ Pending' = SubSeq(Pending, n + 1, Len(Pending))
<1>1. queue \in Seq(Event) /\ batch \in Seq(Event) /\ handed \in Seq(Event)
  BY DEF TypeOK
<1>2. /\ taken = << >> /\ taken' = << >> /\ batch' = << >> /\ queue' = queue
      /\ handed' = handed \o batch
  BY DEF Send, HeldOnlyInFlush, WorkerGoes, queueVars
<1>3. /\ << >> \o << >> = << >> /\ << >> \o queue = queue
      /\ batch \o << >> = batch /\ handed \o << >> = handed
  BY <1>1, EmptySeq, ConcatEmptySeq
<1>4. Pending = batch \o queue /\ Pending' = queue
  BY <1>2, <1>3 DEF Pending
<1>5. CASE batch = << >>
  BY <1>2, <1>3, <1>4, <1>5
<1>6. CASE batch # << >>
  <2>1. /\ Len(batch) \in 1..Len(Pending)
        /\ SubSeq(Pending, 1, Len(batch)) = batch
        /\ SubSeq(Pending, Len(batch) + 1, Len(Pending)) = queue
    BY <1>1, <1>4, <1>6, FrontOfConcat
  <2> QED
    BY <1>2, <1>4, <2>1
<1> QED
  BY <1>5, <1>6

\* Every step either leaves the line alone, appends to it or hands its front over.
LEMMA StepRefines ==
    ASSUME TypeOK, HeldOnlyInFlush, [Next]_vars
    PROVE  [Handoff!Next]_(Handoff!vars)
<1> USE DEF queueVars, producerVars, workerVars, closerVars
<1>1. ASSUME NEW p \in Producers, ProducerStep(p)
      PROVE  [Handoff!Next]_(Handoff!vars)
  <2>1. CASE Push(p)
    BY <2>1, PushAppends DEF Handoff!Next, Handoff!Accept, Handoff!vars
  <2>2. CASE CheckFlags(p) \/ Notify(p)
    BY <2>2 DEF CheckFlags, Notify, Pending, Handoff!vars
  <2> QED
    BY <1>1, <2>1, <2>2 DEF ProducerStep
<1>2. CASE Shift \/ PutBack
  BY <1>2, TakingKeepsPending DEF Handoff!vars
<1>3. CASE WorkerStep /\ ~(Shift \/ PutBack)
  BY <1>3 DEF WorkerStep, Woken, IntervalOver, ClearWake, CheckClosing,
              DrainGoesOn, DrainEnds, Pending, Handoff!vars
<1>4. CASE Send
  BY <1>4, SendHands DEF Handoff!Next, Handoff!Hand, Handoff!vars
<1>5. CASE Replay \/ DrainBuffer
  BY <1>5 DEF Replay, DrainBuffer, Pending, Handoff!vars
<1>6. ASSUME NEW c \in Closers, CallClose(c) \/ CloserStep(c) \/ Elapse(c)
      PROVE  [Handoff!Next]_(Handoff!vars)
  BY <1>6 DEF CallClose, CloserStep, SetDeadline, SetClosing, WakeWorker, Joined,
              JoinTimesOut, SetClosed, CloseTransport, Elapse, Pending, Handoff!vars
<1>7. CASE UNCHANGED vars
  BY <1>7 DEF vars, Pending, Handoff!vars
<1> QED
  BY <1>1, <1>2, <1>3, <1>4, <1>5, <1>6, <1>7 DEF Next, TransportStep

\* The number of events accepted so far never goes down.
LEMMA AcceptedGrows ==
    ASSUME TypeOK, HeldOnlyInFlush, [Next]_vars
    PROVE  Len(handed') + Len(Pending') >= Len(handed) + Len(Pending)
<1>1. Pending \in Seq(Event) /\ handed \in Seq(Event)
  BY PendingType DEF TypeOK
<1>2. Len(Pending) \in Nat /\ Len(handed) \in Nat
  BY <1>1, LenProperties
<1>3. CASE Pending' = Pending /\ handed' = handed
  BY <1>2, <1>3
<1>4. ASSUME NEW e \in Event, Pending' = Append(Pending, e), handed' = handed
      PROVE  Len(handed') + Len(Pending') >= Len(handed) + Len(Pending)
  BY <1>1, <1>2, <1>4, AppendProperties
<1>5. ASSUME NEW n \in 1..Len(Pending),
             handed' = handed \o SubSeq(Pending, 1, n),
             Pending' = SubSeq(Pending, n + 1, Len(Pending))
      PROVE  Len(handed') + Len(Pending') >= Len(handed) + Len(Pending)
  <2>1. /\ SubSeq(Pending, 1, n) \in Seq(Event)
        /\ Len(SubSeq(Pending, 1, n)) = n
        /\ Len(Pending') = Len(Pending) - n
    BY <1>1, <1>2, <1>5, SplitAt
  <2>2. Len(handed') = Len(handed) + n
    BY <1>1, <1>5, <2>1, ConcatProperties
  <2> QED
    BY <1>2, <2>1, <2>2
<1> QED
  BY StepRefines, <1>3, <1>4, <1>5
     DEF Handoff!Next, Handoff!Accept, Handoff!Hand, Handoff!vars

LEMMA NothingLostKept ==
    ASSUME TypeOK, HeldOnlyInFlush, NothingLost, [Next]_vars
    PROVE  NothingLost'
<1> USE DEF queueVars, producerVars, workerVars, closerVars
<1>1. /\ Len(handed) + Len(Pending) \in Nat
      /\ acceptedAtClose \in Nat
  BY PendingType DEF TypeOK
<1>2. acceptedAtClose' = acceptedAtClose \/ acceptedAtClose' = Len(handed) + Len(Pending)
  <2>1. CASE \E c \in Closers : SetClosing(c)
    BY <2>1 DEF SetClosing
  <2>2. CASE \E p \in Producers : ProducerStep(p)
    BY <2>2 DEF ProducerStep, CheckFlags, Push, Notify
  <2>3. CASE WorkerStep \/ TransportStep
    BY <2>3 DEF WorkerStep, Woken, IntervalOver, ClearWake, CheckClosing, Shift, PutBack,
                DrainGoesOn, DrainEnds, TransportStep, Send, Replay, DrainBuffer
  <2>4. ASSUME NEW c \in Closers, CallClose(c) \/ CloserStep(c) \/ Elapse(c), ~SetClosing(c)
        PROVE  acceptedAtClose' = acceptedAtClose
    BY <2>4 DEF CallClose, CloserStep, SetDeadline, WakeWorker, Joined,
                JoinTimesOut, SetClosed, CloseTransport, Elapse
  <2>5. CASE UNCHANGED vars
    BY <2>5 DEF vars
  <2> QED
    BY <2>1, <2>2, <2>3, <2>4, <2>5 DEF Next
<1>3. Len(handed') + Len(Pending') >= Len(handed) + Len(Pending)
  BY AcceptedGrows
<1>4. Len(handed') + Len(Pending') \in Nat
  <2>1. TypeOK'
    BY NextTypeOK
  <2>2. /\ batch' \in Seq(Event) /\ taken' \in Seq(Event) /\ queue' \in Seq(Event)
        /\ handed' \in Seq(Event)
    BY <2>1 DEF TypeOK
  <2>3. Pending' \in Seq(Event)
    BY <2>2, ConcatThree DEF Pending
  <2> QED
    BY <2>2, <2>3, LenProperties
<1> QED
  BY <1>1, <1>2, <1>3, <1>4 DEF NothingLost

LEMMA DrainCoversKept ==
    ASSUME IInv, [Next]_vars
    PROVE  DrainCovers'
<1> USE DEF WorkerGoes, queueVars, producerVars, workerVars, closerVars
<1>1. TypeOK /\ HeldOnlyInFlush /\ ClosingFirst /\ DrainCovers /\ NothingLost
  BY DEF IInv
<1>2. ASSUME NEW p \in Producers, ProducerStep(p)
      PROVE  DrainCovers'
  BY <1>1, <1>2 DEF ProducerStep, CheckFlags, Push, Notify, DrainCovers
<1>3. CASE DrainEnds
  <2>1. CASE elapsed # {} \/ stopSending
    BY <1>3, <2>1 DEF DrainEnds, DrainCovers
  <2>2. CASE elapsed = {} /\ ~stopSending
    <3>1. queue = << >> /\ taken = << >> /\ batch = << >>
      BY <1>1, <1>3, <2>2 DEF DrainEnds, DeadlinePassed, HeldOnlyInFlush
    <3>2. Len(Pending) = 0 /\ Len(handed) \in Nat
      BY <1>1, <3>1, PendingType
    <3>3. Len(handed) >= acceptedAtClose
      BY <1>1, <3>2 DEF NothingLost, TypeOK
    <3> QED
      BY <1>3, <3>3 DEF DrainEnds, DrainCovers
  <2> QED
    BY <2>1, <2>2
<1>4. CASE WorkerStep /\ ~DrainEnds
  BY <1>1, <1>4 DEF WorkerStep, Woken, IntervalOver, ClearWake, CheckClosing, Shift, PutBack,
                    DrainGoesOn, DrainCovers
<1>5. CASE TransportStep
  BY <1>1, <1>5 DEF TransportStep, Send, Replay, DrainBuffer, AfterFlush, DrainCovers, TypeOK
<1>6. ASSUME NEW c \in Closers, CallClose(c) \/ CloserStep(c) \/ Elapse(c)
      PROVE  DrainCovers'
  <2>1. CASE SetClosing(c)
    BY <1>1, <2>1 DEF SetClosing, DrainCovers, ClosingFirst
  <2>2. CASE Elapse(c)
    BY <2>2 DEF Elapse, DrainCovers
  <2>3. CASE ~SetClosing(c) /\ ~Elapse(c)
    BY <1>1, <1>6, <2>3 DEF CallClose, CloserStep, SetDeadline, WakeWorker, Joined,
                            JoinTimesOut, SetClosed, CloseTransport, DrainCovers
  <2> QED
    BY <2>1, <2>2, <2>3
<1>7. CASE UNCHANGED vars
  BY <1>1, <1>7 DEF vars, DrainCovers
<1> QED
  BY <1>2, <1>3, <1>4, <1>5, <1>6, <1>7 DEF Next

-----------------------------------------------------------------------------
(***************************************************************************)
(* The theorems.                                                           *)
(***************************************************************************)
LEMMA NextIInv ==
    ASSUME IInv, [Next]_vars
    PROVE  IInv'
<1> USE DEF IInv
<1>1. TypeOK'
  BY NextTypeOK
<1>2. HeldOnlyInFlush' /\ QueueOvershoot'
  BY HeldOnlyInFlushKept, QueueOvershootKept
<1>3. ClosingFirst' /\ SignalKept' /\ WorkerEnded'
  BY ClosingFirstKept, SignalKeptKept, WorkerEndedKept
<1>4. NothingLost' /\ DrainCovers'
  BY NothingLostKept, DrainCoversKept
<1> QED
  BY <1>1, <1>2, <1>3, <1>4

THEOREM Invariance == Spec => []IInv
<1>1. Init => IInv
  BY InitIInv
<1>2. IInv /\ [Next]_vars => IInv'
  BY NextIInv
<1> QED
  BY <1>1, <1>2, PTL DEF Spec

\* Put-backs never make the queue exceed its capacity by a whole batch
\* (_take_events releases the lock between taking and putting back).
THEOREM QueueOvershootHolds == Spec => []QueueOvershoot
<1>1. IInv => QueueOvershoot
  BY DEF IInv
<1> QED
  BY <1>1, Invariance, PTL

\* A close is never slept through (close sets _closing before the event, the
\* worker clears the event before it reads _closing).
THEOREM CloseIsSeenHolds == Spec => []CloseIsSeen
<1>1. IInv => CloseIsSeen
  BY DEF IInv, SignalKept, BackToWait, CloseIsSeen
<1> QED
  BY <1>1, Invariance, PTL

\* A drain that was neither cut short nor stopped has handed over everything
\* accepted before the close.
THEOREM DrainCoversHolds == Spec => []DrainCovers
<1>1. IInv => DrainCovers
  BY DEF IInv
<1> QED
  BY <1>1, Invariance, PTL

\* The transport is closed only after the worker has ended.
THEOREM TransportClosedLastHolds == Spec => []TransportClosedLast
<1>1. IInv => TransportClosedLast
  BY DEF IInv, WorkerEnded, HeldOnlyInFlush, TransportClosedLast
<1> QED
  BY <1>1, Invariance, PTL

\* The queue implements the line: nothing accepted is lost, duplicated or
\* overtaken on its way to the sending code.
THEOREM ImplementsFifoHandoff == Spec => HandsOverInOrder
<1>1. Init => Handoff!Init
  BY ConcatEmptySeq, EmptySeq DEF Init, Handoff!Init, Pending
<1>2. IInv /\ [Next]_vars => [Handoff!Next]_(Handoff!vars)
  BY StepRefines DEF IInv
<1> QED
  BY <1>1, <1>2, Invariance, PTL DEF Spec, HandsOverInOrder, Handoff!Spec

=============================================================================
