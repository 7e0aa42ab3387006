----------------------------- MODULE EventQueue -----------------------------
(***************************************************************************)
(* The path of an event from a metric call to the sending code, and the    *)
(* shutdown of that path: the queue of _ring_buffer.py, and from           *)
(* _client.py the tail of _enqueue, _take_events, the worker loop with its *)
(* wake event, _drain_on_close and close().                                *)
(*                                                                         *)
(* Application threads record events, one background thread takes them out *)
(* in batches, and any number of threads close the client.  They share the *)
(* queue under a lock, and the flags _closing, _closed, _stop_sending, the *)
(* wake event and the close deadline without it.  An action is a region    *)
(* under the lock, or one access to a shared flag.                         *)
(*                                                                         *)
(* What sending a batch does is left open here: it takes any time, and it  *)
(* may turn sending off for good.  OutageBuffer models it.                 *)
(***************************************************************************)
EXTENDS Naturals, Sequences, FiniteSets, FiniteSetsExt

CONSTANTS
    Producers,          \* application threads that record metrics
    Closers,            \* threads that call close()
    NoCloser,           \* nobody has set a close deadline
    Kinds,              \* what a flush can tell of an event: series and size
    EventWireSize,      \* bytes an event of a kind takes on the wire
    SeriesKey,          \* metric and labels of a kind
    DefinitionWireSize, \* bytes the definition of a series takes
    QueueSize,          \* DEFAULT_QUEUE_SIZE
    MaxBatchSize,       \* DEFAULT_MAX_BATCH_SIZE, in events
    MaxBatchBytes,      \* DEFAULT_MAX_BATCH_BYTES
    MaxBatchSeries,     \* DEFAULT_MAX_BATCH_SERIES
    MaxCalls            \* bound of the model: calls each producer makes

ASSUME QueueAssumption ==
    /\ NoCloser \notin Closers
    /\ EventWireSize \in [Kinds -> Nat]
    /\ DOMAIN SeriesKey = Kinds
    /\ \A k \in Kinds : DefinitionWireSize[SeriesKey[k]] \in Nat
    /\ QueueSize \in Nat \ {0}
    /\ MaxBatchSize \in Nat \ {0}
    /\ MaxBatchBytes \in Nat \ {0}
    /\ MaxBatchSeries \in Nat \ {0}
    /\ MaxCalls \in Nat

VARIABLES
    queue,              \* _queue: accepted events, oldest first
    queueDropped,       \* _queue_dropped: events refused because it was full
    calls,              \* number of events each producer has built
    producerAt,         \* where each producer is in _enqueue
    workerAt,           \* where the worker thread is
    leaving,            \* the worker has left its loop and drains for close
    taken,              \* _take_events: events shifted but not yet measured
    batch,              \* events of the batch being sent
    wake,               \* the flag of the _wake event
    stopSending,        \* _stop_sending
    closing,            \* _closing
    closed,             \* _closed
    closerAt,           \* where each closer is in close()
    deadlineOf,         \* the closer whose timeout _close_deadline_ms holds
    elapsed,            \* closers whose timeout has passed
    transportClosed,    \* transport.close() was called
    handed,             \* history: events handed to the sending code, in order
    acceptedAtClose     \* history: events accepted when _closing was set

queueVars    == <<queue, queueDropped>>
producerVars == <<calls, producerAt>>
workerVars   == <<workerAt, leaving, taken, batch, handed>>
closerVars   == <<closing, closed, closerAt, deadlineOf, elapsed,
                  transportClosed, acceptedAtClose>>
vars == <<queueVars, producerVars, workerVars, closerVars, wake, stopSending>>

Event == [by : Producers, nth : 0..MaxCalls, kind : Kinds]

\* Accepted events not yet handed over, in the order they will be.
Pending == batch \o taken \o queue

Init ==
    /\ queue = << >>
    /\ queueDropped = 0
    /\ calls = [p \in Producers |-> 0]
    /\ producerAt = [p \in Producers |-> "idle"]
    /\ workerAt = "waiting"
    /\ leaving = FALSE
    /\ taken = << >>
    /\ batch = << >>
    /\ wake = FALSE
    /\ stopSending = FALSE
    /\ closing = FALSE
    /\ closed = FALSE
    /\ closerAt = [c \in Closers |-> "idle"]
    /\ deadlineOf = NoCloser
    /\ elapsed = {}
    /\ transportClosed = FALSE
    /\ handed = << >>
    /\ acceptedAtClose = 0

-----------------------------------------------------------------------------
(***************************************************************************)
(* Metric calls.  The flags are read once, without the lock, before the    *)
(* event is built; a call that finds one set returns and changes nothing.  *)
(* Validation happens in between and drops events before they get here.    *)
(***************************************************************************)
CheckFlags(p) ==
    /\ producerAt[p] = "idle"
    /\ calls[p] < MaxCalls
    /\ ~closed /\ ~closing /\ ~stopSending
    /\ calls' = [calls EXCEPT ![p] = @ + 1]
    /\ producerAt' = [producerAt EXCEPT ![p] = "push"]
    /\ UNCHANGED <<queueVars, workerVars, closerVars, wake, stopSending>>

\* Two slips in the push: a comparison off by one, and a drop counter that runs
\* the wrong way.  The runs find each of the slips of this module.
PushOffByOne(p) ==
    /\ producerAt[p] = "push"
    /\ Len(queue) <= QueueSize
    /\ \E k \in Kinds :
          queue' = Append(queue, [by |-> p, nth |-> calls[p], kind |-> k])
    /\ producerAt' = [producerAt EXCEPT ![p] = "idle"]
    /\ UNCHANGED <<queueDropped, calls, workerVars, closerVars, wake, stopSending>>

PushCountsDown(p) ==
    /\ producerAt[p] = "push"
    /\ Len(queue) < QueueSize
    /\ \E k \in Kinds :
          queue' = Append(queue, [by |-> p, nth |-> calls[p], kind |-> k])
    /\ queueDropped' = queueDropped - 1
    /\ producerAt' = [producerAt EXCEPT ![p] = "idle"]
    /\ UNCHANGED <<calls, workerVars, closerVars, wake, stopSending>>

\* RingBuffer.push under the lock: a full queue refuses the new event.
Push(p) ==
    /\ producerAt[p] = "push"
    /\ IF Len(queue) >= QueueSize
       THEN /\ queueDropped' = queueDropped + 1
            /\ producerAt' = [producerAt EXCEPT ![p] = "idle"]
            /\ UNCHANGED queue
       ELSE /\ \E k \in Kinds :
                 queue' = Append(queue, [by |-> p, nth |-> calls[p], kind |-> k])
            /\ producerAt' = [producerAt EXCEPT ![p] =
                   IF Len(queue) + 1 >= MaxBatchSize THEN "notify" ELSE "idle"]
            /\ UNCHANGED queueDropped
    /\ UNCHANGED <<calls, workerVars, closerVars, wake, stopSending>>

\* A queue that holds a full batch wakes the worker, after the lock is gone.
Notify(p) ==
    /\ producerAt[p] = "notify"
    /\ wake' = TRUE
    /\ producerAt' = [producerAt EXCEPT ![p] = "idle"]
    /\ UNCHANGED <<queueVars, calls, workerVars, closerVars, stopSending>>

-----------------------------------------------------------------------------
(***************************************************************************)
(* The worker's loop.  It waits for the wake event or the flush interval,  *)
(* clears the event, and leaves the loop if a close has begun.             *)
(***************************************************************************)
WorkerGoes(from, to) ==
    /\ workerAt = from
    /\ workerAt' = to

\* wait(interval) returns because the event is set ...
Woken ==
    /\ wake
    /\ WorkerGoes("waiting", "woken")
    /\ UNCHANGED <<queueVars, producerVars, leaving, taken, batch, handed,
                   closerVars, wake, stopSending>>

\* A slip: wait() is called without the interval.
WaitWithoutInterval ==
    /\ wake
    /\ WorkerGoes("waiting", "woken")
    /\ UNCHANGED <<queueVars, producerVars, leaving, taken, batch, handed,
                   closerVars, wake, stopSending>>

\* ... or because the flush interval is over.
IntervalOver ==
    /\ ~wake
    /\ WorkerGoes("waiting", "woken")
    /\ UNCHANGED <<queueVars, producerVars, leaving, taken, batch, handed,
                   closerVars, wake, stopSending>>

ClearWake ==
    /\ WorkerGoes("woken", "cleared")
    /\ wake' = FALSE
    /\ UNCHANGED <<queueVars, producerVars, leaving, taken, batch, handed,
                   closerVars, stopSending>>

\* while True: ... if self._closing: break
CheckClosing ==
    /\ WorkerGoes("cleared", IF closing THEN "draining" ELSE "taking")
    /\ leaving' = closing
    /\ UNCHANGED <<queueVars, producerVars, taken, batch, handed,
                   closerVars, wake, stopSending>>

-----------------------------------------------------------------------------
(***************************************************************************)
(* One flush: _take_events, then _send_payload.                            *)
(***************************************************************************)
\* min(MaxBatchSize, Len(queue)) events are shifted under the lock.
ShiftCount == IF Len(queue) < MaxBatchSize THEN Len(queue) ELSE MaxBatchSize

Shift ==
    /\ WorkerGoes("taking", "measuring")
    /\ taken' = SubSeq(queue, 1, ShiftCount)
    /\ queue' = SubSeq(queue, ShiftCount + 1, Len(queue))
    /\ UNCHANGED <<queueDropped, producerVars, leaving, batch, handed,
                   closerVars, wake, stopSending>>

\* What the first n events of a run weigh, each series defined once.
SeriesOf(events, n) == {SeriesKey[events[i].kind] : i \in 1..n}

BatchBytes(events, n) ==
    MapThenSumSet(LAMBDA i : EventWireSize[events[i].kind], 1..n)
      + MapThenSumSet(LAMBDA s : DefinitionWireSize[s], SeriesOf(events, n))

\* The batch of the first n events has reached a ceiling.  An empty one never has.
IsFull(events, n) ==
    /\ n > 0
    /\ \/ BatchBytes(events, n) >= MaxBatchBytes
       \/ Cardinality(SeriesOf(events, n)) >= MaxBatchSeries

\* An event joins the batch while the ones before it have not filled it.
BatchLength(events) ==
    Cardinality({i \in 1..Len(events) : ~IsFull(events, i - 1)})

\* A slip: the remainder goes back to the tail.
PutBackAtTail ==
    /\ workerAt = "measuring"
    /\ LET n == BatchLength(taken)
       IN /\ batch' = SubSeq(taken, 1, n)
          /\ queue' = queue \o SubSeq(taken, n + 1, Len(taken))
    /\ taken' = << >>
    /\ workerAt' = "sending"
    /\ UNCHANGED <<queueDropped, producerVars, leaving, handed,
                   closerVars, wake, stopSending>>

\* The run is measured without the lock.  What does not fit goes back to the
\* front of the queue, whatever was recorded meanwhile.
PutBack ==
    /\ workerAt = "measuring"
    /\ LET n == BatchLength(taken)
       IN /\ batch' = SubSeq(taken, 1, n)
          /\ queue' = SubSeq(taken, n + 1, Len(taken)) \o queue
    /\ taken' = << >>
    /\ workerAt' = "sending"
    /\ UNCHANGED <<queueDropped, producerVars, leaving, handed,
                   closerVars, wake, stopSending>>

AfterFlush == IF leaving THEN "draining" ELSE "replaying"

\* The batch is built and given to _send_payload, which may turn sending off.
\* With nothing taken, or sending already off, nothing is sent.
Send ==
    /\ WorkerGoes("sending", AfterFlush)
    /\ handed' = handed \o batch
    /\ batch' = << >>
    /\ \/ UNCHANGED stopSending
       \/ batch # << >> /\ stopSending' = TRUE
    /\ UNCHANGED <<queueVars, producerVars, leaving, taken, closerVars, wake>>

\* A slip: the wake event is cleared after the tick, not before the closing check.
ClearAfterTick ==
    /\ WorkerGoes("replaying", "waiting")
    /\ wake' = FALSE
    /\ UNCHANGED <<queueVars, producerVars, leaving, taken, batch, handed,
                   closerVars, stopSending>>

\* _flush_retry_queue: a replay may turn sending off too.
Replay ==
    /\ WorkerGoes("replaying", "waiting")
    /\ \/ UNCHANGED stopSending
       \/ stopSending' = TRUE
    /\ UNCHANGED <<queueVars, producerVars, leaving, taken, batch, handed,
                   closerVars, wake>>

-----------------------------------------------------------------------------
(***************************************************************************)
(* _drain_on_close: flush until the queue is empty, the deadline is over   *)
(* or sending is off, then replay the outage buffer.                       *)
(***************************************************************************)
DeadlinePassed == deadlineOf \in elapsed

DrainGoesOn ==
    /\ ~DeadlinePassed /\ ~stopSending
    /\ queue # << >>
    /\ WorkerGoes("draining", "taking")
    /\ UNCHANGED <<queueVars, producerVars, leaving, taken, batch, handed,
                   closerVars, wake, stopSending>>

\* A slip: one flush is taken for a drain.
DrainOnce ==
    /\ WorkerGoes("draining", "drainingBuffer")
    /\ UNCHANGED <<queueVars, producerVars, leaving, taken, batch, handed,
                   closerVars, wake, stopSending>>

DrainEnds ==
    /\ DeadlinePassed \/ stopSending \/ queue = << >>
    /\ WorkerGoes("draining", "drainingBuffer")
    /\ UNCHANGED <<queueVars, producerVars, leaving, taken, batch, handed,
                   closerVars, wake, stopSending>>

\* The thread ends when the outage buffer is done with.  Its waits (_wait_until)
\* use the wake event too, and clear it.
DrainBuffer ==
    /\ WorkerGoes("drainingBuffer", "done")
    /\ \/ UNCHANGED stopSending
       \/ stopSending' = TRUE
    /\ wake' \in {wake, FALSE}
    /\ UNCHANGED <<queueVars, producerVars, leaving, taken, batch, handed,
                   closerVars>>

-----------------------------------------------------------------------------
(***************************************************************************)
(* close(timeout), in the order of its statements.                         *)
(***************************************************************************)
CloserGoes(c, from, to) ==
    /\ closerAt[c] = from
    /\ closerAt' = [closerAt EXCEPT ![c] = to]

\* A client that is already closed makes close() return at once.
CallClose(c) ==
    /\ CloserGoes(c, "idle", IF closed THEN "returned" ELSE "entered")
    /\ UNCHANGED <<queueVars, producerVars, workerVars, closing, closed, deadlineOf,
                   elapsed, transportClosed, acceptedAtClose, wake, stopSending>>

SetDeadline(c) ==
    /\ CloserGoes(c, "entered", "deadlineSet")
    /\ deadlineOf' = c
    /\ UNCHANGED <<queueVars, producerVars, workerVars, closing, closed,
                   elapsed, transportClosed, acceptedAtClose, wake, stopSending>>

SetClosing(c) ==
    /\ CloserGoes(c, "deadlineSet", "closingSet")
    /\ closing' = TRUE
    /\ acceptedAtClose' = IF closing THEN acceptedAtClose
                          ELSE Len(handed) + Len(Pending)
    /\ UNCHANGED <<queueVars, producerVars, workerVars, closed, deadlineOf,
                   elapsed, transportClosed, wake, stopSending>>

WakeWorker(c) ==
    /\ CloserGoes(c, "closingSet", "joining")
    /\ wake' = TRUE
    /\ UNCHANGED <<queueVars, producerVars, workerVars, closing, closed, deadlineOf,
                   elapsed, transportClosed, acceptedAtClose, stopSending>>

\* The time close() was given has passed since it set its deadline.
Elapse(c) ==
    /\ closerAt[c] \notin {"idle", "entered", "returned"}
    /\ c \notin elapsed
    /\ elapsed' = elapsed \cup {c}
    /\ UNCHANGED <<queueVars, producerVars, workerVars, closing, closed, closerAt,
                   deadlineOf, transportClosed, acceptedAtClose, wake, stopSending>>

\* join() returns because the worker has ended, ...
Joined(c) ==
    /\ workerAt = "done"
    /\ CloserGoes(c, "joining", "joined")
    /\ UNCHANGED <<queueVars, producerVars, workerVars, closing, closed, deadlineOf,
                   elapsed, transportClosed, acceptedAtClose, wake, stopSending>>

\* A slip: join() without a timeout.
JoinForever(c) ==
    /\ workerAt = "done"
    /\ c \in elapsed
    /\ CloserGoes(c, "joining", "timedOut")
    /\ UNCHANGED <<queueVars, producerVars, workerVars, closing, closed, deadlineOf,
                   elapsed, transportClosed, acceptedAtClose, wake, stopSending>>

\* ... or because a second more than the timeout has passed.
JoinTimesOut(c) ==
    /\ workerAt # "done"
    /\ c \in elapsed
    /\ CloserGoes(c, "joining", "timedOut")
    /\ UNCHANGED <<queueVars, producerVars, workerVars, closing, closed, deadlineOf,
                   elapsed, transportClosed, acceptedAtClose, wake, stopSending>>

\* A slip: the transport is closed after a join that timed out, too.
SetClosedAnyway(c) ==
    /\ \/ CloserGoes(c, "joined", "closingTransport")
       \/ CloserGoes(c, "timedOut", "closingTransport")
    /\ closed' = TRUE
    /\ UNCHANGED <<queueVars, producerVars, workerVars, closing, deadlineOf,
                   elapsed, transportClosed, acceptedAtClose, wake, stopSending>>

\* _closed is set either way; only a drained client closes its transport.
SetClosed(c) ==
    /\ \/ CloserGoes(c, "joined", "closingTransport")
       \/ CloserGoes(c, "timedOut", "returned")
    /\ closed' = TRUE
    /\ UNCHANGED <<queueVars, producerVars, workerVars, closing, deadlineOf,
                   elapsed, transportClosed, acceptedAtClose, wake, stopSending>>

CloseTransport(c) ==
    /\ CloserGoes(c, "closingTransport", "returned")
    /\ transportClosed' = TRUE
    /\ UNCHANGED <<queueVars, producerVars, workerVars, closing, closed, deadlineOf,
                   elapsed, acceptedAtClose, wake, stopSending>>

-----------------------------------------------------------------------------
ProducerStep(p) == CheckFlags(p) \/ Push(p) \/ Notify(p)

\* What the worker does between two calls of the transport ...
WorkerStep ==
    \/ Woken \/ IntervalOver \/ ClearWake \/ CheckClosing
    \/ Shift \/ PutBack
    \/ DrainGoesOn \/ DrainEnds

\* ... and the calls themselves.
TransportStep == Send \/ Replay \/ DrainBuffer

CloserStep(c) ==
    \/ SetDeadline(c) \/ SetClosing(c) \/ WakeWorker(c)
    \/ Joined(c) \/ JoinTimesOut(c)
    \/ SetClosed(c) \/ CloseTransport(c)

Next ==
    \/ \E p \in Producers : ProducerStep(p)
    \/ WorkerStep
    \/ TransportStep
    \/ \E c \in Closers : CallClose(c) \/ CloserStep(c) \/ Elapse(c)

Spec == Init /\ [][Next]_vars

\* A thread inside close() runs, and time passes.  No more than that: the worker
\* may be stuck inside a request.
CloserFairness ==
    \A c \in Closers : WF_vars(CloserStep(c)) /\ WF_vars(Elapse(c))

FairSpec == Spec /\ CloserFairness

\* The worker thread runs, and its requests come back: every one has a timeout.
WorkerFairness == WF_vars(WorkerStep) /\ WF_vars(TransportStep)

-----------------------------------------------------------------------------
(***************************************************************************)
(* Properties.                                                             *)
(***************************************************************************)
ProducerPlaces == {"idle", "push", "notify"}
WorkerPlaces   == {"waiting", "woken", "cleared", "taking", "measuring", "sending",
                   "replaying", "draining", "drainingBuffer", "done"}
CloserPlaces   == {"idle", "entered", "deadlineSet", "closingSet", "joining", "joined",
                   "timedOut", "closingTransport", "returned"}

\* Every variable has the type its Python counterpart has.
TypeOK ==
    /\ queue \in Seq(Event)
    /\ queueDropped \in Nat
    /\ calls \in [Producers -> 0..MaxCalls]
    /\ producerAt \in [Producers -> ProducerPlaces]
    /\ workerAt \in WorkerPlaces
    /\ leaving \in BOOLEAN
    /\ taken \in Seq(Event)
    /\ batch \in Seq(Event)
    /\ wake \in BOOLEAN
    /\ stopSending \in BOOLEAN
    /\ closing \in BOOLEAN
    /\ closed \in BOOLEAN
    /\ closerAt \in [Closers -> CloserPlaces]
    /\ deadlineOf \in Closers \cup {NoCloser}
    /\ elapsed \subseteq Closers
    /\ transportClosed \in BOOLEAN
    /\ handed \in Seq(Event)
    /\ acceptedAtClose \in Nat

\* Putting a remainder back does not let the queue grow without limit: however
\* flushes and metric calls interleave it exceeds its capacity by less than one
\* batch, and only while no flush is being measured (_take_events,
\* RingBuffer.unshift_all).
QueueOvershoot ==
    /\ Len(queue) <= QueueSize + MaxBatchSize - 1
    /\ taken # << >> => Len(queue) <= QueueSize

\* A close that has set the wake event is never slept through: the worker does
\* not go into a wait with the event clear (the comment in _worker_loop).
CloseSignalled == \E c \in Closers : closerAt[c] \in {"joining", "joined", "timedOut"}

CloseIsSeen == (CloseSignalled /\ workerAt = "waiting") => wake

\* When the worker has drained the queue for a close without running out of time
\* and without being stopped, every event accepted before the close began has
\* been handed over (_drain_on_close).
DrainCovers ==
    (workerAt \in {"drainingBuffer", "done"} /\ elapsed = {} /\ ~stopSending)
        => Len(handed) >= acceptedAtClose

\* The transport is only closed when no worker can be inside it (_close).
TransportClosedLast == transportClosed => workerAt = "done" /\ batch = << >>

\* The queue hands over what it accepted, in order, whatever is put back.
Handoff == INSTANCE FifoHandoff WITH pending <- Pending
HandsOverInOrder == Handoff!Spec

\* close() returns even when a request hangs (join has a timeout of its own).
CloseReturns ==
    \A c \in Closers : closerAt[c] = "entered" ~> closerAt[c] = "returned"

\* With a worker that runs, every accepted event is handed over in the end, unless
\* sending is turned off or a close begins.
EverythingHanded ==
    WorkerFairness =>
        \A n \in 1..(MaxCalls * Cardinality(Producers)) :
            Len(handed) + Len(Pending) >= n ~>
                (Len(handed) >= n \/ stopSending \/ closing)

-----------------------------------------------------------------------------
(***************************************************************************)
(* What a comment or docstring says and the code does not do.              *)
(***************************************************************************)
\* "Blocks until the queue and the outage buffer are drained or timeout
\* elapses" (close): a close that returned before its time, with the worker
\* ended and sending on, left nothing in the queue.
OrderlyCloseLeavesNothing ==
    \A c \in Closers :
        (closerAt[c] = "closingTransport" /\ elapsed = {} /\ ~stopSending)
            => queue = << >>

=============================================================================
