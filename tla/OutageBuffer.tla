---------------------------- MODULE OutageBuffer ----------------------------
(***************************************************************************)
(* What happens to a batch once it is built (_client.py): _send_payload    *)
(* and its answers, the client-wide backoff, the startup grace of a key    *)
(* that is refused, the outage buffer with its three bounds, its replay,   *)
(* and the two drains of a close.                                          *)
(*                                                                         *)
(* All of it runs on the worker thread, so a step is what the worker does  *)
(* between two points at which time can pass: a wait, or a request.  The   *)
(* queue of events is left to EventQueue: here a flush finds a batch or    *)
(* does not.  The answers of transport.send come from outside in any       *)
(* order.                                                                  *)
(***************************************************************************)
EXTENDS Integers, Sequences, FiniteSets, FiniteSetsExt, Functions

CONSTANTS
    EventCount,             \* events in each batch
    EstimatedBytes,         \* Payload.estimated_bytes of each batch
    RetryQueueSize,         \* DEFAULT_RETRY_QUEUE_SIZE
    BufferMaxEvents,        \* DEFAULT_OUTAGE_BUFFER_MAX_EVENTS
    BufferMaxBytes,         \* DEFAULT_OUTAGE_BUFFER_MAX_BYTES
    BufferMaxAge,           \* DEFAULT_OUTAGE_BUFFER_MAX_AGE_MS
    RetryBaseDelay,         \* DEFAULT_RETRY_BASE_DELAY_MS
    RetryMaxDelay,          \* DEFAULT_RETRY_MAX_DELAY_MS
    RetryJitter,            \* DEFAULT_RETRY_JITTER_WINDOW_MS
    BackoffMaxDelay,        \* DEFAULT_CLIENT_BACKOFF_MAX_DELAY_MS
    BackoffJitter,          \* DEFAULT_CLIENT_BACKOFF_JITTER_WINDOW_MS
    RecoveryJitter,         \* DEFAULT_RECOVERY_JITTER_WINDOW_MS
    ReplayInterval,         \* DEFAULT_REPLAY_INTERVAL_MS
    GraceWindow,            \* DEFAULT_AUTH_GRACE_WINDOW_MS
    GraceRetryInterval,     \* DEFAULT_AUTH_GRACE_RETRY_INTERVAL_MS
    ClientKey,              \* looks_like_client_key: the key can never work
    RetryAfters,            \* values of Retry-After the endpoint sends, 0 for none
    CloseTimeouts,          \* timeouts close() is given
    JoinMargin,             \* how much longer than that it waits for the worker
    MaxTime                 \* bound of the model: the clock stops here

\* Batches are numbered in the order they are built.
Batches == DOMAIN EventCount

ASSUME BufferAssumption ==
    /\ IsFiniteSet(Batches) /\ Batches = 1..Cardinality(Batches)
    /\ EventCount \in [Batches -> Nat \ {0}]
    /\ EstimatedBytes \in [Batches -> Nat]
    /\ RetryQueueSize \in Nat \ {0}
    /\ {BufferMaxEvents, BufferMaxBytes, BufferMaxAge} \subseteq Nat
    /\ {RetryBaseDelay, RetryMaxDelay, RetryJitter, BackoffMaxDelay,
        BackoffJitter, RecoveryJitter} \subseteq Nat \ {0}
    /\ {ReplayInterval, GraceWindow, GraceRetryInterval} \subseteq Nat \ {0}
    /\ ClientKey \in BOOLEAN
    /\ RetryAfters \subseteq Nat
    /\ CloseTimeouts \subseteq Nat
    /\ JoinMargin \in Nat
    /\ MaxTime \in Nat \ {0}

VARIABLES
    now,                    \* monotonic_ms(), from 1: 0 means "not set"
    built,                  \* number of batches built so far
    outage,                 \* _retry_queue, _retry_events, _retry_bytes, _retry_dropped
    transientAttempt,       \* _transient_backoff_attempt
    nextSend,               \* _next_send_attempt_ms
    nextReplay,             \* _next_replay_attempt_ms
    recovery,               \* _recovery_confirmed
    stopSending,            \* _stop_sending
    refusalPending,         \* _auth_refusal_pending
    sendDropped,            \* _send_dropped
    deadline,               \* _close_deadline_ms
    closing,                \* _closing
    workerAt,               \* where the worker thread is
    inFlight,               \* the batch inside transport.send, with its history
    delivered,              \* history: batches the endpoint accepted
    destroyed,              \* history: batches given up because sending is off
    heldUntil,              \* history: when the endpoint wants the next attempt
    closeReport             \* what close() says when it returns

clockVars   == <<now, deadline, closing, closeReport>>
gateVars    == <<transientAttempt, nextSend, refusalPending, heldUntil>>
replayVars  == <<nextReplay, recovery>>
lossVars    == <<sendDropped, stopSending, delivered, destroyed>>
vars == <<clockVars, built, outage, gateVars, replayVars, lossVars, workerAt, inFlight>>

Larger(m, n)  == IF m >= n THEN m ELSE n
Smaller(m, n) == IF m <= n THEN m ELSE n

\* _auth_grace_until_ms, set when the client is created.
GraceUntil == 1 + GraceWindow

Idle == [batch |-> 0, attempt |-> 0, bufferedAt |-> 0]

NotReturned == [stage |-> "joining", drained |-> FALSE, said |-> FALSE, undelivered |-> 0]

Init ==
    /\ now = 1
    /\ built = 0
    /\ outage = [queue |-> << >>, events |-> 0, bytes |-> 0, dropped |-> 0]
    /\ transientAttempt = 0
    /\ nextSend = 0
    /\ nextReplay = 0
    /\ recovery = FALSE
    /\ stopSending = FALSE
    /\ refusalPending = FALSE
    /\ sendDropped = 0
    /\ deadline = 0
    /\ closing = FALSE
    /\ workerAt = "waiting"
    /\ inFlight = Idle
    /\ delivered = {}
    /\ destroyed = {}
    /\ heldUntil = 0
    /\ closeReport = NotReturned

-----------------------------------------------------------------------------
(***************************************************************************)
(* Delays.  A jitter of a window of w is one of 0..w-1.                    *)
(***************************************************************************)
\* The base delay doubled with every attempt after the first, up to a limit.
Doubled(attempt, limit) ==
    LET delay[n \in Nat \ {0}] ==
            IF n = 1 THEN RetryBaseDelay
            ELSE IF delay[n - 1] >= limit THEN delay[n - 1]
            ELSE Smaller(2 * delay[n - 1], limit)
    IN delay[Larger(1, attempt)]

\* _retry_delay: for one batch.
RetryDelays(attempt) ==
    {Doubled(attempt, RetryMaxDelay) + j : j \in 0..RetryJitter - 1}

\* _client_backoff_delay: for the whole client, spread widest the first time.
BackoffDelays(attempt) ==
    {Smaller(Doubled(attempt, BackoffMaxDelay) + j, BackoffMaxDelay) :
        j \in 0..(IF attempt <= 1 THEN RecoveryJitter ELSE BackoffJitter) - 1}

-----------------------------------------------------------------------------
(***************************************************************************)
(* The outage buffer: its queue, the running totals of what is in it, and  *)
(* the count of events it has dropped.                                     *)
(***************************************************************************)
EventsIn(items) == MapThenSumSet(LAMBDA x : EventCount[x.batch], items)
BytesIn(items)  == MapThenSumSet(LAMBDA x : EstimatedBytes[x.batch], items)

\* The items of a queue that are in a set, in the order of the queue.
Only(queue, items) ==
    LET kept  == {i \in DOMAIN queue : queue[i] \in items}
        At(n) == CHOOSE i \in kept : Cardinality({j \in kept : j <= i}) = n
    IN [n \in 1..Cardinality(kept) |-> queue[At(n)]]

\* A slip: the item leaves the queue and is still in the totals.  The runs find each
\* of the slips of this module.
TakenUncounted(buffer, item) ==
    [buffer EXCEPT !.queue = Only(@, Range(@) \ {item})]

\* _retry_take: one item leaves, and the totals with it.
Taken(buffer, item) ==
    [buffer EXCEPT !.queue  = Only(@, Range(@) \ {item}),
                   !.events = @ - EventCount[item.batch],
                   !.bytes  = @ - EstimatedBytes[item.batch]]

\* Some items are dropped: they leave, and their events are counted.
Without(buffer, items) ==
    [queue   |-> Only(buffer.queue, Range(buffer.queue) \ items),
     events  |-> buffer.events - EventsIn(items),
     bytes   |-> buffer.bytes - BytesIn(items),
     dropped |-> buffer.dropped + EventsIn(items)]

\* _drop_retry_batch of a batch that never got in.
Refusing(buffer, item) == [buffer EXCEPT !.dropped = @ + EventCount[item.batch]]

Expired(item) == item.bufferedAt < now - BufferMaxAge

\* _prune_expired
Pruned(buffer) == Without(buffer, {x \in Range(buffer.queue) : Expired(x)})

\* The age limit holds until a replay has confirmed recovery.
Aged(buffer) == IF recovery THEN buffer ELSE Pruned(buffer)

\* The order in which min() finds the items by buffered_at_ms.
Precedes(queue, x, y) ==
    \/ x.bufferedAt < y.bufferedAt
    \/ /\ x.bufferedAt = y.bufferedAt
       /\ \E i, j \in DOMAIN queue : i < j /\ queue[i] = x /\ queue[j] = y

OldestOf(queue, items) ==
    CHOOSE x \in items : \A y \in items \ {x} : Precedes(queue, x, y)

\* A slip: the batches evicted are the last ones.
TheNewest(queue, n) ==
    {x \in Range(queue) :
        Cardinality({y \in Range(queue) : Precedes(queue, x, y)}) < n}

TheOldest(queue, n) ==
    {x \in Range(queue) :
        Cardinality({y \in Range(queue) : Precedes(queue, y, x)}) < n}

\* ~_would_overflow
Fits(buffer, item) ==
    /\ Len(buffer.queue) < RetryQueueSize
    /\ buffer.events + EventCount[item.batch] <= BufferMaxEvents
    /\ buffer.bytes + EstimatedBytes[item.batch] <= BufferMaxBytes

\* The oldest items go, one after another, until the new one fits or none is left.
WithRoomFor(buffer, item) ==
    LET After(n) == Without(buffer, TheOldest(buffer.queue, n))
        Enough   == {n \in 0..Len(buffer.queue) : Fits(After(n), item)}
    IN After(Min(Enough \cup {Len(buffer.queue)}))

\* _retry_append
Appended(buffer, item) ==
    [buffer EXCEPT !.queue  = Append(@, item),
                   !.events = @ + EventCount[item.batch],
                   !.bytes  = @ + EstimatedBytes[item.batch]]

TooLarge(item) ==
    \/ EventCount[item.batch] > BufferMaxEvents
    \/ EstimatedBytes[item.batch] > BufferMaxBytes

\* _enqueue_retry_at
Enqueued(buffer, item) ==
    LET aged   == Aged(buffer)
        roomy  == WithRoomFor(aged, item)
    IN CASE TooLarge(item)             -> Refusing(buffer, item)
         [] ~TooLarge(item) /\ ~recovery /\ Expired(item)
                                       -> Refusing(aged, item)
         [] OTHER                      -> IF Fits(roomy, item)
                                          THEN Appended(roomy, item)
                                          ELSE Refusing(roomy, item)

\* A slip: the moment is not recorded.
RetryBatchUnstamped(send, attempts, nextAttempt) ==
    [batch |-> send.batch, attempts |-> attempts, nextAttempt |-> nextAttempt,
     bufferedAt |-> send.bufferedAt]

\* A batch buffered for the first time is as old as this moment.
RetryBatch(send, attempts, nextAttempt) ==
    [batch |-> send.batch, attempts |-> attempts, nextAttempt |-> nextAttempt,
     bufferedAt |-> IF send.bufferedAt > 0 THEN send.bufferedAt ELSE now]

-----------------------------------------------------------------------------
(***************************************************************************)
(* _send_payload, up to the request: sending is off, the client backs off, *)
(* or the request begins.                                                  *)
(***************************************************************************)
BackingOff == nextSend # 0 /\ now < nextSend

SendPayload(send, ignoreBackoff, sendingAt, skippedAt) ==
    \/ /\ stopSending
       /\ destroyed' = destroyed \cup {send.batch}
       /\ workerAt' = skippedAt
       /\ UNCHANGED <<outage, inFlight>>
    \/ /\ ~stopSending /\ ~ignoreBackoff /\ BackingOff
       /\ outage' = Enqueued(outage,
                             RetryBatch(send, Larger(0, send.attempt - 1), nextSend))
       /\ workerAt' = skippedAt
       /\ UNCHANGED <<inFlight, destroyed>>
    \/ /\ ~stopSending /\ (ignoreBackoff \/ ~BackingOff)
       /\ inFlight' = send
       /\ workerAt' = sendingAt
       /\ UNCHANGED <<outage, destroyed>>

\* A batch that has just been built.
BuildBatch ==
    /\ built < Cardinality(Batches)
    /\ built' = built + 1

NewSend == [batch |-> built + 1, attempt |-> 1, bufferedAt |-> 0]

Replaying(item) == [batch |-> item.batch, attempt |-> item.attempts + 1,
                    bufferedAt |-> item.bufferedAt]

-----------------------------------------------------------------------------
(***************************************************************************)
(* A tick: _flush_one_batch, then _flush_retry_queue.                      *)
(***************************************************************************)
FlushOneBatch ==
    /\ workerAt = "waiting" /\ ~closing
    /\ BuildBatch
    /\ SendPayload(NewSend, FALSE, "sending", "replaying")
    /\ UNCHANGED <<clockVars, gateVars, replayVars, sendDropped, stopSending, delivered>>

NothingToFlush ==
    /\ workerAt = "waiting" /\ ~closing
    /\ workerAt' = "replaying"
    /\ UNCHANGED <<clockVars, built, outage, gateVars, replayVars, lossVars, inFlight>>

Due(buffer) == {x \in Range(buffer.queue) : x.nextAttempt <= now}

\* Two slips: the replay does not look whether sending is off; and it has a gate of
\* its own and forgets the client's.
MayReplayStopped(buffer) ==
    /\ nextReplay <= now /\ nextSend <= now
    /\ Due(buffer) # {}

MayReplayOwnGate(buffer) ==
    /\ ~stopSending
    /\ nextReplay <= now
    /\ Due(buffer) # {}

MayReplay(buffer) ==
    /\ ~stopSending
    /\ nextReplay <= now /\ nextSend <= now
    /\ Due(buffer) # {}

\* Buffered batches past their age go first, and with an empty buffer or sending
\* off not even those.
Considered == IF outage.queue = << >> \/ stopSending THEN outage ELSE Aged(outage)

\* The oldest batch that is due is taken out of the buffer and sent again.
ReplayOne ==
    /\ workerAt = "replaying"
    /\ MayReplay(Considered)
    /\ LET item == OldestOf(Considered.queue, Due(Considered))
       IN /\ outage' = Taken(Considered, item)
          /\ inFlight' = Replaying(item)
    /\ workerAt' = "replaySending"
    /\ UNCHANGED <<clockVars, built, gateVars, replayVars, lossVars>>

\* Sending is off, a gate is closed, or nothing is due.
NothingToReplay ==
    /\ workerAt = "replaying"
    /\ ~MayReplay(Considered)
    /\ outage' = Considered
    /\ workerAt' = "waiting"
    /\ UNCHANGED <<clockVars, built, gateVars, replayVars, lossVars, inFlight>>

-----------------------------------------------------------------------------
(***************************************************************************)
(* The two drains of a close.  The first sends what is left in the queue,  *)
(* whatever the backoff says; the second replays the buffer, waiting for   *)
(* each batch, until one fails.                                            *)
(***************************************************************************)
DeadlinePassed == deadline # 0 /\ now >= deadline

Close ==
    /\ ~closing
    /\ \E t \in CloseTimeouts :
          /\ now + t <= MaxTime
          /\ deadline' = now + t
    /\ closing' = TRUE
    /\ UNCHANGED <<now, closeReport, built, outage, gateVars, replayVars, lossVars,
                   workerAt, inFlight>>

\* The worker has ended, or join() does not wait for it any longer.
JoinEnds ==
    /\ closing /\ closeReport.stage = "joining"
    /\ workerAt = "done" \/ now >= deadline + JoinMargin
    /\ closeReport' = [closeReport EXCEPT !.stage = "joined", !.drained = (workerAt = "done")]
    /\ UNCHANGED <<now, deadline, closing, built, outage, gateVars, replayVars, lossVars,
                   workerAt, inFlight>>

\* Is the key refused, with no batch accepted since?  The flag is read without the
\* lock, and a worker that outlives the join goes on.
ReadsRefusal ==
    /\ closeReport.stage = "joined"
    /\ closeReport' = [closeReport EXCEPT
          !.stage = IF refusalPending THEN "reporting" ELSE "returned"]
    /\ UNCHANGED <<now, deadline, closing, built, outage, gateVars, replayVars, lossVars,
                   workerAt, inFlight>>

\* Then the client says so, and how many events stats() now shows as buffered.
ReportsRefusal ==
    /\ closeReport.stage = "reporting"
    /\ closeReport' = [closeReport EXCEPT
          !.stage = "returned", !.said = TRUE, !.undelivered = outage.events]
    /\ UNCHANGED <<now, deadline, closing, built, outage, gateVars, replayVars, lossVars,
                   workerAt, inFlight>>

StartDraining ==
    /\ workerAt = "waiting" /\ closing
    /\ workerAt' = "draining"
    /\ UNCHANGED <<clockVars, built, outage, gateVars, replayVars, lossVars, inFlight>>

DrainOneBatch ==
    /\ workerAt = "draining"
    /\ ~DeadlinePassed /\ ~stopSending
    /\ BuildBatch
    /\ SendPayload(NewSend, TRUE, "drainSending", "draining")
    /\ UNCHANGED <<clockVars, gateVars, replayVars, sendDropped, stopSending, delivered>>

\* The queue is empty, the time is up, or sending is off.
QueueDrained ==
    /\ workerAt = "draining"
    /\ workerAt' = "drainingBuffer"
    /\ UNCHANGED <<clockVars, built, outage, gateVars, replayVars, lossVars, inFlight>>

DrainGoesOn == outage.queue # << >> /\ ~stopSending /\ ~DeadlinePassed

\* The loop of _drain_retry_queue_on_close, up to its wait ...
DrainNext ==
    /\ workerAt = "drainingBuffer"
    /\ DrainGoesOn
    /\ outage' = Aged(outage)
    /\ IF Aged(outage).queue = << >>
       THEN workerAt' = "done" /\ recovery' = FALSE
       ELSE workerAt' = "drainWaiting" /\ UNCHANGED recovery
    /\ UNCHANGED <<clockVars, built, gateVars, nextReplay, lossVars, inFlight>>

\* ... or past it.
DrainDone ==
    /\ workerAt = "drainingBuffer"
    /\ ~DrainGoesOn
    /\ workerAt' = "done"
    /\ recovery' = (recovery /\ outage.queue # << >>)
    /\ UNCHANGED <<clockVars, built, outage, gateVars, nextReplay, lossVars, inFlight>>

DrainItem == OldestOf(outage.queue, Range(outage.queue))
DrainDue  == Larger(DrainItem.nextAttempt, nextReplay)

DrainReplay ==
    /\ workerAt = "drainWaiting"
    /\ now >= DrainDue
    /\ outage' = Taken(outage, DrainItem)
    /\ inFlight' = Replaying(DrainItem)
    /\ workerAt' = "drainReplaySending"
    /\ UNCHANGED <<clockVars, built, gateVars, replayVars, lossVars>>

\* A slip: the wait for a batch ends early only if sending is off.
DrainNeverGivesUp ==
    /\ workerAt = "drainWaiting"
    /\ now < DrainDue
    /\ stopSending
    /\ workerAt' = "done"
    /\ UNCHANGED <<clockVars, built, outage, gateVars, replayVars, lossVars, inFlight>>

\* _wait_until returns False: the deadline comes before the batch is due.
DrainGivesUp ==
    /\ workerAt = "drainWaiting"
    /\ now < DrainDue
    /\ DeadlinePassed
    /\ workerAt' = "done"
    /\ UNCHANGED <<clockVars, built, outage, gateVars, replayVars, lossVars, inFlight>>

-----------------------------------------------------------------------------
(***************************************************************************)
(* The answers of transport.send, and what the caller of _send_payload     *)
(* does with its result.                                                   *)
(***************************************************************************)
\* A replay that succeeds confirms recovery, until the buffer is empty.  A slip:
\* for ever.
RecoveryForever(accepted, buffer) == recovery \/ accepted

RecoveryAfter(accepted, buffer) == (recovery \/ accepted) /\ buffer.queue # << >>

\* A send that was accepted, or was not, is over.
SendOver(accepted) ==
    /\ inFlight' = Idle
    /\ \/ /\ workerAt = "sending" /\ workerAt' = "replaying"
          /\ UNCHANGED replayVars
       \/ /\ workerAt = "drainSending" /\ workerAt' = "draining"
          /\ UNCHANGED replayVars
       \/ /\ workerAt = "replaySending" /\ workerAt' = "waiting"
          /\ nextReplay' = now + ReplayInterval
          /\ recovery' = RecoveryAfter(accepted, outage')
       \/ /\ workerAt = "drainReplaySending" /\ accepted /\ workerAt' = "drainingBuffer"
          /\ nextReplay' = now + ReplayInterval
          /\ recovery' = TRUE
       \/ /\ workerAt = "drainReplaySending" /\ ~accepted /\ workerAt' = "done"
          /\ UNCHANGED replayVars

Sending == inFlight # Idle

\* A batch that gets through settles the refusal of the key.  A slip: it does not.
StillRefusedForever == refusalPending

StillRefused == FALSE

Accepted ==
    /\ Sending
    /\ delivered' = delivered \cup {inFlight.batch}
    /\ refusalPending' = StillRefused
    /\ transientAttempt' = 0
    /\ nextSend' = 0
    /\ heldUntil' = 0
    /\ UNCHANGED outage
    /\ SendOver(TRUE)
    /\ UNCHANGED <<clockVars, built, sendDropped, stopSending, destroyed>>

\* _note_transient_failure and _enqueue_retry: a retryable status, or no answer.
TransientFailure(after) ==
    /\ Sending
    /\ transientAttempt' = transientAttempt + 1
    /\ \E d \in BackoffDelays(transientAttempt + 1) : nextSend' = now + Larger(d, after)
    /\ heldUntil' = now + after
    /\ \E d \in RetryDelays(inFlight.attempt) :
          outage' = Enqueued(outage,
                             RetryBatch(inFlight, inFlight.attempt, now + Larger(d, after)))
    /\ SendOver(FALSE)
    /\ UNCHANGED <<clockVars, built, refusalPending, lossVars>>

\* A refused key inside the startup grace: every send waits for the retry.
InGrace == now < GraceUntil /\ ~ClientKey

RefusedInGrace(after) ==
    /\ Sending
    /\ InGrace
    /\ LET next == now + Larger(GraceRetryInterval, after)
       IN /\ nextSend' = next
          /\ heldUntil' = next
          /\ outage' = Enqueued(outage, RetryBatch(inFlight, inFlight.attempt, next))
    /\ refusalPending' = TRUE
    /\ SendOver(FALSE)
    /\ UNCHANGED <<clockVars, built, transientAttempt, lossVars>>

\* Outside it, and for a terminal answer that is not about the key at any time,
\* sending ends for good, and the batch with it.
Stopped(aboutKey) ==
    /\ Sending
    /\ ~(aboutKey /\ InGrace)
    /\ stopSending' = TRUE
    /\ destroyed' = destroyed \cup {inFlight.batch}
    /\ UNCHANGED outage
    /\ SendOver(FALSE)
    /\ UNCHANGED <<clockVars, built, gateVars, sendDropped, delivered>>

\* _record_send_loss: any other failure.
PermanentFailure ==
    /\ Sending
    /\ sendDropped' = sendDropped + EventCount[inFlight.batch]
    /\ UNCHANGED outage
    /\ SendOver(FALSE)
    /\ UNCHANGED <<clockVars, built, gateVars, stopSending, delivered, destroyed>>

-----------------------------------------------------------------------------
Tick ==
    /\ now < MaxTime
    /\ now' = now + 1
    /\ UNCHANGED <<deadline, closing, closeReport, built, outage, gateVars, replayVars, lossVars,
                   workerAt, inFlight>>

WorkerStep ==
    \/ FlushOneBatch \/ NothingToFlush \/ ReplayOne \/ NothingToReplay
    \/ StartDraining \/ DrainOneBatch \/ QueueDrained
    \/ DrainNext \/ DrainDone \/ DrainReplay \/ DrainGivesUp

Answer ==
    \/ Accepted
    \/ \E after \in RetryAfters : TransientFailure(after) \/ RefusedInGrace(after)
    \/ \E aboutKey \in BOOLEAN : Stopped(aboutKey)
    \/ PermanentFailure

CloserStep == Close \/ JoinEnds \/ ReadsRefusal \/ ReportsRefusal

Next == WorkerStep \/ Answer \/ CloserStep \/ Tick

Spec == Init /\ [][Next]_vars

\* The worker runs, its requests come back and time passes.
Fairness == WF_vars(WorkerStep) /\ WF_vars(Answer) /\ WF_vars(Tick)

FairSpec == Spec /\ Fairness

-----------------------------------------------------------------------------
(***************************************************************************)
(* Properties.                                                             *)
(***************************************************************************)
WorkerPlaces ==
    {"waiting", "sending", "replaying", "replaySending", "draining", "drainSending",
     "drainingBuffer", "drainWaiting", "drainReplaySending", "done"}

SendingPlaces == {"sending", "replaySending", "drainSending", "drainReplaySending"}

Item == [batch : Batches, attempts : Nat, nextAttempt : Nat, bufferedAt : 1..MaxTime]

Send == [batch : Batches, attempt : Nat, bufferedAt : 0..MaxTime]

\* Every variable has the type its Python counterpart has.
TypeOK ==
    /\ now \in 1..MaxTime
    /\ built \in 0..Cardinality(Batches)
    /\ outage \in [queue : Seq(Item), events : Int, bytes : Int, dropped : Nat]
    /\ {transientAttempt, nextSend, nextReplay, sendDropped, deadline,
        heldUntil} \subseteq Nat
    /\ {recovery, stopSending, refusalPending, closing} \subseteq BOOLEAN
    /\ workerAt \in WorkerPlaces
    /\ inFlight \in Send \cup {Idle}
    /\ closeReport \in [stage : {"joining", "joined", "reporting", "returned"},
                       drained : BOOLEAN, said : BOOLEAN, undelivered : Nat]
    /\ Sending <=> workerAt \in SendingPlaces
    /\ delivered \subseteq Batches /\ destroyed \subseteq Batches

Buffered == {x.batch : x \in Range(outage.queue)}
InFlight == IF Sending THEN {inFlight.batch} ELSE {}

\* The totals kept by _retry_append, _retry_take and _prune_expired are those of
\* the buffered batches, and all three bounds of the buffer hold at every moment,
\* through evictions, expiry and replays that fail and come back.  No batch is
\* buffered twice.
BufferInStep ==
    /\ Len(outage.queue) = Cardinality(Buffered)
    /\ outage.events = EventsIn(Range(outage.queue))
    /\ outage.bytes = BytesIn(Range(outage.queue))
    /\ Len(outage.queue) <= RetryQueueSize
    /\ outage.events <= BufferMaxEvents
    /\ outage.bytes <= BufferMaxBytes

\* The batches that are neither delivered nor still held, nor given up because
\* sending is off.
Lost == (1..built) \ (Buffered \cup InFlight \cup delivered \cup destroyed)

CountOf(batches) == MapThenSumSet(LAMBDA b : EventCount[b], batches)

\* Whatever the answers, expiry, eviction, replays and the two drains of a close do,
\* a batch has one fate and its loss is counted once; and nothing, buffered or new,
\* is delivered once the endpoint has turned sending off.
Custody == INSTANCE BatchCustody WITH
               held    <- Buffered \cup InFlight,
               givenUp <- destroyed,
               counted <- outage.dropped + sendDropped,
               stopped <- stopSending

KeepsCustody == Custody!Spec

\* When close() has waited for the worker to its end and says that the key was never
\* accepted, it is so: not all that was built got through.  The number it gives is what
\* was built and is not delivered, given up, or counted as dropped.  (Of a worker that
\* outlives the join, and may yet deliver what close() is about to report, nothing is
\* claimed.)
UndeliveredNamed ==
    [][closeReport'.said /\ ~closeReport.said /\ closeReport.drained =>
          /\ delivered # 1..built
          /\ closeReport'.undelivered =
                 CountOf(1..built) - CountOf(delivered \cup destroyed)
                     - outage.dropped - sendDropped]_vars

\* Recovery is confirmed only while there is a backlog to recover: an empty buffer
\* never carries it into the next outage, where it would suspend the age limit.
RecoveryMeansBacklog ==
    (workerAt = "waiting" /\ recovery) => outage.queue # << >>

\* Outside a close, no batch, live or replayed, is sent before the moment the last
\* answer asked for: Retry-After, or the grace's retry interval.
SendBegins == ~Sending /\ Sending'

WaitsAsAsked ==
    [][SendBegins /\ ~closing => now >= heldUntil]_vars

\* A full buffer gives up its oldest batches: what is dropped in a step is no
\* younger than what stays (_enqueue_retry_at, "evicting oldest-first when full").
EvictsOldest ==
    [][~SendBegins =>
          \A x \in Range(outage.queue) \ Range(outage'.queue),
             y \in Range(outage.queue) \cap Range(outage'.queue) :
                 x.bufferedAt <= y.bufferedAt]_vars

\* A close comes to an end even if every send fails or is refused.
DrainTerminates == closing ~> workerAt = "done"

-----------------------------------------------------------------------------
(***************************************************************************)
(* What a comment, docstring or test says and the code does not do.        *)
(***************************************************************************)
\* "A non-retryable response destroys the batch, so stats must say so"
\* (test_resilience.py): every batch that is gone is counted.
EveryLossCounted == outage.dropped + sendDropped = CountOf(Lost \cup destroyed)

=============================================================================
