# Formal models of prostometrics-python

TLA+ models of the metrics client in `src/src/prostometrics/`, checked with TLC
on small instances, and theorems about them proved with TLAPS for all instances.
The models follow the code. Where a comment, docstring or test promises
something the code does not do, a run shows the counterexample.

## 1. The system

An application thread records a metric; the client validates it and puts it in a
bounded queue. One background thread takes events out in batches, sends each
batch over HTTP, keeps what could not be sent in an *outage buffer* and replays
it later. `close()` stops recording and drains both. The transport numbers
series in a *dictionary* it shares with the ingest endpoint.

```
 metric calls --push--> queue --take_events--> worker --send--> transport --HTTP--> endpoint
 (any thread)            ^  |                   |    ^             |
                         put back               v    | replay      dictionary
 close() --flags, wake, deadline, join-->     outage buffer
 fork()  --new queue, new session, new worker in the child
```

### Components

| Component | State | Operations | Modelled by |
|---|---|---|---|
| Event queue and flush (`_ring_buffer.py`, `_client.py`) | queue under `_lock`; `_queue_dropped`; wake event | push, shift, put back; flush; worker loop | `EventQueue`, `FifoHandoff` |
| Shutdown (`_client.py`) | `_closing`, `_closed`, `_close_deadline_ms`, the worker thread | `close`, drain of the queue, drain of the buffer, report of a refused key | `EventQueue`, `OutageBuffer`, `Lifetime` |
| Sending and outage buffer (`_client.py`) | buffer and its running totals, backoff, replay gate, recovery flag, grace, `_stop_sending` | `_send_payload`, `_enqueue_retry_at`, `_prune_expired`, `_flush_retry_queue` | `OutageBuffer`, `BatchCustody` |
| Series dictionary (`_dictionary.py`, `_transport.py`) | session id, revision, series in order | encode, roll back, restart, reset after fork | `Dictionary` |
| Batch building and totals (`_batch_builder.py`, `_apply_total`, `_labels.py`, `_series.py`) | counters, seen ids, last totals | aggregate, de-duplicate, convert | `Batching` |
| Metric calls, value rate limiter, drop log (`_client.py`, `_value_rate_limiter.py`) | window and count of a second, drop counters, moments of warnings | `count`, `count_unique`, `value`, ..., `allow`, `_record_drop` | `Recording` |
| Fork and lifetime (`_fork.py`, `_client.py`) | registry, handlers; per process: client, worker, locks, session prefix | register, rebuild in the child, flush at exit | `Lifetime`; the dictionary's part in `Dictionary` |
| HTTP connection (`_transport.py`) | one connection per process | connect, request, answer, drop, let go in a child | `Connection` |
| Default client (`__init__.py`) | a client and a lock | `init`, `default` | not modelled, see section 6 |
| Validation of text, compression, configuration, keys, errors | none, or constants | checks at a call or at construction | not modelled, see section 6 |

### Interactions and what is hard

- *Threads.* The queue is under a lock, but the lock is released between taking a
  run of events and putting back what does not fit. The flags of a close are read
  and written without it.
- *Wake event.* The worker waits, clears, checks; a closer sets the flag, then the
  event. The order on both sides is what makes a close seen.
- *Time.* Three gates decide when a send may begin; a deadline bounds a close; the
  buffer has an age limit that recovery suspends; a new key has a grace.
- *Failure.* A send ends in success, a retryable failure, a refused key, a terminal
  answer or a permanent failure, at any point of a flush, a replay or a drain.
- *The network.* A request can be lost before the endpoint sees it, or its answer
  after. The client cannot tell, and rolls its dictionary back either way.
- *Processes.* A fork copies the client in the middle of anything.

### What makes each component correct

- Queue: accepted events leave in order, none lost or duplicated; memory is bounded;
  a close is not slept through; a drain covers what was accepted before it.
- Shutdown: it returns even if a request hangs; it closes the transport only when no
  one uses it; it delivers what it has time for.
- Outage buffer: bounds hold, totals are right, a batch is in one place, what is lost
  is counted, the oldest goes first, the endpoint's wishes are respected.
- Dictionary: an event is never attributed to another series.
- Batch building: what is reported is what was measured, but for rounding on the wire,
  whatever is aggregated.
- Metric calls: each is queued or counted as dropped; samples are capped; losses are
  announced, not too often and not too late.
- Lifetime: a child is a working client that shares nothing with its parent; an event is
  stored once, and stored if a 2xx says so; an orderly exit delivers or accounts for what
  was recorded.
- Connection: the answer a request gets is its own.

The list of hazards, each at its line with the properties that cover it, is in
`PROJECT.json`.

## 2. Modules

| Module | What it is |
|---|---|
| `FifoHandoff` | Abstract specification: accepted events stand in one line and are handed over from its front. |
| `EventQueue` | The queue, recording threads, the worker loop and `close()`, at the grain of lock regions and accesses to shared flags. |
| `BatchCustody` | Abstract specification: a batch is held until it is delivered, dropped and counted, or given up, and nothing is delivered once sending is off. |
| `OutageBuffer` | Sending, backoff, grace, outage buffer, replay, the two drains and what `close()` says, under a clock. |
| `Dictionary` | The dictionary in each process, `HTTPTransport.send` and the endpoint. |
| `Recording` | Metric calls on several threads: flags, cap, push, drop counters and warnings. |
| `Batching` | From recorded events to batches: series, totals, `BatchBuilder`. |
| `Connection` | The reused HTTP connection of each process, its sockets and the endpoint's store. |
| `Lifetime` | `Connection` composed with the client's life: creation, registration, fork, close, exit. |
| `EventQueueProofs`, `OutageBufferProofs`, `DictionaryProofs`, `RecordingProofs`, `BatchingProofs`, `LifetimeProofs` | Theorems about the module of that name, with its inductive invariant; `LifetimeProofs` has those of `Connection` too. |
| `Sums` | Lemmas about sums over finite sets and functions, and about members of finite sets in their order. |
| `MCEventQueue`, `MCOutageBuffer`, `MCDictionary`, `MCRecording`, `MCBatching`, `MCLifetime` | Values of constants and symmetry for TLC. |

Each module keeps in detail what it is about and leaves the rest open. `Recording` ends
where an event is pushed, `EventQueue` begins there; `EventQueue` hands a run of events
over, `Batching` turns runs into batches, `OutageBuffer` takes a batch from the moment it
is built, `Dictionary` and `Connection` from the moment it is sent; `Lifetime` has all of
that once more, coarsely, in each process.

### EventQueue

`producerAt`, `workerAt` and `closerAt` say where each thread is. An action is one
region under `_lock`, or one access to shared state outside it, so TLC
interleaves threads wherever Python can.

| Code | Actions |
|---|---|
| `_enqueue` 410, 445-454, 463 | `CheckFlags`, `Push`, `Notify` |
| `_worker_loop` 524-529 | `Woken` / `IntervalOver`, `ClearWake`, `CheckClosing` |
| `_take_events` 546-549, 557-574 | `Shift`, `PutBack` |
| `_send_payload`, `_flush_retry_queue` | `Send`, `Replay`: left open, may set `_stop_sending` |
| `_drain_on_close` 931-937 | `DrainGoesOn`, `DrainEnds`, `DrainBuffer` |
| `close` 329-360 | `CallClose`, `SetDeadline`, `SetClosing`, `WakeWorker`, `Joined` / `JoinTimesOut`, `SetClosed`, `CloseTransport`; `Elapse` is time passing |

An event carries who recorded it, a sequence number and a *kind*: a series and a
size, all that cutting a batch looks at. Invalid events never reach the
queue; validation is the gap between `CheckFlags` and `Push`. The deadline is
modelled as the closer whose timeout it is; `elapsed` holds the closers whose
timeout is over. `handed` and `acceptedAtClose` are history.

### OutageBuffer

A step is what the worker does between two points at which time can pass: a wait
or a request. `now` is the monotonic clock, in units a reader may take for
seconds; `Tick` advances it at any moment, so a request takes any time.
`outage` holds the buffer with the running totals the code keeps, computed the
way the code does (`Taken`, `Without`, `Appended`), and `BufferInStep` compares
them with the contents. The answers `Accepted`, `TransientFailure`,
`RefusedInGrace`, `Stopped` and `PermanentFailure` come in any order, `Retry-After`
included; `SendOver` is what each of the four callers of `_send_payload` does next.
Jitter is a choice. `delivered`, `destroyed` and `heldUntil` are
history. The queue is open: a flush finds a batch or does not. One `close()` is
modelled here; several are the business of `EventQueue`.

What `close()` says of a key that is still refused is three steps, as its code is. `JoinEnds`
is the join, which ends with the worker or `JoinMargin` after the deadline. `ReadsRefusal`
reads `_auth_refusal_pending`, without the lock (`_client.py:369`). `ReportsRefusal` takes
`stats()` under it and speaks (372). A worker that outlives the join goes on between them.
`closeReport` holds the stage, whether the worker had ended at the join, and the number of
buffered events that is named (the events in the queue, which it adds, are not in this module).

`KeepsCustody` maps the state to `BatchCustody`: held is buffered or in flight, counted is
`_retry_dropped + _send_dropped`, given up is `destroyed`, stopped is `_stop_sending`. Every
step is then one of five: a batch is built, is delivered, is given up, ends sending, or
some held ones are dropped and counted.

### Dictionary

A batch is the set of series it mentions; encoding numbers the new ones in any
order (the code: in order of the payload). Numbers start at 1 (the code: 0), and a
session id is the number of sessions opened so far, so that ids are never equal, as
random 128-bit ids are assumed not to be. `request[p]` is the one request the process
waits for; the retry after 409 is the same variable with `forced` set. A rollback
happens on every exception (`RollBack`), a new session on 413, on 409 and on a
full dictionary.

The endpoint is *external*: it takes definitions as replacing what it had (as the
test server in `tests/conftest.py` resolves them), refuses a request it cannot
resolve, and may forget a session at any time. `AnswerLost` is a request processed
whose answer does not arrive or is an error, `NotProcessed` one that never got that
far, and either way the client rolls back. A request that was given up is not processed
later than that: see the end of section 3.

### Recording

`thread[t]` is where a thread is in a call and with which call: its kind and what is
wrong with it (`Faults`), decided when the call is made. A step is an unsynchronised read
of the flags (`AllowFlags`, `Check`) or a region under the lock (`Limit`, `Push`,
`RecordDrop`). `limiter` is `ValueRateLimiter`, with `Window` and `Allows` its two branches.
The four `Reasons` stand for eight: those of a call that is invalid in itself share one
counter and one path. `off` is the disjunction of the three flags that end recording,
each of which stays set once set. `LossAnnounced` names the thread whose call gives its event
up: the warning it asks for is one of the reason of that very call.

### Batching

`TakeEvent`, `Baseline`, `TooManySeries`, `NotRisen`, `DeltaTooLarge` and `Risen` are the
branches of the loop in `_build_payload`, with those of `_apply_total`; `FinishBatch` ends a batch and
begins the next with a new builder, while `totals` lives on. Values are floats in the code
and numbers of a quantum here, `Unit` of which make 1, so they have fractions; that a sum
of floats is itself rounded is left out. `OnTheWire` is `round_away_from_zero`: each counter
of a batch goes out as the nearest whole number, a half upwards. `AddCounter`, `AddUnique`,
`AddTop` and `AddValue` are the builder's. A label is a token with a name; tokens are
numbers in the order in which the code sorts them. `builder` is a record of the lists and indices
of `BatchBuilder`, the counter index a function from series to positions.
`readings` remembers the first and last reading of a series, its falls, and its rises
above the ceiling; `counted` what `count()` was asked to add, `sent` what was sent and `parts` in
how many counters. From these `ReportedIsMeasured` says what must have been reported: what
was measured, but for half a unit, either way, for each counter sent. It is no closer:
`count(x, 0.4)` once a batch is reported as 0 for ever, and counted nowhere.

### Connection and Lifetime

A socket carries requests and answers in order and may outlive the connection that wrote
on it: a request that was given up may still be stored later. `Ended` is `connection.close()`,
which ends the socket for every holder of its descriptor (over TLS it sends a record);
`ForkConnection` detaches the descriptor instead. The socket, `http.client` and the
endpoint are *external*; that the endpoint answers a known batch id from the outcome it
kept is what `_session_prefix` says of it. An outcome says which events of the batch were *lost*:
a 2xx can carry losses (`_transport.py:265-281`), so `Store` takes any part of a batch, its answer
says which part it did not take, and `Recall` answers the batch sent again with the same. `Restate` is the
second sending after a 409, inside the same `send`.

`Lifetime` has a client in each process with its lock, queue, session prefix, batch counter
and the batches it *holds*: made and not settled, in the outage buffer or being sent. `phase` is where its
worker is: in the ticks of its loop, or after a close in the drain of the queue ("drain"), of
the buffer ("replay"), or past it because a replay failed ("over"). A tick flushes, then replays,
and looks at neither `_closing` nor the deadline, so it may outlast the close that waited for it; the drains look
before each batch. A deadline matters only when someone looks: `late` holds the processes
where a drain or a join found it passed. A batch that is not delivered may stay held, or be
dropped, for itself or for another the buffer prefers (`NotDelivered`, `FlushBuffers`, `Prune`);
what the code then counts or warns of is in `reported`. After a terminal answer (`StopIngest`,
`stopped`) batches are destroyed and nothing is said (`FlushDiscards`).

`Register` and `InstallHandlers` are the two halves of `register`: the
installation is claimed under the lock and done after it. `other` is a thread that
registers another client at the same time. `Fork` may happen whenever the
handler that takes the registry's lock lets it, in the middle of a metric call, a request
or a close; `Copied` is what a child has if nothing is rebuilt, `Rebuilt` what
`_reinit_after_fork` makes of it. `bare` remembers children forked after the installation
was claimed and before it was done. The exit handler closes the client that is open. A process
that is killed takes no further step.

## 3. Runs

| Run | Shows | States |
|---|---|---|
| `EventQueue` | `QueueOvershoot`, `CloseIsSeen`, `DrainCovers`, `TransportClosedLast`; `HandsOverInOrder`: `EventQueue` implements `FifoHandoff` | 780 000 |
| `EventQueueLive` | `CloseReturns`: two concurrent closers both return though the worker may hang; `EverythingHanded`: with a worker that does not, each accepted event is handed over unless a close or a stop intervenes | 112 000 |
| `OutageBuffer` | `BufferInStep`, `RecoveryMeansBacklog`, `WaitsAsAsked`, `EvictsOldest`; `UndeliveredNamed`: what a close says of a refused key, once it has waited for the worker to end, is so; `KeepsCustody`: `OutageBuffer` implements `BatchCustody`, so a batch has one fate and its loss is counted once | 4 200 000 |
| `OutageBufferDrain` | `DrainTerminates`: a close ends whatever the answers | 62 000 |
| `Dictionary` | `AttributedRight`, `DictionaryAgrees`, `SessionsNotShared`, `RestartResolves`, `DictionaryBounded` | 980 000 |
| `Recording` | `EveryCallAccounted`; `CapPerSecond` and `RefusedOnlyAtCap`: the cap from both sides; `WarningsPaced` and `LossAnnounced`: warnings neither flood nor fall silent, reason by reason | 1 020 000 |
| `Batching` | `ReportedIsMeasured`: the counters on the wire are what was measured, to half a unit for each; `UnreportedCounted`: readings that are not reported are counted; `OneEventPerSeries`, `ReducedFaithfully` | 250 000 |
| `Lifetime` | `StoredOnce`, `AnswerIsMine`; `SocketsNotShared`, `NotTornDown`, `ChildIsHealthy`, all three but for bare children; `OrderlyExitDelivers`: all that was recorded is stored or reported lost, unless the drain was cut short | 1 700 000 |

Runs that find what the text beside the code says violated:

| Run | Text | What happens |
|---|---|---|
| `EventQueueStranded` | `close()` "blocks until the queue and the outage buffer are drained or timeout elapses" | A call past its flag check pushes after the drain; its event stays in the queue of a closed client. |
| `OutageBufferUncounted` | "A non-retryable response destroys the batch, so stats must say so" | The stop path destroys batches no counter counts. Every other loss is counted: `KeepsCustody`. |
| `BatchingCeiling` | "The protocol's counter ceiling applies to the delta that goes on the wire" | Events of a series are summed without a ceiling, so a counter on the wire may be above it. |
| `RecordingRaises` | "Metric methods never raise" | A digit string longer than `int()` accepts raises `ValueError` out of `count_unique` and `count_top`. |

Some smaller disagreements have no run of their own. A second `close()` overwrites the
deadline of the first. The close-time replay ends at the first failure, with time left.
The drain of a close ignores the grace's interval, so a refused key is tried again by each
batch (`WaitsAsAsked` holds outside a close). The recovery flag carries over to batches
buffered in a later outage while the buffer is not empty, and suspends their age limit;
`RecoveryMeansBacklog` says only that an empty buffer ends it.
The number in the warning about a refused key leaves out the batch a terminal answer destroyed.
After a join that timed out the worker may still deliver between the two reads of that warning, which
then says of an accepted key that it never was: `UndeliveredNamed` speaks of a completed join only.
Fractions of counters are rounded once a batch, and what rounding takes is counted nowhere.
A child forked while the handlers are being installed (`bare`) has its parent's connection and session,
no worker, and a `close()` that ends the connection of both: the three properties about
processes except it, because they are false of it.

One branch the code cannot reach with its own constants: a batch is cut at 1024 distinct series and the
index of the builder has room for 2048, so no series finds it full. `OneEventPerSeries` is
checked and proved with it all the same, since the two limits are set apart from one another.

Two more sentences do not hold to the letter and have a property that says what does.
"Bounded FIFO queue that refuses new items when full" (`_ring_buffer.py`): a put-back may
exceed the capacity, by no more than `QueueOvershoot` allows. "The server has never seen
them" (`rollback_dictionary`): if only the answer was lost it has, and the client gives
the same numbers to other series; `AttributedRight` shows that this is harmless, because
the next request defines them anew.

That argument needs requests of a session to be processed in order. A request that
timed out and is processed after its successor would redefine numbers already in use.
Whether the endpoint guards against it, by revision or by batch id, is not in this
repository: the model assumes it.

Each property has a slip in its module, a definition beside the real one with a
plausible bug in it (`PutBackAtTail`, `ClearAfterTick`, `KeptAll`, ...), that breaks
it; `PROJECT.json` pairs them under `mutants`.

### Bounds

- `EventQueue`: a queue of two, batches of two, two producers with two calls each: a
  full queue, a put-back against a refilled queue, and events left behind a
  drain all happen. A long event fills a batch by its bytes; in `EventQueueLive` one
  series fills it. `MaxCalls` bounds the calls a producer makes.
- `OutageBuffer`: five batches against a buffer of two batches, four events and four bytes
  (counts 1, 2, 1, 3, 1; bytes 1, 1, 2, 3, 5). Three of them fit together but for their number, the
  fourth is too much beside the second for its events and beside the third for its bytes, and the
  fifth can never be buffered. So each of the three bounds is the one that evicts somewhere, one
  arrival evicts two, and one batch is refused; each of these was looked for and found.
  Age limit 2, backoff up to 2, grace 2, and a clock that stops at `MaxTime = 5`: expiry, and replay before and
  after it. A close has a timeout of 2, and a join that times out a unit later: a worker that
  delivers between the two reads of the report happens. `OutageBufferDrain` has a timeout of 1 or 3.
  The other runs use fewer batches.
- `Dictionary`: two processes, four series, batches of one or two, a limit of two
  series, two sessions (`MaxSessions`): enough for one restart, for a rolled-back number to be
  given to another series, and for a session that a fork could share.
- `Recording`: two threads, four calls, a cap of one sample per second, a second of two
  clock units, a queue of one, warnings two units apart, four units of time: two threads
  race for the last sample and the last place, two windows and two intervals pass.
- `Batching`: three events to a batch and two batches; series in two label orders, with two
  totals against a limit of one and two counters against an index of one; a ceiling of 2. Four
  quanta make 1, so counters and readings have quarters and halves, which are rounded both
  ways; readings rise, stay, fall and rise by more than the ceiling.
- `Lifetime`: a parent and a child, two events, two sockets: enough for a retry on a new
  connection, for a late answer, and for a batch of each process. More forks are left to
  the theorems of section 4. The constraint `Bounded` keeps what goes wrong small. *Troubles* are a
  passed deadline, a stopped client, an event reported lost, a 409, a bare child and a drain that
  failed: at most two at a time before a fork, one after it. After a fork, too, a
  child of a process without a client is left alone, one of the two events is not yet recorded once there
  is a passed deadline, a bare child or a lost event, and one of the two workers is in its ticks. Each
  trouble happens, alone and, before a fork, with another; the theorems have no such bound.
- Symmetry is used only where threads or series are interchangeable and no liveness
  is checked.

Deadlock is not checked: a client that is closed and whose events are all recorded has
nothing left to do, and bounded counters end the others.

### Fairness

- `CloserFairness`, in `FairSpec`: a thread inside `close()` is scheduled and its timeout passes.
  Nothing is assumed of the worker: `CloseReturns` holds with a worker stuck in a
  request.
- `WorkerFairness`, an assumption of `EverythingHanded` alone: the worker is scheduled, and a request comes back, since every one
  has a socket timeout (`DEFAULT_FLUSH_TIMEOUT_MS`). `IntervalOver` is part of it: a wait
  has the flush interval as its timeout. Producers get no fairness.
- `OutageBuffer`'s `Fairness`: the worker runs, requests come back, time passes.

## 4. Proofs

Every invariant, every action property without fairness and both refinements that the
passing runs check are also proved: for any number of threads, processes, batches, series
and calls, and any capacities, ceilings, delays and bounds. The assumptions are the named
ones of the modules (`QueueAssumption`, `BufferAssumption`, `DictionaryAssumption`,
`RecordingAssumption`, `BatchingAssumption`, `ConnectionAssumption`, `LifetimeAssumption`): the constants are natural
numbers, positive where the code's are, and the sets that are summed over are finite.
The bounds `MaxCalls`, `MaxTime`, `MaxSessions`, `MaxBatches`, `MaxSockets` are constants among
them, so the theorems hold however large they are.

Each module of proofs is laid out alike. No property is inductive alone; `IInv`, or the part
of it a theorem needs, is: the initial states have it, a lemma for each group of actions shows
that a step keeps it, and the theorems follow by temporal logic. What actions do to the
data stands apart, in lemmas about the operators.

### EventQueueProofs

| Theorem | Statement |
|---|---|
| `TypeCorrect`, `Invariance` | `[]TypeOK`, `[]IInv` |
| `QueueOvershootHolds`, `CloseIsSeenHolds`, `DrainCoversHolds`, `TransportClosedLastHolds` | the invariants of the run |
| `ImplementsFifoHandoff` | `Spec => HandsOverInOrder`, the refinement |

`IInv` adds

- `HeldOnlyInFlush`: events are out of the queue only while the worker measures or
  sends them, and at most one batch of them; with it, what is put back is bounded;
- `ClosingFirst`: the worker drains, and a closer waits, only after `_closing` is set;
- `SignalKept`: once a closer has set the wake event, it is set at every place from which
  the worker goes on to its wait without clearing it; this is `CloseIsSeen` made inductive;
- `NothingLost`: what was accepted when the close began is handed over or still in
  line, and the line is empty when a drain ends in time;
- `WorkerEnded`: a closer that goes on to close the transport has seen the worker end.

`SplitAt` (a sequence is its two halves), `ShiftCountBounds` and `BatchLengthBounds` (a batch
takes at least one event of a nonempty run, and no more than there are) are the facts about
data; the refinement needs that shifting and putting back leave `Pending` as it was.

### OutageBufferProofs

| Theorem | Statement |
|---|---|
| `TypeCorrect` | `[]TypeOK` |
| `TotalsInStep`, `RecoveryHasBacklog` | `[]BufferInStep`, `[]RecoveryMeansBacklog` |
| `AnswersWaitedOut`, `OldestEvicted`, `ReportIsRight` | the action properties `WaitsAsAsked`, `EvictsOldest`, `UndeliveredNamed` |
| `ImplementsBatchCustody` | `Spec => KeepsCustody`, the refinement |

`IInv` adds

- `Good`: the buffer holds no batch twice, its running totals are the sums over what it
  holds, and its bounds hold;
- `NotBoth`: a batch in flight is not in the buffer;
- `OneFate`: held, delivered and destroyed batches are disjoint, and the events of all
  the others are those counted as dropped. This is `BatchCustody` seen from the state, and the
  reason why the number in a report of a close is right;
- `PlacesAgree`: what each place of the worker implies of `closing`, of the buffer and of
  `_stop_sending`;
- `BacklogKept`: `RecoveryMeansBacklog` at the places between two looks at the buffer;
- `HeldBack`: the gate of the client is never before the moment the endpoint asked for;
- `Refused`: while a refusal is pending, not all that was built is delivered.

`ReportIsRight` adds `Joined` to it: a worker that had ended at the join does nothing more, so what the first
read saw is so at the second. `RecoveryHasBacklog` claims nothing of a buffer that
never runs empty: there the flag passes into the next outage.

`FateStep` says what any step does to the batches, in the words of `BatchCustody`: all the action
lemmas conclude it, so `OneFate`, the report and the refinement are shown once and not once per
action. The operators on the buffer (`Without`, `Appended`, `Taken`, ...) each keep `Good` and *follow*
the buffer before them: of what was there and what came, that which is not there afterwards is
counted. `only` selects by rank, so its result is a subsequence. `Doubled`, the
recursion of a delay, has a solution in the natural numbers (`DoubledNat`, by the least number
for which it would fail).

### DictionaryProofs

| Theorem | Statement |
|---|---|
| `TypeCorrect` | `[]TypeOK` |
| `NothingMisattributed`, `NumbersAgree`, `SessionsOwned`, `RestartsResolve`, `DictionariesBounded` | `AttributedRight`, `DictionaryAgrees`, `SessionsNotShared`, `RestartResolves`, `DictionaryBounded` |

`DictionaryAgrees` speaks of processes that wait for nothing, so it says nothing at the moments
that matter: between a request and its answer. `IInv` says what holds then. `RequestsFit`:
a request in flight means by every number what its dictionary does, and defines all numbers above its
snapshot. `SettledAgrees`: the numbers *below the snapshot* mean the same to the endpoint
as to the process, or its session is forgotten. A rollback then cuts the dictionary back to what is settled, a
success settles what the request defined, and a number given to another series after a rollback is
one the next request defines anew. `SessionsNotShared` is part of `IInv`: it is why the
requests of one process leave the numbers of another alone.

### RecordingProofs

| Theorem | Statement |
|---|---|
| `TypeCorrect` | `[]TypeOK` |
| `CallsAccounted` | `[]EveryCallAccounted` |
| `SamplesCapped`, `RefusalsJustified` | `[]CapPerSecond` and `RefusedOnlyAtCap` |
| `WarningsApart`, `LossesAnnounced` | `[]WarningsPaced` and `LossAnnounced` |

`EveryCallAccounted` is inductive with the types: a step moves one unit between its summands.
The cap needs `LimiterKept`: the limiter's count is the number of samples allowed in its
window, and its window is the latest second with an allowed sample or later. From it the second
half of `CapPerSecond` follows since any span of a second meets at most two windows. The warnings need `LogKept`: the
moment kept for a reason is that of its last warning. `LossesAnnounced` uses it for the reason of the
thread that takes the step, which it names.

### BatchingProofs

| Theorem | Statement |
|---|---|
| `TypeCorrect` | `[]TypeOK` |
| `TotalsReported`, `LossesCounted` | `[]ReportedIsMeasured`, `[]UnreportedCounted` |
| `CountersReduced`, `StreamKept` | `[]OneEventPerSeries`, `[]ReducedFaithfully` |

`IInv` adds `BuilderRight`, the agreement of the builder with the events it was given: an indexed
series is where the index says and carries the latest moment, and a series comes a second time
only if the first came when the index was full (`CountersRight`); a key is listed once, when first seen
(`PeopleRight`, `ChoicesRight`); sample number n is the n-th event of its kind (`ValuesRight`).
`ReadingsRight` ties the table of totals to the history of readings: a series is not in it
only if the table is full, and since it never shrinks, such a series stays out for ever, so that all its
readings are lost and counted. `AmountsInv` is `ReportedIsMeasured` without the history: adding an event moves
what the batch carries by as much as what was measured, and finishing a batch moves it by half a
unit at most for each counter in it (`SumNear` of `Sums`). Amounts are any numbers of quanta, so
nothing rests on whole values. Labels are sorted by their rank among themselves, so `BuildLabels` depends
only on the set of labels (`LabelsKept`): two calls are of one series exactly if they have
the same metric and labels.

### LifetimeProofs

| Theorem | Statement |
|---|---|
| `TypeCorrect` | `[]TypeOK` |
| `ChildrenAreHealthy` | `[]ChildIsHealthy` |
| `SocketsOwned`, `NoneTornDown` | `[]SocketsNotShared` and `NotTornDown` |
| `AnswersAreMine` | `[]AnswerIsMine` |
| `EventsStoredOnce` | `[]StoredOnce` |
| `OrderlyExits` | `[]OrderlyExitDelivers` |

The run has a parent and one child; the theorems hold for any number of forks, children
of children included. The invariant has five layers, each preserved with the help of those before:

1. `ProcessesInv`: what the state of a client implies of its worker, lock and session, what a child
   forked too early lacks, and that two clients with one session never both have a worker;
2. `ConnectionsInv`: a worker waits for a batch it holds, on a connection, and of the processes that
   have a socket one at most has a worker;
3. `SocketsInv`: on a socket that has not ended there is nothing but the request its
   worker waits for, or the answer to it, and an answer that accepts a batch says what the outcome of the
   batch does;
4. `BatchesInv`: batches that are still around, in a client or on any socket, are the same if
   their ids are, and share no event if not; their events are stored, once, if
   their outcome is known and does not say they are lost; an event in a queue is in no batch, and in the queue of one worker;
5. `PromisesInv`: an event recorded while a client was open is stored, reported lost, or *due*, that is in a queue
   its worker will yet flush or in a batch it holds, unless the drain was cut short: by its
   deadline, a replay that failed, or a terminal answer.

`SocketsOwned`, `NoneTornDown` and `ChildrenAreHealthy` are about processes that are not bare,
and `NoneTornDown` about sockets no bare child has: of the others they are false.

A late request of a dead connection is what makes the fourth layer long: a batch the client
has forgotten may still be stored.

### Sums

`SumFunction` and `SumFunctionOnSet` fold in an order that `CHOOSE` fixes. The module proves that the
order does not matter, and from that what a sum becomes when an argument is changed, added or removed. Induction
is over the subsets of a finite set: of the sets for which a statement fails there would
be a smallest one (`SmallestSubset`).

### Only model-checked

- `CloseReturns`, `EverythingHanded`, `DrainTerminates`: liveness rests on fairness and
  ENABLED, which are out of the prover's reach.
- The four disagreements of section 3: a counterexample is their proof.

## 5. Plan

The models cover what was planned, and what the prover can reach of their properties is
proved. Worth adding next:

1. `EverythingHanded` and `DrainTerminates` as far as safety goes: a measure that each step of
   a drain lowers (batches left in the buffer and time left to the deadline).
2. For `Recording` and `EventQueue` together, that what one calls queued is what the
   other accepts: a module that composes the two.
3. The default client of `__init__.py`, whose lock has no at-fork handler.

## 6. Not modelled

- The default client: `init()` creates a client, swaps it in under a lock and closes the one before; the
  module-level functions read it and forward. Its lock has no at-fork handler, unlike the
  registry's: see the hazard at `__init__.py:101`.
- Text: wire lines, label and name checks by character and byte, log messages, diagnostics.
  Whether a call is valid is an input of `Recording`.
- Compression, HTTP headers, TLS, parsing of answers: I/O whose result is one of the answers
  of `OutageBuffer`.
- Configuration and keys: checked once, when a client is made.
- Signal handlers and finalizers that record a metric while their own thread holds the client's lock,
  which is not reentrant: the models have no interrupt points.
- An exit while one of the process's clients is still being created.
