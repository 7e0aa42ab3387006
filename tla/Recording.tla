----------------------------- MODULE Recording -----------------------------
(***************************************************************************)
(* A metric call on the application's threads (_client.py): the check of   *)
(* an identifier, the cap on value samples (_value_rate_limiter.py), the   *)
(* checks of _enqueue, the push, and what is counted and said of a call    *)
(* that is dropped.  A step is what a thread does between two points at    *)
(* which another may run: an unsynchronised read of the client's flags, or *)
(* a region under the client's lock.                                       *)
(*                                                                         *)
(* The worker empties the queue and close() or a terminal answer turns     *)
(* recording off at any time: EventQueue and OutageBuffer have the detail, *)
(* and the wake-up of a full batch.                                        *)
(***************************************************************************)
EXTENDS Integers, SequencesExt

CONSTANTS
    Threads,            \* application threads
    MaxQueue,           \* DEFAULT_QUEUE_SIZE
    MaxPerSecond,       \* MAX_VALUE_EVENTS_PER_SECOND
    LogInterval,        \* LOCAL_DROP_LOG_INTERVAL_MS
    Second,             \* 1000: clock units in a second
    MaxCalls,           \* bound of the model: calls made in all
    MaxTime             \* bound of the model: the clock stops here

ASSUME RecordingAssumption ==
    /\ IsFiniteSet(Threads)
    /\ {MaxQueue, MaxPerSecond, MaxCalls} \subseteq Nat
    /\ {LogInterval, Second, MaxTime} \subseteq Nat \ {0}

VARIABLES
    now,                \* monotonic_ms(), from 1: 0 means "not set"
    off,                \* _closed, _closing or _stop_sending
    depth,              \* number of events in _queue
    limiter,            \* _value_rate_limiter
    dropped,            \* _queue_dropped, _invalid_dropped, _rate_limited_dropped
    dropLogAt,          \* _drop_log_at, 0 for a reason that has none
    thread,             \* where each thread is, and with which call
    calls,              \* history: calls made, and how those that are over ended
    allowedAt,          \* history: samples allowed at each moment
    warned              \* history: for each reason, when a warning was written

histVars == <<calls, allowedAt, warned>>
vars == <<now, off, depth, limiter, dropped, dropLogAt, thread, histVars>>

\* What a call may be: a sample is capped, a unique's identifier is checked first.
CallKinds == {"count", "sample", "unique"}

\* What may be wrong with it: nothing; an empty metric name; a metric, value or label
\* that is not valid; an identifier, or the item of a top, that is not.
Faults == {"none", "empty", "invalid", "badId"}

\* The drop reasons; "invalid" stands for those that depend on the call alone.
Reasons == {"queue_full", "value_rate_limit", "invalid", "invalid_unique_id"}

\* The counter a reason raises.
CounterOf(reason) ==
    CASE reason = "queue_full"       -> "queue"
      [] reason = "value_rate_limit" -> "rate"
      [] OTHER                       -> "invalid"

Idle == [at |-> "idle", kind |-> "none", fault |-> "none"]

Init ==
    /\ now = 1
    /\ off = FALSE
    /\ depth = 0
    /\ limiter = [window |-> -1, accepted |-> 0]
    /\ dropped = [c \in {"queue", "invalid", "rate"} |-> 0]
    /\ dropLogAt = [r \in Reasons |-> 0]
    /\ thread = [t \in Threads |-> Idle]
    /\ calls = [made |-> 0, queued |-> 0, ignored |-> 0, raised |-> 0]
    /\ allowedAt = [m \in 1..MaxTime |-> 0]
    /\ warned = [r \in Reasons |-> << >>]

At(t, place) == thread[t].at = place

Goes(t, place) == thread' = [thread EXCEPT ![t].at = place]

Returns(t) == thread' = [thread EXCEPT ![t] = Idle]

Ends(t, how) ==
    /\ Returns(t)
    /\ calls' = [calls EXCEPT ![how] = @ + 1]

-----------------------------------------------------------------------------
(***************************************************************************)
(* count, count_unique and value, up to the first flags they read.         *)
(***************************************************************************)
Makes == calls.made < MaxCalls

Begin(t, kind, fault) ==
    /\ At(t, "idle") /\ Makes
    /\ fault = "badId" => kind = "unique"
    /\ thread' = [thread EXCEPT ![t] =
          [at    |-> CASE kind = "sample"  -> "allowing"
                       [] fault = "badId"  -> "invalid_unique_id"
                       [] OTHER            -> "checking",
           kind  |-> kind,
           fault |-> fault]]
    /\ calls' = [calls EXCEPT !.made = @ + 1]
    /\ UNCHANGED <<now, off, depth, limiter, dropped, dropLogAt, allowedAt, warned>>

\* count_unique or count_top with an identifier of more digits than
\* sys.get_int_max_str_digits(): canonical_unique_id calls int() outside any try.
BeginRaises(t) ==
    /\ At(t, "idle") /\ Makes
    /\ calls' = [calls EXCEPT !.made = @ + 1, !.raised = @ + 1]
    /\ UNCHANGED <<now, off, depth, limiter, dropped, dropLogAt, thread, allowedAt, warned>>

\* _allow_value, up to the lock.  A call that is ignored is counted nowhere.
AllowFlags(t) ==
    /\ At(t, "allowing")
    /\ IF off \/ thread[t].fault = "empty"
       THEN Ends(t, "ignored")
       ELSE Goes(t, "limiting") /\ UNCHANGED calls
    /\ UNCHANGED <<now, off, depth, limiter, dropped, dropLogAt, allowedAt, warned>>

-----------------------------------------------------------------------------
(***************************************************************************)
(* ValueRateLimiter.allow                                                  *)
(***************************************************************************)
SecondOf(moment) == moment \div Second

\* What the limiter has left of the second a reading falls in.
Window(reading) ==
    IF SecondOf(reading) > limiter.window
    THEN [window |-> SecondOf(reading), accepted |-> 0]
    ELSE limiter

\* A slip: one sample too many.  The runs find each of the slips of this module.
AllowsOneMore(reading) ==
    /\ SecondOf(reading) >= limiter.window
    /\ Window(reading).accepted <= MaxPerSecond

Allows(reading) ==
    /\ SecondOf(reading) >= limiter.window
    /\ Window(reading).accepted < MaxPerSecond

\* A slip: the clock is read before the lock is taken, so another thread may have
\* begun a later second meanwhile.
StaleReadings == {now - 1, now} \ {0}

\* The clock is read under the lock.
ClockReadings == {now}

\* A reading from before the window is refused and leaves the window alone.
Limit(t) ==
    /\ At(t, "limiting")
    /\ \E reading \in ClockReadings :
          IF Allows(reading)
          THEN /\ limiter' = [Window(reading) EXCEPT !.accepted = @ + 1]
               /\ allowedAt' = [allowedAt EXCEPT ![now] = @ + 1]
               /\ Goes(t, "checking")
          ELSE /\ limiter' = Window(reading)
               /\ UNCHANGED allowedAt
               /\ Goes(t, "value_rate_limit")
    /\ UNCHANGED <<now, off, depth, dropped, dropLogAt, calls, warned>>

-----------------------------------------------------------------------------
(***************************************************************************)
(* _enqueue.  The flags are read again; a sample that turns out not to be  *)
(* valid has used its share of the second all the same.                    *)
(***************************************************************************)
Check(t) ==
    /\ At(t, "checking")
    /\ IF off
       THEN Ends(t, "ignored")
       ELSE /\ Goes(t, IF thread[t].fault = "none" THEN "pushing" ELSE "invalid")
            /\ UNCHANGED calls
    /\ UNCHANGED <<now, off, depth, limiter, dropped, dropLogAt, allowedAt, warned>>

\* Two slips: the moment is kept although nothing is written, so that a steady loss
\* is announced once; or is never kept.
LogMomentSliding(reason, logs) == [dropLogAt EXCEPT ![reason] = now]

LogMomentForgotten(reason, logs) == dropLogAt

LogMoment(reason, logs) ==
    IF logs THEN [dropLogAt EXCEPT ![reason] = now] ELSE dropLogAt

\* _should_log_drop_locked, and the warning that follows.
CountsDrop(reason) ==
    LET logs == dropLogAt[reason] = 0 \/ now - dropLogAt[reason] >= LogInterval
    IN /\ dropped' = [dropped EXCEPT ![CounterOf(reason)] = @ + 1]
       /\ dropLogAt' = LogMoment(reason, logs)
       /\ warned' = IF logs THEN [warned EXCEPT ![reason] = Append(@, now)] ELSE warned

\* A slip: the queue takes one event too many.
QueueFullLate(events) == events > MaxQueue

QueueFull(events) == events >= MaxQueue

\* The region that pushes the event, or counts that the queue is full.
Push(t) ==
    /\ At(t, "pushing")
    /\ \/ /\ ~QueueFull(depth)
          /\ depth' = depth + 1
          /\ Ends(t, "queued")
          /\ UNCHANGED <<dropped, dropLogAt, warned>>
       \/ /\ QueueFull(depth)
          /\ CountsDrop("queue_full")
          /\ Returns(t)
          /\ UNCHANGED <<depth, calls>>
    /\ UNCHANGED <<now, off, limiter, allowedAt>>

\* A slip: what is refused before _enqueue is dropped without a count.
RecordDropOfEvents(t) ==
    /\ thread[t].at \in Reasons
    /\ Returns(t)
    /\ IF At(t, "invalid") THEN CountsDrop("invalid")
                           ELSE UNCHANGED <<dropped, dropLogAt, warned>>
    /\ UNCHANGED <<now, off, depth, limiter, calls, allowedAt>>

\* _record_drop
RecordDrop(t) ==
    /\ thread[t].at \in Reasons
    /\ CountsDrop(thread[t].at)
    /\ Returns(t)
    /\ UNCHANGED <<now, off, depth, limiter, calls, allowedAt>>

-----------------------------------------------------------------------------
(***************************************************************************)
(* Around the threads: the worker takes events, recording is turned off    *)
(* for good, and time passes.                                              *)
(***************************************************************************)
TakeEvents ==
    /\ \E n \in 1..depth : depth' = depth - n
    /\ UNCHANGED <<now, off, limiter, dropped, dropLogAt, thread, histVars>>

TurnOff ==
    /\ ~off
    /\ off' = TRUE
    /\ UNCHANGED <<now, depth, limiter, dropped, dropLogAt, thread, histVars>>

Tick ==
    /\ now < MaxTime
    /\ now' = now + 1
    /\ UNCHANGED <<off, depth, limiter, dropped, dropLogAt, thread, histVars>>

Next ==
    \/ \E t \in Threads :
          \/ \E kind \in CallKinds, fault \in Faults : Begin(t, kind, fault)
          \/ BeginRaises(t)
          \/ AllowFlags(t) \/ Limit(t) \/ Check(t) \/ Push(t) \/ RecordDrop(t)
    \/ TakeEvents \/ TurnOff \/ Tick

Spec == Init /\ [][Next]_vars

-----------------------------------------------------------------------------
(***************************************************************************)
(* Properties.                                                             *)
(***************************************************************************)
Places == {"idle", "allowing", "limiting", "checking", "pushing"} \cup Reasons

\* Every variable has the type its Python counterpart has.
TypeOK ==
    /\ now \in 1..MaxTime
    /\ off \in BOOLEAN
    /\ depth \in 0..MaxQueue
    /\ limiter \in [window : Nat \cup {-1}, accepted : Nat]
    /\ dropped \in [{"queue", "invalid", "rate"} -> Nat]
    /\ dropLogAt \in [Reasons -> 0..now]
    /\ thread \in [Threads -> [at : Places, kind : CallKinds \cup {"none"}, fault : Faults]]
    /\ calls \in [made : Nat, queued : Nat, ignored : Nat, raised : Nat]
    /\ allowedAt \in [1..MaxTime -> Nat]
    /\ warned \in [Reasons -> Seq(Nat)]

InProgress == {t \in Threads : ~At(t, "idle")}

\* Every call that was made is queued, is counted as dropped by one counter, was
\* ignored because recording is off or a sample has no name, raised, or is still
\* under way (stats(), "queue depth, drops").
EveryCallAccounted ==
    calls.made = calls.queued + SumFunction(dropped) + calls.ignored + calls.raised
                 + Cardinality(InProgress)

AllowedBetween(first, last) ==
    SumFunction([m \in {x \in DOMAIN allowedAt : first <= x /\ x <= last} |-> allowedAt[m]])

\* No second of the clock carries more samples than the cap, and no other span of
\* a second more than twice as many: the windows are fixed, not sliding.
CapPerSecond ==
    \A m \in 1..MaxTime :
        /\ AllowedBetween(SecondOf(m) * Second, SecondOf(m) * Second + Second - 1)
              <= MaxPerSecond
        /\ AllowedBetween(m, m + Second - 1) <= 2 * MaxPerSecond

\* A sample is refused only if this second's share is used up, whichever threads
\* compete for it and in whatever order they reach the lock.
RefusedOnlyAtCap ==
    [][\A t \in Threads :
          (At(t, "limiting") /\ thread'[t].at = "value_rate_limit") =>
             AllowedBetween(SecondOf(now) * Second, now) >= MaxPerSecond]_vars

\* "Rate-limit drop warnings to one per reason per minute": two warnings of a reason
\* are an interval apart, whichever threads drop at the same moment.
WarningsPaced ==
    \A r \in Reasons : \A i \in 2..Len(warned[r]) :
        warned[r][i] - warned[r][i - 1] >= LogInterval

\* The reason for which a call gives its event up: a refusal is the place it is at.
ReasonOf(t) == IF At(t, "pushing") THEN "queue_full" ELSE thread[t].at

\* ... and no loss stays unsaid: a drop is counted, by the call that gives its event
\* up, no later than an interval after a warning of the very reason of that call.
LossAnnounced ==
    [][\A c \in DOMAIN dropped : dropped'[c] > dropped[c] =>
          \E t \in Threads :
             /\ thread'[t] # thread[t]
             /\ CounterOf(ReasonOf(t)) = c
             /\ warned'[ReasonOf(t)] # << >>
             /\ now - Last(warned'[ReasonOf(t)]) < LogInterval]_vars

-----------------------------------------------------------------------------
(***************************************************************************)
(* What a docstring says and the code does not do.                         *)
(***************************************************************************)
\* "Metric methods never raise" (class Client).
MetricCallsNeverRaise == calls.raised = 0

=============================================================================
