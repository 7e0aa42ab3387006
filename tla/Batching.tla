------------------------------ MODULE Batching ------------------------------
(***************************************************************************)
(* How recorded events become one batch: the labels of a call              *)
(* (_labels.py, _series.py), readings of a total turned into counter       *)
(* deltas (_apply_total), and the reductions of BatchBuilder.  A reading   *)
(* is compared with the one before it, whatever batch that was in; a       *)
(* counter, a unique and a top event only with those of their own batch.   *)
(*                                                                         *)
(* The worker takes events in the order the queue holds them, which is any *)
(* order two threads can record them in: the event it takes next is any    *)
(* call the client accepts.                                                *)
(*                                                                         *)
(* The values of counters, totals and samples are floats.  Here they are   *)
(* numbers of a quantum, Unit of which make 1, so that a value can have a  *)
(* fraction; that a sum of floats is itself rounded is left out.  A value  *)
(* that is no number, or not a finite one, is refused like one below 0.    *)
(***************************************************************************)
EXTENDS Integers, Sequences, FiniteSets, FiniteSetsExt, Functions

CONSTANTS
    Calls,              \* metric calls the application makes
    LabelName,          \* name of each label token; tokens are ordered as bytes are
    ReservedName,       \* RESERVED_LABEL_NAME
    MaxLabels,          \* MAX_LABELS_PER_SERIES
    Unit,               \* the quanta that make 1
    MaxCounter,         \* MAX_COUNTER_VALUE, in quanta
    MaxSample,          \* MAX_SAMPLE_VALUE, in quanta
    MaxSeriesPerBatch,  \* DEFAULT_MAX_SERIES_PER_BATCH
    MaxTotalSeries,     \* DEFAULT_MAX_TOTAL_SERIES
    MaxEvents,          \* DEFAULT_MAX_BATCH_SIZE
    MaxBatches          \* bound of the model: batches begun in all

Tokens == DOMAIN LabelName

CounterKinds == {"counter", "total"}
ValueKinds   == {"value", "value_sparse", "success"}
Kinds        == CounterKinds \cup ValueKinds \cup {"unique", "top"}

ASSUME BatchingAssumption ==
    /\ Tokens \subseteq Nat
    /\ {MaxLabels, MaxCounter, MaxSample, MaxSeriesPerBatch, MaxTotalSeries,
        MaxEvents, MaxBatches} \subseteq Nat
    /\ Unit \in Nat \ {0}
    /\ \A c \in Calls :
          /\ c.kind \in Kinds
          /\ c.args \in Seq(Tokens)
          /\ c.at \in Nat
          /\ c.value \in IF c.kind \in {"unique", "top"} THEN {0} ELSE Int

VARIABLES
    totals,             \* _totals: the last reading of each series
    builder,            \* the BatchBuilder, and how many events it was built from
    begun,              \* number of batches begun
    batchSeq,           \* _batch_seq
    invalidDropped,     \* _invalid_dropped, as far as totals raise it
    added,              \* history: the events given to builder.add for this batch
    sent,               \* history: what finished batches carry for each counter series
    parts,              \* history: ... in how many counter events
    counted,            \* history: what count() was asked to add to each series
    readings            \* history: of each series with a total, what its readings did

vars == <<totals, builder, begun, batchSeq, invalidDropped,
          added, sent, parts, counted, readings>>

-----------------------------------------------------------------------------
(***************************************************************************)
(* The series of a call.                                                   *)
(***************************************************************************)
\* build_labels: two labels of one name, the reserved name and too many labels
\* are refused.
LabelsAccepted(args) ==
    /\ Len(args) <= MaxLabels
    /\ IsInjective([i \in DOMAIN args |-> LabelName[args[i]]])
    /\ \A i \in DOMAIN args : LabelName[args[i]] # ReservedName

\* A slip: labels keep the caller's order.  The runs find each of the slips of
\* this module.
UnsortedLabels(args) == args

\* ... and the rest is sorted, so that their order does not matter: the n-th label is
\* the one that n of them do not come after.
BuildLabels(args) ==
    LET tokens == Range(args)
    IN [n \in 1..Cardinality(tokens) |->
           CHOOSE t \in tokens : Cardinality({u \in tokens : u <= t}) = n]

\* series_key
SeriesOf(c) == [metric |-> c.metric, labels |-> BuildLabels(c.args)]

\* _valid_sample.  A reading has no ceiling of its own.
ValidSample(c) ==
    CASE c.kind = "counter"       -> c.value \in 0..MaxCounter
      [] c.kind \in ValueKinds    -> c.value \in 0..MaxSample
      [] c.kind = "total"         -> c.value >= 0
      [] OTHER                    -> TRUE

Event(c) == [kind |-> c.kind, series |-> SeriesOf(c), value |-> c.value,
             id |-> c.id, item |-> c.item, at |-> c.at]

Events == {Event(c) : c \in {x \in Calls : LabelsAccepted(x.args) /\ ValidSample(x)}}

\* Every series an event may belong to.
AllSeries == {e.series : e \in Events}

-----------------------------------------------------------------------------
(***************************************************************************)
(* BatchBuilder.                                                           *)
(***************************************************************************)
\* An index, or a table of the client, with one entry more.
WithEntry(table, key, entry) ==
    [k \in DOMAIN table \cup {key} |-> IF k = key THEN entry ELSE table[k]]

\* Payload() and the three indices, all empty.
EmptyBuilder ==
    [taken |-> 0,
     counters |-> << >>, values |-> << >>, uniques |-> << >>, tops |-> << >>,
     counterIndex |-> << >>, uniqueSeen |-> {}, topSeen |-> {}]

Raised(counter, e) ==
    [counter EXCEPT !.value = @ + e.value, !.at = IF e.at > @ THEN e.at ELSE @]

\* _add_counter.  Past the cap the index stops growing, the counters do not.
AddCounter(b, e) ==
    IF e.series \in DOMAIN b.counterIndex
    THEN [b EXCEPT !.counters[b.counterIndex[e.series]] = Raised(@, e)]
    ELSE [b EXCEPT
             !.counters = Append(@, [series |-> e.series, value |-> e.value, at |-> e.at]),
             !.counterIndex = IF Cardinality(DOMAIN @) < MaxSeriesPerBatch
                              THEN WithEntry(@, e.series, Len(b.counters) + 1)
                              ELSE @]

\* _add_unique
UniqueKey(e) == <<e.series, e.id>>

AddUnique(b, e) ==
    IF UniqueKey(e) \in b.uniqueSeen THEN b
    ELSE [b EXCEPT !.uniqueSeen = @ \cup {UniqueKey(e)},
                   !.uniques = Append(@, [series |-> e.series, id |-> e.id, at |-> e.at])]

\* A slip: a person counts once for the metric, whatever the item.
TopKeyOfPerson(e) == <<e.series, e.id, 0>>

\* _add_top
TopKey(e) == <<e.series, e.id, e.item>>

AddTop(b, e) ==
    IF TopKey(e) \in b.topSeen THEN b
    ELSE [b EXCEPT !.topSeen = @ \cup {TopKey(e)},
                   !.tops = Append(@, [series |-> e.series, id |-> e.id,
                                       item |-> e.item, at |-> e.at])]

\* Value samples are forwarded as they are.
AddValue(b, e) ==
    [b EXCEPT !.values = Append(@, [series |-> e.series, value |-> e.value, at |-> e.at,
                                    sparse  |-> e.kind = "value_sparse",
                                    success |-> e.kind = "success"])]

\* BatchBuilder.add
Add(b, e) ==
    CASE e.kind = "counter" -> AddCounter(b, e)
      [] e.kind = "unique"  -> AddUnique(b, e)
      [] e.kind = "top"     -> AddTop(b, e)
      [] OTHER              -> AddValue(b, e)

\* Payload.event_count
EventCount(b) == Len(b.counters) + Len(b.values) + Len(b.uniques) + Len(b.tops)

-----------------------------------------------------------------------------
Init ==
    /\ totals = << >>
    /\ builder = EmptyBuilder
    /\ begun = 1
    /\ batchSeq = 0
    /\ invalidDropped = 0
    /\ added = << >>
    /\ sent = [s \in AllSeries |-> 0]
    /\ parts = [s \in AllSeries |-> 0]
    /\ counted = [s \in AllSeries |-> 0]
    /\ readings = << >>

\* The next event of _build_payload's loop.
Takes(e) ==
    /\ builder.taken < MaxEvents
    /\ e \in Events

Adds(e) ==
    /\ builder' = [Add(builder, e) EXCEPT !.taken = @ + 1]
    /\ added' = Append(added, e)

AddsNothing ==
    /\ builder' = [builder EXCEPT !.taken = @ + 1]
    /\ UNCHANGED added

\* Any event but a reading of a total goes to the builder as it is.
TakeEvent(e) ==
    /\ Takes(e) /\ e.kind # "total"
    /\ Adds(e)
    /\ counted' = IF e.kind = "counter" THEN [counted EXCEPT ![e.series] = @ + e.value]
                                        ELSE counted
    /\ UNCHANGED <<totals, begun, batchSeq, invalidDropped, sent, parts, readings>>

(***************************************************************************)
(* _apply_total: a reading is a baseline, is refused, has fallen, or is a  *)
(* delta, which is a counter event unless it is 0 or too large.  The       *)
(* history of a series is its first and last reading, how many there were, *)
(* the sum of its falls, the sum and the number of its rises above the     *)
(* ceiling.                                                                *)
(***************************************************************************)
FirstReading(value) ==
    [first |-> value, last |-> value, number |-> 1,
     fallen |-> 0, oversize |-> 0, oversized |-> 0]

NextReading(r, value) ==
    LET large == value - r.last > MaxCounter
    IN [r EXCEPT !.last = value, !.number = @ + 1,
                 !.fallen    = IF value < r.last THEN @ + r.last - value ELSE @,
                 !.oversize  = IF large THEN @ + value - r.last ELSE @,
                 !.oversized = IF large THEN @ + 1 ELSE @]

TakesReading(e) ==
    /\ Takes(e) /\ e.kind = "total"
    /\ readings' = IF e.series \in DOMAIN readings
                   THEN [readings EXCEPT ![e.series] = NextReading(@, e.value)]
                   ELSE WithEntry(readings, e.series, FirstReading(e.value))
    /\ UNCHANGED <<begun, batchSeq, sent, parts, counted>>

Tracked(e) == e.series \in DOMAIN totals
Delta(e)   == e.value - totals[e.series]

Baseline(e) ==
    /\ TakesReading(e)
    /\ ~Tracked(e) /\ Cardinality(DOMAIN totals) < MaxTotalSeries
    /\ totals' = WithEntry(totals, e.series, e.value)
    /\ AddsNothing
    /\ UNCHANGED invalidDropped

\* A slip: only the first refusal of a series is counted.
TooManySeriesOnce(e) ==
    /\ TakesReading(e)
    /\ ~Tracked(e) /\ Cardinality(DOMAIN totals) >= MaxTotalSeries
    /\ invalidDropped' = IF e.series \in DOMAIN readings THEN invalidDropped
                                                        ELSE invalidDropped + 1
    /\ AddsNothing
    /\ UNCHANGED totals

TooManySeries(e) ==
    /\ TakesReading(e)
    /\ ~Tracked(e) /\ Cardinality(DOMAIN totals) >= MaxTotalSeries
    /\ invalidDropped' = invalidDropped + 1
    /\ AddsNothing
    /\ UNCHANGED totals

\* A slip: a reading that fell is ignored, as if it had come late.
FallenIgnored(e) ==
    /\ TakesReading(e)
    /\ Tracked(e) /\ Delta(e) <= 0
    /\ AddsNothing
    /\ UNCHANGED <<totals, invalidDropped>>

\* The source restarted, or nothing was added.
NotRisen(e) ==
    /\ TakesReading(e)
    /\ Tracked(e) /\ Delta(e) <= 0
    /\ totals' = [totals EXCEPT ![e.series] = e.value]
    /\ AddsNothing
    /\ UNCHANGED invalidDropped

DeltaTooLarge(e) ==
    /\ TakesReading(e)
    /\ Tracked(e) /\ Delta(e) > MaxCounter
    /\ totals' = [totals EXCEPT ![e.series] = e.value]
    /\ invalidDropped' = invalidDropped + 1
    /\ AddsNothing

Risen(e) ==
    /\ TakesReading(e)
    /\ Tracked(e) /\ Delta(e) \in 1..MaxCounter
    /\ totals' = [totals EXCEPT ![e.series] = e.value]
    /\ Adds([e EXCEPT !.kind = "counter", !.value = Delta(e)])
    /\ UNCHANGED invalidDropped

-----------------------------------------------------------------------------
PlacesOf(counters, s) == {i \in DOMAIN counters : counters[i].series = s}

CounterValue(counters, s) ==
    SumFunction([i \in PlacesOf(counters, s) |-> counters[i].value])

\* A slip: what goes on the wire is the whole part.
OnTheWireTruncated(value) == (value \div Unit) * Unit

\* round_away_from_zero: a counter goes on the wire as the nearest whole number, a half
\* upwards.
OnTheWire(value) == ((2 * value + Unit) \div (2 * Unit)) * Unit

WireValue(counters, s) ==
    SumFunction([i \in PlacesOf(counters, s) |-> OnTheWire(counters[i].value)])

\* A slip: the builder goes on to the next batch with the indices of this one.
BuilderReused(b) ==
    [EmptyBuilder EXCEPT !.counterIndex = b.counterIndex,
                         !.uniqueSeen = b.uniqueSeen, !.topSeen = b.topSeen]

\* Each batch is built by a new BatchBuilder.
NextBuilder(b) == EmptyBuilder

\* build() and _next_batch_id: a batch without events has no id and is not sent.  Each
\* counter is rounded when the batch is encoded, however often that is.
FinishBatch ==
    /\ builder.taken > 0
    /\ begun < MaxBatches
    /\ begun' = begun + 1
    /\ batchSeq' = IF EventCount(builder) = 0 THEN batchSeq ELSE batchSeq + 1
    /\ sent' = [s \in AllSeries |-> sent[s] + WireValue(builder.counters, s)]
    /\ parts' = [s \in AllSeries |-> parts[s] + Cardinality(PlacesOf(builder.counters, s))]
    /\ builder' = NextBuilder(builder)
    /\ added' = << >>
    /\ UNCHANGED <<totals, invalidDropped, counted, readings>>

Next ==
    \/ \E e \in Events :
          \/ TakeEvent(e) \/ Baseline(e) \/ TooManySeries(e)
          \/ NotRisen(e) \/ DeltaTooLarge(e) \/ Risen(e)
    \/ FinishBatch

Spec == Init /\ [][Next]_vars

-----------------------------------------------------------------------------
(***************************************************************************)
(* Properties.                                                             *)
(***************************************************************************)
Counter == [series : AllSeries, value : Nat, at : Nat]

\* Every variable has the type its Python counterpart has.
TypeOK ==
    /\ DOMAIN totals \subseteq AllSeries /\ Range(totals) \subseteq Nat
    /\ builder.taken \in 0..MaxEvents
    /\ builder.counters \in Seq(Counter)
    /\ DOMAIN builder.counterIndex \subseteq AllSeries
    /\ Range(builder.counterIndex) \subseteq DOMAIN builder.counters
    /\ {begun, batchSeq, invalidDropped} \subseteq Nat
    /\ Len(added) <= builder.taken
    /\ {sent, parts, counted} \subseteq [AllSeries -> Nat]
    /\ DOMAIN totals \subseteq DOMAIN readings

\* What has been measured of a series, over the life of the client: the amounts
\* counted, and how far its total has risen.  A reading below the one before is
\* taken for a restart: its fall is added, and so is that of a reading two threads
\* queued in the wrong order.  A delta above the ceiling is not reported.
RisenBy(s) ==
    IF s \notin DOMAIN totals THEN 0
    ELSE LET r == readings[s] IN r.last - r.first + r.fallen - r.oversize

\* How far what the counters of a series have reported is from what was measured.
Discrepancy(s) ==
    sent[s] + CounterValue(builder.counters, s) - counted[s] - RisenBy(s)

\* Across batches, caps and restarts, what the counters of a series have reported is
\* what was measured, but for a half at most, either way, for each counter event that
\* was rounded for the wire (_apply_total, _add_counter, round_away_from_zero).
ReportedIsMeasured ==
    \A s \in AllSeries :
        2 * Discrepancy(s) \in -(Unit * parts[s])..(Unit * parts[s])

\* A reading that is not reported is counted as dropped: those of the series past
\* the limit, all of them and for ever, and the rises above the ceiling.
Unreported(s) == IF s \in DOMAIN totals THEN readings[s].oversized ELSE readings[s].number

UnreportedCounted ==
    invalidDropped = SumFunction([s \in DOMAIN readings |-> Unreported(s)])

SeriesOfCounters(counters) == {counters[i].series : i \in DOMAIN counters}

SameLabels(s, t) == s.metric = t.metric /\ Range(s.labels) = Range(t.labels)

AddedAs(kinds) == {e \in Range(added) : e.kind \in kinds}

\* Of a series, the batch carries one counter event, stamped with the latest of those
\* it stands for, whatever the order in which calls name its labels; only a series
\* that came when the index was full has more.  (With the constants of the code a batch
\* is cut, at half as many series, before its index is full.)
OneEventPerSeries ==
    LET counters == builder.counters
        Stamps(s) == {e.at : e \in {x \in AddedAs({"counter"}) : SameLabels(x.series, s)}}
    IN /\ \A i, j \in DOMAIN counters :
             i < j /\ SameLabels(counters[i].series, counters[j].series) =>
                Cardinality(SeriesOfCounters(SubSeq(counters, 1, i - 1))) >= MaxSeriesPerBatch
       /\ \A c \in Range(counters) :
             c.series \in DOMAIN builder.counterIndex => c.at = Max(Stamps(c.series))

\* The reductions keep the meaning of the stream: each person, and each person and
\* item, of this batch is in it exactly once, whatever earlier batches carried, and
\* every sample is in it in the order it was recorded.
ReducedFaithfully ==
    LET people  == {<<e.series, e.id>> : e \in AddedAs({"unique"})}
        choices == {<<e.series, e.id, e.item>> : e \in AddedAs({"top"})}
        samples == {i \in DOMAIN added : added[i].kind \in ValueKinds}
        sample(i) == builder.values[Cardinality({j \in samples : j <= i})]
    IN /\ {<<u.series, u.id>> : u \in Range(builder.uniques)} = people
       /\ Len(builder.uniques) = Cardinality(people)
       /\ {<<t.series, t.id, t.item>> : t \in Range(builder.tops)} = choices
       /\ Len(builder.tops) = Cardinality(choices)
       /\ Len(builder.values) = Cardinality(samples)
       /\ \A i \in samples :
             /\ sample(i).series = added[i].series
             /\ sample(i).value = added[i].value

-----------------------------------------------------------------------------
(***************************************************************************)
(* What a docstring says and the code does not do.                         *)
(***************************************************************************)
\* "The protocol's counter ceiling applies to the delta that goes on the wire"
\* (_apply_total): no counter of a batch is above it.
WireCountersWithinCeiling ==
    \A i \in DOMAIN builder.counters : builder.counters[i].value <= MaxCounter

=============================================================================
