--------------------------- MODULE BatchingProofs ---------------------------
(***************************************************************************)
(* Proofs about Batching, for any calls, labels and limits: its type       *)
(* invariant, that what is reported is what was measured, that what is not *)
(* reported is counted, and that the reductions keep the meaning of the    *)
(* stream.                                                                 *)
(***************************************************************************)
EXTENDS Batching, Sums, SequenceTheorems

(***************************************************************************)
(* Labels.                                                                 *)
(***************************************************************************)
Sorted(tokens) ==
    [n \in 1..Cardinality(tokens) |->
        CHOOSE t \in tokens : Cardinality({u \in tokens : u <= t}) = n]

LEMMA RangeFinite ==
    ASSUME NEW S, NEW s \in Seq(S)
    PROVE  Range(s) \in SUBSET S /\ IsFiniteSet(Range(s)) /\ Cardinality(Range(s)) <= Len(s)
<1>1. DOMAIN s = 1..Len(s) /\ Len(s) \in Nat /\ \A i \in DOMAIN s : s[i] \in S
  BY ElementOfSeq
<1>2. IsFiniteSet(DOMAIN s) /\ Cardinality(DOMAIN s) = Len(s)
  BY <1>1, UpToFinite
<1>3. s \in [DOMAIN s -> Range(s)]
  BY DEF Range
<1>4. s \in Surjection(DOMAIN s, Range(s))
  BY <1>3 DEF Surjection, Range
<1>5. IsFiniteSet(Range(s)) /\ Cardinality(Range(s)) <= Cardinality(DOMAIN s)
  BY <1>2, <1>4, FS_Surjection
<1> QED
  BY <1>1, <1>2, <1>5 DEF Range

\* Sorting keeps the labels.
LEMMA LabelsKept ==
    ASSUME NEW args \in Seq(Tokens)
    PROVE  BuildLabels(args) = Sorted(Range(args)) /\ Range(BuildLabels(args)) = Range(args)
<1> DEFINE R == Range(args)
           k == Cardinality(R)
           At(n) == CHOOSE t \in R : Rank(R, t) = n
<1>1. BuildLabels(args) = Sorted(R)
  BY DEF BuildLabels, Sorted
<1>2. R \in SUBSET Nat /\ IsFiniteSet(R)
  <2>1. Tokens \subseteq Nat
    BY BatchingAssumption
  <2> QED
    BY <2>1, RangeFinite
<1>3. /\ k \in Nat
      /\ \A i \in R : Rank(R, i) \in 1..k
      /\ \A i, j \in R : Rank(R, i) = Rank(R, j) => i = j
      /\ \A n \in 1..k : \E i \in R : Rank(R, i) = n
  <2> HIDE DEF R
  <2> QED
    BY <1>2, RankIsBijective
<1>4. Sorted(R) = [n \in 1..k |-> At(n)]
  BY DEF Sorted, Rank
<1> HIDE DEF R, k
<1>5. \A n \in 1..k : At(n) \in R /\ Rank(R, At(n)) = n
  BY <1>3
<1>6. \A t \in R : \E n \in 1..k : At(n) = t
  BY <1>3, <1>5
<1> HIDE DEF At
<1>7. Range([n \in 1..k |-> At(n)]) = R
  BY <1>5, <1>6 DEF Range
<1> QED
  BY <1>1, <1>4, <1>7 DEF R

\* Two series with the same labels are one.
LEMMA OneSeries ==
    ASSUME NEW s \in AllSeries, NEW t \in AllSeries, SameLabels(s, t)
    PROVE  s = t
<1>1. \A c \in Calls : c.args \in Seq(Tokens)
  BY BatchingAssumption
<1>2. PICK c \in Calls : s = SeriesOf(c)
  BY DEF AllSeries, Events, Event
<1>3. PICK d \in Calls : t = SeriesOf(d)
  BY DEF AllSeries, Events, Event
<1>4. s.metric = t.metric /\ Range(s.labels) = Range(t.labels)
  BY DEF SameLabels
<1>5. s.labels = BuildLabels(c.args) /\ t.labels = BuildLabels(d.args)
  BY <1>2, <1>3 DEF SeriesOf
<1>6. /\ s.labels = Sorted(Range(c.args)) /\ Range(s.labels) = Range(c.args)
      /\ t.labels = Sorted(Range(d.args)) /\ Range(t.labels) = Range(d.args)
  BY <1>1, <1>5, LabelsKept
<1>7. s.labels = t.labels
  BY <1>4, <1>6
<1> QED
  BY <1>2, <1>3, <1>4, <1>7 DEF SeriesOf

(***************************************************************************)
(* Types.                                                                  *)
(***************************************************************************)
Ids   == {e.id : e \in Events}
Items == {e.item : e \in Events}

AnEvent == [kind : Kinds, series : AllSeries, value : Nat, id : Ids, item : Items, at : Nat]

LEMMA EventTypes ==
    ASSUME NEW e \in Events
    PROVE  e \in AnEvent
<1>1. PICK c \in {x \in Calls : LabelsAccepted(x.args) /\ ValidSample(x)} : e = Event(c)
  BY DEF Events
<1>0. c \in Calls /\ ValidSample(c)
  BY <1>1
<1>2. c.kind \in Kinds /\ c.value \in Nat /\ c.at \in Nat
  <2>1. ValidSample(c)
    BY <1>0
  <2>2. /\ c.kind \in Kinds /\ c.at \in Nat
        /\ c.value \in IF c.kind \in {"unique", "top"} THEN {0} ELSE Int
    BY BatchingAssumption
  <2>3. MaxCounter \in Nat /\ MaxSample \in Nat
    BY BatchingAssumption
  <2>4. c.value \in Nat
    BY <2>1, <2>2, <2>3 DEF ValidSample, Kinds, CounterKinds, ValueKinds
  <2> QED
    BY <2>2, <2>4
<1>3. e.series \in AllSeries /\ e.id \in Ids /\ e.item \in Items
  BY DEF AllSeries, Ids, Items
<1> QED
  BY <1>1, <1>2, <1>3 DEF Event, AnEvent

LEMMA LimitsNat ==
    /\ MaxCounter \in Nat /\ MaxSeriesPerBatch \in Nat /\ MaxTotalSeries \in Nat
    /\ MaxEvents \in Nat /\ MaxBatches \in Nat
BY BatchingAssumption

(***************************************************************************)
(* The counters of a batch and their index.                                *)
(***************************************************************************)
\* The series of the counters before one.
Before(counters, i) == {counters[k].series : k \in 1..(i - 1)}

\* The marks are the series and moments of the counter events of the batch.
CountersRight(counters, index, marks) ==
    /\ counters \in Seq(Counter)
    /\ DOMAIN index \in SUBSET AllSeries /\ IsFiniteSet(DOMAIN index)
    /\ index \in [DOMAIN index -> 1..Len(counters)]
    /\ \A s \in DOMAIN index : counters[index[s]].series = s
    /\ \A i \in 1..Len(counters) :
          \/ counters[i].series \in DOMAIN index /\ index[counters[i].series] = i
          \/ /\ counters[i].series \notin DOMAIN index
             /\ Cardinality(DOMAIN index) >= MaxSeriesPerBatch
             /\ Cardinality(Before(counters, i)) >= MaxSeriesPerBatch
    /\ \A m \in marks : \E i \in 1..Len(counters) : counters[i].series = m[1]
    /\ \A s \in DOMAIN index :
          /\ <<s, counters[index[s]].at>> \in marks
          /\ \A m \in marks : m[1] = s => m[2] <= counters[index[s]].at

Marks(events) == {<<e.series, e.at>> : e \in {x \in events : x.kind = "counter"}}

CounterOf(e) == [series |-> e.series, value |-> e.value, at |-> e.at]

LEMMA NoCounters ==
    CountersRight(<< >>, << >>, {})
<1>1. << >> \in Seq(Counter) /\ Len(<< >>) = 0 /\ DOMAIN << >> = {}
  OBVIOUS
<1>2. IsFiniteSet({}) /\ 1..0 = {}
  BY FS_EmptySet
<1>3. << >> \in [{} -> 1..0]
  OBVIOUS
<1> QED
  BY <1>1, <1>2, <1>3 DEF CountersRight

\* What the index has of a series is its only counter.
LEMMA IndexedOnce ==
    ASSUME NEW counters, NEW index, NEW marks, CountersRight(counters, index, marks),
           NEW s \in DOMAIN index, NEW i \in 1..Len(counters), counters[i].series = s
    PROVE  index[s] = i
BY DEF CountersRight

LEMMA AppendedAt ==
    ASSUME NEW S, NEW seq \in Seq(S), NEW x \in S
    PROVE  /\ Append(seq, x) \in Seq(S) /\ Len(Append(seq, x)) = Len(seq) + 1 /\ Len(seq) \in Nat
           /\ \A i \in 1..Len(seq) : Append(seq, x)[i] = seq[i]
           /\ Append(seq, x)[Len(seq) + 1] = x
OBVIOUS

LEMMA CounterIndexed ==
    ASSUME NEW counters, NEW index, NEW marks, CountersRight(counters, index, marks),
           NEW e, CounterOf(e) \in Counter, e.series \in AllSeries, e.series \notin DOMAIN index,
           Cardinality(DOMAIN index) < MaxSeriesPerBatch,
           NEW counters2, counters2 = Append(counters, CounterOf(e)),
           NEW index2, index2 = WithEntry(index, e.series, Len(counters) + 1),
           NEW marks2, marks2 = marks \cup {<<e.series, e.at>>}
    PROVE  CountersRight(counters2, index2, marks2)
<1> DEFINE s == e.series
           n == Len(counters)
<1>1. /\ counters \in Seq(Counter) /\ n \in Nat
      /\ DOMAIN index \in SUBSET AllSeries /\ IsFiniteSet(DOMAIN index)
      /\ index \in [DOMAIN index -> 1..n]
  BY DEF CountersRight
<1>2. /\ counters2 \in Seq(Counter) /\ Len(counters2) = n + 1
      /\ \A i \in 1..n : counters2[i] = counters[i]
      /\ counters2[n + 1] = CounterOf(e)
  BY <1>1, AppendedAt
<1>3. counters2[n + 1].series = s /\ counters2[n + 1].at = e.at
  BY <1>2 DEF CounterOf
<1>4. /\ DOMAIN index2 = DOMAIN index \cup {s}
      /\ index2[s] = n + 1
      /\ \A t \in DOMAIN index : index2[t] = index[t]
      /\ index2 = [t \in DOMAIN index2 |-> index2[t]]
  BY DEF WithEntry
<1>5. DOMAIN index2 \in SUBSET AllSeries /\ IsFiniteSet(DOMAIN index2)
  BY <1>1, <1>4, FS_AddElement
<1>6. \A t \in DOMAIN index2 : index2[t] \in 1..(n + 1)
  BY <1>1, <1>4
<1>7. index2 \in [DOMAIN index2 -> 1..Len(counters2)]
  <2> HIDE DEF s, n
  <2> QED
    BY <1>2, <1>4, <1>6
\* Until the index is full, no counter is outside it.
<1>8. \A i \in 1..n : counters[i].series \in DOMAIN index /\ index[counters[i].series] = i
  <2>1. Cardinality(DOMAIN index) \in Nat /\ MaxSeriesPerBatch \in Nat
    BY <1>1, LimitsNat, FS_CardinalityType
  <2> QED
    BY <2>1 DEF CountersRight
<1>9. \A m \in marks : m[1] \in DOMAIN index
  BY <1>8 DEF CountersRight
<1>10. \A t \in DOMAIN index2 : counters2[index2[t]].series = t
  <2> SUFFICES ASSUME NEW t \in DOMAIN index2
               PROVE  counters2[index2[t]].series = t
    OBVIOUS
  <2>1. CASE t = s
    BY <1>3, <1>4, <2>1
  <2>2. CASE t \in DOMAIN index
    <3>1. index[t] \in 1..n /\ counters[index[t]].series = t
      BY <1>1, <2>2 DEF CountersRight
    <3> QED
      BY <1>2, <1>4, <2>2, <3>1
  <2> QED
    BY <1>4, <2>1, <2>2
<1>11. \A i \in 1..Len(counters2) :
          counters2[i].series \in DOMAIN index2 /\ index2[counters2[i].series] = i
  <2> SUFFICES ASSUME NEW i \in 1..Len(counters2)
               PROVE  counters2[i].series \in DOMAIN index2 /\ index2[counters2[i].series] = i
    OBVIOUS
  <2>1. i \in 1..n \/ i = n + 1
    BY <1>1, <1>2
  <2> HIDE DEF n, s
  <2>2. CASE i \in 1..n
    BY <1>2, <1>4, <1>8, <2>2
  <2>3. CASE i = n + 1
    BY <1>3, <1>4, <2>3
  <2> QED
    BY <2>1, <2>2, <2>3
<1>12. \A m \in marks2 : \E i \in 1..Len(counters2) : counters2[i].series = m[1]
  <2> SUFFICES ASSUME NEW m \in marks2
               PROVE  \E i \in 1..Len(counters2) : counters2[i].series = m[1]
    OBVIOUS
  <2>1. CASE m \in marks
    <3>1. PICK i \in 1..n : counters[i].series = m[1]
      BY <2>1 DEF CountersRight
    <3>2. i \in 1..Len(counters2) /\ counters2[i] = counters[i]
      BY <1>1, <1>2
    <3> QED
      BY <3>1, <3>2
  <2>2. CASE m = <<s, e.at>>
    <3>1. n + 1 \in 1..Len(counters2) /\ m[1] = s
      BY <1>1, <1>2, <2>2
    <3> QED
      BY <1>3, <3>1
  <2> QED
    BY <2>1, <2>2
<1>13. \A t \in DOMAIN index2 :
          /\ <<t, counters2[index2[t]].at>> \in marks2
          /\ \A m \in marks2 : m[1] = t => m[2] <= counters2[index2[t]].at
  <2> SUFFICES ASSUME NEW t \in DOMAIN index2
               PROVE  /\ <<t, counters2[index2[t]].at>> \in marks2
                      /\ \A m \in marks2 : m[1] = t => m[2] <= counters2[index2[t]].at
    OBVIOUS
  <2>1. CASE t = s
    <3>1. counters2[index2[t]].at = e.at /\ e.at \in Nat
      BY <1>3, <1>4, <2>1 DEF CounterOf, Counter
    <3>2. \A m \in marks2 : m[1] = t => m[2] = e.at
      BY <1>9, <2>1
    <3>3. \A m \in marks2 : m[1] = t => m[2] <= e.at
      BY <3>1, <3>2
    <3> QED
      BY <2>1, <3>1, <3>3
  <2>2. CASE t \in DOMAIN index
    <3>1. index2[t] = index[t] /\ index[t] \in 1..n /\ t # s
      BY <1>1, <1>4, <2>2
    <3>2. counters2[index2[t]] = counters[index[t]]
      BY <1>2, <3>1
    <3>3. /\ <<t, counters[index[t]].at>> \in marks
          /\ \A m \in marks : m[1] = t => m[2] <= counters[index[t]].at
      BY <2>2 DEF CountersRight
    <3>4. \A m \in marks2 : m[1] = t => m \in marks
      BY <3>1
    <3> QED
      BY <3>2, <3>3, <3>4
  <2> QED
    BY <1>4, <2>1, <2>2
<1> QED
  BY <1>2, <1>5, <1>7, <1>10, <1>11, <1>12, <1>13 DEF CountersRight

LEMMA CounterPastCap ==
    ASSUME NEW counters, NEW index, NEW marks, CountersRight(counters, index, marks),
           NEW e, CounterOf(e) \in Counter, e.series \in AllSeries, e.series \notin DOMAIN index,
           ~(Cardinality(DOMAIN index) < MaxSeriesPerBatch),
           NEW counters2, counters2 = Append(counters, CounterOf(e)),
           NEW marks2, marks2 = marks \cup {<<e.series, e.at>>}
    PROVE  CountersRight(counters2, index, marks2)
<1> DEFINE s == e.series
           n == Len(counters)
<1>1. /\ counters \in Seq(Counter) /\ n \in Nat
      /\ DOMAIN index \in SUBSET AllSeries /\ IsFiniteSet(DOMAIN index)
      /\ index \in [DOMAIN index -> 1..n]
  BY DEF CountersRight
<1>2. /\ counters2 \in Seq(Counter) /\ Len(counters2) = n + 1
      /\ \A i \in 1..n : counters2[i] = counters[i]
      /\ counters2[n + 1] = CounterOf(e)
  BY <1>1, AppendedAt
<1>3. counters2[n + 1].series = s /\ counters2[n + 1].at = e.at
  BY <1>2 DEF CounterOf
<1>4. \A t \in DOMAIN index : index[t] \in 1..n /\ index[t] \in 1..(n + 1)
                              /\ counters2[index[t]] = counters[index[t]] /\ t # s
  BY <1>1, <1>2
<1>5. index \in [DOMAIN index -> 1..Len(counters2)]
  BY <1>1, <1>2, <1>4
<1>6. Cardinality(DOMAIN index) \in Nat /\ Cardinality(DOMAIN index) >= MaxSeriesPerBatch
  BY <1>1, LimitsNat, FS_CardinalityType
<1>7. \A i \in 1..n : Before(counters2, i) = Before(counters, i)
  <2> SUFFICES ASSUME NEW i \in 1..n
               PROVE  Before(counters2, i) = Before(counters, i)
    OBVIOUS
  <2>1. \A k \in 1..(i - 1) : counters2[k] = counters[k]
    BY <1>1, <1>2
  <2> QED
    BY <2>1 DEF Before
<1>8. Cardinality(Before(counters2, n + 1)) >= MaxSeriesPerBatch
  <2> DEFINE B == Before(counters2, n + 1)
  <2>1. B = {counters[k].series : k \in 1..n}
    <3>1. (n + 1) - 1 = n
      BY <1>1
    <3>2. \A k \in 1..n : counters2[k] = counters[k]
      BY <1>2
    <3> HIDE DEF n
    <3> QED
      BY <3>1, <3>2 DEF Before
  <2>2. DOMAIN index \in SUBSET B
    <3>1. \A t \in DOMAIN index : index[t] \in 1..n /\ counters[index[t]].series = t
      BY <1>1 DEF CountersRight
    <3> QED
      BY <2>1, <3>1
  <2>3. IsFiniteSet(B)
    <3> DEFINE f == [k \in 1..n |-> counters[k].series]
    <3>1. f \in Surjection(1..n, B)
      BY <2>1 DEF Surjection
    <3>2. IsFiniteSet(1..n)
      BY <1>1, UpToFinite
    <3> HIDE DEF f, B, n
    <3> QED
      BY <3>1, <3>2, FS_Surjection
  <2>4. Cardinality(DOMAIN index) <= Cardinality(B) /\ Cardinality(B) \in Nat
    <3> HIDE DEF B
    <3> QED
      BY <2>2, <2>3, FS_Subset, FS_CardinalityType
  <2> HIDE DEF B
  <2>5. Cardinality(B) >= MaxSeriesPerBatch
    BY <1>6, <2>4, LimitsNat
  <2> QED
    BY <2>5 DEF B
<1>9. \A i \in 1..Len(counters2) :
          \/ counters2[i].series \in DOMAIN index /\ index[counters2[i].series] = i
          \/ /\ counters2[i].series \notin DOMAIN index
             /\ Cardinality(DOMAIN index) >= MaxSeriesPerBatch
             /\ Cardinality(Before(counters2, i)) >= MaxSeriesPerBatch
  <2> SUFFICES ASSUME NEW i \in 1..Len(counters2)
               PROVE  \/ counters2[i].series \in DOMAIN index /\ index[counters2[i].series] = i
                      \/ /\ counters2[i].series \notin DOMAIN index
                         /\ Cardinality(DOMAIN index) >= MaxSeriesPerBatch
                         /\ Cardinality(Before(counters2, i)) >= MaxSeriesPerBatch
    OBVIOUS
  <2>1. i \in 1..n \/ i = n + 1
    BY <1>1, <1>2
  <2> HIDE DEF n, s
  <2>2. CASE i \in 1..n
    <3>1. \/ counters[i].series \in DOMAIN index /\ index[counters[i].series] = i
          \/ /\ counters[i].series \notin DOMAIN index
             /\ Cardinality(DOMAIN index) >= MaxSeriesPerBatch
             /\ Cardinality(Before(counters, i)) >= MaxSeriesPerBatch
      BY <2>2 DEF CountersRight, n
    <3>2. counters2[i] = counters[i] /\ Before(counters2, i) = Before(counters, i)
      BY <1>2, <1>7, <2>2
    <3> QED
      BY <3>1, <3>2
  <2>3. CASE i = n + 1
    BY <1>3, <1>6, <1>8, <2>3 DEF s
  <2> QED
    BY <2>1, <2>2, <2>3
<1>10. \A m \in marks2 : \E i \in 1..Len(counters2) : counters2[i].series = m[1]
  <2> SUFFICES ASSUME NEW m \in marks2
               PROVE  \E i \in 1..Len(counters2) : counters2[i].series = m[1]
    OBVIOUS
  <2>1. CASE m \in marks
    <3>1. PICK i \in 1..n : counters[i].series = m[1]
      BY <2>1 DEF CountersRight
    <3>2. i \in 1..Len(counters2) /\ counters2[i] = counters[i]
      BY <1>1, <1>2
    <3> QED
      BY <3>1, <3>2
  <2>2. CASE m = <<s, e.at>>
    <3>1. n + 1 \in 1..Len(counters2) /\ m[1] = s
      BY <1>1, <1>2, <2>2
    <3> QED
      BY <1>3, <3>1
  <2> QED
    BY <2>1, <2>2
<1>11. \A t \in DOMAIN index :
          /\ counters2[index[t]].series = t
          /\ <<t, counters2[index[t]].at>> \in marks2
          /\ \A m \in marks2 : m[1] = t => m[2] <= counters2[index[t]].at
  <2> SUFFICES ASSUME NEW t \in DOMAIN index
               PROVE  /\ counters2[index[t]].series = t
                      /\ <<t, counters2[index[t]].at>> \in marks2
                      /\ \A m \in marks2 : m[1] = t => m[2] <= counters2[index[t]].at
    OBVIOUS
  <2>1. counters2[index[t]] = counters[index[t]] /\ t # s
    BY <1>4
  <2>2. /\ counters[index[t]].series = t
        /\ <<t, counters[index[t]].at>> \in marks
        /\ \A m \in marks : m[1] = t => m[2] <= counters[index[t]].at
    BY DEF CountersRight
  <2>3. \A m \in marks2 : m[1] = t => m \in marks
    BY <2>1
  <2> QED
    BY <2>1, <2>2, <2>3
<1> QED
  BY <1>1, <1>2, <1>5, <1>9, <1>10, <1>11 DEF CountersRight

RaisedTo(c, v, a) == [c EXCEPT !.value = v, !.at = a]

LEMMA RaisedToFields ==
    ASSUME NEW c \in Counter, NEW v \in Nat, NEW a \in Nat
    PROVE  /\ RaisedTo(c, v, a) \in Counter /\ RaisedTo(c, v, a).series = c.series
           /\ RaisedTo(c, v, a).value = v /\ RaisedTo(c, v, a).at = a
BY DEF RaisedTo, Counter

LEMMA RaisedFields ==
    ASSUME NEW c \in Counter, NEW e, e.value \in Nat, e.at \in Nat
    PROVE  /\ Raised(c, e) \in Counter
           /\ Raised(c, e).series = c.series
           /\ Raised(c, e).value = c.value + e.value
           /\ Raised(c, e).at = IF e.at > c.at THEN e.at ELSE c.at
<1>1. /\ c.series \in AllSeries /\ c.value \in Nat /\ c.at \in Nat
      /\ c = [series |-> c.series, value |-> c.value, at |-> c.at]
  BY DEF Counter
<1>2. PICK v : v = c.value + e.value
  OBVIOUS
<1>3. PICK a : a = IF e.at > c.at THEN e.at ELSE c.at
  OBVIOUS
<1>4. v \in Nat /\ a \in Nat
  BY <1>1, <1>2, <1>3
<1>5. Raised(c, e) = RaisedTo(c, v, a)
  BY <1>2, <1>3, Zenon DEF Raised, RaisedTo
<1>6. /\ RaisedTo(c, v, a) \in Counter /\ RaisedTo(c, v, a).series = c.series
      /\ RaisedTo(c, v, a).value = v /\ RaisedTo(c, v, a).at = a
  <2>1. c \in Counter /\ v \in Nat /\ a \in Nat
    BY <1>4
  <2> QED
    BY ONLY <2>1, RaisedToFields
<1> QED
  BY <1>2, <1>3, <1>5, <1>6, Zenon

LEMMA CounterRaised ==
    ASSUME NEW counters, NEW index, NEW marks, CountersRight(counters, index, marks),
           NEW e, e.value \in Nat, e.at \in Nat, e.series \in DOMAIN index,
           NEW counters2, counters2 = [counters EXCEPT ![index[e.series]] = Raised(@, e)],
           NEW marks2, marks2 = marks \cup {<<e.series, e.at>>},
           \A m \in marks : m[2] \in Nat
    PROVE  CountersRight(counters2, index, marks2)
<1> DEFINE s == e.series
           n == Len(counters)
           at == index[s]
           old == counters[at]
           new == Raised(old, e)
<1>1. /\ counters \in Seq(Counter) /\ n \in Nat
      /\ DOMAIN index \in SUBSET AllSeries /\ IsFiniteSet(DOMAIN index)
      /\ index \in [DOMAIN index -> 1..n]
  BY DEF CountersRight
<1>2. at \in 1..n /\ old.series = s /\ old \in Counter
  BY <1>1 DEF CountersRight
<1>3. /\ new \in Counter /\ new.series = s /\ new.at = IF e.at > old.at THEN e.at ELSE old.at
      /\ old.at \in Nat /\ new.at \in Nat
  <2>1. old.at \in Nat
    BY <1>2 DEF Counter
  <2> HIDE DEF old, s
  <2> QED
    BY <1>2, <2>1, RaisedFields
<1>4. counters2 = [counters EXCEPT ![at] = new]
  OBVIOUS
<1> HIDE DEF new
<1>5. /\ counters2 \in Seq(Counter) /\ Len(counters2) = n /\ counters2[at] = new
      /\ \A i \in 1..n : i # at => counters2[i] = counters[i]
  BY <1>1, <1>2, <1>3, <1>4
<1>6. \A i \in 1..n : counters2[i].series = counters[i].series
  BY <1>2, <1>3, <1>5
<1>7. \A i \in 1..n : Before(counters2, i) = Before(counters, i)
  <2> SUFFICES ASSUME NEW i \in 1..n
               PROVE  Before(counters2, i) = Before(counters, i)
    OBVIOUS
  <2>1. \A k \in 1..(i - 1) : counters2[k].series = counters[k].series
    BY <1>1, <1>6
  <2> QED
    BY <2>1 DEF Before
<1>8. \A i \in 1..Len(counters2) :
          \/ counters2[i].series \in DOMAIN index /\ index[counters2[i].series] = i
          \/ /\ counters2[i].series \notin DOMAIN index
             /\ Cardinality(DOMAIN index) >= MaxSeriesPerBatch
             /\ Cardinality(Before(counters2, i)) >= MaxSeriesPerBatch
  <2> SUFFICES ASSUME NEW i \in 1..n
               PROVE  \/ counters2[i].series \in DOMAIN index /\ index[counters2[i].series] = i
                      \/ /\ counters2[i].series \notin DOMAIN index
                         /\ Cardinality(DOMAIN index) >= MaxSeriesPerBatch
                         /\ Cardinality(Before(counters2, i)) >= MaxSeriesPerBatch
    BY <1>5
  <2>1. \/ counters[i].series \in DOMAIN index /\ index[counters[i].series] = i
        \/ /\ counters[i].series \notin DOMAIN index
           /\ Cardinality(DOMAIN index) >= MaxSeriesPerBatch
           /\ Cardinality(Before(counters, i)) >= MaxSeriesPerBatch
    BY DEF CountersRight
  <2> QED
    BY <1>6, <1>7, <2>1
<1>9. \A m \in marks2 : \E i \in 1..Len(counters2) : counters2[i].series = m[1]
  <2> SUFFICES ASSUME NEW m \in marks2
               PROVE  \E i \in 1..n : counters2[i].series = m[1]
    BY <1>5
  <2>1. CASE m \in marks
    <3>1. PICK i \in 1..n : counters[i].series = m[1]
      BY <2>1 DEF CountersRight
    <3> QED
      BY <1>6, <3>1
  <2>2. CASE m = <<s, e.at>>
    BY <1>2, <1>6, <2>2
  <2> QED
    BY <2>1, <2>2
<1>10. \A t \in DOMAIN index :
          /\ counters2[index[t]].series = t
          /\ <<t, counters2[index[t]].at>> \in marks2
          /\ \A m \in marks2 : m[1] = t => m[2] <= counters2[index[t]].at
  <2> SUFFICES ASSUME NEW t \in DOMAIN index
               PROVE  /\ counters2[index[t]].series = t
                      /\ <<t, counters2[index[t]].at>> \in marks2
                      /\ \A m \in marks2 : m[1] = t => m[2] <= counters2[index[t]].at
    OBVIOUS
  <2>1. /\ index[t] \in 1..n /\ counters[index[t]].series = t
        /\ <<t, counters[index[t]].at>> \in marks
        /\ \A m \in marks : m[1] = t => m[2] <= counters[index[t]].at
    BY <1>1 DEF CountersRight
  <2>2. CASE t = s
    <3>1. counters2[index[t]] = new /\ counters[index[t]] = old
      BY <1>5, <2>2
    <3>2. <<t, new.at>> \in marks2
      <4>1. <<t, old.at>> \in marks2 /\ <<t, e.at>> \in marks2
        BY <2>1, <2>2
      <4>2. new.at = e.at \/ new.at = old.at
        BY <1>3
      <4> HIDE DEF old
      <4> QED
        BY <4>1, <4>2
    <3>3. \A m \in marks2 : m[1] = t => m[2] <= new.at
      <4> SUFFICES ASSUME NEW m \in marks2, m[1] = t
                   PROVE  m[2] <= new.at
        OBVIOUS
      <4>1. CASE m \in marks
        <5>1. m[2] <= old.at /\ m[2] \in Nat
          BY <2>1, <3>1, <4>1
        <5> QED
          BY <1>3, <5>1
      <4>2. CASE m = <<s, e.at>>
        <5>1. m[2] = e.at
          BY <4>2
        <5> QED
          BY <1>3, <5>1
      <4> QED
        BY <4>1, <4>2
    <3> QED
      BY <1>3, <2>2, <3>1, <3>2, <3>3
  <2>3. CASE t # s
    <3>1. index[t] # at
      BY <1>2, <2>1, <2>3
    <3>2. counters2[index[t]] = counters[index[t]]
      BY <1>5, <2>1, <3>1
    <3>3. \A m \in marks2 : m[1] = t => m \in marks
      BY <2>3
    <3>4. <<t, counters[index[t]].at>> \in marks2
      BY <2>1
    <3>5. \A m \in marks2 : m[1] = t => m[2] <= counters[index[t]].at
      BY <2>1, <3>3
    <3> QED
      BY <2>1, <3>2, <3>4, <3>5
  <2> QED
    BY <2>2, <2>3
<1> QED
  BY <1>1, <1>5, <1>8, <1>9, <1>10 DEF CountersRight

(***************************************************************************)
(* The value a batch has for a series.                                     *)
(***************************************************************************)
Values(counters, s) == [i \in PlacesOf(counters, s) |-> counters[i].value]

LEMMA ValueIsSum ==
    ASSUME NEW counters \in Seq(Counter), NEW s
    PROVE  /\ IsFiniteSet(PlacesOf(counters, s)) /\ PlacesOf(counters, s) \in SUBSET (1..Len(counters))
           /\ CounterValue(counters, s) = SumFunctionOnSet(Values(counters, s), PlacesOf(counters, s))
           /\ CounterValue(counters, s) = SumFunction(Values(counters, s))
           /\ Values(counters, s) \in [PlacesOf(counters, s) -> Nat]
           /\ CounterValue(counters, s) \in Nat
<1>1. DOMAIN counters = 1..Len(counters) /\ Len(counters) \in Nat
      /\ \A i \in 1..Len(counters) : counters[i] \in Counter
  BY ElementOfSeq
<1>2. PlacesOf(counters, s) \in SUBSET (1..Len(counters))
  BY <1>1 DEF PlacesOf
<1>3. IsFiniteSet(1..Len(counters))
  BY <1>1, UpToFinite
<1>4. IsFiniteSet(PlacesOf(counters, s))
  BY <1>2, <1>3, FS_Subset
<1>5. CounterValue(counters, s) = SumFunction(Values(counters, s))
  BY DEF CounterValue, Values, PlacesOf
<1>6. DOMAIN Values(counters, s) = PlacesOf(counters, s)
  BY DEF Values
<1>7. SumFunction(Values(counters, s)) = SumFunctionOnSet(Values(counters, s), PlacesOf(counters, s))
  BY <1>6 DEF SumFunction, FoldFunction, SumFunctionOnSet
<1>8. \A i \in PlacesOf(counters, s) : counters[i].value \in Nat
  BY <1>1, <1>2 DEF Counter
<1>9. Values(counters, s) \in [PlacesOf(counters, s) -> Nat]
  BY <1>8 DEF Values
<1>10. SumFunctionOnSet(Values(counters, s), PlacesOf(counters, s)) \in Nat
  BY <1>4, <1>9, SumNat
<1> QED
  BY <1>2, <1>4, <1>5, <1>7, <1>9, <1>10

\* A counter on the wire is off by a half at most.
LEMMA WireNear ==
    ASSUME NEW v \in Nat
    PROVE  OnTheWire(v) \in Nat /\ 2 * (OnTheWire(v) - v) \in -Unit..Unit
<1> DEFINE d == 2 * Unit
           a == 2 * v + Unit
           q == a \div d
<1>1. Unit \in Nat /\ Unit > 0
  BY BatchingAssumption
<1>2. d \in Nat /\ d > 0 /\ a \in Nat
  BY <1>1
<1>3. q \in Int /\ d * q <= a /\ a < d * q + d
  <2> HIDE DEF d, a
  <2> QED
    BY <1>2
<1>4. q \in Nat
  <2> HIDE DEF q
  <2>1. d * (q + 1) = d * q + d
    BY <1>2, <1>3
  <2>2. d * (q + 1) > 0
    BY <1>2, <1>3, <2>1
  <2> HIDE DEF d, a
  <2>3. q + 1 > 0
    BY <1>2, <1>3, <2>2
  <2> QED
    BY <1>3, <2>3
<1>5. OnTheWire(v) = q * Unit /\ d * q = 2 * (q * Unit)
  <2>1. OnTheWire(v) = q * Unit
    BY DEF OnTheWire
  <2> HIDE DEF q
  <2>2. d * q = 2 * (q * Unit)
    BY <1>1, <1>4
  <2> QED
    BY <2>1, <2>2
<1> HIDE DEF q
<1>6. q * Unit \in Nat
  BY <1>1, <1>4
<1> DEFINE w == q * Unit
<1>7. w \in Nat /\ OnTheWire(v) = w /\ 2 * w <= 2 * v + Unit /\ 2 * v + Unit < 2 * w + 2 * Unit
  BY <1>3, <1>5, <1>6
<1> HIDE DEF w
<1> QED
  BY <1>1, <1>7

LEMMA WireValueNear ==
    ASSUME NEW counters \in Seq(Counter), NEW s
    PROVE  /\ WireValue(counters, s) \in Nat /\ Cardinality(PlacesOf(counters, s)) \in Nat
           /\ 2 * (WireValue(counters, s) - CounterValue(counters, s))
                 \in -(Unit * Cardinality(PlacesOf(counters, s)))..(Unit * Cardinality(PlacesOf(counters, s)))
<1> DEFINE P == PlacesOf(counters, s)
           f == Values(counters, s)
           g == [i \in P |-> OnTheWire(counters[i].value)]
<1>1. /\ IsFiniteSet(P) /\ CounterValue(counters, s) = SumFunctionOnSet(f, P)
      /\ f \in [P -> Nat]
  BY ValueIsSum
<1>2. ASSUME NEW i \in P
      PROVE  /\ f[i] \in Int /\ g[i] \in Nat /\ g[i] \in Int /\ 2 * (g[i] - f[i]) \in -Unit..Unit
  <2>1. f[i] = counters[i].value /\ f[i] \in Nat
    BY <1>1 DEF Values
  <2>2. PICK v \in Nat : v = f[i]
    BY <2>1
  <2>3. g[i] = OnTheWire(v)
    BY <2>1, <2>2
  <2>4. OnTheWire(v) \in Nat /\ 2 * (OnTheWire(v) - v) \in -Unit..Unit
    BY WireNear
  <2> HIDE DEF f, g
  <2> QED
    BY <2>2, <2>3, <2>4
<1>3. WireValue(counters, s) = SumFunction(g) /\ DOMAIN g = P
  BY DEF WireValue
<1> HIDE DEF f, g, P
<1>4. WireValue(counters, s) = SumFunctionOnSet(g, P)
  BY <1>3 DEF SumFunction
<1>5. SumFunctionOnSet(g, P) \in Nat /\ Cardinality(P) \in Nat
  BY <1>1, <1>2, SumNat, FS_CardinalityType
<1>6. Unit \in Nat
  BY BatchingAssumption
<1>7. 2 * (SumFunctionOnSet(g, P) - SumFunctionOnSet(f, P))
         \in -(Unit * Cardinality(P))..(Unit * Cardinality(P))
  BY <1>1, <1>2, <1>6, SumNear
<1> QED
  BY <1>1, <1>4, <1>5, <1>7 DEF P

LEMMA ValueNone == \A s : CounterValue(<< >>, s) = 0
<1> SUFFICES ASSUME NEW s
             PROVE  CounterValue(<< >>, s) = 0
  OBVIOUS
<1>1. << >> \in Seq(Counter) /\ DOMAIN << >> = {}
  OBVIOUS
<1>2. PlacesOf(<< >>, s) = {}
  BY <1>1 DEF PlacesOf
<1> QED
  BY <1>1, <1>2, ValueIsSum, SumEmpty

LEMMA ValueAppended ==
    ASSUME NEW counters \in Seq(Counter), NEW c \in Counter, NEW s
    PROVE  CounterValue(Append(counters, c), s)
              = CounterValue(counters, s) + (IF c.series = s THEN c.value ELSE 0)
<1> DEFINE n == Len(counters)
           longer == Append(counters, c)
           P == PlacesOf(counters, s)
           Q == PlacesOf(longer, s)
           f == Values(counters, s)
           g == Values(longer, s)
<1>1. /\ longer \in Seq(Counter) /\ Len(longer) = n + 1 /\ n \in Nat
      /\ \A i \in 1..n : longer[i] = counters[i]
      /\ longer[n + 1] = c
  BY AppendedAt
<1>2. DOMAIN counters = 1..n /\ DOMAIN longer = 1..(n + 1)
  BY <1>1, ElementOfSeq
<1>3. Q = (IF c.series = s THEN P \cup {n + 1} ELSE P) /\ n + 1 \notin P
  <2>1. \A i : i \in 1..(n + 1) <=> i \in 1..n \/ i = n + 1
    BY <1>1
  <2>2. n + 1 \notin 1..n
    BY <1>1
  <2> HIDE DEF n, longer
  <2> QED
    BY <1>1, <1>2, <2>1, <2>2 DEF PlacesOf
<1> HIDE DEF longer
<1>4. \A i \in P : f[i] = g[i] /\ g[i] \in Int
  <2> SUFFICES ASSUME NEW i \in P
               PROVE  f[i] = g[i] /\ g[i] \in Int
    OBVIOUS
  <2>1. i \in 1..n /\ i \in Q
    BY <1>2, <1>3 DEF PlacesOf
  <2>2. f[i] = counters[i].value /\ g[i] = longer[i].value
    BY <2>1 DEF Values
  <2>3. counters[i] \in Counter
    BY <2>1, ElementOfSeq
  <2> HIDE DEF f, g, P, Q, n
  <2>4. counters[i].value \in Int
    BY <2>3 DEF Counter
  <2> QED
    BY <1>1, <2>1, <2>2, <2>4
<1>5. IsFiniteSet(P) /\ CounterValue(counters, s) = SumFunctionOnSet(f, P)
      /\ CounterValue(counters, s) \in Nat
  BY ValueIsSum
<1>6. CounterValue(longer, s) = SumFunctionOnSet(g, Q)
  BY <1>1, ValueIsSum
<1>7. SumFunctionOnSet(f, P) = SumFunctionOnSet(g, P)
  <2> HIDE DEF f, g, P
  <2> QED
    BY <1>4, <1>5, SumAgree
<1>8. CASE c.series = s
  <2>1. Q = P \cup {n + 1} /\ n + 1 \in Q
    BY <1>3, <1>8
  <2>2. g[n + 1] = c.value /\ c.value \in Int
    BY <1>1, <2>1 DEF Values, Counter
  <2>3. SumFunctionOnSet(g, P \cup {n + 1}) = SumFunctionOnSet(g, P) + g[n + 1]
    <3> HIDE DEF g, P, n
    <3> QED
      BY <1>3, <1>4, <1>5, <2>2, SumAdd
  <2> QED
    BY <1>5, <1>6, <1>7, <1>8, <2>1, <2>2, <2>3 DEF longer
<1>9. CASE c.series # s
  <2>1. Q = P
    BY <1>3, <1>9
  <2>2. CounterValue(longer, s) = CounterValue(counters, s)
    BY <1>5, <1>6, <1>7, <2>1
  <2> QED
    BY <1>5, <1>9, <2>2 DEF longer
<1> QED
  BY <1>8, <1>9

RaisedAt(counters, at, e) == [counters EXCEPT ![at] = Raised(@, e)]

LEMMA ValueRaised ==
    ASSUME NEW counters \in Seq(Counter), NEW at \in 1..Len(counters), NEW e,
           e.value \in Nat, e.at \in Nat, NEW s
    PROVE  CounterValue(RaisedAt(counters, at, e), s)
              = CounterValue(counters, s) + (IF counters[at].series = s THEN e.value ELSE 0)
<1> DEFINE n == Len(counters)
           raised == RaisedAt(counters, at, e)
           new == Raised(counters[at], e)
           P == PlacesOf(counters, s)
           f == Values(counters, s)
           g == Values(raised, s)
<1>1. n \in Nat /\ DOMAIN counters = 1..n /\ \A i \in 1..n : counters[i] \in Counter
  BY ElementOfSeq
<1>2. /\ new \in Counter /\ new.series = counters[at].series
      /\ new.value = counters[at].value + e.value
      /\ counters[at].value \in Nat
  <2>1. counters[at] \in Counter /\ counters[at].value \in Nat
    BY <1>1 DEF Counter
  <2> QED
    BY <2>1, RaisedFields
<1>3. raised = [counters EXCEPT ![at] = new]
  BY DEF RaisedAt
<1> HIDE DEF new
<1>4. /\ raised \in Seq(Counter) /\ DOMAIN raised = 1..n /\ raised[at] = new
      /\ \A i \in 1..n : i # at => raised[i] = counters[i]
  BY <1>1, <1>2, <1>3
<1> HIDE DEF raised
<1>5. PlacesOf(raised, s) = P
  BY <1>1, <1>2, <1>4 DEF PlacesOf
<1>6. /\ IsFiniteSet(P) /\ CounterValue(counters, s) = SumFunction(f) /\ f \in [P -> Nat]
      /\ CounterValue(counters, s) \in Nat
      /\ CounterValue(raised, s) = SumFunction(g)
  BY <1>4, ValueIsSum
<1>7. \A i \in P : g[i] = raised[i].value /\ f[i] = counters[i].value /\ i \in 1..n
  BY <1>1, <1>5 DEF Values, PlacesOf
<1>8. f = [i \in P |-> f[i]] /\ g = [i \in P |-> g[i]]
  BY <1>5 DEF Values
<1>9. CASE counters[at].series = s
  <2>1. at \in P
    BY <1>1, <1>9 DEF PlacesOf
  <2>2. g[at] = f[at] + e.value /\ f[at] \in Nat /\ g[at] \in Nat
    BY <1>2, <1>4, <1>7, <2>1
  <2>3. \A i \in P : i # at => g[i] = f[i]
    BY <1>4, <1>7
  <2> HIDE DEF P, f, g
  <2>4. g = [f EXCEPT ![at] = g[at]]
    BY <1>8, <2>1, <2>3
  <2>5. f \in [P -> Int] /\ g[at] \in Int
    <3>1. \A i \in P : f[i] \in Int
      BY <1>6
    <3>2. f \in [P -> Int]
      BY <1>8, <3>1
    <3> QED
      BY <2>2, <3>2
  <2>6. SumFunction([f EXCEPT ![at] = g[at]]) = SumFunction(f) - f[at] + g[at]
    <3>1. IsFiniteSet(P)
      BY <1>6
    <3>2. f \in [P -> Int]
      BY <2>5
    <3>3. PICK v : v = g[at]
      OBVIOUS
    <3>4. v \in Int
      BY <2>5, <3>3
    <3>5. SumFunction([f EXCEPT ![at] = v]) = SumFunction(f) - f[at] + v
      BY <2>1, <3>1, <3>2, <3>4, SumExcept
    <3> QED
      BY <3>3, <3>5
  <2>7. CounterValue(raised, s) = CounterValue(counters, s) - f[at] + g[at]
    BY <1>6, <2>4, <2>6
  <2>8. CounterValue(raised, s) = CounterValue(counters, s) + e.value
    BY <1>6, <2>2, <2>7
  <2> QED
    BY <1>9, <2>8 DEF raised
<1>10. CASE counters[at].series # s
  <2>1. at \notin P
    BY <1>10 DEF PlacesOf
  <2>2. \A i \in P : g[i] = f[i]
    BY <1>4, <1>7, <2>1
  <2> HIDE DEF P, f, g
  <2>3. g = f
    BY <1>8, <2>2
  <2>4. CounterValue(raised, s) = CounterValue(counters, s) + 0
    BY <1>6, <2>3
  <2> QED
    BY <1>10, <2>4 DEF raised
<1> QED
  BY <1>9, <1>10


(***************************************************************************)
(* People and choices: a key is listed once, when it is first seen.        *)
(***************************************************************************)
ListedOnce(keys, seen) ==
    /\ keys \in Seq(seen) /\ Range(keys) = seen
    /\ IsFiniteSet(seen) /\ Len(keys) = Cardinality(seen)

LEMMA NothingListed == ListedOnce(<< >>, {})
<1>1. << >> \in Seq({}) /\ Len(<< >>) = 0 /\ Range(<< >>) = {}
  BY DEF Range
<1> QED
  BY <1>1, FS_EmptySet DEF ListedOnce

LEMMA RangeAppend ==
    ASSUME NEW S, NEW s \in Seq(S), NEW x
    PROVE  Range(Append(s, x)) = Range(s) \cup {x}
<1>1. DOMAIN s = 1..Len(s) /\ Len(s) \in Nat
  OBVIOUS
<1>2. DOMAIN Append(s, x) = 1..(Len(s) + 1)
  BY <1>1
<1>3. \A i \in 1..Len(s) : Append(s, x)[i] = s[i]
  BY <1>1
<1>4. Append(s, x)[Len(s) + 1] = x
  BY <1>1
<1> DEFINE longer == Append(s, x)
           n == Len(s)
<1>5. \A i : i \in 1..(n + 1) <=> i \in 1..n \/ i = n + 1
  BY <1>1
<1> HIDE DEF longer, n
<1>6. Range(longer) = Range(s) \cup {x}
  BY <1>1, <1>2, <1>3, <1>4, <1>5 DEF Range, longer, n
<1> QED
  BY <1>6 DEF longer

LEMMA ListedMore ==
    ASSUME NEW keys, NEW seen, ListedOnce(keys, seen), NEW key, key \notin seen
    PROVE  ListedOnce(Append(keys, key), seen \cup {key})
<1>1. keys \in Seq(seen) /\ IsFiniteSet(seen) /\ Len(keys) = Cardinality(seen) /\ Range(keys) = seen
  BY DEF ListedOnce
<1>2. Range(Append(keys, key)) = seen \cup {key}
  BY <1>1, RangeAppend
<1>3. IsFiniteSet(seen \cup {key}) /\ Cardinality(seen \cup {key}) = Cardinality(seen) + 1
  BY <1>1, FS_AddElement
<1>4. keys \in Seq(seen \cup {key})
  <2>1. \A i \in 1..Len(keys) : keys[i] \in seen \cup {key}
    BY <1>1, ElementOfSeq
  <2> QED
    BY <1>1, <2>1, SeqDef
<1>5. Append(keys, key) \in Seq(seen \cup {key}) /\ Len(Append(keys, key)) = Len(keys) + 1
  BY <1>4, AppendedAt
<1> QED
  BY <1>1, <1>2, <1>3, <1>5 DEF ListedOnce

Sample == [series : AllSeries, value : Nat, at : Nat, sparse : BOOLEAN, success : BOOLEAN]
Person == [series : AllSeries, id : Ids, at : Nat]
Choice == [series : AllSeries, id : Ids, item : Items, at : Nat]

PersonKeys(uniques) == [i \in 1..Len(uniques) |-> <<uniques[i].series, uniques[i].id>>]
ChoiceKeys(tops) == [i \in 1..Len(tops) |-> <<tops[i].series, tops[i].id, tops[i].item>>]

IsTuple(f, n) == f = [i \in 1..n |-> f[i]]

LEMMA AppendOf ==
    ASSUME NEW n \in Nat, NEW short, IsTuple(short, n), NEW long, IsTuple(long, n + 1),
           \A i \in 1..n : long[i] = short[i]
    PROVE  long = Append(short, long[n + 1])
<1> DEFINE S == {long[i] : i \in 1..(n + 1)}
<1>1. n + 1 \in 1..(n + 1) /\ \A i \in 1..n : i \in 1..(n + 1)
  OBVIOUS
<1>2. short \in [1..n -> S] /\ long[n + 1] \in S /\ long \in [1..(n + 1) -> S]
  BY <1>1 DEF IsTuple
<1> HIDE DEF S
<1>3. short \in Seq(S) /\ Len(short) = n /\ DOMAIN long = 1..(n + 1)
  BY <1>2
<1> DEFINE new == long[n + 1]
<1> HIDE DEF new
<1>4. /\ Append(short, new) \in Seq(S) /\ Len(Append(short, new)) = n + 1
      /\ \A i \in 1..n : Append(short, new)[i] = short[i]
      /\ Append(short, new)[n + 1] = new
  BY <1>2, <1>3, AppendedAt DEF new
<1>5. long \in Seq(S) /\ Len(long) = n + 1
  BY <1>2
<1>6. \A i \in 1..(n + 1) : long[i] = Append(short, new)[i]
  <2>1. \A i \in 1..(n + 1) : i \in 1..n \/ i = n + 1
    OBVIOUS
  <2> QED
    BY <1>4, <2>1 DEF new
<1>7. long = Append(short, new)
  BY <1>4, <1>5, <1>6, SeqEqual
<1> QED
  BY <1>7 DEF new

LEMMA PersonKeysAppend ==
    ASSUME NEW uniques \in Seq(Person), NEW p \in Person
    PROVE  PersonKeys(Append(uniques, p)) = Append(PersonKeys(uniques), <<p.series, p.id>>)
<1> DEFINE n == Len(uniques)
           longer == Append(uniques, p)
<1>1. /\ n \in Nat /\ Len(longer) = n + 1 /\ longer[n + 1] = p
      /\ \A i \in 1..n : longer[i] = uniques[i]
  BY AppendedAt
<1> HIDE DEF longer, n
<1>2. /\ PersonKeys(longer) = [i \in 1..(n + 1) |-> <<longer[i].series, longer[i].id>>]
      /\ PersonKeys(uniques) = [i \in 1..n |-> <<uniques[i].series, uniques[i].id>>]
  BY <1>1 DEF PersonKeys, n
<1> DEFINE keys == PersonKeys(uniques)
           more == PersonKeys(longer)
           key == <<p.series, p.id>>
<1>3. /\ \A i \in 1..n : more[i] = keys[i]
      /\ more[n + 1] = key
  BY <1>1, <1>2
<1>4. keys = [i \in 1..n |-> keys[i]] /\ more = [i \in 1..(n + 1) |-> more[i]]
  BY <1>2
<1> HIDE DEF keys, more, key
<1>5. more = Append(keys, key)
  <2>1. n \in Nat /\ more[n + 1] = key /\ \A i \in 1..n : more[i] = keys[i]
    BY <1>1, <1>3
  <2>2. IsTuple(keys, n) /\ IsTuple(more, n + 1)
    BY <1>4 DEF IsTuple
  <2>3. more = Append(keys, more[n + 1])
    BY ONLY <2>1, <2>2, AppendOf
  <2> QED
    BY <2>1, <2>3
<1> QED
  BY <1>5 DEF more, keys, key, longer

LEMMA ChoiceKeysAppend ==
    ASSUME NEW tops \in Seq(Choice), NEW p \in Choice
    PROVE  ChoiceKeys(Append(tops, p)) = Append(ChoiceKeys(tops), <<p.series, p.id, p.item>>)
<1> DEFINE n == Len(tops)
           longer == Append(tops, p)
<1>1. /\ n \in Nat /\ Len(longer) = n + 1 /\ longer[n + 1] = p
      /\ \A i \in 1..n : longer[i] = tops[i]
  BY AppendedAt
<1> HIDE DEF longer, n
<1>2. /\ ChoiceKeys(longer) = [i \in 1..(n + 1) |-> <<longer[i].series, longer[i].id, longer[i].item>>]
      /\ ChoiceKeys(tops) = [i \in 1..n |-> <<tops[i].series, tops[i].id, tops[i].item>>]
  BY <1>1 DEF ChoiceKeys, n
<1> DEFINE keys == ChoiceKeys(tops)
           more == ChoiceKeys(longer)
           key == <<p.series, p.id, p.item>>
<1>3. /\ \A i \in 1..n : more[i] = keys[i]
      /\ more[n + 1] = key
  BY <1>1, <1>2
<1>4. keys = [i \in 1..n |-> keys[i]] /\ more = [i \in 1..(n + 1) |-> more[i]]
  BY <1>2
<1> HIDE DEF keys, more, key
<1>5. more = Append(keys, key)
  <2>1. n \in Nat /\ more[n + 1] = key /\ \A i \in 1..n : more[i] = keys[i]
    BY <1>1, <1>3
  <2>2. IsTuple(keys, n) /\ IsTuple(more, n + 1)
    BY <1>4 DEF IsTuple
  <2>3. more = Append(keys, more[n + 1])
    BY ONLY <2>1, <2>2, AppendOf
  <2> QED
    BY <2>1, <2>3
<1> QED
  BY <1>5 DEF more, keys, key, longer

(***************************************************************************)
(* Samples: one for each of the events of its kind, in their order.        *)
(***************************************************************************)
Samples(events) == {i \in DOMAIN events : events[i].kind \in ValueKinds}

ValuesRight(values, events) ==
    /\ values \in Seq(Sample)
    /\ Len(values) = Cardinality(Samples(events))
    /\ \A i \in Samples(events) :
          /\ values[Rank(Samples(events), i)].series = events[i].series
          /\ values[Rank(Samples(events), i)].value = events[i].value

LEMMA NoSamples == ValuesRight(<< >>, << >>)
<1>1. Samples(<< >>) = {} /\ << >> \in Seq(Sample) /\ Len(<< >>) = 0
  BY DEF Samples
<1> QED
  BY <1>1, FS_EmptySet DEF ValuesRight

LEMMA SamplesFinite ==
    ASSUME NEW events \in Seq(AnEvent)
    PROVE  /\ Samples(events) \in SUBSET (1..Len(events)) /\ Samples(events) \in SUBSET Nat
           /\ IsFiniteSet(Samples(events)) /\ Len(events) \in Nat
<1>1. DOMAIN events = 1..Len(events) /\ Len(events) \in Nat
  OBVIOUS
<1>2. Samples(events) \in SUBSET (1..Len(events))
  BY <1>1 DEF Samples
<1>3. IsFiniteSet(1..Len(events))
  BY <1>1, UpToFinite
<1> QED
  BY <1>1, <1>2, <1>3, FS_Subset

\* The events of a longer sequence, and where its samples are.
LEMMA SamplesAppend ==
    ASSUME NEW events \in Seq(AnEvent), NEW e \in AnEvent
    PROVE  Samples(Append(events, e)) = Samples(events)
              \cup (IF e.kind \in ValueKinds THEN {Len(events) + 1} ELSE {})
<1> DEFINE n == Len(events)
           longer == Append(events, e)
<1>1. /\ longer \in Seq(AnEvent) /\ Len(longer) = n + 1 /\ n \in Nat
      /\ \A i \in 1..n : longer[i] = events[i]
      /\ longer[n + 1] = e
  BY AppendedAt
<1>2. DOMAIN events = 1..n /\ DOMAIN longer = 1..(n + 1)
  BY <1>1, ElementOfSeq
<1> HIDE DEF n, longer
<1>3. \A i : i \in 1..(n + 1) <=> i \in 1..n \/ i = n + 1
  BY <1>1
<1>4. n + 1 \notin 1..n
  BY <1>1
<1>5. Samples(longer) = Samples(events) \cup (IF e.kind \in ValueKinds THEN {n + 1} ELSE {})
  BY <1>1, <1>2, <1>3, <1>4 DEF Samples
<1> QED
  BY <1>5 DEF n, longer

LEMMA SampleAdded ==
    ASSUME NEW events \in Seq(AnEvent), NEW e \in AnEvent, e.kind \in ValueKinds,
           NEW values, ValuesRight(values, events),
           NEW sample \in Sample, sample.series = e.series, sample.value = e.value
    PROVE  ValuesRight(Append(values, sample), Append(events, e))
<1> DEFINE n == Len(events)
           longer == Append(events, e)
           more == Append(values, sample)
           S == Samples(events)
           T == Samples(longer)
           k == Cardinality(S)
<1>1. /\ longer \in Seq(AnEvent) /\ Len(longer) = n + 1 /\ n \in Nat
      /\ \A i \in 1..n : longer[i] = events[i]
      /\ longer[n + 1] = e
  BY AppendedAt
<1>2. S \in SUBSET (1..n) /\ S \in SUBSET Nat /\ IsFiniteSet(S)
  BY SamplesFinite
<1>3. T = S \cup {n + 1} /\ n + 1 \notin S
  BY <1>1, <1>2, SamplesAppend
<1>4. values \in Seq(Sample) /\ Len(values) = k /\ k \in Nat
  BY <1>2, FS_CardinalityType DEF ValuesRight
<1>5. Cardinality(T) = k + 1
  BY <1>2, <1>3, FS_AddElement
<1>6. /\ more \in Seq(Sample) /\ Len(more) = k + 1
      /\ \A i \in 1..k : more[i] = values[i]
      /\ more[k + 1] = sample
  BY <1>4, AppendedAt
<1>7. \A i \in S : Rank(S, i) \in 1..k
  BY <1>2, RankIsBijective
<1> HIDE DEF n, longer, more, T, k
<1>8. \A i \in S : Rank(T, i) = Rank(S, i)
  <2> SUFFICES ASSUME NEW i \in S
               PROVE  Rank(T, i) = Rank(S, i)
    OBVIOUS
  <2>1. ~(n + 1 <= i)
    BY <1>1, <1>2
  <2>2. {j \in T : j <= i} = {j \in S : j <= i}
    BY <1>3, <2>1
  <2> QED
    BY <2>2 DEF Rank
<1>9. Rank(T, n + 1) = k + 1
  <2>1. \A j \in T : j <= n + 1
    BY <1>1, <1>2, <1>3
  <2>2. {j \in T : j <= n + 1} = T
    BY <2>1
  <2> QED
    BY <1>5, <2>2 DEF Rank
<1>10. \A i \in T : /\ more[Rank(T, i)].series = longer[i].series
                    /\ more[Rank(T, i)].value = longer[i].value
  <2> SUFFICES ASSUME NEW i \in T
               PROVE  /\ more[Rank(T, i)].series = longer[i].series
                      /\ more[Rank(T, i)].value = longer[i].value
    OBVIOUS
  <2>1. CASE i \in S
    <3>1. more[Rank(T, i)] = values[Rank(S, i)] /\ longer[i] = events[i]
      BY <1>1, <1>2, <1>6, <1>7, <1>8, <2>1
    <3>2. values[Rank(S, i)].series = events[i].series /\ values[Rank(S, i)].value = events[i].value
      BY <2>1 DEF ValuesRight
    <3> QED
      BY <3>1, <3>2
  <2>2. CASE i = n + 1
    <3>1. more[Rank(T, i)] = sample /\ longer[i] = e
      BY <1>1, <1>6, <1>9, <2>2
    <3> QED
      BY <3>1
  <2> QED
    BY <1>3, <2>1, <2>2
<1>11. ValuesRight(more, longer)
  BY <1>5, <1>6, <1>10 DEF ValuesRight, T
<1> QED
  BY <1>11 DEF more, longer

LEMMA NoSampleAdded ==
    ASSUME NEW events \in Seq(AnEvent), NEW e \in AnEvent, e.kind \notin ValueKinds,
           NEW values, ValuesRight(values, events)
    PROVE  ValuesRight(values, Append(events, e))
<1> DEFINE longer == Append(events, e)
<1>1. Samples(longer) = Samples(events)
  BY SamplesAppend
<1>2. \A i \in Samples(events) : longer[i] = events[i]
  BY SamplesFinite, AppendedAt
<1> HIDE DEF longer
<1>3. ValuesRight(values, longer)
  BY <1>1, <1>2 DEF ValuesRight
<1> QED
  BY <1>3 DEF longer

(***************************************************************************)
(* What the history of a batch has of people, choices and counters.        *)
(***************************************************************************)
PeopleOf(events)  == {<<e.series, e.id>> : e \in {x \in events : x.kind = "unique"}}
ChoicesOf(events) == {<<e.series, e.id, e.item>> : e \in {x \in events : x.kind = "top"}}

LEMMA HistoryAppend ==
    ASSUME NEW events, NEW e
    PROVE  /\ Marks(events \cup {e}) = Marks(events)
                 \cup (IF e.kind = "counter" THEN {<<e.series, e.at>>} ELSE {})
           /\ PeopleOf(events \cup {e}) = PeopleOf(events)
                 \cup (IF e.kind = "unique" THEN {<<e.series, e.id>>} ELSE {})
           /\ ChoicesOf(events \cup {e}) = ChoicesOf(events)
                 \cup (IF e.kind = "top" THEN {<<e.series, e.id, e.item>>} ELSE {})
<1>1. Marks(events \cup {e}) = Marks(events)
         \cup (IF e.kind = "counter" THEN {<<e.series, e.at>>} ELSE {})
  BY DEF Marks
<1>2. PeopleOf(events \cup {e}) = PeopleOf(events)
         \cup (IF e.kind = "unique" THEN {<<e.series, e.id>>} ELSE {})
  BY DEF PeopleOf
<1>3. ChoicesOf(events \cup {e}) = ChoicesOf(events)
         \cup (IF e.kind = "top" THEN {<<e.series, e.id, e.item>>} ELSE {})
  BY DEF ChoicesOf
<1> QED
  BY <1>1, <1>2, <1>3

(***************************************************************************)
(* The builder, field by field.                                            *)
(***************************************************************************)
IsBuilder(b) ==
    b = [taken |-> b.taken, counters |-> b.counters, values |-> b.values,
         uniques |-> b.uniques, tops |-> b.tops, counterIndex |-> b.counterIndex,
         uniqueSeen |-> b.uniqueSeen, topSeen |-> b.topSeen]

WithTaken(b, t)        == [b EXCEPT !.taken = t]
WithCounters(b, c)     == [b EXCEPT !.counters = c]
WithIndexed(b, c, x)   == [b EXCEPT !.counters = c, !.counterIndex = x]
WithUniques(b, u, k)   == [b EXCEPT !.uniqueSeen = k, !.uniques = u]
WithTops(b, t, k)      == [b EXCEPT !.topSeen = k, !.tops = t]
WithValues(b, v)       == [b EXCEPT !.values = v]

LEMMA WithTakenFields ==
    ASSUME NEW b, IsBuilder(b), NEW t
    PROVE  /\ IsBuilder(WithTaken(b, t)) /\ WithTaken(b, t).taken = t
           /\ WithTaken(b, t).counters = b.counters /\ WithTaken(b, t).values = b.values
           /\ WithTaken(b, t).uniques = b.uniques /\ WithTaken(b, t).tops = b.tops
           /\ WithTaken(b, t).counterIndex = b.counterIndex
           /\ WithTaken(b, t).uniqueSeen = b.uniqueSeen /\ WithTaken(b, t).topSeen = b.topSeen
BY DEF WithTaken, IsBuilder

LEMMA WithCountersFields ==
    ASSUME NEW b, IsBuilder(b), NEW c
    PROVE  /\ IsBuilder(WithCounters(b, c)) /\ WithCounters(b, c).counters = c
           /\ WithCounters(b, c).taken = b.taken /\ WithCounters(b, c).values = b.values
           /\ WithCounters(b, c).uniques = b.uniques /\ WithCounters(b, c).tops = b.tops
           /\ WithCounters(b, c).counterIndex = b.counterIndex
           /\ WithCounters(b, c).uniqueSeen = b.uniqueSeen /\ WithCounters(b, c).topSeen = b.topSeen
BY DEF WithCounters, IsBuilder

LEMMA WithIndexedFields ==
    ASSUME NEW b, IsBuilder(b), NEW c, NEW x
    PROVE  /\ IsBuilder(WithIndexed(b, c, x)) /\ WithIndexed(b, c, x).counters = c
           /\ WithIndexed(b, c, x).taken = b.taken /\ WithIndexed(b, c, x).values = b.values
           /\ WithIndexed(b, c, x).uniques = b.uniques /\ WithIndexed(b, c, x).tops = b.tops
           /\ WithIndexed(b, c, x).counterIndex = x
           /\ WithIndexed(b, c, x).uniqueSeen = b.uniqueSeen /\ WithIndexed(b, c, x).topSeen = b.topSeen
<1>1. PICK t0, c0, v0, u0, p0, x0, k0, s0 :
         b = [taken |-> t0, counters |-> c0, values |-> v0, uniques |-> u0,
              tops |-> p0, counterIndex |-> x0, uniqueSeen |-> k0, topSeen |-> s0]
  BY Zenon DEF IsBuilder
<1>2. PICK b1 : b1 = [b EXCEPT !.counters = c]
  OBVIOUS
<1>3. b1 = [taken |-> t0, counters |-> c, values |-> v0, uniques |-> u0,
           tops |-> p0, counterIndex |-> x0, uniqueSeen |-> k0, topSeen |-> s0]
  BY <1>1, <1>2
<1>4. WithIndexed(b, c, x) = [b1 EXCEPT !.counterIndex = x]
  BY <1>2, Zenon DEF WithIndexed
<1>5. WithIndexed(b, c, x) =
         [taken |-> t0, counters |-> c, values |-> v0, uniques |-> u0,
          tops |-> p0, counterIndex |-> x, uniqueSeen |-> k0, topSeen |-> s0]
  BY <1>3, <1>4
<1> QED
  BY <1>1, <1>5 DEF IsBuilder

LEMMA WithUniquesFields ==
    ASSUME NEW b, IsBuilder(b), NEW u, NEW k
    PROVE  /\ IsBuilder(WithUniques(b, u, k)) /\ WithUniques(b, u, k).uniques = u
           /\ WithUniques(b, u, k).taken = b.taken /\ WithUniques(b, u, k).values = b.values
           /\ WithUniques(b, u, k).counters = b.counters /\ WithUniques(b, u, k).tops = b.tops
           /\ WithUniques(b, u, k).counterIndex = b.counterIndex
           /\ WithUniques(b, u, k).uniqueSeen = k /\ WithUniques(b, u, k).topSeen = b.topSeen
<1>1. PICK t0, c0, v0, u0, p0, x0, k0, s0 :
         b = [taken |-> t0, counters |-> c0, values |-> v0, uniques |-> u0,
              tops |-> p0, counterIndex |-> x0, uniqueSeen |-> k0, topSeen |-> s0]
  BY Zenon DEF IsBuilder
<1>2. PICK b1 : b1 = [b EXCEPT !.uniqueSeen = k]
  OBVIOUS
<1>3. b1 = [taken |-> t0, counters |-> c0, values |-> v0, uniques |-> u0,
           tops |-> p0, counterIndex |-> x0, uniqueSeen |-> k, topSeen |-> s0]
  BY <1>1, <1>2
<1>4. WithUniques(b, u, k) = [b1 EXCEPT !.uniques = u]
  BY <1>2, Zenon DEF WithUniques
<1>5. WithUniques(b, u, k) =
         [taken |-> t0, counters |-> c0, values |-> v0, uniques |-> u,
          tops |-> p0, counterIndex |-> x0, uniqueSeen |-> k, topSeen |-> s0]
  BY <1>3, <1>4
<1> QED
  BY <1>1, <1>5 DEF IsBuilder

LEMMA WithTopsFields ==
    ASSUME NEW b, IsBuilder(b), NEW t, NEW k
    PROVE  /\ IsBuilder(WithTops(b, t, k)) /\ WithTops(b, t, k).tops = t
           /\ WithTops(b, t, k).taken = b.taken /\ WithTops(b, t, k).values = b.values
           /\ WithTops(b, t, k).counters = b.counters /\ WithTops(b, t, k).uniques = b.uniques
           /\ WithTops(b, t, k).counterIndex = b.counterIndex
           /\ WithTops(b, t, k).uniqueSeen = b.uniqueSeen /\ WithTops(b, t, k).topSeen = k
<1>1. PICK t0, c0, v0, u0, p0, x0, k0, s0 :
         b = [taken |-> t0, counters |-> c0, values |-> v0, uniques |-> u0,
              tops |-> p0, counterIndex |-> x0, uniqueSeen |-> k0, topSeen |-> s0]
  BY Zenon DEF IsBuilder
<1>2. PICK b1 : b1 = [b EXCEPT !.topSeen = k]
  OBVIOUS
<1>3. b1 = [taken |-> t0, counters |-> c0, values |-> v0, uniques |-> u0,
           tops |-> p0, counterIndex |-> x0, uniqueSeen |-> k0, topSeen |-> k]
  BY <1>1, <1>2
<1>4. WithTops(b, t, k) = [b1 EXCEPT !.tops = t]
  BY <1>2, Zenon DEF WithTops
<1>5. WithTops(b, t, k) =
         [taken |-> t0, counters |-> c0, values |-> v0, uniques |-> u0,
          tops |-> t, counterIndex |-> x0, uniqueSeen |-> k0, topSeen |-> k]
  BY <1>3, <1>4
<1> QED
  BY <1>1, <1>5 DEF IsBuilder

LEMMA WithValuesFields ==
    ASSUME NEW b, IsBuilder(b), NEW v
    PROVE  /\ IsBuilder(WithValues(b, v)) /\ WithValues(b, v).values = v
           /\ WithValues(b, v).taken = b.taken /\ WithValues(b, v).tops = b.tops
           /\ WithValues(b, v).counters = b.counters /\ WithValues(b, v).uniques = b.uniques
           /\ WithValues(b, v).counterIndex = b.counterIndex
           /\ WithValues(b, v).uniqueSeen = b.uniqueSeen /\ WithValues(b, v).topSeen = b.topSeen
BY DEF WithValues, IsBuilder

SampleOf(e) == [series |-> e.series, value |-> e.value, at |-> e.at,
                sparse  |-> e.kind = "value_sparse", success |-> e.kind = "success"]
PersonOf(e) == [series |-> e.series, id |-> e.id, at |-> e.at]
ChoiceOf(e) == [series |-> e.series, id |-> e.id, item |-> e.item, at |-> e.at]

LEMMA AddCounterIs ==
    ASSUME NEW b, NEW e, e.kind = "counter"
    PROVE  /\ e.series \in DOMAIN b.counterIndex =>
                 Add(b, e) = WithCounters(b,
                    [b.counters EXCEPT ![b.counterIndex[e.series]] = Raised(@, e)])
           /\ e.series \notin DOMAIN b.counterIndex
              /\ Cardinality(DOMAIN b.counterIndex) < MaxSeriesPerBatch =>
                 Add(b, e) = WithIndexed(b, Append(b.counters, CounterOf(e)),
                                WithEntry(b.counterIndex, e.series, Len(b.counters) + 1))
           /\ e.series \notin DOMAIN b.counterIndex
              /\ ~(Cardinality(DOMAIN b.counterIndex) < MaxSeriesPerBatch) =>
                 Add(b, e) = WithIndexed(b, Append(b.counters, CounterOf(e)), b.counterIndex)
<1>1. Add(b, e) = AddCounter(b, e)
  BY DEF Add
<1>2. ASSUME e.series \in DOMAIN b.counterIndex
      PROVE  AddCounter(b, e) = WithCounters(b,
                [b.counters EXCEPT ![b.counterIndex[e.series]] = Raised(@, e)])
  BY <1>2, Zenon DEF AddCounter, WithCounters
<1>3. ASSUME e.series \notin DOMAIN b.counterIndex,
             Cardinality(DOMAIN b.counterIndex) < MaxSeriesPerBatch
      PROVE  AddCounter(b, e) = WithIndexed(b, Append(b.counters, CounterOf(e)),
                                   WithEntry(b.counterIndex, e.series, Len(b.counters) + 1))
  BY <1>3, Zenon DEF AddCounter, WithIndexed, CounterOf
<1>4. ASSUME e.series \notin DOMAIN b.counterIndex,
             ~(Cardinality(DOMAIN b.counterIndex) < MaxSeriesPerBatch)
      PROVE  AddCounter(b, e) = WithIndexed(b, Append(b.counters, CounterOf(e)), b.counterIndex)
  BY <1>4, Zenon DEF AddCounter, WithIndexed, CounterOf
<1> QED
  BY <1>1, <1>2, <1>3, <1>4, Zenon

LEMMA AddUniqueIs ==
    ASSUME NEW b, NEW e, e.kind = "unique"
    PROVE  Add(b, e) = IF UniqueKey(e) \in b.uniqueSeen THEN b
                       ELSE WithUniques(b, Append(b.uniques, PersonOf(e)),
                                           b.uniqueSeen \cup {UniqueKey(e)})
<1>1. Add(b, e) = AddUnique(b, e)
  BY DEF Add
<1> QED
  BY <1>1, Zenon DEF AddUnique, WithUniques, PersonOf

LEMMA AddTopIs ==
    ASSUME NEW b, NEW e, e.kind = "top"
    PROVE  Add(b, e) = IF TopKey(e) \in b.topSeen THEN b
                       ELSE WithTops(b, Append(b.tops, ChoiceOf(e)), b.topSeen \cup {TopKey(e)})
<1>1. Add(b, e) = AddTop(b, e)
  BY DEF Add
<1> QED
  BY <1>1, Zenon DEF AddTop, WithTops, ChoiceOf

LEMMA AddValueIs ==
    ASSUME NEW b, NEW e, e.kind \in ValueKinds
    PROVE  Add(b, e) = WithValues(b, Append(b.values, SampleOf(e)))
<1>1. Add(b, e) = AddValue(b, e)
  BY DEF Add, ValueKinds
<1> QED
  BY <1>1, Zenon DEF AddValue, WithValues, SampleOf

(***************************************************************************)
(* A builder agrees with the events it was built from.                     *)
(***************************************************************************)
PeopleRight(b, events) ==
    /\ b.uniques \in Seq(Person) /\ b.uniqueSeen = PeopleOf(events)
    /\ ListedOnce(PersonKeys(b.uniques), b.uniqueSeen)

ChoicesRight(b, events) ==
    /\ b.tops \in Seq(Choice) /\ b.topSeen = ChoicesOf(events)
    /\ ListedOnce(ChoiceKeys(b.tops), b.topSeen)

BuilderRight(b, events) ==
    /\ IsBuilder(b) /\ events \in Seq(AnEvent)
    /\ CountersRight(b.counters, b.counterIndex, Marks(Range(events)))
    /\ PeopleRight(b, Range(events)) /\ ChoicesRight(b, Range(events))
    /\ ValuesRight(b.values, events)

LEMMA EmptyRight == BuilderRight(EmptyBuilder, << >>)
<1> DEFINE b == EmptyBuilder
<1>1. /\ IsBuilder(b) /\ b.counters = << >> /\ b.values = << >> /\ b.uniques = << >>
      /\ b.tops = << >> /\ b.counterIndex = << >> /\ b.uniqueSeen = {} /\ b.topSeen = {}
  BY DEF EmptyBuilder, IsBuilder
<1>2. Range(<< >>) = {} /\ << >> \in Seq(AnEvent) /\ << >> \in Seq(Person) /\ << >> \in Seq(Choice)
  BY DEF Range
<1>3. Marks({}) = {} /\ PeopleOf({}) = {} /\ ChoicesOf({}) = {}
  BY DEF Marks, PeopleOf, ChoicesOf
<1>4. PersonKeys(<< >>) = << >> /\ ChoiceKeys(<< >>) = << >>
  BY DEF PersonKeys, ChoiceKeys
<1> HIDE DEF b
<1>5. PeopleRight(b, {}) /\ ChoicesRight(b, {})
  BY <1>1, <1>2, <1>3, <1>4, NothingListed DEF PeopleRight, ChoicesRight
<1>6. CountersRight(b.counters, b.counterIndex, Marks({})) /\ ValuesRight(b.values, << >>)
  BY <1>1, <1>3, NoCounters, NoSamples
<1>7. BuilderRight(b, << >>)
  BY <1>1, <1>2, <1>5, <1>6 DEF BuilderRight
<1> QED
  BY <1>7 DEF b

\* What a reduction adds to the value of a series.
AddedValue(e, s) == IF e.kind = "counter" /\ e.series = s THEN e.value ELSE 0

LEMMA EventFields ==
    ASSUME NEW e \in AnEvent
    PROVE  /\ e.series \in AllSeries /\ e.value \in Nat /\ e.at \in Nat
           /\ e.id \in Ids /\ e.item \in Items /\ e.kind \in Kinds
           /\ CounterOf(e) \in Counter /\ SampleOf(e) \in Sample
           /\ PersonOf(e) \in Person /\ ChoiceOf(e) \in Choice
           /\ CounterOf(e).series = e.series /\ CounterOf(e).value = e.value
           /\ SampleOf(e).series = e.series /\ SampleOf(e).value = e.value
           /\ PersonOf(e).series = e.series /\ PersonOf(e).id = e.id
           /\ ChoiceOf(e).series = e.series /\ ChoiceOf(e).id = e.id /\ ChoiceOf(e).item = e.item
<1>1. /\ e.series \in AllSeries /\ e.value \in Nat /\ e.at \in Nat
      /\ e.id \in Ids /\ e.item \in Items /\ e.kind \in Kinds
  BY DEF AnEvent
<1>2. CounterOf(e) \in Counter /\ CounterOf(e).series = e.series /\ CounterOf(e).value = e.value
  BY <1>1 DEF CounterOf, Counter
<1>3. SampleOf(e) \in Sample /\ SampleOf(e).series = e.series /\ SampleOf(e).value = e.value
  BY <1>1 DEF SampleOf, Sample
<1>4. PersonOf(e) \in Person /\ PersonOf(e).series = e.series /\ PersonOf(e).id = e.id
  BY <1>1 DEF PersonOf, Person
<1>5. /\ ChoiceOf(e) \in Choice /\ ChoiceOf(e).series = e.series /\ ChoiceOf(e).id = e.id
      /\ ChoiceOf(e).item = e.item
  BY <1>1 DEF ChoiceOf, Choice
<1> QED
  BY <1>1, <1>2, <1>3, <1>4, <1>5

LEMMA MarksTimes ==
    ASSUME NEW events \in Seq(AnEvent)
    PROVE  \A m \in Marks(Range(events)) : m[1] \in AllSeries /\ m[2] \in Nat
<1>1. Range(events) \in SUBSET AnEvent
  BY RangeFinite
<1>2. \A e \in AnEvent : e.series \in AllSeries /\ e.at \in Nat
  BY DEF AnEvent
<1> QED
  BY <1>1, <1>2 DEF Marks

\* The counters after an event was added.
LEMMA AddKeepsCounters ==
    ASSUME NEW b, NEW events, BuilderRight(b, events), NEW e \in AnEvent,
           NEW b2, b2 = Add(b, e), e.kind # "total"
    PROVE  /\ CountersRight(b2.counters, b2.counterIndex, Marks(Range(events) \cup {e}))
           /\ \A s : CounterValue(b2.counters, s) = CounterValue(b.counters, s) + AddedValue(e, s)
<1> DEFINE marks == Marks(Range(events))
           marks2 == Marks(Range(events) \cup {e})
           mark == <<e.series, e.at>>
<1>1. /\ IsBuilder(b) /\ events \in Seq(AnEvent)
      /\ CountersRight(b.counters, b.counterIndex, marks)
  BY DEF BuilderRight
<1>2. b.counters \in Seq(Counter) /\ b.counterIndex \in [DOMAIN b.counterIndex -> 1..Len(b.counters)]
  BY <1>1 DEF CountersRight
<1>3. marks2 = marks \cup (IF e.kind = "counter" THEN {mark} ELSE {})
  BY HistoryAppend
<1>4. \A m \in marks : m[2] \in Nat
  BY <1>1, MarksTimes
<1>5. /\ e.series \in AllSeries /\ e.value \in Nat /\ e.at \in Nat /\ e.kind \in Kinds
      /\ CounterOf(e) \in Counter /\ CounterOf(e).series = e.series /\ CounterOf(e).value = e.value
  BY EventFields
<1> HIDE DEF marks, marks2
<1>6. CASE e.kind = "counter"
  <2>1. marks2 = marks \cup {mark}
    BY <1>3, <1>6
  <2>2. \A s : AddedValue(e, s) = IF e.series = s THEN e.value ELSE 0
    BY <1>6 DEF AddedValue
  <2>3. CASE e.series \in DOMAIN b.counterIndex
    <3> DEFINE at == b.counterIndex[e.series]
               c2 == [b.counters EXCEPT ![at] = Raised(@, e)]
    <3>1. b2.counters = c2 /\ b2.counterIndex = b.counterIndex
      <4> HIDE DEF at, c2
      <4>1. b2 = WithCounters(b, c2)
        BY <1>6, <2>3, AddCounterIs DEF c2, at
      <4> QED
        BY <1>1, <4>1, WithCountersFields
    <3>2. CountersRight(c2, b.counterIndex, marks2)
      BY <1>1, <1>4, <1>5, <2>1, <2>3, CounterRaised
    <3>3. at \in 1..Len(b.counters) /\ b.counters[at].series = e.series
      BY <1>1, <1>2, <2>3 DEF CountersRight
    <3>4. \A s : CounterValue(c2, s) = CounterValue(b.counters, s)
                    + (IF b.counters[at].series = s THEN e.value ELSE 0)
      <4>1. c2 = RaisedAt(b.counters, at, e)
        BY DEF RaisedAt
      <4> HIDE DEF at, c2
      <4>2. \A s : CounterValue(RaisedAt(b.counters, at, e), s) = CounterValue(b.counters, s)
                      + (IF b.counters[at].series = s THEN e.value ELSE 0)
        BY <1>2, <1>5, <3>3, ValueRaised
      <4> QED
        BY <4>1, <4>2
    <3> HIDE DEF at, c2
    <3> QED
      BY <2>2, <3>1, <3>2, <3>3, <3>4 DEF marks2
  <2>4. CASE e.series \notin DOMAIN b.counterIndex
    <3> DEFINE c2 == Append(b.counters, CounterOf(e))
    <3>1. \A s : CounterValue(c2, s) = CounterValue(b.counters, s)
                    + (IF e.series = s THEN e.value ELSE 0)
      BY <1>2, <1>5, ValueAppended
    <3>2. CASE Cardinality(DOMAIN b.counterIndex) < MaxSeriesPerBatch
      <4> DEFINE x2 == WithEntry(b.counterIndex, e.series, Len(b.counters) + 1)
      <4>1. CountersRight(c2, x2, marks2)
        BY <1>1, <1>5, <2>1, <2>4, <3>2, CounterIndexed
      <4>2. b2.counters = c2 /\ b2.counterIndex = x2
        <5> HIDE DEF c2, x2
        <5>1. b2 = WithIndexed(b, c2, x2)
          BY <1>6, <2>4, <3>2, AddCounterIs DEF c2, x2
        <5> QED
          BY <1>1, <5>1, WithIndexedFields
      <4> HIDE DEF c2, x2
      <4> QED
        BY <2>2, <3>1, <4>1, <4>2 DEF marks2
    <3>3. CASE ~(Cardinality(DOMAIN b.counterIndex) < MaxSeriesPerBatch)
      <4>1. CountersRight(c2, b.counterIndex, marks2)
        BY <1>1, <1>5, <2>1, <2>4, <3>3, CounterPastCap
      <4>2. b2.counters = c2 /\ b2.counterIndex = b.counterIndex
        <5> HIDE DEF c2
        <5>1. b2 = WithIndexed(b, c2, b.counterIndex)
          BY <1>6, <2>4, <3>3, AddCounterIs DEF c2
        <5> QED
          BY <1>1, <5>1, WithIndexedFields
      <4> HIDE DEF c2
      <4> QED
        BY <2>2, <3>1, <4>1, <4>2 DEF marks2
    <3> QED
      BY <3>2, <3>3
  <2> QED
    BY <2>3, <2>4 DEF marks2
<1>7. CASE e.kind # "counter"
  <2>1. marks2 = marks
    BY <1>3, <1>7
  <2>2. \A s : AddedValue(e, s) = 0 /\ CounterValue(b.counters, s) \in Nat
    BY <1>2, <1>7, ValueIsSum DEF AddedValue
  <2>3. b2.counters = b.counters /\ b2.counterIndex = b.counterIndex
    <3>1. e.kind = "unique" \/ e.kind = "top" \/ e.kind \in ValueKinds
      BY <1>5, <1>7 DEF Kinds, CounterKinds
    <3>2. CASE e.kind = "unique"
      <4> DEFINE u2 == Append(b.uniques, PersonOf(e))
                 k2 == b.uniqueSeen \cup {UniqueKey(e)}
      <4>1. b2 = b \/ b2 = WithUniques(b, u2, k2)
        BY <3>2, AddUniqueIs
      <4> HIDE DEF u2, k2
      <4> QED
        BY <1>1, <4>1, WithUniquesFields
    <3>3. CASE e.kind = "top"
      <4> DEFINE t2 == Append(b.tops, ChoiceOf(e))
                 k2 == b.topSeen \cup {TopKey(e)}
      <4>1. b2 = b \/ b2 = WithTops(b, t2, k2)
        BY <3>3, AddTopIs
      <4> HIDE DEF t2, k2
      <4> QED
        BY <1>1, <4>1, WithTopsFields
    <3>4. CASE e.kind \in ValueKinds
      <4> DEFINE v2 == Append(b.values, SampleOf(e))
      <4>1. b2 = WithValues(b, v2)
        BY <3>4, AddValueIs
      <4> HIDE DEF v2
      <4> QED
        BY <1>1, <4>1, WithValuesFields
    <3> QED
      BY <3>1, <3>2, <3>3, <3>4
  <2> QED
    BY <1>1, <2>1, <2>2, <2>3 DEF marks2
<1> QED
  BY <1>6, <1>7

\* The people, choices and samples after an event was added.
LEMMA AddKeepsPeople ==
    ASSUME NEW b, NEW events, BuilderRight(b, events), NEW e \in AnEvent,
           NEW b2, b2 = Add(b, e), e.kind = "unique"
    PROVE  /\ PeopleRight(b2, Range(events) \cup {e})
           /\ IsBuilder(b2) /\ b2.tops = b.tops /\ b2.topSeen = b.topSeen
           /\ b2.values = b.values /\ b2.taken = b.taken
<1> DEFINE key == <<e.series, e.id>>
           u2 == Append(b.uniques, PersonOf(e))
           k2 == b.uniqueSeen \cup {key}
<1>1. /\ IsBuilder(b) /\ b.uniques \in Seq(Person) /\ b.uniqueSeen = PeopleOf(Range(events))
      /\ ListedOnce(PersonKeys(b.uniques), b.uniqueSeen)
  BY DEF BuilderRight, PeopleRight
<1>2. PeopleOf(Range(events) \cup {e}) = b.uniqueSeen \cup {key}
  BY <1>1, HistoryAppend
<1>3. UniqueKey(e) = key
  BY DEF UniqueKey
<1>4. /\ PersonOf(e) \in Person /\ PersonOf(e).series = e.series /\ PersonOf(e).id = e.id
  BY EventFields
<1>5. CASE key \in b.uniqueSeen
  <2>1. b2 = b
    BY <1>3, <1>5, AddUniqueIs
  <2>2. b.uniqueSeen \cup {key} = b.uniqueSeen
    BY <1>5
  <2> QED
    BY <1>1, <1>2, <2>1, <2>2 DEF PeopleRight
<1>6. CASE key \notin b.uniqueSeen
  <2>1. u2 \in Seq(Person) /\ PersonKeys(u2) = Append(PersonKeys(b.uniques), key)
    <3>1. PICK p : p = PersonOf(e)
      OBVIOUS
    <3>2. p \in Person /\ b.uniques \in Seq(Person) /\ key = <<p.series, p.id>>
      BY <1>1, <1>4, <3>1
    <3>3. PersonKeys(Append(b.uniques, p)) = Append(PersonKeys(b.uniques), <<p.series, p.id>>)
      BY ONLY <3>2, PersonKeysAppend
    <3>4. Append(b.uniques, p) \in Seq(Person)
      BY ONLY <3>2, AppendedAt
    <3> QED
      BY <3>1, <3>2, <3>3, <3>4
  <2>2. ListedOnce(PersonKeys(u2), k2)
    BY <1>1, <1>6, <2>1, ListedMore
  <2>3. b2 = WithUniques(b, u2, k2)
    BY <1>3, <1>6, AddUniqueIs
  <2> HIDE DEF u2, k2
  <2>4. /\ IsBuilder(b2) /\ b2.uniques = u2 /\ b2.uniqueSeen = k2
        /\ b2.tops = b.tops /\ b2.topSeen = b.topSeen
        /\ b2.values = b.values /\ b2.taken = b.taken
    BY <1>1, <2>3, WithUniquesFields
  <2>5. k2 = PeopleOf(Range(events) \cup {e})
    BY <1>2 DEF k2
  <2> QED
    BY <2>1, <2>2, <2>4, <2>5 DEF PeopleRight
<1> QED
  BY <1>5, <1>6

LEMMA AddKeepsChoices ==
    ASSUME NEW b, NEW events, BuilderRight(b, events), NEW e \in AnEvent,
           NEW b2, b2 = Add(b, e), e.kind = "top"
    PROVE  /\ ChoicesRight(b2, Range(events) \cup {e})
           /\ IsBuilder(b2) /\ b2.uniques = b.uniques /\ b2.uniqueSeen = b.uniqueSeen
           /\ b2.values = b.values /\ b2.taken = b.taken
<1> DEFINE key == <<e.series, e.id, e.item>>
           t2 == Append(b.tops, ChoiceOf(e))
           k2 == b.topSeen \cup {key}
<1>1. /\ IsBuilder(b) /\ b.tops \in Seq(Choice) /\ b.topSeen = ChoicesOf(Range(events))
      /\ ListedOnce(ChoiceKeys(b.tops), b.topSeen)
  BY DEF BuilderRight, ChoicesRight
<1>2. ChoicesOf(Range(events) \cup {e}) = b.topSeen \cup {key}
  BY <1>1, HistoryAppend
<1>3. TopKey(e) = key
  BY DEF TopKey
<1>4. /\ ChoiceOf(e) \in Choice /\ ChoiceOf(e).series = e.series /\ ChoiceOf(e).id = e.id
      /\ ChoiceOf(e).item = e.item
  BY EventFields
<1>5. CASE key \in b.topSeen
  <2>1. b2 = b
    BY <1>3, <1>5, AddTopIs
  <2>2. b.topSeen \cup {key} = b.topSeen
    BY <1>5
  <2> QED
    BY <1>1, <1>2, <2>1, <2>2 DEF ChoicesRight
<1>6. CASE key \notin b.topSeen
  <2>1. t2 \in Seq(Choice) /\ ChoiceKeys(t2) = Append(ChoiceKeys(b.tops), key)
    <3>1. PICK p : p = ChoiceOf(e)
      OBVIOUS
    <3>2. p \in Choice /\ b.tops \in Seq(Choice) /\ key = <<p.series, p.id, p.item>>
      BY <1>1, <1>4, <3>1
    <3>3. ChoiceKeys(Append(b.tops, p)) = Append(ChoiceKeys(b.tops), <<p.series, p.id, p.item>>)
      BY ONLY <3>2, ChoiceKeysAppend
    <3>4. Append(b.tops, p) \in Seq(Choice)
      BY ONLY <3>2, AppendedAt
    <3> QED
      BY <3>1, <3>2, <3>3, <3>4
  <2>2. ListedOnce(ChoiceKeys(t2), k2)
    BY <1>1, <1>6, <2>1, ListedMore
  <2>3. b2 = WithTops(b, t2, k2)
    BY <1>3, <1>6, AddTopIs
  <2> HIDE DEF t2, k2
  <2>4. /\ IsBuilder(b2) /\ b2.tops = t2 /\ b2.topSeen = k2
        /\ b2.uniques = b.uniques /\ b2.uniqueSeen = b.uniqueSeen
        /\ b2.values = b.values /\ b2.taken = b.taken
    BY <1>1, <2>3, WithTopsFields
  <2>5. k2 = ChoicesOf(Range(events) \cup {e})
    BY <1>2 DEF k2
  <2> QED
    BY <2>1, <2>2, <2>4, <2>5 DEF ChoicesRight
<1> QED
  BY <1>5, <1>6

LEMMA AddCounterFrame ==
    ASSUME NEW b, IsBuilder(b), NEW e, e.kind = "counter", NEW b2, b2 = Add(b, e)
    PROVE  /\ IsBuilder(b2) /\ b2.taken = b.taken /\ b2.values = b.values
           /\ b2.uniques = b.uniques /\ b2.uniqueSeen = b.uniqueSeen
           /\ b2.tops = b.tops /\ b2.topSeen = b.topSeen
<1>1. CASE e.series \in DOMAIN b.counterIndex
  <2> DEFINE c2 == [b.counters EXCEPT ![b.counterIndex[e.series]] = Raised(@, e)]
  <2>1. b2 = WithCounters(b, c2)
    BY <1>1, AddCounterIs
  <2> HIDE DEF c2
  <2> QED
    BY <2>1, WithCountersFields
<1>2. CASE e.series \notin DOMAIN b.counterIndex
  <2> DEFINE c2 == Append(b.counters, CounterOf(e))
             x2 == WithEntry(b.counterIndex, e.series, Len(b.counters) + 1)
  <2>1. b2 = WithIndexed(b, c2, x2) \/ b2 = WithIndexed(b, c2, b.counterIndex)
    BY <1>2, AddCounterIs
  <2> HIDE DEF c2, x2
  <2> QED
    BY <2>1, WithIndexedFields
<1> QED
  BY <1>1, <1>2

Took(b, e) == [Add(b, e) EXCEPT !.taken = @ + 1]

LEMMA AddRight ==
    ASSUME NEW b, NEW events, BuilderRight(b, events), NEW e \in AnEvent, e.kind # "total",
           NEW b2, b2 = Took(b, e)
    PROVE  /\ BuilderRight(b2, Append(events, e)) /\ b2.taken = b.taken + 1
           /\ \A s : CounterValue(b2.counters, s) = CounterValue(b.counters, s) + AddedValue(e, s)
<1> DEFINE a == Add(b, e)
           seen == Range(events)
           events2 == Append(events, e)
<1>1. /\ IsBuilder(b) /\ events \in Seq(AnEvent)
      /\ PeopleRight(b, seen) /\ ChoicesRight(b, seen) /\ ValuesRight(b.values, events)
  BY DEF BuilderRight
<1>2. events2 \in Seq(AnEvent) /\ Range(events2) = seen \cup {e}
  BY <1>1, AppendedAt, RangeAppend
<1>3. /\ CountersRight(a.counters, a.counterIndex, Marks(seen \cup {e}))
      /\ \A s : CounterValue(a.counters, s) = CounterValue(b.counters, s) + AddedValue(e, s)
  BY AddKeepsCounters
<1>4. /\ e.kind # "unique" => PeopleOf(seen \cup {e}) = PeopleOf(seen)
      /\ e.kind # "top" => ChoicesOf(seen \cup {e}) = ChoicesOf(seen)
  <2> HIDE DEF seen
  <2>1. /\ PeopleOf(seen \cup {e}) = PeopleOf(seen)
              \cup (IF e.kind = "unique" THEN {<<e.series, e.id>>} ELSE {})
        /\ ChoicesOf(seen \cup {e}) = ChoicesOf(seen)
              \cup (IF e.kind = "top" THEN {<<e.series, e.id, e.item>>} ELSE {})
    BY HistoryAppend
  <2>2. ASSUME e.kind # "unique" PROVE PeopleOf(seen \cup {e}) = PeopleOf(seen)
    BY <2>1, <2>2
  <2>3. ASSUME e.kind # "top" PROVE ChoicesOf(seen \cup {e}) = ChoicesOf(seen)
    BY <2>1, <2>3
  <2> QED
    BY <2>2, <2>3
<1>5. /\ e.kind # "unique" => PeopleRight(b, seen \cup {e})
      /\ e.kind # "top" => ChoicesRight(b, seen \cup {e})
  BY <1>1, <1>4 DEF PeopleRight, ChoicesRight
<1>6. e.kind \notin ValueKinds => ValuesRight(b.values, events2)
  BY <1>1, NoSampleAdded
<1>7. \A x : /\ x.uniques = b.uniques /\ x.uniqueSeen = b.uniqueSeen
                => (PeopleRight(b, seen \cup {e}) => PeopleRight(x, seen \cup {e}))
             /\ x.tops = b.tops /\ x.topSeen = b.topSeen
                => (ChoicesRight(b, seen \cup {e}) => ChoicesRight(x, seen \cup {e}))
  BY DEF PeopleRight, ChoicesRight
<1>8. e.kind \in Kinds
  BY EventFields
<1> DEFINE Rest == /\ IsBuilder(a) /\ a.taken = b.taken
                   /\ PeopleRight(a, seen \cup {e}) /\ ChoicesRight(a, seen \cup {e})
                   /\ ValuesRight(a.values, events2)
<1>9. Rest
  <2>1. CASE e.kind = "counter"
    <3>1. /\ IsBuilder(a) /\ a.taken = b.taken /\ a.values = b.values
          /\ a.uniques = b.uniques /\ a.uniqueSeen = b.uniqueSeen
          /\ a.tops = b.tops /\ a.topSeen = b.topSeen
      BY <1>1, <2>1, AddCounterFrame
    <3>2. e.kind \notin ValueKinds
      BY <2>1 DEF ValueKinds
    <3> HIDE DEF a, seen, events2
    <3>3. PeopleRight(a, seen \cup {e}) /\ ChoicesRight(a, seen \cup {e})
      BY <1>5, <1>7, <2>1, <3>1
    <3>4. Rest
      BY <1>6, <3>1, <3>2, <3>3
    <3> QED
      BY <3>4
  <2>2. CASE e.kind = "unique"
    <3>1. /\ PeopleRight(a, seen \cup {e}) /\ IsBuilder(a) /\ a.tops = b.tops
          /\ a.topSeen = b.topSeen /\ a.values = b.values /\ a.taken = b.taken
      BY <2>2, AddKeepsPeople
    <3>2. e.kind \notin ValueKinds
      BY <2>2 DEF ValueKinds
    <3> HIDE DEF a, seen, events2
    <3>3. ChoicesRight(a, seen \cup {e})
      BY <1>5, <1>7, <2>2, <3>1
    <3> QED
      BY <1>6, <3>1, <3>2, <3>3
  <2>3. CASE e.kind = "top"
    <3>1. /\ ChoicesRight(a, seen \cup {e}) /\ IsBuilder(a) /\ a.uniques = b.uniques
          /\ a.uniqueSeen = b.uniqueSeen /\ a.values = b.values /\ a.taken = b.taken
      BY <2>3, AddKeepsChoices
    <3>2. e.kind \notin ValueKinds
      BY <2>3 DEF ValueKinds
    <3> HIDE DEF a, seen, events2
    <3>3. PeopleRight(a, seen \cup {e})
      BY <1>5, <1>7, <2>3, <3>1
    <3> QED
      BY <1>6, <3>1, <3>2, <3>3
  <2>4. CASE e.kind \in ValueKinds
    <3> DEFINE v2 == Append(b.values, SampleOf(e))
    <3>1. ValuesRight(v2, events2)
      BY <1>1, <2>4, EventFields, SampleAdded
    <3>2. a = WithValues(b, v2)
      BY <2>4, AddValueIs
    <3>3. e.kind # "unique" /\ e.kind # "top"
      BY <2>4 DEF ValueKinds
    <3> HIDE DEF a, v2, seen, events2
    <3>4. /\ IsBuilder(a) /\ a.values = v2 /\ a.taken = b.taken /\ a.tops = b.tops
          /\ a.uniques = b.uniques /\ a.uniqueSeen = b.uniqueSeen /\ a.topSeen = b.topSeen
      BY <1>1, <3>2, WithValuesFields
    <3>5. PeopleRight(a, seen \cup {e}) /\ ChoicesRight(a, seen \cup {e})
      BY <1>5, <1>7, <3>3, <3>4
    <3> QED
      BY <3>1, <3>4, <3>5
  <2> QED
    BY <1>8, <2>1, <2>2, <2>3, <2>4 DEF Kinds, CounterKinds
<1>10. b2 = WithTaken(a, a.taken + 1)
  BY Zenon DEF WithTaken, Took
<1> HIDE DEF a, seen, events2
<1>11. /\ IsBuilder(b2) /\ b2.taken = b.taken + 1 /\ b2.counters = a.counters
       /\ b2.counterIndex = a.counterIndex /\ b2.values = a.values
       /\ b2.uniques = a.uniques /\ b2.uniqueSeen = a.uniqueSeen
       /\ b2.tops = a.tops /\ b2.topSeen = a.topSeen
  <2>1. PICK t : t = a.taken + 1
    OBVIOUS
  <2>2. b2 = WithTaken(a, t) /\ t = b.taken + 1
    BY <1>9, <1>10, <2>1
  <2>3. IsBuilder(a)
    BY <1>9
  <2> HIDE DEF Rest
  <2> QED
    BY ONLY <2>2, <2>3, WithTakenFields
<1>12. PeopleRight(b2, seen \cup {e}) /\ ChoicesRight(b2, seen \cup {e})
  BY <1>9, <1>11 DEF PeopleRight, ChoicesRight
<1>13. BuilderRight(b2, events2)
  BY <1>2, <1>3, <1>9, <1>11, <1>12 DEF BuilderRight
<1> QED
  BY <1>3, <1>11, <1>13 DEF events2

\* An event that gives the builder nothing.
LEMMA NothingAdded ==
    ASSUME NEW b, NEW events, BuilderRight(b, events),
           NEW b2, b2 = [b EXCEPT !.taken = @ + 1]
    PROVE  /\ BuilderRight(b2, events) /\ b2.taken = b.taken + 1 /\ b2.counters = b.counters
<1>1. IsBuilder(b)
  BY DEF BuilderRight
<1>2. b2 = WithTaken(b, b.taken + 1)
  BY Zenon DEF WithTaken
<1>3. /\ IsBuilder(b2) /\ b2.taken = b.taken + 1 /\ b2.counters = b.counters
      /\ b2.counterIndex = b.counterIndex /\ b2.values = b.values
      /\ b2.uniques = b.uniques /\ b2.uniqueSeen = b.uniqueSeen
      /\ b2.tops = b.tops /\ b2.topSeen = b.topSeen
  BY <1>1, <1>2, WithTakenFields
<1>4. \A seen : /\ PeopleRight(b, seen) => PeopleRight(b2, seen)
                /\ ChoicesRight(b, seen) => ChoicesRight(b2, seen)
  BY <1>3 DEF PeopleRight, ChoicesRight
<1>5. BuilderRight(b2, events)
  BY <1>3, <1>4 DEF BuilderRight
<1> QED
  BY <1>3, <1>5

(***************************************************************************)
(* Readings of totals.                                                     *)
(***************************************************************************)
\* One term of a sum changes, or is added.
LEMMA SumChanged ==
    ASSUME NEW D, IsFiniteSet(D), NEW f \in [D -> Int], NEW s,
           NEW g \in [D \cup {s} -> Int], \A d \in D : d # s => g[d] = f[d]
    PROVE  /\ SumFunction(g) = SumFunction(f) - (IF s \in D THEN f[s] ELSE 0) + g[s]
           /\ SumFunction(f) \in Int /\ SumFunction(g) \in Int
<1> DEFINE R == D \ {s}
<1>1. IsFiniteSet(R) /\ IsFiniteSet(D \cup {s})
  BY FS_Subset, FS_AddElement
<1>2. SumFunction(f) = SumFunctionOnSet(f, D) /\ SumFunction(g) = SumFunctionOnSet(g, D \cup {s})
  <2>1. DOMAIN f = D /\ DOMAIN g = D \cup {s}
    OBVIOUS
  <2> QED
    BY <2>1 DEF SumFunction
<1>3. (D \cup {s}) \ {s} = R
  OBVIOUS
<1>4. s \in D \cup {s} /\ g[s] \in Int /\ \A d \in D \cup {s} : g[d] \in Int
  OBVIOUS
<1>5. SumFunctionOnSet(g, D \cup {s}) = SumFunctionOnSet(g, R) + g[s]
  BY <1>1, <1>3, <1>4, SumRemove
<1>6. SumFunctionOnSet(g, R) = SumFunctionOnSet(f, R)
  <2>1. \A d \in R : g[d] = f[d]
    OBVIOUS
  <2> HIDE DEF R
  <2> QED
    BY <1>1, <2>1, SumAgree
<1>7. SumFunctionOnSet(f, R) \in Int
  BY <1>1, SumInt
<1>8. CASE s \in D
  <2>1. SumFunctionOnSet(f, D) = SumFunctionOnSet(f, R) + f[s] /\ f[s] \in Int
    BY <1>8, SumRemove
  <2> HIDE DEF R
  <2> QED
    BY <1>2, <1>4, <1>5, <1>6, <1>7, <1>8, <2>1
<1>9. CASE s \notin D
  <2>1. SumFunctionOnSet(f, D) = SumFunctionOnSet(f, R)
    <3>1. R = D
      BY <1>9
    <3> QED
      BY <3>1
  <2> HIDE DEF R
  <2> QED
    BY <1>2, <1>4, <1>5, <1>6, <1>7, <1>9, <2>1
<1> QED
  BY <1>8, <1>9

Reading == [first : Nat, last : Nat, number : Nat, fallen : Nat, oversize : Nat, oversized : Nat]

RiseOf(r) == r.last - r.first + r.fallen - r.oversize

LEMMA FirstReadingFields ==
    ASSUME NEW v \in Nat
    PROVE  /\ FirstReading(v) \in Reading /\ FirstReading(v).last = v
           /\ FirstReading(v).number = 1 /\ FirstReading(v).oversized = 0
           /\ RiseOf(FirstReading(v)) = 0
BY DEF FirstReading, Reading, RiseOf

LEMMA NextReadingFields ==
    ASSUME NEW r \in Reading, NEW v \in Nat
    PROVE  /\ NextReading(r, v) \in Reading
           /\ NextReading(r, v).last = v /\ NextReading(r, v).number = r.number + 1
           /\ NextReading(r, v).oversized
                 = r.oversized + (IF v - r.last > MaxCounter THEN 1 ELSE 0)
           /\ RiseOf(NextReading(r, v)) = RiseOf(r)
                 + (IF v - r.last \in 1..MaxCounter THEN v - r.last ELSE 0)
<1> DEFINE large == v - r.last > MaxCounter
<1>1. /\ r.first \in Nat /\ r.last \in Nat /\ r.number \in Nat /\ r.fallen \in Nat
      /\ r.oversize \in Nat /\ r.oversized \in Nat
  BY DEF Reading
<1>2. MaxCounter \in Nat
  BY LimitsNat
<1>3. PICK n : n = r.number + 1
  OBVIOUS
<1>4. PICK f : f = IF v < r.last THEN r.fallen + r.last - v ELSE r.fallen
  OBVIOUS
<1>5. PICK o : o = IF large THEN r.oversize + v - r.last ELSE r.oversize
  OBVIOUS
<1>6. PICK z : z = IF large THEN r.oversized + 1 ELSE r.oversized
  OBVIOUS
<1>7. n \in Nat /\ f \in Nat /\ o \in Nat /\ z \in Nat
  BY <1>1, <1>2, <1>3, <1>4, <1>5, <1>6
<1>8. PICK x1 : x1 = [r EXCEPT !.last = v]
  OBVIOUS
<1>9. PICK x2 : x2 = [x1 EXCEPT !.number = n]
  OBVIOUS
<1>10. PICK x3 : x3 = [x2 EXCEPT !.fallen = f]
  OBVIOUS
<1>11. PICK x4 : x4 = [x3 EXCEPT !.oversize = o]
  OBVIOUS
<1>12. PICK x5 : x5 = [x4 EXCEPT !.oversized = z]
  OBVIOUS
<1>13. NextReading(r, v) = x5
  BY <1>3, <1>4, <1>5, <1>6, <1>8, <1>9, <1>10, <1>11, <1>12, Zenon DEF NextReading
<1>14. /\ x5 \in Reading /\ x5.first = r.first /\ x5.last = v /\ x5.number = n
       /\ x5.fallen = f /\ x5.oversize = o /\ x5.oversized = z
  <2> HIDE DEF large
  <2>1. x1 \in Reading /\ x1.first = r.first /\ x1.last = v
    BY <1>8 DEF Reading
  <2>2. x2 \in Reading /\ x2.first = r.first /\ x2.last = v /\ x2.number = n
    BY <1>7, <1>9, <2>1 DEF Reading
  <2>3. x3 \in Reading /\ x3.first = r.first /\ x3.last = v /\ x3.number = n /\ x3.fallen = f
    BY <1>7, <1>10, <2>2 DEF Reading
  <2>4. /\ x4 \in Reading /\ x4.first = r.first /\ x4.last = v /\ x4.number = n
        /\ x4.fallen = f /\ x4.oversize = o
    BY <1>7, <1>11, <2>3 DEF Reading
  <2> QED
    BY <1>7, <1>12, <2>4 DEF Reading
<1>15. RiseOf(x5) = v - r.first + f - o /\ RiseOf(r) = r.last - r.first + r.fallen - r.oversize
  BY <1>13, <1>14 DEF RiseOf
<1>16. v - r.first + f - o = (r.last - r.first + r.fallen - r.oversize)
          + (IF v - r.last \in 1..MaxCounter THEN v - r.last ELSE 0)
  BY <1>1, <1>2, <1>4, <1>5
<1>17. z = r.oversized + (IF v - r.last > MaxCounter THEN 1 ELSE 0)
  BY <1>1, <1>6
<1> QED
  BY <1>3, <1>13, <1>14, <1>15, <1>16, <1>17

\* What is known of the totals: the last reading of each, until there are too many.
ReadingsRight(t, r) ==
    /\ DOMAIN r \in SUBSET AllSeries /\ IsFiniteSet(DOMAIN r)
    /\ r \in [DOMAIN r -> Reading]
    /\ DOMAIN t \in SUBSET DOMAIN r /\ t \in [DOMAIN t -> Nat]
    /\ \A s \in DOMAIN t : t[s] = r[s].last
    /\ \A s \in DOMAIN r : s \notin DOMAIN t => ~(Cardinality(DOMAIN t) < MaxTotalSeries)

Rises(t, r, s) == IF s \in DOMAIN t THEN RiseOf(r[s]) ELSE 0

LostOf(t, r) == [s \in DOMAIN r |-> IF s \in DOMAIN t THEN r[s].oversized ELSE r[s].number]

Lost(t, r) == SumFunction(LostOf(t, r))

LEMMA LostTyped ==
    ASSUME NEW t, NEW r, r \in [DOMAIN r -> Reading]
    PROVE  LostOf(t, r) \in [DOMAIN r -> Int]
<1>1. \A s \in DOMAIN r : r[s].oversized \in Int /\ r[s].number \in Int
  BY DEF Reading
<1> QED
  BY <1>1 DEF LostOf

ReadingsAfter(r, s, v) ==
    IF s \in DOMAIN r THEN [r EXCEPT ![s] = NextReading(@, v)]
                      ELSE WithEntry(r, s, FirstReading(v))

TotalsAfter(t, s, v) == [t EXCEPT ![s] = v]

\* A reading of a series whose total is known.
LEMMA TrackedRead ==
    ASSUME NEW t, NEW r, ReadingsRight(t, r), NEW s \in DOMAIN t, NEW v \in Nat,
           NEW r2, r2 = ReadingsAfter(r, s, v), NEW t2, t2 = TotalsAfter(t, s, v)
    PROVE  /\ ReadingsRight(t2, r2) /\ t[s] \in Nat
           /\ \A u : Rises(t2, r2, u) = Rises(t, r, u)
                 + (IF u = s /\ v - t[s] \in 1..MaxCounter THEN v - t[s] ELSE 0)
           /\ Lost(t2, r2) = Lost(t, r) + (IF v - t[s] > MaxCounter THEN 1 ELSE 0)
<1>1. /\ DOMAIN r \in SUBSET AllSeries /\ IsFiniteSet(DOMAIN r)
      /\ \A u \in DOMAIN r : r[u] \in Reading
      /\ DOMAIN t \in SUBSET DOMAIN r /\ \A u \in DOMAIN t : t[u] \in Nat /\ t[u] = r[u].last
      /\ r \in [DOMAIN r -> Reading]
  BY DEF ReadingsRight
<1>2. PICK x : x = NextReading(r[s], v)
  OBVIOUS
<1>3. s \in DOMAIN r /\ r[s] \in Reading /\ t[s] = r[s].last /\ t[s] \in Nat
  BY <1>1
<1>4. /\ x \in Reading /\ x.last = v
      /\ x.oversized = r[s].oversized + (IF v - t[s] > MaxCounter THEN 1 ELSE 0)
      /\ RiseOf(x) = RiseOf(r[s]) + (IF v - t[s] \in 1..MaxCounter THEN v - t[s] ELSE 0)
  <2>1. /\ x \in Reading /\ x.last = v
        /\ x.oversized = r[s].oversized + (IF v - r[s].last > MaxCounter THEN 1 ELSE 0)
        /\ RiseOf(x) = RiseOf(r[s]) + (IF v - r[s].last \in 1..MaxCounter THEN v - r[s].last ELSE 0)
    <3>1. r[s] \in Reading /\ v \in Nat
      BY <1>3
    <3>2. /\ NextReading(r[s], v) \in Reading /\ NextReading(r[s], v).last = v
          /\ NextReading(r[s], v).oversized
                = r[s].oversized + (IF v - r[s].last > MaxCounter THEN 1 ELSE 0)
          /\ RiseOf(NextReading(r[s], v)) = RiseOf(r[s])
                + (IF v - r[s].last \in 1..MaxCounter THEN v - r[s].last ELSE 0)
      BY ONLY <3>1, NextReadingFields
    <3> QED
      BY <1>2, <3>2, Zenon
  <2> QED
    BY <1>3, <2>1, Zenon
<1>5. /\ DOMAIN r2 = DOMAIN r /\ r2[s] = x /\ \A u \in DOMAIN r : u # s => r2[u] = r[u]
      /\ r2 = [u \in DOMAIN r2 |-> r2[u]]
  BY <1>2, <1>3 DEF ReadingsAfter
<1>6. /\ DOMAIN t2 = DOMAIN t /\ t2[s] = v /\ \A u \in DOMAIN t : u # s => t2[u] = t[u]
      /\ t2 = [u \in DOMAIN t2 |-> t2[u]]
  BY DEF TotalsAfter
<1>7. r2 \in [DOMAIN r2 -> Reading] /\ t2 \in [DOMAIN t2 -> Nat]
  <2>1. \A u \in DOMAIN r2 : r2[u] \in Reading
    BY <1>1, <1>4, <1>5
  <2>2. \A u \in DOMAIN t2 : t2[u] \in Nat
    BY <1>1, <1>6
  <2> QED
    BY <1>5, <1>6, <2>1, <2>2
<1>8. \A u \in DOMAIN t2 : t2[u] = r2[u].last
  BY <1>1, <1>4, <1>5, <1>6
<1>9. ReadingsRight(t2, r2)
  <2>1. \A u \in DOMAIN r2 : u \notin DOMAIN t2 => ~(Cardinality(DOMAIN t2) < MaxTotalSeries)
    <3>1. \A u \in DOMAIN r : u \notin DOMAIN t => ~(Cardinality(DOMAIN t) < MaxTotalSeries)
      BY DEF ReadingsRight
    <3> QED
      BY <1>5, <1>6, <3>1
  <2> QED
    BY <1>1, <1>5, <1>6, <1>7, <1>8, <2>1 DEF ReadingsRight
<1>10. \A u : Rises(t2, r2, u) = Rises(t, r, u)
                 + (IF u = s /\ v - t[s] \in 1..MaxCounter THEN v - t[s] ELSE 0)
  <2> SUFFICES ASSUME NEW u
               PROVE  Rises(t2, r2, u) = Rises(t, r, u)
                         + (IF u = s /\ v - t[s] \in 1..MaxCounter THEN v - t[s] ELSE 0)
    OBVIOUS
  <2>1. Rises(t, r, u) \in Int
    <3>1. \A y \in Reading : RiseOf(y) \in Int
      BY DEF RiseOf, Reading
    <3> QED
      BY <1>1, <3>1 DEF Rises
  <2>2. CASE u = s
    <3>1. Rises(t2, r2, u) = RiseOf(x) /\ Rises(t, r, u) = RiseOf(r[s])
      BY <1>5, <1>6, <2>2 DEF Rises
    <3> QED
      BY <1>4, <2>2, <3>1
  <2>3. CASE u # s
    <3>1. Rises(t2, r2, u) = Rises(t, r, u)
      BY <1>1, <1>5, <1>6, <2>3 DEF Rises
    <3> QED
      BY <2>1, <2>3, <3>1
  <2> QED
    BY <2>2, <2>3
<1>11. Lost(t2, r2) = Lost(t, r) + (IF v - t[s] > MaxCounter THEN 1 ELSE 0)
  <2> DEFINE f == LostOf(t, r)
             g == LostOf(t2, r2)
             D == DOMAIN r
  <2>1. f \in [D -> Int]
    BY <1>1, LostTyped
  <2>2. g \in [D -> Int]
    BY <1>5, <1>7, LostTyped
  <2>3. f[s] = r[s].oversized /\ g[s] = x.oversized
    BY <1>3, <1>5, <1>6 DEF LostOf
  <2>4. \A d \in D : d # s => g[d] = f[d]
    BY <1>5, <1>6 DEF LostOf
  <2>5. D \cup {s} = D
    BY <1>3
  <2> HIDE DEF f, g, D
  <2>6. /\ SumFunction(g) = SumFunction(f) - (IF s \in D THEN f[s] ELSE 0) + g[s]
        /\ SumFunction(f) \in Int
    <3>1. IsFiniteSet(D)
      BY <1>1 DEF D
    <3> QED
      BY <2>1, <2>2, <2>4, <2>5, <3>1, SumChanged
  <2>7. s \in D /\ f[s] \in Int /\ g[s] = f[s] + (IF v - t[s] > MaxCounter THEN 1 ELSE 0)
    <3>1. s \in D
      BY <1>3 DEF D
    <3> QED
      BY <1>4, <2>1, <2>3, <3>1
  <2>8. SumFunction(g) = SumFunction(f) + (IF v - t[s] > MaxCounter THEN 1 ELSE 0)
    BY <2>6, <2>7
  <2> QED
    BY <2>8 DEF Lost, f, g
<1> QED
  BY <1>3, <1>9, <1>10, <1>11

\* The first reading of a series while there is room.
LEMMA BaselineRead ==
    ASSUME NEW t, NEW r, ReadingsRight(t, r), NEW s \in AllSeries, s \notin DOMAIN t,
           Cardinality(DOMAIN t) < MaxTotalSeries, NEW v \in Nat,
           NEW r2, r2 = WithEntry(r, s, FirstReading(v)), NEW t2, t2 = WithEntry(t, s, v)
    PROVE  /\ ReadingsRight(t2, r2) /\ s \notin DOMAIN r
           /\ \A u : Rises(t2, r2, u) = Rises(t, r, u)
           /\ Lost(t2, r2) = Lost(t, r)
<1>1. /\ DOMAIN r \in SUBSET AllSeries /\ IsFiniteSet(DOMAIN r)
      /\ \A u \in DOMAIN r : r[u] \in Reading
      /\ DOMAIN t \in SUBSET DOMAIN r /\ \A u \in DOMAIN t : t[u] \in Nat /\ t[u] = r[u].last
      /\ r \in [DOMAIN r -> Reading]
  BY DEF ReadingsRight
<1>2. DOMAIN r = DOMAIN t
  BY <1>1 DEF ReadingsRight
<1>3. /\ FirstReading(v) \in Reading /\ FirstReading(v).last = v
      /\ FirstReading(v).oversized = 0 /\ RiseOf(FirstReading(v)) = 0
  BY FirstReadingFields
<1>4. /\ DOMAIN r2 = DOMAIN r \cup {s} /\ r2[s] = FirstReading(v)
      /\ \A u \in DOMAIN r : r2[u] = r[u]
      /\ r2 = [u \in DOMAIN r2 |-> r2[u]]
  BY <1>2 DEF WithEntry
<1>5. /\ DOMAIN t2 = DOMAIN t \cup {s} /\ t2[s] = v
      /\ \A u \in DOMAIN t : t2[u] = t[u]
      /\ t2 = [u \in DOMAIN t2 |-> t2[u]]
  BY DEF WithEntry
<1>6. r2 \in [DOMAIN r2 -> Reading] /\ t2 \in [DOMAIN t2 -> Nat]
  <2>1. \A u \in DOMAIN r2 : r2[u] \in Reading
    BY <1>1, <1>3, <1>4
  <2>2. \A u \in DOMAIN t2 : t2[u] \in Nat
    BY <1>1, <1>5
  <2> QED
    BY <1>4, <1>5, <2>1, <2>2
<1>7. \A u \in DOMAIN t2 : t2[u] = r2[u].last
  BY <1>1, <1>3, <1>4, <1>5
<1>8. ReadingsRight(t2, r2)
  <2>1. DOMAIN r2 \in SUBSET AllSeries /\ IsFiniteSet(DOMAIN r2) /\ DOMAIN t2 = DOMAIN r2
    BY <1>1, <1>2, <1>4, <1>5, FS_AddElement
  <2> QED
    BY <1>6, <1>7, <2>1 DEF ReadingsRight
<1>9. \A u : Rises(t2, r2, u) = Rises(t, r, u)
  BY <1>2, <1>3, <1>4, <1>5 DEF Rises
<1>10. Lost(t2, r2) = Lost(t, r)
  <2> DEFINE f == LostOf(t, r)
             g == LostOf(t2, r2)
             D == DOMAIN r
  <2>1. f \in [D -> Int]
    BY <1>1, LostTyped
  <2>2. g \in [D \cup {s} -> Int]
    BY <1>4, <1>6, LostTyped
  <2>3. g[s] = 0
    BY <1>3, <1>4, <1>5 DEF LostOf
  <2>4. \A d \in D : d # s => g[d] = f[d]
    BY <1>2, <1>4, <1>5 DEF LostOf
  <2>5. s \notin D /\ IsFiniteSet(D)
    BY <1>1, <1>2
  <2> HIDE DEF f, g, D
  <2>6. /\ SumFunction(g) = SumFunction(f) - (IF s \in D THEN f[s] ELSE 0) + g[s]
        /\ SumFunction(f) \in Int
    BY <2>1, <2>2, <2>4, <2>5, SumChanged
  <2>7. SumFunction(g) = SumFunction(f)
    BY <2>3, <2>5, <2>6
  <2> QED
    BY <2>7 DEF Lost, f, g
<1> QED
  BY <1>2, <1>8, <1>9, <1>10

\* A reading of a series there is no room for.
LEMMA RefusedRead ==
    ASSUME NEW t, NEW r, ReadingsRight(t, r), NEW s \in AllSeries, s \notin DOMAIN t,
           ~(Cardinality(DOMAIN t) < MaxTotalSeries), NEW v \in Nat,
           NEW r2, r2 = ReadingsAfter(r, s, v)
    PROVE  /\ ReadingsRight(t, r2)
           /\ \A u : Rises(t, r2, u) = Rises(t, r, u)
           /\ Lost(t, r2) = Lost(t, r) + 1
<1>1. /\ DOMAIN r \in SUBSET AllSeries /\ IsFiniteSet(DOMAIN r)
      /\ \A u \in DOMAIN r : r[u] \in Reading
      /\ DOMAIN t \in SUBSET DOMAIN r /\ \A u \in DOMAIN t : t[u] = r[u].last
      /\ r \in [DOMAIN r -> Reading] /\ t \in [DOMAIN t -> Nat]
  BY DEF ReadingsRight
<1>2. PICK x : x = r2[s]
  OBVIOUS
<1>3. /\ DOMAIN r2 = DOMAIN r \cup {s}
      /\ \A u \in DOMAIN r : u # s => r2[u] = r[u]
      /\ r2 = [u \in DOMAIN r2 |-> r2[u]]
      /\ x = IF s \in DOMAIN r THEN NextReading(r[s], v) ELSE FirstReading(v)
  <2>1. CASE s \in DOMAIN r
    BY <1>2, <2>1 DEF ReadingsAfter
  <2>2. CASE s \notin DOMAIN r
    BY <1>2, <2>2 DEF WithEntry, ReadingsAfter
  <2> QED
    BY <2>1, <2>2
<1>4. x \in Reading /\ x.number = IF s \in DOMAIN r THEN r[s].number + 1 ELSE 1
  <2>1. CASE s \in DOMAIN r
    <3>1. r[s] \in Reading
      BY <1>1, <2>1
    <3> QED
      BY <1>3, <2>1, <3>1, NextReadingFields
  <2>2. CASE s \notin DOMAIN r
    BY <1>3, <2>2, FirstReadingFields
  <2> QED
    BY <2>1, <2>2
<1>5. r2 \in [DOMAIN r2 -> Reading]
  <2>1. \A u \in DOMAIN r2 : r2[u] \in Reading
    BY <1>1, <1>2, <1>3, <1>4
  <2> QED
    BY <1>3, <2>1
<1>6. ReadingsRight(t, r2)
  <2>1. DOMAIN r2 \in SUBSET AllSeries /\ IsFiniteSet(DOMAIN r2) /\ DOMAIN t \in SUBSET DOMAIN r2
    BY <1>1, <1>3, FS_AddElement
  <2>2. \A u \in DOMAIN t : t[u] = r2[u].last
    BY <1>1, <1>3
  <2> QED
    BY <1>1, <1>5, <2>1, <2>2 DEF ReadingsRight
<1>7. \A u : Rises(t, r2, u) = Rises(t, r, u)
  BY <1>1, <1>3 DEF Rises
<1>8. Lost(t, r2) = Lost(t, r) + 1
  <2> DEFINE f == LostOf(t, r)
             g == LostOf(t, r2)
             D == DOMAIN r
  <2>1. f \in [D -> Int]
    BY <1>1, LostTyped
  <2>2. g \in [D \cup {s} -> Int]
    BY <1>3, <1>5, LostTyped
  <2>3. g[s] = x.number
    BY <1>2, <1>3 DEF LostOf
  <2>4. \A d \in D : d # s => g[d] = f[d]
    BY <1>3 DEF LostOf
  <2>5. IsFiniteSet(D)
    BY <1>1
  <2>6. x.number = (IF s \in D THEN f[s] ELSE 0) + 1
    BY <1>4 DEF LostOf
  <2> HIDE DEF f, g, D
  <2>7. /\ SumFunction(g) = SumFunction(f) - (IF s \in D THEN f[s] ELSE 0) + g[s]
        /\ SumFunction(f) \in Int
    BY ONLY <2>1, <2>2, <2>4, <2>5, SumChanged
  <2>8. (IF s \in D THEN f[s] ELSE 0) \in Int
    BY <2>1
  <2>9. SumFunction(g) = SumFunction(f) + 1
    BY <2>3, <2>6, <2>7, <2>8
  <2> QED
    BY <2>9 DEF Lost, f, g
<1> QED
  BY <1>6, <1>7, <1>8

(***************************************************************************)
(* The inductive invariant.                                                *)
(***************************************************************************)
BatchInv ==
    /\ BuilderRight(builder, added)
    /\ builder.taken \in 0..MaxEvents /\ Len(added) <= builder.taken

TotalsInv == ReadingsRight(totals, readings)

AmountsInv ==
    /\ sent \in [AllSeries -> Nat] /\ counted \in [AllSeries -> Nat]
    /\ parts \in [AllSeries -> Nat]
    /\ \A s \in AllSeries :
          2 * (sent[s] + CounterValue(builder.counters, s) - counted[s] - Rises(totals, readings, s))
             \in -(Unit * parts[s])..(Unit * parts[s])

\* A step that raises what the batch carries by as much as what was measured.
LEMMA SameGap ==
    ASSUME NEW a \in Int, NEW b \in Int, NEW c \in Int, NEW d \in Int, NEW x \in Int, NEW n,
           2 * (a + b - c - d) \in -n..n,
           NEW b2, NEW c2, NEW d2,
           b2 = b + x, (c2 = c + x /\ d2 = d) \/ (c2 = c /\ d2 = d + x)
    PROVE  2 * (a + b2 - c2 - d2) \in -n..n
<1>1. a + b2 - c2 - d2 = a + b - c - d
  OBVIOUS
<1> QED
  BY <1>1

DroppedInv == invalidDropped \in Nat /\ invalidDropped = Lost(totals, readings)

NumbersInv == begun \in Nat /\ batchSeq \in Nat

IInv == BatchInv /\ TotalsInv /\ AmountsInv /\ DroppedInv /\ NumbersInv

LEMMA AmountsTyped ==
    ASSUME BatchInv, TotalsInv, NEW s \in AllSeries
    PROVE  CounterValue(builder.counters, s) \in Nat /\ Rises(totals, readings, s) \in Int
<1>1. builder.counters \in Seq(Counter)
  BY DEF BatchInv, BuilderRight, CountersRight
<1>2. \A y \in Reading : RiseOf(y) \in Int
  BY DEF RiseOf, Reading
<1>3. \A u \in DOMAIN totals : readings[u] \in Reading
  BY DEF TotalsInv, ReadingsRight
<1>4. Rises(totals, readings, s) \in Int
  BY <1>2, <1>3 DEF Rises
<1> QED
  BY <1>1, <1>4, ValueIsSum

LEMMA InitRight == Init => IInv
<1> SUFFICES ASSUME Init
             PROVE  IInv
  OBVIOUS
<1>1. /\ totals = << >> /\ builder = EmptyBuilder /\ begun = 1 /\ batchSeq = 0
      /\ invalidDropped = 0 /\ added = << >> /\ sent = [s \in AllSeries |-> 0]
      /\ parts = [s \in AllSeries |-> 0]
      /\ counted = [s \in AllSeries |-> 0] /\ readings = << >>
  BY DEF Init
<1>2. builder.taken = 0 /\ builder.counters = << >>
  BY <1>1 DEF EmptyBuilder
<1>3. DOMAIN << >> = {} /\ Len(<< >>) = 0 /\ << >> = [s \in {} |-> 0]
  OBVIOUS
<1>4. BatchInv
  <2>1. BuilderRight(builder, added)
    BY <1>1, EmptyRight
  <2> QED
    BY <1>1, <1>2, <1>3, <2>1, LimitsNat DEF BatchInv
<1>5. TotalsInv
  <2>1. << >> \in [DOMAIN << >> -> Reading] /\ << >> \in [DOMAIN << >> -> Nat]
    BY <1>3
  <2> QED
    BY <1>1, <1>3, <2>1, FS_EmptySet DEF TotalsInv, ReadingsRight
<1>6. AmountsInv
  <2>1. \A s \in AllSeries : sent[s] = 0 /\ counted[s] = 0
    BY <1>1
  <2>2. \A s \in AllSeries : CounterValue(builder.counters, s) = 0
    BY <1>2, ValueNone
  <2>3. \A s \in AllSeries : Rises(totals, readings, s) = 0
    BY <1>1, <1>3 DEF Rises
  <2>4. /\ sent \in [AllSeries -> Nat] /\ counted \in [AllSeries -> Nat]
        /\ parts \in [AllSeries -> Nat] /\ \A s \in AllSeries : parts[s] = 0
    BY <1>1
  <2>5. \A s \in AllSeries : Unit * parts[s] = 0
    BY <2>4, BatchingAssumption
  <2> QED
    BY <2>1, <2>2, <2>3, <2>4, <2>5 DEF AmountsInv
<1>7. DroppedInv
  <2> DEFINE f == LostOf(totals, readings)
  <2>1. DOMAIN f = {}
    BY <1>1, <1>3 DEF LostOf
  <2> HIDE DEF f
  <2>2. SumFunction(f) = SumFunctionOnSet(f, {})
    BY <2>1 DEF SumFunction
  <2>3. Lost(totals, readings) = 0
    BY <2>2, SumEmpty DEF Lost, f
  <2> QED
    BY <1>1, <2>3 DEF DroppedInv
<1> QED
  BY <1>1, <1>4, <1>5, <1>6, <1>7 DEF IInv, NumbersInv

(***************************************************************************)
(* Every step keeps it.                                                    *)
(***************************************************************************)
LEMMA Adding ==
    ASSUME BatchInv, builder.taken < MaxEvents, NEW e \in AnEvent, e.kind # "total", Adds(e)
    PROVE  /\ BatchInv'
           /\ \A s : CounterValue(builder'.counters, s)
                        = CounterValue(builder.counters, s) + AddedValue(e, s)
<1>1. BuilderRight(builder, added) /\ builder.taken \in 0..MaxEvents /\ Len(added) <= builder.taken
  BY DEF BatchInv
<1>2. builder' = [Add(builder, e) EXCEPT !.taken = @ + 1] /\ added' = Append(added, e)
  BY DEF Adds
<1>3. /\ BuilderRight(builder', Append(added, e)) /\ builder'.taken = builder.taken + 1
      /\ \A s : CounterValue(builder'.counters, s)
                   = CounterValue(builder.counters, s) + AddedValue(e, s)
  <2>1. PICK b2 : b2 = Took(builder, e)
    OBVIOUS
  <2>2. /\ BuilderRight(b2, Append(added, e)) /\ b2.taken = builder.taken + 1
        /\ \A s : CounterValue(b2.counters, s)
                     = CounterValue(builder.counters, s) + AddedValue(e, s)
    BY <1>1, <2>1, AddRight
  <2>3. builder' = b2
    BY <1>2, <2>1 DEF Took
  <2> QED
    BY <2>2, <2>3
<1>4. Len(Append(added, e)) = Len(added) + 1 /\ Len(added) \in Nat
  <2>1. added \in Seq(AnEvent)
    BY <1>1 DEF BuilderRight
  <2> QED
    BY <2>1, AppendedAt
<1>5. builder'.taken \in 0..MaxEvents /\ Len(added') <= builder'.taken
  BY <1>1, <1>2, <1>3, <1>4, LimitsNat
<1> QED
  BY <1>2, <1>3, <1>5 DEF BatchInv

LEMMA AddingNothing ==
    ASSUME BatchInv, builder.taken < MaxEvents, AddsNothing
    PROVE  BatchInv' /\ builder'.counters = builder.counters
<1>1. BuilderRight(builder, added) /\ builder.taken \in 0..MaxEvents /\ Len(added) <= builder.taken
  BY DEF BatchInv
<1>2. builder' = [builder EXCEPT !.taken = @ + 1] /\ added' = added
  BY DEF AddsNothing
<1>3. BuilderRight(builder', added) /\ builder'.taken = builder.taken + 1
      /\ builder'.counters = builder.counters
  BY <1>1, <1>2, NothingAdded
<1>4. Len(added) \in Nat
  <2>1. added \in Seq(AnEvent)
    BY <1>1 DEF BuilderRight
  <2> QED
    BY <2>1
<1>5. builder'.taken \in 0..MaxEvents /\ Len(added') <= builder'.taken
  BY <1>1, <1>2, <1>3, <1>4, LimitsNat
<1> QED
  BY <1>2, <1>3, <1>5 DEF BatchInv

LEMMA TakeEventKeeps ==
    ASSUME IInv, NEW e \in Events, TakeEvent(e)
    PROVE  IInv'
<1>1. BatchInv /\ TotalsInv /\ AmountsInv /\ DroppedInv /\ NumbersInv
  BY DEF IInv
<1>2. e \in AnEvent
  BY EventTypes
<1>3. /\ builder.taken < MaxEvents /\ e.kind # "total" /\ Adds(e)
      /\ counted' = IF e.kind = "counter" THEN [counted EXCEPT ![e.series] = @ + e.value] ELSE counted
      /\ totals' = totals /\ begun' = begun /\ batchSeq' = batchSeq
      /\ invalidDropped' = invalidDropped /\ sent' = sent /\ parts' = parts /\ readings' = readings
  BY DEF TakeEvent, Takes
<1>4. /\ BatchInv'
      /\ \A s : CounterValue(builder'.counters, s)
                   = CounterValue(builder.counters, s) + AddedValue(e, s)
  BY <1>1, <1>2, <1>3, Adding
<1>5. e.series \in AllSeries /\ e.value \in Nat
  BY <1>2, EventFields
<1>6. counted \in [AllSeries -> Nat] /\ sent \in [AllSeries -> Nat]
  BY <1>1 DEF AmountsInv
<1>7. /\ counted' \in [AllSeries -> Nat]
      /\ \A s \in AllSeries : counted'[s] = counted[s] + AddedValue(e, s)
  <2>1. CASE e.kind = "counter"
    BY <1>3, <1>5, <1>6, <2>1 DEF AddedValue
  <2>2. CASE e.kind # "counter"
    BY <1>3, <1>6, <2>2 DEF AddedValue
  <2> QED
    BY <2>1, <2>2
<1>8. \A s \in AllSeries : AddedValue(e, s) \in Nat
  BY <1>5 DEF AddedValue
<1>9. AmountsInv'
  <2>1. ASSUME NEW s \in AllSeries
        PROVE  2 * (sent'[s] + CounterValue(builder'.counters, s) - counted'[s]
                   - Rises(totals', readings', s)) \in -(Unit * parts'[s])..(Unit * parts'[s])
    <3>1. 2 * (sent[s] + CounterValue(builder.counters, s) - counted[s] - Rises(totals, readings, s))
             \in -(Unit * parts[s])..(Unit * parts[s])
      BY <1>1 DEF AmountsInv
    <3>2. CounterValue(builder.counters, s) \in Nat /\ Rises(totals, readings, s) \in Int
      BY <1>1, AmountsTyped
    <3>3. sent[s] \in Nat /\ counted[s] \in Nat /\ AddedValue(e, s) \in Nat
      BY <1>6, <1>8
    <3>4. /\ CounterValue(builder'.counters, s) = CounterValue(builder.counters, s) + AddedValue(e, s)
          /\ counted'[s] = counted[s] + AddedValue(e, s)
          /\ sent'[s] = sent[s] /\ parts'[s] = parts[s]
          /\ Rises(totals', readings', s) = Rises(totals, readings, s)
      BY <1>3, <1>4, <1>7
    <3>5. 2 * (sent[s] + CounterValue(builder'.counters, s) - counted'[s] - Rises(totals', readings', s))
             \in -(Unit * parts[s])..(Unit * parts[s])
      BY <3>1, <3>2, <3>3, <3>4, SameGap
    <3> QED
      BY <3>4, <3>5
  <2>2. parts' \in [AllSeries -> Nat]
    BY <1>1, <1>3 DEF AmountsInv
  <2> QED
    BY <1>3, <1>6, <1>7, <2>1, <2>2 DEF AmountsInv
<1>10. TotalsInv' /\ DroppedInv' /\ NumbersInv'
  BY <1>1, <1>3 DEF TotalsInv, DroppedInv, NumbersInv
<1> QED
  BY <1>4, <1>9, <1>10 DEF IInv

\* A reading that gives the builder nothing and raises no total.
LEMMA AmountsKept ==
    ASSUME AmountsInv, sent' = sent, parts' = parts, counted' = counted,
           \A s : Rises(totals', readings', s) = Rises(totals, readings, s),
           builder'.counters = builder.counters
    PROVE  AmountsInv'
BY DEF AmountsInv

LEMMA BaselineKeeps ==
    ASSUME IInv, NEW e \in Events, Baseline(e)
    PROVE  IInv'
<1>1. BatchInv /\ TotalsInv /\ AmountsInv /\ DroppedInv /\ NumbersInv
  BY DEF IInv
<1>2. e.series \in AllSeries /\ e.value \in Nat
  BY EventTypes, EventFields
<1>3. /\ builder.taken < MaxEvents /\ AddsNothing
      /\ begun' = begun /\ batchSeq' = batchSeq /\ sent' = sent /\ parts' = parts /\ counted' = counted
      /\ e.series \notin DOMAIN totals /\ Cardinality(DOMAIN totals) < MaxTotalSeries
      /\ totals' = WithEntry(totals, e.series, e.value) /\ invalidDropped' = invalidDropped
  BY DEF Baseline, TakesReading, Takes, Tracked
<1>4. ReadingsRight(totals, readings)
  BY <1>1 DEF TotalsInv
<1>5. e.series \notin DOMAIN readings
  BY <1>3, <1>4 DEF ReadingsRight
<1>6. readings' = WithEntry(readings, e.series, FirstReading(e.value))
  BY <1>5 DEF Baseline, TakesReading
<1>7. /\ ReadingsRight(totals', readings')
      /\ \A u : Rises(totals', readings', u) = Rises(totals, readings, u)
      /\ Lost(totals', readings') = Lost(totals, readings)
  BY <1>2, <1>3, <1>4, <1>6, BaselineRead
<1>8. BatchInv' /\ builder'.counters = builder.counters
  BY <1>1, <1>3, AddingNothing
<1>9. AmountsInv'
  BY <1>1, <1>3, <1>7, <1>8, AmountsKept
<1>10. TotalsInv' /\ DroppedInv' /\ NumbersInv'
  BY <1>1, <1>3, <1>7 DEF TotalsInv, DroppedInv, NumbersInv
<1> QED
  BY <1>8, <1>9, <1>10 DEF IInv

LEMMA TooManySeriesKeeps ==
    ASSUME IInv, NEW e \in Events, TooManySeries(e)
    PROVE  IInv'
<1>1. BatchInv /\ TotalsInv /\ AmountsInv /\ DroppedInv /\ NumbersInv
  BY DEF IInv
<1>2. e.series \in AllSeries /\ e.value \in Nat
  BY EventTypes, EventFields
<1>3. /\ builder.taken < MaxEvents /\ AddsNothing
      /\ begun' = begun /\ batchSeq' = batchSeq /\ sent' = sent /\ parts' = parts /\ counted' = counted
      /\ e.series \notin DOMAIN totals /\ Cardinality(DOMAIN totals) >= MaxTotalSeries
      /\ totals' = totals /\ invalidDropped' = invalidDropped + 1
  BY DEF TooManySeries, TakesReading, Takes, Tracked
<1>4. ReadingsRight(totals, readings)
  BY <1>1 DEF TotalsInv
<1>5. ~(Cardinality(DOMAIN totals) < MaxTotalSeries)
  <2>1. IsFiniteSet(DOMAIN totals)
    BY <1>4, FS_Subset DEF ReadingsRight
  <2>2. Cardinality(DOMAIN totals) \in Nat
    BY <2>1, FS_CardinalityType
  <2> QED
    BY <1>3, <2>2, LimitsNat
<1>6. readings' = ReadingsAfter(readings, e.series, e.value)
  BY DEF TooManySeries, TakesReading, ReadingsAfter
<1>7. /\ ReadingsRight(totals, readings')
      /\ \A u : Rises(totals, readings', u) = Rises(totals, readings, u)
      /\ Lost(totals, readings') = Lost(totals, readings) + 1
  BY ONLY <1>2, <1>3, <1>4, <1>5, <1>6, RefusedRead
<1>8. BatchInv' /\ builder'.counters = builder.counters
  BY <1>1, <1>3, AddingNothing
<1>9. AmountsInv'
  BY <1>1, <1>3, <1>7, <1>8, AmountsKept
<1>10. TotalsInv' /\ DroppedInv' /\ NumbersInv'
  BY <1>1, <1>3, <1>7 DEF TotalsInv, DroppedInv, NumbersInv
<1> QED
  BY <1>8, <1>9, <1>10 DEF IInv

\* What a reading of a known total does to the totals and their history.
LEMMA KnownRead ==
    ASSUME TotalsInv, NEW e \in Events, TakesReading(e), Tracked(e),
           totals' = [totals EXCEPT ![e.series] = e.value]
    PROVE  /\ TotalsInv' /\ totals[e.series] \in Nat /\ Delta(e) \in Int
           /\ \A u : Rises(totals', readings', u) = Rises(totals, readings, u)
                 + (IF u = e.series /\ Delta(e) \in 1..MaxCounter THEN Delta(e) ELSE 0)
           /\ Lost(totals', readings')
                 = Lost(totals, readings) + (IF Delta(e) > MaxCounter THEN 1 ELSE 0)
<1>1. e.series \in AllSeries /\ e.value \in Nat
  BY EventTypes, EventFields
<1>2. e.series \in DOMAIN totals
  BY DEF Tracked
<1>3. ReadingsRight(totals, readings)
  BY DEF TotalsInv
<1>4. e.series \in DOMAIN readings
  BY <1>2, <1>3 DEF ReadingsRight
<1>5. readings' = ReadingsAfter(readings, e.series, e.value)
  BY <1>4 DEF TakesReading, ReadingsAfter
<1>6. PICK s : s = e.series
  OBVIOUS
<1>7. PICK v : v = e.value
  OBVIOUS
<1>8. /\ s \in DOMAIN totals /\ v \in Nat
      /\ readings' = ReadingsAfter(readings, s, v) /\ totals' = TotalsAfter(totals, s, v)
  BY <1>1, <1>2, <1>5, <1>6, <1>7 DEF TotalsAfter
<1>9. /\ ReadingsRight(totals', readings') /\ totals[s] \in Nat
      /\ \A u : Rises(totals', readings', u) = Rises(totals, readings, u)
            + (IF u = s /\ v - totals[s] \in 1..MaxCounter THEN v - totals[s] ELSE 0)
      /\ Lost(totals', readings')
            = Lost(totals, readings) + (IF v - totals[s] > MaxCounter THEN 1 ELSE 0)
  BY ONLY <1>3, <1>8, TrackedRead
<1>10. Delta(e) = v - totals[s]
  BY <1>6, <1>7 DEF Delta
<1>11. Delta(e) \in Int
  BY <1>8, <1>9, <1>10
<1>12. \A u : Rises(totals', readings', u) = Rises(totals, readings, u)
                 + (IF u = e.series /\ Delta(e) \in 1..MaxCounter THEN Delta(e) ELSE 0)
  BY <1>6, <1>9, <1>10, Zenon
<1>13. Lost(totals', readings')
          = Lost(totals, readings) + (IF Delta(e) > MaxCounter THEN 1 ELSE 0)
  BY <1>9, <1>10, Zenon
<1> QED
  BY <1>6, <1>9, <1>11, <1>12, <1>13 DEF TotalsInv

\* A reading that has not risen, or too far, gives the builder nothing.
LEMMA NotReported ==
    ASSUME IInv, NEW e \in Events, TakesReading(e), Tracked(e), AddsNothing,
           totals' = [totals EXCEPT ![e.series] = e.value],
           Delta(e) \notin 1..MaxCounter
    PROVE  BatchInv' /\ TotalsInv' /\ AmountsInv' /\ NumbersInv'
<1>1. BatchInv /\ TotalsInv /\ AmountsInv /\ NumbersInv
  BY DEF IInv
<1>2. /\ builder.taken < MaxEvents
      /\ begun' = begun /\ batchSeq' = batchSeq /\ sent' = sent /\ parts' = parts /\ counted' = counted
  BY DEF TakesReading, Takes
<1>3. /\ TotalsInv'
      /\ \A u : Rises(totals', readings', u) = Rises(totals, readings, u)
            + (IF u = e.series /\ Delta(e) \in 1..MaxCounter THEN Delta(e) ELSE 0)
  BY <1>1, KnownRead
<1>4. BatchInv' /\ builder'.counters = builder.counters
  BY <1>1, <1>2, AddingNothing
<1>5. \A u \in AllSeries : Rises(totals', readings', u) = Rises(totals, readings, u)
  <2> SUFFICES ASSUME NEW u \in AllSeries
               PROVE  Rises(totals', readings', u) = Rises(totals, readings, u)
    OBVIOUS
  <2>1. Rises(totals, readings, u) \in Int
    BY <1>1, AmountsTyped
  <2>2. Rises(totals', readings', u) = Rises(totals, readings, u) + 0
    BY <1>3
  <2> QED
    BY <2>1, <2>2
<1>6. AmountsInv'
  BY <1>1, <1>2, <1>4, <1>5 DEF AmountsInv
<1>7. NumbersInv'
  BY <1>1, <1>2 DEF NumbersInv
<1> QED
  BY <1>3, <1>4, <1>6, <1>7

LEMMA NotRisenKeeps ==
    ASSUME IInv, NEW e \in Events, NotRisen(e)
    PROVE  IInv'
<1>1. /\ TakesReading(e) /\ Tracked(e) /\ AddsNothing /\ Delta(e) <= 0
      /\ totals' = [totals EXCEPT ![e.series] = e.value] /\ invalidDropped' = invalidDropped
  BY DEF NotRisen
<1>2. TotalsInv /\ DroppedInv
  BY DEF IInv
<1>3. /\ Delta(e) \in Int
      /\ Lost(totals', readings')
            = Lost(totals, readings) + (IF Delta(e) > MaxCounter THEN 1 ELSE 0)
  BY <1>1, <1>2, KnownRead
<1>4. Delta(e) \notin 1..MaxCounter /\ ~(Delta(e) > MaxCounter)
  BY <1>1, <1>3, LimitsNat
<1>5. BatchInv' /\ TotalsInv' /\ AmountsInv' /\ NumbersInv'
  BY <1>1, <1>4, NotReported
<1>6. DroppedInv'
  BY <1>1, <1>2, <1>3, <1>4 DEF DroppedInv
<1> QED
  BY <1>5, <1>6 DEF IInv

LEMMA DeltaTooLargeKeeps ==
    ASSUME IInv, NEW e \in Events, DeltaTooLarge(e)
    PROVE  IInv'
<1>1. /\ TakesReading(e) /\ Tracked(e) /\ AddsNothing /\ Delta(e) > MaxCounter
      /\ totals' = [totals EXCEPT ![e.series] = e.value]
      /\ invalidDropped' = invalidDropped + 1
  BY DEF DeltaTooLarge
<1>2. TotalsInv /\ DroppedInv
  BY DEF IInv
<1>3. /\ Delta(e) \in Int
      /\ Lost(totals', readings')
            = Lost(totals, readings) + (IF Delta(e) > MaxCounter THEN 1 ELSE 0)
  BY <1>1, <1>2, KnownRead
<1>4. Delta(e) \notin 1..MaxCounter
  BY <1>1, <1>3, LimitsNat
<1>5. BatchInv' /\ TotalsInv' /\ AmountsInv' /\ NumbersInv'
  BY <1>1, <1>4, NotReported
<1>6. DroppedInv'
  BY <1>1, <1>2, <1>3 DEF DroppedInv
<1> QED
  BY <1>5, <1>6 DEF IInv

LEMMA RisenKeeps ==
    ASSUME IInv, NEW e \in Events, Risen(e)
    PROVE  IInv'
<1> DEFINE d == Delta(e)
           e2 == [e EXCEPT !.kind = "counter", !.value = d]
<1>1. BatchInv /\ TotalsInv /\ AmountsInv /\ DroppedInv /\ NumbersInv
  BY DEF IInv
<1>2. /\ TakesReading(e) /\ Tracked(e) /\ d \in 1..MaxCounter /\ Adds(e2)
      /\ totals' = [totals EXCEPT ![e.series] = e.value] /\ invalidDropped' = invalidDropped
      /\ builder.taken < MaxEvents
      /\ begun' = begun /\ batchSeq' = batchSeq /\ sent' = sent /\ parts' = parts /\ counted' = counted
  BY DEF Risen, TakesReading, Takes
<1>3. /\ TotalsInv' /\ d \in Int
      /\ \A u : Rises(totals', readings', u) = Rises(totals, readings, u)
            + (IF u = e.series /\ d \in 1..MaxCounter THEN d ELSE 0)
      /\ Lost(totals', readings') = Lost(totals, readings) + (IF d > MaxCounter THEN 1 ELSE 0)
  BY <1>1, <1>2, KnownRead
<1> HIDE DEF d
<1>4. d \in Nat /\ ~(d > MaxCounter)
  BY <1>2, LimitsNat
<1>5. e2 \in AnEvent /\ e2.kind = "counter" /\ e2.series = e.series /\ e2.value = d
  <2>1. e \in AnEvent
    BY EventTypes
  <2>2. PICK x : x = [e EXCEPT !.kind = "counter"]
    OBVIOUS
  <2>3. x \in AnEvent /\ x.kind = "counter" /\ x.series = e.series
    BY <2>1, <2>2 DEF AnEvent, Kinds, CounterKinds
  <2>4. PICK y : y = [x EXCEPT !.value = d]
    OBVIOUS
  <2>5. y \in AnEvent /\ y.kind = "counter" /\ y.series = e.series /\ y.value = d
    BY <1>4, <2>3, <2>4 DEF AnEvent
  <2>6. e2 = y
    BY <2>2, <2>4, Zenon
  <2> HIDE DEF e2
  <2> QED
    BY <2>5, <2>6
<1> HIDE DEF e2
<1>6. /\ BatchInv'
      /\ \A s : CounterValue(builder'.counters, s)
                   = CounterValue(builder.counters, s) + AddedValue(e2, s)
  BY <1>1, <1>2, <1>5, Adding
<1>7. AmountsInv'
  <2>1. ASSUME NEW s \in AllSeries
        PROVE  2 * (sent'[s] + CounterValue(builder'.counters, s) - counted'[s]
                   - Rises(totals', readings', s)) \in -(Unit * parts'[s])..(Unit * parts'[s])
    <3>1. /\ 2 * (sent[s] + CounterValue(builder.counters, s) - counted[s] - Rises(totals, readings, s))
                \in -(Unit * parts[s])..(Unit * parts[s])
          /\ sent[s] \in Nat /\ counted[s] \in Nat
      BY <1>1 DEF AmountsInv
    <3>2. CounterValue(builder.counters, s) \in Nat /\ Rises(totals, readings, s) \in Int
      BY <1>1, AmountsTyped
    <3>3. sent'[s] = sent[s] /\ parts'[s] = parts[s] /\ counted'[s] = counted[s]
      BY <1>2
    <3>4. PICK x \in Int :
             /\ CounterValue(builder'.counters, s) = CounterValue(builder.counters, s) + x
             /\ Rises(totals', readings', s) = Rises(totals, readings, s) + x
      <4>1. CASE s = e.series
        <5>1. AddedValue(e2, s) = d
          BY <1>5, <4>1 DEF AddedValue
        <5>2. /\ CounterValue(builder'.counters, s) = CounterValue(builder.counters, s) + d
              /\ Rises(totals', readings', s) = Rises(totals, readings, s) + d
          BY <1>2, <1>3, <1>6, <4>1, <5>1
        <5> QED
          BY <1>4, <5>2
      <4>2. CASE s # e.series
        <5>1. AddedValue(e2, s) = 0
          BY <1>5, <4>2 DEF AddedValue
        <5>2. /\ CounterValue(builder'.counters, s) = CounterValue(builder.counters, s) + 0
              /\ Rises(totals', readings', s) = Rises(totals, readings, s) + 0
          BY <1>2, <1>3, <1>6, <4>2, <5>1
        <5> QED
          BY <5>2
      <4> QED
        BY <4>1, <4>2
    <3>5. 2 * (sent[s] + CounterValue(builder'.counters, s) - counted'[s] - Rises(totals', readings', s))
             \in -(Unit * parts[s])..(Unit * parts[s])
      BY <3>1, <3>2, <3>3, <3>4, SameGap
    <3> QED
      BY <3>3, <3>5
  <2> QED
    BY <1>1, <1>2, <2>1 DEF AmountsInv
<1>8. DroppedInv' /\ NumbersInv'
  BY <1>1, <1>2, <1>3, <1>4 DEF DroppedInv, NumbersInv
<1> QED
  BY <1>3, <1>6, <1>7, <1>8 DEF IInv

LEMMA FinishBatchKeeps ==
    ASSUME IInv, FinishBatch
    PROVE  IInv'
<1>1. BatchInv /\ TotalsInv /\ AmountsInv /\ DroppedInv /\ NumbersInv
  BY DEF IInv
<1>2. /\ begun' = begun + 1 /\ batchSeq' \in {batchSeq, batchSeq + 1}
      /\ sent' = [s \in AllSeries |-> sent[s] + WireValue(builder.counters, s)]
      /\ parts' = [s \in AllSeries |-> parts[s] + Cardinality(PlacesOf(builder.counters, s))]
      /\ builder' = EmptyBuilder /\ added' = << >> /\ totals' = totals
      /\ invalidDropped' = invalidDropped /\ counted' = counted /\ readings' = readings
  BY DEF FinishBatch, NextBuilder
<1>3. builder'.taken = 0 /\ builder'.counters = << >>
  BY <1>2 DEF EmptyBuilder
<1>4. BatchInv'
  <2>1. BuilderRight(builder', added')
    BY <1>2, EmptyRight
  <2>2. Len(<< >>) = 0
    OBVIOUS
  <2> QED
    BY <1>2, <1>3, <2>1, <2>2, LimitsNat DEF BatchInv
<1>5. AmountsInv'
  <2>0. builder.counters \in Seq(Counter)
    BY <1>1 DEF BatchInv, BuilderRight, CountersRight
  <2>1. ASSUME NEW s \in AllSeries
        PROVE  /\ sent'[s] \in Nat /\ parts'[s] \in Nat
               /\ 2 * (sent'[s] + CounterValue(builder'.counters, s) - counted'[s]
                   - Rises(totals', readings', s)) \in -(Unit * parts'[s])..(Unit * parts'[s])
    <3> DEFINE n == Cardinality(PlacesOf(builder.counters, s))
               w == WireValue(builder.counters, s)
               v == CounterValue(builder.counters, s)
               m == Unit * n
               k == Unit * parts[s]
    <3>1. /\ 2 * (sent[s] + v - counted[s] - Rises(totals, readings, s)) \in -k..k
          /\ sent[s] \in Nat /\ counted[s] \in Nat /\ parts[s] \in Nat
      BY <1>1 DEF AmountsInv
    <3>2. v \in Nat /\ Rises(totals, readings, s) \in Int
      BY <1>1, AmountsTyped
    <3>3. w \in Nat /\ n \in Nat /\ 2 * (w - v) \in -m..m
      BY <2>0, WireValueNear
    <3>4. CounterValue(builder'.counters, s) = 0
      BY <1>3, ValueNone
    <3>5. /\ sent'[s] = sent[s] + w /\ parts'[s] = parts[s] + n
          /\ counted'[s] = counted[s] /\ Rises(totals', readings', s) = Rises(totals, readings, s)
      BY <1>2
    <3> HIDE DEF n, w, v
    <3>6. k \in Nat /\ m \in Nat /\ Unit * parts'[s] = k + m
      <4>1. Unit \in Nat
        BY BatchingAssumption
      <4> QED
        BY <3>1, <3>3, <3>5, <4>1
    <3> HIDE DEF k, m
    <3>7. 2 * (sent[s] + w + 0 - counted[s] - Rises(totals, readings, s)) \in -(k + m)..(k + m)
      BY <3>1, <3>2, <3>3, <3>6
    <3> QED
      BY <3>1, <3>3, <3>4, <3>5, <3>6, <3>7
  <2>2. sent' = [s \in AllSeries |-> sent'[s]] /\ parts' = [s \in AllSeries |-> parts'[s]]
    BY <1>2
  <2>3. sent' \in [AllSeries -> Nat] /\ parts' \in [AllSeries -> Nat]
    BY <2>1, <2>2
  <2> QED
    BY <1>1, <1>2, <2>1, <2>3 DEF AmountsInv
<1>6. TotalsInv' /\ DroppedInv' /\ NumbersInv'
  BY <1>1, <1>2 DEF TotalsInv, DroppedInv, NumbersInv
<1> QED
  BY <1>4, <1>5, <1>6 DEF IInv

LEMMA StutterKeeps ==
    ASSUME IInv, UNCHANGED vars
    PROVE  IInv'
BY DEF IInv, vars, BatchInv, TotalsInv, AmountsInv, DroppedInv, NumbersInv

LEMMA Invariance == Spec => []IInv
<1>1. ASSUME IInv, [Next]_vars
      PROVE  IInv'
  <2>1. CASE \E e \in Events : TakeEvent(e) \/ Baseline(e) \/ TooManySeries(e)
                                  \/ NotRisen(e) \/ DeltaTooLarge(e) \/ Risen(e)
    <3>1. PICK e \in Events : TakeEvent(e) \/ Baseline(e) \/ TooManySeries(e)
                                  \/ NotRisen(e) \/ DeltaTooLarge(e) \/ Risen(e)
      BY <2>1
    <3> QED
      BY <1>1, <3>1, TakeEventKeeps, BaselineKeeps, TooManySeriesKeeps, NotRisenKeeps,
         DeltaTooLargeKeeps, RisenKeeps
  <2>2. CASE FinishBatch
    BY <1>1, <2>2, FinishBatchKeeps
  <2>3. CASE UNCHANGED vars
    BY <1>1, <2>3, StutterKeeps
  <2> QED
    BY <1>1, <2>1, <2>2, <2>3 DEF Next
<1> QED
  BY InitRight, <1>1, PTL DEF Spec

(***************************************************************************)
(* The theorems.                                                           *)
(***************************************************************************)
LEMMA TypesFollow == IInv => TypeOK
<1> SUFFICES ASSUME IInv
             PROVE  TypeOK
  OBVIOUS
<1>1. BatchInv /\ TotalsInv /\ AmountsInv /\ DroppedInv /\ NumbersInv
  BY DEF IInv
<1>2. /\ builder.counters \in Seq(Counter) /\ DOMAIN builder.counterIndex \in SUBSET AllSeries
      /\ builder.counterIndex \in [DOMAIN builder.counterIndex -> 1..Len(builder.counters)]
  BY <1>1 DEF BatchInv, BuilderRight, CountersRight
<1>3. DOMAIN builder.counters = 1..Len(builder.counters)
  BY <1>2, ElementOfSeq
<1>4. Range(builder.counterIndex) \subseteq DOMAIN builder.counters
  BY <1>2, <1>3 DEF Range
<1>5. /\ DOMAIN totals \subseteq AllSeries /\ DOMAIN totals \subseteq DOMAIN readings
      /\ \A s \in DOMAIN totals : totals[s] \in Nat
  BY <1>1 DEF TotalsInv, ReadingsRight
<1>6. Range(totals) \subseteq Nat
  BY <1>5 DEF Range
<1>7. builder.taken \in 0..MaxEvents /\ Len(added) <= builder.taken
  BY <1>1 DEF BatchInv
<1>8. {sent, parts, counted} \subseteq [AllSeries -> Nat]
  BY <1>1 DEF AmountsInv
<1>9. {begun, batchSeq, invalidDropped} \subseteq Nat
  BY <1>1 DEF DroppedInv, NumbersInv
<1> QED
  BY <1>2, <1>4, <1>5, <1>6, <1>7, <1>8, <1>9 DEF TypeOK

\* Every variable has the type its Python counterpart has (BatchBuilder, _totals).
THEOREM TypeCorrect == Spec => []TypeOK
BY Invariance, TypesFollow, PTL

\* What the counters of a series have reported, over all batches and whatever is cut,
\* refused or restarted, is what was measured, but for the rounding of each counter
\* event (_apply_total, _add_counter, round_away_from_zero).
THEOREM TotalsReported == Spec => []ReportedIsMeasured
<1>1. ASSUME IInv
      PROVE  ReportedIsMeasured
  <2>1. \A s \in AllSeries : RisenBy(s) = Rises(totals, readings, s)
    BY DEF RisenBy, Rises, RiseOf
  <2>2. \A s \in AllSeries :
           2 * (sent[s] + CounterValue(builder.counters, s) - counted[s] - Rises(totals, readings, s))
              \in -(Unit * parts[s])..(Unit * parts[s])
    BY <1>1 DEF IInv, AmountsInv
  <2> QED
    BY <2>1, <2>2 DEF ReportedIsMeasured, Discrepancy
<1> QED
  BY <1>1, Invariance, PTL

\* Every reading that is not reported was counted as dropped (_apply_total).
THEOREM LossesCounted == Spec => []UnreportedCounted
<1>1. ASSUME IInv
      PROVE  UnreportedCounted
  <2>1. invalidDropped = Lost(totals, readings)
    BY <1>1 DEF IInv, DroppedInv
  <2>2. LostOf(totals, readings) = [s \in DOMAIN readings |-> Unreported(s)]
    BY DEF LostOf, Unreported
  <2> QED
    BY <2>1, <2>2 DEF UnreportedCounted, Lost
<1> QED
  BY <1>1, Invariance, PTL

LEMMA StampsAre ==
    ASSUME added \in Seq(AnEvent), NEW s \in AllSeries
    PROVE  {e.at : e \in {x \in AddedAs({"counter"}) : SameLabels(x.series, s)}}
              = {m[2] : m \in {x \in Marks(Range(added)) : x[1] = s}}
<1>1. Range(added) \in SUBSET AnEvent
  BY RangeFinite
<1>2. \A x \in Range(added) : SameLabels(x.series, s) <=> x.series = s
  <2> SUFFICES ASSUME NEW x \in Range(added)
               PROVE  SameLabels(x.series, s) <=> x.series = s
    OBVIOUS
  <2>1. x.series \in AllSeries
    BY <1>1, EventFields
  <2>2. SameLabels(s, s)
    BY DEF SameLabels
  <2> QED
    BY <2>1, <2>2, OneSeries
<1> DEFINE C == {x \in Range(added) : x.kind = "counter"}
<1>3. AddedAs({"counter"}) = C
  BY DEF AddedAs
<1>4. Marks(Range(added)) = {<<e.series, e.at>> : e \in C}
  BY DEF Marks
<1>5. \A x \in C : SameLabels(x.series, s) <=> x.series = s
  BY <1>2
<1> HIDE DEF C
<1>6. {e.at : e \in {x \in C : SameLabels(x.series, s)}}
         = {m[2] : m \in {x \in {<<e.series, e.at>> : e \in C} : x[1] = s}}
  <2> DEFINE M == {<<e.series, e.at>> : e \in C}
             A == {e.at : e \in {x \in C : SameLabels(x.series, s)}}
             B == {m[2] : m \in {x \in M : x[1] = s}}
  <2>1. \A a : a \in A <=> \E e \in C : e.series = s /\ a = e.at
    BY <1>5
  <2>2. \A a : a \in B <=> \E m \in M : m[1] = s /\ a = m[2]
    OBVIOUS
  <2>3. \A m : m \in M <=> \E e \in C : m = <<e.series, e.at>>
    OBVIOUS
  <2>4. \A e : <<e.series, e.at>>[1] = e.series /\ <<e.series, e.at>>[2] = e.at
    OBVIOUS
  <2> HIDE DEF A, B, M
  <2>5. ASSUME NEW a \in A
        PROVE  a \in B
    <3>1. PICK e \in C : e.series = s /\ a = e.at
      BY <2>1, <2>5
    <3>2. PICK m : m = <<e.series, e.at>>
      OBVIOUS
    <3>3. m \in M /\ m[1] = s /\ m[2] = a
      BY <2>3, <2>4, <3>1, <3>2
    <3> QED
      BY <2>2, <3>3
  <2>6. ASSUME NEW a \in B
        PROVE  a \in A
    <3>1. PICK m \in M : m[1] = s /\ a = m[2]
      BY <2>2, <2>6
    <3>2. PICK e \in C : m = <<e.series, e.at>>
      BY <2>3
    <3>3. e.series = s /\ e.at = a
      BY <2>4, <3>1, <3>2
    <3> QED
      BY <2>1, <3>3
  <2>7. \A a : a \in A <=> a \in B
    BY <2>5, <2>6
  <2>8. A = B
    BY <2>7
  <2> QED
    BY <2>8 DEF A, B, M
<1> QED
  BY <1>3, <1>4, <1>6

LEMMA GreatestIsMax ==
    ASSUME NEW S \in SUBSET Nat, NEW n \in S, \A m \in S : m <= n
    PROVE  n = Max(S)
<1>1. \A m \in S : n >= m /\ m \in Nat
  OBVIOUS
<1>2. \A x \in S : (\A m \in S : x >= m) => x = n
  BY <1>1
<1>3. Max(S) = CHOOSE x \in S : \A m \in S : x >= m
  BY DEF Max
<1> QED
  BY <1>1, <1>2, <1>3

\* Of a series, the batch carries one counter event, with the latest of the moments
\* it stands for, but past the cap of the index (_add_counter).
THEOREM CountersReduced == Spec => []OneEventPerSeries
<1>1. ASSUME IInv
      PROVE  OneEventPerSeries
  <2> DEFINE counters == builder.counters
             index == builder.counterIndex
             marks == Marks(Range(added))
             n == Len(counters)
  <2>1. CountersRight(counters, index, marks) /\ added \in Seq(AnEvent)
    BY <1>1 DEF IInv, BatchInv, BuilderRight
  <2>2. counters \in Seq(Counter) /\ DOMAIN counters = 1..n /\ n \in Nat
        /\ \A i \in 1..n : counters[i] \in Counter
    <3>1. counters \in Seq(Counter)
      BY <2>1 DEF CountersRight
    <3> HIDE DEF counters
    <3> QED
      BY <3>1, ElementOfSeq
  <2>3. \A i \in 1..n : counters[i].series \in AllSeries
    BY <2>2 DEF Counter
  <2>4. \A m \in marks : m[2] \in Nat
    BY <2>1, MarksTimes
  <2> HIDE DEF counters, index, marks, n
  <2>5. \A i, j \in DOMAIN counters :
           i < j /\ SameLabels(counters[i].series, counters[j].series) =>
              Cardinality(SeriesOfCounters(SubSeq(counters, 1, i - 1))) >= MaxSeriesPerBatch
    <3> SUFFICES ASSUME NEW i \in 1..n, NEW j \in 1..n, i < j,
                        SameLabels(counters[i].series, counters[j].series)
                 PROVE  Cardinality(SeriesOfCounters(SubSeq(counters, 1, i - 1)))
                           >= MaxSeriesPerBatch
      BY <2>2
    <3>1. counters[i].series = counters[j].series
      BY <2>3, OneSeries
    <3>2. i # j
      BY <2>2
    <3>3. ~(counters[i].series \in DOMAIN index /\ index[counters[i].series] = i)
          \/ ~(counters[j].series \in DOMAIN index /\ index[counters[j].series] = j)
      BY <3>1, <3>2
    <3>4. Cardinality(Before(counters, i)) >= MaxSeriesPerBatch
      <4>1. \A k \in 1..n :
               \/ counters[k].series \in DOMAIN index /\ index[counters[k].series] = k
               \/ /\ counters[k].series \notin DOMAIN index
                  /\ Cardinality(Before(counters, k)) >= MaxSeriesPerBatch
        BY <2>1 DEF CountersRight, n
      <4> QED
        BY <3>1, <3>3, <4>1
    <3>5. SeriesOfCounters(SubSeq(counters, 1, i - 1)) = Before(counters, i)
      <4> DEFINE short == SubSeq(counters, 1, i - 1)
      <4>1. DOMAIN short = 1..(i - 1) /\ \A k \in 1..(i - 1) : short[k] = counters[k]
        BY <2>2
      <4> HIDE DEF short
      <4>2. SeriesOfCounters(short) = Before(counters, i)
        BY <4>1 DEF SeriesOfCounters, Before
      <4> QED
        BY <4>2 DEF short
    <3> QED
      BY <3>4, <3>5
  <2> DEFINE Stamps(s) == {e.at : e \in {x \in AddedAs({"counter"}) : SameLabels(x.series, s)}}
  <2>6. \A c \in Range(counters) : c.series \in DOMAIN index => c.at = Max(Stamps(c.series))
    <3> SUFFICES ASSUME NEW c \in Range(counters), c.series \in DOMAIN index
                 PROVE  c.at = Max(Stamps(c.series))
      OBVIOUS
    <3>1. PICK i \in 1..n : c = counters[i]
      BY <2>2 DEF Range
    <3>2. PICK s : s = c.series
      OBVIOUS
    <3>3. s \in AllSeries /\ s \in DOMAIN index
      BY <2>3, <3>1, <3>2
    <3>4. index[s] = i
      BY <2>1, <3>1, <3>2, <3>3 DEF CountersRight, n
    <3>5. /\ <<s, counters[index[s]].at>> \in marks
          /\ \A m \in marks : m[1] = s => m[2] <= counters[index[s]].at
      BY <2>1, <3>3 DEF CountersRight
    <3> DEFINE S == {m[2] : m \in {x \in marks : x[1] = s}}
    <3>6. Stamps(s) = S
      BY <2>1, <3>3, StampsAre DEF marks
    <3>7. S \in SUBSET Nat /\ c.at \in S /\ \A t \in S : t <= c.at
      BY <2>4, <3>1, <3>4, <3>5
    <3> HIDE DEF S, Stamps
    <3>8. c.at = Max(S)
      BY <3>7, GreatestIsMax
    <3> QED
      BY <3>2, <3>6, <3>8
  <2> QED
    BY <2>5, <2>6 DEF OneEventPerSeries, counters, index
<1> QED
  BY <1>1, Invariance, PTL

\* What was reduced is in the batch: each person and each choice once, every sample in
\* its place (BatchBuilder.add).
THEOREM StreamKept == Spec => []ReducedFaithfully
<1>1. ASSUME IInv
      PROVE  ReducedFaithfully
  <2> DEFINE people  == {<<e.series, e.id>> : e \in AddedAs({"unique"})}
             choices == {<<e.series, e.id, e.item>> : e \in AddedAs({"top"})}
             samples == {i \in DOMAIN added : added[i].kind \in ValueKinds}
             sample(i) == builder.values[Cardinality({j \in samples : j <= i})]
             us == builder.uniques
             ts == builder.tops
  <2>1. /\ PeopleRight(builder, Range(added)) /\ ChoicesRight(builder, Range(added))
        /\ ValuesRight(builder.values, added)
    BY <1>1 DEF IInv, BatchInv, BuilderRight
  <2>2. people = PeopleOf(Range(added)) /\ choices = ChoicesOf(Range(added))
    BY DEF AddedAs, PeopleOf, ChoicesOf
  <2>3. samples = Samples(added)
    BY DEF Samples
  <2>4. {<<u.series, u.id>> : u \in Range(us)} = people /\ Len(us) = Cardinality(people)
    <3>1. us \in Seq(Person) /\ ListedOnce(PersonKeys(us), people)
      BY <2>1, <2>2 DEF PeopleRight
    <3> HIDE DEF people, us
    <3>2. DOMAIN us = 1..Len(us) /\ Len(us) \in Nat
      BY <3>1
    <3>3. /\ DOMAIN PersonKeys(us) = 1..Len(us)
          /\ \A i \in 1..Len(us) : PersonKeys(us)[i] = <<us[i].series, us[i].id>>
      BY DEF PersonKeys
    <3>4. Len(PersonKeys(us)) = Len(us)
      <4>1. PersonKeys(us) \in Seq(people)
        BY <3>1 DEF ListedOnce
      <4> QED
        BY <3>2, <3>3, <4>1, LenProperties
    <3>5. Range(PersonKeys(us)) = people /\ Len(PersonKeys(us)) = Cardinality(people)
      BY <3>1 DEF ListedOnce
    <3>6. Range(PersonKeys(us)) = {<<u.series, u.id>> : u \in Range(us)}
      BY <3>2, <3>3 DEF Range
    <3> QED
      BY <3>4, <3>5, <3>6
  <2>5. {<<t.series, t.id, t.item>> : t \in Range(ts)} = choices /\ Len(ts) = Cardinality(choices)
    <3>1. ts \in Seq(Choice) /\ ListedOnce(ChoiceKeys(ts), choices)
      BY <2>1, <2>2 DEF ChoicesRight
    <3> HIDE DEF choices, ts
    <3>2. DOMAIN ts = 1..Len(ts) /\ Len(ts) \in Nat
      BY <3>1
    <3>3. /\ DOMAIN ChoiceKeys(ts) = 1..Len(ts)
          /\ \A i \in 1..Len(ts) : ChoiceKeys(ts)[i] = <<ts[i].series, ts[i].id, ts[i].item>>
      BY DEF ChoiceKeys
    <3>4. Len(ChoiceKeys(ts)) = Len(ts)
      <4>1. ChoiceKeys(ts) \in Seq(choices)
        BY <3>1 DEF ListedOnce
      <4> QED
        BY <3>2, <3>3, <4>1, LenProperties
    <3>5. Range(ChoiceKeys(ts)) = choices /\ Len(ChoiceKeys(ts)) = Cardinality(choices)
      BY <3>1 DEF ListedOnce
    <3>6. Range(ChoiceKeys(ts)) = {<<t.series, t.id, t.item>> : t \in Range(ts)}
      BY <3>2, <3>3 DEF Range
    <3> QED
      BY <3>4, <3>5, <3>6
  <2>6. /\ Len(builder.values) = Cardinality(samples)
        /\ \A i \in samples : sample(i).series = added[i].series /\ sample(i).value = added[i].value
    <3>1. \A i : sample(i) = builder.values[Rank(Samples(added), i)]
      BY <2>3 DEF Rank
    <3> HIDE DEF sample, samples
    <3> QED
      BY <2>1, <2>3, <3>1 DEF ValuesRight
  <2> QED
    BY <2>4, <2>5, <2>6 DEF ReducedFaithfully
<1> QED
  BY <1>1, Invariance, PTL
=============================================================================
