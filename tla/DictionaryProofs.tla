-------------------------- MODULE DictionaryProofs --------------------------
(***************************************************************************)
(* Proofs about Dictionary, for any processes, series, batches and limits: *)
(* its type invariant and its safety invariants, from what a request in    *)
(* flight and the endpoint's entries have to do with the dictionary of the *)
(* process that sent it.                                                   *)
(***************************************************************************)
EXTENDS Dictionary, FiniteSetTheorems, SequenceTheorems, TLAPS

(***************************************************************************)
(* The inductive invariant.                                                *)
(***************************************************************************)
\* A request r in flight and the dictionary d it was encoded with: what r does not
\* define was there before, and every number means in r what it means in d.
Fits(r, d) ==
    /\ r.session = d.session
    /\ r.snapshot.count \in 0..Len(d.series)
    /\ DOMAIN r.defines \subseteq 1..Len(d.series)
    /\ \A i \in 1..Len(d.series) : (r.forced \/ i > r.snapshot.count) => i \in DOMAIN r.defines
    /\ \A i \in DOMAIN r.defines : r.defines[i] = d.series[i]
    /\ \A s \in DOMAIN r.refers : r.refers[s] \in 1..Len(d.series) /\ d.series[r.refers[s]] = s

\* The numbers of a dictionary that the endpoint has accepted.
Settled(p) == IF Waiting(p) THEN request[p].snapshot.count ELSE Len(dictionary[p].series)

\* A number means the same to the endpoint, or nothing if the session was forgotten.
Agrees(d, i, entries, lost) ==
    /\ \A t \in entries : t.session = d.session /\ t.id = i => t.series = d.series[i]
    /\ d.session \notin lost => \E t \in entries : t.session = d.session /\ t.id = i

RequestsFit == \A p \in Processes : Waiting(p) => Fits(request[p], dictionary[p])

SettledAgrees ==
    \A p \in Processes : \A i \in 1..Settled(p) : Agrees(dictionary[p], i, known, forgotten)

ZeroIsNone == \A p \in Processes : dictionary[p].session = 0 => dictionary[p] = NoDictionary

IInv ==
    /\ TypeOK
    /\ RequestsFit
    /\ SettledAgrees
    /\ ZeroIsNone
    /\ SessionsNotShared
    /\ DictionaryBounded
    /\ AttributedRight

(***************************************************************************)
(* Encoding.                                                               *)
(***************************************************************************)
LEMMA BatchesFinite ==
    ASSUME NEW batch \in Batches
    PROVE  /\ batch \subseteq Series
           /\ IsFiniteSet(batch)
           /\ Cardinality(batch) \in Nat \ {0}
<1>1. batch \subseteq Series /\ batch # {}
  BY DictionaryAssumption
<1>2. IsFiniteSet(batch)
  BY <1>1, DictionaryAssumption, FS_Subset
<1>3. Cardinality(batch) \in Nat /\ Cardinality(batch) # 0
  BY <1>1, <1>2, FS_CardinalityType, FS_EmptySet
<1> QED
  BY <1>1, <1>2, <1>3

LEMMA OrderingIs ==
    ASSUME NEW set, IsFiniteSet(set), NEW new \in Orderings(set)
    PROVE  /\ new \in Seq(set)
           /\ Len(new) = Cardinality(set)
           /\ \A s \in set : \E i \in 1..Len(new) : new[i] = s
<1>1. Cardinality(set) \in Nat
  BY FS_CardinalityType
<1>2. new \in [1..Cardinality(set) -> set] /\ Range(new) = set
  BY DEF Orderings
<1>3. new \in Seq(set)
  BY <1>1, <1>2, SeqDef
<1>4. DOMAIN new = 1..Len(new) /\ Len(new) \in Nat
  BY <1>3, LenProperties
<1>5. Len(new) = Cardinality(set)
  BY <1>1, <1>2, <1>4
<1>6. \A s \in set : \E i \in DOMAIN new : new[i] = s
  BY <1>2 DEF Range
<1> QED
  BY <1>3, <1>4, <1>5, <1>6

\* What the request says of the new dictionary of its process, and the new dictionary of
\* the old one.
Extends(d, dict, batch) ==
    /\ d \in DictionaryType
    /\ d.session = dict.session
    /\ Len(dict.series) <= Len(d.series)
    /\ Len(d.series) <= Len(dict.series) + Cardinality(batch)
    /\ \A i \in 1..Len(dict.series) : d.series[i] = dict.series[i]

\* RequestOK, but for its session.
Formed(r) ==
    /\ r.revision \in Nat
    /\ DOMAIN r.defines \subseteq Nat
    /\ \A i \in DOMAIN r.defines : r.defines[i] \in Series
    /\ DOMAIN r.refers \in Batches
    /\ \A s \in DOMAIN r.refers : r.refers[s] \in Nat
    /\ r.forced \in BOOLEAN
    /\ r.snapshot \in [count : Nat, revision : Nat]

LEMMA EncodeGives ==
    ASSUME NEW p \in Processes, NEW batch \in Batches, NEW dict \in DictionaryType,
           NEW force \in BOOLEAN, Encode(p, batch, dict, force)
    PROVE  \E d, r :
              /\ dictionary' = [dictionary EXCEPT ![p] = d]
              /\ request' = [request EXCEPT ![p] = r]
              /\ Extends(d, dict, batch)
              /\ Formed(r)
              /\ Fits(r, d)
              /\ r.snapshot.count = Len(dict.series)
<1> DEFINE old == dict.series
           set == batch \ Range(old)
<1>1. old \in Seq(Series) /\ Len(old) \in Nat /\ DOMAIN old = 1..Len(old)
      /\ dict.session \in Nat /\ dict.revision \in Nat
  <2>1. old \in Seq(Series) /\ dict.session \in Nat /\ dict.revision \in Nat
    BY DEF DictionaryType
  <2> QED
    BY <2>1, LenProperties
<1>2. IsFiniteSet(batch) /\ IsFiniteSet(set) /\ Cardinality(set) <= Cardinality(batch)
      /\ Cardinality(set) \in Nat /\ Cardinality(batch) \in Nat /\ batch \subseteq Series
  BY BatchesFinite, FS_Subset, FS_CardinalityType
<1>3. PICK new \in Orderings(set) :
        LET series   == old \o new
            revision == IF new = << >> THEN dict.revision ELSE dict.revision + 1
        IN /\ dictionary' = [dictionary EXCEPT ![p] =
                  [session |-> dict.session, revision |-> revision, series |-> series]]
           /\ request' = [request EXCEPT ![p] =
                  [session  |-> dict.session,
                   revision |-> revision,
                   defines  |-> [i \in Defines(old, series, force) |-> series[i]],
                   refers   |-> [s \in batch |-> IdOf(series, s)],
                   forced   |-> force,
                   snapshot |-> [count |-> Len(old), revision |-> dict.revision]]]
  BY DEF Encode
<1> DEFINE series   == old \o new
           revision == IF new = << >> THEN dict.revision ELSE dict.revision + 1
           defines  == [i \in Defines(old, series, force) |-> series[i]]
           refers   == [s \in batch |-> IdOf(series, s)]
           d == [session |-> dict.session, revision |-> revision, series |-> series]
           r == [session  |-> dict.session,
                 revision |-> revision,
                 defines  |-> defines,
                 refers   |-> refers,
                 forced   |-> force,
                 snapshot |-> [count |-> Len(old), revision |-> dict.revision]]
<1>4. dictionary' = [dictionary EXCEPT ![p] = d] /\ request' = [request EXCEPT ![p] = r]
  BY <1>3
<1>5. /\ new \in Seq(set) /\ Len(new) = Cardinality(set)
      /\ \A s \in set : \E i \in 1..Len(new) : new[i] = s
  <2>1. new \in Orderings(set) /\ IsFiniteSet(set)
    BY <1>2
  <2> HIDE DEF set
  <2> QED
    BY <2>1, OrderingIs
<1>6. new \in Seq(Series) /\ Len(new) \in Nat
  <2>1. \A i \in 1..Len(new) : new[i] \in Series
    BY <1>2, <1>5, ElementOfSeq
  <2>2. new \in [1..Len(new) -> set] /\ Len(new) \in Nat
    BY <1>5, LenProperties
  <2>3. new \in [1..Len(new) -> Series]
    BY <1>2, <2>2
  <2> QED
    BY <2>2, <2>3, SeqDef
<1>7. /\ series \in Seq(Series)
      /\ Len(series) = Len(old) + Len(new)
      /\ \A i \in 1..Len(old) + Len(new) :
            series[i] = IF i <= Len(old) THEN old[i] ELSE new[i - Len(old)]
  BY <1>1, <1>6, ConcatProperties
<1>8. \A i \in 1..Len(series) : series[i] \in Series
  BY <1>7, ElementOfSeq
<1>9. revision \in Nat
  BY <1>1
<1> HIDE DEF old, set, series, revision
<1>10. \A s \in batch : IdOf(series, s) \in 1..Len(series) /\ series[IdOf(series, s)] = s
  <2>1. ASSUME NEW s \in batch
        PROVE  \E i \in 1..Len(series) : series[i] = s
    <3>1. CASE s \in set
      <4>1. PICK i \in 1..Len(new) : new[i] = s
        BY <1>5, <3>1
      <4>2. Len(old) + i \in 1..Len(series) /\ ~(Len(old) + i <= Len(old))
            /\ (Len(old) + i) - Len(old) = i
        BY <1>1, <1>6, <1>7
      <4>3. series[Len(old) + i] = s
        BY <1>7, <4>1, <4>2
      <4> QED
        BY <4>2, <4>3
    <3>2. CASE s \notin set
      <4>1. PICK i \in 1..Len(old) : old[i] = s
        BY <1>1, <2>1, <3>2 DEF set, Range
      <4>2. i \in 1..Len(series) /\ i <= Len(old)
        BY <1>1, <1>6, <1>7
      <4> QED
        BY <1>7, <4>1, <4>2
    <3> QED
      BY <3>1, <3>2
  <2> QED
    BY <2>1 DEF IdOf
<1>11. Extends(d, dict, batch)
  <2>1. d.session = dict.session /\ d.revision = revision /\ d.series = series
    OBVIOUS
  <2>2. d \in DictionaryType
    BY <1>1, <1>7, <1>9 DEF DictionaryType
  <2>3. Len(old) <= Len(series) /\ Len(series) <= Len(old) + Cardinality(batch)
    BY <1>1, <1>2, <1>5, <1>6, <1>7
  <2>4. \A i \in 1..Len(old) : series[i] = old[i]
    BY <1>1, <1>6, <1>7
  <2> HIDE DEF d
  <2> QED
    BY <2>1, <2>2, <2>3, <2>4 DEF Extends, old
<1>12. /\ r.session = dict.session /\ r.revision = revision /\ r.defines = defines
       /\ r.refers = refers /\ r.forced = force
       /\ r.snapshot = [count |-> Len(old), revision |-> dict.revision]
       /\ r.snapshot.count = Len(old)
  OBVIOUS
<1>13. d.session = dict.session /\ d.series = series
  OBVIOUS
<1>14. DOMAIN defines = Defines(old, series, force) /\ \A i \in DOMAIN defines : defines[i] = series[i]
  OBVIOUS
<1>15. DOMAIN refers = batch /\ \A s \in batch : refers[s] = IdOf(series, s)
  OBVIOUS
<1>16. Len(series) \in Nat /\ Len(old) <= Len(series)
  BY <1>1, <1>6, <1>7
<1> HIDE DEF r, d, defines, refers
<1>17. DOMAIN defines \subseteq 1..Len(series)
  BY <1>1, <1>14, <1>16 DEF Defines
<1>18. \A i \in 1..Len(series) : (force \/ i > Len(old)) => i \in DOMAIN defines
  BY <1>1, <1>14, <1>16 DEF Defines
<1>19. Formed(r)
  <2>1. r.snapshot \in [count : Nat, revision : Nat]
    BY <1>1, <1>12
  <2>2. DOMAIN defines \subseteq Nat /\ \A i \in DOMAIN defines : defines[i] \in Series
    BY <1>8, <1>14, <1>16, <1>17
  <2>3. \A s \in DOMAIN refers : refers[s] \in Nat
    BY <1>10, <1>15, <1>16
  <2> QED
    BY <1>9, <1>12, <1>15, <2>1, <2>2, <2>3 DEF Formed
<1>20. Fits(r, d)
  BY <1>1, <1>10, <1>12, <1>13, <1>14, <1>15, <1>16, <1>17, <1>18 DEF Fits
<1> QED
  BY <1>4, <1>11, <1>12, <1>19, <1>20 DEF old

(***************************************************************************)
(* What every step has to show.                                            *)
(***************************************************************************)
LEMMA SettledPart ==
    ASSUME IInv, NEW q \in Processes
    PROVE  /\ dictionary[q] \in DictionaryType
           /\ Len(dictionary[q].series) \in Nat
           /\ dictionary[q].session \in 0..sessions
           /\ Settled(q) \in 0..Len(dictionary[q].series)
           /\ Settled(q) # 0 => dictionary[q].session # 0
<1>1. /\ dictionary[q] \in DictionaryType
      /\ dictionary[q].session <= sessions
      /\ sessions \in Nat
  BY DEF IInv, TypeOK
<1>2. Len(dictionary[q].series) \in Nat /\ dictionary[q].session \in Nat
  <2>1. dictionary[q].series \in Seq(Series) /\ dictionary[q].session \in Nat
    BY <1>1 DEF DictionaryType
  <2> QED
    BY <2>1, LenProperties
<1>3. Settled(q) \in 0..Len(dictionary[q].series)
  <2>1. CASE Waiting(q)
    BY <2>1 DEF IInv, RequestsFit, Fits, Settled
  <2>2. CASE ~Waiting(q)
    BY <1>2, <2>2 DEF Settled
  <2> QED
    BY <2>1, <2>2
<1>4. ASSUME dictionary[q].session = 0
      PROVE  Len(dictionary[q].series) = 0
  <2>1. dictionary[q] = NoDictionary
    BY <1>4 DEF IInv, ZeroIsNone
  <2>2. dictionary[q].series = << >>
    BY <2>1 DEF NoDictionary
  <2> QED
    BY <2>2
<1> QED
  BY <1>1, <1>2, <1>3, <1>4

\* A step of one process, which leaves it with dictionary d and request r.
LEMMA OneProcessMoves ==
    ASSUME IInv,
           NEW p \in Processes, NEW d, NEW r,
           dictionary' = [dictionary EXCEPT ![p] = d],
           request' = [request EXCEPT ![p] = r],
           alive' \subseteq Processes,
           sessions' \in Nat, sessions <= sessions',
           known' \subseteq [session : 1..sessions', id : Nat, series : Series],
           forgotten' \subseteq Nat,
           misattributed' = {},
           d \in DictionaryType, d.session <= sessions',
           r # NoRequest => Formed(r) /\ r.session \in 1..sessions' /\ Fits(r, d),
           \A i \in 1..(IF r # NoRequest THEN r.snapshot.count ELSE Len(d.series)) :
              Agrees(d, i, known', forgotten'),
           d.session = 0 => d = NoDictionary,
           \A q \in Processes : q # p /\ d.session = dictionary[q].session => d.session = 0,
           \E batch \in Batches : Len(d.series) < MaxSeries + Cardinality(batch),
           \A q \in Processes : q # p =>
              \A i \in 1..Settled(q) : Agrees(dictionary[q], i, known', forgotten')
    PROVE  IInv'
<1>1. /\ dictionary \in [Processes -> DictionaryType] /\ DOMAIN request = Processes
      /\ \A q \in Processes : dictionary[q].session \in Nat /\ dictionary[q].session <= sessions
      /\ sessions \in Nat
      /\ \A q \in Processes : request[q] # NoRequest => RequestOK(request[q])
  BY SettledPart DEF IInv, TypeOK, Waiting
<1>2. \A q \in Processes : dictionary'[q] = (IF q = p THEN d ELSE dictionary[q])
  BY <1>1
<1>3. \A q \in Processes : request'[q] = (IF q = p THEN r ELSE request[q])
  BY <1>1
<1>4. dictionary' \in [Processes -> DictionaryType] /\ DOMAIN request' = Processes
  BY <1>1
<1>5. \A q \in Processes : dictionary'[q].session <= sessions'
  BY <1>1, <1>2
<1>6. \A q \in Processes :
         request'[q] # NoRequest => Formed(request'[q]) /\ request'[q].session \in 1..sessions'
  <2>1. ASSUME NEW q \in Processes, request'[q] # NoRequest
        PROVE  Formed(request'[q]) /\ request'[q].session \in 1..sessions'
    <3>1. CASE q = p
      BY <1>3, <2>1, <3>1
    <3>2. CASE q # p
      <4>1. request'[q] = request[q] /\ RequestOK(request[q])
        BY <1>1, <1>3, <2>1, <3>2
      <4>2. Formed(request[q]) /\ request[q].session \in 1..sessions
        BY <4>1 DEF RequestOK, Formed
      <4> QED
        BY <1>1, <4>1, <4>2
    <3> QED
      BY <3>1, <3>2
  <2> QED
    BY <2>1
<1>7. TypeOK'
  <2>1. \A q \in Processes : Waiting(q)' => RequestOK(request[q])'
    BY <1>6 DEF Waiting, NoRequest, Formed, RequestOK
  <2> QED
    BY <1>4, <1>5, <2>1 DEF TypeOK
<1>8. RequestsFit'
  <2>1. ASSUME NEW q \in Processes, request'[q] # NoRequest
        PROVE  Fits(request'[q], dictionary'[q])
    <3>1. CASE q = p
      BY <1>2, <1>3, <2>1, <3>1
    <3>2. CASE q # p
      BY <1>2, <1>3, <2>1, <3>2 DEF IInv, RequestsFit, Waiting
    <3> QED
      BY <3>1, <3>2
  <2> QED
    BY <2>1 DEF RequestsFit, Waiting, NoRequest, Fits
<1>9. SettledAgrees'
  <2>1. ASSUME NEW q \in Processes,
               NEW i \in 1..(IF request'[q] # NoRequest THEN request'[q].snapshot.count
                                                        ELSE Len(dictionary'[q].series))
        PROVE  Agrees(dictionary'[q], i, known', forgotten')
    <3>1. CASE q = p
      BY <1>2, <1>3, <2>1, <3>1
    <3>2. CASE q # p
      <4>1. dictionary'[q] = dictionary[q] /\ request'[q] = request[q]
        BY <1>2, <1>3, <3>2
      <4>2. i \in 1..Settled(q)
        BY <2>1, <4>1 DEF Settled, Waiting
      <4> QED
        BY <3>2, <4>1, <4>2 DEF Agrees
    <3> QED
      BY <3>1, <3>2
  <2> QED
    BY <2>1 DEF SettledAgrees, Settled, Waiting, NoRequest, Agrees
<1>10. ZeroIsNone'
  BY <1>2 DEF IInv, ZeroIsNone, NoDictionary
<1>11. SessionsNotShared'
  BY <1>2 DEF IInv, SessionsNotShared
<1>12. DictionaryBounded'
  <2>1. ASSUME NEW q \in Processes
        PROVE  \E batch \in Batches : Len(dictionary'[q].series) < MaxSeries + Cardinality(batch)
    BY <1>2 DEF IInv, DictionaryBounded
  <2> QED
    BY <2>1 DEF DictionaryBounded
<1> QED
  BY <1>7, <1>8, <1>9, <1>10, <1>11, <1>12 DEF IInv, AttributedRight

\* The endpoint's part of such a step: nothing, but for the sessions it counts.
LEMMA EndpointIdle ==
    ASSUME IInv, UNCHANGED serverVars, sessions' \in Nat, sessions <= sessions'
    PROVE  /\ known' \subseteq [session : 1..sessions', id : Nat, series : Series]
           /\ forgotten' \subseteq Nat
           /\ misattributed' = {}
           /\ \A d, i : Agrees(d, i, known, forgotten) => Agrees(d, i, known', forgotten')
           /\ \A q \in Processes : \A i \in 1..Settled(q) : Agrees(dictionary[q], i, known', forgotten')
<1>1. known' = known /\ forgotten' = forgotten /\ misattributed' = misattributed
  BY DEF serverVars
<1>2. known \subseteq [session : 1..sessions, id : Nat, series : Series]
      /\ forgotten \subseteq Nat /\ misattributed = {} /\ sessions \in Nat
  BY DEF IInv, TypeOK, AttributedRight
<1>3. [session : 1..sessions, id : Nat, series : Series]
        \subseteq [session : 1..sessions', id : Nat, series : Series]
  <2>1. 1..sessions \subseteq 1..sessions'
    BY <1>2
  <2> QED
    BY <2>1
<1>4. \A d, i : Agrees(d, i, known, forgotten) => Agrees(d, i, known', forgotten')
  BY <1>1 DEF Agrees
<1>5. \A q \in Processes : \A i \in 1..Settled(q) : Agrees(dictionary[q], i, known', forgotten')
  BY <1>4 DEF IInv, SettledAgrees
<1> QED
  BY <1>1, <1>2, <1>3, <1>4, <1>5

(***************************************************************************)
(* The client's steps.                                                     *)
(***************************************************************************)
\* A request encoded with a dictionary the endpoint agrees with.
LEMMA EncodeKeeps ==
    ASSUME IInv,
           NEW p \in Processes, NEW batch \in Batches, NEW dict \in DictionaryType,
           NEW force \in BOOLEAN, Encode(p, batch, dict, force),
           alive' = alive, UNCHANGED serverVars,
           sessions' \in Nat, sessions <= sessions',
           dict.session \in 1..sessions',
           Len(dict.series) < MaxSeries,
           \A i \in 1..Len(dict.series) : Agrees(dict, i, known, forgotten),
           \A q \in Processes : q # p => dict.session # dictionary[q].session
    PROVE  IInv'
<1>1. PICK d, r : /\ dictionary' = [dictionary EXCEPT ![p] = d]
                  /\ request' = [request EXCEPT ![p] = r]
                  /\ Extends(d, dict, batch)
                  /\ Formed(r)
                  /\ Fits(r, d)
                  /\ r.snapshot.count = Len(dict.series)
  BY EncodeGives
<1>2. /\ d \in DictionaryType /\ d.session = dict.session /\ r.session = d.session
      /\ Len(d.series) <= Len(dict.series) + Cardinality(batch)
      /\ \A i \in 1..Len(dict.series) : d.series[i] = dict.series[i]
  BY <1>1 DEF Extends, Fits
<1>3. r # NoRequest
  <2>1. r.session \in 1..sessions'
    BY <1>2
  <2>2. r.session # 0
    BY <2>1
  <2> QED
    BY <2>2 DEF NoRequest
<1>4. /\ known' \subseteq [session : 1..sessions', id : Nat, series : Series]
      /\ forgotten' \subseteq Nat
      /\ misattributed' = {}
      /\ \A x, i : Agrees(x, i, known, forgotten) => Agrees(x, i, known', forgotten')
      /\ \A q \in Processes : \A i \in 1..Settled(q) : Agrees(dictionary[q], i, known', forgotten')
  BY EndpointIdle
<1>5. \A i \in 1..Len(dict.series) : Agrees(d, i, known', forgotten')
  <2>1. ASSUME NEW i \in 1..Len(dict.series)
        PROVE  Agrees(d, i, known', forgotten')
    <3>1. Agrees(dict, i, known', forgotten')
      BY <1>4
    <3> QED
      BY <1>2, <3>1 DEF Agrees
  <2> QED
    BY <2>1
<1>6. Len(d.series) < MaxSeries + Cardinality(batch)
  <2>1. Len(d.series) \in Nat /\ Len(dict.series) \in Nat
    <3>1. d.series \in Seq(Series) /\ dict.series \in Seq(Series)
      BY <1>2 DEF DictionaryType
    <3> QED
      BY <3>1, LenProperties
  <2>2. Cardinality(batch) \in Nat /\ MaxSeries \in Nat
    BY BatchesFinite, DictionaryAssumption
  <2> QED
    BY <1>2, <2>1, <2>2
<1>7. alive' \subseteq Processes
  BY DEF IInv, TypeOK
<1>8. d.session \in 1..sessions' /\ d.session <= sessions' /\ d.session # 0
  BY <1>2
<1>9. \A i \in 1..(IF r # NoRequest THEN r.snapshot.count ELSE Len(d.series)) :
         Agrees(d, i, known', forgotten')
  BY <1>1, <1>3, <1>5
<1>10. Formed(r) /\ r.session \in 1..sessions' /\ Fits(r, d)
  BY <1>1, <1>2, <1>8
<1>11. \A q \in Processes : q # p => d.session # dictionary[q].session
  BY <1>2
<1>12. \E b \in Batches : Len(d.series) < MaxSeries + Cardinality(b)
  BY <1>6
<1>13. dictionary' = [dictionary EXCEPT ![p] = d] /\ request' = [request EXCEPT ![p] = r]
  BY <1>1
<1> QED
  BY <1>2, <1>4, <1>7, <1>8, <1>9, <1>10, <1>11, <1>12, <1>13, OneProcessMoves

\* A session that has just been drawn is nobody's.
LEMMA NewSession ==
    ASSUME IInv, OpensSession
    PROVE  /\ sessions' = sessions + 1 /\ sessions \in Nat /\ sessions' \in Nat
           /\ sessions <= sessions'
           /\ NewDictionary \in DictionaryType
           /\ NewDictionary.session = sessions'
           /\ NewDictionary.session \in 1..sessions'
           /\ NewDictionary.session # 0
           /\ NewDictionary.series = << >>
           /\ Len(NewDictionary.series) = 0
           /\ \A q \in Processes : NewDictionary.session # dictionary[q].session
<1>1. sessions' = sessions + 1 /\ sessions \in Nat
  BY DEF OpensSession, IInv, TypeOK
<1>2. /\ NewDictionary.session = sessions + 1
      /\ NewDictionary.revision = 0
      /\ NewDictionary.series = << >>
  BY DEF NewDictionary
<1>3. NewDictionary \in DictionaryType
  <2>1. sessions + 1 \in Nat /\ << >> \in Seq(Series)
    BY <1>1
  <2> QED
    BY <2>1 DEF NewDictionary, DictionaryType
<1>4. \A q \in Processes : dictionary[q].session \in 0..sessions
  BY SettledPart
<1>5. Len(NewDictionary.series) = 0
  BY <1>2
<1> QED
  BY <1>1, <1>2, <1>3, <1>4, <1>5

LEMMA SendFreshKeeps ==
    ASSUME IInv, NEW p \in Processes, NEW batch \in Batches, SendFresh(p, batch)
    PROVE  IInv'
<1>1. OpensSession /\ Encode(p, batch, NewDictionary, FALSE) /\ UNCHANGED <<alive, serverVars>>
  BY DEF SendFresh
<1>2. PICK dict : dict = NewDictionary
  OBVIOUS
<1>3. Encode(p, batch, dict, FALSE)
  BY <1>1, <1>2
<1>4. /\ sessions' \in Nat /\ sessions <= sessions' /\ dict \in DictionaryType
      /\ dict.session \in 1..sessions'
      /\ Len(dict.series) = 0
      /\ \A q \in Processes : dict.session # dictionary[q].session
  BY <1>1, <1>2, NewSession
<1>5. Len(dict.series) < MaxSeries
  BY <1>4, DictionaryAssumption
<1>6. \A i \in 1..Len(dict.series) : Agrees(dict, i, known, forgotten)
  BY <1>4
<1> QED
  BY <1>1, <1>3, <1>4, <1>5, <1>6, EncodeKeeps

LEMMA UnknownDictionaryKeeps ==
    ASSUME IInv, NEW p \in Processes, UnknownDictionary(p)
    PROVE  IInv'
<1>1. /\ OpensSession /\ UNCHANGED <<alive, serverVars>>
      /\ Waiting(p)
      /\ Encode(p, DOMAIN request[p].refers, NewDictionary, TRUE)
  BY DEF UnknownDictionary
<1>2. PICK dict : dict = NewDictionary
  OBVIOUS
<1>3. DOMAIN request[p].refers \in Batches
  BY <1>1 DEF IInv, TypeOK, RequestOK
<1>4. PICK batch \in Batches : batch = DOMAIN request[p].refers
  BY <1>3
<1>5. Encode(p, batch, dict, TRUE)
  BY <1>1, <1>2, <1>4
<1>6. /\ sessions' \in Nat /\ sessions <= sessions' /\ dict \in DictionaryType
      /\ dict.session \in 1..sessions'
      /\ Len(dict.series) = 0
      /\ \A q \in Processes : dict.session # dictionary[q].session
  BY <1>1, <1>2, NewSession
<1>7. Len(dict.series) < MaxSeries
  BY <1>6, DictionaryAssumption
<1>8. \A i \in 1..Len(dict.series) : Agrees(dict, i, known, forgotten)
  BY <1>6
<1> QED
  BY <1>1, <1>5, <1>6, <1>7, <1>8, EncodeKeeps

LEMMA SendNextKeeps ==
    ASSUME IInv, NEW p \in Processes, NEW batch \in Batches, SendNext(p, batch)
    PROVE  IInv'
<1>1. /\ ~Waiting(p) /\ ~ShouldReset(dictionary[p])
      /\ Encode(p, batch, dictionary[p], FALSE)
      /\ UNCHANGED <<alive, sessions, serverVars>>
  BY DEF SendNext
<1>2. PICK dict : dict = dictionary[p]
  OBVIOUS
<1>3. Encode(p, batch, dict, FALSE)
  BY <1>1, <1>2
<1>4. /\ dict \in DictionaryType /\ Len(dict.series) \in Nat
      /\ dict.session \in 0..sessions /\ sessions \in Nat
  BY <1>2, SettledPart DEF IInv, TypeOK
<1>5. dict.session # 0
  BY <1>1, <1>2 DEF ShouldReset, IInv, ZeroIsNone
<1>6. Len(dict.series) < MaxSeries
  <2>1. ~(Len(dict.series) >= MaxSeries)
    BY <1>1, <1>2 DEF ShouldReset
  <2> QED
    BY <1>4, <2>1, DictionaryAssumption
<1>7. \A i \in 1..Len(dict.series) : Agrees(dict, i, known, forgotten)
  BY <1>1, <1>2 DEF IInv, SettledAgrees, Settled
<1>8. \A q \in Processes : q # p => dict.session # dictionary[q].session
  BY <1>2, <1>5 DEF IInv, SessionsNotShared
<1>9. sessions' \in Nat /\ sessions <= sessions' /\ dict.session \in 1..sessions'
  BY <1>1, <1>4, <1>5
<1> QED
  BY <1>1, <1>3, <1>4, <1>6, <1>7, <1>8, <1>9, EncodeKeeps

LEMMA BatchExists ==
    ASSUME NEW n \in Nat, n < MaxSeries
    PROVE  \E batch \in Batches : n < MaxSeries + Cardinality(batch)
<1>1. PICK batch : batch \in Batches
  BY DictionaryAssumption
<1>2. Cardinality(batch) \in Nat /\ MaxSeries \in Nat
  BY <1>1, BatchesFinite, DictionaryAssumption
<1> QED
  BY <1>1, <1>2

LEMMA BodyTooLargeKeeps ==
    ASSUME IInv, NEW p \in Processes, BodyTooLarge(p)
    PROVE  IInv'
<1>1. /\ OpensSession /\ UNCHANGED <<alive, serverVars>>
      /\ dictionary' = [dictionary EXCEPT ![p] = NewDictionary]
      /\ request' = [request EXCEPT ![p] = NoRequest]
  BY DEF BodyTooLarge, RequestOver
<1>2. PICK d : d = NewDictionary
  OBVIOUS
<1>3. PICK r : r = NoRequest
  OBVIOUS
<1>4. /\ sessions' \in Nat /\ sessions <= sessions' /\ d \in DictionaryType
      /\ d.session \in 1..sessions' /\ d.session # 0
      /\ Len(d.series) = 0
      /\ \A q \in Processes : d.session # dictionary[q].session
  BY <1>1, <1>2, NewSession
<1>5. \E batch \in Batches : Len(d.series) < MaxSeries + Cardinality(batch)
  BY <1>4, BatchExists, DictionaryAssumption
<1>6. \A i \in 1..(IF r # NoRequest THEN r.snapshot.count ELSE Len(d.series)) :
         Agrees(d, i, known', forgotten')
  BY <1>3, <1>4
<1>7. /\ known' \subseteq [session : 1..sessions', id : Nat, series : Series]
      /\ forgotten' \subseteq Nat
      /\ misattributed' = {}
      /\ \A q \in Processes : \A i \in 1..Settled(q) : Agrees(dictionary[q], i, known', forgotten')
  BY <1>1, <1>4, EndpointIdle
<1>8. alive' \subseteq Processes
  BY <1>1 DEF IInv, TypeOK
<1>9. d.session <= sessions'
  BY <1>4
<1>10. dictionary' = [dictionary EXCEPT ![p] = d] /\ request' = [request EXCEPT ![p] = r]
  BY <1>1, <1>2, <1>3
<1> QED
  BY <1>3, <1>4, <1>5, <1>6, <1>7, <1>8, <1>9, <1>10, OneProcessMoves

LEMMA ForkKeeps ==
    ASSUME IInv, NEW p \in Processes, NEW child \in Processes, Fork(p, child)
    PROVE  IInv'
<1>1. /\ alive' = alive \cup {child}
      /\ dictionary' = [dictionary EXCEPT ![child] = NoDictionary]
      /\ request' = [request EXCEPT ![child] = NoRequest]
      /\ UNCHANGED <<sessions, serverVars>>
  BY DEF Fork
<1>2. PICK d : d = NoDictionary
  OBVIOUS
<1>3. PICK r : r = NoRequest
  OBVIOUS
<1>4. sessions' \in Nat /\ sessions <= sessions'
  BY <1>1 DEF IInv, TypeOK
<1>5. d \in DictionaryType /\ d.session = 0 /\ Len(d.series) = 0
  <2>1. d = [session |-> 0, revision |-> 0, series |-> << >>]
    BY <1>2 DEF NoDictionary
  <2>2. << >> \in Seq(Series)
    OBVIOUS
  <2> QED
    BY <2>1, <2>2 DEF DictionaryType
<1>6. \E batch \in Batches : Len(d.series) < MaxSeries + Cardinality(batch)
  BY <1>5, BatchExists, DictionaryAssumption
<1>7. \A i \in 1..(IF r # NoRequest THEN r.snapshot.count ELSE Len(d.series)) :
         Agrees(d, i, known', forgotten')
  BY <1>3, <1>5
<1>8. /\ known' \subseteq [session : 1..sessions', id : Nat, series : Series]
      /\ forgotten' \subseteq Nat
      /\ misattributed' = {}
      /\ \A q \in Processes : \A i \in 1..Settled(q) : Agrees(dictionary[q], i, known', forgotten')
  BY <1>1, <1>4, EndpointIdle
<1>9. alive' \subseteq Processes
  BY <1>1 DEF IInv, TypeOK
<1>10. d.session <= sessions'
  BY <1>4, <1>5
<1>11. dictionary' = [dictionary EXCEPT ![child] = d] /\ request' = [request EXCEPT ![child] = r]
  BY <1>1, <1>2, <1>3
<1> QED
  BY <1>2, <1>3, <1>4, <1>5, <1>6, <1>7, <1>8, <1>9, <1>10, <1>11, OneProcessMoves

(***************************************************************************)
(* The endpoint's steps, and what becomes of a request.                    *)
(***************************************************************************)
LEMMA InFlight ==
    ASSUME IInv, NEW p \in Processes, Waiting(p)
    PROVE  /\ Formed(request[p])
           /\ request[p].session \in 1..sessions
           /\ request[p].session = dictionary[p].session
           /\ Fits(request[p], dictionary[p])
           /\ request[p].snapshot \in [count : Nat, revision : Nat]
           /\ request[p].snapshot.count \in 0..Len(dictionary[p].series)
           /\ Settled(p) = request[p].snapshot.count
<1>1. RequestOK(request[p]) /\ Fits(request[p], dictionary[p])
  BY DEF IInv, TypeOK, RequestsFit
<1> QED
  BY <1>1 DEF RequestOK, Formed, Fits, Settled

\* What is rolled back agrees with the endpoint wherever the dictionary did.
LEMMA RolledBackIs ==
    ASSUME NEW d \in DictionaryType, NEW snapshot \in [count : Nat, revision : Nat],
           snapshot.count <= Len(d.series)
    PROVE  /\ RolledBack(d, snapshot) \in DictionaryType
           /\ RolledBack(d, snapshot).session = d.session
           /\ Len(RolledBack(d, snapshot).series) = snapshot.count
           /\ \A i \in 1..snapshot.count : RolledBack(d, snapshot).series[i] = d.series[i]
<1> DEFINE c == snapshot.count
           front == SubSeq(d.series, 1, c)
<1>1. /\ d.series \in Seq(Series) /\ d.session \in Nat /\ d.revision \in Nat
      /\ c \in Nat /\ snapshot.revision \in Nat /\ Len(d.series) \in Nat
  <2>1. d.series \in Seq(Series) /\ d.session \in Nat /\ d.revision \in Nat
    BY DEF DictionaryType
  <2> QED
    BY <2>1, LenProperties
<1>2. \A i \in 1..c : d.series[i] \in Series
  BY <1>1, ElementOfSeq
<1>3. /\ front \in Seq(Series)
      /\ Len(front) = c
      /\ \A i \in 1..c : front[i] = d.series[i]
  <2>1. /\ front \in Seq(Series)
        /\ Len(front) = IF 1 <= c THEN c - 1 + 1 ELSE 0
        /\ \A i \in 1..c - 1 + 1 : front[i] = d.series[1 + i - 1]
    BY <1>1, <1>2, SubSeqProperties
  <2>2. Len(front) = c /\ c - 1 + 1 = c
    BY <1>1, <2>1
  <2>3. \A i \in 1..c : 1 + i - 1 = i
    BY <1>1
  <2> QED
    BY <2>1, <2>2, <2>3
<1> HIDE DEF front
<1>4. PICK n : n = snapshot.revision
  OBVIOUS
<1>5. RolledBack(d, snapshot) = [d EXCEPT !.series = front, !.revision = n]
  BY <1>4 DEF RolledBack, front
<1>6. PICK s : s = front
  OBVIOUS
<1>7. /\ RolledBack(d, snapshot) \in DictionaryType
      /\ RolledBack(d, snapshot).session = d.session
      /\ RolledBack(d, snapshot).series = s
  <2>1. s \in Seq(Series) /\ n \in Nat
    BY <1>1, <1>3, <1>4, <1>6
  <2>2. RolledBack(d, snapshot) = [d EXCEPT !.series = s, !.revision = n]
    BY <1>5, <1>6, Zenon
  <2>3. /\ [d EXCEPT !.series = s, !.revision = n] \in DictionaryType
        /\ [d EXCEPT !.series = s, !.revision = n].session = d.session
        /\ [d EXCEPT !.series = s, !.revision = n].series = s
    BY <2>1 DEF DictionaryType
  <2> QED
    BY <2>2, <2>3, Zenon
<1> QED
  BY <1>3, <1>6, <1>7

\* The endpoint's part of processing a request of p.
LEMMA EndpointProcesses ==
    ASSUME IInv, NEW p \in Processes, Waiting(p), Process(request[p]),
           UNCHANGED <<sessions, forgotten>>
    PROVE  /\ known' \subseteq [session : 1..sessions', id : Nat, series : Series]
           /\ misattributed' = {}
           /\ \A i \in 1..Len(dictionary[p].series) :
                 Agrees(dictionary[p], i, known', forgotten')
           /\ \A q \in Processes : q # p =>
                 \A i \in 1..Settled(q) : Agrees(dictionary[q], i, known', forgotten')
<1>1. PICK r : r = request[p]
  OBVIOUS
<1>2. PICK d : d = dictionary[p]
  OBVIOUS
<1>3. /\ Formed(r) /\ Fits(r, d)
      /\ r.session \in 1..sessions /\ r.session = d.session
      /\ r.snapshot.count \in 0..Len(d.series)
      /\ \A i \in 1..r.snapshot.count : Agrees(d, i, known, forgotten)
  BY <1>1, <1>2, InFlight DEF IInv, SettledAgrees
<1>4. Len(d.series) \in Nat
  BY <1>2, SettledPart
<1>5. /\ known' = KnownAfter(r)
      /\ misattributed' = misattributed \cup {pair \in StoredBy(r) : pair[1] # pair[2]}
      /\ sessions' = sessions /\ forgotten' = forgotten
  BY <1>1 DEF Process
<1>6. known \subseteq [session : 1..sessions, id : Nat, series : Series]
      /\ misattributed = {}
  BY DEF IInv, TypeOK, AttributedRight
<1>7. \A t \in KnownAfter(r) :
         \/ t \in known /\ ~(t.session = r.session /\ t.id \in DOMAIN r.defines)
         \/ \E i \in DOMAIN r.defines :
               t = [session |-> r.session, id |-> i, series |-> r.defines[i]]
  BY DEF KnownAfter
<1>8. \A t \in known : t.session # r.session => t \in KnownAfter(r)
  BY DEF KnownAfter
<1>9. \A i \in DOMAIN r.defines :
         \E t \in KnownAfter(r) : t.session = r.session /\ t.id = i
  <2>1. ASSUME NEW i \in DOMAIN r.defines
        PROVE  \E t \in KnownAfter(r) : t.session = r.session /\ t.id = i
    <3>1. PICK t : t = [session |-> r.session, id |-> i, series |-> r.defines[i]]
      OBVIOUS
    <3>2. t \in KnownAfter(r)
      BY <3>1 DEF KnownAfter
    <3> QED
      BY <3>1, <3>2
  <2> QED
    BY <2>1
<1>10. \A t \in known : t.id \notin DOMAIN r.defines => t \in KnownAfter(r)
  BY DEF KnownAfter
<1>11. KnownAfter(r) \subseteq [session : 1..sessions, id : Nat, series : Series]
  <2>1. ASSUME NEW t \in KnownAfter(r)
        PROVE  t \in [session : 1..sessions, id : Nat, series : Series]
    <3>1. CASE t \in known
      BY <1>6, <3>1
    <3>2. CASE \E i \in DOMAIN r.defines :
                  t = [session |-> r.session, id |-> i, series |-> r.defines[i]]
      <4>1. PICK i \in DOMAIN r.defines :
                  t = [session |-> r.session, id |-> i, series |-> r.defines[i]]
        BY <3>2
      <4>2. i \in Nat /\ r.defines[i] \in Series
        BY <1>3 DEF Formed
      <4> QED
        BY <1>3, <4>1, <4>2
    <3> QED
      BY <1>7, <3>1, <3>2
  <2> QED
    BY <2>1
<1>12. \A i \in 1..Len(d.series) :
          \A t \in KnownAfter(r) : t.session = d.session /\ t.id = i => t.series = d.series[i]
  <2>1. ASSUME NEW i \in 1..Len(d.series), NEW t \in KnownAfter(r), t.session = d.session, t.id = i
        PROVE  t.series = d.series[i]
    <3>1. CASE i \in DOMAIN r.defines
      <4>1. PICK j \in DOMAIN r.defines :
                  t = [session |-> r.session, id |-> j, series |-> r.defines[j]]
        BY <1>3, <1>7, <2>1, <3>1
      <4>2. j = i /\ t.series = r.defines[j]
        BY <2>1, <4>1
      <4>3. r.defines[i] = d.series[i]
        BY <1>3, <3>1 DEF Fits
      <4> QED
        BY <4>2, <4>3
    <3>2. CASE i \notin DOMAIN r.defines
      <4>1. t \in known
        <5>1. ASSUME NEW j \in DOMAIN r.defines,
                     t = [session |-> r.session, id |-> j, series |-> r.defines[j]]
              PROVE  FALSE
          <6>1. t.id = j
            BY <5>1
          <6> QED
            BY <2>1, <3>2, <6>1
        <5> QED
          BY <1>7, <5>1
      <4>2. i \in 1..r.snapshot.count
        BY <1>3, <1>4, <3>2 DEF Fits
      <4>3. Agrees(d, i, known, forgotten)
        BY <1>3, <4>2
      <4> QED
        BY <2>1, <4>1, <4>3 DEF Agrees
    <3> QED
      BY <3>1, <3>2
  <2> QED
    BY <2>1
<1>13. \A i \in 1..Len(d.series) : Agrees(d, i, known', forgotten')
  <2>1. ASSUME NEW i \in 1..Len(d.series), d.session \notin forgotten
        PROVE  \E t \in KnownAfter(r) : t.session = d.session /\ t.id = i
    <3>1. CASE i \in DOMAIN r.defines
      BY <1>3, <1>9, <3>1
    <3>2. CASE i \notin DOMAIN r.defines
      <4>1. i \in 1..r.snapshot.count
        BY <1>3, <1>4, <3>2 DEF Fits
      <4>2. Agrees(d, i, known, forgotten)
        BY <1>3, <4>1
      <4>3. PICK t \in known : t.session = d.session /\ t.id = i
        BY <2>1, <4>2 DEF Agrees
      <4> QED
        BY <1>10, <3>2, <4>3
    <3> QED
      BY <3>1, <3>2
  <2> QED
    BY <1>5, <1>12, <2>1 DEF Agrees
<1>14. misattributed' = {}
  <2>1. ASSUME NEW pair \in StoredBy(r)
        PROVE  pair[1] = pair[2]
    <3>1. PICK s \in DOMAIN r.refers :
             pair \in {<<s, t.series>> : t \in Entries(KnownAfter(r), r.session, r.refers[s])}
      BY <2>1 DEF StoredBy
    <3>2. PICK t \in Entries(KnownAfter(r), r.session, r.refers[s]) : pair = <<s, t.series>>
      BY <3>1
    <3>3. t \in KnownAfter(r) /\ t.session = r.session /\ t.id = r.refers[s]
      BY <3>2 DEF Entries
    <3>4. r.refers[s] \in 1..Len(d.series) /\ d.series[r.refers[s]] = s
      BY <1>3 DEF Fits
    <3>5. t.series = s
      BY <1>3, <1>12, <3>3, <3>4
    <3> QED
      BY <3>2, <3>5
  <2> QED
    BY <1>5, <1>6, <2>1
<1>15. ASSUME NEW q \in Processes, q # p, NEW i \in 1..Settled(q)
       PROVE  Agrees(dictionary[q], i, known', forgotten')
  <2>1. Agrees(dictionary[q], i, known, forgotten)
    BY DEF IInv, SettledAgrees
  <2>2. dictionary[q].session # 0
    <3>1. Settled(q) # 0
      BY SettledPart
    <3> QED
      BY <3>1, SettledPart
  <2>3. dictionary[q].session # r.session
    BY <1>2, <1>3, <1>15, <2>2 DEF IInv, SessionsNotShared
  <2>4. \A t \in KnownAfter(r) : t.session = dictionary[q].session => t \in known
    <3>1. ASSUME NEW t \in KnownAfter(r), t.session = dictionary[q].session, t \notin known
          PROVE  FALSE
      <4>1. PICK j \in DOMAIN r.defines :
                  t = [session |-> r.session, id |-> j, series |-> r.defines[j]]
        BY <1>7, <3>1
      <4>2. t.session = r.session
        BY <4>1
      <4> QED
        BY <2>3, <3>1, <4>2
    <3> QED
      BY <3>1
  <2>5. \A t \in known : t.session = dictionary[q].session => t \in KnownAfter(r)
    BY <1>8, <2>3
  <2> QED
    BY <1>5, <2>1, <2>4, <2>5 DEF Agrees
<1> QED
  BY <1>2, <1>5, <1>11, <1>13, <1>14, <1>15

\* The facts that need nothing from the request's outcome.
LEMMA Unmoved ==
    ASSUME IInv, NEW p \in Processes
    PROVE  /\ alive \subseteq Processes /\ forgotten \subseteq Nat /\ sessions \in Nat
           /\ dictionary[p].session <= sessions
           /\ \A q \in Processes :
                 q # p /\ dictionary[p].session = dictionary[q].session => dictionary[p].session = 0
           /\ dictionary[p].session = 0 => dictionary[p] = NoDictionary
           /\ \E batch \in Batches : Len(dictionary[p].series) < MaxSeries + Cardinality(batch)
BY DEF IInv, TypeOK, SessionsNotShared, ZeroIsNone, DictionaryBounded

LEMMA AcceptedKeeps ==
    ASSUME IInv, NEW p \in Processes, Accepted(p)
    PROVE  IInv'
<1>1. /\ Waiting(p) /\ Process(request[p])
      /\ request' = [request EXCEPT ![p] = NoRequest]
      /\ UNCHANGED <<alive, dictionary, sessions, forgotten>>
  BY DEF Accepted, RequestOver
<1>2. PICK d : d = dictionary[p]
  OBVIOUS
<1>3. PICK r : r = NoRequest
  OBVIOUS
<1>4. /\ known' \subseteq [session : 1..sessions', id : Nat, series : Series]
      /\ misattributed' = {}
      /\ \A i \in 1..Len(dictionary[p].series) : Agrees(dictionary[p], i, known', forgotten')
      /\ \A q \in Processes : q # p =>
            \A i \in 1..Settled(q) : Agrees(dictionary[q], i, known', forgotten')
  BY <1>1, EndpointProcesses
<1>5. dictionary' = [dictionary EXCEPT ![p] = d] /\ request' = [request EXCEPT ![p] = r]
  <2>1. dictionary \in [Processes -> DictionaryType]
    BY DEF IInv, TypeOK
  <2> QED
    BY <1>1, <1>2, <1>3, <2>1
<1>6. \A i \in 1..(IF r # NoRequest THEN r.snapshot.count ELSE Len(d.series)) :
         Agrees(d, i, known', forgotten')
  BY <1>2, <1>3, <1>4
<1>7. /\ alive' \subseteq Processes /\ forgotten' \subseteq Nat
      /\ sessions' \in Nat /\ sessions <= sessions'
      /\ d \in DictionaryType /\ d.session <= sessions'
      /\ d.session = 0 => d = NoDictionary
      /\ \A q \in Processes : q # p /\ d.session = dictionary[q].session => d.session = 0
      /\ \E batch \in Batches : Len(d.series) < MaxSeries + Cardinality(batch)
  BY <1>1, <1>2, Unmoved, SettledPart
<1> QED
  BY <1>3, <1>4, <1>5, <1>6, <1>7, OneProcessMoves

\* Rolling back, whatever the endpoint made of the request.
LEMMA RollBackKeeps ==
    ASSUME IInv, NEW p \in Processes, Waiting(p), RollBack(p), RequestOver(p),
           UNCHANGED <<alive, sessions, forgotten>>,
           known' \subseteq [session : 1..sessions', id : Nat, series : Series],
           misattributed' = {},
           \A i \in 1..Settled(p) : Agrees(dictionary[p], i, known', forgotten'),
           \A q \in Processes : q # p =>
              \A i \in 1..Settled(q) : Agrees(dictionary[q], i, known', forgotten')
    PROVE  IInv'
<1>1. PICK d : d = RolledBack(dictionary[p], request[p].snapshot)
  OBVIOUS
<1>2. PICK r : r = NoRequest
  OBVIOUS
<1>3. dictionary' = [dictionary EXCEPT ![p] = d] /\ request' = [request EXCEPT ![p] = r]
  BY <1>1, <1>2 DEF RollBack, RequestOver
<1>4. /\ request[p].snapshot \in [count : Nat, revision : Nat]
      /\ request[p].snapshot.count \in 0..Len(dictionary[p].series)
      /\ Settled(p) = request[p].snapshot.count
      /\ request[p].session \in 1..sessions
      /\ request[p].session = dictionary[p].session
      /\ dictionary[p] \in DictionaryType /\ Len(dictionary[p].series) \in Nat
  BY InFlight, SettledPart
<1>5. /\ d \in DictionaryType
      /\ d.session = dictionary[p].session
      /\ Len(d.series) = Settled(p)
      /\ \A i \in 1..Settled(p) : d.series[i] = dictionary[p].series[i]
  BY <1>1, <1>4, RolledBackIs
<1>6. \A i \in 1..(IF r # NoRequest THEN r.snapshot.count ELSE Len(d.series)) :
         Agrees(d, i, known', forgotten')
  <2>1. ASSUME NEW i \in 1..Settled(p)
        PROVE  Agrees(d, i, known', forgotten')
    <3>1. Agrees(dictionary[p], i, known', forgotten')
      OBVIOUS
    <3> QED
      BY <1>5, <3>1 DEF Agrees
  <2> QED
    BY <1>2, <1>5, <2>1
<1>7. \E batch \in Batches : Len(d.series) < MaxSeries + Cardinality(batch)
  <2>1. PICK batch \in Batches : Len(dictionary[p].series) < MaxSeries + Cardinality(batch)
    BY Unmoved
  <2>2. Cardinality(batch) \in Nat /\ MaxSeries \in Nat
    BY BatchesFinite, DictionaryAssumption
  <2>3. Len(d.series) < MaxSeries + Cardinality(batch)
    BY <1>4, <1>5, <2>1, <2>2
  <2> QED
    BY <2>3
<1>8. d.session # 0
  BY <1>4, <1>5
<1>9. /\ alive' \subseteq Processes /\ forgotten' \subseteq Nat
      /\ sessions' \in Nat /\ sessions <= sessions'
      /\ d.session <= sessions'
      /\ \A q \in Processes : q # p /\ d.session = dictionary[q].session => d.session = 0
  BY <1>5, Unmoved
<1> QED
  BY <1>2, <1>3, <1>5, <1>6, <1>7, <1>8, <1>9, OneProcessMoves

LEMMA AnswerLostKeeps ==
    ASSUME IInv, NEW p \in Processes, AnswerLost(p)
    PROVE  IInv'
<1>1. /\ Waiting(p) /\ Process(request[p]) /\ RollBack(p) /\ RequestOver(p)
      /\ UNCHANGED <<alive, sessions, forgotten>>
  BY DEF AnswerLost
<1>2. /\ known' \subseteq [session : 1..sessions', id : Nat, series : Series]
      /\ misattributed' = {}
      /\ \A i \in 1..Len(dictionary[p].series) : Agrees(dictionary[p], i, known', forgotten')
      /\ \A q \in Processes : q # p =>
            \A i \in 1..Settled(q) : Agrees(dictionary[q], i, known', forgotten')
  BY <1>1, EndpointProcesses
<1>3. \A i \in 1..Settled(p) : i \in 1..Len(dictionary[p].series)
  BY SettledPart
<1> QED
  BY <1>1, <1>2, <1>3, RollBackKeeps

LEMMA NotProcessedKeeps ==
    ASSUME IInv, NEW p \in Processes, NotProcessed(p)
    PROVE  IInv'
<1>1. /\ Waiting(p) /\ RollBack(p) /\ RequestOver(p)
      /\ UNCHANGED <<alive, sessions>> /\ UNCHANGED serverVars
      /\ forgotten' = forgotten
  BY DEF NotProcessed, serverVars
<1>2. sessions' \in Nat /\ sessions <= sessions'
  BY <1>1 DEF IInv, TypeOK
<1>3. /\ known' \subseteq [session : 1..sessions', id : Nat, series : Series]
      /\ misattributed' = {}
      /\ \A q \in Processes : \A i \in 1..Settled(q) : Agrees(dictionary[q], i, known', forgotten')
  BY <1>1, <1>2, EndpointIdle
<1> QED
  BY <1>1, <1>3, RollBackKeeps

LEMMA ForgetKeeps ==
    ASSUME IInv, NEW session \in 1..sessions, Forget(session)
    PROVE  IInv'
<1>1. /\ known' = {t \in known : t.session # session}
      /\ forgotten' = forgotten \cup {session}
      /\ UNCHANGED <<alive, dictionary, request, sessions, misattributed>>
  BY DEF Forget
<1>2. \A q \in Processes : \A i \in 1..Settled(q) : Agrees(dictionary[q], i, known', forgotten')
  <2>1. ASSUME NEW q \in Processes, NEW i \in 1..Settled(q)
        PROVE  Agrees(dictionary[q], i, known', forgotten')
    <3>1. Agrees(dictionary[q], i, known, forgotten)
      BY DEF IInv, SettledAgrees
    <3> QED
      BY <1>1, <3>1 DEF Agrees
  <2> QED
    BY <2>1
<1>3. SettledAgrees'
  BY <1>1, <1>2 DEF SettledAgrees, Settled, Waiting
<1>4. TypeOK'
  <2>1. session \in Nat /\ sessions' = sessions
    BY <1>1 DEF IInv, TypeOK
  <2>2. known' \subseteq [session : 1..sessions', id : Nat, series : Series]
        /\ forgotten' \subseteq Nat
    BY <1>1, <2>1 DEF IInv, TypeOK
  <2> QED
    BY <1>1, <2>2 DEF IInv, TypeOK, Waiting, RequestOK
<1>5. RequestsFit' /\ ZeroIsNone' /\ SessionsNotShared' /\ DictionaryBounded' /\ AttributedRight'
  BY <1>1 DEF IInv, RequestsFit, Waiting, ZeroIsNone, SessionsNotShared, DictionaryBounded,
              AttributedRight
<1> QED
  BY <1>3, <1>4, <1>5 DEF IInv

LEMMA StutterKeeps ==
    ASSUME IInv, UNCHANGED vars
    PROVE  IInv'
BY DEF IInv, vars, serverVars, TypeOK, RequestOK, RequestsFit, SettledAgrees, Settled, Waiting,
       ZeroIsNone, SessionsNotShared, DictionaryBounded, AttributedRight

(***************************************************************************)
(* The theorems.                                                           *)
(***************************************************************************)
LEMMA InitIInv == Init => IInv
<1> SUFFICES ASSUME Init PROVE IInv
  OBVIOUS
<1>1. /\ alive = {FirstProcess}
      /\ dictionary = [p \in Processes |-> NoDictionary]
      /\ request = [p \in Processes |-> NoRequest]
      /\ sessions = 0 /\ known = {} /\ forgotten = {} /\ misattributed = {}
  BY DEF Init
<1>2. /\ NoDictionary \in DictionaryType
      /\ NoDictionary.session = 0
      /\ Len(NoDictionary.series) = 0
  <2>1. << >> \in Seq(Series)
    OBVIOUS
  <2> QED
    BY <2>1 DEF NoDictionary, DictionaryType
<1>3. \A p \in Processes : dictionary[p] = NoDictionary /\ request[p] = NoRequest
  BY <1>1
<1>4. \A p \in Processes : ~Waiting(p) /\ Settled(p) = 0
  BY <1>2, <1>3 DEF Waiting, Settled
<1>5. TypeOK
  <2>1. alive \subseteq Processes
    BY <1>1, DictionaryAssumption
  <2>2. dictionary \in [Processes -> DictionaryType] /\ DOMAIN request = Processes
    BY <1>1, <1>2
  <2>3. \A p \in Processes : dictionary[p].session <= sessions
    BY <1>1, <1>2, <1>3
  <2> QED
    BY <1>1, <1>4, <2>1, <2>2, <2>3 DEF TypeOK
<1>6. \E batch \in Batches : 0 < MaxSeries + Cardinality(batch)
  BY BatchExists, DictionaryAssumption
<1>7. DictionaryBounded
  BY <1>2, <1>3, <1>6 DEF DictionaryBounded
<1>8. RequestsFit /\ SettledAgrees /\ ZeroIsNone /\ SessionsNotShared /\ AttributedRight
  BY <1>1, <1>2, <1>3, <1>4 DEF RequestsFit, SettledAgrees, ZeroIsNone, SessionsNotShared,
                                AttributedRight
<1> QED
  BY <1>5, <1>7, <1>8 DEF IInv

LEMMA NextIInv == IInv /\ [Next]_vars => IInv'
<1> SUFFICES ASSUME IInv, [Next]_vars PROVE IInv'
  OBVIOUS
<1>1. ASSUME NEW p \in Processes, ClientStep(p)
      PROVE  IInv'
  BY <1>1, SendFreshKeeps, SendNextKeeps, ForkKeeps DEF ClientStep
<1>2. ASSUME NEW p \in Processes, Outcome(p)
      PROVE  IInv'
  BY <1>2, AcceptedKeeps, AnswerLostKeeps, NotProcessedKeeps, BodyTooLargeKeeps,
     UnknownDictionaryKeeps DEF Outcome
<1>3. ASSUME NEW session \in 1..sessions, Forget(session)
      PROVE  IInv'
  BY <1>3, ForgetKeeps
<1>4. CASE UNCHANGED vars
  BY <1>4, StutterKeeps
<1> QED
  BY <1>1, <1>2, <1>3, <1>4 DEF Next

LEMMA AlwaysIInv == Spec => []IInv
BY InitIInv, NextIInv, PTL DEF Spec

\* Every variable keeps its type.
THEOREM TypeCorrect == Spec => []TypeOK
<1>1. IInv => TypeOK
  BY DEF IInv
<1> QED
  BY <1>1, AlwaysIInv, PTL

\* No accepted event is stored under another series than its own, however requests,
\* answers and sessions are lost, in any number of processes.
THEOREM NothingMisattributed == Spec => []AttributedRight
<1>1. IInv => AttributedRight
  BY DEF IInv
<1> QED
  BY <1>1, AlwaysIInv, PTL

\* Between requests the client and the endpoint agree on every number in use.
THEOREM NumbersAgree == Spec => []DictionaryAgrees
<1>1. IInv => DictionaryAgrees
  <2> SUFFICES ASSUME IInv, NEW p \in Processes, ~Waiting(p),
                      NEW i \in 1..Len(dictionary[p].series)
               PROVE  LET entries == Entries(known, dictionary[p].session, i)
                      IN /\ \A t \in entries : t.series = dictionary[p].series[i]
                         /\ entries = {} => dictionary[p].session \in forgotten
    BY DEF DictionaryAgrees
  <2>1. Agrees(dictionary[p], i, known, forgotten)
    BY DEF IInv, SettledAgrees, Settled
  <2> QED
    BY <2>1 DEF Agrees, Entries
<1> QED
  BY <1>1, AlwaysIInv, PTL

\* No session is used by two processes.
THEOREM SessionsOwned == Spec => []SessionsNotShared
<1>1. IInv => SessionsNotShared
  BY DEF IInv
<1> QED
  BY <1>1, AlwaysIInv, PTL

\* A request that restates every definition resolves, whatever the endpoint has kept.
THEOREM RestartsResolve == Spec => []RestartResolves
<1>1. IInv => RestartResolves
  <2> SUFFICES ASSUME IInv, NEW p \in Processes, Waiting(p), request[p].forced
               PROVE  Resolves(request[p])
    BY DEF RestartResolves
  <2>1. PICK r : r = request[p]
    OBVIOUS
  <2>2. PICK d : d = dictionary[p]
    OBVIOUS
  <2>3. Fits(r, d) /\ r.forced
    BY <2>1, <2>2, InFlight
  <2>4. ASSUME NEW s \in DOMAIN r.refers
        PROVE  Entries(KnownAfter(r), r.session, r.refers[s]) # {}
    <3>1. r.refers[s] \in DOMAIN r.defines
      BY <2>3 DEF Fits
    <3>2. PICK t : t = [session |-> r.session, id |-> r.refers[s],
                        series |-> r.defines[r.refers[s]]]
      OBVIOUS
    <3>3. t \in KnownAfter(r)
      BY <3>1, <3>2 DEF KnownAfter
    <3>4. t.session = r.session /\ t.id = r.refers[s]
      BY <3>2
    <3> QED
      BY <3>3, <3>4 DEF Entries
  <2> QED
    BY <2>1, <2>4 DEF Resolves
<1> QED
  BY <1>1, AlwaysIInv, PTL

\* No dictionary outgrows its limit by a batch of new series.
THEOREM DictionariesBounded == Spec => []DictionaryBounded
<1>1. IInv => DictionaryBounded
  BY DEF IInv
<1> QED
  BY <1>1, AlwaysIInv, PTL

=============================================================================
