--------------------------- MODULE RecordingProofs ---------------------------
(***************************************************************************)
(* Proofs about Recording, for any number of threads, any cap, queue size  *)
(* and interval: its type invariant, that every call is accounted for, the *)
(* cap per second from both sides, and the pacing of warnings.             *)
(***************************************************************************)
EXTENDS Recording, Sums, SequenceTheorems, TLAPS

(***************************************************************************)
(* Type correctness.                                                       *)
(***************************************************************************)
Tally == [made : Nat, queued : Nat, ignored : Nat, raised : Nat]

\* Counting a call leaves the other tallies alone.
LEMMA TallyUp ==
    ASSUME NEW c \in Tally
    PROVE  /\ [c EXCEPT !.made = @ + 1] \in Tally
           /\ [c EXCEPT !.raised = @ + 1] \in Tally
           /\ [c EXCEPT !["queued"] = @ + 1] \in Tally
           /\ [c EXCEPT !["ignored"] = @ + 1] \in Tally
           /\ [c EXCEPT !.made = @ + 1, !.raised = @ + 1] \in Tally
<1>1. [c EXCEPT !.made = @ + 1] \in Tally
  BY DEF Tally
<1>2. [c EXCEPT !.raised = @ + 1] \in Tally
  BY DEF Tally
<1>3. [c EXCEPT !["queued"] = @ + 1] \in Tally
  BY DEF Tally
<1>4. [c EXCEPT !["ignored"] = @ + 1] \in Tally
  BY DEF Tally
<1>5. [c EXCEPT !.made = @ + 1, !.raised = @ + 1]
        = [[c EXCEPT !.made = @ + 1] EXCEPT !.raised = @ + 1]
  BY DEF Tally
<1>6. \A d \in Tally : [d EXCEPT !.raised = @ + 1] \in Tally
  BY DEF Tally
<1> QED
  BY <1>1, <1>2, <1>3, <1>4, <1>5, <1>6

LEMMA NoWindow ==
    [window |-> -1, accepted |-> 0] \in [window : Nat \cup {-1}, accepted : Nat]
OBVIOUS

LEMMA InitTypeOK == Init => TypeOK
<1> SUFFICES ASSUME Init PROVE TypeOK
  OBVIOUS
<1>1. /\ now = 1 /\ off = FALSE /\ depth = 0
      /\ limiter = [window |-> -1, accepted |-> 0]
      /\ dropped = [c \in {"queue", "invalid", "rate"} |-> 0]
      /\ dropLogAt = [r \in Reasons |-> 0]
      /\ thread = [t \in Threads |-> Idle]
      /\ calls = [made |-> 0, queued |-> 0, ignored |-> 0, raised |-> 0]
      /\ allowedAt = [m \in 1..MaxTime |-> 0]
      /\ warned = [r \in Reasons |-> << >>]
  BY DEF Init
<1>10. off \in BOOLEAN
  BY <1>1, Zenon
<1>2. now \in 1..MaxTime /\ depth \in 0..MaxQueue
  <2>1. MaxTime \in Nat \ {0} /\ MaxQueue \in Nat
    BY RecordingAssumption
  <2>2. now = 1 /\ depth = 0
    BY <1>1
  <2> QED
    BY <2>1, <2>2
<1>3. limiter \in [window : Nat \cup {-1}, accepted : Nat]
  BY <1>1, NoWindow, Zenon
<1>4. dropped \in [{"queue", "invalid", "rate"} -> Nat]
  <2>1. dropped = [c \in {"queue", "invalid", "rate"} |-> 0]
    BY <1>1
  <2> QED
    BY <2>1
<1>5. dropLogAt \in [Reasons -> 0..now]
  <2>1. dropLogAt = [r \in Reasons |-> 0] /\ now = 1
    BY <1>1
  <2> QED
    BY <2>1
<1>6. thread \in [Threads -> [at : Places, kind : CallKinds \cup {"none"}, fault : Faults]]
  <2>1. Idle \in [at : Places, kind : CallKinds \cup {"none"}, fault : Faults]
    BY DEF Idle, Places, Faults
  <2> QED
    BY <1>1, <2>1
<1>7. calls \in Tally
  <2>1. calls = [made |-> 0, queued |-> 0, ignored |-> 0, raised |-> 0]
    BY <1>1
  <2> QED
    BY <2>1 DEF Tally
<1>8. allowedAt \in [1..MaxTime -> Nat]
  <2>1. allowedAt = [m \in 1..MaxTime |-> 0]
    BY <1>1
  <2> QED
    BY <2>1
<1>9. warned \in [Reasons -> Seq(Nat)]
  <2>1. warned = [r \in Reasons |-> << >>] /\ << >> \in Seq(Nat)
    BY <1>1
  <2> QED
    BY <2>1
<1> QED
  BY <1>2, <1>3, <1>4, <1>5, <1>6, <1>7, <1>8, <1>9, <1>10 DEF TypeOK, Tally

Calling == [at : Places, kind : CallKinds \cup {"none"}, fault : Faults]

\* Threads and calls, in every way a step can change them.
LEMMA GoesType ==
    ASSUME TypeOK, NEW t \in Threads
    PROVE  /\ thread[t] \in Calling
           /\ \A place \in Places : Goes(t, place) => thread' \in [Threads -> Calling]
           /\ Returns(t) => thread' \in [Threads -> Calling]
           /\ \A how \in {"queued", "ignored"} :
                 Ends(t, how) =>
                    /\ thread' \in [Threads -> Calling]
                    /\ calls' \in Tally
<1>1. thread \in [Threads -> Calling]
  BY DEF TypeOK, Calling
<1>2. Idle \in Calling
  BY DEF Idle, Calling, Places, Faults
<1>3. \A place \in Places : Goes(t, place) => thread' \in [Threads -> Calling]
  <2> SUFFICES ASSUME NEW place \in Places, Goes(t, place)
               PROVE  thread' \in [Threads -> Calling]
    OBVIOUS
  <2>1. [thread[t] EXCEPT !.at = place] \in Calling
    BY <1>1 DEF Calling
  <2>2. thread' = [thread EXCEPT ![t] = [thread[t] EXCEPT !.at = place]]
    BY DEF Goes
  <2> QED
    BY <1>1, <2>1, <2>2
<1>4. Returns(t) => thread' \in [Threads -> Calling]
  BY <1>1, <1>2 DEF Returns
<1>6. calls \in Tally
  BY DEF TypeOK, Tally
<1>5. [calls EXCEPT !["queued"] = @ + 1] \in Tally /\ [calls EXCEPT !["ignored"] = @ + 1] \in Tally
  BY <1>6, TallyUp
<1> QED
  BY <1>1, <1>3, <1>4, <1>5 DEF Ends

LEMMA CountsDropType ==
    ASSUME TypeOK, NEW reason \in Reasons, CountsDrop(reason)
    PROVE  /\ dropped' \in [{"queue", "invalid", "rate"} -> Nat]
           /\ dropLogAt' \in [Reasons -> 0..now]
           /\ warned' \in [Reasons -> Seq(Nat)]
<1>1. CounterOf(reason) \in {"queue", "invalid", "rate"}
  BY DEF CounterOf
<1>2. dropped' \in [{"queue", "invalid", "rate"} -> Nat]
  <2>1. dropped \in [{"queue", "invalid", "rate"} -> Nat]
    BY DEF TypeOK
  <2>2. dropped' = [dropped EXCEPT ![CounterOf(reason)] = @ + 1]
    BY DEF CountsDrop
  <2>3. dropped[CounterOf(reason)] + 1 \in Nat
    BY <1>1, <2>1
  <2> QED
    BY <2>1, <2>2, <2>3
<1>3. dropLogAt' \in [Reasons -> 0..now]
  <2>1. dropLogAt \in [Reasons -> 0..now] /\ now \in 0..now
    BY RecordingAssumption DEF TypeOK
  <2>2. \/ dropLogAt' = dropLogAt
        \/ dropLogAt' = [dropLogAt EXCEPT ![reason] = now]
    BY DEF CountsDrop, LogMoment
  <2> QED
    BY ONLY <2>1, <2>2
<1>4. warned' \in [Reasons -> Seq(Nat)]
  <2>1. Append(warned[reason], now) \in Seq(Nat)
    BY AppendProperties DEF TypeOK
  <2> QED
    BY <2>1 DEF CountsDrop, TypeOK
<1> QED
  BY <1>2, <1>3, <1>4

LEMMA SecondOfNat ==
    ASSUME NEW m \in Nat
    PROVE  /\ SecondOf(m) \in Nat
           /\ SecondOf(m) * Second <= m
           /\ m <= SecondOf(m) * Second + Second - 1
           /\ SecondOf(m) * Second \in Nat
BY RecordingAssumption, SMTT(60) DEF SecondOf

LEMMA NextTypeOK ==
    ASSUME TypeOK, [Next]_vars
    PROVE  TypeOK'
<1>0. calls \in Tally
  BY DEF TypeOK, Tally
<1> USE DEF TypeOK, Calling
<1>1. ASSUME NEW t \in Threads, NEW kind \in CallKinds, NEW fault \in Faults,
             Begin(t, kind, fault)
      PROVE  TypeOK'
  <2> DEFINE place == CASE kind = "sample"  -> "allowing"
                        [] fault = "badId"  -> "invalid_unique_id"
                        [] OTHER            -> "checking"
  <2>1. place \in Places
    BY DEF Places, Reasons, CallKinds
  <2>2. [at |-> place, kind |-> kind, fault |-> fault] \in Calling
    BY <2>1
  <2>3. thread' \in [Threads -> Calling]
    BY <1>1, <2>2, Zenon DEF Begin
  <2>4. calls' \in Tally
    BY <1>0, <1>1, TallyUp DEF Begin
  <2> QED
    BY <1>1, <2>3, <2>4 DEF Begin, Tally
<1>2. ASSUME NEW t \in Threads, BeginRaises(t)
      PROVE  TypeOK'
  <2>1. calls' \in Tally
    BY <1>0, <1>2, TallyUp DEF BeginRaises
  <2> QED
    BY <1>2, <2>1 DEF BeginRaises, Tally
<1>3. ASSUME NEW t \in Threads, AllowFlags(t)
      PROVE  TypeOK'
  BY <1>3, GoesType DEF AllowFlags, Places, Tally
<1>4. ASSUME NEW t \in Threads, Limit(t)
      PROVE  TypeOK'
  <2>1. thread' \in [Threads -> Calling]
    BY <1>4, GoesType DEF Limit, Places, Reasons
  <2>2. SecondOf(now) \in Nat
    BY SecondOfNat
  <2>3. limiter' \in [window : Nat \cup {-1}, accepted : Nat]
    <3>1. Window(now) \in [window : Nat \cup {-1}, accepted : Nat]
      BY <2>2 DEF Window
    <3>2. \/ limiter' = Window(now)
          \/ limiter' = [Window(now) EXCEPT !.accepted = @ + 1]
      BY <1>4 DEF Limit, ClockReadings
    <3> QED
      BY <3>1, <3>2
  <2>4. allowedAt' \in [1..MaxTime -> Nat]
    <3>1. allowedAt \in [1..MaxTime -> Nat] /\ now \in 1..MaxTime
      OBVIOUS
    <3>2. \/ allowedAt' = allowedAt
          \/ allowedAt' = [allowedAt EXCEPT ![now] = @ + 1]
      BY <1>4 DEF Limit
    <3> QED
      BY ONLY <3>1, <3>2
  <2>5. UNCHANGED <<now, off, depth, dropped, dropLogAt, calls, warned>>
    BY <1>4, Zenon DEF Limit
  <2> QED
    BY ONLY TypeOK, <2>1, <2>3, <2>4, <2>5 DEF TypeOK, Calling
<1>5. ASSUME NEW t \in Threads, Check(t)
      PROVE  TypeOK'
  BY <1>5, GoesType DEF Check, Places, Reasons, Tally
<1>6. ASSUME NEW t \in Threads, Push(t)
      PROVE  TypeOK'
  <2>1. CASE QueueFull(depth)
    <3>1. CountsDrop("queue_full") /\ Returns(t) /\ UNCHANGED <<depth, calls>>
      BY <1>6, <2>1 DEF Push
    <3>2. thread' \in [Threads -> Calling]
      BY <3>1, GoesType
    <3>3. "queue_full" \in Reasons
      BY DEF Reasons
    <3>4. /\ dropped' \in [{"queue", "invalid", "rate"} -> Nat]
          /\ dropLogAt' \in [Reasons -> 0..now]
          /\ warned' \in [Reasons -> Seq(Nat)]
      BY ONLY TypeOK, <3>1, <3>3, CountsDropType
    <3>5. UNCHANGED <<now, off, limiter, allowedAt>>
      BY <1>6, Zenon DEF Push
    <3> QED
      BY ONLY TypeOK, <3>1, <3>2, <3>4, <3>5 DEF TypeOK, Calling
  <2>2. CASE ~QueueFull(depth)
    <3>1. depth' = depth + 1 /\ Ends(t, "queued") /\ UNCHANGED <<dropped, dropLogAt, warned>>
      BY <1>6, <2>2 DEF Push
    <3>2. depth' \in 0..MaxQueue
      BY <2>2, <3>1, RecordingAssumption DEF QueueFull
    <3>3. thread' \in [Threads -> Calling] /\ calls' \in Tally
      BY <3>1, GoesType
    <3> QED
      BY <1>6, <3>1, <3>2, <3>3 DEF Push, Tally
  <2> QED
    BY <2>1, <2>2
<1>7. ASSUME NEW t \in Threads, RecordDrop(t)
      PROVE  TypeOK'
  BY <1>7, GoesType, CountsDropType DEF RecordDrop
<1>8. CASE TakeEvents
  <2>1. depth' \in 0..MaxQueue
    <3>1. PICK n \in 1..depth : depth' = depth - n
      BY <1>8 DEF TakeEvents
    <3>2. depth \in 0..MaxQueue /\ MaxQueue \in Nat
      BY RecordingAssumption
    <3> QED
      BY ONLY <3>1, <3>2
  <2> QED
    BY <1>8, <2>1 DEF TakeEvents, histVars
<1>9. CASE TurnOff
  BY <1>9 DEF TurnOff, histVars
<1>10. CASE Tick
  <2>1. now' \in 1..MaxTime
    <3>1. now' = now + 1 /\ now < MaxTime /\ now \in 1..MaxTime /\ MaxTime \in Nat
      BY <1>10, RecordingAssumption DEF Tick
    <3> QED
      BY ONLY <3>1
  <2>2. dropLogAt' \in [Reasons -> 0..now']
    <3>1. dropLogAt' = dropLogAt /\ dropLogAt \in [Reasons -> 0..now] /\ now' = now + 1
      BY <1>10 DEF Tick
    <3>2. now \in 1..MaxTime
      OBVIOUS
    <3>3. \A m \in 0..now : m \in 0..(now + 1)
      BY ONLY <3>2
    <3> QED
      BY ONLY <3>1, <3>3
  <2> QED
    BY <1>10, <2>1, <2>2 DEF Tick, histVars
<1>11. CASE UNCHANGED vars
  BY <1>11 DEF vars, histVars
<1> QED
  BY <1>1, <1>2, <1>3, <1>4, <1>5, <1>6, <1>7, <1>8, <1>9, <1>10, <1>11 DEF Next

\* Every variable keeps its type, whatever the threads do.
THEOREM TypeCorrect == Spec => []TypeOK
BY InitTypeOK, NextTypeOK, PTL DEF Spec


(***************************************************************************)
(* Every call is accounted for.                                            *)
(***************************************************************************)
Counters == {"queue", "invalid", "rate"}

LEMMA CountersFinite == IsFiniteSet(Counters)
<1>1. IsFiniteSet({"queue"}) /\ IsFiniteSet({"invalid"}) /\ IsFiniteSet({"rate"})
  BY FS_Singleton
<1>2. IsFiniteSet({"queue"} \cup {"invalid"})
  BY <1>1, FS_Union
<1>3. IsFiniteSet(({"queue"} \cup {"invalid"}) \cup {"rate"})
  BY <1>1, <1>2, FS_Union
<1>4. Counters = ({"queue"} \cup {"invalid"}) \cup {"rate"}
  BY DEF Counters
<1> QED
  BY <1>3, <1>4

\* A counted drop is in one of the counters.
LEMMA DroppedGrows ==
    ASSUME TypeOK, NEW reason \in Reasons, CountsDrop(reason)
    PROVE  SumFunction(dropped') = SumFunction(dropped) + 1
<1> DEFINE c == CounterOf(reason)
<1>1. c \in Counters
  BY DEF CounterOf, Counters
<1>2. dropped \in [Counters -> Nat]
  BY DEF TypeOK, Counters
<1>3. dropped' = [dropped EXCEPT ![c] = dropped[c] + 1]
  BY DEF CountsDrop
<1> HIDE DEF c
<1>4. dropped \in [Counters -> Int] /\ dropped[c] + 1 \in Int /\ dropped[c] \in Int
  BY <1>1, <1>2
<1>5. SumFunction([dropped EXCEPT ![c] = dropped[c] + 1])
        = SumFunction(dropped) - dropped[c] + (dropped[c] + 1)
  BY <1>1, <1>4, CountersFinite, SumExcept
<1>6. SumFunction(dropped) \in Int
  BY <1>2, <1>4, CountersFinite, SumInt DEF SumFunction
<1> QED
  BY <1>3, <1>4, <1>5, <1>6

LEMMA InProgressFinite ==
    IsFiniteSet(InProgress) /\ Cardinality(InProgress) \in Nat
<1>1. IsFiniteSet(InProgress)
  BY RecordingAssumption, FS_Subset DEF InProgress
<1> QED
  BY <1>1, FS_CardinalityType

\* A call that is over is in progress no more.
LEMMA InProgressReturns ==
    ASSUME TypeOK, NEW t \in Threads, ~At(t, "idle"), Returns(t)
    PROVE  Cardinality(InProgress') = Cardinality(InProgress) - 1
<1>1. InProgress' = InProgress \ {t}
  <2>1. thread \in [Threads -> Calling]
    BY DEF TypeOK, Calling
  <2>2. thread' = [thread EXCEPT ![t] = Idle] /\ Idle.at = "idle"
    BY DEF Returns, Idle
  <2>3. \A u \in Threads : thread'[u] = IF u = t THEN Idle ELSE thread[u]
    BY <2>1, <2>2
  <2> QED
    BY <2>2, <2>3 DEF InProgress, At
<1>2. t \in InProgress
  BY DEF InProgress
<1> QED
  BY <1>1, <1>2, InProgressFinite, FS_RemoveElement

\* A call that goes on is still in progress.
LEMMA InProgressGoes ==
    ASSUME TypeOK, NEW t \in Threads, ~At(t, "idle"),
           NEW place \in Places \ {"idle"}, Goes(t, place)
    PROVE  InProgress' = InProgress
<1>1. thread \in [Threads -> Calling]
  BY DEF TypeOK, Calling
<1>2. thread' = [thread EXCEPT ![t] = [thread[t] EXCEPT !.at = place]]
  BY DEF Goes
<1>3. [thread[t] EXCEPT !.at = place].at = place
  BY <1>1 DEF Calling
<1>4. \A u \in Threads : thread'[u].at = IF u = t THEN place ELSE thread[u].at
  BY <1>1, <1>2, <1>3
<1> QED
  BY <1>4 DEF InProgress, At

\* What a call does to the tallies.
LEMMA TallyCounts ==
    ASSUME NEW c \in Tally
    PROVE  /\ c.made \in Nat /\ c.queued \in Nat /\ c.ignored \in Nat /\ c.raised \in Nat
           /\ \A d : d = [c EXCEPT !.made = @ + 1] =>
                 /\ d.made = c.made + 1 /\ d.queued = c.queued
                 /\ d.ignored = c.ignored /\ d.raised = c.raised
           /\ \A d : d = [c EXCEPT !.made = @ + 1, !.raised = @ + 1] =>
                 /\ d.made = c.made + 1 /\ d.queued = c.queued
                 /\ d.ignored = c.ignored /\ d.raised = c.raised + 1
           /\ \A d : d = [c EXCEPT !["queued"] = @ + 1] =>
                 /\ d.made = c.made /\ d.queued = c.queued + 1
                 /\ d.ignored = c.ignored /\ d.raised = c.raised
           /\ \A d : d = [c EXCEPT !["ignored"] = @ + 1] =>
                 /\ d.made = c.made /\ d.queued = c.queued
                 /\ d.ignored = c.ignored + 1 /\ d.raised = c.raised
BY DEF Tally

LEMMA InitAccounted == Init => EveryCallAccounted
<1> SUFFICES ASSUME Init PROVE EveryCallAccounted
  OBVIOUS
<1>1. calls = [made |-> 0, queued |-> 0, ignored |-> 0, raised |-> 0]
  BY DEF Init
<1>2. SumFunction(dropped) = 0
  <2>1. dropped = [c \in Counters |-> 0]
    BY DEF Init, Counters
  <2>2. DOMAIN dropped = Counters /\ \A c \in Counters : dropped[c] = 0
    BY <2>1
  <2> QED
    BY <2>2, CountersFinite, SumZero DEF SumFunction
<1>3. InProgress = {}
  <2>1. thread = [t \in Threads |-> Idle] /\ Idle.at = "idle"
    BY DEF Init, Idle
  <2> QED
    BY <2>1 DEF InProgress, At
<1>4. Cardinality(InProgress) = 0
  BY <1>3, FS_EmptySet
<1>5. calls.made = 0 /\ calls.queued = 0 /\ calls.ignored = 0 /\ calls.raised = 0
  BY <1>1
<1> QED
  BY <1>2, <1>4, <1>5 DEF EveryCallAccounted

LEMMA NextAccounted ==
    ASSUME TypeOK, EveryCallAccounted, [Next]_vars
    PROVE  EveryCallAccounted'
<1> DEFINE Drops == SumFunction(dropped)
           Open  == Cardinality(InProgress)
<1>0. /\ calls \in Tally
      /\ Drops \in Int
      /\ Open \in Nat
  <2>1. calls \in Tally
    BY DEF TypeOK, Tally
  <2>2. Drops \in Int
    <3>1. DOMAIN dropped = Counters /\ \A c \in Counters : dropped[c] \in Int
      BY DEF TypeOK, Counters
    <3> QED
      BY <3>1, CountersFinite, SumInt DEF SumFunction
  <2> QED
    BY <2>1, <2>2, InProgressFinite
<1>000. calls.made \in Nat /\ calls.queued \in Nat /\ calls.ignored \in Nat /\ calls.raised \in Nat
  BY <1>0, TallyCounts
<1>00. calls.made = calls.queued + Drops + calls.ignored + calls.raised + Open
  BY DEF EveryCallAccounted
<1> SUFFICES calls'.made = calls'.queued + Drops' + calls'.ignored + calls'.raised + Open'
  BY DEF EveryCallAccounted
<1>a. UNCHANGED dropped => Drops' = Drops
  OBVIOUS
<1>b. UNCHANGED thread => Open' = Open
  BY DEF InProgress, At
<1>c. ASSUME NEW t \in Threads, ~At(t, "idle"), Returns(t)
      PROVE  Open' = Open - 1
  BY <1>c, InProgressReturns
<1>d. ASSUME NEW t \in Threads, ~At(t, "idle"), NEW place \in Places \ {"idle"}, Goes(t, place)
      PROVE  Open' = Open
  BY <1>d, InProgressGoes
<1>e. ASSUME NEW reason \in Reasons, CountsDrop(reason)
      PROVE  Drops' = Drops + 1
  BY <1>e, DroppedGrows
<1> HIDE DEF Drops, Open
<1>1. ASSUME NEW t \in Threads, NEW kind \in CallKinds, NEW fault \in Faults,
             Begin(t, kind, fault)
      PROVE  calls'.made = calls'.queued + Drops' + calls'.ignored + calls'.raised + Open'
  <2>1. Open' = Open + 1
    <3>1. PICK c \in Calling : c.at # "idle" /\ thread' = [thread EXCEPT ![t] = c]
      <4> DEFINE place == CASE kind = "sample"  -> "allowing"
                            [] fault = "badId"  -> "invalid_unique_id"
                            [] OTHER            -> "checking"
                 call == [at |-> place, kind |-> kind, fault |-> fault]
      <4>1. place \in Places \ {"idle"}
        BY DEF Places, Reasons, CallKinds
      <4>2. call \in Calling /\ call.at # "idle"
        BY <4>1 DEF Calling
      <4>3. thread' = [thread EXCEPT ![t] = call]
        BY <1>1, Zenon DEF Begin
      <4> HIDE DEF call
      <4> QED
        BY <4>2, <4>3
    <3>2. thread \in [Threads -> Calling]
      BY DEF TypeOK, Calling
    <3>3. InProgress' = InProgress \cup {t}
      BY <3>1, <3>2 DEF InProgress, At
    <3>4. t \notin InProgress
      BY <1>1 DEF Begin, InProgress
    <3> QED
      BY <3>3, <3>4, InProgressFinite, FS_AddElement DEF Open
  <2>2. calls' = [calls EXCEPT !.made = @ + 1] /\ Drops' = Drops
    BY <1>1, <1>a DEF Begin
  <2>3. /\ calls'.made = calls.made + 1 /\ calls'.queued = calls.queued
        /\ calls'.ignored = calls.ignored /\ calls'.raised = calls.raised
    BY <1>0, <2>2, TallyCounts
  <2> QED
    BY <1>0, <1>00, <1>000, <2>1, <2>2, <2>3
<1>2. ASSUME NEW t \in Threads, BeginRaises(t)
      PROVE  calls'.made = calls'.queued + Drops' + calls'.ignored + calls'.raised + Open'
  <2>1. calls' = [calls EXCEPT !.made = @ + 1, !.raised = @ + 1] /\ Drops' = Drops /\ Open' = Open
    BY <1>2, <1>a, <1>b DEF BeginRaises
  <2>2. /\ calls'.made = calls.made + 1 /\ calls'.queued = calls.queued
        /\ calls'.ignored = calls.ignored /\ calls'.raised = calls.raised + 1
    BY <1>0, <2>1, TallyCounts
  <2> QED
    BY <1>0, <1>00, <1>000, <2>1, <2>2
<1>3. ASSUME NEW t \in Threads, ~At(t, "idle"), Ends(t, "ignored"), UNCHANGED dropped
      PROVE  calls'.made = calls'.queued + Drops' + calls'.ignored + calls'.raised + Open'
  <2>1. calls' = [calls EXCEPT !["ignored"] = @ + 1] /\ Drops' = Drops /\ Open' = Open - 1
    BY <1>3, <1>a, <1>c DEF Ends
  <2>2. /\ calls'.made = calls.made /\ calls'.queued = calls.queued
        /\ calls'.ignored = calls.ignored + 1 /\ calls'.raised = calls.raised
    BY <1>0, <2>1, TallyCounts
  <2>3. Drops' = Drops /\ Open' = Open - 1
    BY <2>1
  <2>4. \A q, d, i, r, o \in Int :
           q + d + (i + 1) + r + (o - 1) = q + d + i + r + o
    OBVIOUS
  <2>5. calls.queued + Drops + (calls.ignored + 1) + calls.raised + (Open - 1)
          = calls.queued + Drops + calls.ignored + calls.raised + Open
    BY <1>0, <1>000, <2>4
  <2> QED
    BY <1>00, <2>2, <2>3, <2>5, Zenon
<1>4. ASSUME NEW t \in Threads, ~At(t, "idle"), NEW place \in Places \ {"idle"}, Goes(t, place),
             UNCHANGED <<calls, dropped>>
      PROVE  calls'.made = calls'.queued + Drops' + calls'.ignored + calls'.raised + Open'
  BY <1>0, <1>00, <1>4, <1>a, <1>d
<1>5. ASSUME NEW t \in Threads, ~At(t, "idle"), NEW reason \in Reasons, CountsDrop(reason),
             Returns(t), UNCHANGED calls
      PROVE  calls'.made = calls'.queued + Drops' + calls'.ignored + calls'.raised + Open'
  <2>1. Drops' = Drops + 1 /\ Open' = Open - 1 /\ calls' = calls
    BY <1>5, <1>c, <1>e
  <2> QED
    BY <1>0, <1>00, <1>000, <2>1
<1>6. ASSUME NEW t \in Threads, AllowFlags(t)
      PROVE  calls'.made = calls'.queued + Drops' + calls'.ignored + calls'.raised + Open'
  BY <1>6, <1>3, <1>4 DEF AllowFlags, At, Places
<1>7. ASSUME NEW t \in Threads, Limit(t)
      PROVE  calls'.made = calls'.queued + Drops' + calls'.ignored + calls'.raised + Open'
  <2>1. /\ UNCHANGED <<calls, dropped>>
        /\ Goes(t, "checking") \/ Goes(t, "value_rate_limit")
        /\ ~At(t, "idle")
    BY <1>7 DEF Limit, At
  <2> QED
    BY <2>1, <1>4 DEF Places, Reasons
<1>8. ASSUME NEW t \in Threads, Check(t)
      PROVE  calls'.made = calls'.queued + Drops' + calls'.ignored + calls'.raised + Open'
  BY <1>8, <1>3, <1>4 DEF Check, At, Places, Reasons
<1>9. ASSUME NEW t \in Threads, Push(t)
      PROVE  calls'.made = calls'.queued + Drops' + calls'.ignored + calls'.raised + Open'
  <2>1. CASE CountsDrop("queue_full") /\ Returns(t) /\ UNCHANGED calls
    BY <1>9, <2>1, <1>5 DEF Push, At, Reasons
  <2>2. CASE Ends(t, "queued") /\ UNCHANGED dropped
    <3>1. calls' = [calls EXCEPT !["queued"] = @ + 1] /\ Drops' = Drops /\ Open' = Open - 1
      BY <1>9, <2>2, <1>a, <1>c DEF Ends, Push, At
    <3>2. /\ calls'.made = calls.made /\ calls'.queued = calls.queued + 1
          /\ calls'.ignored = calls.ignored /\ calls'.raised = calls.raised
      BY <1>0, <3>1, TallyCounts
    <3> QED
      BY <1>0, <1>00, <1>000, <3>1, <3>2
  <2> QED
    BY <1>9, <2>1, <2>2 DEF Push
<1>10. ASSUME NEW t \in Threads, RecordDrop(t)
       PROVE  calls'.made = calls'.queued + Drops' + calls'.ignored + calls'.raised + Open'
  <2>1. ~At(t, "idle")
    BY <1>10 DEF RecordDrop, At, Reasons
  <2> QED
    BY <1>10, <2>1, <1>5 DEF RecordDrop
<1>11. ASSUME UNCHANGED <<calls, dropped, thread>>
       PROVE  calls'.made = calls'.queued + Drops' + calls'.ignored + calls'.raised + Open'
  BY <1>0, <1>00, <1>11, <1>a, <1>b
<1>12. CASE TakeEvents \/ TurnOff \/ Tick \/ UNCHANGED vars
  BY <1>11, <1>12 DEF TakeEvents, TurnOff, Tick, vars, histVars
<1> QED
  BY <1>1, <1>2, <1>6, <1>7, <1>8, <1>9, <1>10, <1>12 DEF Next

\* No call is lost between the counters, however many threads record: each is queued,
\* dropped and counted once, ignored, raised, or still under way.
THEOREM CallsAccounted == Spec => []EveryCallAccounted
BY InitAccounted, NextAccounted, TypeCorrect, PTL DEF Spec

(***************************************************************************)
(* The cap per second.                                                     *)
(***************************************************************************)
LEMMA TimesMonotone ==
    \A a, b \in Int, s \in Nat : a <= b => a * s <= b * s
BY SMTT(60)

LEMMA SecondIs ==
    ASSUME NEW m \in Nat, NEW k \in Int
    PROVE  SecondOf(m) = k <=> (k * Second <= m /\ m <= k * Second + Second - 1)
<1> DEFINE s == SecondOf(m)
<1>1. /\ s \in Nat
      /\ s * Second <= m
      /\ m <= s * Second + Second - 1
  BY SecondOfNat
<1>2. Second \in Nat /\ Second > 0
  BY RecordingAssumption
<1> HIDE DEF s
<1>3. ASSUME k < s
      PROVE  k * Second + Second - 1 < m
  <2>1. (k + 1) * Second <= s * Second
    BY <1>1, <1>2, <1>3, TimesMonotone
  <2>2. (k + 1) * Second = k * Second + Second /\ k * Second \in Int /\ s * Second \in Int
    BY <1>1, <1>2
  <2> QED
    BY <1>1, <1>2, <2>1, <2>2
<1>4. ASSUME s < k
      PROVE  m < k * Second
  <2>1. (s + 1) * Second <= k * Second
    BY <1>1, <1>2, <1>4, TimesMonotone
  <2>2. (s + 1) * Second = s * Second + Second /\ k * Second \in Int /\ s * Second \in Int
    BY <1>1, <1>2
  <2> QED
    BY <1>1, <1>2, <2>1, <2>2
<1>5. k * Second \in Int
  BY <1>2
<1> QED
  BY <1>1, <1>2, <1>3, <1>4, <1>5 DEF s

LEMMA SecondMonotone ==
    ASSUME NEW m \in Nat, NEW n \in Nat, m <= n
    PROVE  SecondOf(m) <= SecondOf(n)
<1>1. /\ SecondOf(m) \in Nat /\ SecondOf(n) \in Nat
      /\ SecondOf(m) * Second <= m
      /\ n <= SecondOf(n) * Second + Second - 1
      /\ SecondOf(m) * Second \in Nat /\ SecondOf(n) * Second \in Nat
  BY SecondOfNat
<1>2. Second \in Nat /\ Second > 0
  BY RecordingAssumption
<1>3. ASSUME SecondOf(n) < SecondOf(m)
      PROVE  FALSE
  <2>1. (SecondOf(n) + 1) * Second <= SecondOf(m) * Second
    BY <1>1, <1>2, <1>3, TimesMonotone
  <2>2. (SecondOf(n) + 1) * Second = SecondOf(n) * Second + Second
    BY <1>1, <1>2
  <2> QED
    BY <1>1, <1>2, <2>1, <2>2
<1> QED
  BY <1>1, <1>3

Moments == 1..MaxTime

Span(first, last) == {x \in Moments : first <= x /\ x <= last}

InSecond(k) == {x \in Moments : SecondOf(x) = k}

\* Samples allowed in a second of the clock.
AllowedIn(k) == SumFunctionOnSet(allowedAt, InSecond(k))

LEMMA SpansFinite ==
    /\ \A first, last : IsFiniteSet(Span(first, last)) /\ Span(first, last) \subseteq Moments
    /\ \A k : IsFiniteSet(InSecond(k)) /\ InSecond(k) \subseteq Moments
<1>1. IsFiniteSet(Moments)
  BY RecordingAssumption, FS_Interval DEF Moments
<1> QED
  BY <1>1, FS_Subset DEF Span, InSecond

LEMMA AllowedBetweenIs ==
    ASSUME TypeOK
    PROVE  \A first, last :
              AllowedBetween(first, last) = SumFunctionOnSet(allowedAt, Span(first, last))
<1> TAKE first, last
<1> DEFINE f == [m \in {x \in DOMAIN allowedAt : first <= x /\ x <= last} |-> allowedAt[m]]
<1>1. DOMAIN allowedAt = Moments
  BY DEF TypeOK, Moments
<1>2. DOMAIN f = Span(first, last) /\ \A x \in Span(first, last) : f[x] = allowedAt[x]
  BY <1>1 DEF Span
<1>3. AllowedBetween(first, last) = SumFunctionOnSet(f, DOMAIN f)
  BY DEF AllowedBetween, SumFunction
<1> HIDE DEF f
<1> QED
  BY <1>2, <1>3, SpansFinite, SumAgree

LEMMA AllowedInNat ==
    ASSUME TypeOK
    PROVE  \A k : AllowedIn(k) \in Nat
<1> TAKE k
<1>1. \A x \in InSecond(k) : allowedAt[x] \in Nat
  BY DEF TypeOK, InSecond, Moments
<1> QED
  BY <1>1, SpansFinite, SumNat DEF AllowedIn

\* A sample more in one second, and in no other.
LEMMA OneSampleMore ==
    ASSUME NEW f \in [Moments -> Nat], NEW m \in Moments
    PROVE  \A k : SumFunctionOnSet([f EXCEPT ![m] = f[m] + 1], InSecond(k))
                    = SumFunctionOnSet(f, InSecond(k)) + (IF k = SecondOf(m) THEN 1 ELSE 0)
<1> TAKE k
<1> DEFINE g == [f EXCEPT ![m] = f[m] + 1]
           S == InSecond(k)
<1>1. /\ IsFiniteSet(S)
      /\ \A x \in S : x \in Moments /\ f[x] \in Int /\ g[x] \in Int
  BY SpansFinite
<1>2. \A x \in Moments : x # m => g[x] = f[x]
  OBVIOUS
<1>3. g[m] = f[m] + 1 /\ f[m] \in Int
  OBVIOUS
<1>4. m \in S <=> k = SecondOf(m)
  BY DEF InSecond
<1>5. SumFunctionOnSet(f, S) \in Int
  BY <1>1, SumInt
<1> HIDE DEF g, S
<1>6. CASE m \in S
  <2>1. IsFiniteSet(S \ {m})
    BY <1>1, FS_Subset
  <2>2. SumFunctionOnSet(g, S \ {m}) = SumFunctionOnSet(f, S \ {m})
    BY <1>1, <1>2, <2>1, SumAgree
  <2>3. SumFunctionOnSet(f, S \ {m}) \in Int
    BY <1>1, <2>1, SumInt
  <2>4. SumFunctionOnSet(g, S) = SumFunctionOnSet(g, S \ {m}) + g[m]
    BY <1>1, <1>6, SumRemove
  <2>5. SumFunctionOnSet(f, S) = SumFunctionOnSet(f, S \ {m}) + f[m]
    BY <1>1, <1>6, SumRemove
  <2>6. SumFunctionOnSet(g, S) = SumFunctionOnSet(f, S) + 1
    BY <1>3, <2>2, <2>3, <2>4, <2>5
  <2> QED
    BY <1>4, <1>6, <2>6 DEF g, S
<1>7. CASE m \notin S
  <2>1. SumFunctionOnSet(g, S) = SumFunctionOnSet(f, S)
    BY <1>1, <1>2, <1>7, SumAgree
  <2>2. SumFunctionOnSet(g, S) = SumFunctionOnSet(f, S) + 0
    BY <1>5, <2>1
  <2> QED
    BY <1>4, <1>7, <2>2 DEF g, S
<1> QED
  BY <1>6, <1>7

\* The limiter's window is the last second it allowed a sample in, or a later one, and
\* its count is what was allowed in that second.
LimiterKept ==
    /\ limiter.window <= SecondOf(now)
    /\ \A m \in Moments : allowedAt[m] > 0 => m <= now /\ SecondOf(m) <= limiter.window
    /\ limiter.accepted = AllowedIn(limiter.window)
    /\ \A k \in Int : AllowedIn(k) <= MaxPerSecond

LEMMA InitLimiterKept == Init => LimiterKept
<1> SUFFICES ASSUME Init PROVE LimiterKept
  OBVIOUS
<1>1. limiter.window = -1 /\ limiter.accepted = 0
  <2>1. limiter = [window |-> -1, accepted |-> 0]
    BY DEF Init
  <2> QED
    BY <2>1
<1>2. now = 1 /\ SecondOf(1) \in Nat
  BY SecondOfNat DEF Init
<1>3. \A m \in Moments : allowedAt[m] = 0
  <2>1. allowedAt = [m \in 1..MaxTime |-> 0]
    BY DEF Init
  <2> QED
    BY <2>1 DEF Moments
<1>4. \A k : AllowedIn(k) = 0
  BY <1>3, SpansFinite, SumZero DEF AllowedIn
<1>5. MaxPerSecond \in Nat
  BY RecordingAssumption
<1> QED
  BY <1>1, <1>2, <1>3, <1>4, <1>5 DEF LimiterKept

LEMMA WindowIsInt == TypeOK => limiter.window \in Int
<1> SUFFICES ASSUME TypeOK PROVE limiter.window \in Int
  OBVIOUS
<1>1. limiter \in [window : Nat \cup {-1}, accepted : Nat]
  BY DEF TypeOK
<1> QED
  BY <1>1

\* What allow() finds: the count of the present second.
LEMMA WindowIsNow ==
    ASSUME TypeOK, LimiterKept
    PROVE  /\ SecondOf(now) \in Nat
           /\ SecondOf(now) >= limiter.window
           /\ Window(now).window = SecondOf(now)
           /\ Window(now).accepted = AllowedIn(SecondOf(now))
           /\ Window(now) \in [window : Nat \cup {-1}, accepted : Nat]
<1>1. /\ now \in Nat
      /\ limiter \in [window : Nat \cup {-1}, accepted : Nat]
  BY RecordingAssumption DEF TypeOK
<1>2. SecondOf(now) \in Nat
  BY <1>1, SecondOfNat
<1>3. limiter.window \in Nat \cup {-1} /\ limiter.window <= SecondOf(now)
  BY <1>1 DEF LimiterKept
<1>4. CASE SecondOf(now) > limiter.window
  <2>1. Window(now) = [window |-> SecondOf(now), accepted |-> 0]
    BY <1>4 DEF Window
  <2>2. \A x \in InSecond(SecondOf(now)) : allowedAt[x] = 0
    <3>1. ASSUME NEW x \in InSecond(SecondOf(now))
          PROVE  allowedAt[x] = 0
      <4>1. x \in Moments /\ SecondOf(x) = SecondOf(now) /\ allowedAt[x] \in Nat
        BY DEF InSecond, TypeOK, Moments
      <4>2. ~(SecondOf(x) <= limiter.window)
        BY <1>2, <1>3, <1>4, <4>1
      <4>3. ~(allowedAt[x] > 0)
        BY <4>1, <4>2 DEF LimiterKept
      <4> QED
        BY <4>1, <4>3
    <3> QED
      BY <3>1
  <2>3. AllowedIn(SecondOf(now)) = 0
    BY <2>2, SpansFinite, SumZero DEF AllowedIn
  <2> QED
    BY <1>2, <1>3, <1>4, <2>1, <2>3
<1>5. CASE SecondOf(now) = limiter.window
  <2>1. Window(now) = limiter
    BY <1>2, <1>5 DEF Window
  <2> QED
    BY <1>1, <1>2, <1>3, <1>5, <2>1 DEF LimiterKept
<1> QED
  BY <1>2, <1>3, <1>4, <1>5

LEMMA NextLimiterKept ==
    ASSUME TypeOK, TypeOK', LimiterKept, [Next]_vars
    PROVE  LimiterKept'
<1> DEFINE Unlimited == UNCHANGED <<limiter, allowedAt, now>>
<1>1. ASSUME UNCHANGED <<limiter, allowedAt>>, now <= now'
      PROVE  LimiterKept'
  <2>1. now \in Nat /\ now' \in Nat
    BY RecordingAssumption DEF TypeOK
  <2>2. SecondOf(now) <= SecondOf(now') /\ SecondOf(now) \in Nat /\ SecondOf(now') \in Nat
    BY <1>1, <2>1, SecondMonotone, SecondOfNat
  <2>8. limiter' = limiter /\ allowedAt' = allowedAt
    BY <1>1
  <2>3. limiter' = limiter /\ allowedAt' = allowedAt /\ limiter.window \in Int
    BY <2>8, WindowIsInt
  <2>4. limiter'.window <= SecondOf(now')
    BY <2>2, <2>3 DEF LimiterKept
  <2>5. \A m \in Moments : allowedAt'[m] > 0 => m <= now' /\ SecondOf(m) <= limiter'.window
    BY <1>1, <2>1, <2>3 DEF LimiterKept, Moments
  <2>6. limiter'.accepted = (AllowedIn(limiter.window))'
    BY <2>3 DEF LimiterKept, AllowedIn
  <2>7. \A k \in Int : (AllowedIn(k))' <= MaxPerSecond
    BY <2>3 DEF LimiterKept, AllowedIn
  <2> QED
    BY <2>4, <2>5, <2>6, <2>7 DEF LimiterKept, SecondOf, AllowedIn
<1>2. ASSUME NEW t \in Threads, Limit(t)
      PROVE  LimiterKept'
  <2> DEFINE s == SecondOf(now)
             w == Window(now)
  <2>1. /\ s \in Nat
        /\ s >= limiter.window
        /\ w.window = s
        /\ w.accepted = AllowedIn(s)
        /\ w \in [window : Nat \cup {-1}, accepted : Nat]
    BY WindowIsNow
  <2>9. now' = now
    BY <1>2 DEF Limit
  <2>10. now \in Moments /\ now \in Nat /\ MaxPerSecond \in Nat
    BY RecordingAssumption DEF TypeOK, Moments
  <2>2. now' = now /\ now \in Moments /\ allowedAt \in [Moments -> Nat]
        /\ MaxPerSecond \in Nat /\ now \in Nat
    BY <2>9, <2>10 DEF TypeOK, Moments
  <2>3. \A m \in Moments : SecondOf(m) \in Nat
    BY SecondOfNat DEF Moments
  <2>4. limiter.window \in Int
    BY WindowIsInt
  <2>5. \/ Allows(now) /\ limiter' = [w EXCEPT !.accepted = @ + 1]
           /\ allowedAt' = [allowedAt EXCEPT ![now] = allowedAt[now] + 1]
        \/ limiter' = w /\ allowedAt' = allowedAt
    BY <1>2 DEF Limit, ClockReadings
  <2>6. \A k : AllowedIn(k) \in Nat
    BY AllowedInNat
  <2>7. CASE Allows(now) /\ limiter' = [w EXCEPT !.accepted = @ + 1]
             /\ allowedAt' = [allowedAt EXCEPT ![now] = allowedAt[now] + 1]
    <3>1. AllowedIn(s) < MaxPerSecond
      BY <2>1, <2>7 DEF Allows
    <3>2. limiter'.window = s /\ limiter'.accepted = AllowedIn(s) + 1
      BY <2>1, <2>7
    <3>3. \A k : (AllowedIn(k))' = AllowedIn(k) + (IF k = s THEN 1 ELSE 0)
      BY <2>2, <2>7, OneSampleMore DEF AllowedIn
    <3>4. \A m \in Moments : allowedAt'[m] > 0 => m <= now' /\ SecondOf(m) <= limiter'.window
      <4>1. ASSUME NEW m \in Moments, allowedAt'[m] > 0
            PROVE  m <= now /\ SecondOf(m) <= s
        <5>1. CASE m = now
          BY <2>1, <2>2, <5>1
        <5>2. CASE m # now
          <6>1. allowedAt[m] > 0
            BY <2>2, <2>7, <4>1, <5>2
          <6>2. m <= now /\ SecondOf(m) <= limiter.window
            BY <6>1 DEF LimiterKept
          <6> QED
            BY <2>1, <2>3, <2>4, <6>2
        <5> QED
          BY <5>1, <5>2
      <4> QED
        BY <2>2, <3>2, <4>1
    <3>5. \A k \in Int : (AllowedIn(k))' <= MaxPerSecond
      <4>1. ASSUME NEW k \in Int
            PROVE  (AllowedIn(k))' <= MaxPerSecond
        <5>1. AllowedIn(k) \in Nat /\ AllowedIn(k) <= MaxPerSecond
          BY <2>6 DEF LimiterKept
        <5>2. (AllowedIn(k))' = AllowedIn(k) + (IF k = s THEN 1 ELSE 0)
          BY <3>3
        <5> HIDE DEF s
        <5> QED
          BY <2>2, <3>1, <5>1, <5>2
      <4> QED
        BY <4>1
    <3>6. limiter'.accepted = SumFunctionOnSet(allowedAt', InSecond(limiter'.window))
      <4>1. SumFunctionOnSet(allowedAt', InSecond(s)) = AllowedIn(s) + 1
        BY <2>2, <2>7, OneSampleMore DEF AllowedIn
      <4> QED
        BY <3>2, <4>1
    <3>7. limiter'.window <= SecondOf(now')
      BY <2>1, <2>2, <3>2
    <3> QED
      BY <3>4, <3>5, <3>6, <3>7 DEF LimiterKept, AllowedIn, InSecond, SecondOf
  <2>8. CASE limiter' = w /\ allowedAt' = allowedAt
    <3>1. limiter'.window = s /\ limiter'.accepted = AllowedIn(s)
      BY <2>1, <2>8
    <3>2. \A m \in Moments : allowedAt'[m] > 0 => m <= now' /\ SecondOf(m) <= limiter'.window
      <4>1. ASSUME NEW m \in Moments, allowedAt[m] > 0
            PROVE  m <= now /\ SecondOf(m) <= s
        <5>1. m <= now /\ SecondOf(m) <= limiter.window
          BY <4>1 DEF LimiterKept
        <5> QED
          BY <2>1, <2>3, <2>4, <5>1
      <4> QED
        BY <2>2, <2>8, <3>1, <4>1
    <3>3. \A k \in Int : (AllowedIn(k))' <= MaxPerSecond
      BY <2>8 DEF LimiterKept, AllowedIn
    <3>4. limiter'.accepted = SumFunctionOnSet(allowedAt', InSecond(limiter'.window))
      BY <2>8, <3>1 DEF AllowedIn
    <3>5. limiter'.window <= SecondOf(now')
      BY <2>1, <2>2, <3>1
    <3> QED
      BY <3>2, <3>3, <3>4, <3>5 DEF LimiterKept, AllowedIn, InSecond, SecondOf
  <2> QED
    BY <2>5, <2>7, <2>8
<1>3. now \in Int
  BY DEF TypeOK
<1>4. CASE \E t \in Threads :
              \/ \E kind \in CallKinds, fault \in Faults : Begin(t, kind, fault)
              \/ BeginRaises(t)
              \/ AllowFlags(t) \/ Check(t) \/ Push(t) \/ RecordDrop(t)
  BY <1>1, <1>3, <1>4 DEF Begin, BeginRaises, AllowFlags, Check, Push, RecordDrop
<1>5. CASE TakeEvents \/ TurnOff \/ Tick \/ UNCHANGED vars
  BY <1>1, <1>3, <1>5 DEF TakeEvents, TurnOff, Tick, vars, histVars
<1> QED
  BY <1>2, <1>4, <1>5 DEF Next

LEMMA KeptCaps == TypeOK /\ LimiterKept => CapPerSecond
<1> SUFFICES ASSUME TypeOK, LimiterKept, NEW m \in 1..MaxTime
             PROVE  /\ AllowedBetween(SecondOf(m) * Second, SecondOf(m) * Second + Second - 1)
                          <= MaxPerSecond
                    /\ AllowedBetween(m, m + Second - 1) <= 2 * MaxPerSecond
  BY DEF CapPerSecond
<1> DEFINE s == SecondOf(m)
           f == s * Second
<1>10. \A x \in Moments : allowedAt[x] \in Nat /\ allowedAt[x] \in Int
  <2>1. allowedAt \in [Moments -> Nat]
    BY DEF TypeOK, Moments
  <2> QED
    BY <2>1
<1>1. /\ s \in Nat /\ f \in Nat
      /\ f <= m /\ m <= f + Second - 1
  BY SecondOfNat
<1>2. Second \in Nat \ {0} /\ MaxPerSecond \in Nat /\ m \in Nat
  BY RecordingAssumption
<1>3. (s + 1) * Second = f + Second
  BY <1>1, <1>2
<1>4. \A x \in Moments : SecondOf(x) = s <=> (f <= x /\ x <= f + Second - 1)
  BY <1>1, SecondIs DEF Moments
<1>5. \A x \in Moments :
         SecondOf(x) = s + 1 <=> (f + Second <= x /\ x <= f + Second + Second - 1)
  BY <1>1, <1>3, SecondIs DEF Moments
<1>6. \A k \in Int : AllowedIn(k) <= MaxPerSecond /\ AllowedIn(k) \in Nat
  BY AllowedInNat DEF LimiterKept
<1> HIDE DEF s, f
<1>7. Span(f, f + Second - 1) = InSecond(s)
  BY <1>4 DEF Span, InSecond
<1>8. AllowedBetween(f, f + Second - 1) <= MaxPerSecond
  BY <1>1, <1>6, <1>7, AllowedBetweenIs DEF AllowedIn
<1>9. AllowedBetween(m, m + Second - 1) <= 2 * MaxPerSecond
  <2> DEFINE A == InSecond(s)
             B == InSecond(s + 1)
             C == Span(m, m + Second - 1)
  <2>1. C \subseteq A \cup B
    <3>1. ASSUME NEW x \in C
          PROVE  SecondOf(x) = s \/ SecondOf(x) = s + 1
      <4>1. x \in Moments /\ x \in Int /\ m <= x /\ x <= m + Second - 1
        BY DEF Span, Moments
      <4> QED
        BY <1>1, <1>2, <1>4, <1>5, <4>1
    <3> QED
      BY <3>1 DEF InSecond, Span
  <2>2. IsFiniteSet(A) /\ IsFiniteSet(B) /\ IsFiniteSet(A \cup B)
    BY SpansFinite, FS_Union
  <2>3. A \cap B = {}
    BY <1>1 DEF InSecond
  <2>10. \A x \in Moments : allowedAt[x] \in Nat /\ allowedAt[x] \in Int
    BY <1>10
  <2>11. A \subseteq Moments /\ B \subseteq Moments /\ C \subseteq Moments /\ IsFiniteSet(C)
    BY SpansFinite
  <2>4. \A x \in A \cup B : allowedAt[x] \in Nat /\ allowedAt[x] \in Int
    <3> HIDE DEF A, B
    <3> QED
      BY <2>10, <2>11
  <2>5. SumFunctionOnSet(allowedAt, A \cup B) = AllowedIn(s) + AllowedIn(s + 1)
    BY <2>2, <2>3, <2>4, SumUnion DEF AllowedIn
  <2>6. SumFunctionOnSet(allowedAt, C) <= SumFunctionOnSet(allowedAt, A \cup B)
    <3> HIDE DEF A, B, C
    <3> QED
      BY <2>1, <2>2, <2>4, SumSubset
  <2>7. SumFunctionOnSet(allowedAt, C) \in Int
    <3> HIDE DEF C
    <3> QED
      BY <2>10, <2>11, SumInt
  <2>8. /\ AllowedIn(s) <= MaxPerSecond /\ AllowedIn(s) \in Nat
        /\ AllowedIn(s + 1) <= MaxPerSecond /\ AllowedIn(s + 1) \in Nat
    BY <1>1, <1>6
  <2>9. AllowedBetween(m, m + Second - 1) = SumFunctionOnSet(allowedAt, C)
    BY AllowedBetweenIs
  <2> HIDE DEF A, B, C
  <2> QED
    BY <1>2, <2>5, <2>6, <2>7, <2>8, <2>9
<1> QED
  BY <1>8, <1>9 DEF f, s

LEMMA LimiterAlwaysKept == Spec => [](TypeOK /\ LimiterKept)
<1>1. Init => TypeOK /\ LimiterKept
  BY InitTypeOK, InitLimiterKept
<1>2. TypeOK /\ LimiterKept /\ [Next]_vars => (TypeOK /\ LimiterKept)'
  <2> SUFFICES ASSUME TypeOK, LimiterKept, [Next]_vars
               PROVE  TypeOK' /\ LimiterKept'
    OBVIOUS
  <2>1. TypeOK'
    BY NextTypeOK
  <2>2. LimiterKept'
    BY <2>1, NextLimiterKept
  <2> QED
    BY <2>1, <2>2
<1> QED
  BY <1>1, <1>2, PTL DEF Spec

\* No second of the clock carries more samples than the cap, and no span of that length
\* more than twice the cap, for any number of competing threads.
THEOREM SamplesCapped == Spec => []CapPerSecond
BY LimiterAlwaysKept, KeptCaps, PTL

LEMMA RefusalStep ==
    ASSUME TypeOK, LimiterKept, [Next]_vars,
           NEW t \in Threads, At(t, "limiting"), thread'[t].at = "value_rate_limit"
    PROVE  Limit(t) /\ ~Allows(now)
<1>1. thread \in [Threads -> Calling]
  BY DEF TypeOK, Calling
<1>2. thread[t].at = "limiting" /\ thread'[t] # thread[t]
  BY DEF At
<1>3. ASSUME NEW u \in Threads, u # t, NEW c, thread' = [thread EXCEPT ![u] = c]
      PROVE  FALSE
  BY <1>1, <1>2, <1>3
<1>4. ASSUME NEW u \in Threads, u # t, NEW place, Goes(u, place)
      PROVE  FALSE
  BY <1>1, <1>2, <1>4 DEF Goes
<1>5. ASSUME NEW u \in Threads, u # t, Returns(u)
      PROVE  FALSE
  BY <1>1, <1>2, <1>5 DEF Returns
<1>6. ASSUME NEW u \in Threads, NEW kind \in CallKinds, NEW fault \in Faults,
             Begin(u, kind, fault)
      PROVE  FALSE
  <2>1. u # t
    BY <1>2, <1>6 DEF Begin, At
  <2>2. \E c : thread' = [thread EXCEPT ![u] = c]
    BY <1>6 DEF Begin
  <2> QED
    BY <1>3, <2>1, <2>2
<1>7. ASSUME NEW u \in Threads, BeginRaises(u)
      PROVE  FALSE
  BY <1>2, <1>7 DEF BeginRaises
<1>8. ASSUME NEW u \in Threads, AllowFlags(u)
      PROVE  FALSE
  <2>1. u # t
    BY <1>2, <1>8 DEF AllowFlags, At
  <2> QED
    BY <1>4, <1>5, <1>8, <2>1 DEF AllowFlags, Ends
<1>9. ASSUME NEW u \in Threads, Check(u)
      PROVE  FALSE
  <2>1. u # t
    BY <1>2, <1>9 DEF Check, At
  <2> QED
    BY <1>4, <1>5, <1>9, <2>1 DEF Check, Ends
<1>10. ASSUME NEW u \in Threads, Push(u)
      PROVE  FALSE
  <2>1. u # t
    BY <1>2, <1>10 DEF Push, At
  <2> QED
    BY <1>5, <1>10, <2>1 DEF Push, Ends
<1>11. ASSUME NEW u \in Threads, RecordDrop(u)
      PROVE  FALSE
  <2>1. u # t
    BY <1>2, <1>11 DEF RecordDrop, Reasons
  <2> QED
    BY <1>5, <1>11, <2>1 DEF RecordDrop
<1>12. ASSUME NEW u \in Threads, u # t, Limit(u)
      PROVE  FALSE
  BY <1>4, <1>12 DEF Limit
<1>13. ~(TakeEvents \/ TurnOff \/ Tick \/ UNCHANGED vars)
  BY <1>2 DEF TakeEvents, TurnOff, Tick, vars
<1>14. Limit(t)
  BY <1>6, <1>7, <1>8, <1>9, <1>10, <1>11, <1>12, <1>13 DEF Next
<1>15. ASSUME Allows(now)
       PROVE  FALSE
  <2>1. thread' = [thread EXCEPT ![t] = [thread[t] EXCEPT !.at = "checking"]]
    BY <1>14, <1>15 DEF Limit, ClockReadings, Goes
  <2>2. [thread[t] EXCEPT !.at = "checking"].at = "checking"
    BY <1>1 DEF Calling
  <2>3. thread'[t].at = "checking"
    BY <1>1, <2>1, <2>2
  <2> QED
    BY <2>3
<1> QED
  BY <1>14, <1>15

LEMMA RefusedStepAtCap ==
    ASSUME TypeOK, LimiterKept, [Next]_vars,
           NEW t \in Threads, At(t, "limiting"), thread'[t].at = "value_rate_limit"
    PROVE  AllowedBetween(SecondOf(now) * Second, now) >= MaxPerSecond
<1> DEFINE s == SecondOf(now)
           f == s * Second
           A == InSecond(s)
           B == Span(f, now)
<1>1. ~Allows(now)
  BY RefusalStep
<1>2. /\ s \in Nat
      /\ s >= limiter.window
      /\ Window(now).accepted = AllowedIn(s)
  BY WindowIsNow
<1>3. AllowedIn(s) \in Nat /\ MaxPerSecond \in Nat
  BY AllowedInNat, RecordingAssumption
<1>4. ~(AllowedIn(s) < MaxPerSecond)
  BY <1>1, <1>2 DEF Allows
<1>5. AllowedIn(s) >= MaxPerSecond
  BY <1>3, <1>4
<1>6. now \in Nat
  BY DEF TypeOK
<1>7. /\ f \in Nat /\ f <= now /\ now <= f + Second - 1
      /\ Second \in Nat
  BY <1>6, SecondOfNat, RecordingAssumption
<1>8. \A x \in Moments : SecondOf(x) = s <=> (f <= x /\ x <= f + Second - 1)
  BY <1>2, SecondIs DEF Moments
<1>9. IsFiniteSet(A) /\ IsFiniteSet(B) /\ IsFiniteSet(A \ B)
  BY SpansFinite, FS_Subset
<1>10. \A x \in Moments : allowedAt[x] \in Nat /\ allowedAt[x] \in Int
  BY DEF TypeOK, Moments
<1>11. \A x \in Moments : allowedAt[x] > 0 => x <= now
  BY DEF LimiterKept
<1> HIDE DEF s, f
<1>12. B \subseteq A
  <2>1. ASSUME NEW x \in B
        PROVE  x \in A
    <3>1. x \in Moments /\ x \in Int /\ f <= x /\ x <= now
      BY DEF Span, Moments
    <3> QED
      BY <1>6, <1>7, <1>8, <3>1 DEF InSecond
  <2> QED
    BY <2>1
<1>13. \A x \in A \ B : allowedAt[x] = 0
  <2>1. ASSUME NEW x \in A \ B
        PROVE  allowedAt[x] = 0
    <3>1. x \in Moments /\ SecondOf(x) = s /\ x \in Int /\ f <= x
      BY <1>8 DEF InSecond, Moments
    <3>2. ~(x <= now)
      BY <3>1 DEF Span
    <3> QED
      BY <1>10, <1>11, <3>1, <3>2
  <2> QED
    BY <2>1
<1>14. A = B \cup (A \ B) /\ B \cap (A \ B) = {}
  BY <1>12
<1>15. \A x \in B \cup (A \ B) : allowedAt[x] \in Int
  BY <1>10, <1>12 DEF InSecond
<1> HIDE DEF A, B
<1>16. SumFunctionOnSet(allowedAt, B \cup (A \ B))
         = SumFunctionOnSet(allowedAt, B) + SumFunctionOnSet(allowedAt, A \ B)
  BY <1>9, <1>14, <1>15, SumUnion
<1>17. SumFunctionOnSet(allowedAt, A \ B) = 0
  BY <1>9, <1>13, SumZero
<1>18. SumFunctionOnSet(allowedAt, B) \in Int
  BY <1>9, <1>15, SumInt
<1>19. SumFunctionOnSet(allowedAt, A) = SumFunctionOnSet(allowedAt, B)
  <2>1. SumFunctionOnSet(allowedAt, A)
          = SumFunctionOnSet(allowedAt, B) + SumFunctionOnSet(allowedAt, A \ B)
    BY <1>14, <1>16, Zenon
  <2> QED
    BY <1>17, <1>18, <2>1
<1>20. AllowedBetween(f, now) = SumFunctionOnSet(allowedAt, B)
  BY AllowedBetweenIs DEF B
<1> QED
  BY <1>5, <1>19, <1>20 DEF A, AllowedIn, f, s

\* A sample is refused only in a second that carries its cap of samples, however the
\* threads reach the lock.
THEOREM RefusalsJustified == Spec => RefusedOnlyAtCap
<1>1. TypeOK /\ LimiterKept /\ [Next]_vars =>
         [\A t \in Threads :
             (At(t, "limiting") /\ thread'[t].at = "value_rate_limit") =>
                AllowedBetween(SecondOf(now) * Second, now) >= MaxPerSecond]_vars
  BY RefusedStepAtCap
<1> QED
  BY <1>1, LimiterAlwaysKept, PTL DEF Spec, RefusedOnlyAtCap

(***************************************************************************)
(* Warnings: the moment kept for a reason is that of its last warning.     *)
(***************************************************************************)
LogKept ==
    \A r \in Reasons :
        /\ warned[r] = << >> => dropLogAt[r] = 0
        /\ warned[r] # << >> => /\ dropLogAt[r] = warned[r][Len(warned[r])]
                                /\ dropLogAt[r] > 0
        /\ \A i \in 2..Len(warned[r]) : warned[r][i] - warned[r][i - 1] >= LogInterval

LEMMA InitLogKept == Init => LogKept
<1> SUFFICES ASSUME Init, NEW r \in Reasons
             PROVE  warned[r] = << >> /\ dropLogAt[r] = 0
  BY DEF LogKept
<1>1. warned = [x \in Reasons |-> << >>] /\ dropLogAt = [x \in Reasons |-> 0]
  BY DEF Init
<1> QED
  BY <1>1

LEMMA CountsDropLogKept ==
    ASSUME TypeOK, LogKept, NEW reason \in Reasons, CountsDrop(reason)
    PROVE  /\ LogKept'
           /\ warned'[reason] # << >>
           /\ now - Last(warned'[reason]) < LogInterval
<1> DEFINE w  == warned[reason]
           at == dropLogAt[reason]
           logs == at = 0 \/ now - at >= LogInterval
<1>1. /\ w \in Seq(Nat) /\ at \in Nat /\ now \in Nat /\ now > 0
      /\ LogInterval \in Nat /\ LogInterval > 0
  BY RecordingAssumption DEF TypeOK
<1>2. /\ w = << >> => at = 0
      /\ w # << >> => at = w[Len(w)] /\ at > 0
      /\ \A i \in 2..Len(w) : w[i] - w[i - 1] >= LogInterval
  BY DEF LogKept
<1>3. DOMAIN warned = Reasons /\ DOMAIN dropLogAt = Reasons
  BY DEF TypeOK
<1>4. logs => /\ dropLogAt' = [dropLogAt EXCEPT ![reason] = now]
              /\ warned' = [warned EXCEPT ![reason] = Append(warned[reason], now)]
  BY DEF CountsDrop, LogMoment
<1>5. ~logs => dropLogAt' = dropLogAt /\ warned' = warned
  BY DEF CountsDrop, LogMoment
<1> HIDE DEF logs
<1>6. CASE ~logs
  <2>1. LogKept'
    BY <1>5, <1>6 DEF LogKept
  <2>2. w # << >> /\ at = w[Len(w)] /\ now - at < LogInterval
    BY <1>1, <1>2, <1>6 DEF logs
  <2>3. warned'[reason] = w
    BY <1>5, <1>6
  <2> QED
    BY <2>1, <2>2, <2>3 DEF Last
<1>7. CASE logs
  <2> DEFINE v == Append(w, now)
  <2>1. /\ warned'[reason] = v /\ dropLogAt'[reason] = now
        /\ \A r \in Reasons : r # reason => warned'[r] = warned[r] /\ dropLogAt'[r] = dropLogAt[r]
    BY <1>3, <1>4, <1>7
  <2>2. /\ Len(v) = Len(w) + 1 /\ Len(w) \in Nat
        /\ v[Len(w) + 1] = now
        /\ \A i \in 1..Len(w) : v[i] = w[i]
        /\ v # << >>
        /\ v \in Seq(Nat)
    BY <1>1, AppendProperties, LenProperties
  <2>3. w = << >> <=> Len(w) = 0
    BY <1>1, EmptySeq
  <2>4. \A i \in 1..Len(w) : w[i] \in Nat
    BY <1>1, ElementOfSeq
  <2> HIDE DEF v, w, at
  <2>5. ASSUME NEW i \in 2..Len(v)
        PROVE  v[i] - v[i - 1] >= LogInterval
    <3>1. CASE i \in 2..Len(w)
      <4>1. v[i] = w[i] /\ v[i - 1] = w[i - 1]
        BY <2>2, <3>1
      <4> QED
        BY <1>2, <3>1, <4>1
    <3>2. CASE i = Len(w) + 1
      <4>1. w # << >> /\ Len(w) \in 1..Len(w)
        BY <2>2, <2>3, <3>2
      <4>2. v[i] = now /\ v[i - 1] = w[Len(w)] /\ at = w[Len(w)] /\ at > 0
        BY <1>2, <2>2, <3>2, <4>1
      <4>3. now - at >= LogInterval
        BY <1>1, <1>7, <4>2 DEF logs, at
      <4> QED
        BY <4>2, <4>3
    <3> QED
      BY <2>2, <3>1, <3>2
  <2>6. LogKept'
    <3>1. ASSUME NEW r \in Reasons
          PROVE  /\ warned'[r] = << >> => dropLogAt'[r] = 0
                 /\ warned'[r] # << >> => /\ dropLogAt'[r] = warned'[r][Len(warned'[r])]
                                         /\ dropLogAt'[r] > 0
                 /\ \A i \in 2..Len(warned'[r]) : warned'[r][i] - warned'[r][i - 1] >= LogInterval
      <4>1. CASE r = reason
        BY <1>1, <2>1, <2>2, <2>5, <4>1
      <4>2. CASE r # reason
        BY <2>1, <4>2 DEF LogKept
      <4> QED
        BY <4>1, <4>2
    <3> QED
      BY <3>1 DEF LogKept
  <2>7. Last(v) = now /\ now - now < LogInterval
    BY <1>1, <2>2 DEF Last
  <2> QED
    BY <2>1, <2>2, <2>6, <2>7
<1> QED
  BY <1>6, <1>7

\* A drop is counted by a thread that gives its event up, for its own reason.
DropsFor(t) == /\ thread'[t] # thread[t]
               /\ ReasonOf(t) \in Reasons
               /\ CountsDrop(ReasonOf(t))

\* The steps that count a drop, and those that leave counters and warnings alone.
LEMMA DropSteps ==
    ASSUME TypeOK, [Next]_vars
    PROVE  \/ \E t \in Threads : DropsFor(t)
           \/ UNCHANGED <<dropped, dropLogAt, warned>>
<1>1. ASSUME NEW t \in Threads, Push(t)
      PROVE  DropsFor(t) \/ UNCHANGED <<dropped, dropLogAt, warned>>
  <2>1. CASE UNCHANGED <<dropped, dropLogAt, warned>>
    BY <2>1
  <2>2. CASE CountsDrop("queue_full") /\ Returns(t)
    <3>1. thread[t].at = "pushing" /\ ReasonOf(t) = "queue_full"
      BY <1>1 DEF Push, At, ReasonOf
    <3>2. thread'[t] = Idle
      BY <2>2 DEF Returns, TypeOK
    <3>3. thread'[t] # thread[t]
      BY <3>1, <3>2 DEF Idle
    <3> QED
      BY <2>2, <3>1, <3>3 DEF DropsFor, Reasons
  <2> QED
    BY <1>1, <2>1, <2>2 DEF Push
<1>2. ASSUME NEW t \in Threads, RecordDrop(t)
      PROVE  DropsFor(t)
  <2>1. thread[t].at \in Reasons /\ CountsDrop(thread[t].at) /\ Returns(t)
    BY <1>2 DEF RecordDrop
  <2>2. ReasonOf(t) = thread[t].at
    BY <2>1 DEF ReasonOf, At, Reasons
  <2>3. thread'[t] = Idle
    BY <2>1 DEF Returns, TypeOK
  <2>4. thread'[t] # thread[t]
    BY <2>1, <2>3 DEF Idle, Reasons
  <2> QED
    BY <2>1, <2>2, <2>4 DEF DropsFor
<1>3. CASE \E t \in Threads :
              \/ \E kind \in CallKinds, fault \in Faults : Begin(t, kind, fault)
              \/ BeginRaises(t) \/ AllowFlags(t) \/ Limit(t) \/ Check(t)
  BY <1>3 DEF Begin, BeginRaises, AllowFlags, Limit, Check
<1>4. CASE TakeEvents \/ TurnOff \/ Tick \/ UNCHANGED vars
  BY <1>4 DEF TakeEvents, TurnOff, Tick, vars, histVars
<1> QED
  BY <1>1, <1>2, <1>3, <1>4 DEF Next

LEMMA LogAlwaysKept == Spec => [](TypeOK /\ LogKept)
<1>1. Init => TypeOK /\ LogKept
  BY InitTypeOK, InitLogKept
<1>2. TypeOK /\ LogKept /\ [Next]_vars => (TypeOK /\ LogKept)'
  <2> SUFFICES ASSUME TypeOK, LogKept, [Next]_vars
               PROVE  TypeOK' /\ LogKept'
    OBVIOUS
  <2>1. CASE \E t \in Threads : DropsFor(t)
    BY <2>1, CountsDropLogKept, NextTypeOK DEF DropsFor
  <2>2. CASE UNCHANGED <<dropped, dropLogAt, warned>>
    BY <2>2, NextTypeOK DEF LogKept
  <2> QED
    BY <2>1, <2>2, DropSteps
<1> QED
  BY <1>1, <1>2, PTL DEF Spec

\* Two warnings of one reason are an interval apart.
THEOREM WarningsApart == Spec => []WarningsPaced
<1>1. LogKept => WarningsPaced
  BY DEF LogKept, WarningsPaced
<1> QED
  BY <1>1, LogAlwaysKept, PTL

\* No drop is counted that the last warning of its own reason is not recent enough to
\* cover.
THEOREM LossesAnnounced == Spec => LossAnnounced
<1>1. ASSUME TypeOK, LogKept, [Next]_vars, NEW c \in DOMAIN dropped, dropped'[c] > dropped[c]
      PROVE  \E t \in Threads :
                /\ thread'[t] # thread[t]
                /\ CounterOf(ReasonOf(t)) = c
                /\ warned'[ReasonOf(t)] # << >>
                /\ now - Last(warned'[ReasonOf(t)]) < LogInterval
  <2>1. dropped \in [Counters -> Nat] /\ c \in Counters
    <3>1. dropped \in [Counters -> Nat]
      BY <1>1 DEF TypeOK, Counters
    <3> QED
      BY <1>1, <3>1
  <2>2. ~UNCHANGED dropped
    BY <1>1, <2>1
  <2>3. PICK t \in Threads : DropsFor(t)
    BY <1>1, <2>2, DropSteps
  <2>4. CounterOf(ReasonOf(t)) = c
    <3>1. dropped' = [dropped EXCEPT ![CounterOf(ReasonOf(t))] = @ + 1]
      BY <2>3 DEF DropsFor, CountsDrop
    <3>2. CounterOf(ReasonOf(t)) # c => dropped'[c] = dropped[c]
      BY <2>1, <3>1
    <3> QED
      BY <1>1, <2>1, <3>2
  <2> QED
    BY <1>1, <2>3, <2>4, CountsDropLogKept DEF DropsFor
<1>2. TypeOK /\ LogKept /\ [Next]_vars =>
        [\A c \in DOMAIN dropped : dropped'[c] > dropped[c] =>
          \E t \in Threads :
             /\ thread'[t] # thread[t]
             /\ CounterOf(ReasonOf(t)) = c
             /\ warned'[ReasonOf(t)] # << >>
             /\ now - Last(warned'[ReasonOf(t)]) < LogInterval]_vars
  BY <1>1
<1> QED
  BY <1>2, LogAlwaysKept, PTL DEF Spec, LossAnnounced

=============================================================================
