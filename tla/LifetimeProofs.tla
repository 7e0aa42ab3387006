--------------------------- MODULE LifetimeProofs ---------------------------
(***************************************************************************)
(* Proofs about Lifetime and Connection, for any number of processes,      *)
(* forks, events and sockets.  The invariant is built in five layers, each *)
(* on the ones before it: what a process has of its client; who uses a     *)
(* connection; what is on a socket; what has become of a batch; and what   *)
(* has become of an event that was recorded while the client was open.     *)
(***************************************************************************)
EXTENDS Lifetime, Functions, SequenceTheorems, TLAPS

Batch  == [id : Nat \X Nat, events : SUBSET Events]
Answer == [id : Nat \X Nat, accepted : BOOLEAN, lost : SUBSET Events]
Outcome == [id : Nat \X Nat, lost : SUBSET Events]
Socket == [requests : Seq(Batch), answers : Seq(Answer), ended : BOOLEAN]

Types ==
    /\ TypeOK
    /\ waiting \in [Processes -> Batch \cup {NoRequest}]
    /\ sockets \in Seq(Socket)
    /\ outcomes \subseteq Outcome
    /\ promised \in [Processes -> SUBSET Events]
    /\ other \subseteq Processes
    /\ \A p \in Processes : Waits(p) => connection[p] # 0 /\ status[p] # "none"

-----------------------------------------------------------------------------
(***************************************************************************)
(* Processes and clients.                                                  *)
(***************************************************************************)
Unmade == {"absent", "registering", "installing"}

\* The client of a process, as far as the process goes with it.
Made(p) ==
    LET c == client[p] IN
    /\ status[p] = "none" => p \notin other
    /\ status[p] \in {"none", "gone"} => c = Absent
    /\ c.state = "absent" => c = Absent
    /\ c.state \in {"registering", "installing"} => c.worker
    /\ c.state = "registering" => registry[p] = "held"
    /\ c.state \notin {"absent", "registering"} => installed[p]
    /\ c.state # "absent" => c.session # 0
    /\ c.state \in Unmade => c.queue = {} /\ c.held = {} /\ c.lock = "free"
    /\ c.session <= sessions

\* A child forked too early never has the handlers, nor has one of its own children.
Bare(p) ==
    p \in bare =>
        /\ status[p] # "none"
        /\ ~handlers[p] /\ p \notin other /\ client[p].state # "installing"
        /\ installed[p] \/ registry[p] = "lost"

\* Any other process has what it needs.
Healthy(p) ==
    p \notin bare =>
        /\ registry[p] # "lost" /\ client[p].lock # "lost"
        /\ client[p].state \in {"open", "closing"} => client[p].worker

\* Two clients have the same session only if both are closed, or one is in a process
\* forked too early; and only one of the two has a worker.
OwnSession(p, q) ==
    (p # q /\ client[p].session = client[q].session /\ client[p].session # 0) =>
        /\ ~(client[p].worker /\ client[q].worker)
        /\ (p \notin bare /\ q \notin bare) =>
              client[p].state = "closed" /\ client[q].state = "closed"

Proper(p) == Made(p) /\ Bare(p) /\ Healthy(p)

ProcessesInv ==
    /\ \A p \in Processes : Proper(p)
    /\ \A p, q \in Processes : OwnSession(p, q)

-----------------------------------------------------------------------------
(***************************************************************************)
(* Connections.                                                            *)
(***************************************************************************)
\* A request is waited for by a worker, on a connection, and is a batch it holds; a
\* client that is not made yet has no connection.
Connected(p) ==
    /\ client[p].state \in Unmade => connection[p] = 0
    /\ Waits(p) => /\ client[p].worker /\ connection[p] # 0
                   /\ waiting[p] \in client[p].held

\* Of the processes that have a socket, one at most has a worker.
OneWorker(p, q) ==
    (p # q /\ connection[p] = connection[q] /\ connection[p] # 0) =>
        ~(client[p].worker /\ client[q].worker)

ConnectionsInv ==
    /\ \A p \in Processes : Connected(p)
    /\ \A p, q \in Processes : OneWorker(p, q)

-----------------------------------------------------------------------------
(***************************************************************************)
(* Sockets.                                                                *)
(***************************************************************************)
\* On a socket that has not ended there is nothing but the request its worker waits
\* for, or its answer.
Exchange(p) ==
    (client[p].worker /\ connection[p] # 0) =>
        LET socket == sockets[connection[p]] IN
        ~socket.ended =>
            /\ ~Waits(p) => socket.requests = << >> /\ socket.answers = << >>
            /\ \/ socket.requests = << >> /\ socket.answers = << >>
               \/ socket.requests = <<waiting[p]>> /\ socket.answers = << >>
               \/ /\ socket.requests = << >> /\ Len(socket.answers) = 1
                  /\ Head(socket.answers).id = waiting[p].id

Answered(s) ==
    /\ sockets[s].ended => sockets[s].answers = << >>
    /\ \A i \in DOMAIN sockets[s].answers :
          LET answer == sockets[s].answers[i]
          IN answer.accepted => [id |-> answer.id, lost |-> answer.lost] \in outcomes

SocketsInv ==
    /\ \A p \in Processes : Exchange(p)
    /\ \A s \in DOMAIN sockets : Answered(s)

-----------------------------------------------------------------------------
(***************************************************************************)
(* Batches.                                                                *)
(***************************************************************************)
Around ==
    (UNION {client[p].held : p \in Processes})
      \cup (UNION {Range(sockets[s].requests) : s \in DOMAIN sockets})

Ids == {b.id : b \in Around} \cup {o.id : o \in outcomes}

\* An id is one its session has used, and a batch is what its id says.
IdUsed(id) ==
    /\ id[1] <= sessions
    /\ \A p \in Processes :
          (client[p].worker /\ client[p].session = id[1]) => id[2] <= client[p].seq

SameBatch(b, c) == IF b.id = c.id THEN b = c ELSE b.events \cap c.events = {}

\* The events of a batch are stored once its outcome is known, but for those it says
\* are lost.
StoredAs(b) ==
    /\ (\A o \in outcomes : o.id # b.id) => \A e \in b.events : stored[e] = 0
    /\ \A o \in outcomes : o.id = b.id =>
          \A e \in b.events : stored[e] = IF e \in o.lost THEN 0 ELSE 1

\* An event that is in no batch yet.
Fresh(e) == stored[e] = 0 /\ \A b \in Around : e \notin b.events

BatchesInv ==
    /\ \A id \in Ids : IdUsed(id)
    /\ \A b, c \in Around : SameBatch(b, c)
    /\ \A b \in Around : StoredAs(b)
    /\ \A e \in unrecorded : Fresh(e)
    /\ \A p \in Processes : client[p].worker =>
          \A e \in client[p].queue :
             /\ Fresh(e) /\ e \notin unrecorded
             /\ \A q \in Processes : client[q].worker /\ e \in client[q].queue => q = p
    /\ \A e \in confirmed : stored[e] = 1
    /\ \A e \in Events : stored[e] <= 1

-----------------------------------------------------------------------------
(***************************************************************************)
(* Promises.                                                               *)
(***************************************************************************)
\* The worker has the event, in the queue it will yet flush or in a batch.
Due(p, e) ==
    /\ client[p].worker
    /\ \/ e \in client[p].queue /\ phase[p] \in {"tick", "drain"}
       \/ e \in EventsOf(client[p].held)

\* An event recorded while the client was open has been dealt with or is due, unless
\* its drain was cut short; a client is not drained before it is closed, and its worker
\* survives its close only if that ran out of time.
Kept(p) ==
    /\ status[p] = "none" => promised[p] = {}
    /\ p \in exited => status[p] = "gone" /\ p \notin bare
    /\ (status[p] # "gone" /\ client[p].state \notin {"closing", "closed"}) => phase[p] = "tick"
    /\ (client[p].state = "closed" /\ client[p].worker) => p \in late
    /\ (p \notin bare /\ ~CutShort(p) /\ (Alive(p) \/ p \in exited)) =>
          \A e \in promised[p] : stored[e] = 1 \/ e \in reported \/ Due(p, e)

PromisesInv == \A p \in Processes : Kept(p)

-----------------------------------------------------------------------------
(***************************************************************************)
(* What each step does to a client.                                        *)
(***************************************************************************)
Fields(c, state, worker, lock, queue, held, session, seq) ==
    /\ c.state = state /\ c.worker = worker /\ c.lock = lock /\ c.queue = queue
    /\ c.held = held /\ c.session = session /\ c.seq = seq

States == InUse \cup Unmade

LEMMA NoRequestIsNone == NoRequest \notin Batch /\ NoRequest.id = << >>
BY DEF NoRequest, Batch

LEMMA FieldTypes ==
    ASSUME NEW c \in ClientState
    PROVE  /\ c.state \in States /\ c.worker \in BOOLEAN /\ c.lock \in {"free", "held", "lost"}
           /\ c.queue \in SUBSET Events /\ c.held \in SUBSET Batch
           /\ c.session \in Nat /\ c.seq \in Nat
BY DEF ClientState, States, Unmade, Batch

LEMMA EditState ==
    ASSUME NEW c \in ClientState, NEW state \in States
    PROVE  LET d == [c EXCEPT !.state = state] IN
           /\ d \in ClientState
           /\ Fields(d, state, c.worker, c.lock, c.queue, c.held, c.session, c.seq)
BY DEF ClientState, States, Unmade, Fields

LEMMA EditCreated ==
    ASSUME NEW c \in ClientState, NEW n \in Nat
    PROVE  LET d == [c EXCEPT !.state = "registering", !.worker = TRUE, !.session = n] IN
           /\ d \in ClientState
           /\ Fields(d, "registering", TRUE, c.lock, c.queue, c.held, n, c.seq)
BY DEF ClientState, Fields

LEMMA EditLock ==
    ASSUME NEW c \in ClientState, NEW lock \in {"free", "held", "lost"}
    PROVE  LET d == [c EXCEPT !.lock = lock] IN
           /\ d \in ClientState
           /\ Fields(d, c.state, c.worker, lock, c.queue, c.held, c.session, c.seq)
BY DEF ClientState, Fields

LEMMA EditPushed ==
    ASSUME NEW c \in ClientState, NEW queue \in SUBSET Events
    PROVE  LET d == [c EXCEPT !.lock = "free", !.queue = queue] IN
           /\ d \in ClientState
           /\ Fields(d, c.state, c.worker, "free", queue, c.held, c.session, c.seq)
BY DEF ClientState, Fields

LEMMA ClientStateIs ==
    ClientState = [state : InUse \cup {"absent", "registering", "installing"},
                   worker : BOOLEAN, lock : {"free", "held", "lost"}, queue : SUBSET Events,
                   held : SUBSET Batch, session : Nat, seq : Nat]
BY DEF ClientState, Batch

LEMMA EditFlushed ==
    ASSUME NEW c \in ClientState, NEW held \in SUBSET Batch, NEW seq \in Nat
    PROVE  LET d == [c EXCEPT !.queue = {}, !.seq = seq, !.held = held] IN
           /\ d \in ClientState
           /\ Fields(d, c.state, c.worker, c.lock, {}, held, c.session, seq)
BY ClientStateIs DEF Fields

LEMMA EditHeld ==
    ASSUME NEW c \in ClientState, NEW held \in SUBSET Batch
    PROVE  LET d == [c EXCEPT !.held = held] IN
           /\ d \in ClientState
           /\ Fields(d, c.state, c.worker, c.lock, c.queue, held, c.session, c.seq)
BY ClientStateIs DEF Fields

LEMMA EditClosed ==
    ASSUME NEW c \in ClientState
    PROVE  LET d == [c EXCEPT !.state = "closed", !.worker = FALSE] IN
           /\ d \in ClientState
           /\ Fields(d, "closed", FALSE, c.lock, c.queue, c.held, c.session, c.seq)
BY DEF ClientState, Fields, InUse

LEMMA EditEnded ==
    ASSUME NEW c \in ClientState
    PROVE  LET d == [c EXCEPT !.worker = FALSE] IN
           /\ d \in ClientState
           /\ Fields(d, c.state, FALSE, c.lock, c.queue, c.held, c.session, c.seq)
BY DEF ClientState, Fields

LEMMA AbsentIs ==
    /\ Absent \in ClientState
    /\ Fields(Absent, "absent", FALSE, "free", {}, {}, 0, 0)
BY DEF Absent, ClientState, Fields

\* A client copied by a fork.
LEMMA CopiedIs ==
    ASSUME NEW c \in ClientState
    PROVE  /\ Copied(c) \in ClientState
           /\ c.state \in Unmade => Copied(c) = Absent
           /\ c.state \notin Unmade =>
                 Fields(Copied(c), c.state, FALSE, IF c.lock = "free" THEN "free" ELSE "lost",
                        c.queue, {}, c.session, c.seq)
<1>1. c.state \in States
  BY FieldTypes
<1>2. CASE c.state \in Unmade
  <2>1. c.state \notin InUse
    BY <1>2 DEF Unmade, InUse
  <2> QED
    BY <1>2, <2>1, AbsentIs DEF Copied
<1>3. CASE c.state \notin Unmade
  <2>1. c.state \in InUse
    BY <1>1, <1>3 DEF States
  <2> DEFINE lock == IF c.lock = "free" THEN "free" ELSE "lost"
             d == [c EXCEPT !.worker = FALSE, !.held = {}, !.lock = lock]
  <2>2. Copied(c) = d
    BY <2>1 DEF Copied
  <2>3. lock \in {"free", "held", "lost"}
    OBVIOUS
  <2> HIDE DEF lock
  <2>4. d \in ClientState
    BY <2>3 DEF ClientState
  <2>5. Fields(d, c.state, FALSE, lock, c.queue, {}, c.session, c.seq)
    BY DEF ClientState, Fields
  <2> QED
    BY <1>3, <2>2, <2>4, <2>5 DEF lock
<1> QED
  BY <1>2, <1>3

\* A client rebuilt after a fork.
LEMMA RebuiltIs ==
    ASSUME NEW c \in ClientState, NEW n \in Nat
    PROVE  /\ Rebuilt(c, n) \in ClientState
           /\ c.state \in Unmade => Rebuilt(c, n) = Absent
           /\ c.state = "closed" =>
                 Fields(Rebuilt(c, n), "closed", FALSE, "free", c.queue, {}, c.session, c.seq)
           /\ c.state \in {"open", "closing"} =>
                 Fields(Rebuilt(c, n), "open", TRUE, "free", {}, {}, n, 0)
<1>1. c.state \in States
  BY FieldTypes
<1>2. CASE c.state \in Unmade
  <2>1. c.state \notin InUse /\ c.state # "closed" /\ c.state \notin {"open", "closing"}
    BY <1>2 DEF Unmade, InUse
  <2> QED
    BY <2>1, AbsentIs DEF Rebuilt
<1>3. CASE c.state = "closed"
  <2>1. Rebuilt(c, n) = [Copied(c) EXCEPT !.lock = "free"] /\ c.state \notin Unmade
    BY <1>3 DEF Rebuilt, Unmade, InUse
  <2>2. PICK d \in ClientState : d = Copied(c)
    BY CopiedIs
  <2>3. Fields(d, c.state, FALSE, IF c.lock = "free" THEN "free" ELSE "lost",
               c.queue, {}, c.session, c.seq)
    BY <2>1, <2>2, CopiedIs
  <2>4. [d EXCEPT !.lock = "free"] \in ClientState
        /\ Fields([d EXCEPT !.lock = "free"], d.state, d.worker, "free", d.queue, d.held,
                  d.session, d.seq)
    BY EditLock
  <2> QED
    BY <1>3, <2>1, <2>2, <2>3, <2>4 DEF Fields
<1>4. CASE c.state \in {"open", "closing"}
  <2> DEFINE d == [Absent EXCEPT !.state = "open", !.worker = TRUE, !.session = n]
  <2>1. Rebuilt(c, n) = d /\ c.state \notin Unmade /\ c.state # "closed"
    BY <1>4 DEF Rebuilt, InUse, Unmade
  <2>2. PICK a \in ClientState : a = Absent
    BY AbsentIs
  <2>3. [a EXCEPT !.state = "open", !.worker = TRUE, !.session = n] \in ClientState
    BY DEF ClientState, InUse
  <2>4. Fields([a EXCEPT !.state = "open", !.worker = TRUE, !.session = n],
               "open", TRUE, a.lock, a.queue, a.held, n, a.seq)
    BY DEF ClientState, Fields
  <2>5. Fields(a, "absent", FALSE, "free", {}, {}, 0, 0)
    BY <2>2, AbsentIs
  <2> QED
    BY <1>4, <2>1, <2>2, <2>3, <2>4, <2>5 DEF Fields
<1> QED
  BY <1>1, <1>2, <1>3, <1>4 DEF States, InUse

\* One client changes.
LEMMA ClientChanges ==
    ASSUME TypeOK, NEW p \in Processes, NEW c \in ClientState,
           client' = [client EXCEPT ![p] = c]
    PROVE  /\ client' \in [Processes -> ClientState]
           /\ client'[p] = c
           /\ \A q \in Processes \ {p} : client'[q] = client[q]
BY DEF TypeOK

Becomes(p, state, worker, lock, queue, held, session, seq) ==
    /\ client' \in [Processes -> ClientState]
    /\ Fields(client'[p], state, worker, lock, queue, held, session, seq)
    /\ \A q \in Processes \ {p} : client'[q] = client[q]

LEMMA CreateDoes ==
    ASSUME TypeOK, NEW p \in Processes, Create(p)
    PROVE  Becomes(p, "registering", TRUE, client[p].lock, client[p].queue, client[p].held,
                   sessions + 1, client[p].seq)
<1>1. PICK c \in ClientState : c = client[p]
  BY DEF TypeOK
<1>2. PICK n \in Nat : n = sessions + 1
  BY DEF TypeOK
<1>3. client' = [client EXCEPT ![p] =
          [c EXCEPT !.state = "registering", !.worker = TRUE, !.session = n]]
  BY <1>1, <1>2 DEF Create, TypeOK
<1> QED
  BY <1>1, <1>2, <1>3, EditCreated, ClientChanges DEF Becomes

LEMMA StateDoes ==
    ASSUME TypeOK, NEW p \in Processes, NEW state \in States,
           client' = [client EXCEPT ![p].state = state]
    PROVE  Becomes(p, state, client[p].worker, client[p].lock, client[p].queue,
                   client[p].held, client[p].session, client[p].seq)
<1>1. PICK c \in ClientState : c = client[p]
  BY DEF TypeOK
<1>2. client' = [client EXCEPT ![p] = [c EXCEPT !.state = state]]
  BY <1>1 DEF TypeOK
<1>3. PICK d \in ClientState : d = [c EXCEPT !.state = state]
  BY EditState
<1>4. Fields(d, state, c.worker, c.lock, c.queue, c.held, c.session, c.seq)
  BY <1>3, EditState
<1>5. client' = [client EXCEPT ![p] = d]
  BY <1>2, <1>3
<1> QED
  BY <1>1, <1>4, <1>5, ClientChanges DEF Becomes

LEMMA RecordBeginsDoes ==
    ASSUME TypeOK, NEW p \in Processes, RecordBegins(p)
    PROVE  Becomes(p, client[p].state, client[p].worker, "held", client[p].queue,
                   client[p].held, client[p].session, client[p].seq)
<1>1. PICK c \in ClientState : c = client[p]
  BY DEF TypeOK
<1>2. client' = [client EXCEPT ![p] = [c EXCEPT !.lock = "held"]]
  BY <1>1 DEF RecordBegins, TypeOK
<1> QED
  BY <1>1, <1>2, EditLock, ClientChanges DEF Becomes

LEMMA RecordEndsDoes ==
    ASSUME TypeOK, NEW p \in Processes, RecordEnds(p)
    PROVE  \E e \in unrecorded :
              /\ e \in Events
              /\ unrecorded' = unrecorded \ {e}
              /\ Becomes(p, client[p].state, client[p].worker, "free", client[p].queue \cup {e},
                         client[p].held, client[p].session, client[p].seq)
              /\ promised' = IF client[p].state = "open"
                             THEN [promised EXCEPT ![p] = @ \cup {e}] ELSE promised
<1>1. PICK c \in ClientState : c = client[p]
  BY DEF TypeOK
<1>2. PICK e \in unrecorded :
          /\ unrecorded' = unrecorded \ {e}
          /\ client' = [client EXCEPT ![p].lock = "free", ![p].queue = @ \cup {e}]
          /\ promised' = IF client[p].state = "open"
                         THEN [promised EXCEPT ![p] = @ \cup {e}] ELSE promised
  BY DEF RecordEnds
<1>3. e \in Events
  BY DEF TypeOK
<1>4. PICK queue \in SUBSET Events : queue = c.queue \cup {e}
  BY <1>3, FieldTypes
<1>5. client' = [client EXCEPT ![p] = [c EXCEPT !.lock = "free", !.queue = queue]]
  BY <1>1, <1>2, <1>4 DEF TypeOK
<1>6. Becomes(p, client[p].state, client[p].worker, "free", client[p].queue \cup {e},
              client[p].held, client[p].session, client[p].seq)
  BY <1>1, <1>4, <1>5, EditPushed, ClientChanges DEF Becomes
<1> QED
  BY <1>2, <1>3, <1>6

LEMMA NewBatchIs ==
    ASSUME TypeOK, NEW p \in Processes
    PROVE  /\ NewBatch(p) \in Batch
           /\ NewBatch(p).id = <<client[p].session, client[p].seq + 1>>
           /\ NewBatch(p).events = client[p].queue
<1>1. PICK c \in ClientState : c = client[p]
  BY DEF TypeOK
<1>2. c.session \in Nat /\ c.seq + 1 \in Nat /\ c.queue \in SUBSET Events
  BY FieldTypes
<1> QED
  BY <1>1, <1>2 DEF NewBatch, BatchId, Batch

\* A flush.
Flushed(p, held) ==
    Becomes(p, client[p].state, client[p].worker, client[p].lock, {}, held,
            client[p].session, client[p].seq + 1)

LEMMA FlushDoes ==
    ASSUME TypeOK, NEW p \in Processes, NEW held \in SUBSET Batch, FlushTo(p, held)
    PROVE  Flushed(p, held)
<1>1. PICK c \in ClientState : c = client[p]
  BY DEF TypeOK
<1>2. PICK n \in Nat : n = c.seq + 1
  BY FieldTypes
<1>3. client' = [client EXCEPT ![p] = [c EXCEPT !.queue = {}, !.seq = n, !.held = held]]
  BY <1>1, <1>2 DEF FlushTo, TypeOK
<1> QED
  BY <1>1, <1>2, <1>3, EditFlushed, ClientChanges DEF Becomes, Flushed

\* Batches are settled.
Settled(p, held) ==
    Becomes(p, client[p].state, client[p].worker, client[p].lock, client[p].queue, held,
            client[p].session, client[p].seq)

LEMMA SettleDoes ==
    ASSUME TypeOK, NEW p \in Processes, NEW gone,
           client' = [client EXCEPT ![p].held = @ \ gone]
    PROVE  Settled(p, client[p].held \ gone)
<1>1. PICK c \in ClientState : c = client[p]
  BY DEF TypeOK
<1>2. PICK held \in SUBSET Batch : held = c.held \ gone
  BY FieldTypes
<1>3. client' = [client EXCEPT ![p] = [c EXCEPT !.held = held]]
  BY <1>1, <1>2 DEF TypeOK
<1>4. PICK d \in ClientState : d = [c EXCEPT !.held = held]
  BY EditHeld
<1>5. Fields(d, c.state, c.worker, c.lock, c.queue, held, c.session, c.seq)
  BY <1>4, EditHeld
<1>6. client' = [client EXCEPT ![p] = d]
  BY <1>3, <1>4
<1> QED
  BY <1>1, <1>2, <1>5, <1>6, ClientChanges DEF Becomes, Settled

LEMMA JoinsDoes ==
    ASSUME TypeOK, NEW p \in Processes, Joins(p)
    PROVE  Becomes(p, "closed", FALSE, client[p].lock, client[p].queue,
                   client[p].held, client[p].session, client[p].seq)
<1>1. PICK c \in ClientState : c = client[p]
  BY DEF TypeOK
<1>2. client' = [client EXCEPT ![p] = [c EXCEPT !.state = "closed", !.worker = FALSE]]
  BY <1>1 DEF Joins, TypeOK
<1> QED
  BY <1>1, <1>2, EditClosed, ClientChanges DEF Becomes

LEMMA WorkerEndsDoes ==
    ASSUME TypeOK, NEW p \in Processes, WorkerEnds(p)
    PROVE  Becomes(p, client[p].state, FALSE, client[p].lock, client[p].queue,
                   client[p].held, client[p].session, client[p].seq)
<1>1. PICK c \in ClientState : c = client[p]
  BY DEF TypeOK
<1>2. client' = [client EXCEPT ![p] = [c EXCEPT !.worker = FALSE]]
  BY <1>1 DEF WorkerEnds, TypeOK
<1> QED
  BY <1>1, <1>2, EditEnded, ClientChanges DEF Becomes

LEMMA ForkDoes ==
    ASSUME TypeOK, NEW p \in Processes, NEW q \in Processes, Fork(p, q)
    PROVE  LET c == IF handlers[p] THEN Rebuilt(client[p], sessions + 1) ELSE Copied(client[p])
           IN /\ client' \in [Processes -> ClientState]
              /\ client'[q] = c
              /\ \A r \in Processes \ {q} : client'[r] = client[r]
<1>1. client[p] \in ClientState /\ sessions + 1 \in Nat
  BY DEF TypeOK
<1>2. Rebuilt(client[p], sessions + 1) \in ClientState /\ Copied(client[p]) \in ClientState
  BY <1>1, RebuiltIs, CopiedIs
<1>3. PICK c \in ClientState : c = IF handlers[p] THEN Rebuilt(client[p], sessions + 1)
                                                  ELSE Copied(client[p])
  BY <1>2
<1>4. client' = [client EXCEPT ![q] = c]
  BY <1>3 DEF Fork
<1> QED
  BY <1>3, <1>4, ClientChanges

LEMMA ExitDoes ==
    ASSUME TypeOK, NEW p \in Processes, Exit(p)
    PROVE  /\ client' \in [Processes -> ClientState]
           /\ client'[p] = Absent
           /\ \A q \in Processes \ {p} : client'[q] = client[q]
BY AbsentIs, ClientChanges DEF Exit


-----------------------------------------------------------------------------
(***************************************************************************)
(* What each step does to the sockets.                                     *)
(***************************************************************************)
SocketFields(socket, requests, answers, ended) ==
    socket.requests = requests /\ socket.answers = answers /\ socket.ended = ended

\* One socket changes.
OneSocket(s, socket) ==
    /\ sockets' \in Seq(Socket) /\ Len(sockets') = Len(sockets)
    /\ socket \in Socket /\ sockets'[s] = socket
    /\ \A t \in 1..Len(sockets) : t # s => sockets'[t] = sockets[t]

LEMMA SocketChanges ==
    ASSUME sockets \in Seq(Socket), NEW s \in 1..Len(sockets), NEW socket \in Socket,
           sockets' = [sockets EXCEPT ![s] = socket]
    PROVE  OneSocket(s, socket)
BY ExceptSeq DEF OneSocket

LEMMA SocketTypes ==
    ASSUME NEW socket \in Socket
    PROVE  /\ socket.requests \in Seq(Batch) /\ socket.answers \in Seq(Answer)
           /\ socket.ended \in BOOLEAN
BY DEF Socket

LEMMA NewSocketIs ==
    /\ NewSocket \in Socket
    /\ SocketFields(NewSocket, << >>, << >>, FALSE)
BY DEF NewSocket, Socket, SocketFields

LEMMA WrittenIs ==
    ASSUME NEW socket \in Socket, NEW b \in Batch
    PROVE  /\ Written(socket, b) \in Socket
           /\ socket.ended => Written(socket, b) = socket
           /\ ~socket.ended => SocketFields(Written(socket, b), Append(socket.requests, b),
                                            socket.answers, socket.ended)
<1>1. PICK requests : requests = Append(socket.requests, b)
  OBVIOUS
<1>2. requests \in Seq(Batch)
  BY <1>1, SocketTypes, AppendProperties
<1>3. CASE socket.ended
  BY <1>3 DEF Written
<1>4. CASE ~socket.ended
  <2>1. Written(socket, b) = [socket EXCEPT !.requests = requests]
    BY <1>1, <1>4 DEF Written, Socket
  <2>2. [socket EXCEPT !.requests = requests] \in Socket
    BY <1>2 DEF Socket
  <2>3. SocketFields([socket EXCEPT !.requests = requests], requests, socket.answers, socket.ended)
    BY DEF SocketFields, Socket
  <2> QED
    BY <1>1, <1>4, <2>1, <2>2, <2>3
<1> QED
  BY <1>3, <1>4

LEMMA TakenIs ==
    ASSUME NEW socket \in Socket, socket.answers # << >>
    PROVE  /\ Taken(socket) \in Socket
           /\ SocketFields(Taken(socket), socket.requests, Tail(socket.answers), socket.ended)
<1>1. PICK answers \in Seq(Answer) : answers = Tail(socket.answers)
  BY SocketTypes, HeadTailProperties
<1>2. Taken(socket) = [socket EXCEPT !.answers = answers]
  BY <1>1 DEF Taken, Socket
<1>3. [socket EXCEPT !.answers = answers] \in Socket
  BY DEF Socket
<1>4. SocketFields([socket EXCEPT !.answers = answers], socket.requests, answers, socket.ended)
  BY DEF SocketFields, Socket
<1> QED
  BY <1>1, <1>2, <1>3, <1>4

\* Connections and sockets fit.
Wired ==
    /\ connection \in [Processes -> 0..Len(sockets)]
    /\ waiting \in [Processes -> Batch \cup {NoRequest}]
    /\ sockets \in Seq(Socket)

\* A request goes on the connection there is, or on one of its own.
Requested(p, b, s) ==
    /\ waiting' = [waiting EXCEPT ![p] = b]
    /\ connection' = [connection EXCEPT ![p] = s]
    /\ sockets' \in Seq(Socket)
    /\ \/ /\ connection[p] = s /\ s \in 1..Len(sockets)
          /\ OneSocket(s, Written(sockets[s], b))
       \/ /\ connection[p] = 0 /\ s = Len(sockets) + 1 /\ Len(sockets') = s
          /\ sockets'[s] = Written(NewSocket, b)
          /\ \A t \in 1..Len(sockets) : sockets'[t] = sockets[t]

LEMMA RequestDoes ==
    ASSUME Wired, NEW p \in Processes, NEW b \in Batch, Request(p, b)
    PROVE  \E s \in Nat \ {0} : Requested(p, b, s)
<1>1. Len(sockets) \in Nat
  BY LenProperties DEF Wired
<1>2. CASE connection[p] # 0 /\ UNCHANGED connection
  <2>1. PICK s \in 1..Len(sockets) : s = connection[p]
    BY <1>1, <1>2 DEF Wired
  <2>2. connection' = [connection EXCEPT ![p] = s] /\ connection'[p] = s
    BY <1>2, <2>1 DEF Wired
  <2>3. sockets[s] \in Socket
    BY ElementOfSeq DEF Wired
  <2>4. PICK socket \in Socket : socket = Written(sockets[s], b)
    BY <2>3, WrittenIs
  <2>5. Opened(s) = sockets
    BY <1>1 DEF Opened
  <2>6. sockets' = [sockets EXCEPT ![s] = Written(@, b)]
    BY <2>2, <2>5 DEF Request
  <2>7. sockets' = [sockets EXCEPT ![s] = socket]
    BY <2>4, <2>6
  <2>8. OneSocket(s, socket)
    BY <2>7, SocketChanges DEF Wired
  <2> QED
    <3>1. OneSocket(s, Written(sockets[s], b))
      BY <2>4, <2>8
    <3>2. sockets' \in Seq(Socket) /\ s \in Nat \ {0}
      BY <2>8, <1>1 DEF OneSocket
    <3>3. waiting' = [waiting EXCEPT ![p] = b]
      BY DEF Request
    <3> QED
      BY <2>1, <2>2, <3>1, <3>2, <3>3 DEF Requested
<1>3. CASE connection[p] = 0 /\ connection' = [connection EXCEPT ![p] = Len(sockets) + 1]
  <2>1. PICK s \in Nat \ {0} : s = Len(sockets) + 1
    BY <1>1
  <2>2. connection' = [connection EXCEPT ![p] = s] /\ connection'[p] = s
    BY <1>3, <2>1 DEF Wired
  <2>3. PICK opened : opened = Append(sockets, NewSocket)
    OBVIOUS
  <2>4. /\ opened \in Seq(Socket) /\ Len(opened) = s /\ opened[s] = NewSocket
        /\ \A t \in 1..Len(sockets) : opened[t] = sockets[t]
    BY <2>1, <2>3, NewSocketIs, AppendProperties DEF Wired
  <2>5. PICK socket \in Socket : socket = Written(NewSocket, b)
    BY NewSocketIs, WrittenIs
  <2>6. Opened(s) = opened
    BY <1>1, <2>1, <2>3 DEF Opened
  <2>7. sockets' = [opened EXCEPT ![s] = Written(@, b)]
    BY <2>2, <2>6 DEF Request
  <2>8. sockets' = [opened EXCEPT ![s] = socket]
    BY <2>4, <2>5, <2>7
  <2>9. s \in 1..Len(opened)
    BY <2>4
  <2>10. /\ sockets' \in Seq(Socket) /\ Len(sockets') = Len(opened)
         /\ \A j \in 1..Len(opened) : sockets'[j] = IF j = s THEN socket ELSE opened[j]
    BY <2>4, <2>8, <2>9, ExceptSeq
  <2>11. \A t \in 1..Len(sockets) : sockets'[t] = sockets[t]
    BY <1>1, <2>1, <2>4, <2>10
  <2>12. Len(sockets') = s /\ sockets'[s] = Written(NewSocket, b)
    BY <2>4, <2>5, <2>9, <2>10
  <2>13. waiting' = [waiting EXCEPT ![p] = b]
    BY DEF Request
  <2>14. connection[p] = 0 /\ s = Len(sockets) + 1
    BY <1>3, <2>1
  <2> QED
    BY <2>2, <2>10, <2>11, <2>12, <2>13, <2>14 DEF Requested
<1> QED
  BY <1>2, <1>3 DEF Request, Connect

\* An answer is taken from its socket.
Received(p, accepted) ==
    /\ Waits(p)
    /\ waiting' = [waiting EXCEPT ![p] = NoRequest]
    /\ connection' = connection
    /\ LET old == sockets[connection[p]]
           new == sockets'[connection[p]] IN
       /\ old.answers # << >> /\ Head(old.answers).accepted = accepted
       /\ OneSocket(connection[p], new)
       /\ SocketFields(new, old.requests, Tail(old.answers), old.ended)

LEMMA ReceiveDoes ==
    ASSUME Wired, NEW p \in Processes, NEW accepted \in BOOLEAN, Receive(p, accepted),
           connection[p] # 0
    PROVE  Received(p, accepted)
<1>1. Len(sockets) \in Nat
  BY LenProperties DEF Wired
<1>2. PICK s \in 1..Len(sockets) : s = connection[p]
  BY <1>1 DEF Wired
<1>3. PICK old \in Socket : old = sockets[s]
  BY ElementOfSeq DEF Wired
<1>4. Waits(p) /\ old.answers # << >> /\ Head(old.answers).accepted = accepted
  BY <1>2, <1>3 DEF Receive, HasAnswer, NextAnswer
<1>5. PICK new \in Socket : new = Taken(old)
  BY <1>4, TakenIs
<1>6. SocketFields(new, old.requests, Tail(old.answers), old.ended)
  BY <1>4, <1>5, TakenIs
<1>9. sockets' = [sockets EXCEPT ![s] = new]
  BY <1>2, <1>3, <1>5 DEF Receive
<1>10. OneSocket(s, new)
  BY <1>9, SocketChanges DEF Wired
<1>11. sockets'[s] = new
  BY <1>10 DEF OneSocket
<1> QED
  BY <1>2, <1>3, <1>4, <1>6, <1>10, <1>11 DEF Received, Receive

\* An answer is taken from its socket, and the request written on it again.
Restated(p) ==
    /\ Waits(p)
    /\ waiting' = waiting /\ connection' = connection
    /\ LET old == sockets[connection[p]]
           new == sockets'[connection[p]] IN
       /\ old.answers # << >> /\ OneSocket(connection[p], new)
       /\ new.answers = Tail(old.answers) /\ new.ended = old.ended
       /\ new.requests = IF old.ended THEN old.requests ELSE Append(old.requests, waiting[p])

LEMMA RestateDoes ==
    ASSUME Wired, NEW p \in Processes, Restate(p), connection[p] # 0
    PROVE  Restated(p)
<1>1. Len(sockets) \in Nat
  BY LenProperties DEF Wired
<1>2. PICK s \in 1..Len(sockets) : s = connection[p]
  BY <1>1 DEF Wired
<1>3. PICK old \in Socket : old = sockets[s]
  BY ElementOfSeq DEF Wired
<1>4. Waits(p) /\ old.answers # << >>
  BY <1>2, <1>3 DEF Restate, HasAnswer
<1>5. PICK b \in Batch : b = waiting[p]
  BY <1>4 DEF Wired, Waits
<1>6. PICK taken \in Socket : taken = Taken(old)
  BY <1>4, TakenIs
<1>7. SocketFields(taken, old.requests, Tail(old.answers), old.ended)
  BY <1>4, <1>6, TakenIs
<1>8. PICK new \in Socket : new = Written(taken, b)
  BY WrittenIs
<1>9. sockets' = [sockets EXCEPT ![s] = new]
  BY <1>2, <1>3, <1>5, <1>6, <1>8 DEF Restate
<1>10. OneSocket(s, new)
  BY <1>9, SocketChanges DEF Wired
<1>11. sockets'[s] = new
  BY <1>10 DEF OneSocket
<1>12. /\ new.answers = Tail(old.answers) /\ new.ended = old.ended
       /\ new.requests = IF old.ended THEN old.requests ELSE Append(old.requests, b)
  <2>1. /\ taken.ended => new = taken
        /\ ~taken.ended => SocketFields(new, Append(taken.requests, b), taken.answers, taken.ended)
    BY <1>8, WrittenIs
  <2>2. /\ taken.requests = old.requests /\ taken.answers = Tail(old.answers)
        /\ taken.ended = old.ended
    BY <1>7 DEF SocketFields
  <2>3. CASE old.ended
    BY <2>1, <2>2, <2>3
  <2>4. CASE ~old.ended
    BY <2>1, <2>2, <2>4 DEF SocketFields
  <2> QED
    BY <2>3, <2>4
<1>13. waiting' = waiting /\ connection' = connection
  BY DEF Restate
<1> QED
  BY <1>2, <1>3, <1>4, <1>5, <1>10, <1>11, <1>12, <1>13 DEF Restated

\* A connection is dropped; the socket it had has ended.
Dropped(p) ==
    /\ connection' = [connection EXCEPT ![p] = 0]
    /\ connection[p] = 0 => sockets' = sockets
    /\ connection[p] # 0 =>
          LET old == sockets[connection[p]]
              new == sockets'[connection[p]] IN
          /\ OneSocket(connection[p], new)
          /\ SocketFields(new, old.requests, << >>, TRUE)

LEMMA DropDoes ==
    ASSUME Wired, NEW p \in Processes, DropConnection(p)
    PROVE  Dropped(p)
<1>1. Len(sockets) \in Nat
  BY LenProperties DEF Wired
<1>2. CASE connection[p] = 0
  BY <1>2 DEF Dropped, DropConnection, Ended
<1>3. CASE connection[p] # 0
  <2>1. PICK s \in 1..Len(sockets) : s = connection[p]
    BY <1>1, <1>3 DEF Wired
  <2>2. PICK old \in Socket : old = sockets[s]
    BY ElementOfSeq DEF Wired
  <2>3. PICK new : new = [old EXCEPT !.ended = TRUE, !.answers = << >>]
    OBVIOUS
  <2>4. new \in Socket
    BY <2>3, EmptySeq DEF Socket
  <2>5. SocketFields(new, old.requests, << >>, TRUE)
    BY <2>3 DEF SocketFields, Socket
  <2>6. sockets' = [sockets EXCEPT ![s].ended = TRUE, ![s].answers = << >>]
    BY <1>3, <2>1 DEF DropConnection, Ended
  <2>7. sockets' = [sockets EXCEPT ![s] = new]
    BY <2>2, <2>3, <2>6 DEF Wired
  <2>8. OneSocket(s, new)
    BY <2>4, <2>7, SocketChanges DEF Wired
  <2>9. sockets'[s] = new
    BY <2>8 DEF OneSocket
  <2> QED
    BY <1>3, <2>1, <2>2, <2>5, <2>8, <2>9 DEF Dropped, DropConnection
<1> QED
  BY <1>2, <1>3

\* The endpoint answers the first request on a socket.
AnsweredOn(s, accepted, lost) ==
    /\ connection' = connection /\ waiting' = waiting
    /\ LET old == sockets[s]
           new == sockets'[s] IN
       /\ old.requests # << >>
       /\ OneSocket(s, new)
       /\ SocketFields(new, Tail(old.requests),
                       IF old.ended THEN << >>
                       ELSE Append(old.answers, [id |-> Head(old.requests).id,
                                                 accepted |-> accepted, lost |-> lost]),
                       old.ended)

LEMMA AnswersDoes ==
    ASSUME Wired, NEW s \in DOMAIN sockets, NEW accepted \in BOOLEAN, NEW lost \in SUBSET Events,
           Pending(s), Answers(s, accepted, lost)
    PROVE  AnsweredOn(s, accepted, lost)
<1>1. s \in 1..Len(sockets)
  BY LenProperties DEF Wired
<1>2. PICK old \in Socket : old = sockets[s]
  BY <1>1, ElementOfSeq DEF Wired
<1>3. old.requests # << >>
  BY <1>2 DEF Pending
<1>4. PICK requests \in Seq(Batch) : requests = Tail(old.requests)
  BY <1>3, SocketTypes, HeadTailProperties
<1>5. Head(old.requests) \in Batch
  BY <1>3, SocketTypes, HeadTailProperties
<1>6. PICK answer : answer = [id |-> Head(old.requests).id, accepted |-> accepted,
                              lost |-> lost]
  OBVIOUS
<1>7. answer \in Answer
  BY <1>5, <1>6 DEF Answer, Batch
<1>8. PICK answers : answers = IF old.ended THEN << >> ELSE Append(old.answers, answer)
  OBVIOUS
<1>9. answers \in Seq(Answer)
  BY <1>7, <1>8, SocketTypes, AppendProperties, EmptySeq
<1>10. PICK new : new = [old EXCEPT !.requests = requests, !.answers = answers]
  OBVIOUS
<1>11. new \in Socket
  BY <1>9, <1>10 DEF Socket
<1>12. SocketFields(new, requests, answers, old.ended)
  BY <1>10 DEF SocketFields, Socket
<1>13. sockets' = [sockets EXCEPT ![s].requests = requests, ![s].answers = answers]
  <2>1. sockets' = [sockets EXCEPT ![s].requests = Tail(@),
           ![s].answers = IF sockets[s].ended THEN << >>
              ELSE Append(@, [id |-> Head(sockets[s].requests).id, accepted |-> accepted,
                              lost |-> lost])]
    BY DEF Answers
  <2> QED
    BY <1>1, <1>2, <1>4, <1>6, <1>8, <2>1 DEF Wired
<1>14. sockets' = [sockets EXCEPT ![s] = new]
  BY <1>1, <1>2, <1>10, <1>13 DEF Wired
<1>15. OneSocket(s, new)
  BY <1>1, <1>11, <1>14, SocketChanges DEF Wired
<1>16. sockets'[s] = new
  BY <1>15 DEF OneSocket
<1>17. connection' = connection /\ waiting' = waiting
  BY DEF Answers
<1> QED
  BY <1>2, <1>3, <1>4, <1>6, <1>8, <1>12, <1>15, <1>16, <1>17 DEF AnsweredOn

-----------------------------------------------------------------------------
(***************************************************************************)
(* Type correctness, and that a request in progress has a connection.      *)
(***************************************************************************)
LEMMA InitTypes ==
    ASSUME Init
    PROVE  Types
<1>2. Absent \in ClientState
  BY AbsentIs
<1>3. client \in [Processes -> ClientState]
  BY <1>2 DEF Init
<1>4. sockets \in Seq(Socket) /\ Len(sockets) = 0
  BY EmptySeq DEF Init, ConnectionInit
<1>5. connection \in [Processes -> 0..Len(sockets)]
  BY <1>4 DEF Init, ConnectionInit
<1>6. stored \in [Events -> Nat]
  BY DEF Init, ConnectionInit
<1>7. TypeOK
  BY <1>3, <1>5, <1>6 DEF Init, TypeOK
<1>8. waiting \in [Processes -> Batch \cup {NoRequest}] /\ \A p \in Processes : ~Waits(p)
  BY DEF Init, ConnectionInit, Waits
<1> QED
  BY <1>4, <1>7, <1>8 DEF Types, Init, ConnectionInit

LEMMA TypesWired == Types => Wired
BY DEF Types, TypeOK, Wired

\* The types of what a step on the client's side leaves alone.
LEMMA ConnectionStays ==
    ASSUME Types, UNCHANGED connectionVars,
           \A p \in Processes : status[p] # "none" => status'[p] # "none"
    PROVE  /\ connection' \in [Processes -> 0..Len(sockets')]
           /\ stored' \in [Events -> Nat]
           /\ waiting' \in [Processes -> Batch \cup {NoRequest}]
           /\ sockets' \in Seq(Socket)
           /\ outcomes' \subseteq Outcome
           /\ \A p \in Processes : Waits(p)' => connection'[p] # 0 /\ status'[p] # "none"
BY DEF Types, TypeOK, connectionVars, Waits

\* The types of what a step on the connection's side leaves alone.
LEMMA ProcessesStay ==
    ASSUME Types, UNCHANGED processVars
    PROVE  /\ status' \in [Processes -> {"none", "running", "exiting", "gone"}]
           /\ registry' \in [Processes -> {"free", "held", "lost"}]
           /\ installed' \in [Processes -> BOOLEAN] /\ handlers' \in [Processes -> BOOLEAN]
           /\ bare' \subseteq Processes /\ exited' \subseteq Processes
           /\ other' \subseteq Processes
BY DEF Types, TypeOK, processVars

LEMMA EventsTyped ==
    ASSUME NEW batches \in SUBSET Batch
    PROVE  EventsOf(batches) \subseteq Events
BY DEF EventsOf, Batch

\* What a flush does to the client, and what an answer does or the buffer.
Flushes(p) == FlushSends(p) \/ FlushBuffers(p) \/ FlushDiscards(p)
Settles(p) == Prune(p) \/ Delivered(p) \/ NotDelivered(p) \/ StopIngest(p)

LEMMA FlushesDo ==
    ASSUME TypeOK, NEW p \in Processes, Flushes(p)
    PROVE  /\ Works(p) /\ ~Waits(p) /\ client[p].lock = "free"
           /\ \E held \in SUBSET (client[p].held \cup {NewBatch(p)}) : Flushed(p, held)
<1>1. client[p].held \cup {NewBatch(p)} \in SUBSET Batch
  BY NewBatchIs, FieldTypes DEF TypeOK
<1>2. PICK held \in SUBSET (client[p].held \cup {NewBatch(p)}) : FlushTo(p, held)
  <2>1. CASE FlushSends(p)
    BY <2>1 DEF FlushSends
  <2>2. CASE FlushBuffers(p)
    <3>1. PICK gone : FlushTo(p, (client[p].held \cup {NewBatch(p)}) \ gone)
      BY <2>2 DEF FlushBuffers
    <3> QED
      BY <3>1
  <2>3. CASE FlushDiscards(p)
    BY <2>3 DEF FlushDiscards
  <2> QED
    BY <2>1, <2>2, <2>3 DEF Flushes
<1>3. Flushed(p, held)
  BY <1>1, <1>2, FlushDoes
<1>4. MayFlush(p)
  BY DEF Flushes, FlushSends, FlushBuffers, FlushDiscards
<1> QED
  BY <1>2, <1>3, <1>4 DEF MayFlush, Idle

LEMMA SettlesDo ==
    ASSUME TypeOK, NEW p \in Processes, Settles(p)
    PROVE  Works(p) /\ \E held \in SUBSET client[p].held : Settled(p, held)
<1>1. PICK gone : client' = [client EXCEPT ![p].held = @ \ gone]
  BY DEF Settles, Prune, Delivered, NotDelivered, StopIngest
<1>2. Settled(p, client[p].held \ gone)
  BY <1>1, SettleDoes
<1>3. Works(p)
  BY DEF Settles, Prune, Replays, Idle, Delivered, NotDelivered, StopIngest
<1> QED
  BY <1>2, <1>3

\* All that a step of the worker leaves alone, and what it may do to its client.
LEMMA WorkerDoes ==
    ASSUME TypeOK, NEW p \in Processes, WorkerStep(p)
    PROVE  /\ Works(p) /\ UNCHANGED <<processVars, sessions, unrecorded, promised>>
           /\ \/ \E held \in SUBSET (client[p].held \cup {NewBatch(p)}) :
                    Flushes(p) /\ ~Waits(p) /\ Flushed(p, held)
              \/ \E held \in SUBSET client[p].held : Settles(p) /\ Settled(p, held)
              \/ (Replay(p) \/ SendRestated(p) \/ DrainBegins(p) \/ QueueDrained(p))
                    /\ UNCHANGED client
              \/ /\ WorkerEnds(p)
                 /\ Becomes(p, client[p].state, FALSE, client[p].lock, client[p].queue,
                            client[p].held, client[p].session, client[p].seq)
<1>1. CASE Flushes(p)
  <2>1. UNCHANGED <<processVars, sessions, unrecorded, promised>>
    BY <1>1 DEF Flushes, FlushSends, FlushBuffers, FlushDiscards, eventVars
  <2> QED
    BY <1>1, <2>1, FlushesDo
<1>2. CASE Settles(p)
  <2>1. UNCHANGED <<processVars, sessions, unrecorded, promised>>
    BY <1>2 DEF Settles, Prune, Delivered, NotDelivered, StopIngest, eventVars
  <2> QED
    BY <1>2, <2>1, SettlesDo
<1>3. CASE Replay(p) \/ SendRestated(p) \/ DrainBegins(p) \/ QueueDrained(p)
  <2>1. UNCHANGED <<processVars, sessions, unrecorded, promised, client>>
    BY <1>3 DEF Replay, SendRestated, DrainBegins, QueueDrained, MovesTo, clientVars, eventVars
  <2>2. Works(p)
    BY <1>3 DEF Replay, Replays, Idle, SendRestated, DrainBegins, QueueDrained
  <2> QED
    BY <1>3, <2>1, <2>2
<1>4. CASE WorkerEnds(p)
  BY <1>4, WorkerEndsDoes DEF WorkerEnds, Idle, eventVars
<1> QED
  BY <1>1, <1>2, <1>3, <1>4 DEF WorkerStep, Flushes, Settles

\* The answer a transport is about to read.
LEMMA AnswerTyped ==
    ASSUME Types, NEW p \in Processes, HasAnswer(p)
    PROVE  NextAnswer(p) \in Answer /\ waiting[p] \in Batch
<1>1. Wired /\ connection[p] # 0 /\ Len(sockets) \in Nat
  BY TypesWired, LenProperties DEF Types, HasAnswer
<1>2. sockets[connection[p]] \in Socket
  BY <1>1, ElementOfSeq DEF Wired
<1>3. Head(sockets[connection[p]].answers) \in Answer
  BY <1>2, SocketTypes, HeadTailProperties DEF HasAnswer
<1> QED
  BY <1>3 DEF NextAnswer, HasAnswer, Waits, Types

\* The request the endpoint is about to answer, and its answer.
LEMMA PendingTyped ==
    ASSUME Types, NEW s \in DOMAIN sockets, Pending(s)
    PROVE  Head(sockets[s].requests) \in Batch
<1>1. sockets[s] \in Socket
  BY LenProperties, ElementOfSeq DEF Types
<1> QED
  BY <1>1, SocketTypes, HeadTailProperties DEF Pending

LEMMA EndpointAnswers ==
    ASSUME Types, NEW s \in DOMAIN sockets, EndpointStep(s)
    PROVE  \E accepted \in BOOLEAN, lost \in SUBSET Events :
              /\ Pending(s) /\ Answers(s, accepted, lost)
              /\ outcomes \subseteq outcomes'
              /\ accepted => [id |-> Head(sockets[s].requests).id, lost |-> lost] \in outcomes'
<1>1. CASE Refuse(s)
  BY <1>1 DEF Refuse
<1>2. CASE Recall(s)
  <2>1. PICK o \in outcomes :
            o.id = Head(sockets[s].requests).id /\ Answers(s, TRUE, o.lost)
    BY <1>2 DEF Recall
  <2>2. o.lost \in SUBSET Events /\ o = [id |-> o.id, lost |-> o.lost]
    BY DEF Types, Outcome
  <2> QED
    BY <1>2, <2>1, <2>2 DEF Recall
<1>3. CASE Store(s)
  <2>1. Pending(s)
    BY <1>3 DEF Store
  <2>2. Head(sockets[s].requests).events \subseteq Events
    BY <2>1, PendingTyped DEF Batch
  <2>3. PICK lost \in SUBSET Head(sockets[s].requests).events :
            /\ Answers(s, TRUE, lost)
            /\ outcomes' = outcomes \cup {[id |-> Head(sockets[s].requests).id, lost |-> lost]}
    BY <1>3 DEF Store
  <2> QED
    BY <2>1, <2>2, <2>3
<1> QED
  BY <1>1, <1>2, <1>3 DEF EndpointStep

\* An exit handler closes an open client.
LEMMA ExitBeginsDoes ==
    ASSUME TypeOK, NEW p \in Processes, ExitBegins(p)
    PROVE  \/ UNCHANGED client
           \/ /\ handlers[p] /\ client[p].state = "open"
              /\ Becomes(p, "closing", client[p].worker, client[p].lock, client[p].queue,
                         client[p].held, client[p].session, client[p].seq)
<1>1. "closing" \in States
  BY DEF States, InUse
<1> QED
  BY <1>1, StateDoes DEF ExitBegins

LEMMA NextTypes ==
    ASSUME Types, [Next]_vars
    PROVE  Types'
<1> DEFINE ProcessTypes ==
              /\ status' \in [Processes -> {"none", "running", "exiting", "gone"}]
              /\ registry' \in [Processes -> {"free", "held", "lost"}]
              /\ installed' \in [Processes -> BOOLEAN] /\ handlers' \in [Processes -> BOOLEAN]
              /\ bare' \subseteq Processes /\ exited' \subseteq Processes
              /\ other' \subseteq Processes
           ClientTypes ==
              /\ client' \in [Processes -> ClientState]
              /\ sessions' \in Nat
              /\ phase' \in [Processes -> {"tick", "drain", "replay", "over"}]
              /\ late' \subseteq Processes /\ stopped' \subseteq Processes
              /\ unrecorded' \subseteq Events /\ confirmed' \subseteq Events
              /\ reported' \subseteq Events
              /\ promised' \in [Processes -> SUBSET Events]
           ConnectionTypes ==
              /\ connection' \in [Processes -> 0..Len(sockets')]
              /\ stored' \in [Events -> Nat]
              /\ waiting' \in [Processes -> Batch \cup {NoRequest}]
              /\ sockets' \in Seq(Socket)
              /\ outcomes' \subseteq Outcome
              /\ \A p \in Processes : Waits(p)' => connection'[p] # 0 /\ status'[p] # "none"
<1>1. ASSUME ProcessTypes, ClientTypes, ConnectionTypes PROVE Types'
  BY <1>1 DEF Types, TypeOK
<1>2. TypeOK /\ Wired /\ Len(sockets) \in Nat
  BY TypesWired, LenProperties DEF Types, Wired
<1>3. UNCHANGED processVars => ProcessTypes
  BY ProcessesStay
<1>4. (UNCHANGED connectionVars /\ UNCHANGED status) => ConnectionTypes
  BY ConnectionStays
<1>5. UNCHANGED clientVars => ClientTypes
  BY DEF Types, TypeOK, clientVars, drainVars, eventVars
<1>6. UNCHANGED processVars => UNCHANGED status
  BY DEF processVars
<1> HIDE DEF ProcessTypes, ClientTypes, ConnectionTypes
<1>7. CASE UNCHANGED vars
  BY <1>1, <1>3, <1>4, <1>5, <1>6, <1>7 DEF vars
<1>8. ASSUME NEW p \in Processes, Create(p) PROVE Types'
  <2>1. ProcessTypes
    BY <1>8 DEF Create, ProcessTypes, Types, TypeOK
  <2>2. client' \in [Processes -> ClientState]
    BY <1>2, <1>8, CreateDoes DEF Becomes
  <2>3. ClientTypes
    BY <1>8, <2>2 DEF Create, ClientTypes, Types, TypeOK, drainVars, eventVars
  <2>4. ConnectionTypes
    BY <1>4, <1>8 DEF Create
  <2> QED
    BY <1>1, <2>1, <2>3, <2>4
<1>9. ASSUME NEW p \in Processes, Register(p) PROVE Types'
  <2>1. ProcessTypes
    BY <1>9 DEF Register, ProcessTypes, Types, TypeOK
  <2>2. PICK state \in States : state = IF installed[p] THEN "open" ELSE "installing"
    BY DEF States, InUse, Unmade
  <2>3. client' \in [Processes -> ClientState]
    BY <1>2, <1>9, <2>2, StateDoes DEF Becomes, Register
  <2>4. ClientTypes
    BY <1>9, <2>3 DEF Register, ClientTypes, Types, TypeOK, drainVars, eventVars
  <2>5. ConnectionTypes
    BY <1>4, <1>9 DEF Register
  <2> QED
    BY <1>1, <2>1, <2>4, <2>5
<1>10. ASSUME NEW p \in Processes, InstallHandlers(p) PROVE Types'
  <2>1. ProcessTypes
    BY <1>10 DEF InstallHandlers, ProcessTypes, Types, TypeOK
  <2>2. "open" \in States
    BY DEF States, InUse
  <2>3. client' \in [Processes -> ClientState]
    BY <1>2, <1>10, <2>2, StateDoes DEF Becomes, InstallHandlers
  <2>4. ClientTypes
    BY <1>10, <2>3 DEF InstallHandlers, ClientTypes, Types, TypeOK, drainVars, eventVars
  <2>5. ConnectionTypes
    BY <1>4, <1>10 DEF InstallHandlers
  <2> QED
    BY <1>1, <2>1, <2>4, <2>5
<1>11. ASSUME NEW p \in Processes, OtherRegisters(p) \/ OtherInstalls(p) PROVE Types'
  <2>1. ProcessTypes
    BY <1>11 DEF OtherRegisters, OtherInstalls, ProcessTypes, Types, TypeOK
  <2>2. ClientTypes /\ ConnectionTypes
    BY <1>4, <1>5, <1>11 DEF OtherRegisters, OtherInstalls
  <2> QED
    BY <1>1, <2>1, <2>2
<1>12. ASSUME NEW p \in Processes, RecordBegins(p) PROVE Types'
  <2>1. ClientTypes
    BY <1>2, <1>12, RecordBeginsDoes DEF Becomes, RecordBegins, ClientTypes, Types, TypeOK, drainVars, eventVars
  <2> QED
    BY <1>1, <1>3, <1>4, <1>6, <1>12, <2>1 DEF RecordBegins
<1>13. ASSUME NEW p \in Processes, RecordEnds(p) PROVE Types'
  <2>1. PICK e \in Events :
           /\ unrecorded' = unrecorded \ {e}
           /\ client' \in [Processes -> ClientState]
           /\ promised' = IF client[p].state = "open"
                          THEN [promised EXCEPT ![p] = @ \cup {e}] ELSE promised
    BY <1>2, <1>13, RecordEndsDoes DEF Becomes
  <2>2. ClientTypes
    BY <1>13, <2>1 DEF RecordEnds, ClientTypes, Types, TypeOK, drainVars, eventVars
  <2> QED
    BY <1>1, <1>3, <1>4, <1>6, <1>13, <2>2 DEF RecordEnds
<1>15. ASSUME NEW p \in Processes, NEW b \in Batch, Request(p, b), Works(p), UNCHANGED status
       PROVE  ConnectionTypes
  <2>3. PICK s \in Nat \ {0} : Requested(p, b, s)
    BY <1>2, <1>15, RequestDoes
  <2>4. sockets' \in Seq(Socket) /\ Len(sockets) <= Len(sockets') /\ s \in 1..Len(sockets')
    BY <1>2, <2>3 DEF Requested, OneSocket
  <2>5. connection' \in [Processes -> 0..Len(sockets')]
    <3>1. Len(sockets') \in Nat
      BY <2>4, LenProperties
    <3> QED
      BY <1>2, <2>3, <2>4, <3>1 DEF Requested, Wired
  <2>6. waiting' \in [Processes -> Batch \cup {NoRequest}]
    BY <1>2, <2>3 DEF Requested, Wired
  <2>7. \A q \in Processes : Waits(q)' => connection'[q] # 0 /\ status'[q] # "none"
    <3>1. status' = status /\ status[p] # "none"
      BY <1>15 DEF Works, Alive
    <3>2. connection'[p] # 0 /\ \A q \in Processes \ {p} : connection'[q] = connection[q]
      BY <1>2, <2>3 DEF Requested, Wired
    <3>3. \A q \in Processes \ {p} : waiting'[q] = waiting[q]
      BY <1>2, <2>3 DEF Requested, Wired
    <3> QED
      BY <3>1, <3>2, <3>3 DEF Types, Waits
  <2> QED
    BY <1>15, <2>4, <2>5, <2>6, <2>7 DEF Request, ConnectionTypes, Types, TypeOK
<1>16. ASSUME NEW p \in Processes, NEW accepted \in BOOLEAN, Receive(p, accepted), UNCHANGED status
       PROVE  ConnectionTypes
  <2>1. connection[p] # 0
    BY <1>16 DEF Types, Receive, HasAnswer
  <2>2. Received(p, accepted)
    BY <1>2, <1>16, <2>1, ReceiveDoes
  <2>3. sockets' \in Seq(Socket) /\ Len(sockets') = Len(sockets) /\ connection' = connection
    BY <2>2 DEF Received, OneSocket
  <2>4. waiting' \in [Processes -> Batch \cup {NoRequest}]
        /\ \A q \in Processes : Waits(q)' => Waits(q)
    BY <1>2, <2>2 DEF Received, Wired, Waits
  <2> QED
    BY <1>16, <2>3, <2>4 DEF Receive, ConnectionTypes, Types, TypeOK
<1>17. ASSUME NEW p \in Processes, DropConnection(p), UNCHANGED <<status, outcomes, stored>>,
              waiting' = [waiting EXCEPT ![p] = NoRequest] \/ (UNCHANGED waiting /\ ~Waits(p))
       PROVE  ConnectionTypes
  <2>1. Dropped(p)
    BY <1>2, <1>17, DropDoes
  <2>2. sockets' \in Seq(Socket) /\ Len(sockets') = Len(sockets)
    BY <1>2, <2>1 DEF Dropped, OneSocket, Wired
  <2>3. /\ connection' \in [Processes -> 0..Len(sockets')]
        /\ \A q \in Processes \ {p} : connection'[q] = connection[q]
    BY <1>2, <2>1, <2>2 DEF Dropped, Wired
  <2>4. /\ waiting' \in [Processes -> Batch \cup {NoRequest}]
        /\ ~Waits(p)' /\ \A q \in Processes \ {p} : waiting'[q] = waiting[q]
    BY <1>2, <1>17 DEF Wired, Waits
  <2> QED
    BY <1>17, <2>2, <2>3, <2>4 DEF ConnectionTypes, Types, TypeOK, Waits
<1>a. ASSUME NEW p \in Processes, Restate(p), UNCHANGED status
       PROVE  ConnectionTypes
  <2>1. connection[p] # 0
    BY <1>a DEF Types, Restate, HasAnswer
  <2>2. Restated(p)
    BY <1>2, <1>a, <2>1, RestateDoes
  <2>3. sockets' \in Seq(Socket) /\ Len(sockets') = Len(sockets) /\ connection' = connection
        /\ waiting' = waiting
    BY <2>2 DEF Restated, OneSocket
  <2> QED
    BY <1>a, <2>3 DEF Restate, ConnectionTypes, Types, TypeOK, Waits
<1>18. ASSUME NEW p \in Processes, WorkerStep(p) PROVE Types'
  <2>1. client' \in [Processes -> ClientState]
    BY <1>2, <1>18, WorkerDoes DEF Becomes, Flushed, Settled, TypeOK
  <2>2. Works(p) /\ UNCHANGED <<processVars, sessions, unrecorded, promised>>
    BY <1>2, <1>18, WorkerDoes
  <2>3. UNCHANGED status /\ ProcessTypes
    BY <1>3, <1>6, <2>2
  <2>4. client[p].held \in SUBSET Batch /\ NewBatch(p) \in Batch
    BY <1>2, NewBatchIs, FieldTypes DEF TypeOK
  <2>5. ConnectionTypes
    <3>1. CASE UNCHANGED connectionVars
      BY <1>4, <2>3, <3>1
    <3>2. CASE FlushSends(p)
      BY <1>15, <2>2, <2>3, <2>4, <3>2 DEF FlushSends
    <3>3. CASE Replay(p)
      BY <1>15, <2>2, <2>3, <2>4, <3>3 DEF Replay
    <3>4. CASE Delivered(p) \/ StopIngest(p)
      BY <1>16, <2>3, <3>4 DEF Delivered, StopIngest
    <3>5. CASE NotDelivered(p)
      BY <1>16, <1>17, <2>3, <3>5 DEF NotDelivered, Fail
    <3>6. CASE SendRestated(p)
      BY <1>a, <2>3, <3>6 DEF SendRestated
    <3> QED
      BY <1>18, <3>1, <3>2, <3>3, <3>4, <3>5, <3>6
      DEF WorkerStep, FlushBuffers, FlushDiscards, Prune, DrainBegins, QueueDrained, MovesTo,
          WorkerEnds
  <2>6. reported' \subseteq Events /\ confirmed' \subseteq Events
    <3>1. reported \subseteq Events /\ confirmed \subseteq Events
      BY <1>2 DEF TypeOK
    <3>2. CASE UNCHANGED <<reported, confirmed>>
      BY <3>1, <3>2
    <3>3. CASE FlushBuffers(p)
      <4>1. PICK gone \in SUBSET Batch : reported' = reported \cup EventsOf(gone)
        BY <2>4, <3>3 DEF FlushBuffers
      <4> QED
        BY <3>1, <3>3, <4>1, EventsTyped DEF FlushBuffers
    <3>4. CASE Prune(p)
      <4>1. PICK b \in Batch : reported' = reported \cup b.events
        BY <2>4, <3>4 DEF Prune
      <4> QED
        BY <3>1, <3>4, <4>1 DEF Prune, Batch
    <3>5. CASE Delivered(p)
      <4>1. NextAnswer(p).lost \subseteq Events /\ waiting[p].events \subseteq Events
        BY <3>5, AnswerTyped DEF Delivered, Receive, Answer, Batch
      <4> QED
        BY <3>1, <3>5, <4>1 DEF Delivered
    <3>6. CASE NotDelivered(p)
      <4>1. PICK gone \in SUBSET Batch : reported' = reported \cup EventsOf(gone)
        BY <2>4, <3>6 DEF NotDelivered
      <4> QED
        BY <3>1, <3>6, <4>1, EventsTyped DEF NotDelivered
    <3> QED
      BY <1>18, <3>2, <3>3, <3>4, <3>5, <3>6
      DEF WorkerStep, FlushSends, FlushDiscards, Replay, StopIngest, SendRestated, DrainBegins,
          QueueDrained, MovesTo, WorkerEnds, clientVars, eventVars
  <2>7. late' \subseteq Processes /\ stopped' \subseteq Processes
    <3>1. late' = late /\ (stopped' = stopped \/ stopped' = stopped \cup {p})
      BY <1>18 DEF WorkerStep, FlushSends, FlushBuffers, FlushDiscards, Replay, Prune, Delivered,
                   NotDelivered, StopIngest, SendRestated, DrainBegins, QueueDrained, MovesTo,
                   WorkerEnds, clientVars, drainVars
    <3> QED
      BY <1>2, <3>1 DEF TypeOK
  <2>8. phase' \in [Processes -> {"tick", "drain", "replay", "over"}]
    <3>1. phase' = phase \/ \E place \in {"tick", "drain", "replay", "over"} :
                                phase' = [phase EXCEPT ![p] = place]
      <4>1. CASE NotDelivered(p) \/ StopIngest(p)
        BY <1>2, <4>1 DEF NotDelivered, StopIngest, AfterFailure, TypeOK
      <4>2. CASE DrainBegins(p) \/ QueueDrained(p)
        BY <4>2 DEF DrainBegins, QueueDrained, MovesTo
      <4> QED
        BY <1>18, <4>1, <4>2
        DEF WorkerStep, FlushSends, FlushBuffers, FlushDiscards, Replay, Prune, Delivered,
            SendRestated, WorkerEnds, clientVars, drainVars
    <3> QED
      BY <1>2, <3>1 DEF TypeOK
  <2>9. ClientTypes
    BY <2>1, <2>2, <2>6, <2>7, <2>8 DEF ClientTypes, Types, TypeOK
  <2> QED
    BY <1>1, <2>3, <2>5, <2>9
<1>20. ASSUME NEW p \in Processes, Close(p) PROVE Types'
  <2>1. "closing" \in States
    BY DEF States, InUse
  <2>2. client' \in [Processes -> ClientState]
    BY <1>2, <1>20, <2>1, StateDoes DEF Becomes, Close
  <2>3. ClientTypes
    BY <1>20, <2>2 DEF Close, ClientTypes, Types, TypeOK, drainVars, eventVars
  <2> QED
    BY <1>1, <1>3, <1>4, <1>6, <1>20, <2>3 DEF Close
<1>21. ASSUME NEW p \in Processes, CloseReturns(p) \/ CloseOutOfTime(p) PROVE Types'
  <2>1. Joins(p) /\ (late' = late \/ late' = late \cup {p})
    BY <1>21 DEF CloseReturns, CloseOutOfTime
  <2>2. client' \in [Processes -> ClientState]
    BY <1>2, <2>1, JoinsDoes DEF Becomes
  <2>3. ClientTypes
    BY <2>1, <2>2 DEF Joins, ClientTypes, Types, TypeOK, eventVars
  <2>4. ConnectionTypes
    BY <1>6, <1>17, <2>1 DEF Joins, CloseTransport
  <2> QED
    BY <1>1, <1>3, <2>1, <2>3, <2>4 DEF Joins
<1>22. ASSUME NEW p \in Processes, CloseTimesOut(p) PROVE Types'
  <2>1. "closed" \in States
    BY DEF States, InUse
  <2>2. client' \in [Processes -> ClientState]
    BY <1>2, <1>22, <2>1, StateDoes DEF Becomes, CloseTimesOut
  <2>3. ClientTypes
    BY <1>22, <2>2 DEF CloseTimesOut, ClientTypes, Types, TypeOK, eventVars
  <2> QED
    BY <1>1, <1>3, <1>4, <1>6, <1>22, <2>3 DEF CloseTimesOut
<1>24. ASSUME NEW p \in Processes, NEW q \in Processes, Fork(p, q) PROVE Types'
  <2>1. ProcessTypes
    BY <1>24 DEF Fork, ProcessTypes, Types, TypeOK
  <2>2. client' \in [Processes -> ClientState]
    BY <1>2, <1>24, ForkDoes
  <2>3. ClientTypes
    BY <1>24, <2>2 DEF Fork, ClientTypes, Types, TypeOK, drainVars, eventVars
  <2>4. connection' \in [Processes -> 0..Len(sockets)] /\ sockets' = sockets
        /\ \A r \in Processes \ {q} : connection'[r] = connection[r]
    BY <1>2, <1>24 DEF Fork, ForkConnection, Wired
  <2>5. ~Waits(q)
    BY <1>24 DEF Types, Fork
  <2>6. \A r \in Processes : status[r] # "none" => status'[r] # "none"
    BY <1>2, <1>24 DEF Fork, TypeOK
  <2>7. ConnectionTypes
    BY <1>24, <2>4, <2>5, <2>6 DEF Fork, ConnectionTypes, Types, TypeOK, Waits
  <2> QED
    BY <1>1, <2>1, <2>3, <2>7
<1>25. ASSUME NEW p \in Processes, ExitBegins(p) PROVE Types'
  <2>1. ProcessTypes /\ \A r \in Processes : status[r] # "none" => status'[r] # "none"
    BY <1>25 DEF ExitBegins, ProcessTypes, Types, TypeOK
  <2>2. ConnectionTypes
    BY <1>25, <2>1, ConnectionStays DEF ExitBegins, ConnectionTypes
  <2>3. client' \in [Processes -> ClientState]
    BY <1>2, <1>25, ExitBeginsDoes DEF Becomes, TypeOK
  <2>4. ClientTypes
    BY <1>25, <2>3 DEF ExitBegins, ClientTypes, Types, TypeOK, drainVars, eventVars
  <2> QED
    BY <1>1, <2>1, <2>2, <2>4
<1>26. ASSUME NEW p \in Processes, Exit(p) PROVE Types'
  <2>1. ProcessTypes /\ \A r \in Processes : status[r] # "none" => status'[r] # "none"
    BY <1>26 DEF Exit, ProcessTypes, Types, TypeOK
  <2>2. client' \in [Processes -> ClientState]
    BY <1>2, <1>26, ExitDoes
  <2>3. ClientTypes
    BY <1>26, <2>2 DEF Exit, ClientTypes, Types, TypeOK, drainVars, eventVars
  <2>4. sockets' = sockets /\ connection' \in [Processes -> 0..Len(sockets)]
        /\ waiting' \in [Processes -> Batch \cup {NoRequest}]
    BY <1>2, <1>26 DEF Exit, Wired
  <2>5. \A r \in Processes : Waits(r)' => Waits(r) /\ connection'[r] = connection[r]
    BY <1>2, <1>26 DEF Exit, Wired, Waits
  <2>6. ConnectionTypes
    BY <1>26, <2>1, <2>4, <2>5 DEF Exit, ConnectionTypes, Types, TypeOK
  <2> QED
    BY <1>1, <2>1, <2>3, <2>6
<1>27. ASSUME NEW s \in DOMAIN sockets, EndpointStep(s) PROVE Types'
  <2>1. PICK accepted \in BOOLEAN, lost \in SUBSET Events : Pending(s) /\ Answers(s, accepted, lost)
    BY <1>2, <1>27, EndpointAnswers
  <2>2. AnsweredOn(s, accepted, lost)
    BY <1>2, <1>27, <2>1, AnswersDoes
  <2>3. sockets' \in Seq(Socket) /\ Len(sockets') = Len(sockets) /\ connection' = connection
        /\ waiting' = waiting
    BY <2>2 DEF AnsweredOn, OneSocket
  <2>4. PICK request \in Batch : request = Head(sockets[s].requests)
    BY <1>27, <2>1, PendingTyped
  <2>5. outcomes' \subseteq Outcome /\ stored' \in [Events -> Nat]
    <3>1. CASE UNCHANGED <<outcomes, stored>>
      BY <3>1 DEF Types, TypeOK
    <3>2. CASE Store(s)
      <4>1. PICK gone \in SUBSET request.events :
               /\ outcomes' = outcomes \cup {[id |-> request.id, lost |-> gone]}
               /\ stored' = [e \in DOMAIN stored |->
                     IF e \in request.events \ gone THEN stored[e] + 1 ELSE stored[e]]
        BY <2>4, <3>2 DEF Store
      <4>2. [id |-> request.id, lost |-> gone] \in Outcome
        BY DEF Batch, Outcome
      <4>3. stored' \in [Events -> Nat]
        BY <4>1 DEF Types, TypeOK
      <4> QED
        BY <4>1, <4>2, <4>3 DEF Types
    <3> QED
      BY <1>27, <3>1, <3>2 DEF EndpointStep, Recall, Refuse
  <2>6. UNCHANGED <<processVars, clientVars>>
    BY <1>27 DEF EndpointStep
  <2>7. ConnectionTypes
    BY <1>6, <2>3, <2>5, <2>6 DEF ConnectionTypes, Types, TypeOK, Waits
  <2> QED
    BY <1>1, <1>3, <1>5, <2>6, <2>7
<1> QED
  BY <1>7, <1>8, <1>9, <1>10, <1>11, <1>12, <1>13, <1>18, <1>20, <1>21,
     <1>22, <1>24, <1>25, <1>26, <1>27 DEF Next

\* Every variable has the type its Python counterpart has, whatever the processes,
\* forks and events.
THEOREM TypeCorrect == Spec => []TypeOK
<1>1. Init => Types
  BY InitTypes
<1>2. Types /\ [Next]_vars => Types'
  BY NextTypes
<1>3. Types => TypeOK
  BY DEF Types
<1> QED
  BY <1>1, <1>2, <1>3, PTL DEF Spec

-----------------------------------------------------------------------------
(***************************************************************************)
(* Processes and their clients.                                            *)
(***************************************************************************)
\* Nothing of a process that its invariant speaks of changes.
Unmoved(r) ==
    /\ status'[r] = status[r] /\ registry'[r] = registry[r] /\ installed'[r] = installed[r]
    /\ handlers'[r] = handlers[r] /\ client'[r] = client[r]
    /\ (r \in other') = (r \in other) /\ (r \in bare') = (r \in bare)
    /\ sessions' \in Nat /\ sessions <= sessions'

LEMMA UnmovedProper ==
    ASSUME Types, NEW r \in Processes, Proper(r), Unmoved(r)
    PROVE  Proper(r)'
<1>1. client[r].session \in Nat /\ sessions \in Nat
  BY FieldTypes DEF Types, TypeOK
<1>2. Made(r)'
  BY <1>1 DEF Unmoved, Proper, Made
<1>3. Bare(r)'
  BY DEF Unmoved, Proper, Bare
<1>4. Healthy(r)'
  BY DEF Unmoved, Proper, Healthy
<1> QED
  BY <1>2, <1>3, <1>4 DEF Proper

\* No client takes a session, a worker, or a state it had closed.
Calm ==
    /\ bare' = bare
    /\ \A r \in Processes :
          /\ client'[r].session = client[r].session
          /\ client'[r].worker => client[r].worker
          /\ client[r].state = "closed" => client'[r].state = "closed"

LEMMA CalmSessions ==
    ASSUME \A p, q \in Processes : OwnSession(p, q), Calm
    PROVE  \A p, q \in Processes : OwnSession(p, q)'
BY DEF Calm, OwnSession

\* A client that another process does not have.
LEMMA FreshSession ==
    ASSUME Types, ProcessesInv, NEW q \in Processes,
           bare \subseteq bare', \A r \in Processes : r \in bare' => r \in bare \/ r = q,
           client'[q].session = 0 \/ client'[q].session > sessions,
           \A r \in Processes \ {q} : client'[r] = client[r]
    PROVE  \A p, r \in Processes : OwnSession(p, r)'
<1>1. \A r \in Processes : client[r].session <= sessions /\ client[r].session \in Nat
  BY FieldTypes DEF ProcessesInv, Proper, Made, Types, TypeOK
<1>2. sessions \in Nat
  BY DEF Types, TypeOK
<1>3. ASSUME NEW p \in Processes \ {q}, NEW r \in Processes \ {q}
      PROVE  OwnSession(p, r)'
  BY <1>3 DEF ProcessesInv, OwnSession
<1>4. ASSUME NEW p \in Processes \ {q}
      PROVE  OwnSession(p, q)' /\ OwnSession(q, p)'
  <2>1. client'[p].session <= sessions /\ client'[p].session \in Nat
    BY <1>1
  <2>2. client'[p].session # client'[q].session \/ client'[q].session = 0
    BY <1>2, <2>1
  <2> QED
    BY <2>2 DEF OwnSession
<1>5. OwnSession(q, q)'
  BY DEF OwnSession
<1> QED
  BY <1>3, <1>4, <1>5

LEMMA InitProcesses ==
    ASSUME Init
    PROVE  ProcessesInv
<1>1. ASSUME NEW p \in Processes PROVE client[p] = Absent /\ client[p].session = 0
  BY AbsentIs DEF Init, Fields
<1>2. ASSUME NEW p \in Processes PROVE Proper(p)
  BY <1>1, AbsentIs DEF Init, Fields, Proper, Made, Bare, Healthy
<1> QED
  BY <1>1, <1>2 DEF ProcessesInv, OwnSession

LEMMA NextProcesses ==
    ASSUME Types, Types', ProcessesInv, [Next]_vars
    PROVE  ProcessesInv'
<1>1. TypeOK /\ sessions \in Nat
  BY DEF Types, TypeOK
<1>2. ASSUME NEW p \in Processes, Proper(p)', \A r \in Processes \ {p} : Unmoved(r),
             \A r, q \in Processes : OwnSession(r, q)'
      PROVE  ProcessesInv'
  <2>1. \A r \in Processes \ {p} : Proper(r)'
    BY <1>2, UnmovedProper DEF ProcessesInv
  <2> QED
    BY <1>2, <2>1 DEF ProcessesInv
<1>3. ASSUME NEW p \in Processes, Proper(p)', \A r \in Processes \ {p} : Unmoved(r), Calm
      PROVE  ProcessesInv'
  BY <1>2, <1>3, CalmSessions DEF ProcessesInv
<1>4. ASSUME UNCHANGED <<processVars, client, sessions>>
      PROVE  ProcessesInv'
  <2>1. \A r \in Processes : Unmoved(r)
    BY <1>1, <1>4 DEF Unmoved, processVars
  <2>2. Calm
    BY <1>4 DEF Calm, processVars
  <2> QED
    BY <2>1, <2>2, UnmovedProper, CalmSessions DEF ProcessesInv
<1>5. ASSUME NEW p \in Processes, Create(p) PROVE ProcessesInv'
  <2>1. Proper(p) /\ client[p] \in ClientState
    BY <1>1 DEF ProcessesInv, TypeOK
  <2>3. /\ Fields(client'[p], "registering", TRUE, client[p].lock, client[p].queue,
                client[p].held, sessions + 1, client[p].seq)
        /\ \A r \in Processes \ {p} : client'[r] = client[r]
    BY <1>1, <1>5, CreateDoes DEF Becomes
  <2>4. Proper(p)'
    <3>1. Made(p)'
      BY <1>1, <1>5, <2>1, <2>3, FieldTypes, AbsentIs
      DEF Create, Running, Proper, Made, Fields, Unmade, Types, TypeOK
    <3>2. Bare(p)'
      BY <1>5, <2>1, <2>3
      DEF Create, Running, Proper, Made, Bare, Fields, Types, TypeOK
    <3>3. Healthy(p)'
      BY <1>5, <2>1, <2>3
      DEF Create, Running, Proper, Made, Healthy, Fields, Types, TypeOK
    <3> QED
      BY <3>1, <3>2, <3>3 DEF Proper
  <2>5. \A r \in Processes \ {p} : Unmoved(r)
    BY <1>1, <1>5, <2>3 DEF Create, Running, Unmoved, Types, TypeOK
  <2>6. client'[p].session > sessions /\ bare' = bare
    BY <1>1, <1>5, <2>3 DEF Create, Fields
  <2>7. \A r, q \in Processes : OwnSession(r, q)'
    BY <2>3, <2>6, FreshSession
  <2> QED
    BY <1>2, <2>4, <2>5, <2>7
<1>6. ASSUME NEW p \in Processes, Register(p) PROVE ProcessesInv'
  <2>1. Proper(p) /\ client[p] \in ClientState
    BY <1>1 DEF ProcessesInv, TypeOK
  <2>2. PICK state \in States : state = IF installed[p] THEN "open" ELSE "installing"
    BY DEF States, InUse, Unmade
  <2>3. /\ Fields(client'[p], IF installed[p] THEN "open" ELSE "installing", client[p].worker, client[p].lock, client[p].queue,
                client[p].held, client[p].session, client[p].seq)
        /\ \A r \in Processes \ {p} : client'[r] = client[r]
    BY <1>1, <1>6, <2>2, StateDoes DEF Becomes, Register
  <2>4. Proper(p)'
    <3>1. Made(p)'
      BY <1>1, <1>6, <2>1, <2>3, FieldTypes, AbsentIs
      DEF Register, Alive, Proper, Made, Fields, Unmade, Types, TypeOK
    <3>2. Bare(p)'
      BY <1>6, <2>1, <2>3
      DEF Register, Alive, Proper, Made, Bare, Fields, Types, TypeOK
    <3>3. Healthy(p)'
      BY <1>6, <2>1, <2>3
      DEF Register, Alive, Proper, Made, Healthy, Fields, Types, TypeOK
    <3> QED
      BY <3>1, <3>2, <3>3 DEF Proper
  <2>5. \A r \in Processes \ {p} : Unmoved(r)
    BY <1>1, <1>6, <2>3 DEF Register, Alive, Unmoved, Types, TypeOK
  <2>6. Calm
    BY <1>6, <2>1, <2>3 DEF Register, Alive, Fields, Calm
  <2> QED
    BY <1>3, <2>4, <2>5, <2>6
<1>7. ASSUME NEW p \in Processes, InstallHandlers(p) PROVE ProcessesInv'
  <2>1. Proper(p) /\ client[p] \in ClientState
    BY <1>1 DEF ProcessesInv, TypeOK
  <2>2. "open" \in States
    BY DEF States, InUse
  <2>3. /\ Fields(client'[p], "open", client[p].worker, client[p].lock, client[p].queue,
                client[p].held, client[p].session, client[p].seq)
        /\ \A r \in Processes \ {p} : client'[r] = client[r]
    BY <1>1, <1>7, <2>2, StateDoes DEF Becomes, InstallHandlers
  <2>4. Proper(p)'
    <3>1. Made(p)'
      BY <1>1, <1>7, <2>1, <2>3, FieldTypes, AbsentIs
      DEF InstallHandlers, Alive, Proper, Made, Fields, Unmade, Types, TypeOK
    <3>2. Bare(p)'
      BY <1>7, <2>1, <2>3
      DEF InstallHandlers, Alive, Proper, Made, Bare, Fields, Types, TypeOK
    <3>3. Healthy(p)'
      BY <1>7, <2>1, <2>3
      DEF InstallHandlers, Alive, Proper, Made, Healthy, Fields, Types, TypeOK
    <3> QED
      BY <3>1, <3>2, <3>3 DEF Proper
  <2>5. \A r \in Processes \ {p} : Unmoved(r)
    BY <1>1, <1>7, <2>3 DEF InstallHandlers, Alive, Unmoved, Types, TypeOK
  <2>6. Calm
    BY <1>7, <2>1, <2>3 DEF InstallHandlers, Alive, Fields, Calm
  <2> QED
    BY <1>3, <2>4, <2>5, <2>6
<1>8. ASSUME NEW p \in Processes, OtherRegisters(p) \/ OtherInstalls(p) PROVE ProcessesInv'
  <2>1. Proper(p) /\ client[p] \in ClientState /\ client' = client /\ sessions' = sessions
    BY <1>1, <1>8 DEF ProcessesInv, TypeOK, OtherRegisters, OtherInstalls, clientVars
  <2>2. Proper(p)'
    <3>1. Made(p)'
      BY <1>8, <2>1 DEF OtherRegisters, OtherInstalls, Running, Alive, Proper, Made, Types, TypeOK
    <3>2. Bare(p)'
      BY <1>8, <2>1 DEF OtherRegisters, OtherInstalls, Proper, Bare, Types, TypeOK
    <3>3. Healthy(p)'
      BY <1>8, <2>1 DEF OtherRegisters, OtherInstalls, Proper, Healthy
    <3> QED
      BY <3>1, <3>2, <3>3 DEF Proper
  <2>3. \A r \in Processes \ {p} : Unmoved(r)
    BY <1>1, <1>8, <2>1 DEF OtherRegisters, OtherInstalls, Unmoved, Types, TypeOK
  <2>4. Calm
    BY <1>8, <2>1 DEF OtherRegisters, OtherInstalls, Calm
  <2> QED
    BY <1>3, <2>2, <2>3, <2>4
<1>9. ASSUME NEW p \in Processes, RecordBegins(p) PROVE ProcessesInv'
  <2>1. Proper(p) /\ client[p] \in ClientState
    BY <1>1 DEF ProcessesInv, TypeOK
  <2>3. /\ Fields(client'[p], client[p].state, client[p].worker, "held", client[p].queue,
                client[p].held, client[p].session, client[p].seq)
        /\ \A r \in Processes \ {p} : client'[r] = client[r]
    BY <1>1, <1>9, RecordBeginsDoes DEF Becomes
  <2>4. Proper(p)'
    <3>1. Made(p)'
      BY <1>1, <1>9, <2>1, <2>3, FieldTypes, AbsentIs
      DEF RecordBegins, Running, processVars, Proper, Made, Fields, Unmade, Types, TypeOK
    <3>2. Bare(p)'
      BY <1>9, <2>1, <2>3
      DEF RecordBegins, Running, processVars, Proper, Made, Bare, Fields, Types, TypeOK
    <3>3. Healthy(p)'
      BY <1>9, <2>1, <2>3
      DEF RecordBegins, Running, processVars, Proper, Made, Healthy, Fields, Types, TypeOK
    <3> QED
      BY <3>1, <3>2, <3>3 DEF Proper
  <2>5. \A r \in Processes \ {p} : Unmoved(r)
    BY <1>1, <1>9, <2>3 DEF RecordBegins, Running, processVars, Unmoved, Types, TypeOK
  <2>6. Calm
    BY <1>9, <2>1, <2>3 DEF RecordBegins, Running, processVars, Fields, Calm
  <2> QED
    BY <1>3, <2>4, <2>5, <2>6
<1>10. ASSUME NEW p \in Processes, RecordEnds(p) PROVE ProcessesInv'
  <2>1. Proper(p) /\ client[p] \in ClientState
    BY <1>1 DEF ProcessesInv, TypeOK
  <2>3. /\ \E queue : Fields(client'[p], client[p].state, client[p].worker, "free", queue,
                          client[p].held, client[p].session, client[p].seq)
        /\ \A r \in Processes \ {p} : client'[r] = client[r]
    BY <1>1, <1>10, RecordEndsDoes DEF Becomes
  <2>4. Proper(p)'
    <3>1. Made(p)'
      BY <1>1, <1>10, <2>1, <2>3, FieldTypes, AbsentIs
      DEF RecordEnds, Alive, processVars, Proper, Made, Fields, Unmade, Types, TypeOK
    <3>2. Bare(p)'
      BY <1>10, <2>1, <2>3
      DEF RecordEnds, Alive, processVars, Proper, Made, Bare, Fields, Types, TypeOK
    <3>3. Healthy(p)'
      BY <1>10, <2>1, <2>3
      DEF RecordEnds, Alive, processVars, Proper, Made, Healthy, Fields, Types, TypeOK
    <3> QED
      BY <3>1, <3>2, <3>3 DEF Proper
  <2>5. \A r \in Processes \ {p} : Unmoved(r)
    BY <1>1, <1>10, <2>3 DEF RecordEnds, Alive, processVars, Unmoved, Types, TypeOK
  <2>6. Calm
    BY <1>10, <2>1, <2>3 DEF RecordEnds, Alive, processVars, Fields, Calm
  <2> QED
    BY <1>3, <2>4, <2>5, <2>6
<1>11. ASSUME NEW p \in Processes, Works(p), UNCHANGED <<processVars, sessions>>,
             NEW queue, NEW held, NEW seq,
             Fields(client'[p], client[p].state, client[p].worker, client[p].lock, queue, held,
                    client[p].session, seq),
             client[p].queue # {} \/ (queue = client[p].queue /\ held \subseteq client[p].held),
             \A r \in Processes \ {p} : client'[r] = client[r]
       PROVE  ProcessesInv'
  <2>1. Proper(p) /\ client[p] \in ClientState
    BY <1>1 DEF ProcessesInv, TypeOK
  <2>2. client[p].worker /\ client[p].state # "absent" /\ Alive(p)
    BY <1>11, <2>1, AbsentIs DEF Works, Proper, Made, Fields
  <2>3. client[p].state \in Unmade => queue = {} /\ held = {}
    BY <1>11, <2>1 DEF Proper, Made
  <2>4. Proper(p)'
    <3>1. Made(p)'
      BY <1>1, <1>11, <2>1, <2>2, <2>3 DEF Alive, processVars, Proper, Made, Fields
    <3>2. Bare(p)'
      BY <1>11, <2>1 DEF processVars, Proper, Bare, Fields
    <3>3. Healthy(p)'
      BY <1>11, <2>1 DEF processVars, Proper, Healthy, Fields
    <3> QED
      BY <3>1, <3>2, <3>3 DEF Proper
  <2>5. \A r \in Processes \ {p} : Unmoved(r)
    BY <1>1, <1>11 DEF processVars, Unmoved
  <2>6. Calm
    BY <1>11 DEF processVars, Fields, Calm
  <2> QED
    BY <1>3, <2>4, <2>5, <2>6
<1>12. ASSUME NEW p \in Processes, WorkerStep(p), ~WorkerEnds(p) PROVE ProcessesInv'
  <2>1. Works(p) /\ UNCHANGED <<processVars, sessions>>
    BY <1>1, <1>12, WorkerDoes
  <2>2. CASE UNCHANGED client
    BY <1>4, <2>1, <2>2
  <2>3. ASSUME NEW held, Flushes(p), Flushed(p, held) PROVE ProcessesInv'
    <3>1. client[p].queue # {}
      BY <2>3 DEF Flushes, FlushSends, FlushBuffers, FlushDiscards, MayFlush
    <3> QED
      BY <1>11, <2>1, <2>3, <3>1 DEF Flushed, Becomes
  <2>4. ASSUME NEW held \in SUBSET client[p].held, Settled(p, held) PROVE ProcessesInv'
    BY <1>11, <2>1, <2>4 DEF Settled, Becomes
  <2> QED
    BY <1>1, <1>12, <2>2, <2>3, <2>4, WorkerDoes
<1>14. ASSUME NEW p \in Processes, Close(p) PROVE ProcessesInv'
  <2>1. Proper(p) /\ client[p] \in ClientState
    BY <1>1 DEF ProcessesInv, TypeOK
  <2>2. "closing" \in States
    BY DEF States, InUse
  <2>3. /\ Fields(client'[p], "closing", client[p].worker, client[p].lock, client[p].queue,
                client[p].held, client[p].session, client[p].seq)
        /\ \A r \in Processes \ {p} : client'[r] = client[r]
    BY <1>1, <1>14, <2>2, StateDoes DEF Becomes, Close
  <2>4. Proper(p)'
    <3>1. Made(p)'
      BY <1>1, <1>14, <2>1, <2>3, FieldTypes, AbsentIs
      DEF Close, Running, processVars, Proper, Made, Fields, Unmade, Types, TypeOK
    <3>2. Bare(p)'
      BY <1>14, <2>1, <2>3
      DEF Close, Running, processVars, Proper, Made, Bare, Fields, Types, TypeOK
    <3>3. Healthy(p)'
      BY <1>14, <2>1, <2>3
      DEF Close, Running, processVars, Proper, Made, Healthy, Fields, Types, TypeOK
    <3> QED
      BY <3>1, <3>2, <3>3 DEF Proper
  <2>5. \A r \in Processes \ {p} : Unmoved(r)
    BY <1>1, <1>14, <2>3 DEF Close, Running, processVars, Unmoved, Types, TypeOK
  <2>6. Calm
    BY <1>14, <2>1, <2>3 DEF Close, Running, processVars, Fields, Calm
  <2> QED
    BY <1>3, <2>4, <2>5, <2>6
<1>15. ASSUME NEW p \in Processes, CloseReturns(p) \/ CloseOutOfTime(p) PROVE ProcessesInv'
  <2>0. Joins(p)
    BY <1>15 DEF CloseReturns, CloseOutOfTime
  <2>1. Proper(p) /\ client[p] \in ClientState
    BY <1>1 DEF ProcessesInv, TypeOK
  <2>3. /\ Fields(client'[p], "closed", FALSE, client[p].lock, client[p].queue,
                client[p].held, client[p].session, client[p].seq)
        /\ \A r \in Processes \ {p} : client'[r] = client[r]
    BY <1>1, <2>0, JoinsDoes DEF Becomes
  <2>4. Proper(p)'
    <3>1. Made(p)'
      BY <1>1, <2>0, <2>1, <2>3, FieldTypes, AbsentIs
      DEF Joins, Alive, processVars, Proper, Made, Fields, Unmade, Types, TypeOK
    <3>2. Bare(p)'
      BY <2>0, <2>1, <2>3
      DEF Joins, Alive, processVars, Proper, Made, Bare, Fields, Types, TypeOK
    <3>3. Healthy(p)'
      BY <2>0, <2>1, <2>3
      DEF Joins, Alive, processVars, Proper, Made, Healthy, Fields, Types, TypeOK
    <3> QED
      BY <3>1, <3>2, <3>3 DEF Proper
  <2>5. \A r \in Processes \ {p} : Unmoved(r)
    BY <1>1, <2>0, <2>3 DEF Joins, Alive, processVars, Unmoved, Types, TypeOK
  <2>6. Calm
    BY <2>0, <2>1, <2>3 DEF Joins, Alive, processVars, Fields, Calm
  <2> QED
    BY <1>3, <2>4, <2>5, <2>6
<1>16. ASSUME NEW p \in Processes, CloseTimesOut(p) PROVE ProcessesInv'
  <2>1. Proper(p) /\ client[p] \in ClientState
    BY <1>1 DEF ProcessesInv, TypeOK
  <2>2. "closed" \in States
    BY DEF States, InUse
  <2>3. /\ Fields(client'[p], "closed", client[p].worker, client[p].lock, client[p].queue,
                client[p].held, client[p].session, client[p].seq)
        /\ \A r \in Processes \ {p} : client'[r] = client[r]
    BY <1>1, <1>16, <2>2, StateDoes DEF Becomes, CloseTimesOut
  <2>4. Proper(p)'
    <3>1. Made(p)'
      BY <1>1, <1>16, <2>1, <2>3, FieldTypes, AbsentIs
      DEF CloseTimesOut, Alive, processVars, Proper, Made, Fields, Unmade, Types, TypeOK
    <3>2. Bare(p)'
      BY <1>16, <2>1, <2>3
      DEF CloseTimesOut, Alive, processVars, Proper, Made, Bare, Fields, Types, TypeOK
    <3>3. Healthy(p)'
      BY <1>16, <2>1, <2>3
      DEF CloseTimesOut, Alive, processVars, Proper, Made, Healthy, Fields, Types, TypeOK
    <3> QED
      BY <3>1, <3>2, <3>3 DEF Proper
  <2>5. \A r \in Processes \ {p} : Unmoved(r)
    BY <1>1, <1>16, <2>3 DEF CloseTimesOut, Alive, processVars, Unmoved, Types, TypeOK
  <2>6. Calm
    BY <1>16, <2>1, <2>3 DEF CloseTimesOut, Alive, processVars, Fields, Calm
  <2> QED
    BY <1>3, <2>4, <2>5, <2>6
<1>17. ASSUME NEW p \in Processes, WorkerEnds(p) PROVE ProcessesInv'
  <2>1. Proper(p) /\ client[p] \in ClientState
    BY <1>1 DEF ProcessesInv, TypeOK
  <2>3. /\ Fields(client'[p], client[p].state, FALSE, client[p].lock, client[p].queue,
                client[p].held, client[p].session, client[p].seq)
        /\ \A r \in Processes \ {p} : client'[r] = client[r]
    BY <1>1, <1>17, WorkerEndsDoes DEF Becomes
  <2>4. Proper(p)'
    <3>1. Made(p)'
      BY <1>1, <1>17, <2>1, <2>3, FieldTypes, AbsentIs
      DEF WorkerEnds, Works, Alive, processVars, Proper, Made, Fields, Unmade, Types, TypeOK
    <3>2. Bare(p)'
      BY <1>17, <2>1, <2>3
      DEF WorkerEnds, Works, Alive, processVars, Proper, Made, Bare, Fields, Types, TypeOK
    <3>3. Healthy(p)'
      BY <1>17, <2>1, <2>3
      DEF WorkerEnds, Works, Alive, processVars, Proper, Made, Healthy, Fields, Types, TypeOK
    <3> QED
      BY <3>1, <3>2, <3>3 DEF Proper
  <2>5. \A r \in Processes \ {p} : Unmoved(r)
    BY <1>1, <1>17, <2>3 DEF WorkerEnds, Works, Alive, processVars, Unmoved, Types, TypeOK
  <2>6. Calm
    BY <1>17, <2>1, <2>3 DEF WorkerEnds, Works, Alive, processVars, Fields, Calm
  <2> QED
    BY <1>3, <2>4, <2>5, <2>6
<1>18. ASSUME NEW p \in Processes, NEW q \in Processes, Fork(p, q) PROVE ProcessesInv'
  <2>1. Proper(p) /\ client[p] \in ClientState /\ client[p].state \in States
    BY <1>1, FieldTypes DEF ProcessesInv, TypeOK
  <2>2. p # q /\ q \notin other /\ q \notin bare
    BY <1>18 DEF Fork, Running, ProcessesInv, Proper, Made, Bare
  <2>3. /\ client'[q] = IF handlers[p] THEN Rebuilt(client[p], sessions + 1)
                                        ELSE Copied(client[p])
        /\ \A r \in Processes \ {q} : client'[r] = client[r]
    BY <1>1, <1>18, ForkDoes
  <2>4. PICK n \in Nat : n = sessions + 1
    BY <1>1
  <2>5. \A r \in Processes \ {q} : Unmoved(r)
    BY <1>1, <1>18, <2>2, <2>3 DEF Fork, Unmoved, Types, TypeOK
  <2>6. /\ status'[q] = "running" /\ handlers'[q] = handlers[p] /\ installed'[q] = installed[p]
        /\ registry'[q] = IF registry[p] = "free" THEN "free" ELSE "lost"
        /\ q \in bare' <=> (installed[p] \/ registry[p] # "free") /\ ~handlers[p]
        /\ bare \subseteq bare' /\ (\A r \in Processes : r \in bare' => r \in bare \/ r = q)
        /\ other' = other /\ sessions' = n
        /\ handlers[p] => registry[p] = "free"
    BY <1>1, <1>18, <2>2, <2>4 DEF Fork, MayFork, TypeOK
  <2>7. CASE client[p].state \in Unmade
    <3>1. client'[q] = Absent
      BY <2>1, <2>3, <2>4, <2>7, CopiedIs, RebuiltIs
    <3>2. Fields(client'[q], "absent", FALSE, "free", {}, {}, 0, 0)
      BY <3>1, AbsentIs
    <3>3. Made(q)'
      BY <1>1, <2>2, <2>6, <3>1, <3>2 DEF Made, Fields
    <3>4. Bare(q)'
      BY <2>2, <2>6, <3>2 DEF Bare, Fields
    <3>5. Healthy(q)'
      BY <2>2, <2>6, <3>2 DEF Healthy, Fields
    <3>6. \A r, t \in Processes : OwnSession(r, t)'
      BY <2>3, <2>6, <3>2, FreshSession DEF Fields
    <3> QED
      BY <1>2, <2>5, <3>3, <3>4, <3>5, <3>6 DEF Proper
  <2>8. CASE handlers[p] /\ client[p].state \in {"open", "closing"}
    <3>1. Fields(client'[q], "open", TRUE, "free", {}, {}, n, 0)
      BY <2>1, <2>3, <2>4, <2>8, RebuiltIs
    <3>2. installed[p]
      BY <2>1, <2>8 DEF Proper, Made
    <3>3. Made(q)'
      BY <1>1, <2>2, <2>4, <2>6, <3>1, <3>2 DEF Made, Fields, Unmade
    <3>4. Bare(q)'
      BY <2>2, <2>6, <2>8, <3>1 DEF Bare, Fields
    <3>5. Healthy(q)'
      BY <2>2, <2>6, <2>8, <3>1 DEF Healthy, Fields
    <3>6. \A r, t \in Processes : OwnSession(r, t)'
      BY <1>1, <2>3, <2>4, <2>6, <3>1, FreshSession DEF Fields
    <3> QED
      BY <1>2, <2>5, <3>3, <3>4, <3>5, <3>6 DEF Proper
  <2>9. CASE client[p].state \notin Unmade /\ (handlers[p] => client[p].state = "closed")
    <3>1. PICK lock : lock = client'[q].lock
      OBVIOUS
    <3>2. /\ Fields(client'[q], client[p].state, FALSE, lock, client[p].queue, {},
                    client[p].session, client[p].seq)
          /\ handlers[p] => lock = "free"
      <4>1. CASE handlers[p]
        <5>1. client'[q] = Rebuilt(client[p], n) /\ client[p].state = "closed"
          BY <2>3, <2>4, <2>9, <4>1
        <5>2. Fields(Rebuilt(client[p], n), "closed", FALSE, "free", client[p].queue, {},
                     client[p].session, client[p].seq)
          BY <2>1, <5>1, RebuiltIs
        <5> QED
          BY <3>1, <5>1, <5>2 DEF Fields
      <4>2. CASE ~handlers[p]
        BY <2>1, <2>3, <2>9, <3>1, <4>2, CopiedIs DEF Fields
      <4> QED
        BY <4>1, <4>2
    <3>3. installed[p] /\ client[p].session # 0 /\ client[p].session <= sessions
          /\ client[p].session \in Nat
      BY <2>1, <2>9, FieldTypes DEF Proper, Made, Unmade
    <3>4. Made(q)'
      BY <1>1, <2>1, <2>2, <2>4, <2>6, <2>9, <3>2, <3>3 DEF Made, Fields, Unmade
    <3>5. Bare(q)'
      BY <2>2, <2>6, <2>9, <3>2, <3>3 DEF Bare, Fields, Unmade
    <3>6. Healthy(q)'
      BY <2>2, <2>6, <2>9, <3>2, <3>3 DEF Healthy, Fields
    <3>7. ASSUME NEW r \in Processes \ {q}
          PROVE  OwnSession(r, q)' /\ OwnSession(q, r)'
      <4>1. ~client'[q].worker
        BY <3>2 DEF Fields
      <4>2. ASSUME client[r].session = client[p].session, r \notin bare, q \notin bare'
            PROVE  client[r].state = "closed" /\ client[p].state = "closed"
        <5>1. handlers[p] /\ p \notin bare
          BY <2>1, <2>6, <3>3, <4>2 DEF Proper, Bare
        <5>2. client[p].state = "closed"
          BY <2>9, <5>1
        <5>3. CASE r = p
          BY <5>2, <5>3
        <5>4. CASE r # p
          BY <3>3, <4>2, <5>1, <5>4 DEF ProcessesInv, OwnSession
        <5> QED
          BY <5>2, <5>3, <5>4
      <4>3. client'[r] = client[r] /\ (r \in bare' <=> r \in bare)
        BY <2>3, <2>6
      <4>4. client'[q].session = client[p].session /\ client'[q].state = client[p].state
        BY <3>2 DEF Fields
      <4> QED
        BY <4>1, <4>2, <4>3, <4>4 DEF OwnSession
    <3>8. ASSUME NEW r \in Processes \ {q}, NEW t \in Processes \ {q}
          PROVE  OwnSession(r, t)'
      BY <2>3, <2>6 DEF ProcessesInv, OwnSession
    <3>9. OwnSession(q, q)'
      BY DEF OwnSession
    <3> QED
      BY <1>2, <2>5, <3>4, <3>5, <3>6, <3>7, <3>8, <3>9 DEF Proper
  <2> QED
    BY <2>1, <2>7, <2>8, <2>9 DEF States, InUse
<1>19. ASSUME NEW p \in Processes, ExitBegins(p) PROVE ProcessesInv'
  <2>1. Proper(p) /\ client[p] \in ClientState /\ sessions' = sessions
    BY <1>1, <1>19 DEF ProcessesInv, ExitBegins, TypeOK
  <2>2. PICK state : /\ state = client[p].state \/ (client[p].state = "open" /\ state = "closing")
                     /\ state # client[p].state => handlers[p]
                     /\ Fields(client'[p], state, client[p].worker, client[p].lock, client[p].queue,
                               client[p].held, client[p].session, client[p].seq)
                     /\ \A r \in Processes \ {p} : client'[r] = client[r]
                     /\ client'[p] = client[p] \/ client[p].state = "open"
    BY <1>1, <1>19, ExitBeginsDoes DEF Becomes, Fields
  <2>3. Proper(p)'
    <3>1. Made(p)'
      BY <1>1, <1>19, <2>1, <2>2, AbsentIs
      DEF ExitBegins, Running, Proper, Made, Fields, Unmade, Types, TypeOK
    <3>2. Bare(p)'
      BY <1>19, <2>1, <2>2 DEF ExitBegins, Proper, Bare, Fields, Types, TypeOK
    <3>3. Healthy(p)'
      BY <1>19, <2>1, <2>2 DEF ExitBegins, Proper, Healthy, Fields
    <3> QED
      BY <3>1, <3>2, <3>3 DEF Proper
  <2>4. \A r \in Processes \ {p} : Unmoved(r)
    BY <1>1, <1>19, <2>1, <2>2 DEF ExitBegins, Unmoved, Types, TypeOK
  <2>5. Calm
    BY <1>19, <2>1, <2>2 DEF ExitBegins, Calm, Fields
  <2> QED
    BY <1>3, <2>3, <2>4, <2>5
<1>20. ASSUME NEW p \in Processes, Exit(p) PROVE ProcessesInv'
  <2>1. Proper(p) /\ client'[p] = Absent /\ sessions' = sessions
        /\ \A r \in Processes \ {p} : client'[r] = client[r]
    BY <1>1, <1>20, ExitDoes DEF ProcessesInv, Exit
  <2>2. Fields(client'[p], "absent", FALSE, "free", {}, {}, 0, 0)
    BY <2>1, AbsentIs
  <2>3. Proper(p)'
    <3>1. Made(p)'
      BY <1>1, <1>20, <2>1, <2>2 DEF Exit, Made, Fields, Types, TypeOK
    <3>2. Bare(p)'
      BY <1>20, <2>1, <2>2 DEF Exit, Proper, Bare, Fields, Types, TypeOK
    <3>3. Healthy(p)'
      BY <1>20, <2>1, <2>2 DEF Exit, Proper, Healthy, Fields
    <3> QED
      BY <3>1, <3>2, <3>3 DEF Proper
  <2>4. \A r \in Processes \ {p} : Unmoved(r)
    BY <1>1, <1>20, <2>1 DEF Exit, Unmoved, Types, TypeOK
  <2>5. \A r, q \in Processes : OwnSession(r, q)'
    BY <1>20, <2>1, <2>2, FreshSession DEF Exit, Fields
  <2> QED
    BY <1>2, <2>3, <2>4, <2>5
<1>21. ASSUME NEW s \in DOMAIN sockets, EndpointStep(s)
       PROVE  ProcessesInv'
  BY <1>4, <1>21 DEF EndpointStep, clientVars
<1>22. CASE UNCHANGED vars
  BY <1>4, <1>22 DEF vars, clientVars
<1> QED
  BY <1>5, <1>6, <1>7, <1>8, <1>9, <1>10, <1>12, <1>14, <1>15, <1>16, <1>17, <1>18, <1>19, <1>20, <1>21, <1>22 DEF Next

\* A child forked under the handlers is healthy, and so is a process that was never
\* forked, whatever its relatives do and wherever the forks fell.
THEOREM ChildrenAreHealthy == Spec => []ChildIsHealthy
<1>1. Init => Types /\ ProcessesInv
  BY InitTypes, InitProcesses
<1>2. Types /\ ProcessesInv /\ [Next]_vars => Types' /\ ProcessesInv'
  BY NextTypes, NextProcesses
<1>3. ProcessesInv => ChildIsHealthy
  <2> SUFFICES ASSUME ProcessesInv, NEW p \in Processes \ bare
               PROVE  /\ registry[p] # "lost" /\ client[p].lock # "lost"
                      /\ client[p].state = "open" =>
                            /\ client[p].worker
                            /\ \A q \in Processes \ (bare \cup {p}) :
                                  client[q].session # client[p].session
    BY DEF ChildIsHealthy
  <2>1. Healthy(p) /\ Made(p)
    BY DEF ProcessesInv, Proper
  <2>2. ASSUME client[p].state = "open", NEW q \in Processes \ (bare \cup {p})
        PROVE  client[q].session # client[p].session
    BY <2>1, <2>2 DEF ProcessesInv, OwnSession, Made
  <2> QED
    BY <2>1, <2>2 DEF Healthy
<1> QED
  BY <1>1, <1>2, <1>3, PTL DEF Spec

-----------------------------------------------------------------------------
(***************************************************************************)
(* Connections.                                                            *)
(***************************************************************************)
LEMMA InitConnections ==
    ASSUME Init
    PROVE  ConnectionsInv
BY DEF Init, ConnectionInit, ConnectionsInv, Connected, OneWorker, Waits

\* Nothing of a process that the invariant of connections speaks of changes.
Unlinked(r) ==
    client'[r] = client[r] /\ connection'[r] = connection[r] /\ waiting'[r] = waiting[r]

LEMMA UnlinkedConnected ==
    ASSUME NEW r \in Processes, Connected(r), Unlinked(r)
    PROVE  Connected(r)'
BY DEF Connected, Unlinked, Waits

\* No process takes a connection, and only one without a connection takes a worker.
LEMMA NoneConnects ==
    ASSUME ConnectionsInv,
           \A r \in Processes : connection'[r] = connection[r] \/ connection'[r] = 0,
           \A r \in Processes : client'[r].worker => client[r].worker \/ connection'[r] = 0
    PROVE  \A p, q \in Processes : OneWorker(p, q)'
BY DEF ConnectionsInv, OneWorker

LEMMA NextConnections ==
    ASSUME Types, Types', ProcessesInv, ConnectionsInv, [Next]_vars
    PROVE  ConnectionsInv'
<1>1. TypeOK /\ Wired /\ Len(sockets) \in Nat
  BY TypesWired, LenProperties DEF Types, Wired
<1>2. ASSUME NEW p \in Processes, Connected(p)', \A r \in Processes \ {p} : Unlinked(r),
             \A r, q \in Processes : OneWorker(r, q)'
      PROVE  ConnectionsInv'
  <2>1. \A r \in Processes \ {p} : Connected(r)'
    BY <1>2, UnlinkedConnected DEF ConnectionsInv
  <2> QED
    BY <1>2, <2>1 DEF ConnectionsInv
<1>3. ASSUME NEW p \in Processes, Connected(p)', \A r \in Processes \ {p} : Unlinked(r),
             connection'[p] = connection[p] \/ connection'[p] = 0,
             client'[p].worker => client[p].worker \/ connection'[p] = 0
      PROVE  ConnectionsInv'
  <2>1. \A r, q \in Processes : OneWorker(r, q)'
    BY <1>3, NoneConnects DEF Unlinked
  <2> QED
    BY <1>2, <1>3, <2>1
<1>4. ASSUME UNCHANGED <<client, connection, waiting>>
      PROVE  ConnectionsInv'
  BY <1>4 DEF ConnectionsInv, Connected, OneWorker, Waits
<1>5. ASSUME NEW p \in Processes, Create(p) PROVE ConnectionsInv'
  <2>1. Proper(p) /\ Connected(p) /\ client[p].state \in States
    BY <1>1, FieldTypes DEF ProcessesInv, ConnectionsInv, TypeOK
  <2>3. /\ Fields(client'[p], "registering", TRUE, client[p].lock, client[p].queue,
                client[p].held, sessions + 1, client[p].seq)
        /\ \A r \in Processes \ {p} : client'[r] = client[r]
    BY <1>1, <1>5, CreateDoes DEF Becomes
  <2>4. connection' = connection /\ waiting' = waiting
    BY <1>5 DEF Create, connectionVars
  <2>5. Connected(p)'
    BY <1>5, <2>1, <2>3, <2>4
    DEF Create, Proper, Made, Connected, Fields, Unmade, States, InUse, Waits
  <2>6. \A r \in Processes \ {p} : Unlinked(r)
    BY <2>3, <2>4 DEF Unlinked
  <2>7. client'[p].worker => client[p].worker \/ connection'[p] = 0
    BY <1>5, <2>1, <2>3, <2>4 DEF Create, Fields, Connected, Unmade
  <2> QED
    BY <1>3, <2>4, <2>5, <2>6, <2>7
<1>6. ASSUME NEW p \in Processes, Register(p) PROVE ConnectionsInv'
  <2>1. Proper(p) /\ Connected(p) /\ client[p].state \in States
    BY <1>1, FieldTypes DEF ProcessesInv, ConnectionsInv, TypeOK
  <2>2. PICK state \in States : state = IF installed[p] THEN "open" ELSE "installing"
    BY DEF States, InUse, Unmade
  <2>3. /\ Fields(client'[p], IF installed[p] THEN "open" ELSE "installing", client[p].worker, client[p].lock, client[p].queue,
                client[p].held, client[p].session, client[p].seq)
        /\ \A r \in Processes \ {p} : client'[r] = client[r]
    BY <1>1, <1>6, <2>2, StateDoes DEF Becomes, Register
  <2>4. connection' = connection /\ waiting' = waiting
    BY <1>6 DEF Register, connectionVars
  <2>5. Connected(p)'
    BY <1>6, <2>1, <2>3, <2>4
    DEF Register, Proper, Made, Connected, Fields, Unmade, States, InUse, Waits
  <2>6. \A r \in Processes \ {p} : Unlinked(r)
    BY <2>3, <2>4 DEF Unlinked
  <2>7. client'[p].worker => client[p].worker \/ connection'[p] = 0
    BY <1>6, <2>1, <2>3, <2>4 DEF Register, Fields, Connected, Unmade
  <2> QED
    BY <1>3, <2>4, <2>5, <2>6, <2>7
<1>7. ASSUME NEW p \in Processes, InstallHandlers(p) PROVE ConnectionsInv'
  <2>1. Proper(p) /\ Connected(p) /\ client[p].state \in States
    BY <1>1, FieldTypes DEF ProcessesInv, ConnectionsInv, TypeOK
  <2>2. "open" \in States
    BY DEF States, InUse
  <2>3. /\ Fields(client'[p], "open", client[p].worker, client[p].lock, client[p].queue,
                client[p].held, client[p].session, client[p].seq)
        /\ \A r \in Processes \ {p} : client'[r] = client[r]
    BY <1>1, <1>7, <2>2, StateDoes DEF Becomes, InstallHandlers
  <2>4. connection' = connection /\ waiting' = waiting
    BY <1>7 DEF InstallHandlers, connectionVars
  <2>5. Connected(p)'
    BY <1>7, <2>1, <2>3, <2>4
    DEF InstallHandlers, Proper, Made, Connected, Fields, Unmade, States, InUse, Waits
  <2>6. \A r \in Processes \ {p} : Unlinked(r)
    BY <2>3, <2>4 DEF Unlinked
  <2>7. client'[p].worker => client[p].worker \/ connection'[p] = 0
    BY <1>7, <2>1, <2>3, <2>4 DEF InstallHandlers, Fields, Connected, Unmade
  <2> QED
    BY <1>3, <2>4, <2>5, <2>6, <2>7
<1>8. ASSUME NEW p \in Processes, RecordBegins(p) PROVE ConnectionsInv'
  <2>1. Proper(p) /\ Connected(p) /\ client[p].state \in States
    BY <1>1, FieldTypes DEF ProcessesInv, ConnectionsInv, TypeOK
  <2>3. /\ Fields(client'[p], client[p].state, client[p].worker, "held", client[p].queue,
                client[p].held, client[p].session, client[p].seq)
        /\ \A r \in Processes \ {p} : client'[r] = client[r]
    BY <1>1, <1>8, RecordBeginsDoes DEF Becomes
  <2>4. connection' = connection /\ waiting' = waiting
    BY <1>8 DEF RecordBegins, connectionVars
  <2>5. Connected(p)'
    BY <1>8, <2>1, <2>3, <2>4
    DEF RecordBegins, Proper, Made, Connected, Fields, Unmade, States, InUse, Waits
  <2>6. \A r \in Processes \ {p} : Unlinked(r)
    BY <2>3, <2>4 DEF Unlinked
  <2>7. client'[p].worker => client[p].worker \/ connection'[p] = 0
    BY <1>8, <2>1, <2>3, <2>4 DEF RecordBegins, Fields, Connected, Unmade
  <2> QED
    BY <1>3, <2>4, <2>5, <2>6, <2>7
<1>9. ASSUME NEW p \in Processes, RecordEnds(p) PROVE ConnectionsInv'
  <2>1. Proper(p) /\ Connected(p) /\ client[p].state \in States
    BY <1>1, FieldTypes DEF ProcessesInv, ConnectionsInv, TypeOK
  <2>3. /\ \E queue : Fields(client'[p], client[p].state, client[p].worker, "free", queue,
                          client[p].held, client[p].session, client[p].seq)
        /\ \A r \in Processes \ {p} : client'[r] = client[r]
    BY <1>1, <1>9, RecordEndsDoes DEF Becomes
  <2>4. connection' = connection /\ waiting' = waiting
    BY <1>9 DEF RecordEnds, connectionVars
  <2>5. Connected(p)'
    BY <1>9, <2>1, <2>3, <2>4
    DEF RecordEnds, Proper, Made, Connected, Fields, Unmade, States, InUse, Waits
  <2>6. \A r \in Processes \ {p} : Unlinked(r)
    BY <2>3, <2>4 DEF Unlinked
  <2>7. client'[p].worker => client[p].worker \/ connection'[p] = 0
    BY <1>9, <2>1, <2>3, <2>4 DEF RecordEnds, Fields, Connected, Unmade
  <2> QED
    BY <1>3, <2>4, <2>5, <2>6, <2>7
<1>11. ASSUME NEW p \in Processes, Close(p) PROVE ConnectionsInv'
  <2>1. Proper(p) /\ Connected(p) /\ client[p].state \in States
    BY <1>1, FieldTypes DEF ProcessesInv, ConnectionsInv, TypeOK
  <2>2. "closing" \in States
    BY DEF States, InUse
  <2>3. /\ Fields(client'[p], "closing", client[p].worker, client[p].lock, client[p].queue,
                client[p].held, client[p].session, client[p].seq)
        /\ \A r \in Processes \ {p} : client'[r] = client[r]
    BY <1>1, <1>11, <2>2, StateDoes DEF Becomes, Close
  <2>4. connection' = connection /\ waiting' = waiting
    BY <1>11 DEF Close, connectionVars
  <2>5. Connected(p)'
    BY <1>11, <2>1, <2>3, <2>4
    DEF Close, Proper, Made, Connected, Fields, Unmade, States, InUse, Waits
  <2>6. \A r \in Processes \ {p} : Unlinked(r)
    BY <2>3, <2>4 DEF Unlinked
  <2>7. client'[p].worker => client[p].worker \/ connection'[p] = 0
    BY <1>11, <2>1, <2>3, <2>4 DEF Close, Fields, Connected, Unmade
  <2> QED
    BY <1>3, <2>4, <2>5, <2>6, <2>7
<1>12. ASSUME NEW p \in Processes, CloseTimesOut(p) PROVE ConnectionsInv'
  <2>1. Proper(p) /\ Connected(p) /\ client[p].state \in States
    BY <1>1, FieldTypes DEF ProcessesInv, ConnectionsInv, TypeOK
  <2>2. "closed" \in States
    BY DEF States, InUse
  <2>3. /\ Fields(client'[p], "closed", client[p].worker, client[p].lock, client[p].queue,
                client[p].held, client[p].session, client[p].seq)
        /\ \A r \in Processes \ {p} : client'[r] = client[r]
    BY <1>1, <1>12, <2>2, StateDoes DEF Becomes, CloseTimesOut
  <2>4. connection' = connection /\ waiting' = waiting
    BY <1>12 DEF CloseTimesOut, connectionVars
  <2>5. Connected(p)'
    BY <1>12, <2>1, <2>3, <2>4
    DEF CloseTimesOut, Proper, Made, Connected, Fields, Unmade, States, InUse, Waits
  <2>6. \A r \in Processes \ {p} : Unlinked(r)
    BY <2>3, <2>4 DEF Unlinked
  <2>7. client'[p].worker => client[p].worker \/ connection'[p] = 0
    BY <1>12, <2>1, <2>3, <2>4 DEF CloseTimesOut, Fields, Connected, Unmade
  <2> QED
    BY <1>3, <2>4, <2>5, <2>6, <2>7
<1>10. ASSUME NEW p \in Processes, ~Waits(p), UNCHANGED <<connection, waiting>>,
             client'[p].state = client[p].state, client'[p].worker => client[p].worker,
             \A r \in Processes \ {p} : client'[r] = client[r]
      PROVE  ConnectionsInv'
  <2>1. Connected(p)'
    BY <1>10 DEF ConnectionsInv, Connected, Waits
  <2>2. \A r \in Processes \ {p} : Unlinked(r)
    BY <1>10 DEF Unlinked
  <2> QED
    BY <1>3, <1>10, <2>1, <2>2
<1>13. ASSUME NEW p \in Processes, NEW b \in Batch, Request(p, b), client[p].worker,
             client'[p].worker, client'[p].state \notin Unmade, b \in client'[p].held,
             \A r \in Processes \ {p} : client'[r] = client[r]
      PROVE  ConnectionsInv'
  <2>4. PICK s \in Nat \ {0} : Requested(p, b, s)
    BY <1>1, <1>13, RequestDoes
  <2>5. connection'[p] = s /\ waiting'[p] = b
    BY <1>1, <2>4 DEF Requested, Wired
  <2>6. \A r \in Processes \ {p} : Unlinked(r)
    BY <1>1, <1>13, <2>4 DEF Requested, Wired, Unlinked
  <2>7. Connected(p)'
    BY <1>13, <2>5 DEF Connected
  <2>8. ASSUME NEW r \in Processes \ {p}, client[r].worker
        PROVE  connection[r] # s
    <3>1. connection[r] \in 0..Len(sockets)
      BY <1>1 DEF Wired
    <3> QED
      BY <1>1, <1>13, <2>4, <2>8, <3>1 DEF Requested, ConnectionsInv, OneWorker
  <2>9. \A r, q \in Processes : OneWorker(r, q)'
    BY <1>13, <2>5, <2>6, <2>8 DEF ConnectionsInv, OneWorker, Unlinked
  <2> QED
    BY <1>2, <2>6, <2>7, <2>9
<1>14. ASSUME NEW p \in Processes, FlushSends(p) PROVE ConnectionsInv'
  <2>1. Works(p) /\ client[p].queue # {}
    BY <1>14 DEF FlushSends, MayFlush, Idle
  <2>2. client[p].held \cup {NewBatch(p)} \in SUBSET Batch
    BY <1>1, NewBatchIs, FieldTypes DEF TypeOK
  <2>3. Flushed(p, client[p].held \cup {NewBatch(p)})
    BY <1>1, <1>14, <2>2, FlushDoes DEF FlushSends
  <2>4. client[p].state \notin Unmade
    BY <2>1 DEF ProcessesInv, Proper, Made
  <2> QED
    BY <1>13, <1>14, <2>1, <2>2, <2>3, <2>4 DEF FlushSends, Works, Flushed, Becomes, Fields
<1>15. ASSUME NEW p \in Processes, Replay(p) PROVE ConnectionsInv'
  <2>1. client[p].worker /\ client' = client
    BY <1>15 DEF Replay, Replays, Idle, Works, clientVars
  <2>2. PICK b \in client[p].held : Request(p, b)
    BY <1>15 DEF Replay
  <2>3. b \in Batch
    BY <1>1, FieldTypes DEF TypeOK
  <2>4. client[p].state \notin Unmade
    BY <2>2 DEF ProcessesInv, Proper, Made
  <2> QED
    BY <1>13, <2>1, <2>2, <2>3, <2>4
<1>16. ASSUME NEW p \in Processes, NEW accepted \in BOOLEAN, Receive(p, accepted) \/ Fail(p),
             client'[p].state = client[p].state, client'[p].worker => client[p].worker,
             \A r \in Processes \ {p} : client'[r] = client[r]
      PROVE  ConnectionsInv'
  <2>1. waiting' = [waiting EXCEPT ![p] = NoRequest]
        /\ (connection' = connection \/ connection' = [connection EXCEPT ![p] = 0])
    BY <1>16 DEF Receive, Fail, DropConnection
  <2>2. Connected(p)'
    BY <1>1, <1>16, <2>1 DEF ConnectionsInv, Connected, Waits, Wired
  <2>3. \A r \in Processes \ {p} : Unlinked(r)
    BY <1>1, <1>16, <2>1 DEF Unlinked, Wired
  <2>4. connection'[p] = connection[p] \/ connection'[p] = 0
    BY <1>1, <2>1 DEF Wired
  <2> QED
    BY <1>3, <1>16, <2>2, <2>3, <2>4
<1>17. ASSUME NEW p \in Processes, WorkerStep(p) PROVE ConnectionsInv'
  <2>1. /\ client'[p].state = client[p].state /\ (client'[p].worker => client[p].worker)
        /\ \A r \in Processes \ {p} : client'[r] = client[r]
    BY <1>1, <1>17, WorkerDoes DEF Flushed, Settled, Becomes, Fields
  <2>2. CASE FlushBuffers(p) \/ FlushDiscards(p) \/ Prune(p) \/ WorkerEnds(p)
    <3>1. ~Waits(p) /\ UNCHANGED <<connection, waiting>>
      BY <2>2 DEF FlushBuffers, FlushDiscards, Prune, WorkerEnds, MayFlush, Replays, Idle,
                  connectionVars
    <3> QED
      BY <1>10, <2>1, <3>1
  <2>3. CASE Delivered(p) \/ NotDelivered(p) \/ StopIngest(p)
    <3>1. \E accepted \in BOOLEAN : Receive(p, accepted) \/ Fail(p)
      BY <2>3 DEF Delivered, NotDelivered, StopIngest
    <3> QED
      BY <1>16, <2>1, <3>1
  <2>4. CASE SendRestated(p) \/ DrainBegins(p) \/ QueueDrained(p)
    BY <1>4, <2>4
    DEF SendRestated, Restate, DrainBegins, QueueDrained, MovesTo, clientVars, connectionVars
  <2> QED
    BY <1>14, <1>15, <1>17, <2>2, <2>3, <2>4 DEF WorkerStep
<1>18. ASSUME NEW p \in Processes, CloseReturns(p) \/ CloseOutOfTime(p) PROVE ConnectionsInv'
  <2>0. Joins(p)
    BY <1>18 DEF CloseReturns, CloseOutOfTime
  <2>1. /\ Fields(client'[p], "closed", FALSE, client[p].lock, client[p].queue,
                client[p].held, client[p].session, client[p].seq)
        /\ \A r \in Processes \ {p} : client'[r] = client[r]
    BY <1>1, <2>0, JoinsDoes DEF Becomes
  <2>2. connection' = [connection EXCEPT ![p] = 0] /\ waiting' = waiting /\ ~Waits(p)
    BY <2>0 DEF Joins, CloseTransport, DropConnection
  <2>3. connection'[p] = 0 /\ ~Waits(p)'
    BY <1>1, <2>2 DEF Wired, Waits
  <2>4. Connected(p)'
    BY <2>3 DEF Connected
  <2>5. \A r \in Processes \ {p} : Unlinked(r)
    BY <1>1, <2>1, <2>2 DEF Unlinked, Wired
  <2> QED
    BY <1>3, <2>3, <2>4, <2>5
<1>19. ASSUME NEW p \in Processes, NEW q \in Processes, Fork(p, q) PROVE ConnectionsInv'
  <2>1. client[p] \in ClientState /\ client[p].state \in States /\ Connected(p) /\ p # q
    BY <1>1, <1>19, FieldTypes DEF ConnectionsInv, TypeOK, Fork, Running
  <2>2. /\ client'[q] = IF handlers[p] THEN Rebuilt(client[p], sessions + 1)
                                        ELSE Copied(client[p])
        /\ \A r \in Processes \ {q} : client'[r] = client[r]
    BY <1>1, <1>19, ForkDoes
  <2>3. PICK n \in Nat : n = sessions + 1
    BY <1>1 DEF TypeOK
  <2>4. connection'[q] = IF handlers[p] /\ client[p].state \in {"open", "closing"}
                         THEN 0 ELSE connection[p]
    BY <1>1, <1>19 DEF Fork, ForkConnection, Wired
  <2>5. waiting' = waiting /\ \A r \in Processes \ {q} : connection'[r] = connection[r]
    BY <1>1, <1>19 DEF Fork, ForkConnection, Wired
  <2>6. ~Waits(q)'
    BY <1>19, <2>5 DEF Types, Fork, Waits
  <2>7. /\ client'[q].worker => connection'[q] = 0
        /\ client'[q].state \in Unmade => client[p].state \in Unmade
    <3>1. CASE client[p].state \in Unmade
      BY <2>1, <2>4, <3>1 DEF Connected, Unmade
    <3>2. CASE handlers[p] /\ client[p].state \in {"open", "closing"}
      <4>1. Fields(Rebuilt(client[p], n), "open", TRUE, "free", {}, {}, n, 0)
        BY <2>1, <3>2, RebuiltIs
      <4> QED
        BY <2>2, <2>3, <2>4, <3>2, <4>1 DEF Fields, Unmade
    <3>3. CASE handlers[p] /\ client[p].state = "closed"
      <4>1. Fields(Rebuilt(client[p], n), "closed", FALSE, "free", client[p].queue, {},
                   client[p].session, client[p].seq)
        BY <2>1, <3>3, RebuiltIs
      <4> QED
        BY <2>2, <2>3, <3>3, <4>1 DEF Fields, Unmade
    <3>4. CASE ~handlers[p] /\ client[p].state \notin Unmade
      <4>1. Fields(Copied(client[p]), client[p].state, FALSE,
                   IF client[p].lock = "free" THEN "free" ELSE "lost",
                   client[p].queue, {}, client[p].session, client[p].seq)
        BY <2>1, <3>4, CopiedIs
      <4> QED
        BY <2>2, <3>4, <4>1 DEF Fields
    <3> QED
      BY <2>1, <3>1, <3>2, <3>3, <3>4 DEF States, InUse
  <2>8. Connected(q)'
    BY <2>1, <2>4, <2>6, <2>7 DEF Connected, Unmade
  <2>9. \A r \in Processes \ {q} : Unlinked(r)
    BY <2>2, <2>5 DEF Unlinked
  <2>10. \A r, t \in Processes : OneWorker(r, t)'
    BY <2>7, <2>9 DEF ConnectionsInv, OneWorker, Unlinked
  <2> QED
    BY <1>2, <2>8, <2>9, <2>10
<1>20. ASSUME NEW p \in Processes, Exit(p) PROVE ConnectionsInv'
  <2>1. client'[p] = Absent /\ \A r \in Processes \ {p} : client'[r] = client[r]
    BY <1>1, <1>20, ExitDoes
  <2>2. /\ connection'[p] = 0 /\ waiting'[p] = NoRequest
        /\ \A r \in Processes \ {p} : connection'[r] = connection[r] /\ waiting'[r] = waiting[r]
    BY <1>1, <1>20 DEF Exit, Wired
  <2>3. Connected(p)'
    BY <2>2 DEF Connected, Waits
  <2>4. \A r \in Processes \ {p} : Unlinked(r)
    BY <2>1, <2>2 DEF Unlinked
  <2> QED
    BY <1>3, <2>2, <2>3, <2>4
<1>21. ASSUME NEW s \in DOMAIN sockets, EndpointStep(s) PROVE ConnectionsInv'
  BY <1>4, <1>21 DEF EndpointStep, clientVars, Store, Recall, Refuse, Answers
<1>22. ASSUME NEW p \in Processes, OtherRegisters(p) \/ OtherInstalls(p)
      PROVE  ConnectionsInv'
  BY <1>4, <1>22 DEF OtherRegisters, OtherInstalls, clientVars, connectionVars
<1>24. ASSUME NEW p \in Processes, ExitBegins(p) PROVE ConnectionsInv'
  <2>1. UNCHANGED <<connection, waiting>>
    BY <1>24 DEF ExitBegins, connectionVars
  <2>2. CASE UNCHANGED client
    BY <1>4, <2>1, <2>2
  <2>3. CASE /\ client[p].state = "open"
             /\ Becomes(p, "closing", client[p].worker, client[p].lock, client[p].queue,
                        client[p].held, client[p].session, client[p].seq)
    <3>1. Connected(p)'
      BY <2>1, <2>3 DEF ConnectionsInv, Connected, Waits, Becomes, Fields, Unmade
    <3>2. \A r \in Processes \ {p} : Unlinked(r)
      BY <2>1, <2>3 DEF Unlinked, Becomes
    <3> QED
      BY <1>3, <2>1, <2>3, <3>1, <3>2 DEF Becomes, Fields
  <2> QED
    BY <1>1, <1>24, <2>2, <2>3, ExitBeginsDoes
<1>23. CASE UNCHANGED vars
  BY <1>4, <1>23 DEF vars, clientVars, connectionVars
<1> QED
  BY <1>5, <1>6, <1>7, <1>8, <1>9, <1>11, <1>12, <1>17, <1>18, <1>19,
     <1>20, <1>21, <1>22, <1>23, <1>24 DEF Next

\* The invariant as far as connections.
ConnectedInv == Types /\ ProcessesInv /\ ConnectionsInv

LEMMA AlwaysConnected == Spec => []ConnectedInv
<1>1. Init => ConnectedInv
  BY InitTypes, InitProcesses, InitConnections DEF ConnectedInv
<1>2. ConnectedInv /\ [Next]_vars => ConnectedInv'
  BY NextTypes, NextProcesses, NextConnections DEF ConnectedInv
<1> QED
  BY <1>1, <1>2, PTL DEF Spec

\* A client in service outside the processes forked too early has a worker.
LEMMA ServiceHasWorker ==
    ASSUME ConnectedInv, NEW p \in Processes, p \notin bare, InService(p)
    PROVE  client[p].worker
BY DEF ConnectedInv, ProcessesInv, Proper, Healthy, InService

\* Two processes in service never write to one socket, whatever was forked from what,
\* unless one of them was forked before the handlers were there.
THEOREM SocketsOwned == Spec => []SocketsNotShared
<1>1. ConnectedInv => SocketsNotShared
  BY ServiceHasWorker DEF ConnectedInv, ConnectionsInv, OneWorker, SocketsNotShared
<1> QED
  BY <1>1, AlwaysConnected, PTL

\* A step ends a socket only for the process that drops it, unless one that was forked
\* too early has it.
LEMMA EndsOwn ==
    ASSUME ConnectedInv, [Next]_vars,
           NEW p \in Processes, connection[p] # 0, InService(p),
           ~\E q \in bare : connection[q] = connection[p],
           connection'[p] = connection[p], ~sockets[connection[p]].ended
    PROVE  ~sockets'[connection[p]].ended
<1>1. Wired /\ Len(sockets) \in Nat /\ TypeOK
  BY TypesWired, LenProperties DEF ConnectedInv, Types, Wired
<1>2. PICK s \in 1..Len(sockets) : s = connection[p]
  BY <1>1 DEF Wired
<1>3. client[p].worker
  BY ServiceHasWorker
<1>4. ASSUME NEW q \in Processes, DropConnection(q), InService(q)
      PROVE  ~sockets'[s].ended
  <2>1. Dropped(q)
    BY <1>1, <1>4, DropDoes
  <2>2. q # p
    BY <1>1, <1>2, <2>1 DEF Dropped, Wired
  <2>3. connection[q] # s
    <3>1. CASE q \in bare
      BY <1>2, <3>1
    <3>2. CASE q \notin bare
      BY <1>2, <1>3, <1>4, <2>2, <3>2, ServiceHasWorker
      DEF ConnectedInv, ConnectionsInv, OneWorker
    <3> QED
      BY <3>1, <3>2
  <2>4. sockets'[s] = sockets[s]
    BY <1>2, <2>1, <2>3 DEF Dropped, OneSocket
  <2> QED
    BY <1>2, <2>4
<1>5. ASSUME NEW q \in Processes, NEW accepted \in BOOLEAN, Receive(q, accepted)
      PROVE  ~sockets'[s].ended
  <2>1. connection[q] # 0
    BY <1>5 DEF ConnectedInv, Types, Receive, HasAnswer
  <2>2. Received(q, accepted)
    BY <1>1, <1>5, <2>1, ReceiveDoes
  <2> QED
    BY <1>2, <2>2 DEF Received, OneSocket, SocketFields
<1>6. ASSUME NEW q \in Processes, Restate(q)
      PROVE  ~sockets'[s].ended
  <2>1. connection[q] # 0
    BY <1>6 DEF ConnectedInv, Types, Restate, HasAnswer
  <2>2. Restated(q)
    BY <1>1, <1>6, <2>1, RestateDoes
  <2> QED
    BY <1>2, <2>2 DEF Restated, OneSocket
<1>7. ASSUME NEW q \in Processes, NEW b \in Batch, Request(q, b)
      PROVE  ~sockets'[s].ended
  <2>2. PICK t \in Nat \ {0} : Requested(q, b, t)
    BY <1>1, <1>7, RequestDoes
  <2>3. CASE t = s
    <3>1. sockets'[s] = Written(sockets[s], b)
      BY <1>1, <1>2, <2>2, <2>3 DEF Requested, OneSocket
    <3>2. sockets[s] \in Socket
      BY <1>1, ElementOfSeq DEF Wired
    <3> QED
      BY <1>2, <3>1, <3>2, WrittenIs DEF SocketFields
  <2>4. CASE t # s
    BY <1>2, <2>2, <2>4 DEF Requested, OneSocket
  <2> QED
    BY <2>3, <2>4
<1>8. ASSUME NEW t \in DOMAIN sockets, EndpointStep(t)
      PROVE  ~sockets'[s].ended
  <2>1. PICK accepted \in BOOLEAN, lost \in SUBSET Events : Pending(t) /\ Answers(t, accepted, lost)
    BY <1>8, EndpointAnswers DEF ConnectedInv
  <2>2. AnsweredOn(t, accepted, lost)
    BY <1>1, <2>1, AnswersDoes
  <2> QED
    BY <1>2, <2>2 DEF AnsweredOn, OneSocket, SocketFields
<1>9. ASSUME sockets' = sockets
      PROVE  ~sockets'[s].ended
  BY <1>2, <1>9
<1>10. ASSUME NEW q \in Processes, WorkerStep(q)
       PROVE  ~sockets'[s].ended
  <2>1. InService(q)
    BY <1>1, <1>10, WorkerDoes DEF Works, InService
  <2>2. CASE FlushSends(q) \/ Replay(q)
    <3>1. client[q].held \in SUBSET Batch /\ NewBatch(q) \in Batch
      BY <1>1, NewBatchIs, FieldTypes DEF TypeOK
    <3> QED
      BY <1>7, <2>2, <3>1 DEF FlushSends, Replay
  <2>3. CASE Delivered(q) \/ StopIngest(q)
    BY <1>5, <2>3 DEF Delivered, StopIngest
  <2>4. CASE NotDelivered(q)
    BY <1>4, <1>5, <2>1, <2>4 DEF NotDelivered, Fail
  <2>5. CASE SendRestated(q)
    BY <1>6, <2>5 DEF SendRestated
  <2>6. CASE \/ FlushBuffers(q) \/ FlushDiscards(q) \/ Prune(q) \/ DrainBegins(q)
             \/ QueueDrained(q) \/ WorkerEnds(q)
    <3>1. sockets' = sockets
      BY <2>6 DEF FlushBuffers, FlushDiscards, Prune, DrainBegins, QueueDrained, MovesTo,
                  WorkerEnds, connectionVars
    <3> QED
      BY <1>9, <3>1
  <2> QED
    BY <1>10, <2>2, <2>3, <2>4, <2>5, <2>6 DEF WorkerStep
<1>11. ASSUME NEW q \in Processes, CloseReturns(q) \/ CloseOutOfTime(q)
       PROVE  ~sockets'[s].ended
  <2>1. InService(q) /\ DropConnection(q)
    BY <1>11 DEF CloseReturns, CloseOutOfTime, Joins, CloseTransport, InService
  <2> QED
    BY <1>4, <2>1
<1>12. ASSUME NEW q \in Processes,
              \/ Create(q) \/ Register(q) \/ InstallHandlers(q) \/ OtherRegisters(q)
              \/ OtherInstalls(q) \/ RecordBegins(q) \/ RecordEnds(q) \/ Close(q)
              \/ CloseTimesOut(q) \/ ExitBegins(q)
       PROVE  ~sockets'[s].ended
  <2>1. sockets' = sockets
    BY <1>12 DEF Create, Register, InstallHandlers, OtherRegisters, OtherInstalls, RecordBegins,
       RecordEnds, Close, CloseTimesOut, ExitBegins, connectionVars
  <2> QED
    BY <1>9, <2>1
<1>13. ASSUME NEW q \in Processes, NEW r \in Processes, Exit(q) \/ Fork(q, r)
       PROVE  ~sockets'[s].ended
  <2>1. sockets' = sockets
    BY <1>13 DEF Exit, Fork, ForkConnection
  <2> QED
    BY <1>9, <2>1
<1>14. UNCHANGED vars => ~sockets'[s].ended
  BY <1>9 DEF vars, connectionVars
<1>15. ~sockets'[s].ended
  BY <1>8, <1>10, <1>11, <1>12, <1>13, <1>14 DEF Next
<1> QED
  BY <1>2, <1>15

\* A connection in service ends because its own transport drops it, never because a
\* child that let go of its copy ends; a child forked before the handlers were there,
\* which has not let go of it, is excepted.
THEOREM NoneTornDown == Spec => NotTornDown
<1>1. ConnectedInv /\ [Next]_vars =>
          [\A p \in Processes :
             LET s == connection[p]
             IN (/\ s # 0 /\ InService(p) /\ ~sockets[s].ended
                 /\ ~\E q \in bare : connection[q] = s
                 /\ connection'[p] = s) => ~sockets'[s].ended]_vars
  BY EndsOwn
<1> QED
  BY <1>1, AlwaysConnected, PTL DEF Spec, NotTornDown

-----------------------------------------------------------------------------
(***************************************************************************)
(* Sockets.                                                                *)
(***************************************************************************)
\* A client that records and batches nothing: its worker has what it had, or is a new
\* one that has nothing yet.
Ordinary(r) ==
    /\ client'[r].held \subseteq client[r].held
    /\ client'[r].worker =>
          \/ /\ client[r].worker
             /\ client'[r].session = client[r].session /\ client'[r].seq = client[r].seq
             /\ client'[r].queue = client[r].queue
          \/ /\ client'[r].session > sessions /\ client'[r].queue = {} /\ connection'[r] = 0

Recorded == \E p \in Processes : RecordEnds(p) \/ Flushes(p)

LEMMA OrdinarySteps ==
    ASSUME ConnectedInv, [Next]_vars
    PROVE  Recorded \/ \A r \in Processes : Ordinary(r)
<1>1. TypeOK /\ Wired /\ sessions \in Nat
  BY TypesWired DEF ConnectedInv, Types, TypeOK
<1>2. ASSUME NEW p \in Processes, Ordinary(p), \A r \in Processes \ {p} : client'[r] = client[r]
      PROVE  \A r \in Processes : Ordinary(r)
  BY <1>2 DEF Ordinary
<1>3. ASSUME client' = client
      PROVE  \A r \in Processes : Ordinary(r)
  BY <1>3 DEF Ordinary
<1>4. ASSUME NEW p \in Processes, Create(p) PROVE \A r \in Processes : Ordinary(r)
  <2>2. /\ Fields(client'[p], "registering", TRUE, client[p].lock, client[p].queue,
                client[p].held, sessions + 1, client[p].seq)
        /\ \A r \in Processes \ {p} : client'[r] = client[r]
    BY <1>1, <1>4, CreateDoes DEF Becomes
  <2>3. client[p].queue = {} /\ connection'[p] = 0
    BY <1>4 DEF Create, ConnectedInv, ProcessesInv, Proper, Made, ConnectionsInv, Connected,
       Unmade, connectionVars
  <2> QED
    BY <1>1, <1>2, <2>2, <2>3 DEF Fields, Ordinary
<1>5. ASSUME NEW p \in Processes, Register(p) PROVE \A r \in Processes : Ordinary(r)
  <2>1. PICK state \in States : state = IF installed[p] THEN "open" ELSE "installing"
    BY DEF States, InUse, Unmade
  <2>2. /\ Fields(client'[p], IF installed[p] THEN "open" ELSE "installing", client[p].worker,
                client[p].lock, client[p].queue,
                client[p].held, client[p].session, client[p].seq)
        /\ \A r \in Processes \ {p} : client'[r] = client[r]
    BY <1>1, <1>5, <2>1, StateDoes DEF Becomes, Register
  <2> QED
    BY <1>1, <1>2, <2>2 DEF Fields, Ordinary
<1>6. ASSUME NEW p \in Processes, InstallHandlers(p) PROVE \A r \in Processes : Ordinary(r)
  <2>1. "open" \in States
    BY DEF States, InUse
  <2>2. /\ Fields(client'[p], "open", client[p].worker, client[p].lock, client[p].queue,
                client[p].held, client[p].session, client[p].seq)
        /\ \A r \in Processes \ {p} : client'[r] = client[r]
    BY <1>1, <1>6, <2>1, StateDoes DEF Becomes, InstallHandlers
  <2> QED
    BY <1>1, <1>2, <2>2 DEF Fields, Ordinary
<1>7. ASSUME NEW p \in Processes, Close(p) PROVE \A r \in Processes : Ordinary(r)
  <2>1. "closing" \in States
    BY DEF States, InUse
  <2>2. /\ Fields(client'[p], "closing", client[p].worker, client[p].lock, client[p].queue,
                client[p].held, client[p].session, client[p].seq)
        /\ \A r \in Processes \ {p} : client'[r] = client[r]
    BY <1>1, <1>7, <2>1, StateDoes DEF Becomes, Close
  <2> QED
    BY <1>1, <1>2, <2>2 DEF Fields, Ordinary
<1>8. ASSUME NEW p \in Processes, CloseTimesOut(p) PROVE \A r \in Processes : Ordinary(r)
  <2>1. "closed" \in States
    BY DEF States, InUse
  <2>2. /\ Fields(client'[p], "closed", client[p].worker, client[p].lock, client[p].queue,
                client[p].held, client[p].session, client[p].seq)
        /\ \A r \in Processes \ {p} : client'[r] = client[r]
    BY <1>1, <1>8, <2>1, StateDoes DEF Becomes, CloseTimesOut
  <2> QED
    BY <1>1, <1>2, <2>2 DEF Fields, Ordinary
<1>9. ASSUME NEW p \in Processes, RecordBegins(p) PROVE \A r \in Processes : Ordinary(r)
  <2>2. /\ Fields(client'[p], client[p].state, client[p].worker, "held", client[p].queue,
                client[p].held, client[p].session, client[p].seq)
        /\ \A r \in Processes \ {p} : client'[r] = client[r]
    BY <1>1, <1>9, RecordBeginsDoes DEF Becomes
  <2> QED
    BY <1>1, <1>2, <2>2 DEF Fields, Ordinary
<1>10. ASSUME NEW p \in Processes, WorkerStep(p), ~Flushes(p)
       PROVE  \A r \in Processes : Ordinary(r)
  <2>1. CASE UNCHANGED client
    BY <1>3, <2>1
  <2>2. ASSUME NEW held \in SUBSET client[p].held, NEW worker \in {client[p].worker, FALSE},
               Becomes(p, client[p].state, worker, client[p].lock, client[p].queue, held,
                       client[p].session, client[p].seq)
        PROVE  \A r \in Processes : Ordinary(r)
    BY <1>2, <2>2 DEF Becomes, Fields, Ordinary
  <2>3. client[p].held \in SUBSET client[p].held
    OBVIOUS
  <2> QED
    BY <1>1, <1>10, <2>1, <2>2, <2>3, WorkerDoes DEF Settled
<1>11. ASSUME NEW p \in Processes, CloseReturns(p) \/ CloseOutOfTime(p)
       PROVE  \A r \in Processes : Ordinary(r)
  <2>1. Joins(p)
    BY <1>11 DEF CloseReturns, CloseOutOfTime
  <2>2. /\ Fields(client'[p], "closed", FALSE, client[p].lock, client[p].queue,
                client[p].held, client[p].session, client[p].seq)
        /\ \A r \in Processes \ {p} : client'[r] = client[r]
    BY <1>1, <2>1, JoinsDoes DEF Becomes
  <2> QED
    BY <1>1, <1>2, <2>2 DEF Fields, Ordinary
<1>12. ASSUME NEW p \in Processes, ExitBegins(p) PROVE \A r \in Processes : Ordinary(r)
  <2>1. CASE UNCHANGED client
    BY <1>3, <2>1
  <2>2. CASE Becomes(p, "closing", client[p].worker, client[p].lock, client[p].queue,
                     client[p].held, client[p].session, client[p].seq)
    BY <1>2, <2>2 DEF Becomes, Fields, Ordinary
  <2> QED
    BY <1>1, <1>12, <2>1, <2>2, ExitBeginsDoes
<1>13. ASSUME NEW p \in Processes, OtherRegisters(p) \/ OtherInstalls(p)
      PROVE  \A r \in Processes : Ordinary(r)
  BY <1>3, <1>13 DEF OtherRegisters, OtherInstalls, clientVars
<1>14. ASSUME NEW p \in Processes, NEW q \in Processes, Fork(p, q)
      PROVE  \A r \in Processes : Ordinary(r)
  <2>1. client[p] \in ClientState /\ client[p].state \in States
    BY <1>1, FieldTypes DEF TypeOK
  <2>2. /\ client'[q] = IF handlers[p] THEN Rebuilt(client[p], sessions + 1)
                                        ELSE Copied(client[p])
        /\ \A r \in Processes \ {q} : client'[r] = client[r]
    BY <1>1, <1>14, ForkDoes
  <2>3. PICK n \in Nat : n = sessions + 1
    BY <1>1
  <2>4. connection'[q] = IF handlers[p] /\ client[p].state \in {"open", "closing"}
                         THEN 0 ELSE connection[p]
    BY <1>1, <1>14 DEF Fork, ForkConnection, Wired
  <2>5. CASE client[p].state \in Unmade
    <3>1. client'[q] = Absent
      BY <2>1, <2>2, <2>3, <2>5, CopiedIs, RebuiltIs
    <3>2. Fields(client'[q], "absent", FALSE, "free", {}, {}, 0, 0)
      BY <3>1, AbsentIs
    <3> QED
      BY <1>2, <2>2, <3>2 DEF Ordinary, Fields
  <2>6. CASE handlers[p] /\ client[p].state \in {"open", "closing"}
    <3>1. Fields(Rebuilt(client[p], n), "open", TRUE, "free", {}, {}, n, 0)
      BY <2>1, <2>6, RebuiltIs
    <3>2. client'[q] = Rebuilt(client[p], n) /\ connection'[q] = 0 /\ n > sessions
      BY <1>1, <2>2, <2>3, <2>4, <2>6
    <3> QED
      BY <1>2, <2>2, <3>1, <3>2 DEF Ordinary, Fields
  <2>7. CASE handlers[p] /\ client[p].state = "closed"
    <3>1. Fields(Rebuilt(client[p], n), "closed", FALSE, "free", client[p].queue, {},
                 client[p].session, client[p].seq)
      BY <2>1, <2>7, RebuiltIs
    <3>2. client'[q] = Rebuilt(client[p], n)
      BY <2>2, <2>3, <2>7
    <3> QED
      BY <1>2, <2>2, <3>1, <3>2 DEF Ordinary, Fields
  <2>8. CASE ~handlers[p] /\ client[p].state \notin Unmade
    <3>1. Fields(Copied(client[p]), client[p].state, FALSE,
                 IF client[p].lock = "free" THEN "free" ELSE "lost",
                 client[p].queue, {}, client[p].session, client[p].seq)
      BY <2>1, <2>8, CopiedIs
    <3>2. client'[q] = Copied(client[p])
      BY <2>2, <2>8
    <3> QED
      BY <1>2, <2>2, <3>1, <3>2 DEF Ordinary, Fields
  <2> QED
    BY <2>1, <2>5, <2>6, <2>7, <2>8 DEF States, InUse
<1>15. ASSUME NEW p \in Processes, Exit(p) PROVE \A r \in Processes : Ordinary(r)
  <2>1. client'[p] = Absent /\ \A r \in Processes \ {p} : client'[r] = client[r]
    BY <1>1, <1>15, ExitDoes
  <2>2. Fields(client'[p], "absent", FALSE, "free", {}, {}, 0, 0)
    BY <2>1, AbsentIs
  <2> QED
    BY <1>2, <2>1, <2>2 DEF Ordinary, Fields
<1>16. ASSUME UNCHANGED clientVars
      PROVE  \A r \in Processes : Ordinary(r)
  BY <1>3, <1>16 DEF clientVars
<1> QED
  BY <1>4, <1>5, <1>6, <1>7, <1>8, <1>9, <1>10, <1>11, <1>12, <1>13, <1>14, <1>15, <1>16
  DEF Next, Recorded, EndpointStep, vars

\* A call that ends, or a flush, starts and ends no worker.
LEMMA RecordedWorkers ==
    ASSUME ConnectedInv, Recorded
    PROVE  \A r \in Processes : client'[r].worker = client[r].worker
<1>1. TypeOK
  BY DEF ConnectedInv, Types
<1>2. PICK p \in Processes : RecordEnds(p) \/ Flushes(p)
  BY DEF Recorded
<1>3. /\ client'[p].worker = client[p].worker
      /\ \A r \in Processes \ {p} : client'[r] = client[r]
  <2>1. CASE RecordEnds(p)
    BY <1>1, <2>1, RecordEndsDoes DEF Becomes, Fields
  <2>2. CASE Flushes(p)
    BY <1>1, <2>2, FlushesDo DEF Flushed, Becomes, Fields
  <2> QED
    BY <1>2, <2>1, <2>2
<1> QED
  BY <1>3

\* A process that takes a worker has no connection yet.
LEMMA WorkersStay ==
    ASSUME ConnectedInv, [Next]_vars, NEW r \in Processes, client'[r].worker
    PROVE  client[r].worker \/ connection'[r] = 0
BY OrdinarySteps, RecordedWorkers DEF Ordinary

LEMMA InitSockets ==
    ASSUME Init
    PROVE  SocketsInv
BY AbsentIs DEF Init, ConnectionInit, SocketsInv, Exchange, Fields

\* A socket nothing happens to.
LEMMA SocketLeft ==
    ASSUME SocketsInv, NEW s \in DOMAIN sockets, sockets'[s] = sockets[s], outcomes \subseteq outcomes'
    PROVE  Answered(s)'
<1>1. Answered(s)
  BY DEF SocketsInv
<1> QED
  BY <1>1 DEF Answered

\* A process whose exchange nothing happens to.
LEMMA ExchangeLeft ==
    ASSUME ConnectedInv, SocketsInv, [Next]_vars, NEW r \in Processes,
           client'[r].worker => connection'[r] \in {0, connection[r]},
           waiting'[r] = waiting[r] \/ connection'[r] = 0,
           connection[r] # 0 => sockets'[connection[r]] = sockets[connection[r]]
    PROVE  Exchange(r)'
<1>1. Exchange(r)
  BY DEF SocketsInv
<1>2. client'[r].worker => client[r].worker \/ connection'[r] = 0
  BY WorkersStay
<1> QED
  BY <1>1, <1>2 DEF Exchange, Waits

LEMMA NextSockets ==
    ASSUME ConnectedInv, ConnectedInv', SocketsInv, [Next]_vars
    PROVE  SocketsInv'
<1>1. /\ TypeOK /\ Wired /\ Len(sockets) \in Nat /\ DOMAIN sockets = 1..Len(sockets)
      /\ \A r \in Processes : connection[r] \in 0..Len(sockets)
  BY TypesWired, LenProperties DEF ConnectedInv, Types, Wired
<1>2. DOMAIN sockets' = 1..Len(sockets')
  BY LenProperties DEF ConnectedInv, Types
<1>3. ASSUME UNCHANGED <<sockets, outcomes>>,
             \A r \in Processes : client'[r].worker => connection'[r] \in {0, connection[r]},
             \A r \in Processes : waiting'[r] = waiting[r] \/ connection'[r] = 0
      PROVE  SocketsInv'
  <2>1. \A r \in Processes : Exchange(r)'
    BY <1>3, ExchangeLeft
  <2>2. \A s \in DOMAIN sockets : Answered(s)'
    BY <1>3, SocketLeft
  <2> QED
    BY <1>3, <2>1, <2>2 DEF SocketsInv
<1>4. ASSUME NEW p \in Processes, NEW b \in Batch, Request(p, b), client[p].worker,
             \A r \in Processes : client'[r].worker = client[r].worker
      PROVE  SocketsInv'
  <2>1. client[p].worker /\ ~Waits(p) /\ \A r \in Processes : client'[r].worker = client[r].worker
    BY <1>4 DEF Request
  <2>3. PICK s \in Nat \ {0} : Requested(p, b, s)
    BY <1>1, <1>4, RequestDoes
  <2>4. /\ connection'[p] = s /\ waiting'[p] = b /\ outcomes' = outcomes
        /\ \A r \in Processes \ {p} : connection'[r] = connection[r] /\ waiting'[r] = waiting[r]
    BY <1>1, <1>4, <2>3 DEF Requested, Wired, Request
  <2>5. \A t \in 1..Len(sockets) : t # s => sockets'[t] = sockets[t]
    BY <1>1, <2>3 DEF Requested, OneSocket
  <2>6. ASSUME NEW r \in Processes \ {p} PROVE Exchange(r)'
    <3>1. CASE connection[r] = s
      <4>1. connection[p] = s
        BY <1>1, <2>3, <3>1 DEF Requested
      <4>2. ~client[r].worker
        BY <2>1, <3>1, <4>1 DEF ConnectedInv, ConnectionsInv, OneWorker
      <4> QED
        BY <2>1, <4>2 DEF Exchange
    <3>2. CASE connection[r] # s
      BY <1>1, <2>4, <2>5, <3>2, ExchangeLeft
    <3> QED
      BY <3>1, <3>2
  <2>7. PICK old \in Socket :
          /\ sockets'[s] = Written(old, b)
          /\ (old = sockets[s] /\ connection[p] = s /\ s \in 1..Len(sockets))
               \/ (old = NewSocket /\ s = Len(sockets) + 1)
    <3>1. \A t \in 1..Len(sockets) : sockets[t] \in Socket
      BY <1>1, ElementOfSeq DEF Wired
    <3> QED
      BY <1>1, <2>3, <3>1, NewSocketIs DEF Requested, OneSocket
  <2>8. ~old.ended => old.requests = << >> /\ old.answers = << >>
    <3>1. Exchange(p)
      BY DEF SocketsInv
    <3> QED
      BY <2>1, <2>7, <3>1, NewSocketIs DEF Exchange, SocketFields
  <2>9. Exchange(p)'
    <3>1. SUFFICES ASSUME ~sockets'[s].ended
                   PROVE  sockets'[s].requests = <<waiting'[p]>> /\ sockets'[s].answers = << >>
      <4>1. waiting'[p] # NoRequest
        BY <2>4, NoRequestIsNone
      <4> QED
        BY <2>4, <4>1 DEF Exchange, Waits
    <3>2. ~old.ended
      BY <2>7, <3>1, WrittenIs
    <3>3. SocketFields(sockets'[s], Append(old.requests, b), old.answers, FALSE)
      BY <2>7, <3>2, WrittenIs, SocketTypes DEF SocketFields
    <3>4. Append(<< >>, b) = <<b>>
      OBVIOUS
    <3> QED
      BY <2>4, <2>8, <3>2, <3>3, <3>4 DEF SocketFields
  <2>10. Answered(s)'
    <3>1. /\ sockets'[s].answers = old.answers /\ sockets'[s].ended = old.ended
      BY <2>7, WrittenIs DEF SocketFields
    <3>2. CASE old = sockets[s] /\ s \in 1..Len(sockets)
      <4>1. Answered(s)
        BY <1>1, <3>2 DEF SocketsInv
      <4> QED
        BY <2>4, <3>1, <3>2, <4>1 DEF Answered
    <3>3. CASE old = NewSocket
      <4>1. sockets'[s].answers = << >>
        BY <3>1, <3>3, NewSocketIs DEF SocketFields
      <4> QED
        BY <4>1 DEF Answered
    <3> QED
      BY <2>7, <3>2, <3>3
  <2>11. \A t \in DOMAIN sockets' : t # s => t \in DOMAIN sockets
    <3>1. Len(sockets') = Len(sockets) \/ (s = Len(sockets) + 1 /\ Len(sockets') = s)
      BY <2>3 DEF Requested, OneSocket
    <3>2. ASSUME NEW t \in 1..Len(sockets'), t # s PROVE t \in 1..Len(sockets)
      BY <1>1, <3>1, <3>2
    <3> QED
      BY <1>1, <1>2, <3>2
  <2>12. ASSUME NEW t \in DOMAIN sockets', t # s PROVE Answered(t)'
    BY <1>1, <2>4, <2>5, <2>11, <2>12, SocketLeft
  <2> QED
    BY <2>6, <2>9, <2>10, <2>12 DEF SocketsInv
<1>5. ASSUME NEW p \in Processes, NEW accepted \in BOOLEAN, Receive(p, accepted)
      PROVE  SocketsInv'
  <2>1. PICK s \in 1..Len(sockets) : s = connection[p]
    BY <1>1, <1>5 DEF ConnectedInv, Types, Receive, HasAnswer
  <2>2. Received(p, accepted)
    BY <1>1, <1>5, <2>1, ReceiveDoes
  <2>3. PICK old \in Socket : old = sockets[s]
    BY <1>1, ElementOfSeq DEF Wired
  <2>4. /\ OneSocket(s, sockets'[s]) /\ old.answers # << >>
        /\ SocketFields(sockets'[s], old.requests, Tail(old.answers), old.ended)
        /\ connection' = connection /\ outcomes' = outcomes
        /\ waiting'[p] = NoRequest /\ \A r \in Processes \ {p} : waiting'[r] = waiting[r]
    BY <1>1, <1>5, <2>1, <2>2, <2>3 DEF Received, Wired, Receive
  <2>5. client[p].worker
    BY <2>2 DEF Received, ConnectedInv, ConnectionsInv, Connected
  <2>6. Answered(s) /\ Exchange(p)
    BY <1>1 DEF SocketsInv
  <2>7. old.requests = << >> /\ Len(old.answers) = 1
    BY <2>1, <2>3, <2>4, <2>5, <2>6 DEF Answered, Exchange
  <2>8. Tail(old.answers) = << >>
    <3>1. Tail(old.answers) \in Seq(Answer) /\ Len(Tail(old.answers)) = 0
      BY <2>4, <2>7, SocketTypes, HeadTailProperties
    <3> QED
      BY <3>1, EmptySeq
  <2>9. Exchange(p)'
    BY <2>1, <2>4, <2>7, <2>8 DEF Exchange, SocketFields
  <2>10. ASSUME NEW r \in Processes \ {p} PROVE Exchange(r)'
    <3>1. CASE connection[r] = s
      <4>1. ~client[r].worker
        BY <2>1, <2>5, <3>1 DEF ConnectedInv, ConnectionsInv, OneWorker
      <4>2. client'[r].worker => connection'[r] = 0
        BY <4>1, WorkersStay
      <4> QED
        BY <4>2 DEF Exchange
    <3>2. CASE connection[r] # s
      BY <1>1, <2>4, <3>2, ExchangeLeft DEF OneSocket
    <3> QED
      BY <3>1, <3>2
  <2>11. Answered(s)'
    BY <2>4, <2>8 DEF Answered, SocketFields
  <2>12. ASSUME NEW t \in DOMAIN sockets, t # s PROVE Answered(t)'
    BY <1>1, <2>4, <2>12, SocketLeft DEF OneSocket
  <2>13. DOMAIN sockets' = DOMAIN sockets
    BY <1>1, <1>2, <2>4 DEF OneSocket
  <2> QED
    BY <2>9, <2>10, <2>11, <2>12, <2>13 DEF SocketsInv
<1>6. ASSUME NEW p \in Processes, DropConnection(p), UNCHANGED outcomes,
             \A r \in Processes \ {p} : waiting'[r] = waiting[r]
      PROVE  SocketsInv'
  <2>1. Dropped(p)
    BY <1>1, <1>6, DropDoes
  <2>2. connection'[p] = 0 /\ \A r \in Processes \ {p} : connection'[r] = connection[r]
    BY <1>1, <2>1 DEF Dropped, Wired
  <2>3. CASE connection[p] = 0
    <3>1. sockets' = sockets
      BY <2>1, <2>3 DEF Dropped
    <3>2. \A r \in Processes : waiting'[r] = waiting[r] \/ connection'[r] = 0
      BY <1>6, <2>2
    <3>3. \A r \in Processes : connection'[r] \in {0, connection[r]}
      BY <2>2
    <3> QED
      BY <1>3, <1>6, <3>1, <3>2, <3>3
  <2>4. CASE connection[p] # 0
    <3>1. PICK s \in 1..Len(sockets) : s = connection[p]
      BY <1>1, <2>4
    <3>2. OneSocket(s, sockets'[s]) /\ sockets'[s].answers = << >> /\ sockets'[s].ended
      BY <2>1, <2>4, <3>1 DEF Dropped, SocketFields
    <3>3. Exchange(p)'
      BY <2>2 DEF Exchange
    <3>4. ASSUME NEW r \in Processes \ {p} PROVE Exchange(r)'
      <4>1. CASE connection[r] = s
        BY <2>2, <3>2, <4>1 DEF Exchange
      <4>2. CASE connection[r] # s
        BY <1>1, <1>6, <2>2, <3>2, <4>2, ExchangeLeft DEF OneSocket
      <4> QED
        BY <4>1, <4>2
    <3>5. Answered(s)'
      BY <3>2 DEF Answered
    <3>6. ASSUME NEW t \in DOMAIN sockets, t # s PROVE Answered(t)'
      BY <1>1, <1>6, <3>2, <3>6, SocketLeft DEF OneSocket
    <3>7. DOMAIN sockets' = DOMAIN sockets
      BY <1>1, <1>2, <3>2 DEF OneSocket
    <3> QED
      BY <3>3, <3>4, <3>5, <3>6, <3>7 DEF SocketsInv
  <2> QED
    BY <2>3, <2>4
<1>7. ASSUME NEW s \in DOMAIN sockets, EndpointStep(s)
      PROVE  SocketsInv'
  <2>1. PICK accepted \in BOOLEAN, lost \in SUBSET Events :
            /\ Pending(s) /\ Answers(s, accepted, lost)
            /\ outcomes \subseteq outcomes'
            /\ accepted => [id |-> Head(sockets[s].requests).id, lost |-> lost] \in outcomes'
    BY <1>7, EndpointAnswers DEF ConnectedInv
  <2>0. AnsweredOn(s, accepted, lost)
    BY <1>1, <1>7, <2>1, AnswersDoes
  <2>2. PICK old \in Socket : old = sockets[s]
    BY <1>1, ElementOfSeq DEF Wired
  <2>3. PICK answer : answer = [id |-> Head(old.requests).id, accepted |-> accepted,
                                lost |-> lost]
    OBVIOUS
  <2>4. /\ OneSocket(s, sockets'[s]) /\ old.requests # << >>
        /\ SocketFields(sockets'[s], Tail(old.requests),
                        IF old.ended THEN << >> ELSE Append(old.answers, answer), old.ended)
        /\ connection' = connection /\ waiting' = waiting /\ client' = client
    BY <1>7, <2>0, <2>2, <2>3 DEF AnsweredOn, EndpointStep, clientVars
  <2>5. outcomes \subseteq outcomes'
        /\ (accepted => [id |-> Head(old.requests).id, lost |-> lost] \in outcomes')
    BY <2>1, <2>2
  <2>6. answer \in Answer /\ answer.id = Head(old.requests).id /\ answer.accepted = accepted
        /\ answer.lost = lost
    <3>1. Head(old.requests) \in Batch
      BY <2>4, SocketTypes, HeadTailProperties
    <3> QED
      BY <2>3, <3>1 DEF Answer, Batch
  <2>7. ASSUME NEW p \in Processes PROVE Exchange(p)'
    <3>1. CASE connection[p] # s
      BY <1>1, <2>4, <3>1, ExchangeLeft DEF OneSocket
    <3>2. CASE connection[p] = s
      <4> SUFFICES ASSUME client[p].worker, ~sockets'[s].ended
                   PROVE  /\ Waits(p) /\ sockets'[s].requests = << >>
                          /\ Len(sockets'[s].answers) = 1
                          /\ Head(sockets'[s].answers).id = waiting[p].id
        BY <2>4, <3>2 DEF Exchange, Waits
      <4>1. ~old.ended /\ Exchange(p) /\ connection[p] # 0
        BY <1>1, <2>4, <3>2 DEF SocketFields, SocketsInv
      <4>2. Waits(p) /\ old.requests = <<waiting[p]>> /\ old.answers = << >>
        BY <2>2, <2>4, <3>2, <4>1 DEF Exchange
      <4>3. Head(old.requests) = waiting[p] /\ Tail(old.requests) = << >>
        BY <4>2
      <4>4. Append(old.answers, answer) = <<answer>>
        BY <4>2
      <4>5. sockets'[s].requests = << >> /\ sockets'[s].answers = <<answer>>
        BY <2>4, <4>1, <4>3, <4>4 DEF SocketFields
      <4>6. Len(<<answer>>) = 1 /\ Head(<<answer>>) = answer
        OBVIOUS
      <4> QED
        BY <2>6, <4>2, <4>3, <4>5, <4>6
    <3> QED
      BY <3>1, <3>2
  <2>8. Answered(s)'
    <3>1. Answered(s)
      BY DEF SocketsInv
    <3>2. CASE old.ended
      BY <2>4, <3>2 DEF Answered, SocketFields
    <3>3. CASE ~old.ended
      <4>1. PICK answers \in Seq(Answer) : answers = Append(old.answers, answer)
        BY <2>6, SocketTypes, AppendProperties
      <4>2. sockets'[s].answers = answers /\ ~sockets'[s].ended
        BY <2>4, <3>3, <4>1 DEF SocketFields
      <4>3. /\ old.answers \in Seq(Answer) /\ Len(answers) = Len(old.answers) + 1
            /\ \A i \in 1..Len(old.answers) : answers[i] = old.answers[i]
            /\ answers[Len(old.answers) + 1] = answer
        BY <2>6, <4>1, SocketTypes, AppendProperties
      <4>4. /\ DOMAIN answers = 1..Len(answers) /\ DOMAIN old.answers = 1..Len(old.answers)
            /\ Len(old.answers) \in Nat
        BY <4>1, <4>3, LenProperties
      <4>5. ASSUME NEW i \in DOMAIN answers, answers[i].accepted
            PROVE  [id |-> answers[i].id, lost |-> answers[i].lost] \in outcomes'
        <5>1. CASE i \in 1..Len(old.answers)
          BY <2>2, <2>5, <3>1, <4>3, <4>4, <4>5, <5>1 DEF Answered
        <5>2. CASE i = Len(old.answers) + 1
          BY <2>5, <2>6, <4>3, <4>5, <5>2
        <5> QED
          BY <4>3, <4>4, <5>1, <5>2
      <4> QED
        BY <4>2, <4>5 DEF Answered
    <3> QED
      BY <3>2, <3>3
  <2>9. ASSUME NEW t \in DOMAIN sockets, t # s PROVE Answered(t)'
    BY <1>1, <2>4, <2>5, <2>9, SocketLeft DEF OneSocket
  <2>10. DOMAIN sockets' = DOMAIN sockets
    BY <1>1, <1>2, <2>4 DEF OneSocket
  <2> QED
    BY <2>7, <2>8, <2>9, <2>10 DEF SocketsInv
<1>8. ASSUME UNCHANGED connectionVars PROVE SocketsInv'
  BY <1>3, <1>8 DEF connectionVars
<1>9. ASSUME NEW p \in Processes, CloseReturns(p) \/ CloseOutOfTime(p) PROVE SocketsInv'
  BY <1>6, <1>9 DEF CloseReturns, CloseOutOfTime, Joins, CloseTransport
<1>a. ASSUME NEW p \in Processes, Restate(p), client' = client
      PROVE  SocketsInv'
  <2>1. PICK s \in 1..Len(sockets) : s = connection[p]
    BY <1>1, <1>a DEF ConnectedInv, Types, Restate, HasAnswer
  <2>2. Restated(p)
    BY <1>1, <1>a, <2>1, RestateDoes
  <2>3. PICK old \in Socket : old = sockets[s]
    BY <1>1, ElementOfSeq DEF Wired
  <2>4. /\ OneSocket(s, sockets'[s]) /\ old.answers # << >> /\ Waits(p)
        /\ sockets'[s].answers = Tail(old.answers) /\ sockets'[s].ended = old.ended
        /\ sockets'[s].requests = IF old.ended THEN old.requests
                                  ELSE Append(old.requests, waiting[p])
        /\ connection' = connection /\ waiting' = waiting /\ outcomes' = outcomes
    BY <1>a, <2>1, <2>2, <2>3 DEF Restated, Restate
  <2>5. client[p].worker
    BY <2>4 DEF ConnectedInv, ConnectionsInv, Connected
  <2>6. Answered(s) /\ Exchange(p)
    BY <1>1 DEF SocketsInv
  <2>7. ~old.ended /\ old.requests = << >> /\ Len(old.answers) = 1
    BY <2>1, <2>3, <2>4, <2>5, <2>6 DEF Answered, Exchange
  <2>8. Tail(old.answers) = << >>
    <3>1. Tail(old.answers) \in Seq(Answer) /\ Len(Tail(old.answers)) = 0
      BY <2>4, <2>7, SocketTypes, HeadTailProperties
    <3> QED
      BY <3>1, EmptySeq
  <2>9. sockets'[s].requests = <<waiting[p]>> /\ sockets'[s].answers = << >>
    BY <2>4, <2>7, <2>8
  <2>10. Exchange(p)'
    BY <2>1, <2>4, <2>9 DEF Exchange, Waits
  <2>11. ASSUME NEW r \in Processes \ {p} PROVE Exchange(r)'
    <3>1. CASE connection[r] = s
      <4>1. ~client[r].worker
        BY <2>1, <2>5, <3>1 DEF ConnectedInv, ConnectionsInv, OneWorker
      <4> QED
        BY <1>a, <4>1 DEF Exchange
    <3>2. CASE connection[r] # s
      BY <1>1, <2>4, <3>2, ExchangeLeft DEF OneSocket
    <3> QED
      BY <3>1, <3>2
  <2>12. Answered(s)'
    BY <2>9 DEF Answered
  <2>13. ASSUME NEW t \in DOMAIN sockets, t # s PROVE Answered(t)'
    BY <1>1, <2>4, <2>13, SocketLeft DEF OneSocket
  <2>14. DOMAIN sockets' = DOMAIN sockets
    BY <1>1, <1>2, <2>4 DEF OneSocket
  <2> QED
    BY <2>10, <2>11, <2>12, <2>13, <2>14 DEF SocketsInv
<1>10. ASSUME NEW p \in Processes, WorkerStep(p) PROVE SocketsInv'
  <2>1. CASE \E accepted \in BOOLEAN : Receive(p, accepted)
    BY <1>5, <2>1
  <2>2. CASE Fail(p)
    <3>1. \A r \in Processes \ {p} : waiting'[r] = waiting[r]
      BY <1>1, <2>2 DEF Fail, Wired
    <3> QED
      BY <1>6, <2>2, <3>1 DEF Fail
  <2>3. CASE FlushSends(p) \/ Replay(p)
    <3>1. client[p].held \in SUBSET Batch /\ NewBatch(p) \in Batch
      BY <1>1, NewBatchIs, FieldTypes DEF TypeOK
    <3>2. client[p].worker
      BY <1>1, <1>10, WorkerDoes DEF Works
    <3>3. \A r \in Processes : client'[r].worker = client[r].worker
      BY <2>3, RecordedWorkers DEF Recorded, Flushes, Replay, clientVars
    <3>4. \E b \in Batch : Request(p, b)
      BY <2>3, <3>1 DEF FlushSends, Replay
    <3> QED
      BY <1>4, <3>2, <3>3, <3>4
  <2>4. CASE SendRestated(p)
    BY <1>a, <2>4 DEF SendRestated, clientVars
  <2>5. CASE UNCHANGED connectionVars
    BY <1>8, <2>5
  <2> QED
    BY <1>10, <2>1, <2>2, <2>3, <2>4, <2>5
    DEF WorkerStep, Delivered, NotDelivered, StopIngest, FlushBuffers, FlushDiscards, Prune,
        DrainBegins, QueueDrained, MovesTo, WorkerEnds
<1>11. ASSUME NEW p \in Processes, NEW q \in Processes, Fork(p, q) PROVE SocketsInv'
  <2>1. /\ UNCHANGED <<sockets, waiting, outcomes>>
        /\ \A r \in Processes \ {q} : connection'[r] = connection[r]
    BY <1>1, <1>11 DEF Fork, ForkConnection, Wired
  <2>2. ~client[q].worker
    <3>1. client[q] = Absent
      BY <1>11 DEF Fork, ConnectedInv, ProcessesInv, Proper, Made
    <3> QED
      BY <3>1, AbsentIs DEF Fields
  <2>3. client'[q].worker => connection'[q] = 0
    BY <2>2, WorkersStay
  <2> QED
    BY <1>3, <2>1, <2>3
<1>12. ASSUME NEW p \in Processes, Exit(p) PROVE SocketsInv'
  <2>1. /\ UNCHANGED <<sockets, outcomes>> /\ connection'[p] = 0
        /\ \A r \in Processes \ {p} : connection'[r] = connection[r] /\ waiting'[r] = waiting[r]
    BY <1>1, <1>12 DEF Exit, Wired
  <2> QED
    BY <1>3, <2>1
<1>13. ASSUME NEW p \in Processes,
              \/ Create(p) \/ Register(p) \/ InstallHandlers(p) \/ OtherRegisters(p)
              \/ OtherInstalls(p) \/ RecordBegins(p) \/ RecordEnds(p) \/ Close(p)
              \/ CloseTimesOut(p) \/ ExitBegins(p)
       PROVE  SocketsInv'
  <2>1. UNCHANGED connectionVars
    BY <1>13 DEF Create, Register, InstallHandlers, OtherRegisters, OtherInstalls, RecordBegins,
       RecordEnds, Close, CloseTimesOut, ExitBegins
  <2> QED
    BY <1>8, <2>1
<1>14. CASE UNCHANGED vars
  BY <1>8, <1>14 DEF vars
<1> QED
  BY <1>7, <1>9, <1>10, <1>11, <1>12, <1>13, <1>14 DEF Next

\* The invariant as far as sockets.
ExchangedInv == ConnectedInv /\ SocketsInv

LEMMA AlwaysExchanged == Spec => []ExchangedInv
<1>1. Init => SocketsInv
  BY InitSockets
<1>2. ConnectedInv /\ ConnectedInv' /\ SocketsInv /\ [Next]_vars => SocketsInv'
  BY NextSockets
<1> QED
  BY <1>1, <1>2, AlwaysConnected, PTL DEF Spec, ExchangedInv

\* The answer a transport is about to read is the answer to its own request, however
\* many requests it has given up on and whatever copies of it there are.
THEOREM AnswersAreMine == Spec => []AnswerIsMine
<1>1. ExchangedInv => AnswerIsMine
  <2> SUFFICES ASSUME ExchangedInv, NEW p \in Processes, Waits(p),
                      sockets[connection[p]].answers # << >>
               PROVE  Head(sockets[connection[p]].answers).id = waiting[p].id
    BY DEF AnswerIsMine
  <2>1. client[p].worker /\ connection[p] # 0
    BY DEF ExchangedInv, ConnectedInv, ConnectionsInv, Connected
  <2>2. connection[p] \in DOMAIN sockets
    <3>1. Wired /\ Len(sockets) \in Nat /\ DOMAIN sockets = 1..Len(sockets)
      BY TypesWired, LenProperties DEF ExchangedInv, ConnectedInv, Types, Wired
    <3> QED
      BY <2>1, <3>1 DEF Wired
  <2>3. Answered(connection[p]) /\ Exchange(p)
    BY <2>2 DEF ExchangedInv, SocketsInv
  <2> QED
    BY <2>1, <2>3 DEF Answered, Exchange
<1> QED
  BY <1>1, AlwaysExchanged, PTL

-----------------------------------------------------------------------------
(***************************************************************************)
(* Batches.                                                                *)
(***************************************************************************)
LEMMA HeldAround ==
    ASSUME NEW p \in Processes
    PROVE  client[p].held \subseteq Around
BY DEF Around

LEMMA RequestsAround ==
    ASSUME NEW s \in DOMAIN sockets
    PROVE  Range(sockets[s].requests) \subseteq Around
BY DEF Around

LEMMA AroundTyped ==
    ASSUME Types
    PROVE  Around \subseteq Batch
<1>1. ASSUME NEW p \in Processes PROVE client[p].held \subseteq Batch
  BY FieldTypes DEF Types, TypeOK
<1>2. ASSUME NEW s \in DOMAIN sockets PROVE Range(sockets[s].requests) \subseteq Batch
  <2>1. sockets[s] \in Socket
    BY LenProperties, ElementOfSeq DEF Types
  <2>2. sockets[s].requests \in Seq(Batch)
    BY <2>1, SocketTypes
  <2> QED
    BY <2>2, LenProperties, ElementOfSeq DEF Range
<1> QED
  BY <1>1, <1>2 DEF Around

LEMMA IdsTyped ==
    ASSUME Types, NEW id \in Ids
    PROVE  id \in Nat \X Nat /\ id[1] \in Nat /\ id[2] \in Nat
<1>1. id \in Nat \X Nat
  <2>1. CASE \E o \in outcomes : id = o.id
    BY <2>1 DEF Types, Outcome
  <2>2. CASE \E b \in Around : id = b.id
    BY <2>2, AroundTyped DEF Batch
  <2> QED
    BY <2>1, <2>2 DEF Ids
<1> QED
  BY <1>1

LEMMA SessionsGrow ==
    ASSUME Types, [Next]_vars
    PROVE  sessions \in Nat /\ sessions' \in Nat /\ sessions <= sessions'
<1>1. sessions \in Nat
  BY DEF Types, TypeOK
<1>2. ASSUME NEW p \in Processes, NEW q \in Processes, Create(p) \/ Fork(p, q)
      PROVE  sessions' = sessions + 1
  BY <1>2 DEF Create, Fork
<1>3. ASSUME NEW p \in Processes,
             \/ Register(p) \/ InstallHandlers(p) \/ OtherRegisters(p)
             \/ OtherInstalls(p) \/ RecordBegins(p) \/ RecordEnds(p) \/ Close(p)
             \/ CloseTimesOut(p) \/ ExitBegins(p)
      PROVE  sessions' = sessions
  BY <1>3 DEF Register, InstallHandlers, OtherRegisters, OtherInstalls, RecordBegins,
     RecordEnds, Close, CloseTimesOut, ExitBegins, clientVars
<1>4. ASSUME NEW p \in Processes,
             WorkerStep(p) \/ CloseReturns(p) \/ CloseOutOfTime(p) \/ Exit(p)
      PROVE  sessions' = sessions
  <2>1. TypeOK
    BY DEF Types
  <2> QED
    BY <1>4, <2>1, WorkerDoes DEF CloseReturns, CloseOutOfTime, Joins, Exit
<1>5. ASSUME UNCHANGED clientVars PROVE sessions' = sessions
  BY <1>5 DEF clientVars
<1>6. sessions' = sessions \/ sessions' = sessions + 1
  BY <1>2, <1>3, <1>4, <1>5 DEF Next, EndpointStep, vars
<1> QED
  BY <1>1, <1>6

\* The batches there are, and those a step makes.
Known == Around \cup (UNION {client'[p].held : p \in Processes})

\* Nothing is written to a socket but a batch that a client holds.
LEMMA RequestsKnown ==
    ASSUME NEW s \in DOMAIN sockets
    PROVE  Range(sockets[s].requests) \subseteq Known
BY RequestsAround DEF Known

LEMMA WrittenAround ==
    ASSUME ConnectedInv, ConnectedInv', [Next]_vars
    PROVE  \A s \in DOMAIN sockets' : Range(sockets'[s].requests) \subseteq Known
<1>1. /\ TypeOK /\ Wired /\ Len(sockets) \in Nat /\ DOMAIN sockets = 1..Len(sockets)
      /\ \A s \in 1..Len(sockets) : sockets[s] \in Socket
  BY TypesWired, LenProperties, ElementOfSeq DEF ConnectedInv, Types, Wired
<1>2. DOMAIN sockets' = 1..Len(sockets')
  BY LenProperties DEF ConnectedInv, Types
<1>3. ASSUME sockets' = sockets
      PROVE  \A s \in DOMAIN sockets' : Range(sockets'[s].requests) \subseteq Known
  BY <1>3, RequestsKnown
<1>4. ASSUME NEW s \in DOMAIN sockets, OneSocket(s, sockets'[s]),
             Range(sockets'[s].requests) \subseteq Known
      PROVE  \A t \in DOMAIN sockets' : Range(sockets'[t].requests) \subseteq Known
  <2>1. ASSUME NEW t \in DOMAIN sockets', t # s
        PROVE  Range(sockets'[t].requests) \subseteq Known
    <3>1. t \in DOMAIN sockets /\ sockets'[t] = sockets[t]
      BY <1>1, <1>2, <1>4, <2>1 DEF OneSocket
    <3> QED
      BY <3>1, RequestsKnown
  <2> QED
    BY <1>4, <2>1
<1>5. ASSUME NEW p \in Processes, NEW b \in Batch, Request(p, b), b \in client'[p].held
      PROVE  \A t \in DOMAIN sockets' : Range(sockets'[t].requests) \subseteq Known
  <2>2. b \in Known
    BY <1>5 DEF Known
  <2>3. PICK s \in Nat \ {0} : Requested(p, b, s)
    BY <1>1, <1>5, RequestDoes
  <2>4. ASSUME NEW old \in Socket, Range(old.requests) \subseteq Known
        PROVE  Range(Written(old, b).requests) \subseteq Known
    <3>1. CASE old.ended
      BY <2>4, <3>1, WrittenIs
    <3>2. CASE ~old.ended
      <4>1. PICK requests \in Seq(Batch) : requests = Append(old.requests, b)
        BY SocketTypes, AppendProperties
      <4>2. Written(old, b).requests = requests
        BY <3>2, <4>1, WrittenIs DEF SocketFields
      <4>3. /\ old.requests \in Seq(Batch) /\ Len(requests) = Len(old.requests) + 1
            /\ \A i \in 1..Len(old.requests) : requests[i] = old.requests[i]
            /\ requests[Len(old.requests) + 1] = b
        BY <4>1, SocketTypes, AppendProperties
      <4>4. /\ DOMAIN requests = 1..Len(requests) /\ DOMAIN old.requests = 1..Len(old.requests)
            /\ Len(old.requests) \in Nat
        BY <4>1, <4>3, LenProperties
      <4>5. ASSUME NEW i \in DOMAIN requests PROVE requests[i] \in Known
        <5>1. CASE i \in 1..Len(old.requests)
          <6>1. old.requests[i] \in Range(old.requests)
            BY <4>4, <5>1 DEF Range
          <6> QED
            BY <2>4, <4>3, <5>1, <6>1
        <5>2. CASE i = Len(old.requests) + 1
          BY <2>2, <4>3, <5>2
        <5> QED
          BY <4>3, <4>4, <5>1, <5>2
      <4> QED
        BY <4>2, <4>5 DEF Range
    <3> QED
      BY <3>1, <3>2
  <2>5. CASE s \in DOMAIN sockets /\ OneSocket(s, Written(sockets[s], b))
    <3>1. sockets'[s] = Written(sockets[s], b) /\ OneSocket(s, sockets'[s])
      BY <2>5 DEF OneSocket
    <3>2. Range(sockets'[s].requests) \subseteq Known
      BY <1>1, <2>4, <2>5, <3>1, RequestsKnown
    <3> QED
      BY <1>4, <2>5, <3>1, <3>2
  <2>6. CASE /\ s = Len(sockets) + 1 /\ Len(sockets') = s
             /\ sockets'[s] = Written(NewSocket, b)
             /\ \A t \in 1..Len(sockets) : sockets'[t] = sockets[t]
    <3>1. Range(<< >>) = {}
      BY DEF Range
    <3>2. Range(sockets'[s].requests) \subseteq Known
      BY <2>4, <2>6, <3>1, NewSocketIs DEF SocketFields
    <3>3. ASSUME NEW t \in DOMAIN sockets', t # s
          PROVE  Range(sockets'[t].requests) \subseteq Known
      <4>1. t \in DOMAIN sockets
        BY <1>1, <1>2, <2>6, <3>3
      <4> QED
        BY <1>1, <2>6, <4>1, RequestsKnown
    <3> QED
      BY <3>2, <3>3
  <2> QED
    BY <1>1, <2>3, <2>5, <2>6 DEF Requested
<1>6. ASSUME NEW p \in Processes, NEW accepted \in BOOLEAN, Receive(p, accepted)
      PROVE  \A t \in DOMAIN sockets' : Range(sockets'[t].requests) \subseteq Known
  <2>1. PICK s \in DOMAIN sockets : s = connection[p]
    BY <1>1, <1>6 DEF ConnectedInv, Types, Receive, HasAnswer, Wired
  <2>2. Received(p, accepted)
    BY <1>1, <1>6, <2>1, ReceiveDoes
  <2>3. OneSocket(s, sockets'[s]) /\ sockets'[s].requests = sockets[s].requests
    BY <2>1, <2>2 DEF Received, SocketFields
  <2> QED
    BY <1>4, <2>3, RequestsKnown
<1>7. ASSUME NEW p \in Processes, DropConnection(p)
      PROVE  \A t \in DOMAIN sockets' : Range(sockets'[t].requests) \subseteq Known
  <2>1. Dropped(p)
    BY <1>1, <1>7, DropDoes
  <2>2. CASE connection[p] = 0
    BY <1>3, <2>1, <2>2 DEF Dropped
  <2>3. CASE connection[p] # 0
    <3>1. PICK s \in DOMAIN sockets : s = connection[p]
      BY <1>1, <2>3 DEF Wired
    <3>2. OneSocket(s, sockets'[s]) /\ sockets'[s].requests = sockets[s].requests
      BY <2>1, <2>3, <3>1 DEF Dropped, SocketFields
    <3> QED
      BY <1>4, <3>2, RequestsKnown
  <2> QED
    BY <2>2, <2>3
<1>a. ASSUME NEW p \in Processes, Restate(p)
      PROVE  \A t \in DOMAIN sockets' : Range(sockets'[t].requests) \subseteq Known
  <2>1. PICK s \in DOMAIN sockets : s = connection[p]
    BY <1>1, <1>a DEF ConnectedInv, Types, Restate, HasAnswer, Wired
  <2>2. Restated(p)
    BY <1>1, <1>a, <2>1, RestateDoes
  <2>3. /\ OneSocket(s, sockets'[s]) /\ Waits(p)
        /\ sockets'[s].requests = IF sockets[s].ended THEN sockets[s].requests
                                  ELSE Append(sockets[s].requests, waiting[p])
    BY <2>1, <2>2 DEF Restated
  <2>4. PICK old \in Seq(Batch) : old = sockets[s].requests
    BY <1>1, SocketTypes
  <2>5. PICK b \in Known : b = waiting[p] /\ b \in Batch
    <3>1. waiting[p] \in client[p].held
      BY <2>3 DEF ConnectedInv, ConnectionsInv, Connected
    <3> QED
      BY <1>1, <3>1, HeldAround, FieldTypes DEF Known, TypeOK
  <2>6. Range(old) \subseteq Known
    BY <2>4, RequestsKnown
  <2>a. /\ Append(old, b) \in Seq(Batch) /\ Len(Append(old, b)) = Len(old) + 1
        /\ Append(old, b)[Len(old) + 1] = b
        /\ \A i \in 1..Len(old) : Append(old, b)[i] = old[i]
    BY <2>5, AppendProperties
  <2>7. PICK new \in Seq(Batch) :
           /\ new = Append(old, b) /\ Len(new) = Len(old) + 1 /\ new[Len(old) + 1] = b
           /\ \A i \in 1..Len(old) : new[i] = old[i]
    BY <2>a
  <2>8. /\ DOMAIN new = 1..Len(new) /\ DOMAIN old = 1..Len(old) /\ Len(old) \in Nat
    BY LenProperties
  <2>9. ASSUME NEW i \in DOMAIN new PROVE new[i] \in Known
    <3>1. CASE i \in 1..Len(old)
      BY <2>6, <2>7, <2>8, <3>1 DEF Range
    <3>2. CASE i = Len(old) + 1
      BY <2>5, <2>7, <3>2
    <3> QED
      BY <2>7, <2>8, <3>1, <3>2
  <2>10. Range(new) \subseteq Known
    BY <2>9 DEF Range
  <2>11. sockets'[s].requests = old \/ sockets'[s].requests = new
    BY <2>3, <2>4, <2>5, <2>7
  <2>12. Range(sockets'[s].requests) \subseteq Known
    BY <2>6, <2>10, <2>11
  <2> QED
    BY <1>4, <2>3, <2>12
<1>8. ASSUME NEW s \in DOMAIN sockets, EndpointStep(s)
      PROVE  \A t \in DOMAIN sockets' : Range(sockets'[t].requests) \subseteq Known
  <2>0. PICK accepted \in BOOLEAN, lost \in SUBSET Events : Pending(s) /\ Answers(s, accepted, lost)
    BY <1>8, EndpointAnswers DEF ConnectedInv
  <2>1. AnsweredOn(s, accepted, lost)
    BY <1>1, <2>0, AnswersDoes
  <2>2. /\ OneSocket(s, sockets'[s]) /\ sockets[s].requests # << >>
        /\ sockets'[s].requests = Tail(sockets[s].requests)
    BY <2>1 DEF AnsweredOn, SocketFields
  <2>3. PICK old \in Seq(Batch) : old = sockets[s].requests
    BY <1>1, SocketTypes
  <2>4. PICK new \in Seq(Batch) : /\ new = Tail(old) /\ Len(new) = Len(old) - 1
                                  /\ \A i \in 1..Len(new) : new[i] = old[i + 1]
    <3>1. old # << >>
      BY <2>2, <2>3
    <3>2. /\ Tail(old) \in Seq(Batch) /\ Len(Tail(old)) = Len(old) - 1
          /\ \A i \in 1..Len(Tail(old)) : Tail(old)[i] = old[i + 1]
      BY <3>1, HeadTailProperties
    <3> QED
      BY <3>2
  <2>5. /\ DOMAIN new = 1..Len(new) /\ DOMAIN old = 1..Len(old)
        /\ Len(new) \in Nat /\ Len(old) \in Nat
    BY LenProperties
  <2>6. \A i \in DOMAIN new : new[i] \in Range(old)
    BY <2>4, <2>5 DEF Range
  <2>7. Range(new) \subseteq Range(old)
    BY <2>6 DEF Range
  <2>8. Range(sockets'[s].requests) \subseteq Known
    BY <2>2, <2>3, <2>4, <2>7, RequestsKnown
  <2> QED
    BY <1>4, <2>2, <2>8
<1>9. ASSUME NEW p \in Processes, NEW q \in Processes,
             \/ Create(p) \/ Register(p) \/ InstallHandlers(p) \/ OtherRegisters(p)
             \/ OtherInstalls(p) \/ RecordBegins(p) \/ RecordEnds(p) \/ Close(p)
             \/ CloseTimesOut(p) \/ ExitBegins(p) \/ Exit(p) \/ Fork(p, q)
      PROVE  \A t \in DOMAIN sockets' : Range(sockets'[t].requests) \subseteq Known
  <2>1. sockets' = sockets
    BY <1>9 DEF Create, Register, InstallHandlers, OtherRegisters, OtherInstalls, RecordBegins,
       RecordEnds, Close, CloseTimesOut, ExitBegins, Exit, Fork, ForkConnection, connectionVars
  <2> QED
    BY <1>3, <2>1
<1>10. ASSUME NEW p \in Processes, WorkerStep(p)
       PROVE  \A t \in DOMAIN sockets' : Range(sockets'[t].requests) \subseteq Known
  <2>1. CASE FlushSends(p)
    <3>1. NewBatch(p) \in Batch /\ client[p].held \cup {NewBatch(p)} \in SUBSET Batch
      BY <1>1, NewBatchIs, FieldTypes DEF TypeOK
    <3>2. client'[p].held = client[p].held \cup {NewBatch(p)}
      BY <1>1, <2>1, <3>1, FlushDoes DEF FlushSends, Flushed, Becomes, Fields
    <3> QED
      BY <1>5, <2>1, <3>1, <3>2 DEF FlushSends
  <2>2. CASE Replay(p)
    <3>1. PICK b \in client[p].held : Request(p, b)
      BY <2>2 DEF Replay
    <3>2. b \in Batch
      BY <1>1, FieldTypes DEF TypeOK
    <3>3. client' = client
      BY <2>2 DEF Replay, clientVars
    <3> QED
      BY <1>5, <3>1, <3>2, <3>3
  <2>3. CASE \E accepted \in BOOLEAN : Receive(p, accepted)
    BY <1>6, <2>3
  <2>4. CASE Fail(p)
    BY <1>7, <2>4 DEF Fail
  <2>5. CASE SendRestated(p)
    BY <1>a, <2>5 DEF SendRestated
  <2>6. CASE UNCHANGED connectionVars
    BY <1>3, <2>6 DEF connectionVars
  <2> QED
    BY <1>10, <2>1, <2>2, <2>3, <2>4, <2>5, <2>6
    DEF WorkerStep, Delivered, NotDelivered, StopIngest, FlushBuffers, FlushDiscards, Prune,
        DrainBegins, QueueDrained, MovesTo, WorkerEnds
<1>11. ASSUME NEW p \in Processes, CloseReturns(p) \/ CloseOutOfTime(p)
       PROVE  \A t \in DOMAIN sockets' : Range(sockets'[t].requests) \subseteq Known
  BY <1>7, <1>11 DEF CloseReturns, CloseOutOfTime, Joins, CloseTransport
<1>12. UNCHANGED vars => \A t \in DOMAIN sockets' : Range(sockets'[t].requests) \subseteq Known
  BY <1>3 DEF vars, connectionVars
<1> DEFINE Goal == \A t \in DOMAIN sockets' : Range(sockets'[t].requests) \subseteq Known
<1>13. \A p \in Processes : WorkerStep(p) \/ CloseReturns(p) \/ CloseOutOfTime(p) => Goal
  BY <1>10, <1>11
<1>14. \A p, q \in Processes :
          (\/ Create(p) \/ Register(p) \/ InstallHandlers(p) \/ OtherRegisters(p)
           \/ OtherInstalls(p) \/ RecordBegins(p) \/ RecordEnds(p) \/ Close(p)
           \/ CloseTimesOut(p) \/ ExitBegins(p) \/ Exit(p) \/ Fork(p, q)) => Goal
  BY <1>9
<1>15. \A s \in DOMAIN sockets : EndpointStep(s) => Goal
  BY <1>8
<1>16. UNCHANGED vars => Goal
  BY <1>12
<1> HIDE DEF Goal
<1>17. Goal
  BY <1>13, <1>14, <1>15, <1>16 DEF Next
<1> QED
  BY <1>17 DEF Goal

\* Only a flush makes a batch.
LEMMA AroundKept ==
    ASSUME ConnectedInv, ConnectedInv', [Next]_vars, ~Recorded
    PROVE  Around' \subseteq Around
<1>1. \A p \in Processes : client'[p].held \subseteq client[p].held
  BY OrdinarySteps DEF Ordinary
<1>2. \A p \in Processes : client'[p].held \subseteq Around
  BY <1>1, HeldAround
<1>3. Known \subseteq Around
  BY <1>2 DEF Known
<1>4. \A s \in DOMAIN sockets' : Range(sockets'[s].requests) \subseteq Around
  BY <1>3, WrittenAround
<1> QED
  BY <1>2, <1>4 DEF Around

LEMMA AroundBuilt ==
    ASSUME ConnectedInv, ConnectedInv', [Next]_vars, NEW p \in Processes,
           \A r \in Processes \ {p} : client'[r] = client[r]
    PROVE  Around' \subseteq Around \cup client'[p].held
<1>1. \A r \in Processes : client'[r].held \subseteq Around \cup client'[p].held
  BY HeldAround
<1>2. Known \subseteq Around \cup client'[p].held
  BY <1>1 DEF Known
<1>3. \A s \in DOMAIN sockets' : Range(sockets'[s].requests) \subseteq Around \cup client'[p].held
  BY <1>2, WrittenAround
<1> QED
  BY <1>1, <1>3 DEF Around

\* An id stays used, whatever the clients do but batch.
LEMMA UsedIds ==
    ASSUME ConnectedInv, [Next]_vars, ~Recorded, NEW id, id \in Nat \X Nat, IdUsed(id)
    PROVE  IdUsed(id)'
<1>1. id[1] \in Nat /\ id[2] \in Nat
  OBVIOUS
<1>2. sessions \in Nat /\ sessions' \in Nat /\ sessions <= sessions'
  BY SessionsGrow DEF ConnectedInv
<1>3. ASSUME NEW r \in Processes, client'[r].worker, client'[r].session = id[1]
      PROVE  id[2] <= client'[r].seq
  <2>1. Ordinary(r)
    BY OrdinarySteps
  <2>2. ~(client'[r].session > sessions)
    BY <1>1, <1>2, <1>3 DEF IdUsed
  <2> QED
    BY <1>3, <2>1, <2>2 DEF Ordinary, IdUsed
<1>4. id[1] <= sessions'
  BY <1>1, <1>2 DEF IdUsed
<1> QED
  BY <1>3, <1>4 DEF IdUsed

\* A step that makes no batch, stores nothing and records nothing.
LEMMA QuietBatches ==
    ASSUME ConnectedInv, ConnectedInv', BatchesInv, [Next]_vars, ~Recorded,
           UNCHANGED <<outcomes, stored, unrecorded>>,
           \A e \in confirmed' : stored[e] = 1
    PROVE  BatchesInv'
<1>1. Around' \subseteq Around
  BY AroundKept
<1>2. Ids' \subseteq Ids
  BY <1>1 DEF Ids
<1>3. \A r \in Processes : Ordinary(r)
  BY OrdinarySteps
<1>4. \A id \in Ids' : IdUsed(id)'
  BY <1>2, IdsTyped, UsedIds DEF BatchesInv, ConnectedInv
<1>5. \A b, c \in Around' : SameBatch(b, c)'
  BY <1>1 DEF BatchesInv, SameBatch
<1>6. \A b \in Around' : StoredAs(b)'
  BY <1>1 DEF BatchesInv, StoredAs
<1>7. \A e : Fresh(e) => Fresh(e)'
  BY <1>1 DEF Fresh
<1>8. \A e \in unrecorded' : Fresh(e)'
  BY <1>7 DEF BatchesInv
<1>9. ASSUME NEW p \in Processes, client'[p].worker, NEW e \in client'[p].queue
      PROVE  /\ Fresh(e)' /\ e \notin unrecorded'
             /\ \A q \in Processes : client'[q].worker /\ e \in client'[q].queue => q = p
  <2>1. client[p].worker /\ e \in client[p].queue
    BY <1>3, <1>9 DEF Ordinary
  <2>2. ASSUME NEW q \in Processes, client'[q].worker, e \in client'[q].queue
        PROVE  client[q].worker /\ e \in client[q].queue
    BY <1>3, <2>2 DEF Ordinary
  <2> QED
    BY <1>7, <2>1, <2>2 DEF BatchesInv
<1>10. (\A e \in confirmed' : stored'[e] = 1) /\ \A e \in Events : stored'[e] <= 1
  BY DEF BatchesInv
<1> QED
  BY <1>4, <1>5, <1>6, <1>8, <1>9, <1>10 DEF BatchesInv

LEMMA InitBatches ==
    ASSUME Init
    PROVE  BatchesInv
<1>1. ASSUME NEW p \in Processes
      PROVE  client[p].held = {} /\ ~client[p].worker
  BY AbsentIs DEF Init, Fields
<1>2. DOMAIN sockets = {}
  BY DEF Init, ConnectionInit
<1>3. Around = {}
  BY <1>1, <1>2 DEF Around
<1>4. outcomes = {} /\ confirmed = {} /\ \A e \in Events : stored[e] = 0
  BY DEF Init, ConnectionInit
<1>5. Ids = {}
  BY <1>3, <1>4 DEF Ids
<1>6. unrecorded = Events
  BY DEF Init
<1> QED
  BY <1>1, <1>3, <1>4, <1>5, <1>6 DEF BatchesInv, Fresh

LEMMA RecordEndsBatches ==
    ASSUME ConnectedInv, ConnectedInv', BatchesInv, [Next]_vars,
           NEW p \in Processes, RecordEnds(p)
    PROVE  BatchesInv'
<1>1. TypeOK
  BY DEF ConnectedInv, Types
<1>2. PICK e \in unrecorded :
         /\ unrecorded' = unrecorded \ {e}
         /\ Fields(client'[p], client[p].state, client[p].worker, "free",
                   client[p].queue \cup {e}, client[p].held, client[p].session, client[p].seq)
         /\ \A q \in Processes \ {p} : client'[q] = client[q]
  BY <1>1, RecordEndsDoes DEF Becomes
<1>3. UNCHANGED <<outcomes, stored, sessions, confirmed, sockets>>
  BY DEF RecordEnds, connectionVars
<1>4. Around' \subseteq Around
  <2>1. Around' \subseteq Around \cup client'[p].held
    BY <1>2, AroundBuilt
  <2> QED
    BY <1>2, <2>1, HeldAround DEF Fields
<1>5. Ids' \subseteq Ids
  BY <1>3, <1>4 DEF Ids
<1>6. ASSUME NEW q \in Processes
      PROVE  /\ client'[q].worker = client[q].worker
             /\ client'[q].session = client[q].session /\ client'[q].seq = client[q].seq
             /\ \A f \in client'[q].queue : f \in client[q].queue \/ (f = e /\ q = p)
  BY <1>2 DEF Fields
<1>7. \A id \in Ids' : IdUsed(id)'
  BY <1>3, <1>5, <1>6 DEF BatchesInv, IdUsed
<1>8. \A b, c \in Around' : SameBatch(b, c)'
  BY <1>4 DEF BatchesInv, SameBatch
<1>9. \A b \in Around' : StoredAs(b)'
  BY <1>3, <1>4 DEF BatchesInv, StoredAs
<1>10. \A f : Fresh(f) => Fresh(f)'
  BY <1>3, <1>4 DEF Fresh
<1>11. \A f \in unrecorded' : Fresh(f)'
  BY <1>2, <1>10 DEF BatchesInv
<1>12. ASSUME NEW r \in Processes, client'[r].worker, NEW f \in client'[r].queue
       PROVE  /\ Fresh(f)' /\ f \notin unrecorded'
              /\ \A q \in Processes : client'[q].worker /\ f \in client'[q].queue => q = r
  <2>1. CASE f \in client[r].queue
    <3>1. Fresh(f) /\ f \notin unrecorded /\ f # e
      BY <1>6, <1>12, <2>1 DEF BatchesInv
    <3>2. ASSUME NEW q \in Processes, client'[q].worker, f \in client'[q].queue PROVE q = r
      BY <1>6, <1>12, <2>1, <3>1, <3>2 DEF BatchesInv
    <3> QED
      BY <1>2, <1>10, <3>1, <3>2
  <2>2. CASE f = e /\ r = p
    <3>1. Fresh(f)
      BY <2>2 DEF BatchesInv
    <3>2. ASSUME NEW q \in Processes, client'[q].worker, f \in client'[q].queue PROVE q = r
      BY <1>2, <1>6, <2>2, <3>2 DEF BatchesInv
    <3> QED
      BY <1>2, <1>10, <2>2, <3>1, <3>2
  <2> QED
    BY <1>6, <2>1, <2>2
<1>13. (\A f \in confirmed' : stored'[f] = 1) /\ \A f \in Events : stored'[f] <= 1
  BY <1>3 DEF BatchesInv
<1> QED
  BY <1>7, <1>8, <1>9, <1>11, <1>12, <1>13 DEF BatchesInv

LEMMA FlushBatches ==
    ASSUME ConnectedInv, ConnectedInv', BatchesInv, [Next]_vars,
           NEW p \in Processes, Flushes(p)
    PROVE  BatchesInv'
<1>1. TypeOK
  BY DEF ConnectedInv, Types
<1>a. PICK b \in Batch :
         b.id = <<client[p].session, client[p].seq + 1>> /\ b.events = client[p].queue
         /\ b = NewBatch(p)
  BY <1>1, NewBatchIs
<1>b. PICK held \in SUBSET (client[p].held \cup {b}) : Flushed(p, held)
  BY <1>1, <1>a, FlushesDo
<1>2. /\ b.id = <<client[p].session, client[p].seq + 1>> /\ b.events = client[p].queue
      /\ Fields(client'[p], client[p].state, client[p].worker, client[p].lock, {}, held,
                client[p].session, client[p].seq + 1)
      /\ \A q \in Processes \ {p} : client'[q] = client[q]
  BY <1>a, <1>b DEF Flushed, Becomes
<1>3. /\ UNCHANGED <<outcomes, stored, sessions, confirmed, unrecorded>>
      /\ client[p].worker
  <2>1. client[p].worker /\ UNCHANGED <<sessions, unrecorded>>
    BY <1>1, WorkerDoes DEF WorkerStep, Flushes, Works
  <2>2. UNCHANGED <<outcomes, stored, confirmed>>
    BY DEF Flushes, FlushSends, FlushBuffers, FlushDiscards, Request, connectionVars, eventVars
  <2> QED
    BY <2>1, <2>2
<1>4. PICK n \in Nat : n = client[p].seq
  BY <1>1, FieldTypes DEF TypeOK
<1>5. PICK session \in Nat : session = client[p].session
  BY <1>1, FieldTypes DEF TypeOK
<1>6. b.id = <<session, n + 1>> /\ b.id[1] = session /\ b.id[2] = n + 1 /\ b.events = client[p].queue
  BY <1>2, <1>4, <1>5
<1>7. session # 0 /\ session <= sessions
  <2>1. Made(p)
    BY DEF ConnectedInv, ProcessesInv, Proper
  <2>2. client[p].state # "absent"
    BY <1>3, <2>1, AbsentIs DEF Made, Fields
  <2> QED
    BY <1>5, <2>1, <2>2 DEF Made
<1>8. b.id \notin Ids
  <2>1. ASSUME b.id \in Ids PROVE FALSE
    <3>1. IdUsed(b.id)
      BY <2>1 DEF BatchesInv
    <3>2. n + 1 <= n
      BY <1>3, <1>4, <1>5, <1>6, <3>1 DEF IdUsed
    <3> QED
      BY <3>2
  <2> QED
    BY <2>1
<1>9. Around' \subseteq Around \cup {b}
  <2>1. Around' \subseteq Around \cup client'[p].held
    BY <1>2, AroundBuilt
  <2>2. client'[p].held \subseteq client[p].held \cup {b}
    BY <1>2 DEF Fields
  <2> QED
    BY <2>1, <2>2, HeldAround
<1>10. Ids' \subseteq Ids \cup {b.id}
  BY <1>3, <1>9 DEF Ids
<1>11. \A c \in Around : c.id # b.id
  BY <1>8 DEF Ids
<1>12. \A o \in outcomes : o.id # b.id
  BY <1>8 DEF Ids
<1>13. \A e \in b.events : /\ stored[e] = 0 /\ e \notin unrecorded
                           /\ \A c \in Around : e \notin c.events
                           /\ \A q \in Processes : client[q].worker /\ e \in client[q].queue => q = p
  BY <1>3, <1>6 DEF BatchesInv, Fresh
<1>14. \A r \in Processes \ {p} : client[r].worker => client[r].session # session
  BY <1>3, <1>5, <1>7 DEF ConnectedInv, ProcessesInv, OwnSession
<1>15. /\ client'[p].worker /\ client'[p].session = session /\ client'[p].seq = n + 1
       /\ client'[p].queue = {}
  BY <1>2, <1>3, <1>4, <1>5 DEF Fields
<1>16. ASSUME NEW id \in Ids' PROVE IdUsed(id)'
  <2>1. CASE id = b.id
    <3>1. id[1] = session /\ id[2] = n + 1
      BY <1>6, <2>1
    <3>2. ASSUME NEW r \in Processes, client'[r].worker, client'[r].session = id[1]
          PROVE  r = p
      BY <1>2, <1>14, <3>1, <3>2
    <3> QED
      BY <1>3, <1>7, <1>15, <3>1, <3>2 DEF IdUsed
  <2>2. CASE id \in Ids
    <3>1. IdUsed(id) /\ id[2] \in Nat
      BY <2>2, IdsTyped DEF BatchesInv, ConnectedInv
    <3>2. ASSUME NEW r \in Processes, client'[r].worker, client'[r].session = id[1]
          PROVE  id[2] <= client'[r].seq
      <4>1. CASE r = p
        <5>1. id[2] <= n
          BY <1>3, <1>4, <1>5, <1>15, <3>1, <3>2, <4>1 DEF IdUsed
        <5>2. id[2] <= n + 1
          BY <3>1, <5>1
        <5> QED
          BY <1>15, <4>1, <5>2
      <4>2. CASE r # p
        BY <1>2, <3>1, <3>2, <4>2 DEF IdUsed
      <4> QED
        BY <4>1, <4>2
    <3> QED
      BY <1>3, <3>1, <3>2 DEF IdUsed
  <2> QED
    BY <1>10, <2>1, <2>2
<1>17. ASSUME NEW c \in Around', NEW d \in Around' PROVE SameBatch(c, d)'
  <2>1. CASE c = b /\ d = b
    BY <2>1 DEF SameBatch
  <2>2. CASE c = b /\ d \in Around
    BY <1>11, <1>13, <2>2 DEF SameBatch
  <2>3. CASE c \in Around /\ d = b
    BY <1>11, <1>13, <2>3 DEF SameBatch
  <2>4. CASE c \in Around /\ d \in Around
    BY <2>4 DEF SameBatch, BatchesInv
  <2> QED
    BY <1>9, <2>1, <2>2, <2>3, <2>4
<1>18. ASSUME NEW c \in Around' PROVE StoredAs(c)'
  <2>1. CASE c = b
    BY <1>3, <1>12, <1>13, <2>1 DEF StoredAs
  <2>2. CASE c \in Around
    BY <1>3, <2>2 DEF BatchesInv, StoredAs
  <2> QED
    BY <1>9, <2>1, <2>2
<1>19. \A e : Fresh(e) /\ e \notin b.events => Fresh(e)'
  BY <1>3, <1>9 DEF Fresh
<1>20. \A e \in unrecorded' : Fresh(e)'
  BY <1>3, <1>13, <1>19 DEF BatchesInv
<1>21. ASSUME NEW r \in Processes, client'[r].worker, NEW e \in client'[r].queue
       PROVE  /\ Fresh(e)' /\ e \notin unrecorded'
              /\ \A q \in Processes : client'[q].worker /\ e \in client'[q].queue => q = r
  <2>1. r # p
    BY <1>15, <1>21
  <2>2. client'[r] = client[r]
    BY <1>2, <2>1
  <2>3. e \notin b.events
    BY <1>13, <1>21, <2>1, <2>2
  <2>4. ASSUME NEW q \in Processes, client'[q].worker, e \in client'[q].queue PROVE q = r
    <3>1. q # p
      BY <1>15, <2>4
    <3>2. client'[q] = client[q]
      BY <1>2, <3>1
    <3> QED
      BY <1>21, <2>2, <2>4, <3>2 DEF BatchesInv
  <2>5. Fresh(e) /\ e \notin unrecorded
    BY <1>21, <2>2 DEF BatchesInv
  <2> QED
    BY <1>3, <1>19, <2>3, <2>4, <2>5
<1>22. (\A e \in confirmed' : stored'[e] = 1) /\ \A e \in Events : stored'[e] <= 1
  BY <1>3 DEF BatchesInv
<1> QED
  BY <1>16, <1>17, <1>18, <1>20, <1>21, <1>22 DEF BatchesInv

LEMMA StoreBatches ==
    ASSUME ConnectedInv, ConnectedInv', BatchesInv, [Next]_vars,
           NEW s \in DOMAIN sockets, Store(s), UNCHANGED clientVars
    PROVE  /\ BatchesInv'
           /\ \A e \in Events : stored[e] = 1 => stored'[e] = 1
<1>1. TypeOK /\ \A e \in Events : stored[e] \in Nat
  BY DEF ConnectedInv, Types, TypeOK
<1>2. PICK b : b = Head(sockets[s].requests)
  OBVIOUS
<1>3. b \in Around /\ b \in Batch
  <2>1. PICK requests \in Seq(Batch) : requests = sockets[s].requests
    BY SocketTypes, LenProperties, ElementOfSeq DEF ConnectedInv, Types
  <2>2. requests # << >>
    BY <2>1 DEF Store, Pending
  <2>3. Head(requests) = requests[1] /\ 1 \in DOMAIN requests
    BY <2>2, EmptySeq, LenProperties
  <2>4. b \in Range(sockets[s].requests)
    BY <1>2, <2>1, <2>3 DEF Range
  <2>5. b \in Around
    BY <2>4, RequestsAround
  <2> QED
    BY <2>5, AroundTyped DEF ConnectedInv
<1>4. PICK lost \in SUBSET b.events :
         /\ outcomes' = outcomes \cup {[id |-> b.id, lost |-> lost]}
         /\ stored' = [e \in DOMAIN stored |->
               IF e \in b.events \ lost THEN stored[e] + 1 ELSE stored[e]]
  BY <1>2 DEF Store
<1>a. /\ client' = client /\ sessions' = sessions /\ unrecorded' = unrecorded
      /\ confirmed' = confirmed /\ \A o \in outcomes : o.id # b.id
  BY <1>2 DEF Store, clientVars, eventVars
<1>5. ASSUME NEW e \in Events
      PROVE  stored'[e] = IF e \in b.events \ lost THEN stored[e] + 1 ELSE stored[e]
  BY <1>1, <1>4 DEF TypeOK
<1>6. Around' \subseteq Around
  <2>1. \A t \in DOMAIN sockets' : Range(sockets'[t].requests) \subseteq Known
    BY WrittenAround
  <2>2. \A p \in Processes : client'[p].held \subseteq Around
    BY <1>a, HeldAround
  <2> QED
    BY <2>1, <2>2 DEF Around, Known
<1>7. Ids' \subseteq Ids
  BY <1>3, <1>4, <1>6 DEF Ids
<1>8. b.events \subseteq Events /\ \A c \in Around : c.events \subseteq Events
  BY <1>3, AroundTyped DEF Batch, ConnectedInv
<1>9. \A e \in b.events : stored[e] = 0
  BY <1>3, <1>a DEF BatchesInv, StoredAs
<1>10. \A id \in Ids' : IdUsed(id)'
  BY <1>7, <1>a DEF BatchesInv, IdUsed
<1>11. \A c, d \in Around' : SameBatch(c, d)'
  BY <1>6 DEF BatchesInv, SameBatch
<1>12. ASSUME NEW c \in Around' PROVE StoredAs(c)'
  <2>1. c \in Around /\ StoredAs(c) /\ SameBatch(c, b)
    BY <1>3, <1>6 DEF BatchesInv
  <2>2. CASE c.id = b.id
    <3>1. c = b
      BY <2>1, <2>2 DEF SameBatch
    <3>2. ASSUME NEW e \in b.events PROVE stored'[e] = IF e \in lost THEN 0 ELSE 1
      BY <1>5, <1>8, <1>9, <3>2
    <3>3. [id |-> b.id, lost |-> lost] \in outcomes'
      BY <1>4
    <3>4. \A o \in outcomes' : o.id = b.id => o.lost = lost
      BY <1>4, <1>a
    <3> QED
      BY <3>1, <3>2, <3>3, <3>4 DEF StoredAs
  <2>3. CASE c.id # b.id
    <3>1. c.events \cap b.events = {}
      BY <2>1, <2>3 DEF SameBatch
    <3>2. \A e \in c.events : stored'[e] = stored[e]
      BY <1>5, <1>8, <2>1, <3>1
    <3>3. \A o \in outcomes' : o.id = c.id => o \in outcomes
      BY <1>4, <2>3
    <3>4. outcomes \subseteq outcomes'
      BY <1>4
    <3> QED
      BY <2>1, <3>2, <3>3, <3>4 DEF StoredAs
  <2> QED
    BY <2>2, <2>3
<1>13. ASSUME NEW e \in Events, Fresh(e) PROVE Fresh(e)'
  BY <1>3, <1>5, <1>6, <1>13 DEF Fresh
<1>14. \A e \in unrecorded' : Fresh(e)'
  BY <1>1, <1>13, <1>a DEF BatchesInv, TypeOK
<1>15. ASSUME NEW p \in Processes, client'[p].worker, NEW e \in client'[p].queue
       PROVE  /\ Fresh(e)' /\ e \notin unrecorded'
              /\ \A q \in Processes : client'[q].worker /\ e \in client'[q].queue => q = p
  <2>1. client[p].queue \in SUBSET Events
    BY <1>1, FieldTypes DEF TypeOK
  <2>2. e \in Events /\ Fresh(e)
    BY <1>15, <1>a, <2>1 DEF BatchesInv
  <2> QED
    BY <1>13, <1>15, <1>a, <2>2 DEF BatchesInv
<1>16. ASSUME NEW e \in Events, stored[e] = 1 PROVE stored'[e] = 1
  BY <1>5, <1>9, <1>16
<1>17. \A e \in confirmed' : stored'[e] = 1
  BY <1>1, <1>16, <1>a DEF BatchesInv, TypeOK
<1>18. ASSUME NEW e \in Events PROVE stored'[e] <= 1
  <2>1. stored[e] <= 1
    BY DEF BatchesInv
  <2> QED
    BY <1>5, <1>9, <2>1
<1> QED
  BY <1>10, <1>11, <1>12, <1>14, <1>15, <1>16, <1>17, <1>18 DEF BatchesInv

\* What an answer does not report as lost of a batch that was accepted is stored.
LEMMA DeliveredStored ==
    ASSUME ExchangedInv, BatchesInv, NEW p \in Processes, Receive(p, TRUE)
    PROVE  \A e \in waiting[p].events \ NextAnswer(p).lost : stored[e] = 1
<1>1. /\ TypeOK /\ Wired /\ Len(sockets) \in Nat /\ DOMAIN sockets = 1..Len(sockets)
  BY TypesWired, LenProperties DEF ExchangedInv, ConnectedInv, Types, Wired
<1>2. Waits(p) /\ client[p].worker /\ connection[p] # 0 /\ waiting[p] \in client[p].held
  BY DEF Receive, HasAnswer, ExchangedInv, ConnectedInv, ConnectionsInv, Connected
<1>3. PICK s \in DOMAIN sockets : s = connection[p]
  BY <1>1, <1>2 DEF Wired
<1>4. PICK answer : answer = Head(sockets[s].answers)
  OBVIOUS
<1>5. sockets[s].answers # << >> /\ answer.accepted /\ NextAnswer(p) = answer
  BY <1>3, <1>4 DEF Receive, HasAnswer, NextAnswer
<1>6. Answered(s) /\ Exchange(p)
  BY DEF ExchangedInv, SocketsInv
<1>7. Len(sockets[s].answers) = 1 /\ answer.id = waiting[p].id
  BY <1>2, <1>3, <1>4, <1>5, <1>6 DEF Answered, Exchange
<1>8. answer = sockets[s].answers[1] /\ 1 \in DOMAIN sockets[s].answers
  <2>1. sockets[s].answers \in Seq(Answer)
    BY <1>1, SocketTypes, ElementOfSeq DEF Wired
  <2> QED
    BY <1>4, <1>7, <2>1, LenProperties
<1>9. [id |-> waiting[p].id, lost |-> answer.lost] \in outcomes
  BY <1>5, <1>6, <1>7, <1>8 DEF Answered
<1>10. StoredAs(waiting[p])
  BY <1>2, HeldAround DEF BatchesInv
<1>11. \A e \in waiting[p].events : stored[e] = IF e \in answer.lost THEN 0 ELSE 1
  BY <1>9, <1>10 DEF StoredAs
<1> QED
  BY <1>5, <1>11

\* Steps that make no batch, store nothing and confirm nothing.
LEMMA QuietSteps ==
    ASSUME NEW p \in Processes, NEW q \in Processes,
           \/ Create(p) \/ Register(p) \/ InstallHandlers(p) \/ OtherRegisters(p)
           \/ OtherInstalls(p) \/ RecordBegins(p) \/ Close(p) \/ CloseReturns(p)
           \/ CloseOutOfTime(p) \/ CloseTimesOut(p) \/ Fork(p, q) \/ ExitBegins(p) \/ Exit(p)
    PROVE  UNCHANGED <<outcomes, stored, unrecorded, confirmed>>
<1>1. CASE \/ Create(p) \/ Register(p) \/ InstallHandlers(p) \/ OtherRegisters(p)
           \/ OtherInstalls(p) \/ RecordBegins(p) \/ Close(p)
  BY <1>1 DEF Create, Register, InstallHandlers, OtherRegisters, OtherInstalls, RecordBegins,
              Close, connectionVars, clientVars, eventVars
<1>2. CASE CloseReturns(p) \/ CloseOutOfTime(p)
  BY <1>2 DEF CloseReturns, CloseOutOfTime, Joins, CloseTransport, eventVars
<1>3. CASE CloseTimesOut(p) \/ Fork(p, q) \/ ExitBegins(p) \/ Exit(p)
  BY <1>3 DEF CloseTimesOut, Fork, ExitBegins, Exit, connectionVars, eventVars
<1> QED
  BY <1>1, <1>2, <1>3

LEMMA WorkerStepBatches ==
    ASSUME ExchangedInv, BatchesInv, NEW p \in Processes, WorkerStep(p)
    PROVE  /\ UNCHANGED <<outcomes, stored, unrecorded>>
           /\ \A e \in confirmed' : stored[e] = 1
<1>1. TypeOK
  BY DEF ExchangedInv, ConnectedInv, Types
<1>2. \A e \in confirmed : stored[e] = 1
  BY DEF BatchesInv
<1>3. unrecorded' = unrecorded
  BY <1>1, WorkerDoes
<1>4. UNCHANGED <<outcomes, stored>>
  BY DEF WorkerStep, FlushSends, FlushBuffers, FlushDiscards, Replay, Prune, Delivered,
         NotDelivered, StopIngest, SendRestated, DrainBegins, QueueDrained, MovesTo, WorkerEnds,
         Request, Receive, Fail, Restate, connectionVars
<1>5. CASE Delivered(p)
  <2>1. confirmed' = confirmed \cup (waiting[p].events \ NextAnswer(p).lost)
    BY <1>5 DEF Delivered
  <2> QED
    BY <1>2, <1>3, <1>4, <1>5, <2>1, DeliveredStored DEF Delivered
<1>6. CASE ~Delivered(p)
  <2>1. confirmed' = confirmed
    BY <1>6 DEF WorkerStep, FlushSends, FlushBuffers, FlushDiscards, Replay, Prune,
         NotDelivered, StopIngest, SendRestated, DrainBegins, QueueDrained, MovesTo, WorkerEnds,
         clientVars, eventVars
  <2> QED
    BY <1>2, <1>3, <1>4, <2>1
<1> QED
  BY <1>5, <1>6

LEMMA NextBatches ==
    ASSUME ExchangedInv, ExchangedInv', BatchesInv, [Next]_vars
    PROVE  BatchesInv'
<1>1. ConnectedInv /\ ConnectedInv'
  BY DEF ExchangedInv
<1>2. ASSUME ~Recorded, UNCHANGED <<outcomes, stored, unrecorded>>,
             \A e \in confirmed' : stored[e] = 1
      PROVE  BatchesInv'
  BY <1>1, <1>2, QuietBatches
<1>3. \A e \in confirmed : stored[e] = 1
  BY DEF BatchesInv
<1>4. CASE Recorded
  <2>1. PICK p \in Processes : RecordEnds(p) \/ Flushes(p)
    BY <1>4 DEF Recorded
  <2> QED
    BY <1>1, <2>1, RecordEndsBatches, FlushBatches
<1>5. ASSUME ~Recorded, UNCHANGED <<outcomes, stored, unrecorded, confirmed>>
      PROVE  BatchesInv'
  BY <1>2, <1>3, <1>5
<1>6. ASSUME ~Recorded, NEW p \in Processes, WorkerStep(p) PROVE BatchesInv'
  BY <1>2, <1>6, WorkerStepBatches
<1>7. ASSUME ~Recorded, NEW s \in DOMAIN sockets, EndpointStep(s) PROVE BatchesInv'
  <2>1. CASE Store(s)
    BY <1>1, <1>7, <2>1, StoreBatches DEF EndpointStep
  <2>2. CASE Recall(s) \/ Refuse(s)
    BY <1>5, <1>7, <2>2 DEF EndpointStep, Recall, Refuse, clientVars, eventVars
  <2> QED
    BY <1>7, <2>1, <2>2 DEF EndpointStep
<1>8. UNCHANGED vars => UNCHANGED <<outcomes, stored, unrecorded, confirmed>>
  BY DEF vars, connectionVars, clientVars, eventVars
<1>9. CASE ~Recorded
  <2> DEFINE Goal == BatchesInv'
  <2>1. \A p \in Processes : WorkerStep(p) => Goal
    BY <1>6, <1>9
  <2>2. \A s \in DOMAIN sockets : EndpointStep(s) => Goal
    BY <1>7, <1>9
  <2>3. \A p, q \in Processes :
           (\/ Create(p) \/ Register(p) \/ InstallHandlers(p) \/ OtherRegisters(p)
            \/ OtherInstalls(p) \/ RecordBegins(p) \/ Close(p) \/ CloseReturns(p)
            \/ CloseOutOfTime(p) \/ CloseTimesOut(p) \/ Fork(p, q) \/ ExitBegins(p)
            \/ Exit(p)) => Goal
    BY <1>5, <1>9, QuietSteps
  <2>4. UNCHANGED vars => Goal
    BY <1>5, <1>8, <1>9
  <2>5. \A p \in Processes : ~RecordEnds(p)
    BY <1>9 DEF Recorded
  <2> HIDE DEF Goal
  <2>6. Goal
    BY <2>1, <2>2, <2>3, <2>4, <2>5 DEF Next
  <2> QED
    BY <2>6 DEF Goal
<1> QED
  BY <1>4, <1>9

\* The invariant as far as batches.
BatchedInv == ExchangedInv /\ BatchesInv

LEMMA AlwaysBatched == Spec => []BatchedInv
<1>1. Init => BatchesInv
  BY InitBatches
<1>2. ExchangedInv /\ ExchangedInv' /\ BatchesInv /\ [Next]_vars => BatchesInv'
  BY NextBatches
<1> QED
  BY <1>1, <1>2, AlwaysExchanged, PTL DEF Spec, BatchedInv

\* An event is stored at most once, and once if its batch was accepted and it was not
\* reported as lost.
THEOREM EventsStoredOnce == Spec => []StoredOnce
<1>1. BatchedInv => StoredOnce
  BY DEF BatchedInv, BatchesInv, StoredOnce
<1> QED
  BY <1>1, AlwaysBatched, PTL

-----------------------------------------------------------------------------
(***************************************************************************)
(* Promises.                                                               *)
(***************************************************************************)
LEMMA InitPromises ==
    ASSUME Init
    PROVE  PromisesInv
BY AbsentIs DEF Init, PromisesInv, Kept, Fields

\* What has been found, missed or given up is never forgotten.
Remembered ==
    /\ UNCHANGED <<promised, exited, bare>>
    /\ late \subseteq late' /\ stopped \subseteq stopped' /\ reported \subseteq reported'

\* The phase of the worker agrees with the client.
Placed(p) ==
    /\ (status[p] # "gone" /\ client[p].state \notin {"closing", "closed"}) => phase[p] = "tick"
    /\ (client[p].state = "closed" /\ client[p].worker) => p \in late

\* A step of another process.
LEMMA AsideKept ==
    ASSUME NEW r \in Processes, Kept(r),
           client'[r] = client[r], phase'[r] = phase[r], status'[r] = status[r],
           promised'[r] = promised[r], r \in exited' => r \in exited,
           r \in bare' <=> r \in bare, late \subseteq late', stopped \subseteq stopped',
           reported \subseteq reported',
           \A e \in promised[r] : stored[e] = 1 => stored'[e] = 1
    PROVE  Kept(r)'
<1>1. CutShort(r) => CutShort(r)'
  BY DEF CutShort
<1>2. \A e : Due(r, e) => Due(r, e)'
  BY DEF Due
<1>3. Alive(r)' => Alive(r)
  BY DEF Alive
<1> QED
  BY <1>1, <1>2, <1>3 DEF Kept

\* A step of the process itself.
LEMMA OwnKept ==
    ASSUME NEW p \in Processes, Kept(p), Remembered, UNCHANGED stored,
           status'[p] = status[p],
           phase[p] = "over" => phase'[p] = "over",
           Placed(p)',
           CutShort(p)' \/ \A e \in promised[p] :
              Due(p, e) => Due(p, e)' \/ stored[e] = 1 \/ e \in reported'
    PROVE  Kept(p)'
<1>1. CutShort(p) => CutShort(p)'
  BY DEF CutShort, Remembered
<1>2. Alive(p)' => Alive(p)
  BY DEF Alive
<1> QED
  BY <1>1, <1>2 DEF Kept, Placed, Remembered

LEMMA StepKept ==
    ASSUME PromisesInv, NEW p \in Processes, Remembered, UNCHANGED <<status, stored>>,
           \A r \in Processes \ {p} : client'[r] = client[r] /\ phase'[r] = phase[r],
           phase[p] = "over" => phase'[p] = "over",
           Placed(p)',
           CutShort(p)' \/ \A e \in promised[p] :
              Due(p, e) => Due(p, e)' \/ stored[e] = 1 \/ e \in reported'
    PROVE  PromisesInv'
<1>1. Kept(p)'
  BY OwnKept DEF PromisesInv
<1>2. ASSUME NEW r \in Processes \ {p} PROVE Kept(r)'
  BY AsideKept DEF PromisesInv, Remembered
<1> QED
  BY <1>1, <1>2 DEF PromisesInv

LEMMA KeptPlaced ==
    ASSUME PromisesInv, NEW p \in Processes
    PROVE  Placed(p)
BY DEF PromisesInv, Kept, Placed

\* The worker flushes: what was queued is in the new batch, or counted, or nothing is
\* sent any more.
LEMMA FlushKept ==
    ASSUME BatchedInv, PromisesInv, NEW p \in Processes, Flushes(p)
    PROVE  PromisesInv'
<1>1. TypeOK
  BY DEF BatchedInv, ExchangedInv, ConnectedInv, Types
<1>2. /\ Remembered /\ UNCHANGED <<status, stored, phase, late>> /\ client[p].worker
  BY DEF Flushes, FlushSends, FlushBuffers, FlushDiscards, MayFlush, Idle, Works, Request,
         Remembered, processVars, drainVars, eventVars, connectionVars
<1>3. PICK held \in SUBSET (client[p].held \cup {NewBatch(p)}) : Flushed(p, held)
  BY <1>1, FlushesDo
<1>4. /\ client'[p].state = client[p].state /\ client'[p].worker = client[p].worker
      /\ client'[p].held = held
      /\ \A r \in Processes \ {p} : client'[r] = client[r]
  BY <1>3 DEF Flushed, Becomes, Fields
<1>5. Placed(p)'
  BY <1>2, <1>4, KeptPlaced DEF Placed
<1>6. CutShort(p)' \/ \A e \in promised[p] :
         Due(p, e) => Due(p, e)' \/ stored[e] = 1 \/ e \in reported'
  <2>1. ASSUME NEW e, Due(p, e)
        PROVE  e \in EventsOf(client[p].held \cup {NewBatch(p)})
    BY <1>1, <2>1, NewBatchIs DEF Due, EventsOf
  <2>2. CASE FlushSends(p)
    <3>1. client[p].held \cup {NewBatch(p)} \in SUBSET Batch
      BY <1>1, NewBatchIs, FieldTypes DEF TypeOK
    <3>2. client'[p].held = client[p].held \cup {NewBatch(p)}
      BY <1>1, <2>2, <3>1, FlushDoes DEF FlushSends, Flushed, Becomes, Fields
    <3> QED
      BY <1>2, <1>4, <2>1, <3>2 DEF Due
  <2>3. CASE FlushBuffers(p)
    <3>1. PICK gone \in SUBSET (client[p].held \cup {NewBatch(p)}) :
             /\ FlushTo(p, (client[p].held \cup {NewBatch(p)}) \ gone)
             /\ reported' = reported \cup EventsOf(gone)
      BY <2>3 DEF FlushBuffers
    <3>2. (client[p].held \cup {NewBatch(p)}) \ gone \in SUBSET Batch
      BY <1>1, NewBatchIs, FieldTypes DEF TypeOK
    <3>3. client'[p].held = (client[p].held \cup {NewBatch(p)}) \ gone
      BY <1>1, <3>1, <3>2, FlushDoes DEF Flushed, Becomes, Fields
    <3>4. ASSUME NEW e, Due(p, e) PROVE e \in EventsOf(client'[p].held) \/ e \in reported'
      BY <2>1, <3>1, <3>3, <3>4 DEF EventsOf
    <3> QED
      BY <1>2, <1>4, <3>4 DEF Due
  <2>4. CASE FlushDiscards(p)
    BY <2>4 DEF FlushDiscards, drainVars, CutShort
  <2> QED
    BY <2>2, <2>3, <2>4 DEF Flushes
<1> QED
  BY <1>2, <1>4, <1>5, <1>6, StepKept

\* The worker settles batches: what they held is stored, or counted, or nothing is sent
\* any more.
LEMMA SettleKept ==
    ASSUME BatchedInv, PromisesInv, NEW p \in Processes, Settles(p)
    PROVE  PromisesInv'
<1>1. TypeOK /\ ExchangedInv /\ BatchesInv
  BY DEF BatchedInv, ExchangedInv, ConnectedInv, Types
<1>2. Remembered /\ UNCHANGED <<status, stored, late>>
  BY DEF Settles, Prune, Delivered, NotDelivered, StopIngest, Receive, Fail,
         Remembered, processVars, drainVars, eventVars, connectionVars
<1>3. phase' = phase \/ phase' = AfterFailure(p)
  BY DEF Settles, Prune, Delivered, NotDelivered, StopIngest, drainVars
<1>4. /\ \A r \in Processes \ {p} : phase'[r] = phase[r]
      /\ phase[p] = "over" => phase'[p] = "over"
      /\ phase'[p] = phase[p] \/ (phase[p] = "replay" /\ phase'[p] = "over")
  <2>1. phase \in [Processes -> {"tick", "drain", "replay", "over"}]
    BY <1>1 DEF TypeOK
  <2>2. CASE phase' = phase
    BY <2>2
  <2>3. CASE phase' = [phase EXCEPT ![p] = IF phase[p] = "replay" THEN "over" ELSE phase[p]]
    BY <2>1, <2>3
  <2> QED
    BY <1>3, <2>2, <2>3 DEF AfterFailure
<1>5. PICK held \in SUBSET client[p].held : Settled(p, held)
  BY <1>1, SettlesDo
<1>6. /\ client'[p].state = client[p].state /\ client'[p].worker = client[p].worker
      /\ client'[p].queue = client[p].queue
      /\ \A r \in Processes \ {p} : client'[r] = client[r]
  BY <1>5 DEF Settled, Becomes, Fields
<1>7. Placed(p)'
  BY <1>2, <1>4, <1>6, KeptPlaced DEF Placed
<1>8. ASSUME NEW gone, client' = [client EXCEPT ![p].held = @ \ gone],
             \A e \in EventsOf(gone) : stored[e] = 1 \/ e \in reported'
      PROVE  CutShort(p)' \/ \A e \in promised[p] :
                Due(p, e) => Due(p, e)' \/ stored[e] = 1 \/ e \in reported'
  <2>1. client'[p].held = client[p].held \ gone
    BY <1>1, <1>8, SettleDoes DEF Settled, Becomes, Fields
  <2>2. \A e \in EventsOf(client[p].held) : e \in EventsOf(client'[p].held) \/ e \in EventsOf(gone)
    BY <2>1 DEF EventsOf
  <2>3. phase'[p] = phase[p] \/ CutShort(p)'
    BY <1>4 DEF CutShort
  <2> QED
    BY <1>6, <1>8, <2>2, <2>3 DEF Due
<1>9. CutShort(p)' \/ \A e \in promised[p] :
         Due(p, e) => Due(p, e)' \/ stored[e] = 1 \/ e \in reported'
  <2>1. CASE Prune(p)
    <3>1. PICK b : /\ client' = [client EXCEPT ![p].held = @ \ {b}]
                   /\ reported' = reported \cup b.events
      BY <2>1 DEF Prune
    <3>2. EventsOf({b}) = b.events
      BY DEF EventsOf
    <3> QED
      BY <1>8, <3>1, <3>2
  <2>2. CASE Delivered(p)
    <3>1. EventsOf({waiting[p]}) = waiting[p].events
      BY DEF EventsOf
    <3>2. \A e \in waiting[p].events \ NextAnswer(p).lost : stored[e] = 1
      BY <1>1, <2>2, DeliveredStored DEF Delivered
    <3>3. reported' = reported \cup NextAnswer(p).lost
      BY <2>2 DEF Delivered
    <3>4. client' = [client EXCEPT ![p].held = @ \ {waiting[p]}]
      BY <2>2 DEF Delivered
    <3> QED
      BY <1>8, <3>1, <3>2, <3>3, <3>4
  <2>3. CASE NotDelivered(p)
    <3>1. PICK gone : /\ client' = [client EXCEPT ![p].held = @ \ gone]
                      /\ reported' = reported \cup EventsOf(gone)
      BY <2>3 DEF NotDelivered
    <3> QED
      BY <1>8, <3>1
  <2>4. CASE StopIngest(p)
    BY <2>4 DEF StopIngest, CutShort
  <2> QED
    BY <2>1, <2>2, <2>3, <2>4 DEF Settles
<1> QED
  BY <1>2, <1>4, <1>6, <1>7, <1>9, StepKept

\* The worker moves on to the drain of the buffer with the queue empty, and ends on its
\* own only after a close that ran out of time.
LEMMA WorkerKept ==
    ASSUME BatchedInv, PromisesInv, NEW p \in Processes, WorkerStep(p)
    PROVE  PromisesInv'
<1>1. TypeOK
  BY DEF BatchedInv, ExchangedInv, ConnectedInv, Types
<1>2. CASE Flushes(p)
  BY <1>2, FlushKept
<1>3. CASE Settles(p)
  BY <1>3, SettleKept
<1>4. CASE Replay(p) \/ SendRestated(p)
  <2>1. Remembered /\ UNCHANGED <<status, stored, client, phase, late>>
    BY <1>4 DEF Replay, SendRestated, Request, Restate, Remembered, processVars, clientVars,
                drainVars, eventVars
  <2>2. Placed(p)'
    BY <2>1, KeptPlaced DEF Placed
  <2>3. \A e \in promised[p] : Due(p, e) => Due(p, e)'
    BY <2>1 DEF Due
  <2> QED
    BY <2>1, <2>2, <2>3, StepKept
<1>5. CASE DrainBegins(p) \/ QueueDrained(p)
  <2>1. /\ Remembered /\ UNCHANGED <<status, stored, client, late>>
        /\ \/ /\ phase[p] = "tick" /\ client[p].state = "closing"
              /\ phase' = [phase EXCEPT ![p] = "drain"]
           \/ /\ phase[p] = "drain" /\ client[p].queue = {}
              /\ phase' = [phase EXCEPT ![p] = "replay"]
    BY <1>5 DEF DrainBegins, QueueDrained, MovesTo, Remembered, processVars, eventVars,
                connectionVars
  <2>2. /\ \A r \in Processes \ {p} : phase'[r] = phase[r]
        /\ phase[p] # "over"
        /\ \/ phase[p] = "tick" /\ client[p].state = "closing" /\ phase'[p] = "drain"
           \/ phase[p] = "drain" /\ client[p].queue = {} /\ phase'[p] = "replay"
    BY <1>1, <2>1 DEF TypeOK
  <2>3. Placed(p)'
    BY <2>1, <2>2, KeptPlaced DEF Placed
  <2>4. \A e \in promised[p] : Due(p, e) => Due(p, e)'
    BY <2>1, <2>2 DEF Due
  <2> QED
    BY <2>1, <2>2, <2>3, <2>4, StepKept
<1>6. CASE WorkerEnds(p)
  <2>1. /\ Remembered /\ UNCHANGED <<status, stored, phase, late>>
        /\ client[p].state = "closed" /\ client[p].worker
    BY <1>6 DEF WorkerEnds, Idle, Works, Remembered, processVars, drainVars, eventVars,
                connectionVars
  <2>2. /\ client'[p].state = "closed" /\ \A r \in Processes \ {p} : client'[r] = client[r]
    BY <1>1, <1>6, <2>1, WorkerEndsDoes DEF Becomes, Fields
  <2>3. p \in late
    BY <2>1, KeptPlaced DEF Placed
  <2>4. Placed(p)' /\ CutShort(p)'
    BY <2>1, <2>2, <2>3 DEF Placed, CutShort
  <2> QED
    BY <2>1, <2>2, <2>4, StepKept
<1> QED
  BY <1>2, <1>3, <1>4, <1>5, <1>6 DEF WorkerStep, Flushes, Settles

\* A join ends with nothing due, or out of time.
LEMMA CloseKept ==
    ASSUME BatchedInv, PromisesInv, NEW p \in Processes,
           CloseReturns(p) \/ CloseOutOfTime(p) \/ CloseTimesOut(p)
    PROVE  PromisesInv'
<1>1. TypeOK
  BY DEF BatchedInv, ExchangedInv, ConnectedInv, Types
<1>2. Remembered /\ UNCHANGED <<status, stored, phase, stopped>>
  BY DEF CloseReturns, CloseOutOfTime, CloseTimesOut, Joins, CloseTransport, Remembered,
         processVars, eventVars, connectionVars
<1>3. /\ client'[p].state = "closed" /\ \A r \in Processes \ {p} : client'[r] = client[r]
      /\ client'[p].worker => p \in late'
  <2>1. CASE CloseReturns(p) \/ CloseOutOfTime(p)
    BY <1>1, <2>1, JoinsDoes DEF CloseReturns, CloseOutOfTime, Becomes, Fields
  <2>2. CASE CloseTimesOut(p)
    <3>1. "closed" \in States
      BY DEF States, InUse
    <3> QED
      BY <1>1, <2>2, <3>1, StateDoes DEF CloseTimesOut, Becomes, Fields
  <2> QED
    BY <2>1, <2>2
<1>4. Placed(p)'
  BY <1>3 DEF Placed
<1>5. CASE p \in late'
  BY <1>2, <1>3, <1>4, <1>5, StepKept DEF CutShort
<1>6. CASE CloseReturns(p)
  <2>1. CASE phase[p] = "replay" /\ client[p].held = {}
    BY <1>2, <1>3, <1>4, <2>1, StepKept DEF Due, EventsOf
  <2>2. CASE ~client[p].worker
    BY <1>2, <1>3, <1>4, <2>2, StepKept DEF Due
  <2>3. CASE phase[p] = "over" \/ p \in stopped
    <3>1. CutShort(p)'
      BY <1>2, <2>3 DEF CutShort
    <3> QED
      BY <1>2, <1>3, <1>4, <3>1, StepKept
  <2> QED
    BY <1>6, <2>1, <2>2, <2>3 DEF CloseReturns, DrainEnds
<1> QED
  BY <1>5, <1>6 DEF CloseOutOfTime, CloseTimesOut

\* The other steps of a client: it keeps its worker, its queue and its batches.
LEMMA OtherKept ==
    ASSUME BatchedInv, BatchedInv', PromisesInv, NEW p \in Processes,
           \/ Create(p) \/ Register(p) \/ InstallHandlers(p) \/ OtherRegisters(p)
           \/ OtherInstalls(p) \/ RecordBegins(p) \/ Close(p)
    PROVE  PromisesInv'
<1>1. TypeOK
  BY DEF BatchedInv, ExchangedInv, ConnectedInv, Types
<1>2. Remembered /\ UNCHANGED <<status, stored, phase, late>> /\ Alive(p)
  BY DEF Create, Register, InstallHandlers, OtherRegisters, OtherInstalls, RecordBegins, Close,
         Running, Alive, Remembered, processVars, clientVars, drainVars, eventVars, connectionVars
<1>3. ASSUME NEW state, NEW worker, NEW lock, NEW session,
             Becomes(p, state, worker, lock, client[p].queue, client[p].held, session, client[p].seq),
             client[p].worker => worker, state # "closed",
             client[p].state \notin {"closing", "closed"}
      PROVE  PromisesInv'
  <2>1. /\ client'[p].state = state /\ client'[p].worker = worker
        /\ client'[p].queue = client[p].queue /\ client'[p].held = client[p].held
        /\ \A r \in Processes \ {p} : client'[r] = client[r]
    BY <1>3 DEF Becomes, Fields
  <2>2. phase[p] = "tick"
    BY <1>2, <1>3, KeptPlaced DEF Placed, Alive
  <2>3. Placed(p)'
    BY <1>2, <1>3, <2>1, <2>2 DEF Placed
  <2>4. \A e \in promised[p] : Due(p, e) => Due(p, e)'
    BY <1>2, <1>3, <2>1 DEF Due
  <2> QED
    BY <1>2, <2>1, <2>3, <2>4, StepKept
<1>4. {"open", "installing", "closing"} \subseteq States
  BY DEF States, InUse, Unmade
<1>5. CASE Create(p)
  <2>1. client[p].state = "absent"
    BY <1>5 DEF Create
  <2> QED
    BY <1>1, <1>3, <1>5, <2>1, CreateDoes
<1>6. CASE Register(p)
  <2>1. PICK state \in {"open", "installing"} :
           client' = [client EXCEPT ![p].state = state] /\ client[p].state = "registering"
    BY <1>6 DEF Register
  <2> QED
    BY <1>1, <1>3, <1>4, <2>1, StateDoes
<1>7. CASE InstallHandlers(p)
  <2>1. client' = [client EXCEPT ![p].state = "open"] /\ client[p].state = "installing"
    BY <1>7 DEF InstallHandlers
  <2>2. Becomes(p, "open", client[p].worker, client[p].lock, client[p].queue,
                client[p].held, client[p].session, client[p].seq)
    BY <1>1, <1>4, <2>1, StateDoes
  <2> QED
    BY <1>3, <2>1, <2>2
<1>8. CASE RecordBegins(p)
  <2>1. client[p].state = "open"
    BY <1>8 DEF RecordBegins
  <2> QED
    BY <1>1, <1>3, <1>8, <2>1, RecordBeginsDoes
<1>9. CASE Close(p)
  <2>1. client' = [client EXCEPT ![p].state = "closing"] /\ client[p].state = "open"
    BY <1>9 DEF Close
  <2>2. Becomes(p, "closing", client[p].worker, client[p].lock, client[p].queue,
                client[p].held, client[p].session, client[p].seq)
    BY <1>1, <1>4, <2>1, StateDoes
  <2> QED
    BY <1>3, <2>1, <2>2
<1>10. CASE OtherRegisters(p) \/ OtherInstalls(p)
  <2>1. client' = client
    BY <1>10 DEF OtherRegisters, OtherInstalls, clientVars
  <2>2. Placed(p)'
    BY <1>2, <2>1, KeptPlaced DEF Placed
  <2>3. \A e \in promised[p] : Due(p, e) => Due(p, e)'
    BY <1>2, <2>1 DEF Due
  <2> QED
    BY <1>2, <2>1, <2>2, <2>3, StepKept
<1> QED
  BY <1>5, <1>6, <1>7, <1>8, <1>9, <1>10

\* A call that finds the client open leaves its event to a worker still in its ticks.
LEMMA RecordKept ==
    ASSUME BatchedInv, PromisesInv, NEW p \in Processes, RecordEnds(p)
    PROVE  PromisesInv'
<1>1. TypeOK /\ Types /\ ProcessesInv
  BY DEF BatchedInv, ExchangedInv, ConnectedInv, Types
<1>2. /\ UNCHANGED <<status, exited, bare, stored, phase, late, stopped, reported>> /\ Alive(p)
  BY DEF RecordEnds, processVars, drainVars, connectionVars
<1>3. PICK e \in Events :
         /\ Becomes(p, client[p].state, client[p].worker, "free", client[p].queue \cup {e},
                    client[p].held, client[p].session, client[p].seq)
         /\ promised' = IF client[p].state = "open"
                        THEN [promised EXCEPT ![p] = @ \cup {e}] ELSE promised
  BY <1>1, RecordEndsDoes
<1>4. /\ client'[p].state = client[p].state /\ client'[p].worker = client[p].worker
      /\ client'[p].queue = client[p].queue \cup {e} /\ client'[p].held = client[p].held
      /\ \A r \in Processes \ {p} : client'[r] = client[r]
  BY <1>3 DEF Becomes, Fields
<1>5. Placed(p)'
  BY <1>2, <1>4, KeptPlaced DEF Placed
<1>6. \A f : Due(p, f) => Due(p, f)'
  BY <1>2, <1>4 DEF Due
<1>7. CASE client[p].state # "open"
  <2>1. Remembered
    BY <1>2, <1>3, <1>7 DEF Remembered
  <2> QED
    BY <1>2, <1>4, <1>5, <1>6, <2>1, StepKept
<1>8. CASE client[p].state = "open"
  <2>1. /\ promised'[p] = promised[p] \cup {e}
        /\ \A r \in Processes \ {p} : promised'[r] = promised[r]
    BY <1>1, <1>3, <1>8 DEF Types
  <2>2. ASSUME NEW r \in Processes \ {p} PROVE Kept(r)'
    BY <1>2, <1>4, <2>1, AsideKept DEF PromisesInv
  <2>3. p \notin bare => Due(p, e)'
    <3>1. p \notin bare => client[p].worker
      BY <1>1, <1>8 DEF ProcessesInv, Proper, Healthy
    <3>2. phase[p] = "tick"
      BY <1>2, <1>8, KeptPlaced DEF Placed, Alive
    <3> QED
      BY <1>2, <1>4, <3>1, <3>2 DEF Due
  <2>4. Kept(p)
    BY DEF PromisesInv
  <2>5. (CutShort(p)' <=> CutShort(p)) /\ (Alive(p)' <=> Alive(p))
    BY <1>2 DEF CutShort, Alive
  <2>6. Kept(p)'
    BY <1>2, <1>5, <1>6, <2>1, <2>3, <2>4, <2>5 DEF Kept, Placed, Alive
  <2> QED
    BY <2>2, <2>6 DEF PromisesInv
<1> QED
  BY <1>7, <1>8

\* A child has promised nothing.
LEMMA ForkKept ==
    ASSUME BatchedInv, PromisesInv, NEW p \in Processes, NEW q \in Processes, Fork(p, q)
    PROVE  PromisesInv'
<1>1. TypeOK /\ ProcessesInv
  BY DEF BatchedInv, ExchangedInv, ConnectedInv, Types
<1>2. /\ UNCHANGED <<promised, exited, stored, phase, late, reported>>
      /\ status[q] = "none" /\ status'[q] = "running" /\ stopped \subseteq stopped'
      /\ \A r \in Processes \ {q} : status'[r] = status[r]
      /\ \A r \in Processes \ {q} : r \in bare' <=> r \in bare
  BY <1>1 DEF Fork, eventVars, TypeOK
<1>3. \A r \in Processes \ {q} : client'[r] = client[r]
  BY <1>1, ForkDoes
<1>4. ASSUME NEW r \in Processes \ {q} PROVE Kept(r)'
  BY <1>2, <1>3, AsideKept DEF PromisesInv
<1>5. client[q] = Absent
  BY <1>1, <1>2 DEF ProcessesInv, Proper, Made
<1>6. promised[q] = {} /\ q \notin exited /\ phase[q] = "tick"
  BY <1>2, <1>5, AbsentIs DEF PromisesInv, Kept, Fields
<1>7. ~(client'[q].state = "closed" /\ client'[q].worker)
  <2>1. client[p] \in ClientState /\ sessions + 1 \in Nat
    BY <1>1 DEF TypeOK
  <2>2. PICK c \in ClientState, n \in Nat : c = client[p] /\ n = sessions + 1
    BY <2>1
  <2>3. client'[q] = Rebuilt(c, n) \/ client'[q] = Copied(c)
    BY <1>1, <2>2, ForkDoes
  <2>4. c.state \in States
    BY FieldTypes
  <2>5. ~Absent.worker
    BY AbsentIs DEF Fields
  <2>6. CASE client'[q] = Rebuilt(c, n)
    <3>1. CASE c.state \in Unmade
      BY <2>5, <2>6, <3>1, RebuiltIs
    <3>2. CASE c.state = "closed"
      <4>1. Fields(Rebuilt(c, n), "closed", FALSE, "free", c.queue, {}, c.session, c.seq)
        BY <3>2, RebuiltIs
      <4> QED
        BY <2>6, <4>1 DEF Fields
    <3>3. CASE c.state \in {"open", "closing"}
      BY <2>6, <3>3, RebuiltIs DEF Fields
    <3> QED
      BY <2>4, <3>1, <3>2, <3>3 DEF States, InUse
  <2>7. CASE client'[q] = Copied(c)
    <3>1. CASE c.state \in Unmade
      BY <2>5, <2>7, <3>1, CopiedIs
    <3>2. CASE c.state \notin Unmade
      <4>1. Copied(c).worker = FALSE
        BY <3>2, CopiedIs DEF Fields
      <4> QED
        BY <2>7, <4>1
    <3> QED
      BY <3>1, <3>2
  <2> QED
    BY <2>3, <2>6, <2>7
<1>8. Kept(q)'
  BY <1>2, <1>6, <1>7 DEF Kept
<1> QED
  BY <1>4, <1>8 DEF PromisesInv

\* A process ends with its client closed, and nothing due unless that was cut short.
LEMMA ExitKept ==
    ASSUME BatchedInv, PromisesInv, NEW p \in Processes, ExitBegins(p) \/ Exit(p)
    PROVE  PromisesInv'
<1>1. TypeOK /\ ProcessesInv
  BY DEF BatchedInv, ExchangedInv, ConnectedInv, Types
<1>2. UNCHANGED <<promised, bare, stored, phase, late, stopped, reported>> /\ Alive(p)
  BY DEF ExitBegins, Exit, Running, Alive, drainVars, eventVars, connectionVars
<1>3. /\ status'[p] \in {"exiting", "gone"}
      /\ \A r \in Processes \ {p} : status'[r] = status[r] /\ (r \in exited' => r \in exited)
  BY <1>1 DEF ExitBegins, Exit, TypeOK
<1>4. \A r \in Processes \ {p} : client'[r] = client[r]
  BY <1>1, ExitBeginsDoes, ExitDoes DEF Becomes
<1>5. ASSUME NEW r \in Processes \ {p} PROVE Kept(r)'
  BY <1>2, <1>3, <1>4, <1>5, AsideKept DEF PromisesInv
<1>6. Kept(p) /\ Placed(p) /\ Proper(p)
  BY <1>1, KeptPlaced DEF PromisesInv, ProcessesInv
<1>7. CutShort(p)' <=> CutShort(p)
  BY <1>2 DEF CutShort
<1>8. CASE ExitBegins(p)
  <2>1. status'[p] = "exiting" /\ Alive(p)' /\ exited' = exited
    BY <1>1, <1>8 DEF ExitBegins, Alive, TypeOK
  <2>2. /\ client'[p].state = client[p].state \/ client'[p].state = "closing"
        /\ client'[p].worker = client[p].worker /\ client'[p].queue = client[p].queue
        /\ client'[p].held = client[p].held
    BY <1>1, <1>8, ExitBeginsDoes DEF Becomes, Fields
  <2>3. \A e : Due(p, e)' <=> Due(p, e)
    BY <1>2, <2>2 DEF Due
  <2>4. status[p] # "gone"
    BY <1>2 DEF Alive
  <2>5. (client'[p].state \notin {"closing", "closed"}) => phase'[p] = "tick"
    BY <1>2, <1>6, <2>2, <2>4 DEF Placed
  <2>6. (client'[p].state = "closed" /\ client'[p].worker) => p \in late'
    BY <1>2, <1>6, <2>2 DEF Placed
  <2>7. status[p] # "none"
    BY <1>2 DEF Alive
  <2>8. p \notin exited
    BY <1>6, <2>4 DEF Kept
  <2> QED
    <3>1. Kept(p)'
      BY <1>2, <1>6, <1>7, <2>1, <2>3, <2>5, <2>6, <2>8 DEF Kept
    <3> QED
      BY <1>5, <3>1 DEF PromisesInv
<1>9. CASE Exit(p)
  <2>1. /\ status'[p] = "gone" /\ ~Alive(p)' /\ client'[p] = Absent
        /\ p \in exited' => p \in exited \/ handlers[p]
    BY <1>1, <1>9, ExitDoes DEF Exit, Alive, TypeOK
  <2>2. p \notin exited
    BY <1>2, <1>6 DEF Kept, Alive
  <2>3. handlers[p] => p \notin bare /\ client[p].state \in {"absent", "closed"}
    BY <1>6, <1>9 DEF Exit, Proper, Bare
  <2>4. handlers[p] /\ ~CutShort(p) => \A e \in promised[p] : stored[e] = 1 \/ e \in reported
    <3>1. ASSUME handlers[p], ~CutShort(p) PROVE ~client[p].worker
      <4>1. CASE client[p].state = "closed"
        BY <1>6, <3>1, <4>1 DEF Placed, CutShort
      <4>2. CASE client[p].state = "absent"
        BY <1>6, <4>2, AbsentIs DEF Proper, Made, Fields
      <4> QED
        BY <2>3, <3>1, <4>1, <4>2
    <3> QED
      BY <1>2, <1>6, <2>3, <3>1 DEF Kept, Due
  <2>5. ~(client'[p].state = "closed" /\ client'[p].worker)
    BY <2>1, AbsentIs DEF Fields
  <2>6. Kept(p)'
    BY <1>2, <1>7, <2>1, <2>2, <2>3, <2>4, <2>5 DEF Kept
  <2> QED
    BY <1>5, <2>6 DEF PromisesInv
<1> QED
  BY <1>8, <1>9

LEMMA NextPromises ==
    ASSUME BatchedInv, BatchedInv', PromisesInv, [Next]_vars
    PROVE  PromisesInv'
<1>1. /\ ConnectedInv /\ ConnectedInv' /\ Types /\ BatchesInv
      /\ \A p \in Processes : promised[p] \subseteq Events
  BY DEF BatchedInv, ExchangedInv, ConnectedInv, Types
<1>2. ASSUME UNCHANGED <<processVars, clientVars>>,
             \A e \in Events : stored[e] = 1 => stored'[e] = 1
      PROVE  PromisesInv'
  <2>1. UNCHANGED <<client, phase, status, promised, exited, bare, late, stopped, reported>>
    BY <1>2 DEF processVars, clientVars, drainVars, eventVars
  <2>2. ASSUME NEW r \in Processes PROVE Kept(r)'
    <3>1. \A e \in promised[r] : stored[e] = 1 => stored'[e] = 1
      BY <1>1, <1>2
    <3>2. Kept(r)
      BY DEF PromisesInv
    <3> QED
      BY <2>1, <3>1, <3>2, AsideKept
  <2> QED
    BY <2>2 DEF PromisesInv
<1>3. ASSUME NEW s \in DOMAIN sockets, EndpointStep(s) PROVE PromisesInv'
  <2>1. UNCHANGED <<processVars, clientVars>>
    BY <1>3 DEF EndpointStep
  <2>2. CASE Store(s)
    BY <1>1, <1>2, <2>1, <2>2, StoreBatches DEF clientVars
  <2>3. CASE Recall(s) \/ Refuse(s)
    BY <1>2, <2>1, <2>3 DEF Recall, Refuse
  <2> QED
    BY <1>3, <2>2, <2>3 DEF EndpointStep
<1>4. UNCHANGED vars => PromisesInv'
  BY <1>2 DEF vars, connectionVars
<1> DEFINE Goal == PromisesInv'
<1>5. \A p \in Processes : (WorkerStep(p) \/ RecordEnds(p)) => Goal
  BY WorkerKept, RecordKept
<1>6. \A p \in Processes : (CloseReturns(p) \/ CloseOutOfTime(p) \/ CloseTimesOut(p)) => Goal
  BY CloseKept
<1>7. \A p \in Processes :
         (\/ Create(p) \/ Register(p) \/ InstallHandlers(p) \/ OtherRegisters(p)
          \/ OtherInstalls(p) \/ RecordBegins(p) \/ Close(p)) => Goal
  BY OtherKept
<1>8. \A p, q \in Processes : (Fork(p, q) \/ ExitBegins(p) \/ Exit(p)) => Goal
  BY ForkKept, ExitKept
<1>9. \A s \in DOMAIN sockets : EndpointStep(s) => Goal
  BY <1>3
<1>10. UNCHANGED vars => Goal
  BY <1>4
<1> HIDE DEF Goal
<1>11. Goal
  BY <1>5, <1>6, <1>7, <1>8, <1>9, <1>10 DEF Next
<1> QED
  BY <1>11 DEF Goal

LEMMA AlwaysKept == Spec => []PromisesInv
<1>1. Init => PromisesInv
  BY InitPromises
<1>2. BatchedInv /\ BatchedInv' /\ PromisesInv /\ [Next]_vars => PromisesInv'
  BY NextPromises
<1> QED
  BY <1>1, <1>2, AlwaysBatched, PTL DEF Spec

\* A process that ends through its exit handler has delivered every event recorded
\* while its client was open, or has counted it or warned of it as lost, unless its
\* drain was cut short: by the deadline, a replay that failed or a terminal answer.
THEOREM OrderlyExits == Spec => []OrderlyExitDelivers
<1>1. BatchedInv /\ PromisesInv => OrderlyExitDelivers
  <2> SUFFICES ASSUME BatchedInv, PromisesInv, NEW p \in exited, ~CutShort(p),
                      NEW e \in promised[p]
               PROVE  stored[e] = 1 \/ e \in reported
    BY DEF OrderlyExitDelivers
  <2>1. TypeOK /\ ProcessesInv
    BY DEF BatchedInv, ExchangedInv, ConnectedInv, Types
  <2>2. p \in Processes
    BY <2>1 DEF TypeOK
  <2>3. Kept(p) /\ Made(p)
    BY <2>1, <2>2 DEF PromisesInv, ProcessesInv, Proper
  <2>4. status[p] = "gone" /\ p \notin bare
    BY <2>3 DEF Kept
  <2>5. ~client[p].worker
    BY <2>3, <2>4, AbsentIs DEF Made, Fields
  <2> QED
    BY <2>3, <2>4, <2>5 DEF Kept, Due
<1> QED
  BY <1>1, AlwaysBatched, AlwaysKept, PTL
=============================================================================
