------------------------------ MODULE Lifetime ------------------------------
(***************************************************************************)
(* A client over the life of its processes: its creation and registration  *)
(* (_fork.py), a fork at any moment and what is rebuilt in the child       *)
(* (_reinit_after_fork), its close, and the end of a process; with the     *)
(* HTTP connection of its transport (Connection) and the identity of the   *)
(* batches it carries.  One client is followed; another, of no further     *)
(* interest, may be registered before it.                                  *)
(*                                                                         *)
(* Recording, batching and the outage buffer are coarse: an event is       *)
(* pushed under the client's lock; the worker makes one batch of what is   *)
(* queued, and the outage buffer may at any time be too small or a batch   *)
(* too old for it.  Times are left out, but for the deadline of a close.   *)
(***************************************************************************)
EXTENDS Connection

CONSTANT Events         \* events recorded, in this order

ASSUME LifetimeAssumption ==
    /\ Processes = 1..Cardinality(Processes)    \* in the order they are forked
    /\ Events \subseteq Nat

VARIABLES
    status,             \* of each process: none, running, exiting or gone
    registry,           \* _fork._lock of each process: free, held or lost
    installed,          \* _fork._installed of each process
    handlers,           \* whether the fork and exit handlers are installed
    other,              \* processes where another client's thread is installing them
    client,             \* the client in each process
    sessions,           \* number of session prefixes drawn: no two are equal
    unrecorded,         \* events not recorded yet
    bare,               \* history: processes forked before the handlers were there
    phase,              \* where the worker of each process is in _worker_loop
    late,               \* processes where a close found its deadline passed
    stopped,            \* _stop_sending of each client
    promised,           \* history: events recorded while the client was open
    confirmed,          \* history: events whose batch was accepted with them
    reported,           \* history: events counted, or warned of, as lost
    exited              \* history: processes that ran their exit handler

processVars == <<status, registry, installed, handlers, other, bare, exited>>
drainVars   == <<phase, late, stopped>>
eventVars   == <<unrecorded, promised, confirmed, reported>>
clientVars  == <<client, sessions, drainVars, eventVars>>
vars == <<processVars, clientVars, connectionVars>>

\* held: the batches made and not settled, in the outage buffer or being sent.
Absent == [state |-> "absent", worker |-> FALSE, lock |-> "free",
           queue |-> {}, held |-> {}, session |-> 0, seq |-> 0]

Init ==
    /\ status = [p \in Processes |-> IF p = 1 THEN "running" ELSE "none"]
    /\ registry = [p \in Processes |-> "free"]
    /\ installed = [p \in Processes |-> FALSE]
    /\ handlers = [p \in Processes |-> FALSE]
    /\ other = {}
    /\ client = [p \in Processes |-> Absent]
    /\ sessions = 0
    /\ unrecorded = Events
    /\ bare = {}
    /\ phase = [p \in Processes |-> "tick"]
    /\ late = {} /\ stopped = {}
    /\ promised = [p \in Processes |-> {}]
    /\ confirmed = {} /\ reported = {}
    /\ exited = {}
    /\ ConnectionInit(Events)

Running(p) == status[p] = "running"
Alive(p)   == status[p] \in {"running", "exiting"}

-----------------------------------------------------------------------------
(***************************************************************************)
(* Client.__init__ and register.  The client is not the application's      *)
(* before both are done.                                                   *)
(***************************************************************************)
\* The worker is started, with a session prefix, and register takes its lock.
Create(p) ==
    /\ Running(p)
    /\ client[p].state = "absent"
    /\ registry[p] = "free"
    /\ registry' = [registry EXCEPT ![p] = "held"]
    /\ sessions' = sessions + 1
    /\ client' = [client EXCEPT ![p].state = "registering", ![p].worker = TRUE,
                                ![p].session = sessions + 1]
    /\ UNCHANGED <<status, installed, handlers, other, bare, exited, drainVars, eventVars,
                   connectionVars>>

\* The first client of a process claims the installation, and installs outside the
\* lock; another, that finds it claimed, is done.
Register(p) ==
    /\ Alive(p)
    /\ client[p].state = "registering"
    /\ registry' = [registry EXCEPT ![p] = "free"]
    /\ installed' = [installed EXCEPT ![p] = TRUE]
    /\ client' = [client EXCEPT ![p].state = IF installed[p] THEN "open" ELSE "installing"]
    /\ UNCHANGED <<status, handlers, other, bare, exited, sessions, drainVars, eventVars,
                   connectionVars>>

\* _install_handlers: its three registrations are one step.
InstallHandlers(p) ==
    /\ Alive(p)
    /\ client[p].state = "installing"
    /\ handlers' = [handlers EXCEPT ![p] = TRUE]
    /\ client' = [client EXCEPT ![p].state = "open"]
    /\ UNCHANGED <<status, registry, installed, other, bare, exited, sessions, drainVars,
                   eventVars, connectionVars>>

\* Another client comes first: its thread claims the installation, then installs.
OtherRegisters(p) ==
    /\ Running(p)
    /\ registry[p] = "free" /\ ~installed[p]
    /\ installed' = [installed EXCEPT ![p] = TRUE]
    /\ other' = other \cup {p}
    /\ UNCHANGED <<status, registry, handlers, bare, exited, clientVars, connectionVars>>

OtherInstalls(p) ==
    /\ Alive(p)
    /\ p \in other
    /\ handlers' = [handlers EXCEPT ![p] = TRUE]
    /\ other' = other \ {p}
    /\ UNCHANGED <<status, registry, installed, bare, exited, clientVars, connectionVars>>

-----------------------------------------------------------------------------
(***************************************************************************)
(* A metric call.                                                          *)
(***************************************************************************)
RecordBegins(p) ==
    /\ Running(p)
    /\ client[p].state = "open" /\ client[p].lock = "free" /\ p \notin stopped
    /\ unrecorded # {}
    /\ client' = [client EXCEPT ![p].lock = "held"]
    /\ UNCHANGED <<processVars, sessions, drainVars, eventVars, connectionVars>>

RecordEnds(p) ==
    /\ Alive(p)
    /\ client[p].lock = "held"
    /\ \E e \in unrecorded :
          /\ \A f \in unrecorded : e <= f
          /\ unrecorded' = unrecorded \ {e}
          /\ client' = [client EXCEPT ![p].lock = "free", ![p].queue = @ \cup {e}]
          /\ promised' = IF client[p].state = "open"
                         THEN [promised EXCEPT ![p] = @ \cup {e}] ELSE promised
    /\ UNCHANGED <<processVars, sessions, drainVars, confirmed, reported, connectionVars>>

-----------------------------------------------------------------------------
(***************************************************************************)
(* The worker.  It is in the loop of its ticks, and after a close first in *)
(* the drain of the queue ("drain"), then of the outage buffer ("replay"), *)
(* which a replay that fails ends ("over").                                *)
(*                                                                         *)
(* A tick flushes, then replays.  It looks neither at _closing nor at the  *)
(* deadline, so it may outlast the close that waited for it; how much of   *)
(* either it does before the loop looks again is left open.                *)
(***************************************************************************)
Works(p) == Alive(p) /\ client[p].worker

\* The worker is not inside a send.
Idle(p) == Works(p) /\ ~Waits(p)

\* A slip: a batch id is its number alone.  The runs find each of the slips of this
\* module.
BatchIdUnprefixed(own) == <<own.seq + 1>>

\* _next_batch_id.  A batch keeps its id, however often it is sent.
BatchId(own) == <<own.session, own.seq + 1>>

NewBatch(p) == [id |-> BatchId(client[p]), events |-> client[p].queue]

EventsOf(batches) == UNION {b.events : b \in batches}

\* _flush_one_batch takes what is queued, under the lock.  In a drain it begins only
\* before the deadline.
MayFlush(p) ==
    /\ Idle(p)
    /\ client[p].queue # {} /\ client[p].lock = "free"
    /\ \/ phase[p] = "tick"
       \/ phase[p] = "drain" /\ p \notin late \cup stopped

FlushTo(p, held) ==
    client' = [client EXCEPT ![p].queue = {}, ![p].seq = @ + 1, ![p].held = held]

FlushSends(p) ==
    /\ MayFlush(p) /\ p \notin stopped
    /\ FlushTo(p, client[p].held \cup {NewBatch(p)})
    /\ Request(p, NewBatch(p))
    /\ UNCHANGED <<processVars, sessions, drainVars, eventVars>>

\* A backoff of the client is on, which a drain ignores: the batch is buffered.  The
\* buffer drops the batches gone: older ones to make room or for their age, or the
\* new one that is too large.
FlushBuffers(p) ==
    /\ MayFlush(p) /\ phase[p] = "tick" /\ p \notin stopped
    /\ \E gone \in SUBSET (client[p].held \cup {NewBatch(p)}) :
          /\ FlushTo(p, (client[p].held \cup {NewBatch(p)}) \ gone)
          /\ reported' = reported \cup EventsOf(gone)
    /\ UNCHANGED <<processVars, sessions, drainVars, unrecorded, promised, confirmed,
                   connectionVars>>

\* After a terminal answer _send_payload drops what it is given, and counts nothing.
FlushDiscards(p) ==
    /\ MayFlush(p) /\ p \in stopped
    /\ FlushTo(p, client[p].held)
    /\ UNCHANGED <<processVars, sessions, drainVars, eventVars, connectionVars>>

\* _flush_retry_queue in a tick, _drain_retry_queue_on_close in a drain.
Replays(p) ==
    /\ Idle(p) /\ p \notin stopped
    /\ phase[p] = "tick" \/ (phase[p] = "replay" /\ p \notin late)

Replay(p) ==
    /\ Replays(p)
    /\ \E b \in client[p].held : Request(p, b)
    /\ UNCHANGED <<processVars, clientVars>>

\* _prune_expired, before a replay.
Prune(p) ==
    /\ Replays(p)
    /\ \E b \in client[p].held :
          /\ client' = [client EXCEPT ![p].held = @ \ {b}]
          /\ reported' = reported \cup b.events
    /\ UNCHANGED <<processVars, sessions, drainVars, unrecorded, promised, confirmed,
                   connectionVars>>

\* A 2xx settles the batch.  The events it did not take are warned of.
Delivered(p) ==
    /\ Works(p)
    /\ Receive(p, TRUE)
    /\ LET lost == NextAnswer(p).lost
       IN /\ confirmed' = confirmed \cup (waiting[p].events \ lost)
          /\ reported' = reported \cup lost
    /\ client' = [client EXCEPT ![p].held = @ \ {waiting[p]}]
    /\ UNCHANGED <<processVars, sessions, drainVars, unrecorded, promised>>

\* Where a send that fails leaves the worker: a replay of the drain ends the drain.
AfterFailure(p) == [phase EXCEPT ![p] = IF @ = "replay" THEN "over" ELSE @]

\* The batch is buffered, or dropped if the answer is not retryable; the buffer may
\* drop it, or others in its favour.  What is dropped is counted.
NotDelivered(p) ==
    /\ Works(p)
    /\ Fail(p) \/ Receive(p, FALSE)
    /\ \E gone \in SUBSET client[p].held :
          /\ client' = [client EXCEPT ![p].held = @ \ gone]
          /\ reported' = reported \cup EventsOf(gone)
    /\ phase' = AfterFailure(p)
    /\ UNCHANGED <<processVars, sessions, late, stopped, unrecorded, promised, confirmed>>

\* A terminal answer: the batch is gone and nothing more is sent.  Neither it nor what
\* is dropped later is counted.
StopIngest(p) ==
    /\ Works(p)
    /\ Receive(p, FALSE)
    /\ stopped' = stopped \cup {p}
    /\ client' = [client EXCEPT ![p].held = @ \ {waiting[p]}]
    /\ phase' = AfterFailure(p)
    /\ UNCHANGED <<processVars, sessions, late, eventVars>>

\* The 409 is dealt with inside the send.
SendRestated(p) ==
    /\ Works(p)
    /\ Restate(p)
    /\ UNCHANGED <<processVars, clientVars>>

MovesTo(p, place) ==
    /\ phase' = [phase EXCEPT ![p] = place]
    /\ UNCHANGED <<processVars, client, sessions, late, stopped, eventVars, connectionVars>>

\* The loop sees _closing.
DrainBegins(p) ==
    /\ Idle(p) /\ phase[p] = "tick"
    /\ client[p].state = "closing"
    /\ MovesTo(p, "drain")

\* A slip: the drain goes on to the buffer with the queue not empty.
QueueSkipped(p) == Idle(p) /\ phase[p] = "drain" /\ MovesTo(p, "replay")

QueueDrained(p) ==
    /\ Idle(p) /\ phase[p] = "drain"
    /\ client[p].queue = {} /\ client[p].lock = "free"
    /\ MovesTo(p, "replay")

\* A slip: the drain forgets the outage buffer.
BufferSkipped(p) == phase[p] \in {"replay", "over"}

\* The drain has ended before its deadline: all is sent, a replay has failed, or nothing
\* more may be sent.
DrainEnds(p) ==
    \/ phase[p] = "replay" /\ client[p].held = {}
    \/ phase[p] = "over"
    \/ phase[p] \in {"drain", "replay"} /\ p \in stopped

-----------------------------------------------------------------------------
(***************************************************************************)
(* close.  That the deadline has passed matters when somebody looks: the   *)
(* loops of the drain, and the join, a second later.                       *)
(***************************************************************************)
Close(p) ==
    /\ Running(p)
    /\ client[p].state = "open"
    /\ client' = [client EXCEPT ![p].state = "closing"]
    /\ UNCHANGED <<processVars, sessions, drainVars, eventVars, connectionVars>>

\* The worker ends, and with it the join; then the transport is closed.
Joins(p) ==
    /\ Alive(p) /\ client[p].state = "closing" /\ ~Waits(p)
    /\ client' = [client EXCEPT ![p].state = "closed", ![p].worker = FALSE]
    /\ CloseTransport(p)
    /\ UNCHANGED <<processVars, sessions, phase, stopped, eventVars>>

\* With its work done, or there was no worker.
CloseReturns(p) ==
    /\ client[p].worker => DrainEnds(p)
    /\ Joins(p)
    /\ UNCHANGED late

CloseOutOfTime(p) ==
    /\ client[p].worker /\ phase[p] \in {"drain", "replay"}
    /\ Joins(p)
    /\ late' = late \cup {p}

\* The join times out: worker and transport are left to themselves.
CloseTimesOut(p) ==
    /\ Works(p) /\ client[p].state = "closing"
    /\ client' = [client EXCEPT ![p].state = "closed"]
    /\ late' = late \cup {p}
    /\ UNCHANGED <<processVars, sessions, phase, stopped, eventVars, connectionVars>>

\* Such a worker ends when it next looks.
WorkerEnds(p) ==
    /\ Idle(p) /\ client[p].state = "closed"
    /\ client' = [client EXCEPT ![p].worker = FALSE]
    /\ UNCHANGED <<processVars, sessions, drainVars, eventVars, connectionVars>>

-----------------------------------------------------------------------------
(***************************************************************************)
(* A fork.  The child is a copy of its parent without its threads: a lock  *)
(* another thread holds is lost, a client under construction with it.      *)
(***************************************************************************)
InUse == {"open", "closing", "closed"}

\* What a child has of a client if nothing is rebuilt.
Copied(parent) ==
    IF parent.state \notin InUse THEN Absent
    ELSE [parent EXCEPT !.worker = FALSE, !.held = {},
                        !.lock = IF @ = "free" THEN "free" ELSE "lost"]

\* A slip: the session stays.
SessionKept(parent, session) ==
    CASE parent.state \notin InUse   -> Absent
      [] parent.state = "closed"     -> [Copied(parent) EXCEPT !.lock = "free"]
      [] OTHER                       -> [Absent EXCEPT !.state = "open", !.worker = TRUE,
                                                       !.session = parent.session]

\* _reinit_after_fork.  A client that is being closed is open again in the child; a
\* closed one gets a lock and stays closed.  _stop_sending is not reset.
Rebuilt(parent, session) ==
    CASE parent.state \notin InUse   -> Absent
      [] parent.state = "closed"     -> [Copied(parent) EXCEPT !.lock = "free"]
      [] OTHER                       -> [Absent EXCEPT !.state = "open", !.worker = TRUE,
                                                       !.session = session]

\* A slip: the fork does not wait for register to release its lock.
ForksAnyway(p) == TRUE

\* The handler that runs before a fork takes the lock of register.
MayFork(p) == handlers[p] => registry[p] = "free"

\* Once the handlers are installed, _reinit_children rebuilds the client of the child.
Fork(p, q) ==
    /\ Running(p) /\ MayFork(p)
    /\ status[q] = "none" /\ \A r \in Processes : r < q => status[r] # "none"
    /\ status' = [status EXCEPT ![q] = "running"]
    /\ registry' = [registry EXCEPT ![q] = IF registry[p] = "free" THEN "free" ELSE "lost"]
    /\ installed' = [installed EXCEPT ![q] = installed[p]]
    /\ handlers' = [handlers EXCEPT ![q] = handlers[p]]
    /\ bare' = IF (installed[p] \/ registry[p] # "free") /\ ~handlers[p]
               THEN bare \cup {q} ELSE bare
    /\ client' = [client EXCEPT ![q] = IF handlers[p]
                                       THEN Rebuilt(client[p], sessions + 1)
                                       ELSE Copied(client[p])]
    /\ sessions' = sessions + 1
    /\ stopped' = IF p \in stopped THEN stopped \cup {q} ELSE stopped
    /\ ForkConnection(p, q, handlers[p] /\ client[p].state \in {"open", "closing"})
    /\ UNCHANGED <<other, exited, phase, late, eventVars, waiting, restated, outcomes, stored>>

-----------------------------------------------------------------------------
(***************************************************************************)
(* The end of a process.  Its exit handler, _flush_at_exit, closes the     *)
(* client it still has.  A process that is killed is one that takes no     *)
(* further step.                                                           *)
(***************************************************************************)
ExitBegins(p) ==
    /\ Running(p)
    /\ client[p].state \notin {"registering", "installing"}
    /\ status' = [status EXCEPT ![p] = "exiting"]
    /\ client' = IF handlers[p] /\ client[p].state = "open"
                 THEN [client EXCEPT ![p].state = "closing"] ELSE client
    /\ UNCHANGED <<registry, installed, handlers, other, bare, exited, sessions, drainVars,
                   eventVars, connectionVars>>

\* Without the handlers nothing is closed.
Exit(p) ==
    /\ status[p] = "exiting"
    /\ handlers[p] => client[p].state \in {"absent", "closed"}
    /\ exited' = IF handlers[p] THEN exited \cup {p} ELSE exited
    /\ status' = [status EXCEPT ![p] = "gone"]
    /\ connection' = [connection EXCEPT ![p] = 0]
    /\ waiting' = [waiting EXCEPT ![p] = NoRequest]
    /\ restated' = restated \ {p}
    /\ client' = [client EXCEPT ![p] = Absent]
    /\ UNCHANGED <<registry, installed, handlers, other, bare, sessions, drainVars, eventVars,
                   sockets, outcomes, stored>>

-----------------------------------------------------------------------------
WorkerStep(p) ==
    \/ FlushSends(p) \/ FlushBuffers(p) \/ FlushDiscards(p)
    \/ Replay(p) \/ Prune(p)
    \/ Delivered(p) \/ NotDelivered(p) \/ StopIngest(p) \/ SendRestated(p)
    \/ DrainBegins(p) \/ QueueDrained(p) \/ WorkerEnds(p)

EndpointStep(s) ==
    /\ Store(s) \/ Recall(s) \/ Refuse(s)
    /\ UNCHANGED <<processVars, clientVars>>

Next ==
    \/ \E p \in Processes :
          \/ Create(p) \/ Register(p) \/ InstallHandlers(p)
          \/ OtherRegisters(p) \/ OtherInstalls(p)
          \/ RecordBegins(p) \/ RecordEnds(p)
          \/ WorkerStep(p)
          \/ Close(p) \/ CloseReturns(p) \/ CloseOutOfTime(p) \/ CloseTimesOut(p)
          \/ \E q \in Processes : Fork(p, q)
          \/ ExitBegins(p) \/ Exit(p)
    \/ \E s \in DOMAIN sockets : EndpointStep(s)

Spec == Init /\ [][Next]_vars

-----------------------------------------------------------------------------
(***************************************************************************)
(* Properties.                                                             *)
(***************************************************************************)
ClientState ==
    [state   : InUse \cup {"absent", "registering", "installing"},
     worker  : BOOLEAN,
     lock    : {"free", "held", "lost"},
     queue   : SUBSET Events,
     held    : SUBSET [id : Nat \X Nat, events : SUBSET Events],
     session : Nat,
     seq     : Nat]

\* Every variable has the type its Python counterpart has.
TypeOK ==
    /\ status \in [Processes -> {"none", "running", "exiting", "gone"}]
    /\ registry \in [Processes -> {"free", "held", "lost"}]
    /\ installed \in [Processes -> BOOLEAN] /\ handlers \in [Processes -> BOOLEAN]
    /\ client \in [Processes -> ClientState]
    /\ sessions \in Nat
    /\ phase \in [Processes -> {"tick", "drain", "replay", "over"}]
    /\ late \subseteq Processes /\ stopped \subseteq Processes
    /\ connection \in [Processes -> 0..Len(sockets)]
    /\ unrecorded \subseteq Events /\ confirmed \subseteq Events /\ reported \subseteq Events
    /\ bare \subseteq Processes /\ exited \subseteq Processes
    /\ stored \in [Events -> Nat]

\* An event is stored at most once, however often its batch is sent and whatever
\* copies of the client a fork has made.  And a 2xx is taken for what it says: an
\* event of the batch that it does not report as lost is stored, never answered for
\* from the outcome of another process's batch.
StoredOnce ==
    /\ \A e \in Events : stored[e] <= 1
    /\ \A e \in confirmed : stored[e] = 1

\* The answer a transport is about to read is the answer to its own request.
AnswerIsMine ==
    \A p \in Processes :
        Waits(p) /\ sockets[connection[p]].answers # << >> =>
            Head(sockets[connection[p]].answers).id = waiting[p].id

InService(p) == client[p].worker \/ client[p].state \in {"open", "closing"}

\* No two processes whose client is in service write to one socket; a child forked
\* before the handlers were there is excepted.
SocketsNotShared ==
    \A p, q \in {r \in Processes \ bare : InService(r)} :
        (p # q /\ connection[p] = connection[q]) => connection[p] = 0

\* A connection in service ends because its own transport drops it, never because a
\* child lets go of its copy.  A child forked before the handlers were there is
\* excepted: the copy it has is as good as its parent's, and its close ends both.
NotTornDown ==
    [][\A p \in Processes :
          LET s == connection[p]
          IN (/\ s # 0 /\ InService(p) /\ ~sockets[s].ended
              /\ ~\E q \in bare : connection[q] = s
              /\ connection'[p] = s) => ~sockets'[s].ended]_vars

\* A child forked under the handlers is healthy, and so is a process that was never
\* forked: an open client has a worker and a session of its own, and no lock is held
\* by a thread that is not there.
ChildIsHealthy ==
    \A p \in Processes \ bare : Alive(p) =>
        /\ registry[p] # "lost" /\ client[p].lock # "lost"
        /\ client[p].state = "open" =>
              /\ client[p].worker
              /\ \A q \in Processes \ (bare \cup {p}) : client[q].session # client[p].session

\* Why a drain leaves something: the deadline came first, a replay failed, or a
\* terminal answer stopped the client.
CutShort(p) == p \in late \cup stopped \/ phase[p] = "over"

\* A process that ends through its exit handler has delivered every event recorded
\* while its client was open, or has counted or warned of it as lost: dropped from the
\* outage buffer, of a batch the endpoint refused for good, or not taken by a 2xx.
\* Nothing else is missing unless the drain was cut short.
OrderlyExitDelivers ==
    \A p \in exited : ~CutShort(p) =>
        \A e \in promised[p] : stored[e] = 1 \/ e \in reported

=============================================================================
