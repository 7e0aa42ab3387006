----------------------------- MODULE Connection -----------------------------
(***************************************************************************)
(* The reused HTTP connection of _transport.py.  The transport has one     *)
(* connection in each process, or none; a fork copies the descriptor of    *)
(* its socket into the child.  A socket carries requests one way and       *)
(* answers the other, both in order, and knows nothing of who wrote or     *)
(* reads them: that an answer is taken for the right request is up to the  *)
(* transports.                                                             *)
(*                                                                         *)
(* The socket, the endpoint at its other end and http.client are not part  *)
(* of the repository.  The endpoint stores what it takes of a batch it has *)
(* not seen, and answers one it has from the outcome it kept               *)
(* (_session_prefix).  It may take a part and accept the batch all the     *)
(* same: the answer then counts what was dropped or rejected.              *)
(***************************************************************************)
EXTENDS Integers, Sequences, FiniteSets

CONSTANTS
    Processes,          \* processes, each with its copy of the transport
    MaxSockets          \* bound of the model: sockets opened in all

ASSUME ConnectionAssumption == MaxSockets \in Nat

VARIABLES
    connection,         \* _connection of each transport: a socket, or 0 for none
    waiting,            \* the request each send in progress waits for, or none
    restated,           \* processes whose send in progress is the one after a 409
    sockets,            \* what is on each socket, and whether it has ended
    outcomes,           \* what the endpoint did not take of each batch it knows
    stored              \* history: how often the endpoint has stored each event

connectionVars == <<connection, waiting, restated, sockets, outcomes, stored>>

NoRequest == [id |-> << >>, events |-> {}]

NewSocket == [requests |-> << >>, answers |-> << >>, ended |-> FALSE]

ConnectionInit(events) ==
    /\ connection = [p \in Processes |-> 0]
    /\ waiting = [p \in Processes |-> NoRequest]
    /\ restated = {}
    /\ sockets = << >>
    /\ outcomes = {}
    /\ stored = [e \in events |-> 0]

Waits(p) == waiting[p] # NoRequest

-----------------------------------------------------------------------------
(***************************************************************************)
(* _send_body.                                                             *)
(***************************************************************************)
\* _connect: the connection there is, or a new one on a socket of its own.
Connect(p) ==
    \/ /\ connection[p] # 0
       /\ UNCHANGED connection
    \/ /\ connection[p] = 0 /\ Len(sockets) < MaxSockets
       /\ connection' = [connection EXCEPT ![p] = Len(sockets) + 1]

Opened(s) == IF s > Len(sockets) THEN Append(sockets, NewSocket) ELSE sockets

\* What is written on a socket that has ended is lost.
Written(socket, request) ==
    IF socket.ended THEN socket ELSE [socket EXCEPT !.requests = Append(@, request)]

Request(p, request) ==
    /\ ~Waits(p)
    /\ waiting' = [waiting EXCEPT ![p] = request]
    /\ Connect(p)
    /\ LET s == connection'[p]
       IN sockets' = [Opened(s) EXCEPT ![s] = Written(@, request)]
    /\ UNCHANGED <<restated, outcomes, stored>>

\* The next answer on the socket, which getresponse takes.
HasAnswer(p) == Waits(p) /\ sockets[connection[p]].answers # << >>

NextAnswer(p) == Head(sockets[connection[p]].answers)

Taken(socket) == [socket EXCEPT !.answers = Tail(@)]

\* The send ends with this answer.  An error status leaves the connection as it is,
\* and so does a 2xx that carries losses: send returns as from any other.
Receive(p, accepted) ==
    /\ HasAnswer(p) /\ NextAnswer(p).accepted = accepted
    /\ sockets' = [sockets EXCEPT ![connection[p]] = Taken(@)]
    /\ waiting' = [waiting EXCEPT ![p] = NoRequest]
    /\ restated' = restated \ {p}
    /\ UNCHANGED <<connection, outcomes, stored>>

\* send, after a 409: the batch goes out once more on the same connection, whatever
\* close() has decided meanwhile.  What else the status means is in Dictionary.
Restate(p) ==
    /\ HasAnswer(p) /\ ~NextAnswer(p).accepted
    /\ p \notin restated
    /\ sockets' = [sockets EXCEPT ![connection[p]] = Written(Taken(@), waiting[p])]
    /\ restated' = restated \cup {p}
    /\ UNCHANGED <<connection, waiting, outcomes, stored>>

\* connection.close() ends the connection for whoever has its descriptor: over TLS
\* it says so to the other end (reset_after_fork).  Answers are no longer read, but
\* requests already written may still reach the endpoint.
Ended(s) ==
    IF s = 0 THEN sockets
    ELSE [sockets EXCEPT ![s].ended = TRUE, ![s].answers = << >>]

\* A slip: the connection is kept after a failure.  The runs find each of the slips
\* of this module.
ConnectionKept(p) == UNCHANGED <<connection, sockets>>

\* _drop_connection, and close of the transport.
DropConnection(p) ==
    /\ connection' = [connection EXCEPT ![p] = 0]
    /\ sockets' = Ended(connection[p])

\* No answer in time, or an error of the socket: a connection the network has ended
\* is one whose next request fails.
Fail(p) ==
    /\ Waits(p)
    /\ DropConnection(p)
    /\ waiting' = [waiting EXCEPT ![p] = NoRequest]
    /\ restated' = restated \ {p}
    /\ UNCHANGED <<outcomes, stored>>

CloseTransport(p) ==
    /\ DropConnection(p)
    /\ UNCHANGED <<waiting, restated, outcomes, stored>>

\* Two slips: the child's connection is its parent's, or is closed as any other.
ForkKeepsConnection(p, q, reset) ==
    /\ connection' = [connection EXCEPT ![q] = connection[p]]
    /\ UNCHANGED sockets

ForkCloses(p, q, reset) ==
    /\ connection' = [connection EXCEPT ![q] = IF reset THEN 0 ELSE connection[p]]
    /\ sockets' = IF reset THEN Ended(connection[p]) ELSE sockets

\* q is forked from p.  reset_after_fork detaches the descriptor and closes it by
\* number: nothing is written, and the parent's socket lives on.
ForkConnection(p, q, reset) ==
    /\ connection' = [connection EXCEPT ![q] = IF reset THEN 0 ELSE connection[p]]
    /\ UNCHANGED sockets

-----------------------------------------------------------------------------
(***************************************************************************)
(* The endpoint.                                                           *)
(***************************************************************************)
\* A request may be answered long after its client has given up on it.
Pending(s) == sockets[s].requests # << >>

Answers(s, accepted, lost) ==
    /\ LET answer == [id |-> Head(sockets[s].requests).id, accepted |-> accepted, lost |-> lost]
       IN sockets' = [sockets EXCEPT
             ![s].requests = Tail(@),
             ![s].answers  = IF sockets[s].ended THEN << >> ELSE Append(@, answer)]
    /\ UNCHANGED <<connection, waiting, restated>>

\* A batch it has not seen, of which it drops or rejects the events lost.
Store(s) ==
    /\ Pending(s)
    /\ LET request == Head(sockets[s].requests)
       IN /\ \A o \in outcomes : o.id # request.id
          /\ \E lost \in SUBSET request.events :
                /\ Answers(s, TRUE, lost)
                /\ outcomes' = outcomes \cup {[id |-> request.id, lost |-> lost]}
                /\ stored' = [e \in DOMAIN stored |->
                      IF e \in request.events \ lost THEN stored[e] + 1 ELSE stored[e]]

\* A batch it has seen.
Recall(s) ==
    /\ Pending(s)
    /\ \E o \in outcomes :
          o.id = Head(sockets[s].requests).id /\ Answers(s, TRUE, o.lost)
    /\ UNCHANGED <<outcomes, stored>>

\* Any other status: it is overloaded, the batch is malformed, the key is refused.
Refuse(s) ==
    /\ Pending(s)
    /\ Answers(s, FALSE, {})
    /\ UNCHANGED <<outcomes, stored>>

=============================================================================
