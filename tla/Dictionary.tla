----------------------------- MODULE Dictionary -----------------------------
(***************************************************************************)
(* The series dictionary of protocol v5: how the client and the ingest     *)
(* endpoint agree on what a series number means.                           *)
(*                                                                         *)
(* The client side is _dictionary.py and HTTPTransport.send of             *)
(* _transport.py, one at a time in each process; a fork gives the child a  *)
(* dictionary of its own.  The endpoint is not part of the repository: it  *)
(* is modelled from what the client sends it and does with its answers,    *)
(* and resolves a series number as tests/conftest.py does.  It may forget  *)
(* a session at any time, and requests and answers may be lost.            *)
(*                                                                         *)
(* A batch is the set of series its events belong to, and its new series   *)
(* are numbered, from 1, in any order.                                     *)
(***************************************************************************)
EXTENDS Integers, Sequences, FiniteSets, Functions

CONSTANTS
    Processes,          \* processes that may hold the client
    FirstProcess,       \* the one that creates it
    Series,             \* series definitions: metric and labels
    Batches,            \* the sets of series a batch may carry
    MaxSeries,          \* DEFAULT_MAX_DICTIONARY_SERIES
    MaxSessions         \* bound of the model: sessions opened in all

ASSUME DictionaryAssumption ==
    /\ FirstProcess \in Processes
    /\ IsFiniteSet(Series)
    /\ Batches \subseteq SUBSET Series
    /\ Batches # {} /\ {} \notin Batches
    /\ MaxSeries \in Nat \ {0}
    /\ MaxSessions \in Nat

VARIABLES
    alive,              \* processes that exist
    dictionary,         \* _dictionary of each process
    request,            \* the request each process has sent and waits for
    sessions,           \* number of session ids drawn so far: no two are equal
    known,              \* what the endpoint knows: session, id and series
    forgotten,          \* history: sessions the endpoint has forgotten
    misattributed       \* history: recorded series stored as another, and as which

serverVars == <<known, forgotten, misattributed>>
vars == <<alive, dictionary, request, sessions, serverVars>>

\* _dictionary is None
NoDictionary == [session |-> 0, revision |-> 0, series |-> << >>]

\* A slip: one session id for all.  The runs find each of the slips of this module.
SharedSession == [session |-> 1, revision |-> 0, series |-> << >>]

\* DictionaryState(), with a session id of its own.
NewDictionary == [session |-> sessions + 1, revision |-> 0, series |-> << >>]

OpensSession ==
    /\ sessions < MaxSessions
    /\ sessions' = sessions + 1

NoRequest == [session |-> 0]

Init ==
    /\ alive = {FirstProcess}
    /\ dictionary = [p \in Processes |-> NoDictionary]
    /\ request = [p \in Processes |-> NoRequest]
    /\ sessions = 0
    /\ known = {}
    /\ forgotten = {}
    /\ misattributed = {}

-----------------------------------------------------------------------------
(***************************************************************************)
(* encode_payload_v5.  Series the dictionary does not have are appended to *)
(* it, and the revision grows by one if there are any.  The request        *)
(* defines the new series, or every one if definitions are forced, and     *)
(* refers to the series of its events by number.                           *)
(***************************************************************************)
\* The sequences that hold each element of a set once.
Orderings(set) ==
    {f \in [1..Cardinality(set) -> set] : Range(f) = set}

IdOf(series, s) == CHOOSE i \in 1..Len(series) : series[i] = s

\* The numbers a request defines.  A slip: forced, those it had before.
DefinesKnown(before, after, force) ==
    IF force THEN 1..Len(before) ELSE Len(before) + 1..Len(after)

Defines(before, after, force) ==
    IF force THEN 1..Len(after) ELSE Len(before) + 1..Len(after)

Encode(p, batch, dict, force) ==
    \E new \in Orderings(batch \ Range(dict.series)) :
        LET series   == dict.series \o new
            revision == IF new = << >> THEN dict.revision ELSE dict.revision + 1
        IN /\ dictionary' = [dictionary EXCEPT ![p] =
                  [session |-> dict.session, revision |-> revision, series |-> series]]
           /\ request' = [request EXCEPT ![p] =
                  [session  |-> dict.session,
                   revision |-> revision,
                   defines  |-> [i \in Defines(dict.series, series, force) |-> series[i]],
                   refers   |-> [s \in batch |-> IdOf(series, s)],
                   forced   |-> force,
                   snapshot |-> [count |-> Len(dict.series), revision |-> dict.revision]]]

\* Two slips: nothing is rolled back, or the revision by one whatever it was.
KeptAll(dict, snapshot) == dict

RolledBackByOne(dict, snapshot) ==
    [dict EXCEPT !.series = SubSeq(@, 1, snapshot.count), !.revision = @ - 1]

\* rollback_dictionary: back to the snapshot taken before encoding.
RolledBack(dict, snapshot) ==
    [dict EXCEPT !.series   = SubSeq(@, 1, snapshot.count),
                 !.revision = snapshot.revision]

-----------------------------------------------------------------------------
(***************************************************************************)
(* HTTPTransport.send, up to its first request.                            *)
(***************************************************************************)
Waiting(p) == request[p] # NoRequest

\* A slip: the dictionary is never full.
ShouldResetNever(dict) == dict = NoDictionary

ShouldReset(dict) == dict = NoDictionary \/ Len(dict.series) >= MaxSeries

SendFresh(p, batch) ==
    /\ p \in alive /\ ~Waiting(p)
    /\ ShouldReset(dictionary[p])
    /\ OpensSession
    /\ Encode(p, batch, NewDictionary, FALSE)
    /\ UNCHANGED <<alive, serverVars>>

SendNext(p, batch) ==
    /\ p \in alive /\ ~Waiting(p)
    /\ ~ShouldReset(dictionary[p])
    /\ Encode(p, batch, dictionary[p], FALSE)
    /\ UNCHANGED <<alive, sessions, serverVars>>

-----------------------------------------------------------------------------
(***************************************************************************)
(* The endpoint.  Definitions replace what it had under the same number.   *)
(***************************************************************************)
Entries(dict, session, id) == {t \in dict : t.session = session /\ t.id = id}

KnownAfter(r) ==
    {t \in known : ~(t.session = r.session /\ t.id \in DOMAIN r.defines)}
      \cup {[session |-> r.session, id |-> i, series |-> r.defines[i]] :
                i \in DOMAIN r.defines}

Resolves(r) ==
    \A s \in DOMAIN r.refers : Entries(KnownAfter(r), r.session, r.refers[s]) # {}

StoredBy(r) ==
    UNION {{<<s, t.series>> : t \in Entries(KnownAfter(r), r.session, r.refers[s])} :
               s \in DOMAIN r.refers}

Process(r) ==
    /\ Resolves(r)
    /\ known' = KnownAfter(r)
    /\ misattributed' =
           misattributed \cup {pair \in StoredBy(r) : pair[1] # pair[2]}

Forget(session) ==
    /\ known' = {t \in known : t.session # session}
    /\ forgotten' = forgotten \cup {session}
    /\ UNCHANGED <<alive, dictionary, request, sessions, misattributed>>

-----------------------------------------------------------------------------
(***************************************************************************)
(* The outcomes of a request, and what send() makes of them.               *)
(***************************************************************************)
RequestOver(p) == request' = [request EXCEPT ![p] = NoRequest]

RollBack(p) ==
    dictionary' = [dictionary EXCEPT ![p] = RolledBack(@, request[p].snapshot)]

\* A 2xx answer: the dictionary keeps what it registered.
Accepted(p) ==
    /\ Waiting(p)
    /\ Process(request[p])
    /\ RequestOver(p)
    /\ UNCHANGED <<alive, dictionary, sessions, forgotten>>

\* The endpoint processed the request and the answer was lost, or was an error.
AnswerLost(p) ==
    /\ Waiting(p)
    /\ Process(request[p])
    /\ RollBack(p)
    /\ RequestOver(p)
    /\ UNCHANGED <<alive, sessions, forgotten>>

\* The request was not processed: it was lost, or refused for any reason other than
\* the two below.
NotProcessed(p) ==
    /\ Waiting(p)
    /\ RollBack(p)
    /\ RequestOver(p)
    /\ UNCHANGED <<alive, sessions, serverVars>>

\* 413: the next batch starts a new session.
BodyTooLarge(p) ==
    /\ Waiting(p)
    /\ OpensSession
    /\ dictionary' = [dictionary EXCEPT ![p] = NewDictionary]
    /\ RequestOver(p)
    /\ UNCHANGED <<alive, serverVars>>

\* 409 unknown_series_dictionary: the batch is sent once more, in a new session
\* that restates every definition.
UnknownDictionary(p) ==
    /\ Waiting(p)
    /\ ~request[p].forced
    /\ OpensSession
    /\ Encode(p, DOMAIN request[p].refers, NewDictionary, TRUE)
    /\ UNCHANGED <<alive, serverVars>>

\* A slip: the child keeps its parent's dictionary.
ForkInherits(p, child) ==
    /\ p \in alive /\ child \notin alive
    /\ alive' = alive \cup {child}
    /\ dictionary' = [dictionary EXCEPT ![child] = dictionary[p]]
    /\ request' = [request EXCEPT ![child] = NoRequest]
    /\ UNCHANGED <<sessions, serverVars>>

\* reset_after_fork: the child starts without a dictionary, whatever its parent is
\* in the middle of.  Forked from a closed client, a child returns from _reinit_after_fork
\* before this and keeps a copy; it has no worker and sends nothing, so it is not among
\* the processes here.
Fork(p, child) ==
    /\ p \in alive /\ child \notin alive
    /\ alive' = alive \cup {child}
    /\ dictionary' = [dictionary EXCEPT ![child] = NoDictionary]
    /\ request' = [request EXCEPT ![child] = NoRequest]
    /\ UNCHANGED <<sessions, serverVars>>

-----------------------------------------------------------------------------
ClientStep(p) ==
    \/ \E batch \in Batches : SendFresh(p, batch) \/ SendNext(p, batch)
    \/ \E child \in Processes : Fork(p, child)

Outcome(p) ==
    \/ Accepted(p) \/ AnswerLost(p) \/ NotProcessed(p)
    \/ BodyTooLarge(p) \/ UnknownDictionary(p)

Next ==
    \/ \E p \in Processes : ClientStep(p) \/ Outcome(p)
    \/ \E session \in 1..sessions : Forget(session)

Spec == Init /\ [][Next]_vars

-----------------------------------------------------------------------------
(***************************************************************************)
(* Properties.                                                             *)
(***************************************************************************)
DictionaryType == [session : Nat, revision : Nat, series : Seq(Series)]

RequestOK(r) ==
    /\ r.session \in 1..sessions
    /\ r.revision \in Nat
    /\ DOMAIN r.defines \subseteq Nat
    /\ \A i \in DOMAIN r.defines : r.defines[i] \in Series
    /\ DOMAIN r.refers \in Batches
    /\ \A s \in DOMAIN r.refers : r.refers[s] \in Nat
    /\ r.forced \in BOOLEAN
    /\ r.snapshot \in [count : Nat, revision : Nat]

\* Every variable has the type its Python counterpart has.
TypeOK ==
    /\ alive \subseteq Processes
    /\ dictionary \in [Processes -> DictionaryType]
    /\ DOMAIN request = Processes
    /\ \A p \in Processes : Waiting(p) => RequestOK(request[p])
    /\ sessions \in Nat
    /\ \A p \in Processes : dictionary[p].session <= sessions
    /\ known \subseteq [session : 1..sessions, id : Nat, series : Series]
    /\ forgotten \subseteq Nat
    /\ misattributed \subseteq Series \X Series

\* An event the endpoint accepts is stored under the series it was recorded under,
\* whatever was lost, rolled back, forgotten or resent before.
AttributedRight == misattributed = {}

\* "The session may only remember a series definition once the request carrying it
\* has been accepted" (_encode_and_send): between requests, every number the client
\* will use without defining it means the same to the endpoint, or nothing if it
\* has forgotten the session.
DictionaryAgrees ==
    \A p \in Processes :
        ~Waiting(p) =>
            \A i \in 1..Len(dictionary[p].series) :
                LET entries == Entries(known, dictionary[p].session, i)
                IN /\ \A t \in entries : t.series = dictionary[p].series[i]
                   /\ entries = {} => dictionary[p].session \in forgotten

\* No two processes use one session, through any fork (reset_after_fork).
SessionsNotShared ==
    \A p, q \in Processes :
        (p # q /\ dictionary[p].session = dictionary[q].session)
            => dictionary[p].session = 0

\* A request that restarts the session can always be resolved, so one resend is enough.
RestartResolves ==
    \A p \in Processes : (Waiting(p) /\ request[p].forced) => Resolves(request[p])

\* The dictionary outgrows its limit by less than one batch of new series.
DictionaryBounded ==
    \A p \in Processes :
        \E batch \in Batches :
            Len(dictionary[p].series) < MaxSeries + Cardinality(batch)

=============================================================================
