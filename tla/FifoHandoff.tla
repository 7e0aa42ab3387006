---------------------------- MODULE FifoHandoff -----------------------------
(***************************************************************************)
(* What the client promises about an event it has accepted, whatever its   *)
(* threads do: it waits in one line with the others, and the line is       *)
(* handed to the sending code from its front, a run of events at a time.   *)
(* Nothing in the line is lost, duplicated or overtaken.                   *)
(*                                                                         *)
(* EventQueue, the queue with its lock, its worker thread and its          *)
(* put-back, is shown to implement this module.                            *)
(***************************************************************************)
EXTENDS Naturals, Sequences

CONSTANT Event          \* what a metric call may record

VARIABLES
    pending,            \* accepted events, oldest first
    handed              \* every event handed over for sending so far, in order

vars == <<pending, handed>>

Init ==
    /\ pending = << >>
    /\ handed = << >>

\* A metric call is accepted.
Accept ==
    /\ \E e \in Event : pending' = Append(pending, e)
    /\ UNCHANGED handed

\* A batch is cut from the front of the line.
Hand ==
    \E n \in 1..Len(pending) :
        /\ handed' = handed \o SubSeq(pending, 1, n)
        /\ pending' = SubSeq(pending, n + 1, Len(pending))

Next == Accept \/ Hand

Spec == Init /\ [][Next]_vars

=============================================================================
