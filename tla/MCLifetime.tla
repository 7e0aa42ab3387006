----------------------------- MODULE MCLifetime -----------------------------
(***************************************************************************)
(* A small instance of Lifetime for TLC: a parent and its child.           *)
(***************************************************************************)
EXTENDS Lifetime

ParentAndChild == 1..2

(***************************************************************************)
(* What goes wrong is bounded: with all of it at once there are too many   *)
(* states.  It may all happen, but not all in one run.                     *)
(***************************************************************************)
Troubles ==
    Cardinality(late) + Cardinality(stopped) + Cardinality(reported) + Cardinality(restated)
      + Cardinality(bare) + Cardinality({p \in Processes : phase[p] = "over"})

Forked == status[2] # "none"

\* A child forked before there are clients is a program of its own.
ForkOfClient == bare # {} \/ (handlers[1] /\ handlers[2])

Bounded ==
    IF Forked
    THEN /\ ForkOfClient
         /\ Troubles <= 1
         /\ late # {} \/ bare # {} \/ reported # {} => unrecorded # {}
         /\ phase[1] = "tick" \/ phase[2] = "tick"
    ELSE Troubles <= 2

=============================================================================
