---------------------------- MODULE BatchCustody ----------------------------
(***************************************************************************)
(* What the client promises about a batch, whatever the endpoint answers   *)
(* and however long the outage: the batch has one fate.  It is held until  *)
(* it is delivered, dropped and its events counted, or given up because    *)
(* the endpoint turned sending off; after that nothing is delivered, and   *)
(* no batch comes back from the place it ended in.                         *)
(*                                                                         *)
(* OutageBuffer, with its backoff, buffer, replay and drains, is shown to  *)
(* implement this module.                                                  *)
(***************************************************************************)
EXTENDS Integers, FiniteSets, FiniteSetsExt

CONSTANT EventCount     \* events in each batch; batches are numbered as they are built

Batches == DOMAIN EventCount

VARIABLES
    built,              \* number of batches built so far
    held,               \* batches the client still has: buffered, or being sent
    delivered,          \* batches the endpoint accepted
    givenUp,            \* batches given up because sending is off
    counted,            \* events counted as dropped
    stopped             \* the endpoint turned sending off

vars == <<built, held, delivered, givenUp, counted, stopped>>

Init ==
    /\ built = 0
    /\ held = {} /\ delivered = {} /\ givenUp = {}
    /\ counted = 0
    /\ stopped = FALSE

\* Of the batches in hand some may be dropped, and each that is, is counted.
HoldSomeOf(inHand) ==
    /\ held' \in SUBSET inHand
    /\ counted' = counted + MapThenSumSet(LAMBDA b : EventCount[b], inHand \ held')

\* The next batch is built; to make room for it others, or itself, may go.
Build ==
    /\ ~stopped
    /\ built' = built + 1 /\ built' \in Batches
    /\ HoldSomeOf(held \cup {built'})
    /\ UNCHANGED <<delivered, givenUp, stopped>>

\* A batch built after sending was turned off is given up unsent.
GiveUp ==
    /\ stopped
    /\ built' = built + 1 /\ built' \in Batches
    /\ givenUp' = givenUp \cup {built'}
    /\ UNCHANGED <<held, delivered, counted, stopped>>

\* Batches become too old, or fail for good.
Lose ==
    /\ HoldSomeOf(held)
    /\ UNCHANGED <<built, delivered, givenUp, stopped>>

Deliver ==
    /\ ~stopped
    /\ \E b \in held :
          /\ held' = held \ {b}
          /\ delivered' = delivered \cup {b}
    /\ UNCHANGED <<built, givenUp, counted, stopped>>

\* A terminal answer takes its batch with it.
Stop ==
    /\ ~stopped
    /\ stopped' = TRUE
    /\ \E b \in held :
          /\ held' = held \ {b}
          /\ givenUp' = givenUp \cup {b}
    /\ UNCHANGED <<built, delivered, counted>>

Next == Build \/ GiveUp \/ Lose \/ Deliver \/ Stop

Spec == Init /\ [][Next]_vars

=============================================================================
