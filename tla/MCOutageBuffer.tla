--------------------------- MODULE MCOutageBuffer ---------------------------
(***************************************************************************)
(* Small instances of OutageBuffer for TLC.  A unit of time is about a     *)
(* second.                                                                 *)
(***************************************************************************)
EXTENDS OutageBuffer

\* Three batches that fit together except in number, a fourth that is too much beside
\* the second for its events and beside the third for its bytes; and one that can never
\* be buffered.
MixedCount   == <<1, 2, 1, 3, 1>>
MixedBytes   == <<1, 1, 2, 3, 5>>

\* Batches of one event and one byte.
EvenCount    == <<1, 1, 1>>
TwoBatches   == <<1, 1>>

=============================================================================
