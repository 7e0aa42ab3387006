---------------------------- MODULE MCEventQueue ----------------------------
(***************************************************************************)
(* Small instances of EventQueue for TLC.  A long event fills a batch on   *)
(* its own; a short one of the same series, or another, does not.          *)
(***************************************************************************)
EXTENDS EventQueue, TLC

MCEventWireSize == [k \in Kinds |-> IF k = "long" THEN 3 ELSE 1]
MCSeriesKey == [k \in Kinds |-> IF k = "other" THEN "b" ELSE "a"]
MCDefinitionWireSize == [s \in {"a", "b"} |-> 1]

\* Threads of the same kind run the same code.
Threads == Permutations(Producers) \cup Permutations(Closers)

=============================================================================
