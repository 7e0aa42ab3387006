---------------------------- MODULE MCRecording ----------------------------
(***************************************************************************)
(* Small instances of Recording for TLC.  The threads are interchangeable. *)
(***************************************************************************)
EXTENDS Recording

AnyThread == Permutations(Threads)

=============================================================================
