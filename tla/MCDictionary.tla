---------------------------- MODULE MCDictionary ----------------------------
(***************************************************************************)
(* Small instances of Dictionary for TLC.                                  *)
(***************************************************************************)
EXTENDS Dictionary, TLC

\* Every batch of one or two series.
SmallBatches == {b \in SUBSET Series : Cardinality(b) \in 1..2}

Alike == Permutations(Series)

=============================================================================
