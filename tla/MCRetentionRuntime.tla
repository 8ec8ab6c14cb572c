------------------------ MODULE MCRetentionRuntime ------------------------
(***************************************************************************)
(* Two processes that overlap, with batches of one row and cycles of two   *)
(* batches, so that cycles leave work and batches meet locked rows.        *)
(***************************************************************************)
EXTENDS RetentionRuntime, TLC
Deadlines == [r \in Rows |-> 2]
Symmetry == Permutations(Processes) \cup Permutations(Scans)
=============================================================================
