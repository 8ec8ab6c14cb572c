----------------------- MODULE MCGuestQueueProcessor -----------------------
(***************************************************************************)
(* GuestQueueProcessor on small instances, with exact clocks and an        *)
(* attempt budget of two.  The safety run has two slots and two digests;   *)
(* its three transport attempts wait 1 + 2 seconds and so last as long as  *)
(* its access window of 3, as the code's twelve (2047 seconds) outlast its *)
(* 1800.  The run about endings has one slot and one digest, and four      *)
(* attempts (1 + 2 + 4 seconds) over an access window of 5, so that a job  *)
(* can live through every lease of its budget.                             *)
(***************************************************************************)
EXTENDS GuestQueueProcessor, TLC

\* Slots and digests are only compared, and no liveness is checked with it.
Symmetry == Permutations(Workers) \cup Permutations(Digests)
=============================================================================
