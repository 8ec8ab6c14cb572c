------------------------ MODULE MCGuestAdmissionRate ------------------------
(***************************************************************************)
(* One session with two idempotency keys, a server that rotates between    *)
(* two network keys, and clocks one second wrong either way.  Windows of   *)
(* both kinds fill, end and are counted again; the horizon is two seconds  *)
(* past the end of the first ones.                                         *)
(***************************************************************************)
EXTENDS GuestAdmissionRate, TLC
BothKinds == {[kind |-> "SESSION", seconds |-> 3, limit |-> 3],
              [kind |-> "NETWORK", seconds |-> 4, limit |-> 2]}
OneAndTwo == [kind \in Kinds |-> IF kind = "SESSION" THEN 1 ELSE 2]
Symmetry == Permutations(Sessions) \cup Permutations(IdempotencyKeys)
              \cup Permutations(Keys)
=============================================================================
