-------------------------- MODULE MCGuestAdmission --------------------------
(***************************************************************************)
(* Three sessions of one network, which may have two scans at a time, and  *)
(* two servers that rotate from one network key to the other and back,     *)
(* with clocks one second wrong either way.  The horizon leaves time for a *)
(* key to be dropped and for scans to be counted after that.  Windows are  *)
(* left to MCGuestAdmissionRate.                                           *)
(***************************************************************************)
EXTENDS GuestAdmission, TLC
NoWindows == {}
OneAndTwo == [kind \in Kinds |-> IF kind = "SESSION" THEN 1 ELSE 2]
Symmetry == Permutations(Sessions) \cup Permutations(Keys) \cup Permutations(Servers)
=============================================================================
