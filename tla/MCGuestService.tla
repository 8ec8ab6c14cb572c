---------------------------- MODULE MCGuestService ----------------------------
(***************************************************************************)
(* One browser: a tab that gets a session and asks for d1, another that    *)
(* asks for d2 and reads results.  Two servers, one a second ahead, of     *)
(* which that one has already dropped the token key the other derives with *)
(* until it is rotated too.  A window ends within the horizon by the       *)
(* clock that is ahead.                                                    *)
(***************************************************************************)
EXTENDS GuestService, TLC

UsesAll == "t1" :> {"session", "scan"} @@ "t2" :> {"scan", "read"}
WantsOne == "t1" :> {"d1"} @@ "t2" :> {"d2"}
TwoClocks == "a" :> 0 @@ "b" :> 1
KeysInRotation == "a" :> {1, 2} @@ "b" :> {2}
ActiveInRotation == "a" :> 1 @@ "b" :> 2
=============================================================================
