-------------------------- MODULE MCGuestScanStore --------------------------
(***************************************************************************)
(* GuestScanStore on a small instance.  The seconds of the code are scaled *)
(* down but keep their order: a lease (15 in the code) is shorter than an  *)
(* attempt's hard deadline (45), the attempts of the budget (3) fit with   *)
(* their renewals in the access window (1800), and that ends before        *)
(* retention begins (86400).  The horizon lies past retention plus Drift.  *)
(***************************************************************************)
EXTENDS GuestScanStore

MCDigests == {"digest1", "digest2"}
=============================================================================
