-------------------------- MODULE MCScannerIpcRead --------------------------
(***************************************************************************)
(* Frames around a header of two bytes, with payloads empty, short, as     *)
(* long as allowed and longer, and output that stops early or goes on.     *)
(***************************************************************************)
EXTENDS ScannerIpcRead
=============================================================================
