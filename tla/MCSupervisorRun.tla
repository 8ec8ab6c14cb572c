--------------------------- MODULE MCSupervisorRun ---------------------------
(***************************************************************************)
(* Budgets shorter and longer than the time a start may take, with and     *)
(* without grace; the clock is stepped by up to two seconds either way.    *)
(***************************************************************************)
EXTENDS SupervisorRun
=============================================================================
