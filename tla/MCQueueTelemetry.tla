-------------------------- MODULE MCQueueTelemetry --------------------------
(***************************************************************************)
(* Three recorded outcomes of the kinds whose alerts have different        *)
(* priorities, with counters that are full at one.                         *)
(***************************************************************************)
EXTENDS QueueTelemetry
=============================================================================
