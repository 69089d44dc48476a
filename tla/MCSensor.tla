------------------------------ MODULE MCSensor ------------------------------
(***************************************************************************)
(* Sensor for TLC.  One tick stands for 10 ms: a debounce interval of five *)
(* ticks and a task up to two ticks late.                                  *)
(***************************************************************************)
EXTENDS Sensor
=============================================================================
