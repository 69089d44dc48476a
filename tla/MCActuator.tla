----------------------------- MODULE MCActuator -----------------------------
(***************************************************************************)
(* Actuator for TLC.  One tick stands for 100 ms, so that a pulse is 6 and *)
(* a cooldown 20 ticks, as the code's 600 and 2000 ms; a task is up to two *)
(* ticks late.  The channel has the code's four slots.  Two messages in    *)
(* the socket are enough to fill it, block the sender and leave a message  *)
(* behind it.                                                              *)
(***************************************************************************)
EXTENDS Actuator
=============================================================================
