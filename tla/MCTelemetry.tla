----------------------------- MODULE MCTelemetry -----------------------------
(***************************************************************************)
(* Telemetry for TLC: a channel that one trigger fills, two messages in    *)
(* the socket, two failures to a rejoin, and three door states, so that    *)
(* one can be told, one cached and one pending.                            *)
(***************************************************************************)
EXTENDS Telemetry
=============================================================================
