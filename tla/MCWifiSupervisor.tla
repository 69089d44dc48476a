-------------------------- MODULE MCWifiSupervisor --------------------------
(***************************************************************************)
(* WifiSupervisor for TLC.  One tick stands for 15 s, the join and DHCP    *)
(* timeouts; a leave and the backoffs are rounded up to one and two ticks. *)
(* The reboot threshold is shortened but remains longer than one cycle, so *)
(* that an outage spans several.                                           *)
(***************************************************************************)
EXTENDS WifiSupervisor
=============================================================================
