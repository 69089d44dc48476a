----------------------------- MODULE MCOtaUpdate -----------------------------
(***************************************************************************)
(* OtaUpdate for TLC.  A partition of two sectors of two units, and chunks *)
(* that end inside a sector and cross into the next.  Of the three images  *)
(* two reach into the second sector and one does not fit.                  *)
(***************************************************************************)
EXTENDS OtaUpdate

CONSTANTS v1, v2, v3

MCLength == [v \in Version |-> CASE v = v1 -> 3 [] v = v2 -> 4 [] v = v3 -> 5]
==============================================================================
