----------------------------- MODULE MCRelease ------------------------------
(***************************************************************************)
(* Release for TLC: two versions, the second of which is built twice.      *)
(***************************************************************************)
EXTENDS Release

CONSTANTS b1, b2, b2again

MCVer == [b \in Build |-> IF b = b1 THEN 1 ELSE 2]
=============================================================================
