----------------------------- MODULE TrialBoot ------------------------------
(***************************************************************************)
(* What a fail-safe update promises.  The device runs one image; `stable`  *)
(* is the image that was last confirmed.  A restart may start an image on  *)
(* trial, but only from the stable one, and a trial that is not confirmed  *)
(* before the next restart ends there: that restart runs the stable image. *)
(***************************************************************************)
EXTENDS Integers

CONSTANT Version

VARIABLES
    running,  \* the image that runs
    stable,   \* the image that was last confirmed
    boot      \* flips at every restart

bootVars == <<running, stable, boot>>

Init ==
    /\ running \in Version
    /\ stable = running
    /\ boot = 0

\* The running image is confirmed.
Confirm ==
    /\ stable' = running
    /\ UNCHANGED <<running, boot>>

\* A restart: the end of a trial, or possibly the start of one.
Restart ==
    /\ boot' = 1 - boot
    /\ running' \in Version
    /\ running # stable => running' = stable
    /\ UNCHANGED stable

Next == Confirm \/ Restart

Spec == Init /\ [][Next]_bootVars
=============================================================================
