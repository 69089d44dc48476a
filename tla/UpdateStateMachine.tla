------------------------- MODULE UpdateStateMachine -------------------------
(***************************************************************************)
(* UpdateStateMachine of core/src/flash.rs: the life cycle of a dual-bank  *)
(* firmware update, from staging an image to its confirmation or roll back *)
(* on reset.                                                               *)
(*                                                                         *)
(* A call that returns Err changes nothing: it is a stuttering step and    *)
(* has no action here.  Image sizes are left out: `stage_firmware` either  *)
(* fits the active partition, and is StageFirmware, or is such a call.     *)
(***************************************************************************)
EXTENDS Integers

CONSTANTS
    Version,  \* versions of firmware images
    None      \* Option::None

\* None is not a version.
ASSUME VersionAssumption == Version # {} /\ None \notin Version

VARIABLES
    state,             \* UpdateState
    active_version,
    staged_version,
    previous_version,
    stable,            \* history: the last version mark_booted confirmed
    boot               \* history: flips at every reset

smVars == <<state, active_version, staged_version, previous_version>>
vars == <<state, active_version, staged_version, previous_version, stable, boot>>

UpdateState == {"Boot", "SwapPending", "SwapTesting", "Revert", "DfuDetach"}

Init ==
    /\ state = "Boot"
    /\ active_version \in Version
    /\ staged_version = None
    /\ previous_version = None
    /\ stable = active_version
    /\ boot = 0

\* An image that fits is written to the DFU partition, in any state.
StageFirmware(v) ==
    /\ staged_version' = v
    /\ UNCHANGED <<state, active_version, previous_version, stable, boot>>

MarkUpdated ==
    /\ staged_version # None
    /\ state # "SwapTesting"
    /\ state' = "SwapPending"
    /\ UNCHANGED <<active_version, staged_version, previous_version, stable, boot>>

\* Faulty MarkBooted: forgets the previous version but remains on trial.
MarkBootedOnTrial ==
    /\ state \in {"SwapTesting", "Boot", "Revert"}
    /\ previous_version' = None
    /\ staged_version' = None
    /\ stable' = active_version
    /\ UNCHANGED <<state, active_version, boot>>

\* The running image confirms itself; refused in SwapPending and DfuDetach.
MarkBooted ==
    /\ state \in {"SwapTesting", "Boot", "Revert"}
    /\ state' = "Boot"
    /\ previous_version' = None
    /\ staged_version' = None
    /\ stable' = active_version
    /\ UNCHANGED <<active_version, boot>>

MarkDfu ==
    /\ state' = "DfuDetach"
    /\ UNCHANGED <<active_version, staged_version, previous_version, stable, boot>>

\* on_reset in SwapPending: swap, and start the staged image on trial.  Where
\* nothing is staged the code panics; NeverPanics says that this cannot be.
SwapAndBoot ==
    /\ state = "SwapPending"
    /\ active_version' = staged_version
    /\ previous_version' = active_version
    /\ staged_version' = None
    /\ state' = "SwapTesting"

\* on_reset in SwapTesting: the trial was not confirmed, roll back.
RollBackAndBoot ==
    /\ state = "SwapTesting"
    /\ active_version' = previous_version
    /\ previous_version' = None
    /\ staged_version' = active_version
    /\ state' = "Revert"

\* Faulty BootUnchanged: an image on trial is booted again.
BootAnything ==
    /\ state # "SwapPending"
    /\ UNCHANGED smVars

\* on_reset in the other states: boot the active image, or enter USB boot.
BootUnchanged ==
    /\ state \in {"Boot", "Revert", "DfuDetach"}
    /\ UNCHANGED smVars

OnReset ==
    /\ SwapAndBoot \/ RollBackAndBoot \/ BootUnchanged
    /\ boot' = 1 - boot
    /\ UNCHANGED stable

\* The operations an over-the-air update uses.
NextOta ==
    \/ \E v \in Version : StageFirmware(v)
    \/ MarkUpdated
    \/ MarkBooted
    \/ OnReset

\* All of them: mark_dfu is public, though nothing in the application calls it.
Next == NextOta \/ MarkDfu

Spec == Init /\ [][Next]_vars
SpecOta == Init /\ [][NextOta]_vars

------------------------------------------------------------------------------
(* Properties *)

\* Type correctness.
TypeOK ==
    /\ state \in UpdateState
    /\ active_version \in Version
    /\ staged_version \in Version \cup {None}
    /\ previous_version \in Version \cup {None}
    /\ stable \in Version
    /\ boot \in {0, 1}

\* No order of legal calls and resets reaches an `expect` of on_reset: a swap
\* always has an image to swap in and a roll back one to return to.
NeverPanics ==
    /\ state = "SwapPending" => staged_version # None
    /\ state = "SwapTesting" => previous_version # None

\* Without mark_dfu, only a trial runs an unconfirmed image, and the version
\* kept for its roll back is the one that was confirmed last.
OnlyTrialUnconfirmed ==
    IF state = "SwapTesting" THEN previous_version = stable
                             ELSE active_version = stable

Trial == INSTANCE TrialBoot WITH running <- active_version

\* Without mark_dfu, the state machine keeps the promise of a fail-safe
\* update: whatever is staged, marked or reset and in whatever order, an
\* image that never confirms itself runs for one boot.
FailSafeUpdate == Trial!Spec
==============================================================================
