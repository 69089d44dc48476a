------------------------------ MODULE Release -------------------------------
(***************************************************************************)
(* A release and the device that fetches it: deploy.sh, which replaces the *)
(* files of a web server one by one, and check_and_update                  *)
(* (app/src/ota/task.rs), which reads them in three requests.              *)
(*                                                                         *)
(* A build has a version, and a version may be built more than once.  A    *)
(* file holds a build, or Torn when its copy has begun and not ended.  A   *)
(* stream that is overtaken by a copy is torn as well, unless all it has   *)
(* read is of the new build; one whose file is removed goes on.            *)
(*                                                                         *)
(* Abstractions.  One deployment runs at a time, and may stop anywhere.    *)
(* The permissions that step 7 sets are left out: until then a request may *)
(* be refused, and any request may fail.  Digests do not collide.  What    *)
(* happens from the mark to the confirmed image is OtaUpdate's, and so is  *)
(* the flash in detail: here only its first sector can be spoilt, by the   *)
(* streams of the same boot that ended in it (RetriedImageIntact and       *)
(* MarkedImageIntact, there, are about the whole image).                   *)
(***************************************************************************)
EXTENDS Integers

CONSTANTS
    Build,  \* builds of the firmware
    Ver,    \* the version of each
    First,  \* the build that is deployed and runs at the beginning
    Torn,   \* contents that are no build
    None    \* no file, Option::None

ASSUME ReleaseAssumption ==
    /\ Ver \in [Build -> Nat]
    /\ First \in Build
    /\ Torn \notin Build /\ None \notin Build /\ Torn # None
    /\ None \notin Nat

VARIABLES
    stage,     \* step of deploy.sh
    build,     \* the build it deploys, or None
    version,   \* the server's files: `version`,
    bin,       \* the images, by version,
    sha,       \* and their digests
    step,      \* step of check_and_update
    told,      \* `remote`, or None
    expected,  \* the build of the digest, or None
    body,      \* the contents being streamed, or None
    spoilt,    \* contents of the first sector of the DFU partition, if the next
               \* stream will not erase it, or None
    running,   \* the build that runs,
    image,     \* and what the flash holds of it
    request,   \* RESET_REQUEST_SIGNAL is signalled
    dirty,     \* history: versions whose files a deployment has touched and
               \* not published
    tried,     \* history: what was streamed since the device's last reset, or None
    due        \* history: the last deployment has been completed, its trigger
               \* has arrived, and no request has failed since

server == <<version, bin, sha>>
flash  == <<spoilt, running, image, tried>>
device == <<step, told, expected, body, flash>>
vars == <<stage, build, server, device, request, dirty, due>>

Version  == {Ver[b] : b \in Build}
Contents == Build \cup {Torn, None}

Init ==
    /\ stage = "idle" /\ build = None
    /\ version = Ver[First]
    /\ bin = [v \in Version |-> IF v = Ver[First] THEN First ELSE None]
    /\ sha = bin
    /\ step = "version"
    /\ told = None /\ expected = None /\ body = None
    /\ running = First /\ image = First
    /\ spoilt = None /\ tried = None
    /\ request = FALSE
    /\ dirty = {} /\ due = FALSE

------------------------------------------------------------------------------
(* deploy.sh *)

\* Steps 1 to 7: scp truncates the image that is there and fills it again.
Deploy(b) ==
    /\ stage = "idle"
    /\ stage' = "copying_bin"
    /\ build' = b
    /\ due' = FALSE
    /\ bin' = [bin EXCEPT ![Ver[b]] = Torn]
    /\ dirty' = dirty \cup {Ver[b]}
    /\ body' \in IF step = "stream" /\ told = Ver[b] THEN {Torn, b} ELSE {body}
    /\ UNCHANGED <<version, sha, step, told, expected, flash, request>>

CopyBinEnds ==
    /\ stage = "copying_bin"
    /\ stage' = "copy_sha"
    /\ bin' = [bin EXCEPT ![Ver[build]] = build]
    /\ UNCHANGED <<build, version, sha, device, request, dirty, due>>

CopyShaBegins ==
    /\ stage = "copy_sha"
    /\ stage' = "copying_sha"
    /\ sha' = [sha EXCEPT ![Ver[build]] = Torn]
    /\ UNCHANGED <<build, version, bin, device, request, dirty, due>>

CopyShaEnds ==
    /\ stage = "copying_sha"
    /\ stage' = "publish"
    /\ sha' = [sha EXCEPT ![Ver[build]] = build]
    /\ UNCHANGED <<build, version, bin, device, request, dirty, due>>

\* Step 8: `version` is renamed into place.
PublishVersion ==
    /\ stage = "publish"
    /\ stage' = "prune"
    /\ version' = Ver[build]
    /\ dirty' = dirty \ {Ver[build]}
    /\ UNCHANGED <<build, bin, sha, device, request, due>>

\* Faulty Kept: whatever is the largest version is kept.
KeptLargest(v) == {n \in Version : \A m \in Version : bin[m] # None => m <= n}

\* What the prune keeps: the current version and the largest one below it.
Kept(v) ==
    LET below == {n \in Version : n < v /\ bin[n] # None}
    IN  {v} \cup {n \in below : \A m \in below : m <= n}

\* Step 9: the other pairs are removed, or some of them when it fails.
Prune ==
    /\ stage = "prune"
    /\ stage' = "trigger"
    /\ \E removed \in SUBSET {n \in Version \ Kept(Ver[build]) : bin[n] # None} :
         /\ bin' = [n \in Version |-> IF n \in removed THEN None ELSE bin[n]]
         /\ sha' = [n \in Version |-> IF n \in removed THEN None ELSE sha[n]]
    /\ UNCHANGED <<build, version, device, request, dirty, due>>

\* Faulty Trigger: only a task that waits for the request hears it.
TriggerUnlatched ==
    /\ stage = "trigger"
    /\ stage' = "idle"
    /\ request' = (step = "idle") /\ due' = TRUE
    /\ build' = None
    /\ UNCHANGED <<server, device, dirty>>

\* Step 10: the message reaches the device, or it does not.
Trigger ==
    /\ stage = "trigger"
    /\ stage' = "idle"
    /\ \/ request' = TRUE /\ due' = TRUE
       \/ UNCHANGED <<request, due>>
    /\ build' = None
    /\ UNCHANGED <<server, device, dirty>>

\* `set -e`, or the operator: the deployment stops where it is.
Abort ==
    /\ stage # "idle"
    /\ stage' = "idle"
    /\ build' = None
    /\ UNCHANGED <<server, device, request, dirty, due>>

------------------------------------------------------------------------------
(* The device *)

EndCheck ==
    /\ step' = "idle"
    /\ told' = None /\ expected' = None /\ body' = None

StartCheck ==
    /\ step = "idle"
    /\ request
    /\ request' = FALSE
    /\ step' = "version"
    /\ UNCHANGED <<stage, build, server, told, expected, body, flash, dirty, due>>

\* Decision::Update or Decision::Skip.
Decide(remote) ==
    IF remote # Ver[running]
      THEN step' = "sha" /\ told' = remote /\ UNCHANGED <<expected, body>>
      ELSE EndCheck

ReadVersion ==
    /\ step = "version"
    /\ Decide(version)
    /\ UNCHANGED <<stage, build, server, flash, request, dirty, due>>

\* The connection ends within the digits: they are a smaller number.
ReadVersionCut ==
    /\ step = "version"
    /\ \E remote \in Version : remote < version /\ Decide(remote)
    /\ due' = FALSE
    /\ UNCHANGED <<stage, build, server, flash, request, dirty>>

\* A digest, or nothing that parses as one.
ReadSha ==
    /\ step = "sha"
    /\ IF sha[told] \in Build
         THEN step' = "image" /\ expected' = sha[told] /\ UNCHANGED <<told, body>>
         ELSE EndCheck
    /\ UNCHANGED <<stage, build, server, flash, request, dirty, due>>

StartImage ==
    /\ step = "image"
    /\ IF bin[told] # None
         THEN step' = "stream" /\ body' = bin[told] /\ UNCHANGED <<told, expected>>
         ELSE EndCheck
    /\ UNCHANGED <<stage, build, server, flash, request, dirty, due>>

\* Faulty Verified: no digest.
VerifiedUnread == body \in Build

\* apply_update's digest.
Verified == body = expected

\* What the stream makes of contents it is written over without an erase.
Over(contents) == IF contents \in {None, body} THEN body ELSE Torn

\* last_erased_dfu_sector_index is a part of the updater, which is not reset when
\* a check ends: what a stream leaves in the first sector stays there,
\* unless it has written nothing or has got beyond.
StreamEnds ==
    \/ UNCHANGED <<spoilt, tried>>
    \/ spoilt' \in {Over(spoilt), None} /\ tried' = Over(tried)

\* Every update and every restart is a reset of the device.
Reset == spoilt' = None /\ tried' = None /\ request' = FALSE

\* The image is marked and confirmed; its boot check follows the reset.
Installs ==
    /\ step = "stream"
    /\ Verified
    /\ running' = body
    /\ image' = Over(spoilt)
    /\ step' = "version"
    /\ told' = None /\ expected' = None /\ body' = None
    /\ Reset
    /\ UNCHANGED <<stage, build, server, dirty, due>>

\* HashMismatch.
Mismatch ==
    /\ step = "stream"
    /\ ~Verified
    /\ StreamEnds
    /\ EndCheck
    /\ UNCHANGED <<stage, build, server, running, image, request, dirty, due>>

\* The image is marked and rolled back: no boot check follows.
RollsBack ==
    /\ step = "stream"
    /\ Verified
    /\ EndCheck
    /\ Reset
    /\ due' = FALSE
    /\ UNCHANGED <<stage, build, server, running, image, dirty>>

\* A request fails or times out.
RequestFails ==
    /\ step # "idle"
    /\ IF step = "stream" THEN StreamEnds ELSE UNCHANGED <<spoilt, tried>>
    /\ EndCheck
    /\ due' = FALSE
    /\ UNCHANGED <<stage, build, server, running, image, request, dirty>>

\* The device loses power, or the supervisor or the watchdog resets it.  It checks
\* for an update unless it has been rolled back.
Restart ==
    /\ step' \in {"version", "idle"}
    /\ told' = None /\ expected' = None /\ body' = None
    /\ Reset
    /\ due' = FALSE
    /\ UNCHANGED <<stage, build, server, running, image, dirty>>

DeviceStep ==
    \/ StartCheck \/ ReadVersion \/ ReadSha \/ StartImage \/ Installs \/ Mismatch
    \/ RollsBack

Next ==
    \/ \E b \in Build : Deploy(b)
    \/ CopyBinEnds \/ CopyShaBegins \/ CopyShaEnds
    \/ PublishVersion \/ Prune \/ Trigger \/ Abort
    \/ DeviceStep \/ ReadVersionCut \/ RequestFails \/ Restart

Spec == Init /\ [][Next]_vars

\* The device goes on with what it has begun, and has an address.
FairSpec == Spec /\ WF_vars(DeviceStep)

------------------------------------------------------------------------------
(* Properties *)

\* Type correctness.
TypeOK ==
    /\ stage \in {"idle", "copying_bin", "copy_sha", "copying_sha",
                  "publish", "prune", "trigger"}
    /\ build \in Build \cup {None}
    /\ version \in Version
    /\ bin \in [Version -> Contents] /\ sha \in [Version -> Contents]
    /\ step \in {"idle", "version", "sha", "image", "stream"}
    /\ told \in Version \cup {None}
    /\ expected \in Build \cup {None}
    /\ body \in Contents
    /\ spoilt \in Contents /\ tried \in Contents
    /\ running \in Build /\ image \in Build \cup {Torn}
    /\ request \in BOOLEAN
    /\ dirty \subseteq Version
    /\ due \in BOOLEAN

\* "`version` LAST: it is the commit point": what `version` names is a whole
\* image with its digest, wherever earlier deployments have stopped and whatever
\* has been pruned, unless that very version is being deployed again.
CommitPoint ==
    version \in dirty \/ (bin[version] = sha[version] /\ bin[version] \in Build)

\* The device installs only what was published under the version it was told, the
\* build whose digest it has read, and the flash holds all of that build: unless
\* something else was streamed since the device's last reset.  It may hold a mixture
\* then, digest or not, of what is streamed and what an attempt before has left in
\* the first sector (update.rs:174, task.rs:199-203).
InstallsWhatItWasTold ==
    [][running' # running =>
          /\ running' \in Build /\ Ver[running'] = told /\ running' = expected
          /\ image' = expected \/ tried \notin {None, expected}]_vars

\* A completed deployment arrives, whatever the device is doing when the trigger
\* comes: if it is in the middle of a check for the release before, which may
\* have been pruned under it, the request is kept for another.  What runs may have
\* the first sector that InstallsWhatItWasTold allows, and the network stays up:
\* a check waits for an address without a limit (task.rs:62).
DeploymentArrives == due ~> (~due \/ Ver[running] = version)
=============================================================================
