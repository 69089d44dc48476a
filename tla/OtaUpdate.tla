------------------------------ MODULE OtaUpdate ------------------------------
(***************************************************************************)
(* An over-the-air update from the check to the confirmed image: `main`    *)
(* (app/src/main.rs), ota_task and check_and_update (app/src/ota/task.rs), *)
(* apply_update (core/src/ota/session.rs), the Updater over embassy-boot   *)
(* (app/src/update.rs), the watchdog and the bootloader.                   *)
(*                                                                         *)
(* Flash.  An image is a number of units, and no two images agree in any   *)
(* of them.  A cell of a partition is the set of images programmed into it *)
(* since its sector was erased: NOR programming only clears bits, so       *)
(* programming an image twice is harmless and two images leave a mixture.  *)
(* embassy-boot erases a sector when the write reaches it, unless it is    *)
(* the sector it erased last; it keeps that index until the reset.  The    *)
(* boot state is a sector of its own, erased and then programmed: erased   *)
(* it reads as `boot`.                                                     *)
(*                                                                         *)
(* Abstractions.  The three requests of a check are two steps: `version`   *)
(* and its digest, then the image, which need not be the one the digest    *)
(* was made of.  Every failure, of the network, a status, a parser, a      *)
(* timeout or the flash, ends the check in the same way.  The bootloader's *)
(* own swap resumes after a power loss and is one step.                    *)
(***************************************************************************)
EXTENDS Integers

CONSTANTS
    Version,       \* versions of firmware images
    Length,        \* units of each version's image
    ACTIVE_BYTES,  \* units of a partition
    CHUNK_BYTES,   \* the most units read at a time
    ERASE_SIZE,    \* units of a sector
    None           \* Option::None

\* Sizes are positive and so is the length of an image.
ASSUME OtaAssumption ==
    /\ Version # {}
    /\ Length \in [Version -> Nat \ {0}]
    /\ {ACTIVE_BYTES, CHUNK_BYTES, ERASE_SIZE} \subseteq Nat \ {0}
    /\ None \notin Version \cup Nat

VARIABLES
    pc,         \* step of main and then of ota_task
    boot_state, \* main's reading of the boot state, None once main is done
    request,    \* RESET_REQUEST_SIGNAL is signalled
    cause,      \* history: what started the check, or None
    expected,   \* version whose digest the check holds, or None
    body,       \* version whose image is streamed, or None
    offset,     \* units streamed
    last,       \* sector erased last in this boot, or None
    magic,      \* the boot state in flash
    swapped,    \* the bootloader has swapped the partitions for `magic`
    active,     \* the two partitions
    dfu,
    published,  \* environment: the version the server offers
    seen,       \* history: images streamed since the last reset
    stable,     \* history: the contents last confirmed
    boot        \* history: flips at every reset

check == <<cause, expected, body, offset>>
flash == <<magic, swapped, active, dfu>>
history == <<stable, boot>>
vars == <<pc, boot_state, request, check, last, flash, published, seen, history>>

Unit == 1..ACTIVE_BYTES
Contents == [Unit -> SUBSET Version]

Sector(unit) == (unit - 1) \div ERASE_SIZE

\* A partition whose beginning is the image of v.
Intact(contents, v) == \A i \in 1..Length[v] : contents[i] = {v}

\* The image of v in an erased partition.
Image(v) == [i \in Unit |-> IF i <= Length[v] THEN {v} ELSE {}]

\* An image that has been swapped in and is not confirmed.
OnTrial == magic = "swap" /\ swapped

------------------------------------------------------------------------------
Init ==
    /\ published \in Version
    /\ \E v \in Version :
         /\ Length[v] <= ACTIVE_BYTES
         /\ active = Image(v)
    /\ dfu = [i \in Unit |-> {}]
    /\ stable = active
    /\ magic = "boot" /\ swapped = FALSE
    /\ pc = "start" /\ boot_state = None
    /\ cause = None /\ expected = None /\ body = None /\ offset = 0
    /\ last = None
    /\ request = FALSE
    /\ seen = {}
    /\ boot = 0

------------------------------------------------------------------------------
(* The check *)

\* The check ends without an update; the task waits for a request.
EndCheck ==
    /\ pc' = "idle"
    /\ cause' = None
    /\ expected' = None /\ body' = None /\ offset' = 0

\* The signal is taken.
StartCheck ==
    /\ pc = "idle"
    /\ request
    /\ request' = FALSE
    /\ pc' = "check"
    /\ cause' = "request"
    /\ UNCHANGED <<boot_state, expected, body, offset, last, flash, published, seen, history>>

\* Decision::Skip, or something fails before the image.
CheckEnds ==
    /\ pc = "check"
    /\ EndCheck
    /\ UNCHANGED <<boot_state, request, last, flash, published, seen, history>>

\* Decision::Update: any other version, older ones included.
FetchDigest ==
    /\ pc = "check"
    /\ \E local \in active[1] : local # published
    /\ pc' = "fetch"
    /\ expected' = published
    /\ UNCHANGED <<boot_state, request, cause, body, offset, last, flash, published, seen, history>>

\* The head of the image arrives and its length fits.
StartStream(v) ==
    /\ pc = "fetch"
    /\ Length[v] <= ACTIVE_BYTES
    /\ pc' = "stream"
    /\ body' = v
    /\ UNCHANGED <<boot_state, request, cause, expected, offset, last, flash, published, seen, history>>

\* Any status but 200, a bad head, or UpdateError::Oversize: before any write.
FetchFails ==
    /\ pc = "fetch"
    /\ EndCheck
    /\ UNCHANGED <<boot_state, request, last, flash, published, seen, history>>

\* Faulty VerifyBooted: no check at all.
VerifyNothing == TRUE

\* verify_booted: embassy-boot refuses to write while a swap is pending or on
\* trial.
VerifyBooted == magic # "swap"

\* Faulty Receive: erases the first sector a chunk touches and no other.
ReceiveErasingOnce(n) ==
    /\ pc = "stream"
    /\ VerifyBooted
    /\ offset + n <= Length[body]
    /\ LET units  == (offset + 1)..(offset + n)
           erased == {Sector(offset + 1)} \ {last}
       IN  dfu' = [u \in Unit |->
                     (IF Sector(u) \in erased THEN {} ELSE dfu[u])
                       \cup (IF u \in units THEN {body} ELSE {})]
    /\ last' = Sector(offset + n)
    /\ offset' = offset + n
    /\ seen' = seen \cup {body}
    /\ UNCHANGED <<pc, boot_state, request, cause, expected, body, magic, swapped, active,
                   published, history>>

\* One turn of apply_update's loop: a read returns n units, which are written
\* at `offset`, erasing each sector that is entered.
Receive(n) ==
    /\ pc = "stream"
    /\ VerifyBooted
    /\ offset + n <= Length[body]
    /\ LET units  == (offset + 1)..(offset + n)
           erased == {Sector(u) : u \in units} \ ({last} \cap {Sector(offset + 1)})
       IN  dfu' = [u \in Unit |->
                     (IF Sector(u) \in erased THEN {} ELSE dfu[u])
                       \cup (IF u \in units THEN {body} ELSE {})]
    /\ last' = Sector(offset + n)
    /\ offset' = offset + n
    /\ seen' = seen \cup {body}
    /\ UNCHANGED <<pc, boot_state, request, cause, expected, body, magic, swapped, active,
                   published, history>>

\* TooShort, Read, Flash or HashMismatch: what has been written stays.
StreamFails ==
    /\ pc = "stream"
    /\ EndCheck
    /\ UNCHANGED <<boot_state, request, last, flash, published, seen, history>>

\* The whole body has arrived and the digest matches: mark_updated erases the
\* boot state ...
EraseToMark ==
    /\ pc = "stream"
    /\ offset = Length[body]
    /\ body = expected
    /\ magic' = "boot"
    /\ swapped' = FALSE
    /\ pc' = "marking"
    /\ UNCHANGED <<boot_state, request, check, last, active, dfu, published, seen,
                   history>>

\* ... and writes the new one.
MarkUpdated ==
    /\ pc = "marking"
    /\ magic' = "swap"
    /\ pc' = "marked"
    /\ UNCHANGED <<boot_state, request, check, last, swapped, active, dfu, published,
                   seen, history>>

\* UpdateError::Flash from the second half of mark_updated.
MarkFails ==
    /\ pc = "marking"
    /\ EndCheck
    /\ UNCHANGED <<boot_state, request, last, flash, published, seen, history>>

------------------------------------------------------------------------------
(* Boot *)

\* Faulty Bootloader: a swap that is done is left as it is.
BootloaderWithoutRollback ==
    IF magic = "swap" /\ ~swapped
      THEN active' = dfu /\ dfu' = active /\ swapped' = TRUE /\ UNCHANGED magic
      ELSE UNCHANGED flash

\* BootLoader::prepare: swap, roll an unconfirmed swap back, or do nothing.
Bootloader ==
    IF magic = "swap"
      THEN /\ active' = dfu
           /\ dfu' = active
           /\ IF swapped THEN magic' = "revert" /\ swapped' = FALSE
                         ELSE swapped' = TRUE /\ UNCHANGED magic
      ELSE UNCHANGED flash

\* sys_reset, the watchdog or a power loss, at any time.  RAM is lost.
Reset ==
    /\ Bootloader
    /\ boot' = 1 - boot
    /\ pc' = "start" /\ boot_state' = None
    /\ request' = FALSE
    /\ last' = None
    /\ seen' = {}
    /\ cause' = None /\ expected' = None /\ body' = None /\ offset' = 0
    /\ UNCHANGED <<published, stable>>

\* The boot state is read, once, and may fail to be; after a swap relay and reed
\* pass their checks.  The door tasks are spawned.
StartRadio ==
    /\ pc = "start"
    /\ boot_state' \in {magic, "unread"}
    /\ pc' = "radio"
    /\ UNCHANGED <<request, check, last, flash, published, seen, history>>

\* After a swap the relay or the reed fails its check: revert_hang.
HardwareFails ==
    /\ pc = "start"
    /\ magic = "swap"
    /\ boot_state' = magic
    /\ pc' = "hung"
    /\ UNCHANGED <<request, check, last, flash, published, seen, history>>

\* Faulty SpawnOta: a boot check whatever has happened.
SpawnOtaAlways ==
    /\ pc' = "check"
    /\ cause' = IF boot_state = "unread" THEN "unread" ELSE "boot"
    /\ boot_state' = None
    /\ UNCHANGED <<expected, body, offset>>

\* main ends with ota::spawn: no boot check follows a roll back, as far as main
\* could read.
SpawnOta ==
    /\ IF boot_state = "revert"
         THEN pc' = "idle" /\ UNCHANGED cause
         ELSE /\ pc' = "check"
              /\ cause' = IF boot_state = "unread" THEN "unread" ELSE "boot"
    /\ boot_state' = None
    /\ UNCHANGED <<expected, body, offset>>

\* radio::init returns ...
RadioStarts ==
    /\ pc = "radio"
    /\ IF boot_state = "swap"
         THEN pc' = "window" /\ UNCHANGED <<boot_state, check>>
         ELSE SpawnOta
    /\ UNCHANGED <<request, last, flash, published, seen, history>>

\* ... or never does.  It is awaited without a timeout, and the executor goes on
\* with the feeder task and the door's.
RadioHangs ==
    /\ pc = "radio"
    /\ pc' = "stalled"
    /\ UNCHANGED <<boot_state, request, check, last, flash, published, seen, history>>

\* The network is up or the window is over, and evaluate commits in either
\* case: mark_booted erases the boot state, which confirms the image ...
EraseToConfirm ==
    /\ pc = "window"
    /\ magic' = "boot"
    /\ swapped' = FALSE
    /\ stable' = active
    /\ pc' = "confirming"
    /\ UNCHANGED <<boot_state, request, check, last, active, dfu, published, seen,
                   boot>>

\* ... and writes the new one.  A write that fails is only logged, and an erased
\* state reads the same.
MarkBooted ==
    /\ pc = "confirming"
    /\ SpawnOta
    /\ UNCHANGED <<request, last, flash, published, seen, history>>

\* mark_booted fails before it has erased: the image runs on, unconfirmed.
MarkBootedFails ==
    /\ pc = "window"
    /\ SpawnOta
    /\ UNCHANGED <<request, last, flash, published, seen, history>>

\* Whatever blocks the executor stops the feeder task.  A main that awaits does
\* not.
WatchdogExpires == pc = "hung" /\ Reset

------------------------------------------------------------------------------
(* Environment *)

\* A message on garagedoor/reset; telemetry is spawned after the radio's start
\* and runs during the window as well.
RequestReset ==
    /\ ~request
    /\ pc \notin {"start", "radio", "hung", "stalled"}
    /\ request' = TRUE
    /\ UNCHANGED <<pc, boot_state, check, last, flash, published, seen, history>>

\* deploy.sh replaces `version`, at any time.
Publish ==
    /\ published' \in Version \ {published}
    /\ UNCHANGED <<pc, boot_state, request, check, last, flash, seen, history>>

Next ==
    \/ StartCheck \/ CheckEnds \/ FetchDigest \/ FetchFails
    \/ \E v \in Version : StartStream(v)
    \/ \E n \in 1..CHUNK_BYTES : Receive(n)
    \/ StreamFails \/ EraseToMark \/ MarkUpdated \/ MarkFails
    \/ Reset \/ StartRadio \/ HardwareFails \/ RadioStarts \/ RadioHangs
    \/ EraseToConfirm \/ MarkBooted \/ MarkBootedFails
    \/ RequestReset \/ Publish

Spec == Init /\ [][Next]_vars

\* The watchdog is the hardware's.
FairSpec == Spec /\ WF_vars(WatchdogExpires)

------------------------------------------------------------------------------
(* Properties *)

\* Type correctness.
TypeOK ==
    /\ pc \in {"start", "hung", "radio", "stalled", "window", "confirming",
              "check", "idle", "fetch", "stream", "marking", "marked"}
    /\ boot_state \in {"boot", "swap", "revert", "unread", None}
    /\ request \in BOOLEAN
    /\ cause \in {"boot", "unread", "request", None}
    /\ expected \in Version \cup {None}
    /\ body \in Version \cup {None}
    /\ offset \in 0..ACTIVE_BYTES
    /\ last \in Nat \cup {None}
    /\ magic \in {"boot", "swap", "revert"}
    /\ swapped \in BOOLEAN
    /\ {active, dfu, stable} \subseteq Contents
    /\ published \in Version
    /\ seen \subseteq Version
    /\ boot \in {0, 1}

\* The update "streams the new image into Slot 1 (DFU) and verifies its SHA-256
\* digest": an image that is marked is in the partition.
MarkedImageIntact == pc = "marked" => Intact(dfu, expected)

\* What does hold: failed attempts, wherever they stopped, do no harm to a later
\* one as long as this boot has streamed no other image than the marked one.
RetriedImageIntact ==
    pc = "marked" /\ seen = {expected} => Intact(dfu, expected)

\* A roll back has something to return to: whatever is streamed, requested,
\* published or interrupted while an image is on trial, the confirmed image is
\* in the other partition, and otherwise in the active one.
StableSurvives == stable = IF OnTrial THEN dfu ELSE active

\* "The retry loop": a device that has rolled an image back and knows it does
\* not install another on its own, however often it restarts, until it is asked
\* to.
NoRetryLoop ==
    [][magic = "revert" /\ magic' # "revert" => cause \in {"request", "unread"}]_vars

\* "A hang anywhere in the boot or self-test path" stops the feed of the watchdog,
\* "which is what makes the bootloader revert an unconfirmed image".
HangEndsTrial == (OnTrial /\ pc \in {"hung", "stalled"}) ~> ~OnTrial

Trial == INSTANCE TrialBoot WITH Version <- Contents, running <- active

\* The whole path of an update keeps the promise of a fail-safe update.
FailSafeUpdate == Trial!Spec
==============================================================================
