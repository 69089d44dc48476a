# Formal models of the garage door controller

TLA+ specifications of the firmware in this repository (a Raspberry Pi Pico W,
native Rust on Embassy), TLC configurations that check them on small instances,
and TLAPS proofs of the properties that matter most. Everything is modelled from
the source; where the code uses a library whose source is not in the repository
(embassy-boot, embassy-net, cyw43, minimq), the model says what the code relies
on and `PROJECT.json` marks the definition as external.

## 1. The system

The firmware is a handful of cooperative tasks on one Embassy executor. They
share no mutable state but these:

| shared object | written by | read by |
|---|---|---|
| `DOOR_CMD_CHANNEL`, bounded to 4 (`actuator.rs:12`) | telemetry, blocking | actuator |
| `DOOR_STATE_SIGNAL`, one overwriting slot (`sensor.rs:10`) | sensor | telemetry |
| `WIFI_REJOIN_SIGNAL`, a latch (`wifi.rs:33`) | telemetry | Wi-Fi supervisor |
| `RESET_REQUEST_SIGNAL`, a latch (`telemetry.rs:33`) | telemetry | OTA task |
| `BEACON_SIGNAL` (`beacon.rs:21`) | supervisor, OTA task | beacon |
| the radio's control mutex (`radio.rs`) | supervisor, beacon | |
| embassy-net's link state and DHCP configuration | the stack | everyone on the network |
| the flash: two partitions and a boot state | OTA task, bootloader | bootloader, `main` |

Components, their state and operations, and what makes them correct:

* **Relay interlock and actuator** (`core/src/door.rs`, `app/src/actuator.rs`).
  State: two optional deadlines, the pin, the pulse timer, the channel.
  Operations: `trigger`, `poll`, and the task's loop. Correct when each pulse has
  the right length, pauses are long enough, nothing leaves the relay on, and a
  burst of triggers gives one pulse. Hard: time is read at one moment and acted
  on at another, and the sender of triggers blocks.
* **Reed debouncer and sensor** (`core/src/door.rs`, `app/src/sensor.rs`). State:
  committed state, candidate and its start. Correct when a bounce is not
  reported, a lasting change is, and telemetry ends up with the truth. Hard: the
  task samples an input that changes on its own, in one of its two waits without
  watching it.
* **Wi-Fi supervisor** (`core/src/wifi.rs`, `app/src/wifi.rs`). State: its await
  point, backoff, the time of the last lease. Correct when a working network is
  always used in the end, a dead association is left, and the MCU resets after,
  and only after, a long outage. Hard: every step has a timeout, and it depends
  on the stack and on the failures of another task.
* **Telemetry** (`app/src/telemetry.rs`). State: the MQTT session, the cached door
  state, a failure counter. It is the hub: a select over messages and door
  states that may block on the actuator's channel. Correct when the outside is told
  the door's state in the end, and never an older one after a newer; when it
  hears commands; and when it asks for a rejoin only when no broker is
  reachable. Hard: every publication may be lost and none is acknowledged, and
  the broker decides whether a session outlives its connection.
* **Update state machine** (`core/src/flash.rs:245-380`). A pure model, kept in
  the code, of a dual-bank update. Correct when it never panics and an
  unconfirmed image never outlives a reset.
* **Over-the-air update** (`app/src/ota/task.rs`, `core/src/ota/session.rs`,
  `app/src/update.rs`, with `main`'s self-test and the bootloader). State: the
  request latch, the progress of a check, both partitions and the boot state.
  Correct when only a complete and verified image is marked, the confirmed image
  survives until another is confirmed, and a failed image is not installed again
  and again. Hard: a reset at any point, retries over the remains of a failed
  attempt, which may have been of another image, and deployments during a check.
* **HTTP transport** (`app/src/ota/transport.rs`, `core/src/ota/http.rs`, the readers
  in `app/src/ota/task.rs`). State: the head parser, the bytes read past the head,
  the consumer's progress. Correct when no byte of a body is lost or repeated
  wherever the reads are cut, and an image is complete before it counts. Hard:
  the head ends in the middle of a read.
* **Flash layout** (`core/src/flash.rs:1-244`). No state: partitions, conversions,
  lookups. Correct when nothing overlaps, wraps or leaves its partition.
  The same map is stated again for the linker, in two `memory.x`, one of which
  the bootloader's build checks (`bootloader/build.rs`).
* **Boot** (`app/src/main.rs`, `core/src/ota/selftest.rs`, `app/src/watchdog.rs`,
  `bootloader/src/main.rs`). State: the boot state in flash, `main`'s one reading of
  it, the watchdog. Correct when a trial is decided, one way or the other, which the
  code does not ensure (`ota_hang`). Hard: the
  watchdog is fed by a task, so it sees what blocks the executor and nothing
  that waits; the boot state is erased before it is written.
* **Radio handle and beacon** (`app/src/radio.rs`, `app/src/beacon.rs`). State: a mutex
  that the supervisor and the LED share, and a one-slot signal that the
  supervisor and the OTA task write. Correct when the LED shows the last state
  with the right number of flashes and holds nobody up. Hard: LED calls are not
  timed, and a step may be cut short at any of its waits.
* **Release tool** (`deploy.sh`). State: the files of a web server. Correct when
  `version` always names a whole image, and a completed release reaches the
  device. Hard: it replaces files that a device may be reading, one by one, and
  may stop after any of them.
* **Codecs** (`core/src/mqtt.rs`, `core/src/ota/mod.rs`). No state. Correct when the
  scanner accepts what the grammar does and what it accepts can be echoed, and
  when versions, digests, URLs and credentials mean what their texts say.
* Also: the heap and the build scripts. `PROJECT.json` lists each with its status.

`PROJECT.json` also lists the hazards of this code at their lines, with the
properties that cover them and, for those not covered yet, the reason.

## 2. Modules

| module | what it is |
|---|---|
| `RelayPin` | abstract: what the relay pin promises in terms of edges and time |
| `Actuator` | the actuator task, interlock, channel and blocking sender; implements `RelayPin` |
| `Sensor` | the sensor task and debouncer up to telemetry's cached state |
| `WifiSupervisor` | the supervisor with the failure-counting part of telemetry and the network |
| `TrialBoot` | abstract: what a fail-safe update promises |
| `Telemetry` | the MQTT task: connection, subscription, select, publications, replies |
| `UpdateStateMachine` | `UpdateStateMachine`, call by call; implements `TrialBoot` |
| `OtaUpdate` | boot, check, stream, mark, swap, self-test, watchdog, confirm, roll back; implements `TrialBoot` |
| `Release` | `deploy.sh` step by step against the three requests of a check |
| `RadioControl` | the radio's mutex, the beacon and the supervisor's use of both |
| `MqttCodec` | the payload scanner and the response, written so that they can be reasoned about |
| `MqttGrammar` | the grammar that the scanner is checked against |
| `OtaText` | version, digest, URL and base64 conversions |
| `HttpGet` | one HTTP exchange of a check: connection, head parser, readers of the body |
| `FlashLayout` | the flash map as functions |
| `MC*` | the same for TLC |
| `*_proofs` | theorems about the module of that name; `Flash_proofs` has those of `FlashLayout` and `UpdateStateMachine`, `Telemetry_proofs` also those of the codec that telemetry uses, `MqttCodec`, `Release_proofs` those of `OtaText`, by which the device reads what was released, and `WifiSupervisor_proofs` those of `RadioControl`, whose handle the supervisor shares |

The definitions named `...Without...`, `Faulty ...` and the like beside an action
are plausible mistakes in it. They are not part of any specification; they serve
to show that the property they are listed with in `PROJECT.json` can fail.

### Actuator

`pc` is the task's position: `receive` (the await of `rx.receive()`), `assert`
(between reading the clock in `trigger` and driving the pin) and `pulse` (the
await of the timer). `interlock` holds the two deadlines relative to now, so that
time can go on for ever in a finite state space; a deadline that has passed keeps
how long ago that was as long as it matters (`poll` arms the cooldown from the
*scheduled* end). `lag` counts how long a runnable task has been kept waiting and
is bounded by `MaxLate`: that is the executor's promise, and all the time bounds
are stated in terms of it. `lag` also covers the code between reading the clock
and suspending. A command remembers the level of the pin when its message
arrived, which the program does not; it is what `BurstIsOnePulse` talks about.
`age`, the time since the last edge of the pin, is a history variable shared with
`RelayPin`.

### Sensor

`reed` flips whenever it likes. `blind` is `Timer::after` with a candidate
pending, in which no edge is seen; `level` is the level wait with its timeout.
`waited` is the age of the candidate, `stable` a history of how long the level
has been what it is.

### WifiSupervisor

One action per way out of each await of the supervisor, four for telemetry and
five for the network. `net` says what works: `ok`, `dead` (the radio does, no
traffic passes) or `down`. The clock cannot pass a moment at which the supervisor
has something to do. `noIp` is the watchdog's elapsed time; `outage`, `uptime`
and `credit` are history, and so is `lapsed`: the last lease ran out with the link
still up.

### Telemetry

`pc` is the task's await point. A door state is represented by its number of
commit, which says both which state it is and how old it is; 0 is None. `told` is
the state the outside was told last, in a publication or a reply. `session` is what
the broker keeps for this client: `none`, `bare` (never subscribed), `failed` (a
subscription was attempted and lost) or `subscribed`. A connection is `up`,
`broken` (it no longer carries anything and the task does not know) or `none`. A
connection that is given up is dropped before the backoff here, and after it in
the code; the length of the backoff is left out, since the module is untimed.
The sensor, the actuator, the OTA task and the supervisor are one action each:
what they do to the shared object. `Actuator`, `Sensor` and `WifiSupervisor` contain
the aspect of this task that they depend on; the three do not use this module.

### UpdateStateMachine

The four fields, one action per operation and one per arm of `on_reset`. `stable`
is the version `mark_booted` confirmed last and `boot` flips at every reset; both
are history and give the mapping to `TrialBoot`. `SpecOta` leaves out `mark_dfu`.

### OtaUpdate

A cell of a partition is the set of images programmed into it since the erase, so
{v} is the image of v, {} is erased flash and {v, w} is damage. `Receive` is one turn
of `apply_update`'s loop with embassy-boot's `write_firmware`, which erases a
sector on entering it unless it is the one it erased last. `Reset` may happen at
any moment and includes the bootloader. The image streamed is chosen freely when
the stream starts: a deployment may have replaced it since the digest was read.

The boot state is erased and then written, in two steps with a reset possible in
between (`EraseToMark`/`MarkUpdated`, `EraseToConfirm`/`MarkBooted`). An erased state
reads as `boot`, so the confirmation takes effect with the erase, and a
`mark_booted` that fails in its *write* leaves the image confirmed, although the
comment at `main.rs:144-146` says that the bootloader will revert it; one that fails
before the erase (`MarkBootedFails`) leaves it unconfirmed. embassy-boot's own word
that invalidates the swap's progress is taken together with the erase. `boot_state`
is what `main` read at its start: a reading that fails (`unread`) counts as neither
swap nor revert, so no self-test and no suppression follows from it.

`hung` is `revert_hang`, the one place where the modelled code blocks the executor;
`WatchdogExpires` is the reset it leads to. `radio` is the untimed `radio::init`, and
`stalled` one that never returns (`RadioHangs`): nothing but an outside reset ends it.

### Release

One action per remote command of `deploy.sh`, two for each copy, and one per
request of a check. A file holds a build, nothing, or `Torn`. A version may be
built twice. `Abort` stops the script after any step. `due` is the promise of a
completed release; it is withdrawn when a later deployment begins, a request
fails, the version arrives cut short or the image is rolled back, which are the
ways in which the code gives a release up, and when the device restarts, which it may
do at any moment (`Restart`). One deployment runs at a time.

The flash is `OtaUpdate`'s subject, except for what a retry meets of it. The index of
the sector erased last outlives a check, so that a stream which ended in the first
sector leaves its contents there for the next of the same boot to be written
over: `spoilt` holds them, `Over` is what comes of it, and `image` what the device runs
then, which is `Torn` if the two were not the same. `tried` is history: what this boot has
streamed. `running` is the build, and so the version, that the device takes itself for.

### RadioControl

`sup` is where the supervisor stands with respect to the mutex, `beacon` where
`step_led` does (`lock`, `call`: in `gpio_set`, `wait`), `step` and `round` which part of
whose pattern is shown. embassy-sync's mutex wakes its waiters and gives it to whoever is
polled first; `JoinFails` gives it up and takes it back for `leave` in one poll, as the
code does. The supervisor here has only what concerns the handle and the LED;
its timing is `WifiSupervisor`'s subject.

### MqttCodec, MqttGrammar and OtaText

The scanner's operators are the functions of the source with the position as a
parameter and 0 for an error. A text is a sequence of units that the code treats
alike (a letter that only matters in an escape, the four letters of `uuid`, a
literal); `open`, `close` and `comma` stand for the two braces and the comma. Each loop
of the source is a function of the position, `end[i]`, and what one turn of it does is
an operator with `end` as a parameter (`string_turn`, `skip_members`, `skip_elements`).
`parse_value`, `skip_object` and `skip_array` call each other, so that the three are one
function, `scan`, with a record of results at each position. The loop of
`parse_status_request` is `ParseMembers`, which also has where the uuid was found.

`MqttGrammar` is the reference: it says by where a text can be split, and without a
position, what a value, a list and a uuid member are. It is recursive and serves TLC
only; nothing that a theorem is stated about uses it. In `OtaText` an
`Option` is a set of at most one element. The loops over a version's digits, of
`write_u32` and of `base64_fill` are functions of how far the loop has come, and base64
is in sextets, which the table of letters does not change. The references are
`Number`, the digits' number without a limit; the text that a digest is written as; and
`Decoded`, base64 read back. They are about `file`, `secret` and `room`, which stand for
what the device is given, and which `MCCore` varies. The reference for URLs, in
`MCCore`, goes by the positions of their parts, and takes numbers by place value.

### HttpGet

The text of a head line is one byte that carries what `parse_status` and
`parse_header` make of it; CR, LF and the bytes of the body are themselves. The
server's response and the point where its connection ends are fixed when the
request is sent; `pos` is how much has been read, in reads of any size up to the
buffer's. `ReadHead` is a read before the end of the head and puts what it got in
`chunk`; `PushByte` is one turn of the loop that pushes it into the parser, and
what is behind the end of the head becomes the leftover. `parser` is `HeadParser`, `leftover` the bytes of the body that came with the
end of the head, `out` what the consumer has. `consumer` is `read_small` (`text`) or
the loop of `apply_update` (`image`). `Acceptable` and `HeadEnd` define on the whole
response what the parser decides byte by byte. What is done with the image is
`OtaUpdate`'s subject.

### FlashLayout

Constants and functions with the code's names and values. Results that the code
wraps in `Option` are `NoneU32` (-1) otherwise. `bootloader_memory_x` and `app_memory_x` are the
two maps the linker uses, `validate` the checks in `bootloader/build.rs`, which are made
modulo 2^32: `parse_memory_x` truncates each number as `eval_expr` does, and
`region_end` is a sum that wraps, as in a release build (`overflow-checks = false`). A
build with overflow checks panics where a sum wraps, and accepts fewer maps. Terms that
`i64` cannot hold are refused and left out.

## 3. What TLC checks

Run `tlc -config <cfg> <module>`. All passing runs check for deadlock except
`http`, since an exchange ends, and `core`, where most states are inputs.

| run | bounds | distinct states |
|---|---|---|
| `actuator` (`MCActuator.cfg`) | 100 ms ticks: pulse 6, cooldown 20, 4 slots, 2 messages in the socket, 2 ticks late | 41 267 |
| `sensor` (`MCSensor.cfg`) | 10 ms ticks: interval 5, 2 late | 2 228 |
| `wifi` (`MCWifiSupervisor.cfg`) | 15 s ticks; 2 DHCP windows, backoff 1 to 2, threshold 2 failures, reboot after 7 | 852 267 |
| `telemetry` (`MCTelemetry.cfg`) | 1 slot, 2 messages in the socket, threshold 2 failures, 3 door states | 79 662 |
| `http` (`MCHttpGet.cfg`) | heads up to 10 bytes, reads up to 3, bodies up to 5, chunks of 2 | 136 759 |
| `ota` (`MCOtaUpdate.cfg`) | 2 sectors of 2 units, chunks up to 2, 3 images, one too large | 221 268 |
| `radio` (`MCRadioControl.cfg`) | one OTA code, of 4 flashes, beside the supervisor's 1 to 3; one check running and one requested | 11 827 |
| `release` (`MCRelease.cfg`) | 2 versions, the second built twice | 343 224 |
| `core` (`MCCore.cfg`) | payloads of 2 members and one damage; bodies of 5 characters, URLs of 5 after the scheme, credentials of 4 bytes, buffers up to 16; `HexDigits` 1, `VersionDigits` 2, `HASH_BYTES` 2, `U32_MAX` 299, `U16_MAX` 91, `PATH_BYTES` 5; or the update state machine with 4 versions | 161 426 |

Why these are enough. *actuator*: durations keep the code's ratio, the channel has
its real size, and the socket bound is what it takes to have a sender blocked
with a message behind it; `MaxLate` is as large as the theorem about bursts admits
(section 4) for these sizes, and the other properties have no limit on it short of
half the cooldown, where the contract becomes empty. *sensor*: the interval exceeds the lateness, so
that flips fall before, in and after each wait. *wifi*: the threshold exceeds the
longest cycle, so an outage spans several; two failures and two windows are the
smallest numbers that differ from "every time". *telemetry*: one trigger fills the
channel and a second blocks; three door states are one told, one cached and one
pending. *http*: a read can end before, in and after the end of the head, the declared
length is nothing, less than what follows, or more than fits, and with CR LF the
longest heads exceed the limit by one byte. *ota*: chunks that end inside a
sector and cross into the next, and images that differ in length. *radio*: a code
that is none of the supervisor's, and two failures of checks to come between them.
*release*: the version being read and the one that replaces it, either of which a
deployment of the other may prune; and a rebuilt one, so that a digest and an image of
the same version may differ, and a mixture be of one version or of two. That the prune
chooses among several older versions needs three; the theorem `CommitPointKept` is about any
number. *core*: the limits are made small enough that texts of
five characters lie on both sides of each: a number that just fits and one
that does not, whose product with ten overflows or whose last sum does; a path that
just fits; a digest of one byte less; and a buffer with room for all of the
credentials, for some and for none; of the state machine's versions one is stable, one on
trial, one staged over it, and one more.

What the passing runs show:

* `PinContract`: the actuator implements `RelayPin`: a pulse lasts
  `RELAY_PULSE_MS` and at most `MaxLate` more, and a pause at least
  `RELAY_COOLDOWN_MS - 2 * MaxLate`. Not `RELAY_COOLDOWN_MS`: the deadline counts
  from before the pin was driven.
* `NoStaleRefusal`, `BurstIsOnePulse`, `RelayReleased`, `BacklogDrains`: no trigger is
  refused beyond the cooldown; one that arrived with the relay on never starts a
  pulse; the relay goes off; and the socket is drained, so the telemetry task is
  never held for ever by the full channel.
* `ReportedInTime`, `NoStateLost`, `SettlesOnTruth`: the sensor's guarantees, down to what telemetry
  has cached.
* `LinkOutageBounded`, `ResetsAreRare`, `RejoinsAreEarned`, `DeadLinkIsLeft`,
  `RecoversWithNetwork`: the supervisor's. An outage that begins with the loss of the
  link ends in a reset in bounded time; resets are never more frequent than the
  threshold; no association is left without a run of failures; one that passes
  no traffic is left; and a network that works for good is used in the end.
* `QuietIsTold`, `NeverBackwards`, `StateIsTold`: telemetry's promises about
  the door. At rest on a live connection the outside knows the last state although
  nothing is acknowledged, because a lost publication breaks its connection and
  the next one starts with a snapshot; the "closed" a reply falls back to
  is never used. `RejoinOnlyUnreachable`: a refused subscription never costs the
  Wi-Fi association. `LoopIsSubscribedOrFailed`: the loop runs without
  subscriptions only on a session on which one has failed (see below).
* `NeverPanics`, `FailSafeUpdate`: the update state machine's, with the operations of
  an over-the-air update (`SpecOta`). `NeverPanics` is proved for `Spec`, with
  `mark_dfu`, as well.
* `StableSurvives`, `NoRetryLoop`, `RetriedImageIntact`, `FailSafeUpdate`: the update
  path's, with a reset between the erase and the write of the boot state too.
* `SupervisorProceeds`, `FlashesAreCode`, `SettlesOnLatest`: the LED. The supervisor
  gets the handle for each join and leave; a code that is not disturbed is shown in
  full; and the LED ends on the state signalled last. An OTA error is therefore
  shown until the next change of the Wi-Fi state, and the LED stands still
  during a join, which holds the handle for up to its timeout.
* `CommitPoint`, `InstallsWhatItWasTold`, `DeploymentArrives`: `version` names a whole image with its digest unless that
  very version is being deployed again. The device installs only the build whose digest it
  has read under the version it was told; and all of it, unless it has streamed
  something else since its last reset, when the first sector may be a mixture of
  the two that the digest does not see. A trigger that comes in the middle of a check is
  kept for another, and the release it stands for arrives, with that reservation.
* `ScannerAgrees`: the scanner accepts what the grammar does and takes the first
  top-level uuid, and the response to a request is in the grammar as well.
  `EchoIsSafe`: the response has no raw control character and is itself parsed as a
  request of the same uuid. `TextsAgree`: a version is the number of its digits
  or none, and is written as it was read; a digest is told by its text, and one cut short
  is none. The header with the credentials decodes to them, wherever the colon
  comes, and takes just the room it needs. `UrlsAgree`: a base URL is read as what it
  consists of. What the parsers let through, and the references with them: numbers with leading zeros, the port
  `:+80`, and a key written with escapes, which is not taken for `uuid`.
* `HeadAgrees`: the byte-fed parser decides as a definition on the whole head does.
  `BodyIsWhole`, `ArrivedIsTaken`, `Terminates`: the body is handed on without gap or
  repetition, an image counts only when complete, the parser does not refuse a
  response that arrived for the way it was cut, and each exchange ends. `EveryStepAdvances` is why:
  there is no limit on an exchange as a whole, only on each read, but each turn of a
  loop leaves fewer operations or fewer bytes. A *text* body that
  ends early is taken as it is (`transport.rs:219`): a version that is cut is a
  smaller version, which `ReadVersionCut` of `Release` does; a cut digest is none.

What the violation runs show (details under `findings` in `PROJECT.json`):

* `wifi_wedge`: a lease that runs out under a link that stays up is never noticed:
  the supervisor waits for the link, telemetry for the configuration.
* `ota_verified`: after an attempt that stopped in the first sector, another image
  streamed in the same boot is programmed over the remains, passes the digest
  (which covers the stream, not the flash) and is marked. `RetriedImageIntact` is
  what holds, and `StableSurvives` what saves the device. `Release` has the same mixture
  as a consequence of two deployments.
* `ota_hang`: a boot on trial whose `radio::init` never returns stays as it is. It is
  awaited without a timeout (`main.rs:123`), so the executor goes on feeding the
  watchdog, although "a hang anywhere in the boot or self-test path" (`watchdog.rs:6-8`) is
  to end in a reset that reverts the image. The fairness of this run is the watchdog's.

Statements of the repository that the models refute as well, without a run of
their own:

* A level need not be stable to be committed: with a candidate pending the task
  sleeps (`sensor.rs:39`) and takes two equal samples for a stable level, whereas
  `core/src/door.rs:13` and `165-167` say that it is continuous. `ReportedInTime` is
  what holds.
* A link held for more than `NO_IP_REBOOT_MS` that drops resets the MCU at once,
  since the lease is noted only when acquired (`wifi.rs:119`), whereas `wifi.rs:163-164`
  and `core/src/wifi.rs:62` speak of that long without a lease. `ResetsAreRare` is what
  holds.
* A subscription that failed is never repeated on a session that the broker keeps
  (`telemetry.rs:241`): the device is connected and hears no command, whereas
  `README.md:103` says that it subscribes.
* "Refuse to build if the pinned partition table is internally inconsistent"
  (`bootloader/build.rs:24`): the checks are made modulo 2^32, and a map that reaches beyond
  the flash passes if its numbers are large enough (the theorem `OversizedMapsPass`).
  `ValidMapsAreSafe` is what holds.
* "No single stalled radio call can wedge the task" (`wifi.rs:3-4`) holds for join and
  leave. A `gpio_set` that stalls (`beacon.rs:32`) keeps the handle, and with it the
  supervisor and its reboot check. `SupervisorProceeds` needs `GpioReturns`.

Of releases: a version that is deployed again never reaches a device that runs it
already; a release is lost to a device that is not subscribed when the trigger comes
or that rolls it back, until the next request or restart; files that an aborted deployment left
behind can be the one older pair that the prune keeps.

Two remarks more. The README's 500 ms for pulse and cooldown and its
20 ms of debounce are not the code's: 600, 2000 and 50 ms. And `mark_dfu` called on
trial forgets that the running image is unconfirmed, so that the refinement of `TrialBoot` is
stated for `SpecOta`, which leaves it out; the firmware does not use it.

### Fairness

Weak fairness only. *Tick*: time passes. *Task steps*: the executor polls what is
runnable (Embassy's run queue). *Network*: when `net` is `ok` the link comes up, a
lease is granted and a connection succeeds; `MqttFails` is fair because minimq
gives up on a silent broker by its keepalive. `ConnectedSpec` of `Sensor` adds that
telemetry keeps taking the signal, i.e. has a connection. In `Telemetry` an
operation on the network ends (minimq's keepalive, the socket's timeout), in
success when `net` is `ok`; and the actuator takes commands, which `Actuator` shows.
In `HttpGet` each operation ends, because each is under a timeout. Nothing is assumed of
the broker, the door, `NetChanges`, `Reset`, `Publish` or `deploy.sh`. `UpdateStateMachine`
has safety properties only and no fairness.

In `OtaUpdate` only the watchdog is fair, for `ota_hang`; its passing run has safety
properties and assumes no fairness. In `RadioControl`
tasks that can go on are polled and join, leave, DHCP and the backoff are timed;
that `gpio_set` returns is assumed. In `Release` the device goes on with what it has
begun, each of its requests being timed; that it has an address is assumed, since a check
first waits for one without a limit (`task.rs:62`). The environment's choices
(`ReadVersionCut`, `RequestFails`, `Restart`) are not among the fair steps.

## 4. What is proved

All theorems hold for every value of the constants under the `ASSUME` of their
module, which says only that durations, sizes and counts are natural numbers, and
that `None` is not one of the values it stands beside; one of them,
`BurstsGiveOnePulse`, has a hypothesis more. Each inductive invariant was an
invariant of the module's run before it was proved.

* `Actuator_proofs`. `TypeCorrect`; then `InterlockCorrect`, whose invariant is the
  inductive one: the contract alone is not, since it does not say where the
  deadline is while the task is between two stops. `PulseTracksTimer` ties the
  deadline, the timer and `lag` to the time since the edge; `CooldownTracksPause`
  does so for the pause. `PinContractHolds` is the refinement of `RelayPin`, step
  by step: `AssertRelay` is a Rise, `EndPulse` a Fall, `Tick` a Tick, everything
  else a stutter. `StaleRefusalImpossible` follows from the same invariant.
  `BurstsGiveOnePulse` assumes that a full socket drains within the cooldown:
  `(2 * InboxCap + 5) * MaxLate < RELAY_COOLDOWN_MS`, since each message costs
  telemetry and the actuator one turn each, the two have a turn in progress and a
  blocked send to finish, and the cooldown counts from up to `2 * MaxLate` before
  the falling edge. (With the run's constants the hypothesis holds for `MaxLate` 2,
  and TLC finds a second pulse from 5 on: some such bound is needed.) Its
  invariant `Draining` gives each trigger of the last pulse a bound
  (`Left`) on the time that it can still wait, by the place it waits at. A step
  towards the actuator shortens the way by what it may add to the lateness; a tick
  makes one of the two tasks later; and when the interlock accepts again, the time
  since the edge exceeds every bound, so that no such trigger can be left.
* `Sensor_proofs`. `TypeCorrect`; `StateKept`; `ReportInTime`, by an invariant
  (`Waits`) that bounds the time a differing level has lasted at each await point.
* `WifiSupervisor_proofs`. `TypeCorrect`, which bounds the clocks; `RareResets`, because the watchdog's clock never exceeds
  the time since boot; `EarnedRejoins`, because a raised request and the current
  count are always covered by `credit` (`CountsKept`). `LinkOutagesEnd`: an outage that
  begins with the loss of the link ends in time, because at every await point
  (`OutageCovered`) the time lost so far and what the current step's timer and the
  DHCP windows left (`TimersBounded`, `WindowsLeft`) may still take are within the
  threshold and one cycle.
* `WifiSupervisor_proofs`, of `RadioControl`, which it instantiates:
  `HandleExclusive`, since a task that is in a call owns the mutex
  (`HandleIsHeld`); and `FlashesTellCode`, the property `FlashesAreCode`, since at every
  stop of `step_led` the flashes of this round so far and the blinks still to come
  make up the code (`PatternKept`, `FlashesCounted`). The wait for the handle comes
  into neither count, which is why it may be of any length.
* `HttpGet_proofs`. `ParserAgrees`: what the parser says after any number of reads is what
  the definitions on the whole response say of it. The invariant (`ReadUpTo`) is
  about the bytes pushed so far: the parser holds the line that they end
  in (`LineHeld`), and the status, the length and the flag that the lines before
  it give (`StatusRead`, `HeadersRead`, `FieldsRead`). `Decided` ties the event to the position of
  the head's end. On it rest `BodyArrives` and
  `ArrivedIsNotRefused`, which add where the exchange stands (`Stages`): the leftover
  and the bytes to come are the body from where the consumer is. The responses are
  any sequences of bytes, the limit on the head and the sizes of reads any numbers.
  `TurnsAdvance`, the property `EveryStepAdvances`, and `LeftIsNatural`: an exchange has
  finitely many steps. What is to come counts twice, what waits to be pushed or
  taken once. With the fairness of the steps this is `Terminates`, up to the one
  fact that some step is possible until the end, which is `ENABLED` and stays with TLC.
  `HttpTypeCorrect` has the buffers: what is pushed, kept over or copied out fits.
* `Flash_proofs`, of `UpdateStateMachine`: `PanicFree` and `TrialKeepsStable`, which are
  each inductive, and `FailSafe`, the refinement of `TrialBoot`.
* `OtaUpdate_proofs`. `StableKept`: the confirmed image is in the partition a roll back would
  use. The strengthening says that a partly received image was received by a
  device that is not on trial, and is not on trial when it comes to mark it, so that
  neither the erase nor the write turns a trial into a fresh swap. `FailSafe` is the refinement of `TrialBoot` by the same invariant;
  `RetryOnlyOnRequest` uses one about the cause of a check (`Asked`).
  `RetriesAreHarmless`: as long as one image alone was streamed in this boot, all that
  is below `offset` is its, and the sector erased last holds nothing else.
* `Release_proofs`. `CommitPointKept`: outside the versions that a deployment has
  touched and not published, image and digest are the same build, for every version
  that has files; the prune keeps the current one. `InstallsTold`: the digest the
  device holds is of the version it was told (`Held`), and the first sector holds nothing
  that this boot has not streamed (`Streamed`), so that a build streamed alone is whole
  after any number of attempts. The invariant has one part for the server and one for the device,
  each of which the other's steps leave alone.
* `Release_proofs`, of `OtaText`: `TextsAreRead`, the property `TextsAgree`, from `FilesAreRead` for
  a file of any characters and any length and `CredentialsSentWhole` for any bytes and any
  buffer. Their loops go upwards and have the lemmas that
  `MqttCodec`'s have (`Upward`, `LoopIsUnique`, `LoopExists`).
  - `DecimalAgrees`: arithmetic that gives up at the limit yields the unlimited number or
    nothing, since what has exceeded the limit never comes back under it.
    `WrittenAgrees` and `WrittenOnce`: a number is read back from its digits, and only
    leading zeros can make another text of it. `TrimOfPrefix`: a file that is cut and
    still has the whole one's length when it is trimmed is trimmed to the same text, so
    that its digest, if it has one, is the same. `PortIsRead` is the part of `UrlsAgree`
    that rests on numbers.
  - `Base64Is`: the loop yields all the quanta or, if one has no room, nothing.
    `Sextets` and `Rejoined` are about 24 bits by eights and by sixes, `QuantumDecodes` about
    one quantum with one to three bytes of input, and `PadBegins` about where the padding
    of the last falls in the whole text.
* `Telemetry_proofs`. `TypeCorrect`; `RestIsTold`, `NoBlindReply` and `TellsForwards` from one invariant: the
  numbers are ordered (`told <= current <= commits`, with the pending state the last
  committed), on a live connection the cache has been told unless the
  publication is still to come, and the loop has a state. `SubscribesOrFailed` and
  `RejoinIfUnreachable` have an invariant each; the latter's is that the code's
  counter never exceeds the failures since a broker last accepted.
* `Telemetry_proofs`, of `MqttCodec`: `EchoSafe`, the property `EchoIsSafe` for every
  payload, of any length and nesting, and for every number of hex digits and of a
  version's digits. The argument, from the loops up:
  - A turn of a loop uses the results at later positions only, so that the equation of
    each loop has one solution (`LoopIsUnique`) and has one at all (`LoopExists`);
    without the second, `CHOOSE` would say nothing of what the loop computes. Both rest on
    `Downward`, what holds at a position if it does at all later ones holds at
    each, which is an induction over positions from the least element of a set
    (`Least`), stated with sets where an induction rule would have a predicate.
  - `LoopExists` also takes a set of functions that a turn does not leave, and
    the result is then in it. `StringEnds` is such a set for strings (an end is behind
    a quote with no raw control character before it), `ScanEnds` for values
    (positions move forward), `Parses` for requests (an error, or the contents of a
    string of the payload). `AcceptedIsString`: an accepted uuid is the body of
    a string that the scanner has read.
  - `SameString`: the scanner reads a string's body in any text as it did in
    the payload, since no turn looks behind the closing quote.
  - The response is then scanned from its last member back to its first
    (`ResponseScans`, `ResponseIsRead`), with the uuid of unknown length in the middle.
* `Flash_proofs`, of `FlashLayout`: `NothingWraps`: every u32 operation stays in range, so that the rest may use
  integers. `PartitionsTile`, `ConversionsAgree`, `PagesStayInside`, `ImageStaysInDfu`,
  `ProgressFits`: what `OtaUpdate` assumes of the flash, for every address.
  `ValidMapsAreSafe`: a memory map that the bootloader's build accepts, and none of whose
  regions ends beyond 32 bits, has no two regions that overlap, a spare page in DFU and
  nothing beyond the flash. `OversizedMapsPass`: without that hypothesis it does not hold, since
  the build truncates and wraps. `MapsAgree`: the two maps and `flash.rs` are one, and the
  bootloader's is accepted.

Not every theorem states a property of a run: the type invariants, `InterlockTracksPin`, `NeverBlind` and
`OnlyTrialUnconfirmed` are proved and need no run. `InterlockTracksPin` has a
consequence worth knowing: the `poll` at reception never has anything to do and
`PulseActive` is never the reason of a refusal, because the task never receives
during a pulse.

Only model-checked: everything temporal under fairness (`RelayReleased`,
`BacklogDrains`, `SettlesOnTruth`, `DeadLinkIsLeft`, `RecoversWithNetwork`, `StateIsTold`,
`Terminates`, `SupervisorProceeds`, `SettlesOnLatest`,
`DeploymentArrives`), which is out of the prover's reach; `ScannerAgrees`, whose
reference grammar is recursive in two dimensions, in the text and in how it is split; and
`UrlsAgree`, since `parse_url` and its reference use folds of the community modules, about
which nothing can be shown without an induction rule. Every other property of a run is a
theorem.

The proof of `EchoSafe` found one fault in the model: the cases of
`parse_status_request` overlapped, so that `CASE` did not say which was taken where the
code tests one after the other. They are tested in the code's order now.

## 5. What is not modelled

The list with reasons is `components` in `PROJECT.json`. In short: the inside of
libraries (the bootloader's page-wise swap among them); wording and logging; TLS and
DNS beyond success and failure; pin and DMA set-up; the heap; the build scripts
except for the checks of the memory map; argument checks of `deploy.sh`, and two
deployments at once. The `Host` header and the plus sign of an exponent are left out of
the codecs, and so are the buffers: a response has at most 56 bytes around at
most `UUID_MAX` (64), and `PAYLOAD_MAX` is 160.

Eight hazards have no property that would catch them, with the reason in `PROJECT.json`. In
three the code does what should not happen, and the models do so too: a reset after a
long-held link drops, a subscription that is not repeated, and a version that is
cut short. In two the property near by assumes the hazard away: a `gpio_set` that stalls, and
`mark_dfu` on trial. Three are out of the models: a broker that
accepts a connection and stays silent is minimq's to give up on; a `VERSION` with
leading zeros is published under a name the device, which reads a number, does not
ask for; and an empty image, which `deploy.sh` refuses, would be taken for complete.

## 6. Plan

Done: the door, the network supervision, telemetry, the update path from the
release tool to the boot, the radio handle and the codecs.

Proved: every safety property of the runs but two of the codecs
(`ScannerAgrees`, `UrlsAgree`).

To add, in this order: `parse_url` with its folds as functions of a position, and a
grammar of payloads without recursive operators, so that these two can be proved as well;
the step properties that the liveness arguments rest on beside `EveryStepAdvances`, as far
as they are without `ENABLED`; the
bootloader's swap page by page, as far as `bootloader/src/main.rs`
and the layout determine it; a telemetry that includes the length of its backoff.
