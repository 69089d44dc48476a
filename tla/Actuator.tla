------------------------------ MODULE Actuator ------------------------------
(***************************************************************************)
(* The door actuator: actuator_task (app/src/actuator.rs), the             *)
(* RelayInterlock it owns (core/src/door.rs), the bounded DOOR_CMD_CHANNEL *)
(* and the telemetry task as its only sender (app/src/telemetry.rs), which *)
(* blocks when the channel is full.                                        *)
(*                                                                         *)
(* Time.  A deadline is kept relative to the clock: a positive value lies  *)
(* in the future (`now_ms < end_ms`), anything else has been reached.      *)
(* Every Tick moves every deadline by one, so time never has to stop.      *)
(*                                                                         *)
(* Scheduling.  The tasks share one cooperative executor.  A runnable task *)
(* may be late (another task hashes, does TLS or erases flash), and so may *)
(* the code between two awaits; both are bounded by MaxLate ticks, counted *)
(* by `lag` from the moment the task becomes runnable until it suspends.   *)
(*                                                                         *)
(* Abstractions.  A command is only its provenance (see `Deliver`).  The   *)
(* QueryStatus command is left out: nothing in the program sends it and    *)
(* the actuator ignores it.  Messages other than triggers are left out.    *)
(***************************************************************************)
EXTENDS Integers, Sequences

CONSTANTS
    RELAY_PULSE_MS,     \* core/src/door.rs, 600 in the code
    RELAY_COOLDOWN_MS,  \* core/src/door.rs, 2000 in the code
    Capacity,           \* slots of DOOR_CMD_CHANNEL, 4 in the code
    InboxCap,           \* bound: trigger messages waiting in the TCP socket
    MaxLate,            \* bound: ticks a runnable task waits or runs
    None                \* Option::None

\* The constants are durations and sizes; None is neither a deadline
\* nor a command.
ASSUME ActuatorAssumption ==
    /\ RELAY_PULSE_MS \in Nat \ {0}
    /\ RELAY_COOLDOWN_MS \in Nat \ {0}
    /\ Capacity \in Nat \ {0}
    /\ InboxCap \in Nat \ {0}
    /\ MaxLate \in Nat
    /\ None \notin Int \cup {"low", "high"}

VARIABLES
    relay,      \* level of GPIO 18
    pc,         \* await point or step of actuator_task
    interlock,  \* RelayInterlock: pulse_end and cooldown_end
    timer,      \* what is left of the Timer awaited during a pulse
    channel,    \* DOOR_CMD_CHANNEL
    held,       \* command of the telemetry task's pending send, or None
    inbox,      \* trigger messages in the socket, not yet received
    lag,        \* ticks each task has been runnable without suspending
    age         \* history: ticks since the relay's last edge, see RelayPin

vars == <<relay, pc, interlock, timer, channel, held, inbox, lag, age>>

Level == {"low", "high"}

\* A command carries the level the relay had when its message arrived.
Command == Level

AgeCap == RELAY_PULSE_MS + RELAY_COOLDOWN_MS + MaxLate

------------------------------------------------------------------------------
(* RelayInterlock *)

Deadline == Int \cup {None}

Due(end) == end # None /\ end <= 0
Running(end) == end # None /\ end > 0

\* Faulty Poll: forgets to arm the cooldown.
PollWithoutCooldown(il) ==
    IF Due(il.pulse_end) THEN [pulse_end |-> None, cooldown_end |-> None] ELSE il

\* poll: an elapsed pulse arms the cooldown, from the scheduled pulse end.
Poll(il) ==
    IF Due(il.pulse_end)
      THEN [pulse_end |-> None, cooldown_end |-> il.pulse_end + RELAY_COOLDOWN_MS]
      ELSE il

\* Faulty Rejects: a cooldown that is over still rejects, or none ever does.
RejectsForEver(il) == Running(il.pulse_end) \/ il.cooldown_end # None
RejectsOnlyInPulse(il) == Running(il.pulse_end)

\* trigger: Err(PulseActive) or Err(Cooldown).
Rejects(il) == Running(il.pulse_end) \/ Running(il.cooldown_end)

\* trigger: the state after Ok(AssertHigh).
Armed == [pulse_end |-> RELAY_PULSE_MS, cooldown_end |-> None]

\* One tick: deadlines come closer.  A cooldown that is over stays over.
Aged(il) ==
    [pulse_end    |-> IF il.pulse_end = None THEN None ELSE il.pulse_end - 1,
     cooldown_end |-> IF Running(il.cooldown_end) THEN il.cooldown_end - 1
                                                  ELSE il.cooldown_end]

------------------------------------------------------------------------------
(* Scheduling *)

ActuatorReady(p, t, ch) ==
    \/ p = "receive" /\ ch # <<>>
    \/ p = "assert"
    \/ p = "pulse" /\ t = 0

TelemetryReady(h, in, ch) ==
    \/ h = None /\ in # <<>>
    \/ h # None /\ Len(ch) < Capacity

\* The lag of a task that suspends starts again from zero.
Settle(l, readyA, readyT) ==
    [actuator  |-> IF readyA THEN l.actuator ELSE 0,
     telemetry |-> IF readyT THEN l.telemetry ELSE 0]

SettleLag ==
    lag' = Settle(lag, ActuatorReady(pc', timer', channel'),
                       TelemetryReady(held', inbox', channel'))

------------------------------------------------------------------------------
(* Actions *)

Init ==
    /\ relay = "low"
    /\ pc = "receive"
    /\ interlock = [pulse_end |-> None, cooldown_end |-> None]
    /\ timer = 0
    /\ channel = <<>>
    /\ held = None
    /\ inbox = <<>>
    /\ lag = [actuator |-> 0, telemetry |-> 0]
    /\ age = AgeCap

\* A trigger message arrives.  It remembers whether the relay was high.
Deliver ==
    /\ Len(inbox) < InboxCap
    /\ inbox' = Append(inbox, relay)
    /\ UNCHANGED <<relay, pc, interlock, timer, channel, held, age>>
    /\ SettleLag

\* Faulty SendTrigger: the message is not acknowledged and arrives again.
SendTriggerUnacknowledged ==
    /\ held = None
    /\ inbox # <<>>
    /\ Len(channel) < Capacity
    /\ channel' = Append(channel, Head(inbox))
    /\ UNCHANGED <<relay, pc, interlock, timer, held, inbox, age>>
    /\ SettleLag

\* Telemetry receives a trigger and its send finds a free slot.
SendTrigger ==
    /\ held = None
    /\ inbox # <<>>
    /\ Len(channel) < Capacity
    /\ channel' = Append(channel, Head(inbox))
    /\ inbox' = Tail(inbox)
    /\ UNCHANGED <<relay, pc, interlock, timer, held, age>>
    /\ SettleLag

\* Telemetry receives a trigger while the channel is full: the task is stuck
\* in send().await and receives nothing more.
SendBlocks ==
    /\ held = None
    /\ inbox # <<>>
    /\ Len(channel) = Capacity
    /\ held' = Head(inbox)
    /\ inbox' = Tail(inbox)
    /\ UNCHANGED <<relay, pc, interlock, timer, channel, age>>
    /\ SettleLag

\* A slot is free again: the pending send completes.
SendCompletes ==
    /\ held # None
    /\ Len(channel) < Capacity
    /\ channel' = Append(channel, held)
    /\ held' = None
    /\ UNCHANGED <<relay, pc, interlock, timer, inbox, age>>
    /\ SettleLag

\* Poll at reception: applies DeassertLow if the poll returns it.
PollAtReceive ==
    /\ relay' = IF Due(interlock.pulse_end) THEN "low" ELSE relay
    /\ age' = IF relay' = relay THEN age ELSE 0

\* The actuator receives a trigger that the interlock accepts.
AcceptTrigger ==
    /\ pc = "receive"
    /\ channel # <<>>
    /\ ~Rejects(Poll(interlock))
    /\ channel' = Tail(channel)
    /\ interlock' = Armed
    /\ PollAtReceive
    /\ pc' = "assert"
    /\ UNCHANGED <<timer, held, inbox>>
    /\ SettleLag

\* The actuator receives a trigger that the interlock rejects: the pin is left
\* untouched.
RejectTrigger ==
    /\ pc = "receive"
    /\ channel # <<>>
    /\ Rejects(Poll(interlock))
    /\ channel' = Tail(channel)
    /\ interlock' = Poll(interlock)
    /\ PollAtReceive
    /\ UNCHANGED <<pc, timer, held, inbox>>
    /\ SettleLag

\* The relay is asserted and the pulse timer started.  The time the interlock
\* was armed at was read before this.
AssertRelay ==
    /\ pc = "assert"
    /\ relay' = "high"
    /\ age' = 0
    /\ timer' = RELAY_PULSE_MS
    /\ pc' = "pulse"
    /\ UNCHANGED <<interlock, channel, held, inbox>>
    /\ SettleLag

\* Faulty EndPulse: reconciles, but ignores the action that poll returns.
EndPulseWithoutDeassert ==
    /\ pc = "pulse"
    /\ timer = 0
    /\ interlock' = Poll(interlock)
    /\ pc' = "receive"
    /\ UNCHANGED <<relay, age, timer, channel, held, inbox>>
    /\ SettleLag

\* The timer has fired: de-assert unconditionally, then reconcile.
EndPulse ==
    /\ pc = "pulse"
    /\ timer = 0
    /\ relay' = "low"
    /\ age' = 0
    /\ interlock' = Poll(interlock)
    /\ pc' = "receive"
    /\ UNCHANGED <<timer, channel, held, inbox>>
    /\ SettleLag

\* One tick of the clock; no task is later than MaxLate.
Tick ==
    /\ ActuatorReady(pc, timer, channel) => lag.actuator < MaxLate
    /\ TelemetryReady(held, inbox, channel) => lag.telemetry < MaxLate
    /\ lag' = [actuator  |-> IF ActuatorReady(pc, timer, channel)
                               THEN lag.actuator + 1 ELSE 0,
               telemetry |-> IF TelemetryReady(held, inbox, channel)
                               THEN lag.telemetry + 1 ELSE 0]
    /\ interlock' = Aged(interlock)
    /\ timer' = IF timer > 0 THEN timer - 1 ELSE 0
    /\ age' = IF age < AgeCap THEN age + 1 ELSE age
    /\ UNCHANGED <<relay, pc, channel, held, inbox>>

ActuatorStep == AcceptTrigger \/ RejectTrigger \/ AssertRelay \/ EndPulse
TelemetryStep == SendTrigger \/ SendBlocks \/ SendCompletes

Next ==
    \/ Deliver
    \/ SendTrigger \/ SendBlocks \/ SendCompletes
    \/ AcceptTrigger \/ RejectTrigger \/ AssertRelay \/ EndPulse
    \/ Tick

\* The executor polls every runnable task, and time passes.  Nothing obliges
\* the broker to deliver anything.
Fairness == WF_vars(ActuatorStep) /\ WF_vars(TelemetryStep) /\ WF_vars(Tick)

Spec == Init /\ [][Next]_vars /\ Fairness

------------------------------------------------------------------------------
(* Properties *)

\* Type correctness.
TypeOK ==
    /\ relay \in Level
    /\ pc \in {"receive", "assert", "pulse"}
    /\ interlock \in [pulse_end : Deadline, cooldown_end : Deadline]
    /\ timer \in 0..RELAY_PULSE_MS
    /\ channel \in Seq(Command) /\ Len(channel) <= Capacity
    /\ held \in Command \cup {None}
    /\ inbox \in Seq(Command) /\ Len(inbox) <= InboxCap
    /\ lag \in [actuator : 0..MaxLate, telemetry : 0..MaxLate]
    /\ age \in 0..AgeCap

\* The cooldown deadline counts from the scheduled end of the pulse, measured
\* from before the pin was asserted; two late steps shorten the real pause.
MinGap == RELAY_COOLDOWN_MS - 2 * MaxLate

Pin == INSTANCE RelayPin WITH
    HighLeast <- RELAY_PULSE_MS,
    HighMost  <- RELAY_PULSE_MS + MaxLate,
    LowLeast  <- MinGap

\* The actuator implements the pin's contract: whatever arrives from the
\* network, each pulse lasts RELAY_PULSE_MS plus at most the lateness of the
\* executor, and successive pulses are at least MinGap apart.
PinContract == Pin!Spec

\* What makes the contract hold: how the interlock's deadlines, the timer, the
\* lateness and the pin's last edge are related at each of the task's stops.
\* In particular the poll after the timer always finds the pulse elapsed, so
\* the actuator never waits for a command with a pulse armed or the pin high:
\* the poll at reception has nothing left to do, and PulseActive is never the
\* reason of a rejection.
CooldownTracksPause ==
    IF interlock.cooldown_end = None
      THEN age = AgeCap
      ELSE /\ age + interlock.cooldown_end >= MinGap
           /\ Running(interlock.cooldown_end) =>
                age + interlock.cooldown_end <= RELAY_COOLDOWN_MS

PulseTracksTimer ==
    /\ interlock.pulse_end # None
    /\ interlock.pulse_end \in (timer - MaxLate - lag.actuator)..timer
    /\ timer > 0 => lag.actuator = 0
    /\ age = RELAY_PULSE_MS - timer + lag.actuator

InterlockTracksPin ==
    /\ pc = "receive" => /\ relay = "low"
                         /\ interlock.pulse_end = None
                         /\ CooldownTracksPause
    /\ pc = "assert"  => /\ relay = "low"
                         /\ interlock.pulse_end # None
                         /\ interlock.pulse_end
                              \in (RELAY_PULSE_MS - lag.actuator)..RELAY_PULSE_MS
                         /\ age >= MinGap
    /\ pc = "pulse"   => relay = "high" /\ PulseTracksTimer

\* A trigger handled a full cooldown after the last pulse is never refused:
\* the interlock's bookkeeping cannot outlive the pause that it enforces.
NoStaleRefusal == [][RejectTrigger => age < RELAY_COOLDOWN_MS]_vars

\* A burst yields a single pulse: a trigger that reached the device while the
\* relay was high is never the one that starts another pulse, however full the
\* channel was and however long the sender was blocked.
BurstIsOnePulse == [][AcceptTrigger => Head(channel) = "low"]_vars

\* The relay is never left on.
RelayReleased == (relay = "high") ~> (relay = "low")

\* Every message in the socket is eventually handled: no one waits for ever on
\* the cycle socket -> telemetry -> channel -> actuator.
BacklogDrains == (Len(inbox) = InboxCap) ~> (Len(inbox) < InboxCap)
==============================================================================
