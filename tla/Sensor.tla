------------------------------- MODULE Sensor -------------------------------
(***************************************************************************)
(* The reed switch monitor: sensor_task (app/src/sensor.rs), its           *)
(* ReedDebouncer (core/src/door.rs), DOOR_STATE_SIGNAL, and the telemetry  *)
(* task as the one consumer of the signal (app/src/telemetry.rs), reduced  *)
(* to the door state it has cached.                                        *)
(*                                                                         *)
(* The door's level is the environment's: it may flip at any moment, any   *)
(* number of times.  The level and the DoorState it stands for (high is    *)
(* Closed) are one value.                                                  *)
(*                                                                         *)
(* Time.  Durations are counted in ticks; a task that is ready runs within *)
(* MaxLate ticks.                                                          *)
(***************************************************************************)
EXTENDS Integers

CONSTANTS
    REED_DEBOUNCE_MS,  \* core/src/door.rs, 50 in the code
    MaxLate,           \* bound: ticks a ready sensor task waits
    None               \* Option::None

\* The constants are durations; None is not a door state.
ASSUME SensorAssumption ==
    /\ REED_DEBOUNCE_MS \in Nat \ {0}
    /\ MaxLate \in Nat
    /\ None \notin {"Open", "Closed"}

VARIABLES
    reed,       \* level of GPIO 21
    pc,         \* await point of sensor_task
    timer,      \* what is left of its Timer or timeout
    committed,  \* ReedDebouncer: the last committed state
    pending,    \* ReedDebouncer: the candidate, or None
    waited,     \* time since the candidate was first seen
    signal,     \* DOOR_STATE_SIGNAL, None once taken
    current,    \* telemetry's cached state, None before the first
    lag,        \* ticks the sensor task has been ready
    stable      \* history: time since the level last changed

sensor == <<pc, timer, committed, pending>>
vars == <<reed, sensor, waited, signal, current, lag, stable>>

DoorState == {"Open", "Closed"}

\* The longest a lasting change of the door can remain unreported.
ReportLatency == REED_DEBOUNCE_MS + 2 * MaxLate

StableCap == ReportLatency + 1

\* The task has something to do: it has just been spawned, the debounce
\* interval is over, or the level it waits for has been seen.
Ready ==
    \/ pc \in {"spawned", "woken"}
    \/ timer = 0

------------------------------------------------------------------------------
\* The level at spawn is committed and signalled at once.
Init ==
    /\ reed \in DoorState
    /\ pc = "spawned" /\ timer = 0
    /\ committed = reed
    /\ pending = None /\ waited = 0
    /\ signal = reed
    /\ current = None
    /\ lag = 0
    /\ stable = 0

\* ReedDebouncer::update, where the sample matches the committed state.
SampleMatches ==
    /\ reed = committed
    /\ pending' = None
    /\ UNCHANGED <<committed, waited, signal>>

\* Faulty SampleStarts: every differing sample starts the candidate afresh.
SampleRestarts ==
    /\ reed # committed
    /\ pending' = reed
    /\ waited' = 0
    /\ UNCHANGED <<committed, signal>>

\* ReedDebouncer::update, where the sample starts a new candidate.
SampleStarts ==
    /\ reed # committed
    /\ pending # reed
    /\ pending' = reed
    /\ waited' = 0
    /\ UNCHANGED <<committed, signal>>

\* Faulty SampleConfirms: keeps the state that telemetry has not taken yet; or
\* signals the state before.
ConfirmsIfTaken ==
    /\ reed # committed
    /\ pending = reed
    /\ IF waited >= REED_DEBOUNCE_MS
         THEN /\ committed' = reed /\ pending' = None
              /\ signal' = IF signal = None THEN reed ELSE signal
         ELSE UNCHANGED <<committed, pending, signal>>
    /\ UNCHANGED waited

ConfirmsOldState ==
    /\ reed # committed
    /\ pending = reed
    /\ IF waited >= REED_DEBOUNCE_MS
         THEN committed' = reed /\ pending' = None /\ signal' = committed
         ELSE UNCHANGED <<committed, pending, signal>>
    /\ UNCHANGED waited

\* ReedDebouncer::update, where the sample matches the candidate: once it has
\* lasted, update returns Some(state) and the task signals it.
SampleConfirms ==
    /\ reed # committed
    /\ pending = reed
    /\ IF waited >= REED_DEBOUNCE_MS
         THEN committed' = reed /\ pending' = None /\ signal' = reed
         ELSE UNCHANGED <<committed, pending, signal>>
    /\ UNCHANGED waited

\* One turn of the loop: sample, update, and wait.  With a candidate pending
\* the task sleeps and sees nothing; without, it waits for the level opposite
\* to the sample.  Either way it samples again after REED_DEBOUNCE_MS.
Sample ==
    /\ Ready
    /\ SampleMatches \/ SampleStarts \/ SampleConfirms
    /\ pc' = IF pending' # None THEN "blind" ELSE "level"
    /\ timer' = REED_DEBOUNCE_MS
    /\ lag' = 0
    /\ UNCHANGED <<reed, current, stable>>

\* Telemetry takes the signal.
TakeState ==
    /\ signal # None
    /\ current' = signal
    /\ signal' = None
    /\ UNCHANGED <<reed, sensor, waited, lag, stable>>

\* The reed opens, closes or bounces; the level interrupt wakes a task that
\* waits for it, even if the level does not last.
Flip ==
    /\ reed' \in DoorState \ {reed}
    /\ stable' = 0
    /\ pc' = IF pc = "level" THEN "woken" ELSE pc
    /\ UNCHANGED <<timer, committed, pending, waited, signal, current, lag>>

Tick ==
    /\ Ready => lag < MaxLate
    /\ lag' = IF Ready THEN lag + 1 ELSE 0
    /\ timer' = IF timer > 0 THEN timer - 1 ELSE 0
    /\ waited' = IF waited < REED_DEBOUNCE_MS THEN waited + 1 ELSE waited
    /\ stable' = IF stable < StableCap THEN stable + 1 ELSE stable
    /\ UNCHANGED <<reed, pc, committed, pending, signal, current>>

Next == Sample \/ TakeState \/ Flip \/ Tick

\* The executor polls the sensor task, and time passes.  That telemetry comes
\* to take the signal needs a connection, and is assumed where it is used.
Fairness == WF_vars(Sample) /\ WF_vars(Tick)

Spec == Init /\ [][Next]_vars /\ Fairness

\* With a telemetry task that keeps taking the signal.
ConnectedSpec == Spec /\ WF_vars(TakeState)

------------------------------------------------------------------------------
(* Properties *)

\* Type correctness.
TypeOK ==
    /\ reed \in DoorState
    /\ pc \in {"spawned", "blind", "level", "woken"}
    /\ timer \in 0..REED_DEBOUNCE_MS
    /\ committed \in DoorState
    /\ pending \in DoorState \cup {None}
    /\ waited \in 0..REED_DEBOUNCE_MS
    /\ signal \in DoorState \cup {None}
    /\ current \in DoorState \cup {None}
    /\ lag \in 0..MaxLate
    /\ stable \in 0..StableCap

\* A level that stays is committed within the debounce interval and two late
\* wake-ups, however much it bounced before and wherever in its two waits the
\* change caught the task.  (The converse, that a level has been stable for
\* REED_DEBOUNCE_MS when it is committed, does not hold: two samples decide.)
ReportedInTime == reed # committed => stable <= ReportLatency

\* The signal and the cached state together never lose the door's state: what
\* telemetry has, or is about to take, is what the sensor last committed.
NoStateLost == (IF signal = None THEN current ELSE signal) = committed

\* A door that comes to rest is reported as it rests, for good.
SettlesOnTruth ==
    \A s \in DoorState : <>[](reed = s) => <>[](current = s)
==============================================================================
