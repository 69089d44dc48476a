---------------------------- MODULE RadioControl ----------------------------
(***************************************************************************)
(* The radio's control handle and the two tasks that share it behind a     *)
(* mutex: the Wi-Fi supervisor, for join and leave (app/src/wifi.rs), and  *)
(* the beacon, for the LED that hangs on the radio chip                    *)
(* (app/src/beacon.rs).                                                    *)
(*                                                                         *)
(* The mutex hands nothing over: whoever is polled first takes it, and a   *)
(* task that releases it and asks again in the same poll has it back.      *)
(*                                                                         *)
(* Abstractions.  A timeout is a step that may be taken when no task is    *)
(* ready to take the mutex: the executor is prompt next to the shortest    *)
(* of them, 50 ms.  join and leave always end, by their timeouts;          *)
(* gpio_set has none.  The supervisor's reboot is WifiSupervisor's.        *)
(***************************************************************************)
EXTENDS Integers, FiniteSetsExt

CONSTANTS
    OTA_CODES,  \* the blink codes of ota_task, 10 to 22 in the code
    None        \* Option::None

\* BeaconState.
Connecting  == [kind |-> "connecting", code |-> 0]
Connected   == [kind |-> "connected", code |-> 0]
Error(code) == [kind |-> "error", code |-> code]

BeaconState ==
    {Connecting, Connected} \cup {Error(code) : code \in {1, 2, 3} \cup OTA_CODES}

\* A code is a number of pulses, and None is nothing else.
ASSUME RadioAssumption ==
    /\ OTA_CODES \subseteq Nat \ {0}
    /\ None \notin BeaconState \cup Nat \cup {"supervisor", "beacon"}

VARIABLES
    owner,    \* who holds the mutex, or None
    sup,      \* await point of wifi_supervisor_task
    beacon,   \* await point of step_led
    step,     \* the step of the pattern: "on", "off" or "pause"
    round,    \* the state whose pattern is being shown
    current,  \* current_state
    blinks,   \* pulses of this round that are over
    signal,   \* BEACON_SIGNAL
    checks,   \* checks of ota_task to come: one running, one requested
    led,      \* the LED is on
    latest,   \* history: the state signalled last
    flashes   \* history: flashes since a full pause, None if disturbed

leds == <<beacon, step, round, current, blinks, led, flashes>>
vars == <<owner, sup, leds, signal, checks, latest>>

Init ==
    /\ owner = None
    /\ sup = "wants_join"
    /\ beacon = "lock" /\ step = "on" /\ blinks = 0
    /\ round = Connecting /\ current = Connecting
    /\ signal = Connecting /\ latest = Connecting
    /\ led = FALSE
    /\ checks \in {0, 1}
    /\ flashes = None

Signal(state) == signal' = state /\ latest' = state

\* A task that could go on at once.
Ready ==
    owner = None /\ (sup \in {"wants_join", "wants_leave"} \/ beacon = "lock")

------------------------------------------------------------------------------
(* Supervisor *)

SupervisorLocks ==
    /\ owner = None
    /\ \/ sup = "wants_join" /\ sup' = "join"
       \/ sup = "wants_leave" /\ sup' = "leave"
    /\ owner' = "supervisor"
    /\ UNCHANGED <<leds, signal, checks, latest>>

JoinSucceeds ==
    /\ sup = "join"
    /\ sup' = "dhcp"
    /\ owner' = None
    /\ UNCHANGED <<leds, signal, checks, latest>>

\* join reports an error or times out: the mutex is released and, in the same
\* poll, taken again for leave.
JoinFails ==
    /\ sup = "join"
    /\ sup' = "leave"
    /\ Signal(Error(1))
    /\ UNCHANGED <<owner, leds, checks>>

LeaseFound ==
    /\ sup = "dhcp"
    /\ sup' = "online"
    /\ Signal(Connected)
    /\ UNCHANGED <<owner, leds, checks>>

\* DHCP never comes up, the link is lost, or a rejoin is requested.
AssociationEnds ==
    /\ \/ sup = "dhcp" /\ (Signal(Error(3)) \/ Signal(Error(2)))
       \/ sup = "online" /\ Signal(Error(2))
    /\ sup' = "wants_leave"
    /\ UNCHANGED <<owner, leds, checks>>

Leaves ==
    /\ sup = "leave"
    /\ sup' = "backoff"
    /\ owner' = None
    /\ UNCHANGED <<leds, signal, checks, latest>>

BackoffEnds ==
    /\ sup = "backoff"
    /\ ~Ready
    /\ sup' = "wants_join"
    /\ Signal(Connecting)
    /\ UNCHANGED <<owner, leds, checks>>

\* A request for a check comes in over the network and is latched.
RequestReset ==
    /\ sup = "online"
    /\ checks < 2
    /\ checks' = checks + 1
    /\ UNCHANGED <<owner, sup, leds, signal, latest>>

\* A check of ota_task has failed, or has not.
OtaEnds ==
    /\ checks > 0
    /\ checks' = checks - 1
    /\ \/ \E code \in OTA_CODES : Signal(Error(code))
       \/ UNCHANGED <<signal, latest>>
    /\ UNCHANGED <<owner, sup, leds>>

------------------------------------------------------------------------------
(* Beacon *)

BeaconLocks ==
    /\ beacon = "lock"
    /\ owner = None
    /\ owner' = "beacon"
    /\ beacon' = "call"
    /\ UNCHANGED <<sup, step, round, current, blinks, led, flashes, signal, checks, latest>>

\* Faulty GpioReturns: the call is repeated under the guard.
GpioReturnsRepeated ==
    /\ beacon = "call"
    /\ led' = (step = "on")
    /\ flashes' = IF flashes # None /\ ~led /\ led' THEN flashes + 1 ELSE flashes
    /\ UNCHANGED <<owner, beacon, sup, step, round, current, blinks, signal, checks, latest>>

\* gpio_set returns, sooner or later or never, and the mutex is released.
GpioReturns ==
    /\ beacon = "call"
    /\ beacon' = "wait"
    /\ owner' = None
    /\ led' = (step = "on")
    /\ flashes' = IF flashes # None /\ ~led /\ led' THEN flashes + 1 ELSE flashes
    /\ UNCHANGED <<sup, step, round, current, blinks, signal, checks, latest>>

\* Faulty Pulses: the code is not what is counted.
PulsesTooMany(state) == state.code + 1

\* The pulses of an error pattern.
Pulses(state) == Max({state.code, 1})

\* The top of beacon_task's loop: one more look at the signal, and a new round.
NewRound(state, pending) ==
    /\ current' = IF pending # None THEN pending ELSE state
    /\ round' = current'
    /\ step' = "on"
    /\ blinks' = 0

\* The step is over and the state is `state`: the next step of the pattern, or
\* a new round.  An error pattern is given up when the state is another.
NextStep(state, pending) ==
    LET repeats == round.kind = "error" /\ state = round
    IN  \/ /\ step = "on"
           /\ step' = "off" /\ current' = state
           /\ UNCHANGED <<round, blinks>>
        \/ /\ step = "off" /\ repeats
           /\ blinks' = blinks + 1
           /\ step' = IF blinks' < Pulses(round) THEN "on" ELSE "pause"
           /\ current' = state
           /\ UNCHANGED round
        \/ /\ step = "pause" \/ (step = "off" /\ ~repeats)
           /\ NewRound(state, pending)

\* Faulty StepInterrupted: the signal cuts the step short and is dropped.
StepInterruptedOnly ==
    /\ beacon = "wait"
    /\ signal # None
    /\ NextStep(current, None)
    /\ signal' = None
    /\ flashes' = None
    /\ beacon' = "lock"
    /\ UNCHANGED <<owner, sup, led, checks, latest>>

\* The wait ends with a new state.
StepInterrupted ==
    /\ beacon = "wait"
    /\ signal # None
    /\ NextStep(signal, None)
    /\ signal' = None
    /\ flashes' = None
    /\ beacon' = "lock"
    /\ UNCHANGED <<owner, sup, led, checks, latest>>

\* The wait times out.
StepEnds ==
    /\ beacon = "wait"
    /\ signal = None
    /\ ~Ready
    /\ NextStep(current, signal)
    /\ flashes' = IF step = "pause" THEN 0 ELSE flashes
    /\ beacon' = "lock"
    /\ UNCHANGED <<owner, sup, led, signal, checks, latest>>

Next ==
    \/ SupervisorLocks \/ JoinSucceeds \/ JoinFails \/ LeaseFound
    \/ AssociationEnds \/ Leaves \/ BackoffEnds \/ RequestReset \/ OtaEnds
    \/ BeaconLocks \/ GpioReturns \/ StepInterrupted \/ StepEnds

Spec == Init /\ [][Next]_vars

\* Tasks that can go on are polled; join, leave, DHCP and the backoff are timed.
\* That gpio_set returns is assumed: nothing in the code sees to it.
Fairness ==
    /\ WF_vars(SupervisorLocks) /\ WF_vars(BeaconLocks)
    /\ WF_vars(JoinSucceeds \/ JoinFails) /\ WF_vars(Leaves)
    /\ WF_vars(LeaseFound \/ (sup = "dhcp" /\ AssociationEnds))
    /\ WF_vars(BackoffEnds)
    /\ WF_vars(StepInterrupted \/ StepEnds)
    /\ WF_vars(GpioReturns)

FairSpec == Spec /\ Fairness

------------------------------------------------------------------------------
(* Properties *)

\* Type correctness.
TypeOK ==
    /\ owner \in {None, "supervisor", "beacon"}
    /\ sup \in {"wants_join", "join", "dhcp", "online", "wants_leave", "leave", "backoff"}
    /\ beacon \in {"lock", "call", "wait"} /\ step \in {"on", "off", "pause"}
    /\ round \in BeaconState /\ current \in BeaconState /\ latest \in BeaconState
    /\ signal \in BeaconState \cup {None}
    /\ blinks \in Nat /\ checks \in 0..2
    /\ led \in BOOLEAN
    /\ flashes \in Nat \cup {None}

\* "No single stalled radio call can wedge the task", as far as that is so: the
\* supervisor comes to its join and its leave, the LED notwithstanding, as long
\* as the LED's calls return.
SupervisorProceeds == sup \in {"wants_join", "wants_leave"} ~> owner = "supervisor"

\* What is counted on the LED is the code: from one full pause to the next, if
\* nothing is signalled in between, it flashes that many times.
FlashesAreCode ==
    step = "pause" /\ beacon = "wait" /\ flashes # None => flashes = round.code

\* The LED settles on the pattern of the state signalled last.
SettlesOnLatest ==
    \A state \in BeaconState : <>[](latest = state) => <>[](round = state)
=============================================================================
