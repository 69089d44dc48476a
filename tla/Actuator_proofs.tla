-------------------------- MODULE Actuator_proofs ---------------------------
(***************************************************************************)
(* For every pulse, cooldown, channel size and lateness: the actuator is   *)
(* type correct, its interlock's bookkeeping agrees with the pin, and the  *)
(* pin keeps the contract of RelayPin; and a burst of triggers is a single *)
(* pulse when a backlog drains within the cooldown.                        *)
(***************************************************************************)
EXTENDS Actuator, TLAPS

USE ActuatorAssumption

\* Type correctness: no handler of the actuator or of its sender leaves the
\* ranges of TypeOK; in particular the channel never exceeds its capacity and
\* the pulse timer never its duration.
THEOREM TypeCorrect == Spec => []TypeOK
<1>1. Init => TypeOK
  BY DEF Init, TypeOK, Deadline, Command, Level, AgeCap
<1>2. TypeOK /\ [Next]_vars => TypeOK'
  <2> SUFFICES ASSUME TypeOK, [Next]_vars PROVE TypeOK'
    OBVIOUS
  <2> USE DEF TypeOK, Command, Level
  <2>L. SettleLag => lag' \in [actuator : 0..MaxLate, telemetry : 0..MaxLate]
    BY DEF SettleLag, Settle
  <2>P. Poll(interlock) \in [pulse_end : Deadline, cooldown_end : Deadline]
    BY DEF Poll, Due, Deadline
  <2>1. CASE Deliver
    BY <2>1, <2>L DEF Deliver
  <2>2. CASE SendTrigger
    BY <2>2, <2>L DEF SendTrigger
  <2>3. CASE SendBlocks
    BY <2>3, <2>L DEF SendBlocks
  <2>4. CASE SendCompletes
    BY <2>4, <2>L DEF SendCompletes
  <2>5. CASE AcceptTrigger
    <3>1. age' \in 0..AgeCap /\ relay' \in Level
      BY <2>5 DEF AcceptTrigger, PollAtReceive, AgeCap
    <3> QED
      BY <2>5, <2>L, <3>1 DEF AcceptTrigger, Armed, Deadline
  <2>6. CASE RejectTrigger
    <3>1. age' \in 0..AgeCap /\ relay' \in Level
      BY <2>6 DEF RejectTrigger, PollAtReceive, AgeCap
    <3> QED
      BY <2>6, <2>L, <2>P, <3>1 DEF RejectTrigger
  <2>7. CASE AssertRelay
    BY <2>7, <2>L DEF AssertRelay, AgeCap
  <2>8. CASE EndPulse
    BY <2>8, <2>L, <2>P DEF EndPulse, AgeCap
  <2>9. CASE Tick
    <3>1. lag' \in [actuator : 0..MaxLate, telemetry : 0..MaxLate]
      BY <2>9 DEF Tick
    <3>2. interlock' \in [pulse_end : Deadline, cooldown_end : Deadline]
      BY <2>9 DEF Tick, Aged, Running, Deadline
    <3>3. timer' \in 0..RELAY_PULSE_MS /\ age' \in 0..AgeCap
      BY <2>9 DEF Tick, AgeCap
    <3> QED
      BY <2>9, <3>1, <3>2, <3>3 DEF Tick
  <2>10. CASE UNCHANGED vars
    BY <2>10 DEF vars
  <2> QED
    BY <2>1, <2>2, <2>3, <2>4, <2>5, <2>6, <2>7, <2>8, <2>9, <2>10 DEF Next
<1> QED
  BY <1>1, <1>2, PTL DEF Spec

------------------------------------------------------------------------------
\* The interlock's deadlines, the pulse timer and the pin agree at every stop
\* of actuator_task; with TypeOK this is inductive.
THEOREM InterlockCorrect == Spec => []InterlockTracksPin
<1> USE DEF MinGap, AgeCap
<1>1. Init => InterlockTracksPin
  BY DEF Init, InterlockTracksPin, CooldownTracksPause
<1>2. TypeOK /\ InterlockTracksPin /\ [Next]_vars => InterlockTracksPin'
  <2> SUFFICES ASSUME TypeOK, InterlockTracksPin, [Next]_vars
               PROVE InterlockTracksPin'
    OBVIOUS
  <2>0. /\ timer \in 0..RELAY_PULSE_MS
        /\ age \in 0..AgeCap
        /\ lag.actuator \in 0..MaxLate
        /\ interlock = [pulse_end    |-> interlock.pulse_end,
                        cooldown_end |-> interlock.cooldown_end]
        /\ interlock.pulse_end \in Deadline
        /\ interlock.cooldown_end \in Deadline
        /\ pc \in {"receive", "assert", "pulse"}
    BY DEF TypeOK
  <2> USE <2>0 DEF Deadline, Due, Running, InterlockTracksPin,
                   CooldownTracksPause, PulseTracksTimer
  <2>1. CASE Deliver \/ SendTrigger \/ SendBlocks \/ SendCompletes
    \* Other tasks' steps: they change the channel, not the pin or the deadlines.
    <3>1. UNCHANGED <<relay, pc, interlock, timer, age>>
      BY <2>1 DEF Deliver, SendTrigger, SendBlocks, SendCompletes
    <3>2. SettleLag
      BY <2>1 DEF Deliver, SendTrigger, SendBlocks, SendCompletes
    <3>3. pc # "receive" => lag'.actuator \in {lag.actuator, 0}
                            /\ (pc = "assert" \/ timer = 0 => lag'.actuator = lag.actuator)
      BY <3>1, <3>2 DEF SettleLag, Settle, ActuatorReady
    <3> QED
      BY <3>1, <3>3
  <2>2. CASE AcceptTrigger
    <3>1. relay' = relay /\ age' = age /\ interlock' = Armed /\ pc' = "assert"
      BY <2>2 DEF AcceptTrigger, PollAtReceive
    <3>2. age >= MinGap
      BY <2>2 DEF AcceptTrigger, Rejects, Poll
    <3>3. lag'.actuator = lag.actuator
      BY <2>2, <3>1 DEF AcceptTrigger, SettleLag, Settle, ActuatorReady
    <3> QED
      BY <2>2, <3>1, <3>2, <3>3 DEF AcceptTrigger, Armed
  <2>3. CASE RejectTrigger
    <3>1. UNCHANGED <<relay, age, interlock, pc>>
      BY <2>3 DEF RejectTrigger, PollAtReceive, Poll
    <3> QED
      BY <2>3, <3>1 DEF RejectTrigger
  <2>4. CASE AssertRelay
    <3>1. lag'.actuator = 0
      BY <2>4 DEF AssertRelay, SettleLag, Settle, ActuatorReady
    <3> QED
      BY <2>4, <3>1 DEF AssertRelay
  <2>5. CASE EndPulse
    <3>1. interlock' = [pulse_end |-> None,
                        cooldown_end |-> interlock.pulse_end + RELAY_COOLDOWN_MS]
      BY <2>5 DEF EndPulse, Poll
    <3>2. interlock.pulse_end + RELAY_COOLDOWN_MS # None
      BY <2>5 DEF EndPulse
    <3> QED
      BY <2>5, <3>1, <3>2 DEF EndPulse
  <2>6. CASE Tick
    <3>1. UNCHANGED <<relay, pc>> /\ age \in Nat /\ age <= AgeCap
          /\ age' = IF age < AgeCap THEN age + 1 ELSE age
      BY <2>6 DEF Tick
    <3>2. interlock.pulse_end = None => interlock'.pulse_end = None
      BY <2>6 DEF Tick, Aged
    <3>3. interlock.pulse_end # None =>
            /\ interlock.pulse_end \in Int
            /\ interlock'.pulse_end = interlock.pulse_end - 1
            /\ interlock'.pulse_end # None
      BY <2>6 DEF Tick, Aged
    <3>4. interlock.cooldown_end = None => interlock'.cooldown_end = None
      BY <2>6 DEF Tick, Aged
    <3>5. interlock.cooldown_end # None =>
            /\ interlock.cooldown_end \in Int
            /\ interlock'.cooldown_end = IF interlock.cooldown_end > 0
                                           THEN interlock.cooldown_end - 1
                                           ELSE interlock.cooldown_end
            /\ interlock'.cooldown_end # None
      BY <2>6 DEF Tick, Aged
    <3>6. CASE pc = "receive"
      BY <3>1, <3>2, <3>4, <3>5, <3>6
    <3>7. CASE pc = "assert"
      <4>1. lag'.actuator = lag.actuator + 1
        BY <2>6, <3>7 DEF Tick, ActuatorReady
      <4> QED
        BY <3>1, <3>3, <3>7, <4>1
    <3>8. CASE pc = "pulse" /\ timer > 0
      <4>1. lag'.actuator = 0 /\ timer' = timer - 1
        BY <2>6, <3>8 DEF Tick, ActuatorReady
      <4> QED
        BY <3>1, <3>3, <3>8, <4>1
    <3>9. CASE pc = "pulse" /\ timer = 0
      <4>1. lag'.actuator = lag.actuator + 1 /\ timer' = 0
        BY <2>6, <3>9 DEF Tick, ActuatorReady
      <4> QED
        BY <3>1, <3>3, <3>9, <4>1
    <3> QED
      BY <3>6, <3>7, <3>8, <3>9
  <2>7. CASE UNCHANGED vars
    BY <2>7 DEF vars
  <2> QED
    BY <2>1, <2>2, <2>3, <2>4, <2>5, <2>6, <2>7 DEF Next
<1> QED
  BY <1>1, <1>2, TypeCorrect, PTL DEF Spec

\* A trigger handled RELAY_COOLDOWN_MS or more after the last falling edge is
\* never rejected by RelayInterlock::trigger.
THEOREM StaleRefusalImpossible == Spec => NoStaleRefusal
<1>1. TypeOK /\ InterlockTracksPin /\ [Next]_vars
        => [RejectTrigger => age < RELAY_COOLDOWN_MS]_vars
  BY DEF TypeOK, InterlockTracksPin, CooldownTracksPause, RejectTrigger, Rejects,
         Poll, Due, Running, Deadline, AgeCap
<1> QED
  BY <1>1, TypeCorrect, InterlockCorrect, PTL DEF Spec, NoStaleRefusal

\* The actuator implements RelayPin: every step is a rise, a fall or a tick the
\* contract allows, or leaves the pin and its age alone.
THEOREM PinContractHolds == Spec => PinContract
<1>1. Init => Pin!Init
  BY DEF Init, Pin!Init
<1>2. TypeOK /\ InterlockTracksPin /\ [Next]_vars => [Pin!Next]_Pin!pinVars
  <2> SUFFICES ASSUME TypeOK, InterlockTracksPin, [Next]_vars
               PROVE Pin!Next \/ UNCHANGED <<relay, age>>
    BY DEF Pin!pinVars
  <2> USE DEF TypeOK, Level, InterlockTracksPin
  <2>1. CASE Deliver \/ SendTrigger \/ SendBlocks \/ SendCompletes
    BY <2>1 DEF Deliver, SendTrigger, SendBlocks, SendCompletes
  <2>2. CASE AcceptTrigger \/ RejectTrigger
    BY <2>2 DEF AcceptTrigger, RejectTrigger, PollAtReceive, Due
  <2>3. CASE AssertRelay
    BY <2>3 DEF AssertRelay, Pin!Next, Pin!Rise
  <2>4. CASE EndPulse
    BY <2>4 DEF EndPulse, PulseTracksTimer, Pin!Next, Pin!Fall
  <2>5. CASE Tick
    <3>1. relay = "high" => age < RELAY_PULSE_MS + MaxLate
      BY <2>5 DEF Tick, PulseTracksTimer, ActuatorReady
    <3> QED
      BY <2>5, <3>1 DEF Tick, Pin!Next, Pin!Tick
  <2>6. CASE UNCHANGED vars
    BY <2>6 DEF vars
  <2> QED
    BY <2>1, <2>2, <2>3, <2>4, <2>5, <2>6 DEF Next
<1> QED
  BY <1>1, <1>2, TypeCorrect, InterlockCorrect, PTL DEF Spec, PinContract, Pin!Spec
------------------------------------------------------------------------------
(***************************************************************************)
(* A burst is a single pulse, provided that the backlog of a pulse drains  *)
(* before the cooldown is over.  Draining bounds, while the actuator waits *)
(* for commands, how long after the falling edge a trigger that arrived    *)
(* during the pulse can still be waiting: by the place it waits at (the    *)
(* channel, the blocked send, the socket) and the lateness the two tasks   *)
(* have left.                                                              *)
(***************************************************************************)

\* What j messages of the socket cost each of the two tasks at most.
Turns(j) == j * MaxLate

\* The turns that the blocked send and the channel have still to take.
SendTurn == IF held # None THEN MaxLate ELSE 0
ChannelTurn == IF channel # <<>> THEN MaxLate ELSE 0

\* The longest a backlog can take to drain after the falling edge.
DrainTime == 2 * Turns(InboxCap) + 3 * MaxLate

\* The backlog of a pulse drains before the cooldown is over, which counts from
\* up to 2 * MaxLate before the falling edge.
DrainsInTime == DrainTime + 2 * MaxLate < RELAY_COOLDOWN_MS

\* The longest a trigger at place j of the socket can take to be received by
\* the actuator; at place 0 is the one of the blocked send.
Left(j) ==
    2 * Turns(j) + SendTurn + ChannelTurn + MaxLate
      - lag.actuator - lag.telemetry

\* A task that has nothing to do has no lateness to its account.
IdleIsOnTime ==
    /\ ~ActuatorReady(pc, timer, channel) => lag.actuator = 0
    /\ ~TelemetryReady(held, inbox, channel) => lag.telemetry = 0

\* The triggers of the last pulse, by the place they wait at.
LateInChannel ==
    \A j \in 1..Len(channel) :
        channel[j] = "high" => age + MaxLate - lag.actuator <= DrainTime

LateInSend == held = "high" => age + Left(0) <= DrainTime

LateInSocket ==
    \A j \in 1..Len(inbox) : inbox[j] = "high" => age + Left(j) <= DrainTime

\* None is left.
NothingLate ==
    /\ \A j \in 1..Len(channel) : channel[j] # "high"
    /\ held # "high"
    /\ \A j \in 1..Len(inbox) : inbox[j] # "high"

Draining ==
    /\ pc = "receive" => LateInChannel /\ LateInSend /\ LateInSocket
    /\ pc = "assert"  => NothingLate

\* Turns is multiplication by MaxLate: what the proofs use of it.
LEMMA TurnsGrow ==
    /\ Turns(0) = 0
    /\ \A j \in Nat : Turns(j) \in Nat /\ Turns(j + 1) = Turns(j) + MaxLate
    /\ \A i, j \in Nat : i <= j => Turns(i) <= Turns(j)
<1>1. \A j \in Nat : Turns(j) \in Nat
  <2> TAKE j \in Nat
  <2> QED
    BY Z3 DEF Turns
<1>2. \A j \in Nat : Turns(j + 1) = Turns(j) + MaxLate
  BY DEF Turns
<1>3. \A i, j \in Nat : i <= j => Turns(i) <= Turns(j)
  <2> SUFFICES ASSUME NEW i \in Nat, NEW j \in Nat, i <= j PROVE Turns(i) <= Turns(j)
    OBVIOUS
  <2>1. (j - i) * MaxLate \in Nat
    <3>1. j - i \in Nat
      OBVIOUS
    <3> HIDE DEF Turns
    <3>2. Turns(j - i) \in Nat
      BY <1>1, <3>1
    <3> QED
      BY <3>2 DEF Turns
  <2>2. j * MaxLate = i * MaxLate + (j - i) * MaxLate
    OBVIOUS
  <2> QED
    BY <2>1, <2>2 DEF Turns
<1> QED
  BY <1>1, <1>2, <1>3 DEF Turns

\* A task that has nothing to do has not been late.
LEMMA OnTimeStep ==
    ASSUME TypeOK, IdleIsOnTime, [Next]_vars PROVE IdleIsOnTime'
<1>1. CASE SettleLag
  BY <1>1 DEF SettleLag, Settle, IdleIsOnTime
<1>2. CASE Tick
  BY <1>2 DEF Tick, IdleIsOnTime, ActuatorReady, TelemetryReady, TypeOK
<1>3. CASE UNCHANGED vars
  BY <1>3 DEF vars, IdleIsOnTime, ActuatorReady, TelemetryReady
<1> QED
  BY <1>1, <1>2, <1>3 DEF Next, Deliver, SendTrigger, SendBlocks, SendCompletes,
                          AcceptTrigger, RejectTrigger, AssertRelay, EndPulse

\* No step makes a backlog outlast DrainTime.
LEMMA DrainingStep ==
    ASSUME DrainsInTime,
           TypeOK, TypeOK', InterlockTracksPin, IdleIsOnTime, Draining, [Next]_vars
    PROVE  Draining' /\ (AcceptTrigger => NothingLate)
<1>0. /\ age \in Nat /\ age' \in Nat
      /\ lag.actuator \in 0..MaxLate /\ lag'.actuator \in 0..MaxLate
      /\ lag.telemetry \in 0..MaxLate /\ lag'.telemetry \in 0..MaxLate
      /\ channel \in Seq(Level) /\ channel' \in Seq(Level)
      /\ inbox \in Seq(Level) /\ inbox' \in Seq(Level)
      /\ Len(inbox) <= InboxCap /\ Len(inbox') <= InboxCap
      /\ held \in Level \cup {None} /\ held' \in Level \cup {None}
      /\ MaxLate \in Nat /\ InboxCap \in Nat
  BY DEF TypeOK, Command, AgeCap
\* The same without sets or sequences: what the leaves about sums cite.
<1>I. /\ age \in Nat /\ age' \in Nat /\ MaxLate \in Nat /\ InboxCap \in Nat
      /\ lag.actuator \in Int /\ 0 <= lag.actuator /\ lag.actuator <= MaxLate
      /\ lag'.actuator \in Int /\ 0 <= lag'.actuator /\ lag'.actuator <= MaxLate
      /\ lag.telemetry \in Int /\ 0 <= lag.telemetry /\ lag.telemetry <= MaxLate
      /\ lag'.telemetry \in Int /\ 0 <= lag'.telemetry /\ lag'.telemetry <= MaxLate
  BY <1>0
<1>T. /\ \A j \in 1..Len(inbox) : Turns(j) \in Nat
      /\ \A j \in 1..Len(inbox') : /\ Turns(j) \in Nat
                                   /\ Turns(j + 1) = Turns(j) + MaxLate
                                   /\ Turns(j) <= Turns(InboxCap)
      /\ Turns(0) = 0 /\ Turns(1) = MaxLate /\ Turns(InboxCap) \in Nat
  <2>1. Turns(1) = MaxLate
    BY <1>I DEF Turns
  <2>2. \A j \in 1..Len(inbox) \cup 1..Len(inbox') : j \in Nat /\ j <= InboxCap
    BY <1>0
  <2> QED
    BY <1>I, <2>1, <2>2, TurnsGrow
<1>D. DrainTime \in Nat /\ 3 * MaxLate <= DrainTime /\ DrainTime' = DrainTime
  <2>1. DrainTime' = DrainTime
    BY DEF DrainTime, Turns
  <2>2. Turns(InboxCap) \in Nat
    BY <1>T
  <2> QED
    BY <1>I, <2>1, <2>2 DEF DrainTime
\* Left, a term at a time.
<1>P. ASSUME NEW j \in Nat
      PROVE  /\ Left(j) = 2 * Turns(j) + SendTurn + ChannelTurn
                            + MaxLate - lag.actuator - lag.telemetry
             /\ Left(j)' = 2 * Turns(j) + SendTurn' + ChannelTurn'
                             + MaxLate - lag'.actuator - lag'.telemetry
             /\ Turns(j) \in Nat /\ Turns(j + 1) = Turns(j) + MaxLate
  BY TurnsGrow DEF Left, Turns, SendTurn, ChannelTurn
<1>B. /\ SendTurn \in Nat /\ SendTurn <= MaxLate
      /\ SendTurn' \in Nat /\ SendTurn' <= MaxLate
      /\ ChannelTurn \in Nat /\ ChannelTurn <= MaxLate
      /\ ChannelTurn' \in Nat /\ ChannelTurn' <= MaxLate
  BY <1>I DEF SendTurn, ChannelTurn
<1>Z. /\ Left(0) = SendTurn + ChannelTurn
                     + MaxLate - lag.actuator - lag.telemetry
      /\ Left(0)' = SendTurn' + ChannelTurn'
                      + MaxLate - lag'.actuator - lag'.telemetry
  <2>1. Turns(0) = 0
    BY <1>T
  <2>2. /\ Left(0) = 2 * 0 + SendTurn + ChannelTurn
                       + MaxLate - lag.actuator - lag.telemetry
        /\ Left(0)' = 2 * 0 + SendTurn' + ChannelTurn'
                        + MaxLate - lag'.actuator - lag'.telemetry
    BY <2>1, <1>P
  <2> QED
    BY <2>2, <1>B, <1>I
<1>Q. ASSUME NEW j \in 1..Len(inbox') PROVE 2 * Turns(j) + 3 * MaxLate <= DrainTime
  <2>1. Turns(j) <= Turns(InboxCap) /\ Turns(j) \in Nat /\ Turns(InboxCap) \in Nat
    BY <1>T
  <2> QED
    BY <1>I, <2>1 DEF DrainTime
<1>L. pc = "receive" => relay = "low"
  BY DEF InterlockTracksPin
<1>A. pc = "assert" => relay = "low"
  BY DEF InterlockTracksPin
<1> HIDE ActuatorAssumption
<1>N. None \notin Level /\ "high" # None /\ "low" # None
  BY ActuatorAssumption DEF Level
\* By now everything that arrived during the last pulse has been received.
<1>H. ASSUME AcceptTrigger PROVE NothingLate
  <2>1. age > DrainTime
    <3>1. age >= MinGap
      BY <1>H, ActuatorAssumption
      DEF AcceptTrigger, Rejects, Poll, Due, Running, InterlockTracksPin,
          CooldownTracksPause, TypeOK, Deadline, MinGap, AgeCap
    <3> QED
      BY <3>1, <1>I, <1>D, ActuatorAssumption DEF MinGap, DrainsInTime
  <2>2. ~ \E j \in 1..Len(channel) : channel[j] = "high"
    BY <2>1, <1>H, <1>I, <1>D DEF AcceptTrigger, Draining, LateInChannel
  <2>3. held # "high"
    <3>1. held = "high" => age + Left(0) <= DrainTime
      BY <1>H DEF AcceptTrigger, Draining, LateInSend
    <3>2. held = "high" => SendTurn = MaxLate
      BY <1>N DEF SendTurn
    <3>3. ChannelTurn = MaxLate
      BY <1>H DEF AcceptTrigger, ChannelTurn
    <3> QED
      BY <3>1, <3>2, <3>3, <2>1, <1>Z, <1>I, <1>D
  <2>4. ASSUME NEW j \in Nat \ {0} PROVE ~(age + Left(j) <= DrainTime)
    <3>1. Turns(1) <= Turns(j) /\ Turns(1) = MaxLate
      BY <1>T, TurnsGrow
    <3>2. /\ Left(j) = 2 * Turns(j) + SendTurn + ChannelTurn
                         + MaxLate - lag.actuator - lag.telemetry
          /\ Turns(j) \in Nat
      BY <1>P
    <3> QED
      BY <3>1, <3>2, <2>1, <1>I, <1>D, <1>B
  <2>5. ~ \E j \in 1..Len(inbox) : inbox[j] = "high"
    <3> SUFFICES ASSUME NEW j \in 1..Len(inbox), inbox[j] = "high" PROVE FALSE
      OBVIOUS
    <3>1. age + Left(j) <= DrainTime
      BY <1>H DEF AcceptTrigger, Draining, LateInSocket
    <3> QED
      BY <3>1, <2>4
  <2> QED
    BY <2>2, <2>3, <2>5 DEF NothingLate
<1> SUFFICES Draining'
  BY <1>H
<1>1. CASE Deliver
  <2>1. /\ inbox' = Append(inbox, relay)
        /\ UNCHANGED <<relay, pc, channel, held, age, timer>>
        /\ SettleLag
    BY <1>1 DEF Deliver
  <2>2. Len(inbox') = Len(inbox) + 1 /\ inbox' # <<>>
        /\ \A j \in 1..Len(inbox') : inbox'[j] = IF j <= Len(inbox) THEN inbox[j] ELSE relay
    BY <2>1, <1>0, TypeOK DEF TypeOK, Level
  <2>3. lag'.actuator = lag.actuator /\ lag'.telemetry = lag.telemetry
    BY <2>1, <2>2 DEF SettleLag, Settle, IdleIsOnTime, ActuatorReady, TelemetryReady, TypeOK
  <2>4. CASE pc = "receive"
    <3>1. LateInChannel'
      BY <2>1, <2>3, <2>4, <1>I, <1>D DEF Draining, LateInChannel
    <3>2. \A j \in Nat : Left(j)' = Left(j)
      BY <2>1, <2>3 DEF Left, Turns, SendTurn, ChannelTurn
    <3>3. LateInSend'
      BY <2>1, <2>4, <3>2, <1>D DEF Draining, LateInSend
    <3>4. LateInSocket'
      BY <2>1, <2>2, <2>4, <3>2, <1>I, <1>L, <1>D DEF Draining, LateInSocket
    <3> QED
      BY <2>1, <2>4, <3>1, <3>3, <3>4 DEF Draining
  <2>5. CASE pc = "assert"
    BY <2>1, <2>2, <2>5, <1>0, <1>A DEF Draining, NothingLate
  <2> QED
    BY <2>1, <2>4, <2>5 DEF Draining
<1>2. CASE SendTrigger
  <2>1. /\ held = None /\ inbox # <<>>
        /\ channel' = Append(channel, Head(inbox)) /\ inbox' = Tail(inbox)
        /\ UNCHANGED <<relay, pc, held, age, timer>>
        /\ SettleLag
    BY <1>2 DEF SendTrigger
  <2>2. /\ channel' # <<>>
        /\ \A j \in 1..Len(channel') :
              channel'[j] = IF j <= Len(channel) THEN channel[j] ELSE inbox[1]
    BY <2>1, <1>0
  <2>3. /\ 1 \in 1..Len(inbox)
        /\ \A j \in 1..Len(inbox') : j + 1 \in 1..Len(inbox) /\ inbox'[j] = inbox[j + 1]
    BY <2>1, <1>0
  <2>4. CASE pc = "receive"
    <3>0. age' = age
      BY <2>1
    <3>1. lag'.actuator = lag.actuator
      BY <2>1, <2>2, <2>4 DEF SettleLag, Settle, ActuatorReady
    <3>2. inbox[1] = "high" => age + MaxLate - lag.actuator <= DrainTime
      <4>1. inbox[1] = "high" => age + Left(1) <= DrainTime
        BY <2>3, <2>4 DEF Draining, LateInSocket
      <4>2. Left(1) = 2 * MaxLate + SendTurn + ChannelTurn
                        + MaxLate - lag.actuator - lag.telemetry
        <5>1. Turns(1) = MaxLate
          BY <1>T
        <5> QED
          BY <5>1, <1>P
      <4> QED
        BY <4>1, <4>2, <1>I, <1>D, <1>B
    <3>3. LateInChannel'
      BY <2>1, <2>2, <2>4, <3>1, <3>2, <1>I, <1>D DEF Draining, LateInChannel
    <3>4. ASSUME NEW j \in Nat, age + Left(j + 1) <= DrainTime
          PROVE  age' + Left(j)' <= DrainTime
      <4>2. /\ Left(j + 1) = 2 * (Turns(j) + MaxLate) + SendTurn
                                + ChannelTurn
                                + MaxLate - lag.actuator - lag.telemetry
            /\ Left(j)' = 2 * Turns(j) + SendTurn' + ChannelTurn'
                            + MaxLate - lag'.actuator - lag'.telemetry
            /\ Turns(j) \in Nat
        BY <1>P
      <4>3. /\ SendTurn = 0 /\ SendTurn' = 0
            /\ ChannelTurn' = MaxLate
        BY <2>1, <2>2 DEF SendTurn, ChannelTurn
      <4> QED
        BY <3>4, <4>2, <4>3, <3>0, <3>1, <1>I, <1>D, <1>B
    <3>5. LateInSocket'
      BY <2>1, <2>3, <2>4, <3>4, <1>0, <1>D DEF Draining, LateInSocket
    <3> QED
      BY <2>1, <2>4, <3>3, <3>5, <1>N DEF Draining, LateInSend
  <2>5. CASE pc = "assert"
    BY <2>1, <2>2, <2>3, <2>5 DEF Draining, NothingLate
  <2> QED
    BY <2>1, <2>4, <2>5 DEF Draining
<1>3. CASE SendBlocks
  <2>1. /\ held = None /\ inbox # <<>> /\ Len(channel) = Capacity
        /\ held' = Head(inbox) /\ inbox' = Tail(inbox)
        /\ UNCHANGED <<relay, pc, channel, age, timer>>
        /\ SettleLag
    BY <1>3 DEF SendBlocks
  <2>2. channel # <<>> /\ held' = inbox[1] /\ held' # None
    BY <2>1, <1>0, <1>N, ActuatorAssumption
  <2>3. /\ 1 \in 1..Len(inbox)
        /\ \A j \in 1..Len(inbox') : j + 1 \in 1..Len(inbox) /\ inbox'[j] = inbox[j + 1]
    BY <2>1, <1>0
  <2>4. CASE pc = "receive"
    <3>0. /\ age' = age
          /\ SendTurn = 0 /\ SendTurn' = MaxLate
          /\ ChannelTurn = MaxLate /\ ChannelTurn' = MaxLate
      BY <2>1, <2>2 DEF SendTurn, ChannelTurn
    <3>1. lag'.actuator = lag.actuator
      BY <2>1, <2>2, <2>4 DEF SettleLag, Settle, ActuatorReady
    <3>2. lag'.telemetry = 0
      BY <2>1, <2>2, ActuatorAssumption DEF SettleLag, Settle, TelemetryReady
    <3>3. LateInChannel'
      BY <2>1, <2>4, <3>1, <1>I, <1>D DEF Draining, LateInChannel
    <3>4. LateInSend'
      <4> SUFFICES ASSUME inbox[1] = "high" PROVE age' + Left(0)' <= DrainTime
        BY <2>2, <1>I, <1>D DEF LateInSend
      <4>1. age + Left(1) <= DrainTime
        BY <2>3, <2>4 DEF Draining, LateInSocket
      <4>2. /\ Left(1) = 2 * MaxLate + SendTurn + ChannelTurn
                           + MaxLate - lag.actuator - lag.telemetry
            /\ Left(0)' = SendTurn' + ChannelTurn'
                            + MaxLate - lag'.actuator - lag'.telemetry
        <5>1. Turns(1) = MaxLate
          BY <1>T
        <5> QED
          BY <5>1, <1>P, <1>Z
      <4> QED
        BY <4>1, <4>2, <3>0, <3>1, <3>2, <1>I, <1>D
    <3>5. ASSUME NEW j \in Nat, age + Left(j + 1) <= DrainTime
          PROVE  age' + Left(j)' <= DrainTime
      <4>2. /\ Left(j + 1) = 2 * (Turns(j) + MaxLate) + SendTurn
                                + ChannelTurn
                                + MaxLate - lag.actuator - lag.telemetry
            /\ Left(j)' = 2 * Turns(j) + SendTurn' + ChannelTurn'
                            + MaxLate - lag'.actuator - lag'.telemetry
            /\ Turns(j) \in Nat
        BY <1>P
      <4> QED
        BY <3>5, <4>2, <3>0, <3>1, <3>2, <1>I, <1>D
    <3>6. LateInSocket'
      BY <2>1, <2>3, <2>4, <3>5, <1>0, <1>D DEF Draining, LateInSocket
    <3> QED
      BY <2>1, <2>4, <3>3, <3>4, <3>6 DEF Draining
  <2>5. CASE pc = "assert"
    BY <2>1, <2>2, <2>3, <2>5 DEF Draining, NothingLate
  <2> QED
    BY <2>1, <2>4, <2>5 DEF Draining
<1>4. CASE SendCompletes
  <2>1. /\ held # None
        /\ channel' = Append(channel, held) /\ held' = None
        /\ UNCHANGED <<relay, pc, inbox, age, timer>>
        /\ SettleLag
    BY <1>4 DEF SendCompletes
  <2>2. /\ channel' # <<>>
        /\ \A j \in 1..Len(channel') :
              channel'[j] = IF j <= Len(channel) THEN channel[j] ELSE held
    BY <2>1, <1>0
  <2>3. CASE pc = "receive"
    <3>1. lag'.actuator = lag.actuator
      BY <2>1, <2>2, <2>3 DEF SettleLag, Settle, ActuatorReady
    <3>2. held = "high" => age + MaxLate - lag.actuator <= DrainTime
      <4>1. held = "high" => age + Left(0) <= DrainTime
        BY <2>3 DEF Draining, LateInSend
      <4>2. SendTurn = MaxLate
        BY <2>1 DEF SendTurn, ChannelTurn
      <4> QED
        BY <4>1, <4>2, <1>Z, <1>I, <1>D, <1>B
    <3>3. LateInChannel'
      BY <2>1, <2>2, <2>3, <3>1, <3>2, <1>I, <1>D DEF Draining, LateInChannel
    <3>4. ASSUME NEW j \in Nat, inbox # <<>>, age + Left(j) <= DrainTime
          PROVE  age' + Left(j)' <= DrainTime
      <4>1. /\ Left(j) = 2 * Turns(j) + SendTurn + ChannelTurn
                           + MaxLate - lag.actuator - lag.telemetry
            /\ Left(j)' = 2 * Turns(j) + SendTurn' + ChannelTurn'
                            + MaxLate - lag'.actuator - lag'.telemetry
            /\ Turns(j) \in Nat
        BY <1>P
      <4>2. lag'.telemetry = lag.telemetry
        BY <3>4, <2>1 DEF SettleLag, Settle, TelemetryReady
      <4>3. /\ age' = age
            /\ SendTurn = MaxLate /\ SendTurn' = 0
            /\ ChannelTurn' = MaxLate
        BY <2>1, <2>2 DEF SendTurn, ChannelTurn
      <4>4. age + Left(j) <= DrainTime
        BY <3>4
      <4> QED
        BY <4>1, <4>2, <4>3, <4>4, <3>1, <1>I, <1>D, <1>B
    <3>5. LateInSocket'
      <4>1. \A j \in 1..Len(inbox) : inbox # <<>>
        BY <1>0
      <4> QED
        BY <2>1, <2>3, <3>4, <4>1, <1>0, <1>D DEF Draining, LateInSocket
    <3> QED
      BY <2>1, <2>3, <3>3, <3>5, <1>N DEF Draining, LateInSend
  <2>4. CASE pc = "assert"
    BY <2>1, <2>2, <2>4, <1>N DEF Draining, NothingLate
  <2> QED
    BY <2>1, <2>3, <2>4 DEF Draining
<1>5. CASE AcceptTrigger
  <2>1. /\ channel # <<>> /\ channel' = Tail(channel)
        /\ UNCHANGED <<held, inbox>> /\ pc' = "assert"
    BY <1>5 DEF AcceptTrigger
  <2>2. \A j \in 1..Len(channel') : j + 1 \in 1..Len(channel) /\ channel'[j] = channel[j + 1]
    BY <2>1, <1>0
  <2> QED
    BY <1>5, <1>H, <2>1, <2>2 DEF Draining, NothingLate
<1>6. CASE RejectTrigger
  <2>1. /\ pc = "receive" /\ channel # <<>> /\ channel' = Tail(channel)
        /\ UNCHANGED <<age, pc, timer, held, inbox>>
        /\ SettleLag
    BY <1>6 DEF RejectTrigger, PollAtReceive, Due, InterlockTracksPin
  <2>2. \A j \in 1..Len(channel') : j + 1 \in 1..Len(channel) /\ channel'[j] = channel[j + 1]
    BY <2>1, <1>0
  <2>3. IF channel' = <<>> THEN lag'.actuator = 0 ELSE lag'.actuator = lag.actuator
    BY <2>1 DEF SettleLag, Settle, ActuatorReady
  <2>4. TelemetryReady(held, inbox, channel) => lag'.telemetry = lag.telemetry
    <3>1. Len(channel') < Len(channel)
      BY <2>1, <1>0
    <3> QED
      BY <3>1, <2>1, <1>0, ActuatorAssumption DEF TypeOK, SettleLag, Settle, TelemetryReady
  <2>5. lag'.telemetry >= lag.telemetry
    BY <2>4, <1>0 DEF IdleIsOnTime
  <2>6. LateInChannel'
    <3> SUFFICES ASSUME NEW j \in 1..Len(channel'), channel'[j] = "high"
                 PROVE  age' + MaxLate - lag'.actuator <= DrainTime
      BY <1>D DEF LateInChannel
    <3>1. age + MaxLate - lag.actuator <= DrainTime
      BY <2>1, <2>2 DEF Draining, LateInChannel
    <3>2. channel' # <<>>
      OBVIOUS
    <3>3. lag'.actuator = lag.actuator /\ age' = age
      BY <2>1, <2>3, <3>2
    <3> QED
      BY <3>1, <3>3
  <2>7. ASSUME NEW j \in Nat, age + Left(j) <= DrainTime
        PROVE  age' + Left(j)' <= DrainTime
    <3>1. /\ Left(j) = 2 * Turns(j) + SendTurn + ChannelTurn
                          + MaxLate - lag.actuator - lag.telemetry
          /\ Left(j)' = 2 * Turns(j) + SendTurn' + ChannelTurn'
                          + MaxLate - lag'.actuator - lag'.telemetry
          /\ Turns(j) \in Nat
      BY <1>P
    <3>2. age' = age /\ SendTurn' = SendTurn
      BY <2>1 DEF SendTurn
    <3>3. /\ ChannelTurn = MaxLate
          /\ \/ lag'.actuator = lag.actuator /\ ChannelTurn' = MaxLate
             \/ lag'.actuator = 0 /\ ChannelTurn' = 0
      BY <2>1, <2>3 DEF SendTurn, ChannelTurn
    <3> QED
      BY <3>1, <3>2, <3>3, <2>5, <2>7, <1>I, <1>D, <1>B
  <2>8. LateInSend'
    BY <2>1, <2>7, <1>D DEF Draining, LateInSend
  <2>9. LateInSocket'
    BY <2>1, <2>7, <1>I, <1>D DEF Draining, LateInSocket
  <2> QED
    BY <2>1, <2>6, <2>8, <2>9 DEF Draining
<1>7. CASE AssertRelay
  BY <1>7 DEF AssertRelay, Draining
<1>8. CASE EndPulse
  <2>1. pc' = "receive" /\ age' = 0
    BY <1>8 DEF EndPulse
  <2>2. LateInChannel'
    BY <2>1, <1>I, <1>D DEF LateInChannel
  <2>3. LateInSend'
    <3>1. age' + Left(0)' <= DrainTime
      BY <2>1, <1>Z, <1>I, <1>D, <1>B
    <3> QED
      BY <3>1, <1>D DEF LateInSend
  <2>4. ASSUME NEW j \in Nat, 2 * Turns(j) + 3 * MaxLate <= DrainTime
        PROVE  age' + Left(j)' <= DrainTime
    <3>1. /\ Left(j)' = 2 * Turns(j) + SendTurn' + ChannelTurn'
                          + MaxLate - lag'.actuator - lag'.telemetry
          /\ Turns(j) \in Nat
      BY <1>P
    <3> QED
      BY <2>1, <2>4, <3>1, <1>I, <1>D, <1>B
  <2>5. LateInSocket'
    BY <2>4, <1>0, <1>D, <1>Q DEF LateInSocket
  <2> QED
    BY <2>1, <2>2, <2>3, <2>5 DEF Draining
<1>9. CASE Tick
  <2>1. /\ UNCHANGED <<relay, pc, channel, held, inbox>> /\ age' <= age + 1
        /\ lag'.actuator = IF ActuatorReady(pc, timer, channel) THEN lag.actuator + 1 ELSE 0
        /\ lag'.telemetry = IF TelemetryReady(held, inbox, channel)
                              THEN lag.telemetry + 1 ELSE 0
    BY <1>9, <1>0 DEF Tick
  <2>2. CASE pc = "receive"
    <3>1. channel # <<>> => lag'.actuator = lag.actuator + 1
      BY <2>1, <2>2 DEF ActuatorReady
    <3>2. LateInChannel'
      <4> SUFFICES ASSUME NEW j \in 1..Len(channel), channel[j] = "high"
                   PROVE  age' + MaxLate - lag'.actuator <= DrainTime
        BY <2>1, <1>D DEF LateInChannel
      <4>1. age + MaxLate - lag.actuator <= DrainTime
        BY <2>2 DEF Draining, LateInChannel
      <4>2. lag'.actuator = lag.actuator + 1 /\ age' <= age + 1
        <5>1. channel # <<>>
          BY <1>0
        <5> QED
          BY <5>1, <2>1, <3>1
      <4> QED
        BY <4>1, <4>2, <1>I, <1>D
    \* While anything waits one of the two tasks is ready, and gets later.
    <3>3. held # None \/ inbox # <<>> =>
            lag'.actuator + lag'.telemetry > lag.actuator + lag.telemetry
      <4>1. Len(<<>>) = 0
        OBVIOUS
      <4> QED
        BY <2>1, <2>2, <4>1, <1>0, ActuatorAssumption DEF ActuatorReady, TelemetryReady, IdleIsOnTime
    <3>4. ASSUME NEW j \in Nat, held # None \/ inbox # <<>>,
                 age + Left(j) <= DrainTime
          PROVE  age' + Left(j)' <= DrainTime
      <4>1. /\ Left(j) = 2 * Turns(j) + SendTurn + ChannelTurn
                            + MaxLate - lag.actuator - lag.telemetry
            /\ Left(j)' = 2 * Turns(j) + SendTurn' + ChannelTurn'
                            + MaxLate - lag'.actuator - lag'.telemetry
            /\ Turns(j) \in Nat
        BY <1>P
      <4>2. SendTurn' = SendTurn /\ ChannelTurn' = ChannelTurn
        BY <2>1 DEF SendTurn, ChannelTurn
      <4>3. /\ age' <= age + 1
            /\ lag'.actuator + lag'.telemetry > lag.actuator + lag.telemetry
            /\ age + Left(j) <= DrainTime
        BY <2>1, <3>3, <3>4
      <4> QED
        BY <4>1, <4>2, <4>3, <1>I, <1>D, <1>B
    <3>5. LateInSend'
      BY <2>1, <2>2, <3>4, <1>N, <1>D DEF Draining, LateInSend
    <3>6. LateInSocket'
      <4>1. \A j \in 1..Len(inbox) : inbox # <<>>
        BY <1>0
      <4> QED
        BY <2>1, <2>2, <3>4, <4>1, <1>I, <1>D DEF Draining, LateInSocket
    <3> QED
      BY <2>1, <2>2, <3>2, <3>5, <3>6 DEF Draining
  <2>3. CASE pc # "receive"
    BY <2>1, <2>3 DEF Draining, NothingLate
  <2> QED
    BY <2>2, <2>3
<1>10. CASE UNCHANGED vars
  BY <1>10 DEF vars, Draining, LateInChannel, LateInSend, LateInSocket, NothingLate,
               Left, DrainTime, Turns, SendTurn, ChannelTurn
<1> QED
  BY <1>1, <1>2, <1>3, <1>4, <1>5, <1>6, <1>7, <1>8, <1>9, <1>10 DEF Next

\* A trigger that reached the device while the relay was high never starts
\* another pulse, however full the channel was and however long the sender was
\* blocked, when a full socket drains within the cooldown: every message costs
\* each of the two tasks one turn of at most MaxLate, and the interlock counts
\* the cooldown from up to 2 * MaxLate before the falling edge.
THEOREM BurstsGiveOnePulse ==
    ASSUME (2 * InboxCap + 5) * MaxLate < RELAY_COOLDOWN_MS
    PROVE  Spec => BurstIsOnePulse
<1>1. DrainsInTime
  <2>1. (2 * InboxCap + 5) * MaxLate = 2 * (InboxCap * MaxLate) + 5 * MaxLate
    OBVIOUS
  <2>2. InboxCap * MaxLate \in Nat
    BY TurnsGrow DEF Turns
  <2> QED
    BY <2>1, <2>2 DEF DrainsInTime, DrainTime, Turns
<1>2. Init => IdleIsOnTime /\ Draining
  BY DEF Init, IdleIsOnTime, Draining, LateInChannel, LateInSend, LateInSocket
<1>3. /\ TypeOK /\ TypeOK' /\ InterlockTracksPin
      /\ IdleIsOnTime /\ Draining /\ [Next]_vars
      => (IdleIsOnTime /\ Draining)'
  BY <1>1, OnTimeStep, DrainingStep
\* NothingLate speaks of every place of the channel, its head included.
<1>4. /\ TypeOK /\ TypeOK' /\ InterlockTracksPin
      /\ IdleIsOnTime /\ Draining /\ [Next]_vars
      => [AcceptTrigger => Head(channel) = "low"]_vars
  <2> SUFFICES ASSUME TypeOK, TypeOK', InterlockTracksPin, IdleIsOnTime, Draining,
                      [Next]_vars, AcceptTrigger
               PROVE  Head(channel) = "low"
    OBVIOUS
  <2>1. NothingLate
    BY <1>1, DrainingStep
  <2>2. channel \in Seq(Level) /\ channel # <<>>
    BY DEF AcceptTrigger, TypeOK, Command
  <2>3. 1 \in 1..Len(channel) /\ channel[1] \in Level /\ Head(channel) = channel[1]
    BY <2>2
  <2> QED
    BY <2>1, <2>3 DEF NothingLate, Level
<1> QED
  BY <1>2, <1>3, <1>4, TypeCorrect, InterlockCorrect, PTL DEF Spec, BurstIsOnePulse

=============================================================================
