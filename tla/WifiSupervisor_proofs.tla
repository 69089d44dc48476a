------------------------ MODULE WifiSupervisor_proofs ------------------------
(***************************************************************************)
(* For every timeout, backoff and threshold: resets are rare, rejoin       *)
(* requests never end more associations than MQTT failures pay for, and an *)
(* outage that begins with the loss of the link ends in bounded time.      *)
(***************************************************************************)
EXTENDS WifiSupervisor, TLAPS

\* The parameters and the caps, one by one.
LEMMA Parameters ==
    /\ JOIN_TIMEOUT_MS \in Nat /\ DHCP_TIMEOUT_MS \in Nat /\ LEAVE_TIMEOUT_MS \in Nat
    /\ DHCP_ATTEMPTS \in Nat /\ DHCP_ATTEMPTS >= 1
    /\ INITIAL_BACKOFF_MS \in Nat /\ MAX_BACKOFF_MS \in Nat
    /\ INITIAL_BACKOFF_MS >= 1 /\ INITIAL_BACKOFF_MS <= MAX_BACKOFF_MS
    /\ MQTT_REJOIN_FAILURES \in Nat /\ MQTT_REJOIN_FAILURES >= 1
    /\ NO_IP_REBOOT_MS \in Nat /\ NO_IP_REBOOT_MS >= 1
    /\ Cycle \in Nat /\ OutageCap \in Nat /\ CreditCap \in Nat
<1>1. /\ JOIN_TIMEOUT_MS \in Nat /\ DHCP_TIMEOUT_MS \in Nat /\ LEAVE_TIMEOUT_MS \in Nat
      /\ DHCP_ATTEMPTS \in Nat /\ DHCP_ATTEMPTS >= 1
      /\ INITIAL_BACKOFF_MS \in Nat /\ MAX_BACKOFF_MS \in Nat
      /\ INITIAL_BACKOFF_MS >= 1 /\ INITIAL_BACKOFF_MS <= MAX_BACKOFF_MS
      /\ MQTT_REJOIN_FAILURES \in Nat /\ MQTT_REJOIN_FAILURES >= 1
      /\ NO_IP_REBOOT_MS \in Nat /\ NO_IP_REBOOT_MS >= 1
  BY WifiAssumption
<1>2. DHCP_ATTEMPTS * DHCP_TIMEOUT_MS \in Nat
  BY <1>1
<1> QED
  BY <1>1, <1>2 DEF Cycle, OutageCap, CreditCap

\* Type correctness: the clocks and counters stay within their caps, no more
\* DHCP windows are used than there are, and the backoff stays in its range.
THEOREM TypeCorrect == Spec => []TypeOK
<1> USE Parameters DEF TypeOK
<1>0. /\ BootState.pc = "joining" /\ BootState.timer = JOIN_TIMEOUT_MS
      /\ BootState.attempts = 0 /\ BootState.backoff = INITIAL_BACKOFF_MS
      /\ BootState.mqtt = "wait_config"
  BY DEF BootState
<1>1. Init => TypeOK
  <2> SUFFICES ASSUME Init PROVE TypeOK
    OBVIOUS
  <2>1. rejoin \in BOOLEAN /\ link \in BOOLEAN /\ lease \in BOOLEAN /\ lapsed \in BOOLEAN
    BY DEF Init
  <2>2. /\ timer \in Nat /\ attempts \in 0..DHCP_ATTEMPTS
        /\ backoff \in INITIAL_BACKOFF_MS..MAX_BACKOFF_MS
        /\ noIp \in 0..NO_IP_REBOOT_MS /\ uptime \in 0..NO_IP_REBOOT_MS
        /\ failures \in 0..(MQTT_REJOIN_FAILURES - 1)
        /\ outage \in 0..OutageCap /\ credit \in 0..CreditCap
    BY <1>0 DEF Init
  <2> QED
    BY <1>0, <2>1, <2>2 DEF Init
<1>2. TypeOK /\ [Next]_vars => TypeOK'
  <2> SUFFICES ASSUME TypeOK, [Next]_vars PROVE TypeOK'
    OBVIOUS
  <2>1. CASE JoinSucceeds \/ JoinFails \/ DhcpTimesOut
    BY <2>1 DEF JoinSucceeds, JoinFails, DhcpTimesOut, Await, telemetry, radio, clocks
  <2>2. CASE LeaseFound \/ LinkLost \/ StartLeave
    BY <2>2 DEF LeaseFound, LinkLost, StartLeave, Await, telemetry, radio, clocks
  <2>3. CASE RejoinHeard
    <3>1. credit' \in 0..CreditCap
      BY <2>3 DEF RejoinHeard
    <3> QED
      BY <2>3, <3>1 DEF RejoinHeard, Await, telemetry, radio, clocks
  <2>4. CASE Reboot
    <3>1. rejoin' \in BOOLEAN /\ link' \in BOOLEAN /\ lease' \in BOOLEAN /\ lapsed' \in BOOLEAN
      BY <2>4 DEF Reboot
    <3>2. /\ timer' \in Nat /\ attempts' \in 0..DHCP_ATTEMPTS
          /\ backoff' \in INITIAL_BACKOFF_MS..MAX_BACKOFF_MS
          /\ noIp' \in 0..NO_IP_REBOOT_MS /\ uptime' \in 0..NO_IP_REBOOT_MS
          /\ failures' \in 0..(MQTT_REJOIN_FAILURES - 1)
          /\ outage' \in 0..OutageCap /\ credit' \in 0..CreditCap
      BY <1>0, <2>4 DEF Reboot, Await
    <3> QED
      BY <1>0, <2>4, <3>1, <3>2 DEF Reboot, Await
  <2>5. CASE Leaves
    <3>1. link' \in BOOLEAN /\ lease' \in BOOLEAN
      BY <2>5 DEF Leaves, radio
    <3> QED
      BY <2>5, <3>1 DEF Leaves, Await, telemetry, clocks
  <2>6. CASE BackoffEnds
    <3>1. backoff' \in INITIAL_BACKOFF_MS..MAX_BACKOFF_MS
      BY <2>6 DEF BackoffEnds
    <3> QED
      BY <2>6, <3>1 DEF BackoffEnds, Await, telemetry, radio, clocks
  <2>7. CASE StartConnect \/ ConnectSucceeds \/ MqttBackoffEnds
    BY <2>7 DEF StartConnect, ConnectSucceeds, MqttBackoffEnds, supervisor, radio, clocks
  <2>8. CASE MqttFails
    <3>1. credit' \in 0..CreditCap /\ failures' \in 0..(MQTT_REJOIN_FAILURES - 1)
      BY <2>8 DEF MqttFails, UpTo
    <3> QED
      BY <2>8, <3>1 DEF MqttFails, supervisor, radio, clocks
  <2>9. CASE EnvironmentStep
    <3>1. /\ link' \in BOOLEAN /\ lease' \in BOOLEAN /\ lapsed' \in BOOLEAN
          /\ net' \in {"ok", "dead", "down"}
      BY <2>9 DEF EnvironmentStep, LinkComesUp, LinkDrops, LeaseGranted,
           LeaseExpires, NetChanges, radio, clocks
    <3>2. outage' \in 0..OutageCap
      BY <2>9 DEF EnvironmentStep, LinkComesUp, LinkDrops, LeaseGranted,
           LeaseExpires, NetChanges, clocks
    <3> QED
      BY <2>9, <3>1, <3>2 DEF EnvironmentStep, LinkComesUp, LinkDrops, LeaseGranted,
           LeaseExpires, NetChanges, supervisor, telemetry, clocks
  <2>10. CASE Tick
    <3>1. /\ timer' \in Nat /\ noIp' \in 0..NO_IP_REBOOT_MS
          /\ uptime' \in 0..NO_IP_REBOOT_MS /\ outage' \in 0..OutageCap
      BY <2>10 DEF Tick, UpTo
    <3> QED
      BY <2>10, <3>1 DEF Tick, telemetry, radio
  <2>11. CASE UNCHANGED vars
    BY <2>11 DEF vars, supervisor, telemetry, radio, clocks
  <2> QED
    BY <2>1, <2>2, <2>3, <2>4, <2>5, <2>6, <2>7, <2>8, <2>9, <2>10, <2>11
       DEF Next, SupervisorStep, TelemetryStep
<1> QED
  BY <1>1, <1>2, PTL DEF Spec

\* The watchdog's clock starts at boot and is only ever set back, so a reset by
\* reboot_due is at least NO_IP_REBOOT_MS after the one before.
THEOREM RareResets == Spec => ResetsAreRare
<1> DEFINE Inv == noIp <= uptime
<1>1. Init => Inv
  BY DEF Init
<1>2. TypeOK /\ Inv /\ [Next]_vars => Inv'
  <2> SUFFICES ASSUME TypeOK, Inv, [Next]_vars PROVE Inv'
    OBVIOUS
  <2>1. CASE SupervisorStep
    BY <2>1 DEF SupervisorStep, JoinSucceeds, JoinFails, LeaseFound, DhcpTimesOut,
         RejoinHeard, LinkLost, StartLeave, Reboot, Leaves, BackoffEnds, clocks,
         TypeOK
  <2>2. CASE TelemetryStep
    BY <2>2 DEF TelemetryStep, StartConnect, ConnectSucceeds, MqttFails,
         MqttBackoffEnds, clocks
  <2>3. CASE EnvironmentStep
    BY <2>3 DEF EnvironmentStep, LinkComesUp, LinkDrops, LeaseGranted,
         LeaseExpires, NetChanges, clocks
  <2>4. CASE Tick
    BY <2>4 DEF Tick, UpTo, TypeOK
  <2>5. CASE UNCHANGED vars
    BY <2>5 DEF vars, clocks
  <2> QED
    BY <2>1, <2>2, <2>3, <2>4, <2>5 DEF Next
<1>3. TypeOK /\ Inv => [Reboot => uptime >= NO_IP_REBOOT_MS]_vars
  BY Parameters DEF TypeOK, Reboot, RebootDue
<1> QED
  BY <1>1, <1>2, <1>3, TypeCorrect, PTL DEF Spec, ResetsAreRare

\* A latched request is worth MQTT_REJOIN_FAILURES failures on top of those
\* the counter has seen since it last tripped.
THEOREM EarnedRejoins == Spec => RejoinsAreEarned
<1> DEFINE Inv == /\ credit >= failures
                  /\ rejoin => credit >= failures + MQTT_REJOIN_FAILURES
<1>1. Init => Inv
  BY DEF Init
<1>2. TypeOK /\ Inv /\ [Next]_vars => Inv'
  <2> SUFFICES ASSUME TypeOK, Inv, [Next]_vars PROVE Inv'
    OBVIOUS
  <2> USE Parameters DEF TypeOK, CreditCap
  <2>1. CASE SupervisorStep
    <3>1. CASE RejoinHeard
      BY <3>1 DEF RejoinHeard, telemetry
    <3>2. CASE Reboot
      BY <3>2 DEF Reboot
    <3>3. CASE ~RejoinHeard /\ ~Reboot
      BY <2>1, <3>3 DEF SupervisorStep, JoinSucceeds, JoinFails, LeaseFound,
           DhcpTimesOut, LinkLost, StartLeave, Leaves, BackoffEnds, telemetry
    <3> QED
      BY <3>1, <3>2, <3>3
  <2>2. CASE TelemetryStep
    <3>1. CASE MqttFails
      BY <3>1 DEF MqttFails, UpTo
    <3>2. CASE ~MqttFails
      BY <2>2, <3>2 DEF TelemetryStep, StartConnect, ConnectSucceeds,
           MqttBackoffEnds
    <3> QED
      BY <3>1, <3>2
  <2>3. CASE EnvironmentStep
    BY <2>3 DEF EnvironmentStep, LinkComesUp, LinkDrops, LeaseGranted,
         LeaseExpires, NetChanges, telemetry
  <2>4. CASE Tick
    BY <2>4 DEF Tick, telemetry
  <2>5. CASE UNCHANGED vars
    BY <2>5 DEF vars, telemetry
  <2> QED
    BY <2>1, <2>2, <2>3, <2>4, <2>5 DEF Next
<1>3. TypeOK /\ Inv => [RejoinHeard => credit >= MQTT_REJOIN_FAILURES]_vars
  BY Parameters DEF TypeOK, CreditCap, RejoinHeard
<1> QED
  BY <1>1, <1>2, <1>3, TypeCorrect, PTL DEF Spec, RejoinsAreEarned

------------------------------------------------------------------------------
\* What the DHCP windows that are left take, once n of them have been opened.
WindowsLeft(n) == (DHCP_ATTEMPTS - n) * DHCP_TIMEOUT_MS

\* The longest the supervisor can still be away from its reboot check.
Away ==
    CASE pc = "leaving" -> timer + MAX_BACKOFF_MS + JOIN_TIMEOUT_MS + WindowsLeft(0)
      [] pc = "backoff" -> timer + JOIN_TIMEOUT_MS + WindowsLeft(0)
      [] pc = "joining" -> timer + WindowsLeft(0)
      [] pc = "dhcp"    -> timer + WindowsLeft(attempts)
      [] OTHER          -> 0

\* No timer exceeds what it was set to.
TimersBounded ==
    /\ pc = "joining" => timer <= JOIN_TIMEOUT_MS
    /\ pc = "dhcp" => timer <= DHCP_TIMEOUT_MS /\ attempts >= 1
    /\ pc = "leaving" => timer <= LEAVE_TIMEOUT_MS
    /\ pc = "backoff" => timer <= MAX_BACKOFF_MS

\* The watchdog's clock is at least as far as the outage; an outage leaves the
\* supervisor the time it may be away, of a cycle that it began in time; and
\* once online it does not go on without its lease, unless that has run out.
OutageCovered ==
    /\ lease => outage = 0
    /\ outage <= noIp \/ noIp = NO_IP_REBOOT_MS
    /\ ~lapsed => outage + Away < NO_IP_REBOOT_MS + Cycle
    /\ ~lapsed /\ pc = "online" => outage = 0 /\ (link => lease)

\* What is used of the products of attempts and windows.
LEMMA Windows ==
    /\ WindowsLeft(0) \in Nat /\ DHCP_TIMEOUT_MS <= WindowsLeft(0)
    /\ Cycle = LEAVE_TIMEOUT_MS + MAX_BACKOFF_MS + JOIN_TIMEOUT_MS + WindowsLeft(0)
    /\ \A n \in 0..DHCP_ATTEMPTS : WindowsLeft(n) \in Nat
    /\ \A n \in 0..(DHCP_ATTEMPTS - 1) :
         DHCP_TIMEOUT_MS + WindowsLeft(n + 1) = WindowsLeft(n)
<1>1. \A n \in 0..DHCP_ATTEMPTS : WindowsLeft(n) \in Nat
  BY Parameters DEF WindowsLeft
<1>2. \A n \in 0..(DHCP_ATTEMPTS - 1) :
        DHCP_TIMEOUT_MS + WindowsLeft(n + 1) = WindowsLeft(n)
  BY Parameters DEF WindowsLeft
<1>3. DHCP_TIMEOUT_MS + WindowsLeft(1) = WindowsLeft(0) /\ WindowsLeft(1) \in Nat
  BY <1>1, <1>2, Parameters
<1>4. Cycle = LEAVE_TIMEOUT_MS + MAX_BACKOFF_MS + JOIN_TIMEOUT_MS + WindowsLeft(0)
  BY Parameters DEF Cycle, WindowsLeft
<1> QED
  BY <1>1, <1>2, <1>3, <1>4, Parameters

\* The time away is at most a cycle, at every await point.
LEMMA AwayBounded == TypeOK /\ TimersBounded => Away \in 0..Cycle
<1> SUFFICES ASSUME TypeOK, TimersBounded PROVE Away \in 0..Cycle
  OBVIOUS
<1>1. attempts >= 1 => WindowsLeft(attempts) + DHCP_TIMEOUT_MS <= WindowsLeft(0)
  BY Parameters DEF TypeOK, WindowsLeft
<1> QED
  BY <1>1, Windows, Parameters DEF TypeOK, TimersBounded, Away

LEMMA TimersInit == Init => TimersBounded
  BY Parameters DEF Init, BootState, TimersBounded

LEMMA TimersNext == TypeOK /\ TimersBounded /\ [Next]_vars => TimersBounded'
<1> SUFFICES ASSUME TypeOK, TimersBounded, [Next]_vars PROVE TimersBounded'
  OBVIOUS
<1> USE Parameters DEF TypeOK, TimersBounded
<1>1. CASE JoinSucceeds \/ JoinFails \/ LeaseFound \/ DhcpTimesOut \/ RejoinHeard
  BY <1>1 DEF JoinSucceeds, JoinFails, LeaseFound, DhcpTimesOut, RejoinHeard, Await
<1>2. CASE LinkLost \/ StartLeave \/ Leaves \/ BackoffEnds
  BY <1>2 DEF LinkLost, StartLeave, Leaves, BackoffEnds, Await
<1>3. CASE Reboot
  BY <1>3 DEF Reboot, Await, BootState
<1>4. CASE TelemetryStep \/ EnvironmentStep
  BY <1>4 DEF TelemetryStep, StartConnect, ConnectSucceeds, MqttFails,
       MqttBackoffEnds, EnvironmentStep, LinkComesUp, LinkDrops, LeaseGranted,
       LeaseExpires, NetChanges, supervisor
<1>5. CASE Tick
  BY <1>5 DEF Tick
<1>6. CASE UNCHANGED vars
  BY <1>6 DEF vars, supervisor
<1> QED
  BY <1>1, <1>2, <1>3, <1>4, <1>5, <1>6 DEF Next, SupervisorStep

LEMMA CoveredInit == Init => OutageCovered
<1> SUFFICES ASSUME Init PROVE OutageCovered
  OBVIOUS
<1>1. pc = "joining" /\ timer = JOIN_TIMEOUT_MS /\ outage = 0 /\ noIp = 0 /\ ~lease
  BY DEF Init, BootState
<1>2. Away = JOIN_TIMEOUT_MS + WindowsLeft(0)
  BY <1>1 DEF Away
<1> QED
  BY <1>1, <1>2, Windows, Parameters DEF OutageCovered

\* A supervisor that comes to its check has only come nearer to it.
LEMMA ToVerdict ==
    ASSUME TypeOK, TimersBounded, OutageCovered,
           pc' = "verdict", UNCHANGED <<lease, outage, noIp, lapsed>>
    PROVE  OutageCovered'
  BY AwayBounded, Windows, Parameters DEF TypeOK, OutageCovered, Away

LEMMA CoveredNext ==
    TypeOK /\ TimersBounded /\ OutageCovered /\ [Next]_vars => OutageCovered'
<1> SUFFICES ASSUME TypeOK, TimersBounded, OutageCovered, [Next]_vars
             PROVE  OutageCovered'
  OBVIOUS
<1> USE Parameters, Windows, AwayBounded DEF TypeOK, OutageCovered
<1>1. CASE JoinSucceeds
  <2>1. /\ pc = "joining" /\ pc' = "dhcp" /\ timer' = DHCP_TIMEOUT_MS /\ attempts' = 1
        /\ UNCHANGED <<lease, link, outage, noIp, lapsed>>
    BY <1>1 DEF JoinSucceeds, Await, radio, clocks
  <2>2. Away' = WindowsLeft(0) /\ Away = timer + WindowsLeft(0)
    BY <2>1 DEF Away
  <2> QED
    BY <2>1, <2>2
<1>2. CASE JoinFails
  BY <1>2, ToVerdict DEF JoinFails, Await, radio, clocks
<1>3. CASE LeaseFound
  BY <1>3 DEF LeaseFound, Await, radio, Away
<1>4. CASE DhcpTimesOut
  <2>1. CASE attempts >= DHCP_ATTEMPTS
    BY <1>4, <2>1, ToVerdict DEF DhcpTimesOut, Await, radio, clocks
  <2>2. CASE attempts < DHCP_ATTEMPTS
    <3>1. /\ pc = "dhcp" /\ pc' = "dhcp" /\ timer = 0 /\ timer' = DHCP_TIMEOUT_MS
          /\ attempts' = attempts + 1
          /\ UNCHANGED <<lease, link, outage, noIp, lapsed>>
      BY <1>4, <2>2 DEF DhcpTimesOut, Await, radio, clocks
    <3>2. Away' = DHCP_TIMEOUT_MS + WindowsLeft(attempts + 1)
      BY <3>1 DEF Away
    <3>3. Away = WindowsLeft(attempts)
      BY <3>1 DEF Away
    <3> QED
      BY <2>2, <3>1, <3>2, <3>3
  <2> QED
    BY <2>1, <2>2
<1>5. CASE RejoinHeard
  BY <1>5, ToVerdict DEF RejoinHeard, Await, radio, clocks
<1>6. CASE LinkLost
  BY <1>6, ToVerdict DEF LinkLost, Await, radio, clocks
<1>7. CASE StartLeave
  <2>1. /\ pc' = "leaving" /\ timer' = LEAVE_TIMEOUT_MS /\ noIp < NO_IP_REBOOT_MS
        /\ UNCHANGED <<lease, link, outage, noIp, lapsed>>
    BY <1>7 DEF StartLeave, RebootDue, Await, radio, clocks
  <2>2. Away' = Cycle
    BY <2>1 DEF Away
  <2> QED
    BY <2>1, <2>2
<1>8. CASE Reboot
  <2>1. /\ pc' = "joining" /\ timer' = JOIN_TIMEOUT_MS
        /\ outage' = 0 /\ noIp' = 0 /\ ~lease'
    BY <1>8 DEF Reboot, BootState, Await
  <2>2. Away' = JOIN_TIMEOUT_MS + WindowsLeft(0)
    BY <2>1 DEF Away
  <2> QED
    BY <2>1, <2>2
<1>9. CASE Leaves
  <2>1. /\ pc = "leaving" /\ pc' = "backoff" /\ timer' = backoff
        /\ lease' => lease
        /\ UNCHANGED <<outage, noIp, lapsed>>
    BY <1>9 DEF Leaves, Await, radio, clocks
  <2>2. Away' = backoff + JOIN_TIMEOUT_MS + WindowsLeft(0) /\ Away' <= Away
    BY <2>1 DEF Away
  <2> QED
    BY <2>1, <2>2
<1>10. CASE BackoffEnds
  <2>1. /\ pc = "backoff" /\ pc' = "joining" /\ timer' = JOIN_TIMEOUT_MS /\ timer = 0
        /\ UNCHANGED <<lease, link, outage, noIp, lapsed>>
    BY <1>10 DEF BackoffEnds, Await, radio, clocks
  <2>2. Away' = Away
    BY <2>1 DEF Away
  <2> QED
    BY <2>1, <2>2
<1>11. CASE TelemetryStep \/ NetChanges \/ UNCHANGED vars
  <2>1. UNCHANGED <<pc, timer, attempts, lease, link, outage, noIp, lapsed>>
    BY <1>11 DEF TelemetryStep, StartConnect, ConnectSucceeds, MqttFails,
         MqttBackoffEnds, NetChanges, vars, supervisor, radio, clocks
  <2> QED
    BY <2>1 DEF Away
<1>12. CASE LinkComesUp \/ LinkDrops
  <2>1. /\ UNCHANGED <<pc, timer, attempts, outage, noIp, lapsed>>
        /\ lease' => lease
        /\ pc = "online" /\ link' => link /\ lease' = lease
    BY <1>12 DEF LinkComesUp, LinkDrops, supervisor, clocks
  <2> QED
    BY <2>1 DEF Away
<1>13. CASE LeaseGranted
  <2>1. UNCHANGED <<pc, timer, attempts, noIp>> /\ outage' = 0 /\ lease'
    BY <1>13 DEF LeaseGranted, supervisor
  <2>2. Away' = Away
    BY <2>1 DEF Away
  <2> QED
    BY <2>1, <2>2
<1>14. CASE LeaseExpires
  BY <1>14 DEF LeaseExpires
<1>15. CASE Tick
  <2>1. UNCHANGED <<pc, attempts, lease, link, lapsed>>
    BY <1>15 DEF Tick, radio
  <2>2. /\ outage' = IF lease THEN 0 ELSE UpTo(outage, OutageCap)
        /\ noIp' = UpTo(noIp, NO_IP_REBOOT_MS)
    BY <1>15 DEF Tick
  <2>3. outage' \in 0..(outage + 1) /\ (lease => outage' = 0)
    BY <2>2 DEF UpTo
  <2>4. outage' <= noIp' \/ noIp' = NO_IP_REBOOT_MS
    BY <2>2 DEF UpTo
  <2>5. ~lapsed => outage' + Away' < NO_IP_REBOOT_MS + Cycle
    <3>1. CASE pc \in {"joining", "dhcp", "leaving", "backoff"}
      <4>1. timer > 0 /\ timer' = timer - 1
        BY <1>15, <3>1 DEF Tick, Urgent
      <4>2. WindowsLeft(attempts) \in Nat
        OBVIOUS
      <4>3. Away' = Away - 1
        BY <2>1, <3>1, <4>1, <4>2 DEF Away
      <4> QED
        BY <2>1, <2>3, <4>3
    <3>2. CASE pc = "online"
      \* Nothing is urgent, so the link is up and, with it, the lease.
      <4>1. link
        BY <1>15, <3>2 DEF Tick, Urgent
      <4> QED
        BY <2>1, <2>3, <3>2, <4>1 DEF Away
    <3>3. pc # "verdict"
      BY <1>15 DEF Tick, Urgent
    <3> QED
      BY <3>1, <3>2, <3>3
  <2>6. pc = "online" => link
    BY <1>15 DEF Tick, Urgent
  <2> QED
    BY <2>1, <2>3, <2>4, <2>5, <2>6
<1> QED
  BY <1>1, <1>2, <1>3, <1>4, <1>5, <1>6, <1>7, <1>8, <1>9, <1>10, <1>11, <1>12,
     <1>13, <1>14, <1>15 DEF Next, SupervisorStep, EnvironmentStep

\* "If no IP lease is held for a long period the MCU resets": an outage that is
\* not the end of a lease under a link that stays up lasts less than
\* NO_IP_REBOOT_MS and one cycle of the supervisor, whatever timeouts are set.
THEOREM LinkOutagesEnd == Spec => []LinkOutageBounded
<1>1. TypeOK /\ TimersBounded /\ OutageCovered => LinkOutageBounded
  BY AwayBounded, Windows, Parameters
     DEF TypeOK, OutageCovered, LinkOutageBounded, OutageBounded
<1> QED
  BY <1>1, TimersInit, TimersNext, CoveredInit, CoveredNext, TypeCorrect, PTL DEF Spec

------------------------------------------------------------------------------
(* The radio's control handle, which the supervisor shares with the LED:    *)
(* module RadioControl.                                                     *)

CONSTANTS OTA_CODES, None
VARIABLES owner, sup, beacon, step, round, current, blinks, signal, checks, led,
          latest, flashes

Radio == INSTANCE RadioControl

\* An error is shown by a positive number of flashes.
LEMMA PulsesOfError ==
    ASSUME Radio!RadioAssumption
    PROVE  \A state \in Radio!BeaconState :
             /\ Radio!Pulses(state) \in Nat \ {0}
             /\ state.kind = "error" => Radio!Pulses(state) = state.code
<1> SUFFICES ASSUME NEW state \in Radio!BeaconState
             PROVE  /\ Radio!Pulses(state) \in Nat \ {0}
                    /\ state.kind = "error" => Radio!Pulses(state) = state.code
  OBVIOUS
<1>1. state.code \in Nat /\ (state.kind = "error" => state.code >= 1)
  BY DEF Radio!RadioAssumption, Radio!BeaconState, Radio!Connecting, Radio!Connected,
         Radio!Error
<1>2. Radio!Pulses(state) = IF state.code >= 1 THEN state.code ELSE 1
  BY <1>1 DEF Radio!Pulses, Radio!Max
<1> QED
  BY <1>1, <1>2

\* Whoever is in a call on the radio holds the mutex, and nobody else does.
HandleIsHeld ==
    /\ owner = "beacon" <=> beacon = "call"
    /\ owner = "supervisor" <=> sup \in {"join", "leave"}

\* The LED is as the step wants it once the call has returned, an error's
\* round ends after its pulses, and its pause follows them undisturbed.
PatternKept ==
    /\ beacon = "wait" => (led <=> step = "on")
    /\ round.kind = "error" /\ step # "pause" => blinks < Radio!Pulses(round)
    /\ step = "pause" =>
         /\ round.kind = "error" /\ current = round /\ blinks = Radio!Pulses(round)
         /\ ~led

\* Since a full pause, if nothing was signalled: the flashes are the pulses
\* that are over, and the one that is not.
FlashesCounted ==
    flashes # None =>
        /\ round.kind = "error" /\ current = round
        /\ step = "on" => (led <=> beacon = "wait")
        /\ flashes = IF step = "off" \/ (step = "on" /\ beacon = "wait")
                       THEN blinks + 1 ELSE blinks

RadioInv == Radio!TypeOK /\ HandleIsHeld /\ PatternKept /\ FlashesCounted

LEMMA RadioInit == ASSUME Radio!RadioAssumption PROVE Radio!Init => RadioInv
<1> SUFFICES ASSUME Radio!Init PROVE RadioInv
  OBVIOUS
<1>1. Radio!Connecting \in Radio!BeaconState /\ Radio!Connecting.kind = "connecting"
  BY DEF Radio!BeaconState, Radio!Connecting
<1>2. Radio!TypeOK
  <2>1. led \in BOOLEAN /\ checks \in 0..2
    <3>1. \A n \in {0, 1} : n \in 0..2
      OBVIOUS
    <3> QED
      BY <3>1 DEF Radio!Init
  <2>2. blinks \in Nat /\ 0 \in Nat
    BY DEF Radio!Init
  <2> QED
    BY <1>1, <2>1, <2>2 DEF Radio!Init, Radio!TypeOK
<1>3. HandleIsHeld
  <2>1. None # "supervisor" /\ None # "beacon"
    BY DEF Radio!RadioAssumption
  <2> QED
    BY <2>1 DEF Radio!Init, HandleIsHeld
<1> QED
  BY <1>1, <1>2, <1>3 DEF Radio!Init, RadioInv, PatternKept, FlashesCounted

\* The supervisor's steps, and the OTA task's, leave the LED and its pattern.
LEMMA OthersKeep ==
    ASSUME RadioInv, UNCHANGED Radio!leds, UNCHANGED checks \/ checks' \in 0..2,
           signal' \in Radio!BeaconState \cup {None}, latest' \in Radio!BeaconState,
           owner' \in {None, "supervisor", "beacon"}, HandleIsHeld',
           sup' \in {"wants_join", "join", "dhcp", "online", "wants_leave", "leave",
                     "backoff"}
    PROVE  RadioInv'
<1>1. UNCHANGED <<beacon, step, round, current, blinks, led, flashes>>
  BY DEF Radio!leds
<1>2. Radio!TypeOK'
  BY <1>1 DEF RadioInv, Radio!TypeOK
<1> QED
  BY <1>1, <1>2 DEF RadioInv, PatternKept, FlashesCounted, Radio!Pulses

\* A step of the pattern that is over, with the state it leaves behind.
LEMMA NextStepKeeps ==
    ASSUME Radio!RadioAssumption, Radio!TypeOK, PatternKept, beacon = "wait", beacon' = "lock",
           NEW state \in Radio!BeaconState, Radio!NextStep(state, None),
           UNCHANGED led
    PROVE  /\ step' \in {"on", "off", "pause"} /\ round' \in Radio!BeaconState
           /\ current' = state /\ blinks' \in Nat
           /\ PatternKept'
<1> USE DEF Radio!TypeOK, PatternKept
<1>1. CASE step = "on"
  BY <1>1, PulsesOfError DEF Radio!NextStep
<1>2. CASE step = "off" /\ round.kind = "error" /\ state = round
  BY <1>2, PulsesOfError DEF Radio!NextStep
<1>3. CASE step = "pause" \/ (step = "off" /\ ~(round.kind = "error" /\ state = round))
  <2>1. current' = state /\ round' = state /\ step' = "on" /\ blinks' = 0
    BY <1>3 DEF Radio!NextStep, Radio!NewRound
  <2>2. Radio!Pulses(round') \in Nat \ {0}
    BY <2>1, PulsesOfError
  <2> QED
    BY <2>1, <2>2
<1> QED
  BY <1>1, <1>2, <1>3

LEMMA RadioNext ==
    ASSUME Radio!RadioAssumption PROVE RadioInv /\ [Radio!Next]_Radio!vars => RadioInv'
<1> SUFFICES ASSUME RadioInv, [Radio!Next]_Radio!vars PROVE RadioInv'
  OBVIOUS
<1>0. /\ Radio!TypeOK /\ HandleIsHeld /\ PatternKept /\ FlashesCounted
      /\ None \notin Radio!BeaconState /\ None \notin Nat
      /\ None # "supervisor" /\ None # "beacon"
      /\ \A code \in {1, 2, 3} \cup OTA_CODES : Radio!Error(code) \in Radio!BeaconState
      /\ Radio!Connecting \in Radio!BeaconState /\ Radio!Connected \in Radio!BeaconState
  BY DEF RadioInv, Radio!RadioAssumption, Radio!BeaconState
<1>1. CASE Radio!SupervisorLocks \/ Radio!JoinSucceeds \/ Radio!Leaves
  <2>1. /\ UNCHANGED <<Radio!leds, signal, checks, latest>>
        /\ owner' \in {None, "supervisor"}
        /\ sup' \in {"join", "leave", "dhcp", "backoff"}
    BY <1>1 DEF Radio!SupervisorLocks, Radio!JoinSucceeds, Radio!Leaves
  <2>2. HandleIsHeld'
    BY <1>0, <1>1 DEF Radio!SupervisorLocks, Radio!JoinSucceeds, Radio!Leaves,
         HandleIsHeld, Radio!leds, Radio!TypeOK, Radio!RadioAssumption
  <2> QED
    BY <1>0, <2>1, <2>2, OthersKeep DEF Radio!TypeOK
<1>2. CASE Radio!JoinFails \/ Radio!LeaseFound \/ Radio!AssociationEnds \/ Radio!BackoffEnds
  <2>1. /\ UNCHANGED <<owner, Radio!leds, checks>>
        /\ signal' \in Radio!BeaconState /\ latest' \in Radio!BeaconState
        /\ sup' \in {"leave", "online", "wants_leave", "wants_join"}
    BY <1>0, <1>2 DEF Radio!JoinFails, Radio!LeaseFound, Radio!AssociationEnds,
         Radio!BackoffEnds, Radio!Signal
  <2>2. HandleIsHeld'
    BY <1>0, <1>2 DEF Radio!JoinFails, Radio!LeaseFound, Radio!AssociationEnds,
         Radio!BackoffEnds, HandleIsHeld, Radio!leds
  <2> QED
    BY <1>0, <2>1, <2>2, OthersKeep DEF Radio!TypeOK
<1>3. CASE Radio!RequestReset \/ Radio!OtaEnds
  <2>1. /\ UNCHANGED <<owner, sup, Radio!leds>> /\ checks' \in 0..2
        /\ signal' \in Radio!BeaconState \cup {None} /\ latest' \in Radio!BeaconState
    BY <1>0, <1>3 DEF Radio!RequestReset, Radio!OtaEnds, Radio!Signal, Radio!TypeOK
  <2>2. HandleIsHeld'
    BY <1>0, <2>1 DEF HandleIsHeld, Radio!leds
  <2> QED
    BY <1>0, <2>1, <2>2, OthersKeep DEF Radio!TypeOK
<1>4. CASE Radio!BeaconLocks
  BY <1>0, <1>4 DEF Radio!BeaconLocks, RadioInv, Radio!TypeOK, HandleIsHeld, PatternKept,
       FlashesCounted, Radio!Pulses, Radio!RadioAssumption
<1>5. CASE Radio!GpioReturns
  <2>1. /\ beacon = "call" /\ beacon' = "wait" /\ owner' = None /\ owner = "beacon"
        /\ led' = (step = "on")
        /\ UNCHANGED <<sup, step, round, current, blinks, signal, checks, latest>>
        /\ flashes' = IF flashes # None /\ ~led /\ led' THEN flashes + 1 ELSE flashes
    BY <1>0, <1>5 DEF Radio!GpioReturns, HandleIsHeld
  <2>2. Radio!TypeOK'
    BY <1>0, <2>1 DEF Radio!TypeOK
  <2>3. HandleIsHeld'
    BY <1>0, <2>1 DEF HandleIsHeld
  <2>4. PatternKept'
    BY <1>0, <2>1 DEF PatternKept, Radio!Pulses
  <2>5. FlashesCounted'
    BY <1>0, <2>1 DEF FlashesCounted, PatternKept, Radio!TypeOK
  <2> QED
    BY <2>2, <2>3, <2>4, <2>5 DEF RadioInv
<1>6. CASE Radio!StepInterrupted
  <2>1. /\ beacon = "wait" /\ beacon' = "lock" /\ signal \in Radio!BeaconState
        /\ Radio!NextStep(signal, None) /\ signal' = None /\ flashes' = None
        /\ UNCHANGED <<owner, sup, led, checks, latest>>
    BY <1>0, <1>6 DEF Radio!StepInterrupted, Radio!TypeOK
  <2>2. /\ step' \in {"on", "off", "pause"} /\ round' \in Radio!BeaconState
        /\ current' = signal /\ blinks' \in Nat /\ PatternKept'
    BY <1>0, <2>1, NextStepKeeps
  <2> QED
    BY <1>0, <2>1, <2>2 DEF RadioInv, Radio!TypeOK, HandleIsHeld, FlashesCounted
<1>7. CASE Radio!StepEnds
  <2>1. /\ beacon = "wait" /\ beacon' = "lock" /\ signal = None
        /\ Radio!NextStep(current, None)
        /\ flashes' = IF step = "pause" THEN 0 ELSE flashes
        /\ UNCHANGED <<owner, sup, led, signal, checks, latest>>
    BY <1>7 DEF Radio!StepEnds
  <2>2. /\ step' \in {"on", "off", "pause"} /\ round' \in Radio!BeaconState
        /\ current' = current /\ blinks' \in Nat /\ PatternKept'
    BY <1>0, <2>1, NextStepKeeps DEF Radio!TypeOK
  <2>3. FlashesCounted'
    <3>1. CASE step = "pause"
      BY <1>0, <2>1, <3>1 DEF Radio!NextStep, Radio!NewRound, PatternKept, FlashesCounted
    <3>2. CASE step # "pause"
      BY <1>0, <2>1, <3>2
         DEF Radio!NextStep, PatternKept, FlashesCounted, Radio!TypeOK
    <3> QED
      BY <3>1, <3>2
  <2> QED
    BY <1>0, <2>1, <2>2, <2>3 DEF RadioInv, Radio!TypeOK, HandleIsHeld
<1>8. CASE UNCHANGED Radio!vars
  BY <1>0, <1>8 DEF Radio!vars, Radio!leds, RadioInv, Radio!TypeOK, HandleIsHeld, PatternKept,
       FlashesCounted, Radio!Pulses
<1> QED
  BY <1>1, <1>2, <1>3, <1>4, <1>5, <1>6, <1>7, <1>8 DEF Radio!Next

\* The supervisor's join and leave and the LED's gpio_set are never in
\* progress at the same time: the task that is in one of them owns the mutex.
THEOREM HandleExclusive ==
    ASSUME Radio!RadioAssumption
    PROVE  Radio!Spec => [](Radio!TypeOK /\ ~(sup \in {"join", "leave"} /\ beacon = "call"))
<1>1. RadioInv => Radio!TypeOK /\ ~(sup \in {"join", "leave"} /\ beacon = "call")
  BY DEF RadioInv, HandleIsHeld
<1> QED
  BY <1>1, RadioInit, RadioNext, PTL DEF Radio!Spec

\* From one full pause to the next the LED flashes as often as the code says,
\* unless a new state is signalled in between: for every set of codes, however
\* long the LED waits for the handle between two flashes.
THEOREM FlashesTellCode ==
    ASSUME Radio!RadioAssumption PROVE Radio!Spec => []Radio!FlashesAreCode
<1>1. RadioInv => Radio!FlashesAreCode
  <2> SUFFICES ASSUME RadioInv, step = "pause", beacon = "wait", flashes # None
               PROVE  flashes = round.code
    BY DEF Radio!FlashesAreCode
  <2> QED
    BY PulsesOfError DEF RadioInv, FlashesCounted, PatternKept, Radio!TypeOK
<1> QED
  BY <1>1, RadioInit, RadioNext, PTL DEF Radio!Spec

==============================================================================
