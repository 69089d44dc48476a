--------------------------- MODULE WifiSupervisor ---------------------------
(***************************************************************************)
(* The Wi-Fi supervisor (app/src/wifi.rs), its NoIpWatchdog and the        *)
(* RejoinCounter (core/src/wifi.rs), and the part of the telemetry task    *)
(* (app/src/telemetry.rs) that counts MQTT failures and raises             *)
(* WIFI_REJOIN_SIGNAL.                                                     *)
(*                                                                         *)
(* Time.  `timer` is what is left of the supervisor's current timeout or   *)
(* backoff, and the clock does not pass a moment at which the supervisor   *)
(* has something to do: its lateness is nothing next to its timeouts.      *)
(*                                                                         *)
(* The network is the environment: the radio link, the DHCP lease that     *)
(* embassy-net holds over it, and `net`, which says what works at present: *)
(* "ok", everything, within the supervisor's timeouts; "dead", the radio   *)
(* does, slowly perhaps, but no MQTT traffic passes; "down", nothing.      *)
(*                                                                         *)
(* Abstractions.  The telemetry task is untimed and its own backoff is one *)
(* state.  The mutex around the radio's control handle is taken to be      *)
(* free.  The diagnostic blink codes are left out.                         *)
(***************************************************************************)
EXTENDS Integers

CONSTANTS
    JOIN_TIMEOUT_MS, DHCP_TIMEOUT_MS, DHCP_ATTEMPTS, LEAVE_TIMEOUT_MS,
    INITIAL_BACKOFF_MS, MAX_BACKOFF_MS, MQTT_REJOIN_FAILURES, NO_IP_REBOOT_MS

\* The constants are durations and counts; a backoff can double up to its cap.
ASSUME WifiAssumption ==
    /\ {JOIN_TIMEOUT_MS, DHCP_TIMEOUT_MS, DHCP_ATTEMPTS, LEAVE_TIMEOUT_MS,
        INITIAL_BACKOFF_MS, MAX_BACKOFF_MS, MQTT_REJOIN_FAILURES,
        NO_IP_REBOOT_MS} \subseteq Nat \ {0}
    /\ INITIAL_BACKOFF_MS <= MAX_BACKOFF_MS

VARIABLES
    pc,        \* await point of wifi_supervisor_task
    timer,     \* what is left of the timeout or backoff it awaits
    attempts,  \* DHCP windows used on this association
    backoff,   \* the supervisor's next backoff
    noIp,      \* NoIpWatchdog: time since note_ip, since boot if never called
    rejoin,    \* WIFI_REJOIN_SIGNAL is signalled
    mqtt,      \* stage of telemetry_task's connection
    failures,  \* RejoinCounter
    link,      \* the interface is reported up
    lease,     \* embassy-net holds an IPv4 configuration
    net,       \* environment: "ok", "dead" or "down"
    outage,    \* history: time without a lease, since boot or the last lease
    lapsed,    \* history: the last lease ran out with the link still up
    uptime,    \* history: time since boot
    credit     \* history: MQTT failures that no rejoin has been charged for

supervisor == <<pc, timer, attempts, backoff>>
telemetry  == <<mqtt, failures>>
radio      == <<link, lease>>
clocks     == <<noIp, outage, uptime, lapsed>>
vars == <<supervisor, telemetry, radio, clocks, rejoin, net, credit>>

\* The longest the supervisor can be away from its reboot check.
Cycle == LEAVE_TIMEOUT_MS + MAX_BACKOFF_MS + JOIN_TIMEOUT_MS
           + DHCP_ATTEMPTS * DHCP_TIMEOUT_MS

\* History clocks and credit stop counting where a larger value says no more.
OutageCap == NO_IP_REBOOT_MS + Cycle + 1
CreditCap == 2 * MQTT_REJOIN_FAILURES - 1

\* A value one higher, that stops at a cap.
UpTo(n, cap) == IF n < cap THEN n + 1 ELSE n

------------------------------------------------------------------------------
(* The state after power-on, and after the reset that wipes RAM and radio. *)

BootState ==
    [pc |-> "joining", timer |-> JOIN_TIMEOUT_MS, attempts |-> 0,
     backoff |-> INITIAL_BACKOFF_MS, mqtt |-> "wait_config"]

Init ==
    /\ pc = BootState.pc
    /\ timer = BootState.timer
    /\ attempts = BootState.attempts
    /\ backoff = BootState.backoff
    /\ mqtt = BootState.mqtt
    /\ rejoin = FALSE
    /\ link = FALSE /\ lease = FALSE
    /\ net \in {"ok", "dead", "down"}
    /\ failures = 0 /\ credit = 0
    /\ noIp = 0 /\ outage = 0 /\ uptime = 0
    /\ lapsed = FALSE

------------------------------------------------------------------------------
(* Supervisor *)

\* Suspends at the given await point, with a timeout of t.
Await(point, t) == pc' = point /\ timer' = t

\* attempt_join returns Ok: wait for DHCP on the new association.
JoinSucceeds ==
    /\ pc = "joining"
    /\ net # "down"
    /\ Await("dhcp", DHCP_TIMEOUT_MS)
    /\ attempts' = 1
    /\ UNCHANGED <<backoff, telemetry, radio, clocks, rejoin, net, credit>>

\* The radio reports an error, at any time, or the join stalls and times out.
JoinFails ==
    /\ pc = "joining"
    /\ net = "down" \/ (timer = 0 /\ net # "ok")
    /\ Await("verdict", 0)
    /\ UNCHANGED <<attempts, backoff, telemetry, radio, clocks, rejoin, net, credit>>

\* wait_config_up returns, which select polls first: the lease is noted.
LeaseFound ==
    /\ pc = "dhcp"
    /\ lease
    /\ Await("online", 0)
    /\ noIp' = 0
    /\ backoff' = INITIAL_BACKOFF_MS
    /\ UNCHANGED <<attempts, telemetry, radio, outage, uptime, lapsed, rejoin, net, credit>>

\* Faulty DhcpTimesOut: the windows are not counted.
DhcpRetriesForEver ==
    /\ pc = "dhcp"
    /\ ~lease
    /\ timer = 0
    /\ net # "ok"
    /\ Await("dhcp", DHCP_TIMEOUT_MS)
    /\ UNCHANGED <<attempts, backoff, telemetry, radio, clocks, rejoin, net, credit>>

\* A DHCP window closes: retry on the same association, or give up.
DhcpTimesOut ==
    /\ pc = "dhcp"
    /\ ~lease
    /\ timer = 0
    /\ net # "ok"
    /\ IF attempts >= DHCP_ATTEMPTS
         THEN Await("verdict", 0) /\ UNCHANGED attempts
         ELSE Await("dhcp", DHCP_TIMEOUT_MS) /\ attempts' = attempts + 1
    /\ UNCHANGED <<backoff, telemetry, radio, clocks, rejoin, net, credit>>

\* Faulty HearsRejoin: once online, only the link is watched.
HearsRejoinInDhcp == pc = "dhcp" /\ ~lease /\ timer > 0

\* The supervisor waits for a rejoin request with nothing to prefer to it.
HearsRejoin ==
    \/ pc = "dhcp" /\ ~lease /\ timer > 0
    \/ pc = "online" /\ link

\* Faulty RejoinHeard: the signal is seen but not taken.
RejoinStaysRaised ==
    /\ rejoin
    /\ HearsRejoin
    /\ credit' = IF credit >= MQTT_REJOIN_FAILURES
                   THEN credit - MQTT_REJOIN_FAILURES ELSE 0
    /\ Await("verdict", 0)
    /\ UNCHANGED <<attempts, backoff, telemetry, radio, clocks, net, rejoin>>

\* The rejoin request ends the association.
RejoinHeard ==
    /\ rejoin
    /\ HearsRejoin
    /\ rejoin' = FALSE
    /\ credit' = IF credit >= MQTT_REJOIN_FAILURES
                   THEN credit - MQTT_REJOIN_FAILURES ELSE 0
    /\ Await("verdict", 0)
    /\ UNCHANGED <<attempts, backoff, telemetry, radio, clocks, net>>

\* wait_link_down returns.
LinkLost ==
    /\ pc = "online"
    /\ ~link
    /\ Await("verdict", 0)
    /\ UNCHANGED <<attempts, backoff, telemetry, radio, clocks, rejoin, net, credit>>

\* Faulty RebootDue: compares with the wrong constant.
RebootDueEarly == noIp >= MAX_BACKOFF_MS

RebootDue == noIp >= NO_IP_REBOOT_MS

\* No reboot is due: leave the association.
StartLeave ==
    /\ pc = "verdict"
    /\ ~RebootDue
    /\ Await("leaving", LEAVE_TIMEOUT_MS)
    /\ UNCHANGED <<attempts, backoff, telemetry, radio, clocks, rejoin, net, credit>>

\* sys_reset: everything in RAM starts again, the network does not.
Reboot ==
    /\ pc = "verdict"
    /\ RebootDue
    /\ Await(BootState.pc, BootState.timer)
    /\ attempts' = BootState.attempts
    /\ backoff' = BootState.backoff
    /\ mqtt' = BootState.mqtt
    /\ rejoin' = FALSE
    /\ link' = FALSE /\ lease' = FALSE
    /\ failures' = 0 /\ credit' = 0
    /\ noIp' = 0 /\ outage' = 0 /\ uptime' = 0
    /\ lapsed' = FALSE
    /\ UNCHANGED net

\* leave() completes, or stalls and times out with the link as it was.
Leaves ==
    /\ pc = "leaving"
    /\ \/ link' = FALSE /\ lease' = FALSE
       \/ timer = 0 /\ UNCHANGED radio
    /\ Await("backoff", backoff)
    /\ UNCHANGED <<attempts, backoff, telemetry, clocks, rejoin, net, credit>>

BackoffEnds ==
    /\ pc = "backoff"
    /\ timer = 0
    /\ backoff' = IF 2 * backoff < MAX_BACKOFF_MS THEN 2 * backoff ELSE MAX_BACKOFF_MS
    /\ Await("joining", JOIN_TIMEOUT_MS)
    /\ UNCHANGED <<attempts, telemetry, radio, clocks, rejoin, net, credit>>

------------------------------------------------------------------------------
(* Telemetry *)

\* wait_config_up returns: resolve the broker and connect.
StartConnect ==
    /\ mqtt = "wait_config"
    /\ lease
    /\ mqtt' = "connecting"
    /\ UNCHANGED <<supervisor, failures, radio, clocks, rejoin, net, credit>>

ConnectSucceeds ==
    /\ mqtt = "connecting"
    /\ net = "ok"
    /\ mqtt' = "session"
    /\ failures' = 0
    /\ UNCHANGED <<supervisor, radio, clocks, rejoin, net, credit>>

\* Faulty MqttFails: at the threshold the counter does not start again.
MqttFailsUnreset ==
    /\ mqtt \in {"connecting", "session"}
    /\ net # "ok" \/ ~lease
    /\ mqtt' = "backoff"
    /\ credit' = UpTo(credit, CreditCap)
    /\ IF failures + 1 >= MQTT_REJOIN_FAILURES
         THEN rejoin' = TRUE /\ UNCHANGED failures
         ELSE failures' = failures + 1 /\ UNCHANGED rejoin
    /\ UNCHANGED <<supervisor, radio, clocks, net>>

\* fail_backoff: DNS, TCP, CONNECT or subscription failed, or a session that
\* was up has been lost.  The signal is raised at the threshold.
MqttFails ==
    /\ mqtt \in {"connecting", "session"}
    /\ net # "ok" \/ ~lease
    /\ mqtt' = "backoff"
    /\ credit' = UpTo(credit, CreditCap)
    /\ IF failures + 1 >= MQTT_REJOIN_FAILURES
         THEN failures' = 0 /\ rejoin' = TRUE
         ELSE failures' = failures + 1 /\ UNCHANGED rejoin
    /\ UNCHANGED <<supervisor, radio, clocks, net>>

MqttBackoffEnds ==
    /\ mqtt = "backoff"
    /\ mqtt' = "wait_config"
    /\ UNCHANGED <<supervisor, failures, radio, clocks, rejoin, net, credit>>

------------------------------------------------------------------------------
(* Environment *)

\* The interface comes up some time after the join, and goes down with the
\* network; a lease is got over the link, and lost with it.  A link that drops
\* is seen before it comes up again.
LinkComesUp ==
    /\ pc = "dhcp"
    /\ net # "down"
    /\ ~link
    /\ link' = TRUE
    /\ UNCHANGED <<supervisor, telemetry, lease, clocks, rejoin, net, credit>>

LinkDrops ==
    /\ link
    /\ net = "down"
    /\ link' = FALSE /\ lease' = FALSE
    /\ UNCHANGED <<supervisor, telemetry, clocks, rejoin, net, credit>>

LeaseGranted ==
    /\ link /\ ~lease
    /\ net # "down"
    /\ lease' = TRUE
    /\ outage' = 0
    /\ lapsed' = FALSE
    /\ UNCHANGED <<supervisor, telemetry, link, noIp, uptime, rejoin, net, credit>>

\* The lease runs out and is not renewed; embassy-net drops its configuration.
LeaseExpires ==
    /\ lease
    /\ net # "ok"
    /\ lease' = FALSE
    /\ lapsed' = TRUE
    /\ UNCHANGED <<supervisor, telemetry, link, noIp, outage, uptime, rejoin, net, credit>>

NetChanges ==
    /\ net' \in {"ok", "dead", "down"} \ {net}
    /\ UNCHANGED <<supervisor, telemetry, radio, clocks, rejoin, credit>>

\* The supervisor has something to do now.
Urgent ==
    \/ pc = "verdict"
    \/ pc \in {"joining", "dhcp", "leaving", "backoff"} /\ timer = 0
    \/ pc = "dhcp" /\ lease
    \/ pc = "online" /\ ~link
    \/ rejoin /\ HearsRejoin

Tick ==
    /\ ~Urgent
    /\ timer' = IF timer > 0 THEN timer - 1 ELSE 0
    /\ noIp' = UpTo(noIp, NO_IP_REBOOT_MS)
    /\ uptime' = UpTo(uptime, NO_IP_REBOOT_MS)
    /\ outage' = IF lease THEN 0 ELSE UpTo(outage, OutageCap)
    /\ UNCHANGED <<pc, attempts, backoff, telemetry, radio, lapsed, rejoin, net, credit>>

------------------------------------------------------------------------------
SupervisorStep ==
    \/ JoinSucceeds \/ JoinFails \/ LeaseFound \/ DhcpTimesOut \/ RejoinHeard
    \/ LinkLost \/ StartLeave \/ Reboot \/ Leaves \/ BackoffEnds

TelemetryStep == StartConnect \/ ConnectSucceeds \/ MqttFails \/ MqttBackoffEnds

EnvironmentStep ==
    LinkComesUp \/ LinkDrops \/ LeaseGranted \/ LeaseExpires \/ NetChanges

Next == SupervisorStep \/ TelemetryStep \/ EnvironmentStep \/ Tick

\* Time passes, both tasks are polled, and a network that works brings up the
\* link and the lease.  MqttFails is fair because minimq's keepalive gives up
\* on a silent broker.
Fairness ==
    /\ WF_vars(Tick)
    /\ WF_vars(SupervisorStep)
    /\ WF_vars(StartConnect)
    /\ WF_vars(ConnectSucceeds)
    /\ WF_vars(MqttFails)
    /\ WF_vars(MqttBackoffEnds)
    /\ WF_vars(LinkComesUp)
    /\ WF_vars(LeaseGranted)

Spec == Init /\ [][Next]_vars /\ Fairness

------------------------------------------------------------------------------
(* Properties *)

\* Type correctness.
TypeOK ==
    /\ pc \in {"joining", "dhcp", "online", "verdict", "leaving", "backoff"}
    /\ timer \in Nat
    /\ attempts \in 0..DHCP_ATTEMPTS
    /\ backoff \in INITIAL_BACKOFF_MS..MAX_BACKOFF_MS
    /\ noIp \in 0..NO_IP_REBOOT_MS
    /\ rejoin \in BOOLEAN
    /\ mqtt \in {"wait_config", "connecting", "session", "backoff"}
    /\ failures \in 0..(MQTT_REJOIN_FAILURES - 1)
    /\ link \in BOOLEAN /\ lease \in BOOLEAN
    /\ net \in {"ok", "dead", "down"}
    /\ outage \in 0..OutageCap
    /\ lapsed \in BOOLEAN
    /\ uptime \in 0..NO_IP_REBOOT_MS
    /\ credit \in 0..CreditCap

\* "If no IP lease is held for a long period the MCU resets": an outage never
\* lasts longer than NO_IP_REBOOT_MS and the longest way back to the check.
OutageBounded == outage < NO_IP_REBOOT_MS + Cycle

\* What does hold: every outage that began with the loss of the link, or that
\* has lasted since boot, is bounded so.
LinkOutageBounded == ~lapsed => OutageBounded

\* "A long outage costs a reset every NO_IP_REBOOT_MS": never more often,
\* so that a device without a network keeps running between resets.  (Not, as
\* its comment has it, only after that long without a lease: the clock runs
\* from the moment the lease was got.)
ResetsAreRare == [][Reboot => uptime >= NO_IP_REBOOT_MS]_vars

\* Every association a rejoin request ends is paid for by MQTT_REJOIN_FAILURES
\* failures of its own, although the request may be raised while nobody waits
\* for it, stay latched, and be raised again on top.
RejoinsAreEarned ==
    [][RejoinHeard => credit >= MQTT_REJOIN_FAILURES]_vars

\* An association that carries no traffic is left, unless its lease runs out
\* before the failures have added up.
DeadLinkIsLeft ==
    (pc = "online" /\ net = "dead") ~> (pc # "online" \/ net # "dead" \/ lapsed)

\* When the network is back for good, so is the device: the supervisor stays
\* on an association and telemetry in a session.
RecoversWithNetwork ==
    <>[](net = "ok") => <>[](pc = "online" /\ mqtt = "session")
==============================================================================
