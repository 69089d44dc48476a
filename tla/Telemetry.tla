------------------------------ MODULE Telemetry ------------------------------
(***************************************************************************)
(* The MQTT task (app/src/telemetry.rs): connection, subscription, the     *)
(* select over messages and door states, publications and replies, and the *)
(* failure counting behind WIFI_REJOIN_SIGNAL.                             *)
(*                                                                         *)
(* Its partners are reduced to what they do to the shared objects: the     *)
(* sensor overwrites DOOR_STATE_SIGNAL, the actuator empties               *)
(* DOOR_CMD_CHANNEL, the OTA task and the supervisor take their signals.   *)
(*                                                                         *)
(* A committed door state is represented by its number: the states         *)
(* alternate, so that the number says both which state it is and how old.  *)
(* 0 stands for None.  `told` is the state the outside was told last, in a *)
(* publication or in a reply.                                              *)
(*                                                                         *)
(* The network and the broker are the environment.  A connection that      *)
(* breaks is noticed by the task's next operation on it, at some time.     *)
(* The broker may keep the client's session when a connection ends, or     *)
(* discard it; minimq reports which as its ConnectEvent.                   *)
(*                                                                         *)
(* Abstractions.  The task is untimed.  What a message says is reduced to  *)
(* what classify makes of it.  A connection that is given up ends with the *)
(* loop iteration, after the backoff; here it ends before.                 *)
(***************************************************************************)
EXTENDS Integers, Sequences

CONSTANTS
    Capacity,              \* slots of DOOR_CMD_CHANNEL, 4 in the code
    MQTT_REJOIN_FAILURES,  \* core/src/wifi.rs, 5 in the code
    MaxInbox,              \* bound: received messages waiting in the socket
    MaxCommits             \* bound: door states committed

ASSUME TelemetryAssumption ==
    {Capacity, MQTT_REJOIN_FAILURES, MaxInbox, MaxCommits} \subseteq Nat \ {0}

VARIABLES
    pc,        \* await point of telemetry_task
    conn,      \* the MQTT connection: "none", "up", or "broken"
    inbox,     \* messages received and not yet taken by conn.recv()
    current,   \* the cached door state
    failures,  \* RejoinCounter
    commits,   \* the door state committed last
    signal,    \* DOOR_STATE_SIGNAL
    channel,   \* length of DOOR_CMD_CHANNEL
    reset,     \* RESET_REQUEST_SIGNAL
    rejoin,    \* WIFI_REJOIN_SIGNAL
    net,       \* environment: "ok", "dead" (no traffic) or "down" (no lease)
    session,   \* the session the broker keeps for this client
    told,      \* history: the state the outside was told last
    refused    \* history: failures since a broker accepted a connection

task == <<pc, conn, inbox, current, failures>>
signals == <<commits, signal, channel, reset, rejoin>>
vars == <<task, signals, net, session, told, refused>>

\* What classify makes of a message: retained, malformed and unknown ones
\* are "Unknown".
Action == {"Trigger", "Reset", "Status", "Unknown"}

\* The loop over select.
InLoop == pc \in {"select", "publish", "reply", "send"}

\* Stops counting where more says no more.
UpTo(n, cap) == IF n < cap THEN n + 1 ELSE n

\* main spawns the sensor before the radio comes up, and telemetry after.
Init ==
    /\ pc = "wait_config"
    /\ conn = "none" /\ inbox = <<>>
    /\ commits = 1 /\ signal = 1
    /\ current = 0 /\ told = 0
    /\ failures = 0 /\ refused = 0
    /\ channel = 0
    /\ reset = FALSE /\ rejoin = FALSE
    /\ net \in {"ok", "dead", "down"}
    /\ session = "none"

------------------------------------------------------------------------------
(* Connecting *)

\* Drops the connection, counts a failure, and waits out the backoff.
FailBackoff ==
    /\ pc' = "backoff"
    /\ conn' = "none" /\ inbox' = <<>>
    /\ refused' = UpTo(refused, MQTT_REJOIN_FAILURES)
    /\ IF failures + 1 >= MQTT_REJOIN_FAILURES
         THEN failures' = 0 /\ rejoin' = TRUE
         ELSE failures' = failures + 1 /\ UNCHANGED rejoin

BackoffEnds ==
    /\ pc = "backoff"
    /\ pc' = "wait_config"
    /\ UNCHANGED <<conn, inbox, current, failures, signals, net, session, told, refused>>

\* wait_config_up returns: resolve the broker and connect.
StartConnect ==
    /\ pc = "wait_config"
    /\ net # "down"
    /\ pc' = "connecting"
    /\ UNCHANGED <<conn, inbox, current, failures, signals, net, session, told, refused>>

\* DNS, the TCP connection or the MQTT handshake fails.
ConnectFails ==
    /\ pc = "connecting"
    /\ net # "ok"
    /\ FailBackoff
    /\ UNCHANGED <<current, commits, signal, channel, reset, net, session, told>>

\* Faulty Snapshot: only a new state is published.
SnapshotOfChange ==
    /\ current' = IF signal # 0 THEN signal ELSE current
    /\ signal' = 0
    /\ pc' = IF signal # 0 THEN "publish" ELSE "select"

\* On entering the loop: refresh the cache, publish what it holds.
Snapshot ==
    /\ current' = IF signal # 0 THEN signal ELSE current
    /\ signal' = 0
    /\ pc' = IF current' # 0 THEN "publish" ELSE "select"

\* Faulty ConnectSucceeds: the counter is left for the subscription to clear;
\* or the events are mixed up.
ConnectSucceedsUncounted ==
    /\ pc = "connecting"
    /\ net = "ok"
    /\ conn' = "up"
    /\ refused' = 0
    /\ IF session = "none"
         THEN session' = "bare" /\ pc' = "subscribing" /\ UNCHANGED <<current, signal>>
         ELSE Snapshot /\ UNCHANGED session
    /\ UNCHANGED <<inbox, failures, commits, channel, reset, rejoin, net, told>>

ConnectSucceedsMixedUp ==
    /\ pc = "connecting"
    /\ net = "ok"
    /\ conn' = "up"
    /\ failures' = 0 /\ refused' = 0
    /\ session' = IF session = "none" THEN "bare" ELSE session
    /\ IF session # "none"
         THEN pc' = "subscribing" /\ UNCHANGED <<current, signal>>
         ELSE Snapshot
    /\ UNCHANGED <<inbox, commits, channel, reset, rejoin, net, told>>

\* The broker accepts.  A new session (ConnectEvent::Connected) has to be
\* subscribed; a resumed one is taken to be.
ConnectSucceeds ==
    /\ pc = "connecting"
    /\ net = "ok"
    /\ conn' = "up"
    /\ failures' = 0 /\ refused' = 0
    /\ IF session = "none"
         THEN session' = "bare" /\ pc' = "subscribing" /\ UNCHANGED <<current, signal>>
         ELSE Snapshot /\ UNCHANGED session
    /\ UNCHANGED <<inbox, commits, channel, reset, rejoin, net, told>>

SubscribeSucceeds ==
    /\ pc = "subscribing"
    /\ conn = "up"
    /\ session' = "subscribed"
    /\ Snapshot
    /\ UNCHANGED <<conn, inbox, failures, commits, channel, reset, rejoin, net, told, refused>>

\* The connection is lost, or the broker refuses; the broker may or may not
\* have taken the subscription.
SubscribeFails ==
    /\ pc = "subscribing"
    /\ conn = "broken" \/ net # "ok"
    /\ session' \in {"failed", "subscribed"}
    /\ FailBackoff
    /\ UNCHANGED <<current, commits, signal, channel, reset, net, told>>

------------------------------------------------------------------------------
(* The loop *)

\* conn.recv() has a message, which select prefers to a door state.
Receive ==
    /\ pc = "select"
    /\ inbox # <<>>
    /\ inbox' = Tail(inbox)
    /\ \/ Head(inbox) = "Trigger" /\ pc' = "send" /\ UNCHANGED reset
       \/ Head(inbox) = "Reset" /\ reset' = TRUE /\ UNCHANGED pc
       \/ Head(inbox) = "Status" /\ pc' = "reply" /\ UNCHANGED reset
       \/ Head(inbox) = "Unknown" /\ UNCHANGED <<pc, reset>>
    /\ UNCHANGED <<conn, current, failures, commits, signal, channel, rejoin,
                   net, session, told, refused>>

\* Faulty ReceiveFails: goes on with the connection.
ReceiveFailsIgnored ==
    /\ pc = "select"
    /\ conn = "broken"
    /\ UNCHANGED vars

\* conn.recv() fails.
ReceiveFails ==
    /\ pc = "select"
    /\ conn = "broken"
    /\ FailBackoff
    /\ UNCHANGED <<current, commits, signal, channel, reset, net, session, told>>

\* Faulty TakeChange: the state is published and not cached.
TakeChangeUncached ==
    /\ pc = "select"
    /\ inbox = <<>>
    /\ signal # 0
    /\ signal' = 0
    /\ told' = IF conn = "up" THEN signal ELSE told
    /\ UNCHANGED <<task, commits, channel, reset, rejoin, net, session, refused>>

\* No message waits, and a door state does.
TakeChange ==
    /\ pc = "select"
    /\ inbox = <<>>
    /\ signal # 0
    /\ current' = signal
    /\ signal' = 0
    /\ pc' = "publish"
    /\ UNCHANGED <<conn, inbox, failures, commits, channel, reset, rejoin,
                   net, session, told, refused>>

\* What is written to the connection arrives, or the connection is breaking.
Arrives == conn = "up" /\ UNCHANGED conn
IsLost == (conn = "broken" \/ net # "ok") /\ conn' = "broken"

\* publish_state: an error is only logged.
PublishState ==
    /\ pc = "publish"
    /\ \/ Arrives /\ told' = current
       \/ IsLost /\ UNCHANGED told
    /\ pc' = "select"
    /\ UNCHANGED <<inbox, current, failures, signals, net, session, refused>>

\* A status reply with the cached state, "closed" when there is none.
Reply ==
    /\ pc = "reply"
    /\ \/ Arrives /\ told' = current
       \/ IsLost /\ UNCHANGED told
    /\ pc' = "select"
    /\ UNCHANGED <<inbox, current, failures, signals, net, session, refused>>

\* The publication of the reply returns an error, which ends the session.
ReplyFails ==
    /\ pc = "reply"
    /\ conn = "broken"
    /\ FailBackoff
    /\ UNCHANGED <<current, commits, signal, channel, reset, net, session, told>>

\* DOOR_CMD_CHANNEL.send(Trigger) waits for a slot.
SendTrigger ==
    /\ pc = "send"
    /\ channel < Capacity
    /\ channel' = channel + 1
    /\ pc' = "select"
    /\ UNCHANGED <<conn, inbox, current, failures, commits, signal, reset, rejoin,
                   net, session, told, refused>>

------------------------------------------------------------------------------
(* Partners and environment *)

\* The sensor commits a state and overwrites the signal.
Commit ==
    /\ commits < MaxCommits
    /\ commits' = commits + 1
    /\ signal' = commits + 1
    /\ UNCHANGED <<task, channel, reset, rejoin, net, session, told, refused>>

\* The actuator receives a command.
TakeCommand ==
    /\ channel > 0
    /\ channel' = channel - 1
    /\ UNCHANGED <<task, commits, signal, reset, rejoin, net, session, told, refused>>

\* The OTA task and the supervisor take their signals.
TakeReset ==
    /\ reset
    /\ reset' = FALSE
    /\ UNCHANGED <<task, commits, signal, channel, rejoin, net, session, told, refused>>

TakeRejoin ==
    /\ rejoin
    /\ rejoin' = FALSE
    /\ UNCHANGED <<task, commits, signal, channel, reset, net, session, told, refused>>

\* A message of any kind arrives on a subscribed topic.
Deliver ==
    /\ conn = "up"
    /\ session = "subscribed"
    /\ InLoop
    /\ Len(inbox) < MaxInbox
    /\ \E action \in Action : inbox' = Append(inbox, action)
    /\ UNCHANGED <<pc, conn, current, failures, signals, net, session, told, refused>>

NetChanges ==
    /\ net' \in {"ok", "dead", "down"} \ {net}
    /\ UNCHANGED <<task, signals, session, told, refused>>

ConnectionBreaks ==
    /\ conn = "up"
    /\ net # "ok"
    /\ conn' = "broken"
    /\ UNCHANGED <<pc, inbox, current, failures, signals, net, session, told, refused>>

\* The broker discards the session of a client that is gone.
SessionExpires ==
    /\ conn # "up"
    /\ session # "none"
    /\ session' = "none"
    /\ UNCHANGED <<task, signals, net, told, refused>>

------------------------------------------------------------------------------
TaskStep ==
    \/ BackoffEnds \/ StartConnect \/ ConnectFails \/ ConnectSucceeds
    \/ SubscribeSucceeds \/ SubscribeFails
    \/ Receive \/ ReceiveFails \/ TakeChange \/ PublishState
    \/ Reply \/ ReplyFails \/ SendTrigger

PartnerStep == Commit \/ TakeCommand \/ TakeReset \/ TakeRejoin

EnvironmentStep == Deliver \/ NetChanges \/ ConnectionBreaks \/ SessionExpires

Next == TaskStep \/ PartnerStep \/ EnvironmentStep

\* The executor polls the telemetry task and the actuator, and an operation
\* on the network ends, in success when the network works.
Fairness == WF_vars(TaskStep) /\ WF_vars(TakeCommand)

Spec == Init /\ [][Next]_vars /\ Fairness

------------------------------------------------------------------------------
(* Properties *)

\* Type correctness.
TypeOK ==
    /\ pc \in {"wait_config", "connecting", "subscribing", "select", "publish",
               "reply", "send", "backoff"}
    /\ conn \in {"none", "up", "broken"}
    /\ inbox \in Seq(Action) /\ Len(inbox) <= MaxInbox
    /\ commits \in 1..MaxCommits
    /\ {signal, current, told} \subseteq 0..MaxCommits
    /\ failures \in 0..(MQTT_REJOIN_FAILURES - 1)
    /\ refused \in 0..MQTT_REJOIN_FAILURES
    /\ channel \in 0..Capacity
    /\ reset \in BOOLEAN /\ rejoin \in BOOLEAN
    /\ net \in {"ok", "dead", "down"}
    /\ session \in {"none", "bare", "failed", "subscribed"}

\* When the task waits in select on a live connection with no state pending,
\* the outside has been told the door's last state, although publish_state
\* drops a publication that fails and no broker acknowledges one.
QuietIsTold ==
    pc = "select" /\ conn = "up" /\ signal = 0 => told = commits

\* Snapshots, changes and replies, over any number of connections, never tell
\* an older state after a newer one.
NeverBackwards == [][told' >= told]_vars

\* The fallback of a status reply, "closed" while the state is unknown, is
\* never used: every session starts with a state.
NeverBlind == pc = "reply" => current # 0

\* A rejoin is requested only after MQTT_REJOIN_FAILURES failures with no
\* connection accepted in between; a broker that accepts connections and then
\* drops them, or refuses the subscription, is no reason to leave the Wi-Fi.
RejoinOnlyUnreachable ==
    [][rejoin' /\ ~rejoin => refused' >= MQTT_REJOIN_FAILURES]_vars

\* The device "subscribes to inbound command topics": the loop runs on a live
\* connection without its subscriptions only on a session on which subscribing
\* has failed, and which the broker has kept.
LoopIsSubscribedOrFailed ==
    InLoop /\ conn = "up" => session \in {"failed", "subscribed"}

\* Once the network works, the door rests and the broker is quiet, the
\* outside learns the door's state, whatever was lost before.
StateIsTold ==
    <>[](net = "ok" /\ inbox = <<>>) => <>[](told = commits)
==============================================================================
