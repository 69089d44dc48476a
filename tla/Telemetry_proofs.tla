--------------------------- MODULE Telemetry_proofs ---------------------------
(***************************************************************************)
(* Proofs about Telemetry, for any capacity, threshold and bounds, and     *)
(* about the codec of what it receives and sends, for any payload.         *)
(*                                                                         *)
(* One invariant, Inv, orders the four places a door state can be in       *)
(* (committed, signalled, cached, told) and carries what the outside knows *)
(* and that no session starts blind.  The subscription, the failure        *)
(* counter and the types each have an invariant of their own.              *)
(*                                                                         *)
(* EchoSafe, at the end, is about the scanner.  Each of its loops is shown *)
(* to be a function that satisfies the loop's equation and stays in a set  *)
(* of functions that says what the results are; a string is then shown to  *)
(* be the same in any text, and the response to be scanned to its end.     *)
(***************************************************************************)
EXTENDS Telemetry, MqttCodec, SequenceTheorems, FiniteSetTheorems, WellFoundedInduction, TLAPS

------------------------------------------------------------------------------
(* The door states *)

\* The four numbers.
Numbers == commits \in Nat /\ signal \in Nat /\ current \in Nat /\ told \in Nat

\* A pending state is the last committed; without one, the cache is up to
\* date; nothing is cached before it is committed or told before it is cached.
Order ==
    /\ commits >= 1
    /\ signal = 0 => current = commits
    /\ signal # 0 => signal = commits
    /\ current <= commits
    /\ told <= current

\* In the loop, except on the way to publishing it, the cache has been told
\* on the live connection.
AfterTelling == pc \in {"select", "send", "reply"}
CacheIsTold == AfterTelling /\ conn = "up" => told = current

\* The loop is entered with a state.
LoopKnows == InLoop => current # 0

Inv == Numbers /\ Order /\ CacheIsTold /\ LoopKnows

\* What a snapshot takes from the signal is the door's last state.
LEMMA SnapshotIsLast ==
    ASSUME Numbers, Order, Snapshot, UNCHANGED <<commits, told>>
    PROVE  /\ Numbers' /\ Order'
           /\ pc' = "publish"
           /\ current' # 0
  <1>1. current' \in Nat /\ signal' = 0 /\ current' = commits
    BY DEF Numbers, Order, Snapshot
  <1>2. commits' = commits /\ told' = told
    OBVIOUS
  <1>3. Numbers' /\ Order'
    BY <1>1, <1>2 DEF Numbers, Order
  <1>4. current' # 0
    BY <1>1 DEF Numbers, Order
  <1>5. pc' = "publish"
    BY <1>4 DEF Snapshot
  <1> QED
    BY <1>3, <1>4, <1>5

LEMMA InvInit == Init => Inv
  BY DEF Init, Inv, Numbers, Order, CacheIsTold, AfterTelling, LoopKnows, InLoop

\* Steps that leave the four numbers alone, and enter neither the loop nor its
\* told part on a live connection.
LEMMA InvKept ==
    ASSUME Inv,
           UNCHANGED <<commits, signal, current, told>>,
           AfterTelling' /\ conn' = "up" => AfterTelling /\ conn = "up",
           InLoop' => InLoop
    PROVE  Inv'
  <1>1. Numbers' /\ Order'
    BY DEF Inv, Numbers, Order
  <1>2. CacheIsTold'
    BY DEF Inv, CacheIsTold
  <1>3. LoopKnows'
    BY DEF Inv, LoopKnows
  <1> QED
    BY <1>1, <1>2, <1>3 DEF Inv

\* Giving a connection up leaves the loop.
LEMMA InvFail ==
    ASSUME Inv, FailBackoff, UNCHANGED <<commits, signal, current, told>>
    PROVE  Inv'
  <1>1. pc' = "backoff"
    BY DEF FailBackoff
  <1>2. ~InLoop' /\ ~AfterTelling'
    BY <1>1 DEF InLoop, AfterTelling
  <1> QED
    BY <1>1, <1>2, InvKept

\* Entering the loop with a snapshot.
LEMMA InvSnapshot ==
    ASSUME Inv, Snapshot, UNCHANGED <<commits, told>>
    PROVE  Inv'
  <1>1. Numbers' /\ Order' /\ pc' = "publish" /\ current' # 0
    BY SnapshotIsLast DEF Inv
  <1> QED
    BY <1>1 DEF Inv, CacheIsTold, AfterTelling, LoopKnows

\* Telling the cached state, or losing it with the connection.
LEMMA InvTell ==
    ASSUME Inv,
           pc \in {"publish", "reply"}, pc' = "select",
           UNCHANGED <<commits, signal, current>>,
           \/ told' = current
           \/ conn' = "broken" /\ told' = told
    PROVE  Inv'
  <1>1. Numbers' /\ Order'
    BY DEF Inv, Numbers, Order
  <1>2. CacheIsTold'
    BY DEF Inv, CacheIsTold, AfterTelling
  <1>3. LoopKnows'
    BY DEF Inv, LoopKnows, InLoop
  <1> QED
    BY <1>1, <1>2, <1>3 DEF Inv

LEMMA InvNext == Inv /\ [Next]_vars => Inv'
  <1> SUFFICES ASSUME Inv, [Next]_vars PROVE Inv'
    OBVIOUS
  <1>1. CASE BackoffEnds \/ StartConnect
    BY <1>1, InvKept DEF BackoffEnds, StartConnect, InLoop, AfterTelling, signals
  <1>2. CASE ConnectFails \/ SubscribeFails \/ ReceiveFails \/ ReplyFails
    BY <1>2, InvFail DEF ConnectFails, SubscribeFails, ReceiveFails, ReplyFails
  <1>3. CASE ConnectSucceeds
    <2>1. CASE session = "none"
      BY <1>3, <2>1, InvKept DEF ConnectSucceeds, InLoop, AfterTelling
    <2>2. CASE session # "none"
      BY <1>3, <2>2, InvSnapshot DEF ConnectSucceeds
    <2> QED
      BY <2>1, <2>2
  <1>4. CASE SubscribeSucceeds
    BY <1>4, InvSnapshot DEF SubscribeSucceeds
  <1>5. CASE Receive
    <2>1. AfterTelling /\ InLoop
      BY <1>5 DEF Receive, AfterTelling, InLoop
    <2>2. UNCHANGED <<commits, signal, current, told, conn>>
      BY <1>5 DEF Receive
    <2> QED
      BY <2>1, <2>2, InvKept
  <1>6. CASE TakeChange
    <2>1. /\ pc' = "publish" /\ signal' = 0 /\ current' = signal /\ signal # 0
          /\ commits' = commits /\ told' = told
      BY <1>6 DEF TakeChange
    <2>2. Numbers' /\ Order'
      BY <2>1 DEF Inv, Numbers, Order
    <2>3. CacheIsTold' /\ LoopKnows'
      BY <2>1 DEF CacheIsTold, AfterTelling, LoopKnows
    <2> QED
      BY <2>2, <2>3 DEF Inv
  <1>7. CASE PublishState
    BY <1>7, InvTell DEF PublishState, Arrives, IsLost, signals
  <1>8. CASE Reply
    BY <1>8, InvTell DEF Reply, Arrives, IsLost, signals
  <1>9. CASE SendTrigger
    <2>1. pc = "send" /\ pc' = "select" /\ UNCHANGED <<commits, signal, current, told, conn>>
      BY <1>9 DEF SendTrigger
    <2> QED
      BY <2>1, InvKept DEF AfterTelling, InLoop
  <1>10. CASE Commit
    <2>1. /\ commits' = commits + 1 /\ signal' = commits + 1
          /\ UNCHANGED <<pc, conn, current, told>>
      BY <1>10 DEF Commit, task
    <2>2. Numbers' /\ Order'
      BY <2>1 DEF Inv, Numbers, Order
    <2>3. CacheIsTold' /\ LoopKnows'
      BY <2>1 DEF Inv, CacheIsTold, AfterTelling, LoopKnows, InLoop
    <2> QED
      BY <2>2, <2>3 DEF Inv
  <1>11. CASE TakeCommand \/ TakeReset \/ TakeRejoin
    BY <1>11, InvKept DEF TakeCommand, TakeReset, TakeRejoin, task, InLoop, AfterTelling
  <1>12. CASE Deliver \/ NetChanges \/ ConnectionBreaks \/ SessionExpires
    BY <1>12, InvKept
    DEF Deliver, NetChanges, ConnectionBreaks, SessionExpires, task, signals, InLoop, AfterTelling
  <1>13. CASE UNCHANGED vars
    BY <1>13, InvKept DEF vars, task, signals, InLoop, AfterTelling
  <1> QED
    BY <1>1, <1>2, <1>3, <1>4, <1>5, <1>6, <1>7, <1>8, <1>9, <1>10, <1>11,
       <1>12, <1>13
    DEF Next, TaskStep, PartnerStep, EnvironmentStep

LEMMA InvAlways == Spec => []Inv
  BY InvInit, InvNext, PTL DEF Spec
\* The outside has been told the door's state whenever the task is at rest.
THEOREM RestIsTold == Spec => []QuietIsTold
  <1>1. Inv => QuietIsTold
    BY DEF Inv, Order, CacheIsTold, AfterTelling, QuietIsTold
  <1> QED
    BY <1>1, InvAlways, PTL

\* No status reply is made before the door's state is known.
THEOREM NoBlindReply == Spec => []NeverBlind
  <1>1. Inv => NeverBlind
    BY DEF Inv, LoopKnows, InLoop, NeverBlind
  <1> QED
    BY <1>1, InvAlways, PTL

\* Only publications and replies tell, and they tell the cached state.
LEMMA TellsCache == [Next]_vars => told' = told \/ told' = current
  BY DEF Next, TaskStep, PartnerStep, EnvironmentStep, BackoffEnds, StartConnect,
     ConnectFails, ConnectSucceeds, SubscribeSucceeds, SubscribeFails, Receive,
     ReceiveFails, TakeChange, PublishState, Reply, ReplyFails, SendTrigger,
     Commit, TakeCommand, TakeReset, TakeRejoin, Deliver, NetChanges,
     ConnectionBreaks, SessionExpires, vars

\* The outside is never told an older state after a newer one.
THEOREM TellsForwards == Spec => NeverBackwards
  <1>1. Inv /\ [Next]_vars => [told' >= told]_vars
    BY TellsCache DEF Inv, Numbers, Order
  <1> QED
    BY <1>1, InvAlways, PTL DEF Spec, NeverBackwards

------------------------------------------------------------------------------
(* The subscription *)

\* A session whose subscription has not been tried is the one being subscribed,
\* and a live connection in the loop has a session.
Subscribed ==
    /\ session = "bare" => pc = "subscribing"
    /\ InLoop /\ conn = "up" => session # "none"
    /\ session \in {"none", "bare", "failed", "subscribed"}

LEMMA SubscribedInit == Init => Subscribed
  BY DEF Init, Subscribed, InLoop

LEMMA SubscribedNext == Subscribed /\ [Next]_vars => Subscribed'
  <1> SUFFICES ASSUME Subscribed, [Next]_vars PROVE Subscribed'
    OBVIOUS
  <1> USE DEF Subscribed, InLoop
  <1>1. CASE BackoffEnds \/ StartConnect
    BY <1>1 DEF BackoffEnds, StartConnect
  <1>2. CASE ConnectFails \/ SubscribeFails \/ ReceiveFails \/ ReplyFails
    BY <1>2 DEF ConnectFails, SubscribeFails, ReceiveFails, ReplyFails, FailBackoff
  <1>3. CASE ConnectSucceeds \/ SubscribeSucceeds
    BY <1>3 DEF ConnectSucceeds, SubscribeSucceeds, Snapshot
  <1>4. CASE Receive \/ TakeChange \/ SendTrigger
    BY <1>4 DEF Receive, TakeChange, SendTrigger
  <1>5. CASE PublishState \/ Reply
    BY <1>5 DEF PublishState, Reply, Arrives, IsLost
  <1>6. CASE Commit \/ TakeCommand \/ TakeReset \/ TakeRejoin
    BY <1>6 DEF Commit, TakeCommand, TakeReset, TakeRejoin, task
  <1>7. CASE Deliver \/ NetChanges \/ ConnectionBreaks \/ SessionExpires
    BY <1>7 DEF Deliver, NetChanges, ConnectionBreaks, SessionExpires, task
  <1>8. CASE UNCHANGED vars
    BY <1>8 DEF vars, task
  <1> QED
    BY <1>1, <1>2, <1>3, <1>4, <1>5, <1>6, <1>7, <1>8
    DEF Next, TaskStep, PartnerStep, EnvironmentStep

\* Only a session on which a subscription has failed is entered without one.
THEOREM SubscribesOrFailed == Spec => []LoopIsSubscribedOrFailed
  <1>1. Subscribed => LoopIsSubscribedOrFailed
    BY DEF Subscribed, LoopIsSubscribedOrFailed, InLoop
  <1> QED
    BY <1>1, SubscribedInit, SubscribedNext, PTL DEF Spec

------------------------------------------------------------------------------
(* The failure counter *)

\* The counter never exceeds the failures since the last accepted connection.
Counted ==
    /\ failures \in Nat /\ refused \in Nat
    /\ failures < MQTT_REJOIN_FAILURES
    /\ failures <= refused
    /\ refused <= MQTT_REJOIN_FAILURES

LEMMA CountedInit == Init => Counted
  BY TelemetryAssumption DEF Init, Counted

LEMMA CountedFail ==
    ASSUME Counted, FailBackoff
    PROVE  Counted' /\ (rejoin' = rejoin \/ refused' >= MQTT_REJOIN_FAILURES)
  BY TelemetryAssumption DEF Counted, FailBackoff, UpTo

\* Every step keeps the count, and raises a request only at the threshold.
LEMMA CountedNext ==
    ASSUME Counted, [Next]_vars
    PROVE  /\ Counted'
           /\ rejoin' = rejoin \/ ~rejoin' \/ refused' >= MQTT_REJOIN_FAILURES
  <1>1. CASE ConnectFails \/ SubscribeFails \/ ReceiveFails \/ ReplyFails
    BY <1>1, CountedFail DEF ConnectFails, SubscribeFails, ReceiveFails, ReplyFails
  <1>2. CASE ConnectSucceeds
    BY <1>2, TelemetryAssumption DEF ConnectSucceeds, Counted
  <1>3. CASE TakeRejoin
    BY <1>3 DEF TakeRejoin, task, Counted
  <1>4. ASSUME UNCHANGED <<failures, refused, rejoin>> PROVE Counted' /\ rejoin' = rejoin
    BY <1>4 DEF Counted
  <1>5. CASE BackoffEnds \/ StartConnect \/ SubscribeSucceeds \/ Receive \/ TakeChange
    BY <1>4, <1>5
    DEF BackoffEnds, StartConnect, SubscribeSucceeds, Receive, TakeChange, signals
  <1>6. CASE PublishState \/ Reply \/ SendTrigger
    BY <1>4, <1>6 DEF PublishState, Reply, SendTrigger, signals
  <1>7. CASE Commit \/ TakeCommand \/ TakeReset
    BY <1>4, <1>7 DEF Commit, TakeCommand, TakeReset, task
  <1>8. CASE EnvironmentStep \/ UNCHANGED vars
    BY <1>4, <1>8
    DEF EnvironmentStep, Deliver, NetChanges, ConnectionBreaks, SessionExpires,
        vars, task, signals
  <1> QED
    BY <1>1, <1>2, <1>3, <1>5, <1>6, <1>7, <1>8
    DEF Next, TaskStep, PartnerStep

LEMMA CountedAlways == Spec => []Counted
  <1>1. Counted /\ [Next]_vars => Counted'
    BY CountedNext
  <1> QED
    BY <1>1, CountedInit, PTL DEF Spec

\* Neither refused subscriptions nor sessions that are dropped lead to a
\* rejoin request, only connections that are not accepted.
THEOREM RejoinIfUnreachable == Spec => RejoinOnlyUnreachable
  <1>1. Counted /\ [Next]_vars =>
          [rejoin' /\ ~rejoin => refused' >= MQTT_REJOIN_FAILURES]_vars
    BY CountedNext
  <1> QED
    BY <1>1, CountedAlways, PTL DEF Spec, RejoinOnlyUnreachable
------------------------------------------------------------------------------
(* Type correctness, in parts that single steps change together *)

Places ==
    /\ pc \in {"wait_config", "connecting", "subscribing", "select", "publish",
               "reply", "send", "backoff"}
    /\ conn \in {"none", "up", "broken"}
    /\ net \in {"ok", "dead", "down"}
    /\ session \in {"none", "bare", "failed", "subscribed"}
States ==
    /\ commits \in 1..MaxCommits
    /\ signal \in 0..MaxCommits /\ current \in 0..MaxCommits /\ told \in 0..MaxCommits
Inbox == inbox \in Seq(Action) /\ Len(inbox) <= MaxInbox
Requests == channel \in 0..Capacity /\ reset \in BOOLEAN /\ rejoin \in BOOLEAN
Counts == failures \in 0..(MQTT_REJOIN_FAILURES - 1) /\ refused \in 0..MQTT_REJOIN_FAILURES

LEMMA Parameters ==
    /\ Capacity \in Nat /\ Capacity >= 1 /\ MaxInbox \in Nat
    /\ MaxCommits \in Nat /\ MaxCommits >= 1
    /\ MQTT_REJOIN_FAILURES \in Nat /\ MQTT_REJOIN_FAILURES >= 1
  BY TelemetryAssumption

LEMMA PlacesNext == Places /\ [Next]_vars => Places'
  <1> SUFFICES ASSUME Places, [Next]_vars PROVE Places'
    OBVIOUS
  <1> USE DEF Places
  <1>1. CASE BackoffEnds \/ StartConnect
    BY <1>1 DEF BackoffEnds, StartConnect
  <1>2. CASE ConnectFails \/ SubscribeFails \/ ReceiveFails \/ ReplyFails
    BY <1>2 DEF ConnectFails, SubscribeFails, ReceiveFails, ReplyFails, FailBackoff
  <1>3. CASE ConnectSucceeds \/ SubscribeSucceeds
    BY <1>3 DEF ConnectSucceeds, SubscribeSucceeds, Snapshot
  <1>4. CASE Receive \/ TakeChange \/ SendTrigger
    BY <1>4 DEF Receive, TakeChange, SendTrigger
  <1>5. CASE PublishState \/ Reply
    BY <1>5 DEF PublishState, Reply, Arrives, IsLost
  <1>6. CASE PartnerStep
    BY <1>6 DEF PartnerStep, Commit, TakeCommand, TakeReset, TakeRejoin, task
  <1>7. CASE EnvironmentStep
    BY <1>7 DEF EnvironmentStep, Deliver, NetChanges, ConnectionBreaks, SessionExpires, task
  <1>8. CASE UNCHANGED vars
    BY <1>8 DEF vars, task
  <1> QED
    BY <1>1, <1>2, <1>3, <1>4, <1>5, <1>6, <1>7, <1>8 DEF Next, TaskStep

LEMMA StatesNext == States /\ [Next]_vars => States'
  <1> SUFFICES ASSUME States, [Next]_vars PROVE States'
    OBVIOUS
  <1>1. CASE Commit
    BY <1>1, Parameters DEF Commit, task, States
  <1>2. ASSUME commits' = commits, told' \in {told, current},
               current' \in {current, signal}, signal' \in {signal, 0}
        PROVE  States'
    BY <1>2, Parameters DEF States
  <1>3. CASE TaskStep
    BY <1>2, <1>3 DEF TaskStep, BackoffEnds, StartConnect, ConnectFails, ConnectSucceeds,
         SubscribeSucceeds, SubscribeFails, Receive, ReceiveFails, TakeChange,
         PublishState, Reply, ReplyFails, SendTrigger, Snapshot, signals
  <1>4. CASE TakeCommand \/ TakeReset \/ TakeRejoin \/ EnvironmentStep
    BY <1>2, <1>4 DEF TakeCommand, TakeReset, TakeRejoin, EnvironmentStep, Deliver,
         NetChanges, ConnectionBreaks, SessionExpires, task, signals
  <1>5. CASE UNCHANGED vars
    BY <1>2, <1>5 DEF vars, task, signals
  <1> QED
    BY <1>1, <1>3, <1>4, <1>5 DEF Next, PartnerStep

LEMMA InboxNext == Inbox /\ [Next]_vars => Inbox'
  <1> SUFFICES ASSUME Inbox, [Next]_vars PROVE Inbox'
    OBVIOUS
  <1>1. CASE Deliver
    <2>1. PICK action \in Action : inbox' = Append(inbox, action)
      BY <1>1 DEF Deliver
    <2>2. Len(inbox) < MaxInbox
      BY <1>1 DEF Deliver
    <2>3. inbox' \in Seq(Action) /\ Len(inbox') = Len(inbox) + 1
      BY <2>1, AppendProperties DEF Inbox
    <2>4. Len(inbox) \in Nat
      BY LenProperties DEF Inbox
    <2> QED
      BY <2>2, <2>3, <2>4, Parameters DEF Inbox
  <1>2. CASE Receive
    <2>1. inbox # <<>> /\ inbox' = Tail(inbox)
      BY <1>2 DEF Receive
    <2>2. inbox' \in Seq(Action) /\ Len(inbox') = Len(inbox) - 1
      BY <2>1, HeadTailProperties DEF Inbox
    <2> QED
      BY <2>2, LenProperties, Parameters DEF Inbox
  <1>3. CASE ConnectFails \/ SubscribeFails \/ ReceiveFails \/ ReplyFails
    <2>1. inbox' = <<>>
      BY <1>3 DEF ConnectFails, SubscribeFails, ReceiveFails, ReplyFails, FailBackoff
    <2> QED
      BY <2>1, EmptySeq, Parameters DEF Inbox
  <1>4. ASSUME inbox' = inbox PROVE Inbox'
    BY <1>4 DEF Inbox
  <1>5. CASE BackoffEnds \/ StartConnect \/ ConnectSucceeds \/ SubscribeSucceeds
    BY <1>4, <1>5 DEF BackoffEnds, StartConnect, ConnectSucceeds, SubscribeSucceeds
  <1>6. CASE TakeChange \/ PublishState \/ Reply \/ SendTrigger
    BY <1>4, <1>6 DEF TakeChange, PublishState, Reply, SendTrigger
  <1>7. CASE PartnerStep \/ NetChanges \/ ConnectionBreaks \/ SessionExpires \/ UNCHANGED vars
    BY <1>4, <1>7 DEF PartnerStep, Commit, TakeCommand, TakeReset, TakeRejoin,
         NetChanges, ConnectionBreaks, SessionExpires, task, vars
  <1> QED
    BY <1>1, <1>2, <1>3, <1>5, <1>6, <1>7 DEF Next, TaskStep, EnvironmentStep

LEMMA RequestsNext == Requests /\ [Next]_vars => Requests'
  <1> SUFFICES ASSUME Requests, [Next]_vars PROVE Requests'
    OBVIOUS
  <1>1. channel' \in 0..Capacity
    BY Parameters DEF Requests, Next, TaskStep, PartnerStep, EnvironmentStep, BackoffEnds,
       StartConnect, ConnectFails, ConnectSucceeds, SubscribeSucceeds, SubscribeFails,
       Receive, ReceiveFails, TakeChange, PublishState, Reply, ReplyFails, SendTrigger,
       Commit, TakeCommand, TakeReset, TakeRejoin, Deliver, NetChanges,
       ConnectionBreaks, SessionExpires, signals, vars
  <1>2. reset' \in BOOLEAN
    BY DEF Requests, Next, TaskStep, PartnerStep, EnvironmentStep, BackoffEnds,
       StartConnect, ConnectFails, ConnectSucceeds, SubscribeSucceeds, SubscribeFails,
       Receive, ReceiveFails, TakeChange, PublishState, Reply, ReplyFails, SendTrigger,
       Commit, TakeCommand, TakeReset, TakeRejoin, Deliver, NetChanges,
       ConnectionBreaks, SessionExpires, signals, vars
  <1>3. rejoin' \in BOOLEAN
    BY DEF Requests, Next, TaskStep, PartnerStep, EnvironmentStep, BackoffEnds,
       StartConnect, ConnectFails, ConnectSucceeds, SubscribeSucceeds, SubscribeFails,
       Receive, ReceiveFails, TakeChange, PublishState, Reply, ReplyFails, SendTrigger,
       Commit, TakeCommand, TakeReset, TakeRejoin, Deliver, NetChanges,
       ConnectionBreaks, SessionExpires, FailBackoff, signals, vars
  <1> QED
    BY <1>1, <1>2, <1>3 DEF Requests

\* The task, its inbox, the door states, the requests and the counter stay
\* within their types and bounds.
THEOREM TypeCorrect == Spec => []TypeOK
  <1>1. Init => Places /\ States /\ Inbox /\ Requests
    <2> SUFFICES ASSUME Init PROVE Places /\ States /\ Inbox /\ Requests
      OBVIOUS
    <2>1. Places
      BY DEF Init, Places
    <2>2. States
      BY Parameters DEF Init, States
    <2>3. Inbox
      BY EmptySeq, Parameters DEF Init, Inbox
    <2>4. Requests
      <3>1. channel \in 0..Capacity
        BY Parameters DEF Init
      <3>2. reset \in BOOLEAN /\ rejoin \in BOOLEAN
        BY DEF Init
      <3> QED
        BY <3>1, <3>2 DEF Requests
    <2> QED
      BY <2>1, <2>2, <2>3, <2>4
  <1>2. Places /\ States /\ Inbox /\ Requests /\ Counted => TypeOK
    <2> SUFFICES ASSUME Places, States, Inbox, Requests, Counted PROVE TypeOK
      OBVIOUS
    <2>1. Counts
      BY Parameters DEF Counted, Counts
    <2>2. {signal, current, told} \subseteq 0..MaxCommits
      BY DEF States
    <2> QED
      BY <2>1, <2>2 DEF TypeOK, Places, States, Inbox, Requests, Counts
  <1> QED
    BY <1>1, <1>2, PlacesNext, StatesNext, InboxNext, RequestsNext, CountedAlways, PTL
    DEF Spec

------------------------------------------------------------------------------
(* The loops of the codec are functions of a position, of which one gets to the *)
(* value at a position from the values at later ones.                           *)

\* A set of positions has a first one.
LEMMA Least ==
    ASSUME NEW T, T \subseteq Nat, T # {}
    PROVE  \E m \in T : \A y \in T : m <= y
<1>1. PICK n \in T : TRUE
  OBVIOUS
<1> DEFINE S == 0..n
           F == {0..k : k \in T \cap S}
<1>2. IsFiniteSet(S)
  BY <1>1, FS_Interval
<1>3. IsWellFoundedOn(StrictSubsetOrdering(S), SUBSET S)
  BY <1>2, FS_StrictSubsetOrderingWellFounded, FS_FiniteSubsetsOfFinite
<1>4. F \subseteq SUBSET S /\ F # {}
  BY <1>1
<1>5. \E x \in F : \A y \in F : ~(<<y, x>> \in StrictSubsetOrdering(S))
  <2> HIDE DEF F, S, IsWellFoundedOn, StrictSubsetOrdering
  <2> QED
    BY <1>3, <1>4, WFMin
<1>6. PICK m \in T \cap S : \A y \in F : ~(<<y, 0..m>> \in StrictSubsetOrdering(S))
  BY <1>5
<1>7. ASSUME NEW y \in T, y < m PROVE FALSE
  <2>1. 0..y \in F
    BY <1>7
  <2>2. 0..y # 0..m /\ 0..y \subseteq 0..m
    BY <1>7
  <2>3. 0..y \in SUBSET S /\ 0..m \in SUBSET S
    BY <1>4, <1>6, <2>1
  <2>4. <<0..y, 0..m>> \in StrictSubsetOrdering(S)
    BY <2>2, <2>3 DEF StrictSubsetOrdering
  <2> QED
    BY <1>6, <2>1, <2>4
<1> QED
  BY <1>6, <1>7


\* What holds at a position if it does at all later ones holds at each.
LEMMA Downward ==
    ASSUME NEW n \in Nat, NEW Bad, Bad \subseteq 1..n,
           \A k \in 1..n : (\A j \in (k + 1)..n : j \notin Bad) => k \notin Bad
    PROVE  Bad = {}
<1> SUFFICES ASSUME Bad # {} PROVE FALSE
  OBVIOUS
<1> DEFINE T == {n - k : k \in Bad}
<1>1. T \subseteq Nat /\ T # {}
  <2>1. \A k \in Bad : n - k \in Nat
    OBVIOUS
  <2>2. PICK k \in Bad : TRUE
    OBVIOUS
  <2>3. n - k \in T
    BY <2>2
  <2> QED
    BY <2>1, <2>3
<1>2. PICK m \in T : \A y \in T : m <= y
  <2> HIDE DEF T
  <2> QED
    BY <1>1, Least
<1>3. PICK k \in Bad : m = n - k
  BY <1>2
<1>4. \A j \in (k + 1)..n : j \notin Bad
  BY <1>2, <1>3
<1> QED
  BY <1>3, <1>4

\* So there is one function that a loop can be: what it is at a position is
\* determined by what it is at later ones.
AgreeAfter(g, h, k, n) == \A j \in (k + 1)..n : g[j] = h[j]

LEMMA LoopIsUnique ==
    ASSUME NEW n \in Nat, NEW g, NEW h,
           \A k \in 1..n : AgreeAfter(g, h, k, n) => g[k] = h[k]
    PROVE  \A k \in 1..n : g[k] = h[k]
<1> DEFINE Bad == {k \in 1..n : g[k] # h[k]}
<1>1. \A k \in 1..n : (\A j \in (k + 1)..n : j \notin Bad) => k \notin Bad
  <2> SUFFICES ASSUME NEW k \in 1..n, \A j \in (k + 1)..n : j \notin Bad
               PROVE  k \notin Bad
    OBVIOUS
  <2>1. ASSUME NEW j \in (k + 1)..n PROVE g[j] = h[j]
    <3>1. j \in 1..n
      OBVIOUS
    <3>2. j \notin Bad
      <4> HIDE DEF Bad
      <4> QED
        OBVIOUS
    <3> QED
      BY <3>1, <3>2
  <2>2. g[k] = h[k]
    BY <2>1 DEF AgreeAfter
  <2> QED
    BY <2>2
<1>2. Bad = {}
  <2>1. Bad \subseteq 1..n
    OBVIOUS
  <2> HIDE DEF Bad
  <2> QED
    BY <1>1, <2>1, Downward
<1> QED
  BY <1>2

\* And there is one: with any turn that stays in G, which may say what else the
\* results are.
LEMMA LoopExists ==
    ASSUME NEW n \in Nat, NEW G, G # {}, NEW F \in [G -> G],
           \A g \in G : g = [k \in 1..n |-> g[k]],
           \A g \in G, h \in G : \A k \in 1..n :
              AgreeAfter(g, h, k, n) => F[g][k] = F[h][k]
    PROVE  \E g \in G : F[g] = g
<1> DEFINE Settled(g, m) == \A k \in (m + 1)..n : F[g][k] = g[k]
           T == {m \in 0..n : \E g \in G : Settled(g, m)}
<1>1. n \in T
  OBVIOUS
<1>2. PICK m \in T : \A y \in T : m <= y
  <2>1. T \subseteq Nat /\ T # {}
    BY <1>1
  <2> HIDE DEF T
  <2> QED
    BY <2>1, Least
<1>3. PICK g \in G : Settled(g, m)
  BY <1>2
<1>4. ASSUME m # 0 PROVE FALSE
  <2> DEFINE h == F[g]
  <2>1. h \in G
    OBVIOUS
  <2>2. \A k \in (m + 1)..n : g[k] = h[k]
    BY <1>3
  <2>3. ASSUME NEW k \in m..n PROVE F[h][k] = h[k]
    <3>1. k \in 1..n /\ AgreeAfter(g, h, k, n)
      BY <1>2, <1>4, <2>2 DEF AgreeAfter
    <3> QED
      BY <2>1, <3>1
  <2>4. m - 1 \in 0..n /\ (m - 1) + 1 = m
    BY <1>2, <1>4
  <2>5. m - 1 \in T
    BY <2>1, <2>3, <2>4
  <2> QED
    BY <1>2, <2>4, <2>5
<1>5. m = 0 /\ \A k \in 1..n : F[g][k] = g[k]
  BY <1>3, <1>4
<1>6. F[g] \in G
  OBVIOUS
<1>7. F[g] = [k \in 1..n |-> F[g][k]] /\ g = [k \in 1..n |-> g[k]]
  BY <1>6
<1>8. [k \in 1..n |-> F[g][k]] = [k \in 1..n |-> g[k]]
  BY <1>5
<1> QED
  BY <1>7, <1>8

\* White space and digits end where the first other unit is.
LEMMA PastIs ==
    ASSUME NEW t \in Seq(Unit), NEW units, "end" \notin units, NEW i \in Positions(t)
    PROVE  /\ Past(units, t, i) \in i..(Len(t) + 1)
           /\ peek(t, Past(units, t, i)) \notin units
           /\ \A k \in i..(Past(units, t, i) - 1) : t[k] \in units
<1> DEFINE T == {j \in i..(Len(t) + 1) : peek(t, j) \notin units}
<1>1. i \in Nat /\ Len(t) \in Nat /\ i <= Len(t) + 1 /\ DOMAIN t = 1..Len(t) /\ i >= 1
  BY DEF Positions
<1>2. Len(t) + 1 \in T
  BY <1>1 DEF peek
<1>3. PICK j \in T : \A y \in T : j <= y
  <2>1. T \subseteq Nat /\ T # {}
    BY <1>1, <1>2
  <2> HIDE DEF T
  <2> QED
    BY <2>1, Least
<1>4. ASSUME NEW k \in i..(j - 1) PROVE t[k] \in units
  <2>1. k \in i..(Len(t) + 1) /\ k \in 1..Len(t) /\ ~(j <= k)
    BY <1>1, <1>3
  <2>2. k \notin T
    BY <1>3, <2>1
  <2>3. peek(t, k) = t[k]
    BY <1>1, <2>1 DEF peek
  <2> QED
    BY <2>1, <2>2, <2>3
<1>5. j \in i..(Len(t) + 1) /\ peek(t, j) \notin units
  BY <1>3
<1> HIDE DEF T
<1> QED
  BY <1>4, <1>5, Zenon DEF Past

LEMMA PastEnds ==
    ASSUME NEW t \in Seq(Unit), NEW units, "end" \notin units, NEW i \in Positions(t),
           NEW e \in i..(Len(t) + 1), \A k \in i..(e - 1) : t[k] \in units,
           peek(t, e) \notin units
    PROVE  Past(units, t, i) = e
<1> DEFINE j == Past(units, t, i)
<1>1. /\ j \in i..(Len(t) + 1) /\ peek(t, j) \notin units
      /\ \A k \in i..(j - 1) : t[k] \in units
  BY PastIs
<1>2. i \in Nat /\ Len(t) \in Nat /\ i >= 1 /\ DOMAIN t = 1..Len(t)
  BY DEF Positions
<1> HIDE DEF j
<1>3. ~(j < e)
  <2> SUFFICES ASSUME j < e PROVE FALSE
    OBVIOUS
  <2>1. j \in i..(e - 1) /\ j \in DOMAIN t
    BY <1>1, <1>2
  <2> QED
    BY <1>1, <2>1 DEF peek
<1>4. ~(e < j)
  <2> SUFFICES ASSUME e < j PROVE FALSE
    OBVIOUS
  <2>1. e \in i..(j - 1) /\ e \in DOMAIN t
    BY <1>1, <1>2
  <2> QED
    BY <1>1, <2>1 DEF peek
<1>5. j = e
  BY <1>1, <1>2, <1>3, <1>4
<1> QED
  BY <1>5 DEF j

\* White space, as far as parse_value and its callers are concerned.
LEMMA SkipWs ==
    ASSUME NEW t \in Seq(Unit), NEW i \in Positions(t)
    PROVE  /\ skip_ws(t, i) \in i..(Len(t) + 1)
           /\ peek(t, i) \notin White => skip_ws(t, i) = i
<1>1. "end" \notin White
  BY DEF White
<1>2. skip_ws(t, i) \in i..(Len(t) + 1)
  BY <1>1, PastIs DEF skip_ws
<1>3. ASSUME peek(t, i) \notin White PROVE skip_ws(t, i) = i
  <2>1. i \in i..(Len(t) + 1) /\ \A k \in i..(i - 1) : t[k] \in White
    BY DEF Positions
  <2> QED
    BY <1>1, <1>3, <2>1, PastEnds DEF skip_ws
<1> QED
  BY <1>2, <1>3

\* A number is not empty and ends within the text.
LEMMA SkipDigits ==
    ASSUME NEW t \in Seq(Unit), NEW i \in Nat
    PROVE  skip_digits(t, i) = Fail \/ skip_digits(t, i) \in (i + 1)..(Len(t) + 1)
<1> SUFFICES ASSUME peek(t, i) = "dig"
             PROVE  skip_digits(t, i) \in (i + 1)..(Len(t) + 1)
  BY DEF skip_digits
<1> DEFINE j == Past({"dig"}, t, i)
<1>1. i \in DOMAIN t /\ i \in Positions(t) /\ i >= 1 /\ i <= Len(t) /\ Len(t) \in Nat
  BY DEF peek, Positions
<1>2. j \in i..(Len(t) + 1) /\ peek(t, j) \notin {"dig"}
  <2>1. "end" \notin {"dig"}
    OBVIOUS
  <2> QED
    BY <1>1, <2>1, PastIs
<1>3. skip_digits(t, i) = j
  BY DEF skip_digits
<1> HIDE DEF j
<1>4. j # i
  BY <1>2
<1> QED
  BY <1>1, <1>2, <1>3, <1>4

LEMMA SkipNumber ==
    ASSUME NEW t \in Seq(Unit), NEW i \in Nat
    PROVE  skip_number(t, i) = Fail \/ skip_number(t, i) \in (i + 1)..(Len(t) + 1)
<1> DEFINE from     == IF peek(t, i) = "-" THEN i + 1 ELSE i
           digits   == skip_digits(t, from)
           fraction == IF peek(t, digits) = "." THEN skip_digits(t, digits + 1) ELSE digits
           exponent == IF peek(t, fraction + 1) = "-" THEN fraction + 2 ELSE fraction + 1
           last     == skip_digits(t, exponent)
<1>1. skip_number(t, i) = IF digits = Fail \/ fraction = Fail THEN Fail
                          ELSE IF peek(t, fraction) = "e" THEN last ELSE fraction
  BY DEF skip_number
<1> SUFFICES ASSUME digits # Fail, fraction # Fail, last # Fail \/ peek(t, fraction) # "e"
             PROVE  skip_number(t, i) \in (i + 1)..(Len(t) + 1)
  BY <1>1
<1>2. from \in Nat /\ from >= i
  OBVIOUS
<1>3. digits \in (i + 1)..(Len(t) + 1)
  <2>1. digits \in (from + 1)..(Len(t) + 1)
    BY <1>2, SkipDigits
  <2> HIDE DEF digits, from
  <2> QED
    BY <1>2, <2>1
<1> HIDE DEF digits
<1>4. fraction \in (i + 1)..(Len(t) + 1)
  <2>1. CASE peek(t, digits) = "."
    <3>1. digits + 1 \in Nat
      BY <1>3
    <3>2. fraction \in (digits + 1 + 1)..(Len(t) + 1)
      BY <2>1, <3>1, SkipDigits
    <3> QED
      BY <1>3, <3>2
  <2> QED
    BY <1>3, <2>1
<1> HIDE DEF fraction
<1>5. CASE peek(t, fraction) = "e"
  <2>1. exponent \in Nat /\ exponent >= fraction
    BY <1>4
  <2>2. last \in (exponent + 1)..(Len(t) + 1)
    BY <1>5, <2>1, SkipDigits
  <2> HIDE DEF exponent, last
  <2> QED
    BY <1>1, <1>4, <1>5, <2>1, <2>2
<1> QED
  BY <1>1, <1>4, <1>5

------------------------------------------------------------------------------
(* parse_string_raw *)

\* What string_end may be: a string ends after its closing quote, and no raw
\* control character is in it.
EndsString(t, i, e) ==
    /\ e \in (i + 1)..(Len(t) + 1) /\ t[e - 1] = "q"
    /\ \A k \in i..(e - 2) : t[k] \notin {"raw", "nl"}

StringEnds(t) ==
    {end \in [Positions(t) -> 0..(Len(t) + 1)] :
        \A i \in Positions(t) : end[i] # Fail => EndsString(t, i, end[i])}

\* A turn of the loop goes on from a later position.
LEMMA TurnGoesOn ==
    ASSUME NEW t \in Seq(Unit), NEW i \in Positions(t)
    PROVE  /\ peek(t, i) # "end" => i + 1 \in (i + 1)..(Len(t) + 1)
           /\ peek(t, i) # "end" /\ peek(t, i + 1) # "end" =>
                i + 2 \in (i + 1)..(Len(t) + 1)
           /\ (\A k \in 1..HexDigits : peek(t, i + 1 + k) \in Hex) =>
                i + 2 + HexDigits \in (i + 1)..(Len(t) + 1)
<1>1. i \in Nat /\ i >= 1 /\ Len(t) \in Nat /\ DOMAIN t = 1..Len(t) /\ HexDigits \in Nat \ {0}
  BY CodecAssumption DEF Positions
<1>2. \A k : peek(t, k) # "end" => k \in 1..Len(t)
  BY <1>1 DEF peek
<1>3. ASSUME \A k \in 1..HexDigits : peek(t, i + 1 + k) \in Hex
      PROVE  i + 2 + HexDigits \in (i + 1)..(Len(t) + 1)
  <2>1. peek(t, i + 1 + HexDigits) \in Hex
    <3>1. HexDigits \in 1..HexDigits
      BY <1>1
    <3> QED
      BY <1>3, <3>1, Zenon
  <2>2. peek(t, i + 1 + HexDigits) # "end"
    BY <2>1 DEF Hex
  <2>3. i + 1 + HexDigits \in 1..Len(t)
    BY <1>2, <2>2
  <2> QED
    BY <1>1, <2>3
<1>4. peek(t, i) # "end" => i + 1 \in (i + 1)..(Len(t) + 1)
  BY <1>1, <1>2
<1>5. peek(t, i + 1) # "end" => i + 2 \in (i + 1)..(Len(t) + 1)
  BY <1>1, <1>2
<1> QED
  BY <1>3, <1>4, <1>5

LEMMA StringTurnStays ==
    ASSUME NEW t \in Seq(Unit), NEW end \in StringEnds(t), NEW i \in Positions(t),
           string_turn(t, end, i) # Fail
    PROVE  EndsString(t, i, string_turn(t, end, i))
<1> SUFFICES ASSUME NEW turn, turn = string_turn(t, end, i), turn # Fail
             PROVE  EndsString(t, i, turn)
  OBVIOUS
<1>1. i \in Nat /\ i >= 1 /\ Len(t) \in Nat /\ DOMAIN t = 1..Len(t) /\ HexDigits \in Nat \ {0}
  BY CodecAssumption DEF Positions
<1>2. \A k \in 1..Len(t) : peek(t, k) = t[k]
  BY <1>1 DEF peek
\* It goes on after units that may be in a string.
<1>3. ASSUME NEW j \in (i + 1)..(Len(t) + 1), turn = end[j],
             \A k \in i..(j - 1) : t[k] \notin {"raw", "nl"}
      PROVE  EndsString(t, i, turn)
  <2>1. j \in Positions(t) /\ end[j] # Fail
    BY <1>1, <1>3 DEF Positions
  <2>2. EndsString(t, j, end[j])
    BY <2>1 DEF StringEnds
  <2> DEFINE e == end[j]
  <2>3. e \in (j + 1)..(Len(t) + 1) /\ t[e - 1] = "q"
        /\ \A k \in j..(e - 2) : t[k] \notin {"raw", "nl"}
    BY <2>2 DEF EndsString
  <2>4. turn = e
    BY <1>3
  <2> HIDE DEF e
  <2>5. e \in (i + 1)..(Len(t) + 1)
    BY <1>1, <2>3
  <2>6. ASSUME NEW k \in i..(e - 2) PROVE t[k] \notin {"raw", "nl"}
    <3>1. k \in i..(j - 1) \/ k \in j..(e - 2)
      BY <1>1, <2>3
    <3> QED
      BY <1>3, <2>3, <3>1
  <2> QED
    BY <2>3, <2>4, <2>5, <2>6 DEF EndsString
<1>4. CASE peek(t, i) = "q"
  <2>1. turn = i + 1
    BY <1>4 DEF string_turn
  <2>2. i \in 1..Len(t) /\ t[i] = "q"
    BY <1>1, <1>4 DEF peek
  <2>3. turn \in (i + 1)..(Len(t) + 1) /\ turn - 1 = i /\ i..(turn - 2) = {}
    BY <1>1, <2>1, <2>2
  <2> QED
    BY <2>2, <2>3 DEF EndsString
<1>5. CASE peek(t, i) = "bs" /\ peek(t, i + 1) \in Escape
  <2>1. turn = end[i + 2]
    BY <1>5 DEF string_turn, Escape
  <2>2. PICK j \in (i + 1)..(Len(t) + 1) : j = i + 2
    BY <1>5, TurnGoesOn DEF Escape
  <2>3. ASSUME NEW k \in i..(j - 1) PROVE t[k] \notin {"raw", "nl"}
    <3>1. k = i \/ k = i + 1
      BY <1>1, <2>2
    <3>2. peek(t, k) = t[k]
      BY <1>1, <1>2, <2>2
    <3> QED
      BY <1>5, <3>1, <3>2 DEF Escape
  <2> QED
    BY <1>3, <2>1, <2>2, <2>3
<1>6. CASE /\ peek(t, i) = "bs" /\ peek(t, i + 1) = "u"
           /\ \A k \in 1..HexDigits : peek(t, i + 1 + k) \in Hex
  <2>1. turn = end[i + 2 + HexDigits]
    BY <1>6 DEF string_turn, Escape
  <2>2. PICK j \in (i + 1)..(Len(t) + 1) : j = i + 2 + HexDigits
    BY <1>6, TurnGoesOn
  <2>3. ASSUME NEW k \in i..(j - 1) PROVE t[k] \notin {"raw", "nl"}
    <3>1. k = i \/ k = i + 1 \/ k - i - 1 \in 1..HexDigits
      BY <1>1, <2>2
    <3>2. k \in 1..Len(t)
      BY <1>1, <2>2
    <3>3. peek(t, k) = t[k]
      BY <1>2, <3>2
    <3>4. CASE k - i - 1 \in 1..HexDigits
      <4>1. peek(t, i + 1 + (k - i - 1)) \in Hex
        BY <1>6, <3>4
      <4>2. i + 1 + (k - i - 1) = k
        BY <1>1, <3>2
      <4> QED
        BY <3>3, <4>1, <4>2 DEF Hex
    <3> QED
      BY <1>6, <3>1, <3>3, <3>4
  <2> QED
    BY <1>3, <2>1, <2>2, <2>3
<1>7. CASE peek(t, i) \notin {"q", "bs", "end", "raw", "nl"}
  <2>1. turn = end[i + 1]
    BY <1>7 DEF string_turn
  <2>2. PICK j \in (i + 1)..(Len(t) + 1) : j = i + 1
    BY <1>7, TurnGoesOn
  <2>3. ASSUME NEW k \in i..(j - 1) PROVE t[k] \notin {"raw", "nl"}
    <3>1. k = i /\ peek(t, k) = t[k]
      BY <1>1, <1>2, <2>2
    <3> QED
      BY <1>7, <3>1
  <2> QED
    BY <1>3, <2>1, <2>2, <2>3
<1> DEFINE quote  == peek(t, i) = "q"
           escape == peek(t, i) = "bs" /\ peek(t, i + 1) \in Escape
           hex    == /\ peek(t, i) = "bs" /\ peek(t, i + 1) = "u"
                     /\ \A k \in 1..HexDigits : peek(t, i + 1 + k) \in Hex
           plain  == peek(t, i) \notin {"q", "bs", "end", "raw", "nl"}
<1>8. CASE ~(quote \/ escape \/ hex \/ plain)
  <2>1. turn = CASE quote -> i + 1 [] escape -> end[i + 2]
                 [] hex -> end[i + 2 + HexDigits] [] plain -> end[i + 1] [] OTHER -> Fail
    BY DEF string_turn
  <2> HIDE DEF quote, escape, hex, plain
  <2>2. turn = Fail
    BY <1>8, <2>1
  <2> QED
    BY <2>2
<1> QED
  BY <1>4, <1>5, <1>6, <1>7, <1>8

LEMMA StringTurnAgrees ==
    ASSUME NEW t \in Seq(Unit), NEW g, NEW h, NEW i \in Positions(t),
           AgreeAfter(g, h, i, Len(t) + 1)
    PROVE  string_turn(t, g, i) = string_turn(t, h, i)
<1>1. CASE peek(t, i) = "q"
  BY <1>1 DEF string_turn
<1>2. CASE peek(t, i) = "bs" /\ peek(t, i + 1) \in Escape
  <2>1. g[i + 2] = h[i + 2]
    BY <1>2, TurnGoesOn DEF AgreeAfter, Escape
  <2> QED
    BY <1>2, <2>1 DEF string_turn
<1>3. CASE /\ peek(t, i) = "bs" /\ peek(t, i + 1) = "u"
           /\ \A k \in 1..HexDigits : peek(t, i + 1 + k) \in Hex
  <2>1. g[i + 2 + HexDigits] = h[i + 2 + HexDigits]
    BY <1>3, TurnGoesOn DEF AgreeAfter
  <2> QED
    BY <1>3, <2>1 DEF string_turn, Escape
<1>4. CASE peek(t, i) \notin {"q", "bs", "end", "raw", "nl"}
  <2>1. g[i + 1] = h[i + 1]
    BY <1>4, TurnGoesOn DEF AgreeAfter
  <2> QED
    BY <1>4, <2>1 DEF string_turn
<1>5. CASE ~( \/ peek(t, i) = "q"
              \/ peek(t, i) = "bs" /\ peek(t, i + 1) \in Escape
              \/ /\ peek(t, i) = "bs" /\ peek(t, i + 1) = "u"
                 /\ \A k \in 1..HexDigits : peek(t, i + 1 + k) \in Hex
              \/ peek(t, i) \notin {"q", "bs", "end", "raw", "nl"})
  BY <1>5 DEF string_turn
<1> QED
  BY <1>1, <1>2, <1>3, <1>4, <1>5

\* So string_end is the loop it is written as.
LEMMA StringEnd ==
    ASSUME NEW t \in Seq(Unit)
    PROVE  \E end \in StringEnds(t) : \A i \in Positions(t) :
             /\ string_end(t, i) = end[i]
             /\ end[i] = string_turn(t, end, i)
<1> DEFINE F == [g \in StringEnds(t) |-> [i \in Positions(t) |-> string_turn(t, g, i)]]
<1>1. PICK n \in Nat : n = Len(t) + 1 /\ Positions(t) = 1..n /\ Len(t) \in Nat
  BY DEF Positions
<1>2. [i \in Positions(t) |-> Fail] \in StringEnds(t)
  BY <1>1 DEF StringEnds, Fail
<1>3. F \in [StringEnds(t) -> StringEnds(t)]
  <2> SUFFICES ASSUME NEW g \in StringEnds(t)
               PROVE  [i \in Positions(t) |-> string_turn(t, g, i)] \in StringEnds(t)
    OBVIOUS
  <2>1. ASSUME NEW i \in Positions(t), string_turn(t, g, i) # Fail
        PROVE  EndsString(t, i, string_turn(t, g, i))
    BY <2>1, StringTurnStays
  <2>2. ASSUME NEW i \in Positions(t) PROVE string_turn(t, g, i) \in 0..(Len(t) + 1)
    <3> DEFINE e == string_turn(t, g, i)
    <3>1. e # Fail => e \in (i + 1)..(Len(t) + 1)
      BY <2>1 DEF EndsString
    <3> HIDE DEF e
    <3>2. e \in 0..(Len(t) + 1)
      BY <1>1, <3>1 DEF Fail
    <3> QED
      BY <3>2 DEF e
  <2> QED
    BY <2>1, <2>2 DEF StringEnds
<1>4. \A g \in StringEnds(t) : g = [k \in 1..n |-> g[k]]
  BY <1>1 DEF StringEnds
<1>5. ASSUME NEW g \in StringEnds(t), NEW h, NEW k \in 1..n, AgreeAfter(g, h, k, n)
      PROVE  string_turn(t, g, k) = string_turn(t, h, k)
  BY <1>1, <1>5, StringTurnAgrees
<1>6. PICK end \in StringEnds(t) : F[end] = end
  <2>1. \A g \in StringEnds(t), h \in StringEnds(t) : \A k \in 1..n :
          AgreeAfter(g, h, k, n) => F[g][k] = F[h][k]
    BY <1>1, <1>5
  <2>2. n \in Nat /\ StringEnds(t) # {}
    BY <1>1, <1>2
  <2> HIDE DEF F
  <2> QED
    BY <1>3, <1>4, <2>1, <2>2, LoopExists, Zenon
<1>7. end = [i \in Positions(t) |-> string_turn(t, end, i)]
  BY <1>6
<1>8. PICK loop : /\ loop = [i \in Positions(t) |-> string_turn(t, loop, i)]
                  /\ \A i : string_end(t, i) = loop[i]
  <2> DEFINE choice == CHOOSE g : g = [i \in Positions(t) |-> string_turn(t, g, i)]
  <2>1. choice = [i \in Positions(t) |-> string_turn(t, choice, i)]
    BY <1>7, Zenon
  <2>2. \A i : string_end(t, i) = choice[i]
    BY Zenon DEF string_end
  <2> HIDE DEF choice
  <2> QED
    BY <2>1, <2>2, Zenon
<1> HIDE DEF F
<1>9. \A k \in 1..n : end[k] = loop[k]
  <2>1. \A k \in 1..n : AgreeAfter(end, loop, k, n) => end[k] = loop[k]
    <3> SUFFICES ASSUME NEW k \in 1..n, AgreeAfter(end, loop, k, n)
                 PROVE  end[k] = loop[k]
      OBVIOUS
    <3>1. end[k] = string_turn(t, end, k)
      BY <1>1, <1>7, Zenon
    <3>2. loop[k] = string_turn(t, loop, k)
      BY <1>1, <1>8, Zenon
    <3> QED
      BY <1>5, <3>1, <3>2
  <2> QED
    BY <2>1, LoopIsUnique
<1>10. \A i \in Positions(t) : end[i] = string_turn(t, end, i)
  BY <1>7, Zenon
<1> QED
  BY <1>1, <1>8, <1>9, <1>10

LEMMA StringShape ==
    ASSUME NEW t \in Seq(Unit), NEW i \in Positions(t)
    PROVE  /\ string_end(t, i) = Fail \/ EndsString(t, i, string_end(t, i))
           /\ string_end(t, i) \in 0..(Len(t) + 1)
<1>1. PICK end \in StringEnds(t) : \A k \in Positions(t) : string_end(t, k) = end[k]
  BY StringEnd
<1> QED
  BY <1>1 DEF StringEnds

\* A turn that does not fail, and where the string goes on if it does.
LEMMA StringGoesOn ==
    ASSUME NEW t \in Seq(Unit), NEW i \in Positions(t), string_end(t, i) # Fail
    PROVE  \/ peek(t, i) = "q" /\ string_end(t, i) = i + 1
           \/ /\ peek(t, i) = "bs" /\ peek(t, i + 1) \in Escape
              /\ i + 2 \in Positions(t) /\ string_end(t, i) = string_end(t, i + 2)
           \/ /\ peek(t, i) = "bs" /\ peek(t, i + 1) = "u"
              /\ \A k \in 1..HexDigits : peek(t, i + 1 + k) \in Hex
              /\ i + 2 + HexDigits \in Positions(t)
              /\ string_end(t, i) = string_end(t, i + 2 + HexDigits)
           \/ /\ peek(t, i) \notin {"q", "bs", "end", "raw", "nl"}
              /\ i + 1 \in Positions(t) /\ string_end(t, i) = string_end(t, i + 1)
<1>1. PICK end \in StringEnds(t) :
        \A k \in Positions(t) : string_end(t, k) = end[k] /\ end[k] = string_turn(t, end, k)
  BY StringEnd
<1>2. string_end(t, i) = string_turn(t, end, i)
  BY <1>1
<1>3. \A k \in (i + 1)..(Len(t) + 1) : k \in Positions(t) /\ string_end(t, k) = end[k]
  <2>1. \A k \in (i + 1)..(Len(t) + 1) : k \in Positions(t)
    BY DEF Positions
  <2> QED
    BY <1>1, <2>1
<1> DEFINE quote  == peek(t, i) = "q"
           escape == peek(t, i) = "bs" /\ peek(t, i + 1) \in Escape
           hex    == /\ peek(t, i) = "bs" /\ peek(t, i + 1) = "u"
                     /\ \A k \in 1..HexDigits : peek(t, i + 1 + k) \in Hex
           plain  == peek(t, i) \notin {"q", "bs", "end", "raw", "nl"}
<1>4. /\ escape => i + 2 \in (i + 1)..(Len(t) + 1)
      /\ hex => i + 2 + HexDigits \in (i + 1)..(Len(t) + 1)
      /\ plain => i + 1 \in (i + 1)..(Len(t) + 1)
  BY TurnGoesOn DEF Escape
<1>5. string_turn(t, end, i) =
        CASE quote -> i + 1 [] escape -> end[i + 2]
          [] hex -> end[i + 2 + HexDigits] [] plain -> end[i + 1] [] OTHER -> Fail
  BY DEF string_turn
<1>6. /\ quote => ~escape /\ ~hex /\ ~plain
      /\ escape => ~hex /\ ~plain
      /\ hex => ~plain
  BY DEF Escape
<1>7. \/ quote /\ string_end(t, i) = i + 1
      \/ escape /\ string_end(t, i) = end[i + 2]
      \/ hex /\ string_end(t, i) = end[i + 2 + HexDigits]
      \/ plain /\ string_end(t, i) = end[i + 1]
  <2> HIDE DEF quote, escape, hex, plain
  <2> QED
    BY <1>2, <1>5, <1>6
<1>8. CASE escape /\ string_end(t, i) = end[i + 2]
  BY <1>3, <1>4, <1>8
<1>9. CASE hex /\ string_end(t, i) = end[i + 2 + HexDigits]
  BY <1>3, <1>4, <1>9
<1>10. CASE plain /\ string_end(t, i) = end[i + 1]
  BY <1>3, <1>4, <1>10
<1> QED
  BY <1>7, <1>8, <1>9, <1>10

\* And a string is one where such a turn leads to the end of one.
LEMMA StringIs ==
    ASSUME NEW t \in Seq(Unit), NEW i \in Positions(t)
    PROVE  /\ peek(t, i) = "q" => string_end(t, i) = i + 1
           /\ peek(t, i) = "bs" /\ peek(t, i + 1) \in Escape =>
                string_end(t, i) = string_end(t, i + 2)
           /\ /\ peek(t, i) = "bs" /\ peek(t, i + 1) = "u"
              /\ \A k \in 1..HexDigits : peek(t, i + 1 + k) \in Hex
              => string_end(t, i) = string_end(t, i + 2 + HexDigits)
           /\ peek(t, i) \notin {"q", "bs", "end", "raw", "nl"} =>
                string_end(t, i) = string_end(t, i + 1)
<1>1. PICK end \in StringEnds(t) :
        \A k \in Positions(t) : string_end(t, k) = end[k] /\ end[k] = string_turn(t, end, k)
  BY StringEnd
<1>2. string_end(t, i) = string_turn(t, end, i)
  BY <1>1
<1>3. \A k \in (i + 1)..(Len(t) + 1) : string_end(t, k) = end[k]
  <2>1. \A k \in (i + 1)..(Len(t) + 1) : k \in Positions(t)
    BY DEF Positions
  <2> QED
    BY <1>1, <2>1
<1> DEFINE quote  == peek(t, i) = "q"
           escape == peek(t, i) = "bs" /\ peek(t, i + 1) \in Escape
           hex    == /\ peek(t, i) = "bs" /\ peek(t, i + 1) = "u"
                     /\ \A k \in 1..HexDigits : peek(t, i + 1 + k) \in Hex
           plain  == peek(t, i) \notin {"q", "bs", "end", "raw", "nl"}
<1>4. /\ escape => string_end(t, i + 2) = end[i + 2]
      /\ hex => string_end(t, i + 2 + HexDigits) = end[i + 2 + HexDigits]
      /\ plain => string_end(t, i + 1) = end[i + 1]
  <2>1. escape => i + 2 \in (i + 1)..(Len(t) + 1)
    BY TurnGoesOn DEF Escape
  <2>2. hex => i + 2 + HexDigits \in (i + 1)..(Len(t) + 1)
    BY TurnGoesOn
  <2>3. plain => i + 1 \in (i + 1)..(Len(t) + 1)
    BY TurnGoesOn
  <2> HIDE DEF escape, hex, plain
  <2> QED
    BY <1>3, <2>1, <2>2, <2>3
<1>5. string_turn(t, end, i) =
        CASE quote -> i + 1 [] escape -> end[i + 2]
          [] hex -> end[i + 2 + HexDigits] [] plain -> end[i + 1] [] OTHER -> Fail
  BY DEF string_turn
<1>6. /\ quote => ~escape /\ ~hex /\ ~plain
      /\ escape => ~hex /\ ~plain
      /\ hex => ~plain
  BY DEF Escape
<1>7. /\ quote => string_end(t, i) = i + 1
      /\ escape => string_end(t, i) = string_end(t, i + 2)
      /\ hex => string_end(t, i) = string_end(t, i + 2 + HexDigits)
      /\ plain => string_end(t, i) = string_end(t, i + 1)
  <2> HIDE DEF quote, escape, hex, plain
  <2> QED
    BY <1>2, <1>4, <1>5, <1>6
<1> QED
  BY <1>7

\* A string is the same in any text: what is around it does not matter.
LEMMA SameString ==
    ASSUME NEW t \in Seq(Unit), NEW r \in Seq(Unit), NEW i \in Positions(t), NEW d \in Int,
           string_end(t, i) # Fail, i + d >= 1, string_end(t, i) + d <= Len(r) + 1,
           \A k \in i..(string_end(t, i) - 1) : r[k + d] = t[k]
    PROVE  string_end(r, i + d) = string_end(t, i) + d
<1> DEFINE e   == string_end(t, i)
           n   == Len(t) + 1
           Bad == {k \in i..n : string_end(t, k) = e /\ string_end(r, k + d) # e + d}
<1>1. i \in Nat /\ i >= 1 /\ n \in Nat /\ Len(t) \in Nat /\ Len(r) \in Nat
      /\ DOMAIN t = 1..Len(t) /\ DOMAIN r = 1..Len(r) /\ HexDigits \in Nat \ {0}
  BY CodecAssumption DEF Positions
<1>2. e \in (i + 1)..n /\ e # Fail
  BY StringShape DEF EndsString
<1>3. \A k \in i..(e - 1) : /\ peek(r, k + d) = peek(t, k)
                            /\ k + d \in Positions(r)
  <2> SUFFICES ASSUME NEW k \in i..(e - 1)
               PROVE  peek(r, k + d) = peek(t, k) /\ k + d \in Positions(r)
    OBVIOUS
  <2>1. r[k + d] = t[k]
    OBVIOUS
  <2>2. e + d <= Len(r) + 1
    OBVIOUS
  <2> HIDE DEF e
  <2>3. k \in 1..Len(t) /\ k + d \in 1..Len(r)
    BY <1>1, <1>2, <2>2
  <2> QED
    BY <1>1, <2>1, <2>3 DEF peek, Positions
<1> HIDE DEF e
<1>4. ASSUME NEW k \in 1..n, \A j \in (k + 1)..n : j \notin Bad, k \in Bad PROVE FALSE
  <2>1. k \in i..n /\ string_end(t, k) = e /\ string_end(r, k + d) # e + d
    BY <1>4
  <2>2. \A j \in (k + 1)..n : string_end(t, j) = e => string_end(r, j + d) = e + d
    <3>1. \A j \in (k + 1)..n : j \in i..n
      BY <1>1, <2>1
    <3> QED
      BY <1>4, <3>1
  <2>3. k \in Positions(t)
    BY DEF Positions
  \* What is read at this turn is before the end.
  <2>4. e \in (k + 1)..n
    BY <1>2, <2>1, <2>3, StringShape DEF EndsString
  <2>5. peek(r, k + d) = peek(t, k) /\ k + d \in Positions(r)
    BY <1>1, <1>3, <2>1, <2>4
  <2>6. CASE peek(t, k) = "q" /\ string_end(t, k) = k + 1
    <3>1. string_end(r, k + d) = (k + d) + 1
      BY <2>5, <2>6, StringIs
    <3> QED
      BY <1>1, <2>1, <2>6, <3>1
  <2>7. ASSUME NEW j \in Positions(t), j > k, string_end(t, k) = string_end(t, j)
        PROVE  string_end(r, j + d) = e + d /\ e > j
    <3>1. string_end(t, j) = e
      BY <2>1, <2>7
    <3>2. j \in (k + 1)..n
      BY <1>1, <2>7 DEF Positions
    <3>3. e \in (j + 1)..n
      BY <1>2, <2>7, <3>1, StringShape DEF EndsString
    <3> QED
      BY <1>1, <2>2, <3>1, <3>2, <3>3
  <2>8. CASE /\ peek(t, k) = "bs" /\ peek(t, k + 1) \in Escape
             /\ k + 2 \in Positions(t) /\ string_end(t, k) = string_end(t, k + 2)
    <3>1. string_end(r, k + 2 + d) = e + d /\ e > k + 2
      BY <1>1, <2>7, <2>8
    <3>2. peek(r, k + 1 + d) = peek(t, k + 1)
      BY <1>1, <1>2, <1>3, <2>1, <3>1
    <3>3. k + d + 1 = k + 1 + d /\ k + d + 2 = k + 2 + d
      OBVIOUS
    <3>4. string_end(r, k + d) = e + d
      BY <2>5, <2>8, <3>1, <3>2, <3>3, StringIs
    <3> QED
      BY <2>1, <3>4
  <2>9. CASE /\ peek(t, k) = "bs" /\ peek(t, k + 1) = "u"
             /\ \A m \in 1..HexDigits : peek(t, k + 1 + m) \in Hex
             /\ k + 2 + HexDigits \in Positions(t)
             /\ string_end(t, k) = string_end(t, k + 2 + HexDigits)
    <3>1. string_end(r, k + 2 + HexDigits + d) = e + d /\ e > k + 2 + HexDigits
      BY <1>1, <2>7, <2>9
    <3>2. peek(r, k + 1 + d) = peek(t, k + 1)
      BY <1>1, <1>2, <1>3, <2>1, <3>1
    <3>3. ASSUME NEW m \in 1..HexDigits PROVE peek(r, k + d + 1 + m) \in Hex
      <4>1. k + 1 + m \in i..(e - 1) /\ k + d + 1 + m = k + 1 + m + d
        BY <1>1, <1>2, <2>1, <3>1
      <4>2. peek(r, k + 1 + m + d) = peek(t, k + 1 + m)
        BY <1>3, <4>1
      <4> QED
        BY <2>9, <4>1, <4>2
    <3>4. k + d + 1 = k + 1 + d /\ k + d + 2 + HexDigits = k + 2 + HexDigits + d
      BY <1>1
    <3>5. string_end(r, k + d) = e + d
      <4>1. peek(r, k + d) = "bs" /\ peek(r, k + d + 1) = "u"
        BY <2>5, <2>9, <3>2, <3>4
      <4>2. e + d = string_end(r, k + d + 2 + HexDigits)
        BY <3>1, <3>4
      <4> QED
        BY <2>5, <3>3, <4>1, <4>2, StringIs
    <3> QED
      BY <2>1, <3>5
  <2>10. CASE /\ peek(t, k) \notin {"q", "bs", "end", "raw", "nl"}
              /\ k + 1 \in Positions(t) /\ string_end(t, k) = string_end(t, k + 1)
    <3>1. string_end(r, k + 1 + d) = e + d /\ e > k + 1
      BY <1>1, <2>7, <2>10
    <3>2. k + d + 1 = k + 1 + d
      OBVIOUS
    <3>3. string_end(r, k + d) = e + d
      BY <2>5, <2>10, <3>1, <3>2, StringIs
    <3> QED
      BY <2>1, <3>3
  <2> QED
    BY <1>2, <2>1, <2>3, <2>6, <2>8, <2>9, <2>10, StringGoesOn
<1>5. Bad = {}
  <2>1. Bad \subseteq 1..n
    BY <1>1
  <2>2. \A k \in 1..n : (\A j \in (k + 1)..n : j \notin Bad) => k \notin Bad
    BY <1>4
  <2>3. n \in Nat
    BY <1>1
  <2> HIDE DEF Bad, n
  <2> QED
    BY <2>1, <2>2, <2>3, Downward
<1>6. i \in i..n
  BY <1>1, <1>2
<1>7. i \notin Bad
  BY <1>5
<1>8. string_end(t, i) = e
  BY DEF e
<1>9. string_end(r, i + d) = e + d
  BY <1>6, <1>7, <1>8
<1> QED
  BY <1>8, <1>9

------------------------------------------------------------------------------
(* parse_value, skip_object and skip_array *)

\* What the other loops may be: they get on, or fail.
Reaches(t, i, e) == e = Fail \/ e \in (i + 1)..(Len(t) + 1)

ScanEnds(t) ==
    {end \in [Positions(t) -> [Scans -> 0..(Len(t) + 1)]] :
        \A i \in Positions(t) : \A what \in Scans : Reaches(t, i, end[i][what])}

LEMMA EndReaches ==
    ASSUME NEW t \in Seq(Unit), NEW end \in ScanEnds(t), NEW i \in Nat, NEW what \in Scans,
           NEW j \in DOMAIN t, j >= i
    PROVE  Reaches(t, i, end[j + 1][what])
<1>1. j + 1 \in Positions(t) /\ j \in Nat /\ Len(t) \in Nat
  BY DEF Positions
<1>2. Reaches(t, j + 1, end[j + 1][what])
  BY <1>1 DEF ScanEnds
<1> DEFINE e == end[j + 1][what]
<1> HIDE DEF e
<1>3. Reaches(t, i, e)
  BY <1>1, <1>2 DEF Reaches, e
<1> QED
  BY <1>3 DEF e

\* A unit is read within the text.
LEMMA PeekIn ==
    ASSUME NEW t \in Seq(Unit), NEW i, peek(t, i) # "end"
    PROVE  i \in DOMAIN t /\ i \in Positions(t) /\ i + 1 \in Positions(t) /\ peek(t, i) = t[i]
  BY DEF peek, Positions

LEMMA ValueTurn ==
    ASSUME NEW t \in Seq(Unit), NEW end \in ScanEnds(t), NEW i \in Positions(t)
    PROVE  /\ Reaches(t, i, parse_value(t, end, i))
           /\ \A h : AgreeAfter(end, h, i, Len(t) + 1) =>
                parse_value(t, h, i) = parse_value(t, end, i)
<1> DEFINE start == skip_ws(t, i)
           first == skip_ws(t, start + 1)
           value == parse_value(t, end, i)
<1>1. start \in i..(Len(t) + 1) /\ i \in Nat /\ i >= 1 /\ Len(t) \in Nat /\ start \in Positions(t)
  BY SkipWs DEF Positions
<1>2. value = CASE peek(t, start) = "q"            -> string_end(t, start + 1)
                [] peek(t, start) = "open"            -> skip_object(t, end, start)
                [] peek(t, start) = "["            -> skip_array(t, end, start)
                [] peek(t, start) = "word"         -> start + 1
                [] peek(t, start) \in {"-", "dig"} -> skip_number(t, start)
                [] OTHER                           -> Fail
  BY DEF parse_value
<1>3. \A h : parse_value(t, h, i) =
              CASE peek(t, start) = "q"            -> string_end(t, start + 1)
                [] peek(t, start) = "open"            -> skip_object(t, h, start)
                [] peek(t, start) = "["            -> skip_array(t, h, start)
                [] peek(t, start) = "word"         -> start + 1
                [] peek(t, start) \in {"-", "dig"} -> skip_number(t, start)
                [] OTHER                           -> Fail
  BY DEF parse_value
<1> HIDE DEF value, start
<1>4. ASSUME peek(t, start) # "end"
      PROVE  /\ start \in DOMAIN t /\ start + 1 \in Positions(t)
             /\ start + 1 \in (i + 1)..(Len(t) + 1)
  BY <1>1, <1>4, PeekIn DEF Positions
\* An object, or an array.
<1>5. ASSUME NEW what \in Scans, NEW bracket, bracket # "end", peek(t, start) # "end"
      PROVE  /\ Reaches(t, i, IF peek(t, first) = bracket THEN first + 1
                              ELSE end[start + 1][what])
             /\ \A h : AgreeAfter(end, h, i, Len(t) + 1) =>
                  h[start + 1] = end[start + 1]
  <2>1. first \in (start + 1)..(Len(t) + 1)
    BY <1>4, <1>5, SkipWs
  <2> HIDE DEF first
  <2>2. ASSUME peek(t, first) = bracket PROVE Reaches(t, i, first + 1)
    <3>1. first \in DOMAIN t
      BY <1>5, <2>2, PeekIn
    <3> QED
      BY <1>1, <2>1, <3>1 DEF Reaches
  <2>3. Reaches(t, i, end[start + 1][what])
    BY <1>1, <1>4, <1>5, EndReaches
  <2>4. \A h : AgreeAfter(end, h, i, Len(t) + 1) => h[start + 1] = end[start + 1]
    BY <1>4, <1>5 DEF AgreeAfter
  <2> QED
    BY <2>2, <2>3, <2>4
<1>6. CASE peek(t, start) = "q"
  <2>1. value = string_end(t, start + 1) /\ \A h : parse_value(t, h, i) = value
    BY <1>2, <1>3, <1>6
  <2>2. Reaches(t, i, value)
    BY <1>1, <1>4, <1>6, <2>1, StringShape DEF Reaches, EndsString
  <2> QED
    BY <2>1, <2>2 DEF value
<1>7. CASE peek(t, start) = "open"
  <2>1. value = skip_object(t, end, start) /\ \A h : parse_value(t, h, i) = skip_object(t, h, start)
    BY <1>2, <1>3, <1>7
  <2>2. \A h : skip_object(t, h, start) = IF peek(t, first) = "close" THEN first + 1
                                         ELSE h[start + 1]["members"]
    BY DEF skip_object
  <2>3. "members" \in Scans
    BY DEF Scans
  <2> HIDE DEF first
  <2> QED
    BY <1>5, <1>7, <2>1, <2>2, <2>3 DEF value
<1>8. CASE peek(t, start) = "["
  <2>1. value = skip_array(t, end, start) /\ \A h : parse_value(t, h, i) = skip_array(t, h, start)
    BY <1>2, <1>3, <1>8
  <2>2. \A h : skip_array(t, h, start) = IF peek(t, first) = "]" THEN first + 1
                                        ELSE h[start + 1]["elements"]
    BY DEF skip_array
  <2>3. "elements" \in Scans
    BY DEF Scans
  <2> HIDE DEF first
  <2> QED
    BY <1>5, <1>8, <2>1, <2>2, <2>3 DEF value
<1>9. CASE peek(t, start) = "word"
  <2>1. value = start + 1 /\ \A h : parse_value(t, h, i) = value
    BY <1>2, <1>3, <1>9
  <2>2. Reaches(t, i, value)
    BY <1>4, <1>9, <2>1 DEF Reaches
  <2> QED
    BY <2>1, <2>2 DEF value
<1>10. CASE peek(t, start) \in {"-", "dig"}
  <2>1. value = skip_number(t, start) /\ \A h : parse_value(t, h, i) = value
    BY <1>2, <1>3, <1>10
  <2>2. Reaches(t, i, value)
    BY <1>1, <2>1, SkipNumber DEF Reaches
  <2> QED
    BY <2>1, <2>2 DEF value
<1>11. CASE peek(t, start) \notin {"q", "open", "[", "word", "-", "dig"}
  <2>1. value = Fail /\ \A h : parse_value(t, h, i) = value
    BY <1>2, <1>3, <1>11
  <2> QED
    BY <2>1 DEF value, Reaches
<1> QED
  BY <1>6, <1>7, <1>8, <1>9, <1>10, <1>11

LEMMA MemberTurn ==
    ASSUME NEW t \in Seq(Unit), NEW end \in ScanEnds(t), NEW i \in Positions(t)
    PROVE  /\ Reaches(t, i, skip_member(t, end, i))
           /\ \A h : AgreeAfter(end, h, i, Len(t) + 1) =>
                skip_member(t, h, i) = skip_member(t, end, i)
<1> DEFINE key   == skip_ws(t, i)
           after == string_end(t, key + 1)
           colon == skip_ws(t, after)
<1>1. key \in i..(Len(t) + 1) /\ i \in Nat /\ i >= 1 /\ Len(t) \in Nat
  BY SkipWs DEF Positions
<1>2. \A h : skip_member(t, h, i) =
        IF peek(t, key) # "q" \/ after = Fail \/ peek(t, colon) # ":" THEN Fail
        ELSE h[colon + 1]["value"]
  BY DEF skip_member
<1> SUFFICES ASSUME peek(t, key) = "q", after # Fail, peek(t, colon) = ":"
             PROVE  /\ Reaches(t, i, end[colon + 1]["value"])
                    /\ \A h : AgreeAfter(end, h, i, Len(t) + 1) => h[colon + 1] = end[colon + 1]
  <2> HIDE DEF key, after, colon
  <2>1. CASE peek(t, key) # "q" \/ after = Fail \/ peek(t, colon) # ":"
    BY <1>2, <2>1 DEF Reaches
  <2>2. CASE ~(peek(t, key) # "q" \/ after = Fail \/ peek(t, colon) # ":")
    BY <1>2, <2>2
  <2> QED
    BY <2>1, <2>2
<1>3. key + 1 \in Positions(t)
  BY PeekIn
<1>4. after \in (key + 2)..(Len(t) + 1)
  BY <1>1, <1>3, StringShape DEF EndsString
<1>5. colon \in after..(Len(t) + 1)
  <2>1. after \in Positions(t)
    BY <1>1, <1>4 DEF Positions
  <2> QED
    BY <2>1, SkipWs
<1>6. colon \in DOMAIN t
  BY PeekIn
<1> HIDE DEF key, after, colon
<1>7. colon \in i..Len(t)
  BY <1>1, <1>4, <1>5, <1>6
<1>8. "value" \in Scans
  BY DEF Scans
<1>9. Reaches(t, i, end[colon + 1]["value"])
  BY <1>1, <1>6, <1>7, <1>8, EndReaches
<1>10. colon + 1 \in (i + 1)..(Len(t) + 1)
  BY <1>1, <1>7
<1> QED
  BY <1>9, <1>10 DEF AgreeAfter

\* What follows a member or an element, and where it gets to.
Following(t, after) == IF after = Fail THEN Fail ELSE skip_ws(t, after)

LEMMA FollowingIn ==
    ASSUME NEW t \in Seq(Unit), NEW i \in Positions(t), NEW after, Reaches(t, i, after),
           peek(t, Following(t, after)) # "end"
    PROVE  Following(t, after) \in (i + 1)..Len(t) /\ Following(t, after) \in DOMAIN t
<1>1. i \in Nat /\ i >= 1 /\ Len(t) \in Nat
  BY DEF Positions
<1>2. Following(t, after) \in DOMAIN t
  BY PeekIn
<1>3. after \in (i + 1)..(Len(t) + 1)
  BY <1>1, <1>2 DEF Reaches, Fail, Following
<1>4. after # Fail /\ after \in Positions(t)
  BY <1>1, <1>3 DEF Fail, Positions
<1>5. Following(t, after) \in after..(Len(t) + 1)
  BY <1>4, SkipWs DEF Following
<1> QED
  BY <1>1, <1>2, <1>3, <1>5

LEMMA ListTurn ==
    ASSUME NEW t \in Seq(Unit), NEW end \in ScanEnds(t), NEW i \in Positions(t),
           NEW what \in Scans, NEW bracket \in {"close", "]"},
           NEW after, Reaches(t, i, after)
    PROVE  /\ Reaches(t, i, skip_rest(t, end, after, what, bracket))
           /\ \A h : AgreeAfter(end, h, i, Len(t) + 1) =>
                skip_rest(t, h, after, what, bracket) = skip_rest(t, end, after, what, bracket)
<1> DEFINE to == Following(t, after)
<1>1. i \in Nat /\ i >= 1 /\ Len(t) \in Nat
  BY DEF Positions
<1>2. peek(t, to) # "end" => to \in (i + 1)..Len(t) /\ to \in DOMAIN t
  BY FollowingIn
<1>3. \A h : skip_rest(t, h, after, what, bracket) =
               CASE peek(t, to) = "comma" -> h[to + 1][what]
                 [] peek(t, to) = bracket -> to + 1
                 [] OTHER -> Fail
  BY DEF skip_rest, Following
<1> HIDE DEF to
<1>4. CASE peek(t, to) = "comma"
  <2>1. \A h : skip_rest(t, h, after, what, bracket) = h[to + 1][what]
    BY <1>3, <1>4
  <2>2. to + 1 \in (i + 1)..(Len(t) + 1)
    BY <1>1, <1>2, <1>4
  <2>3. Reaches(t, i, end[to + 1][what])
    BY <1>1, <1>2, <1>4, EndReaches
  <2> QED
    BY <2>1, <2>2, <2>3 DEF AgreeAfter
<1>5. CASE peek(t, to) = bracket
  <2>1. \A h : skip_rest(t, h, after, what, bracket) = to + 1
    BY <1>3, <1>5
  <2>2. Reaches(t, i, to + 1)
    BY <1>1, <1>2, <1>5 DEF Reaches
  <2> QED
    BY <2>1, <2>2
<1>6. CASE peek(t, to) # "comma" /\ peek(t, to) # bracket
  BY <1>3, <1>6 DEF Reaches
<1> QED
  BY <1>4, <1>5, <1>6

ScanResult(t, end, i, what) ==
    CASE what = "value"    -> parse_value(t, end, i)
      [] what = "members"  -> skip_members(t, end, i)
      [] what = "elements" -> skip_elements(t, end, i)

ScanTurn(t, end, i) == [what \in Scans |-> ScanResult(t, end, i, what)]

LEMMA ScanTurns ==
    ASSUME NEW t \in Seq(Unit), NEW end \in ScanEnds(t), NEW i \in Positions(t)
    PROVE  /\ \A what \in Scans : Reaches(t, i, ScanTurn(t, end, i)[what])
           /\ \A h : AgreeAfter(end, h, i, Len(t) + 1) =>
                ScanTurn(t, h, i) = ScanTurn(t, end, i)
<1>1. \A h : /\ skip_members(t, h, i) = skip_rest(t, h, skip_member(t, h, i), "members", "close")
             /\ skip_elements(t, h, i) = skip_rest(t, h, parse_value(t, h, i), "elements", "]")
  BY DEF skip_members, skip_elements
<1>2. /\ Reaches(t, i, parse_value(t, end, i))
      /\ Reaches(t, i, skip_members(t, end, i))
      /\ Reaches(t, i, skip_elements(t, end, i))
  <2>1. Reaches(t, i, parse_value(t, end, i)) /\ Reaches(t, i, skip_member(t, end, i))
    BY ValueTurn, MemberTurn
  <2>2. "members" \in Scans /\ "elements" \in Scans
    BY DEF Scans
  <2> QED
    BY <1>1, <2>1, <2>2, ListTurn
<1>3. ASSUME NEW h, AgreeAfter(end, h, i, Len(t) + 1)
      PROVE  /\ parse_value(t, h, i) = parse_value(t, end, i)
             /\ skip_members(t, h, i) = skip_members(t, end, i)
             /\ skip_elements(t, h, i) = skip_elements(t, end, i)
  <2>1. parse_value(t, h, i) = parse_value(t, end, i)
        /\ skip_member(t, h, i) = skip_member(t, end, i)
    BY <1>3, ValueTurn, MemberTurn
  <2>2. "members" \in Scans /\ "elements" \in Scans
    BY DEF Scans
  <2>3. Reaches(t, i, parse_value(t, end, i)) /\ Reaches(t, i, skip_member(t, end, i))
    BY ValueTurn, MemberTurn
  <2> QED
    BY <1>1, <1>3, <2>1, <2>2, <2>3, ListTurn
<1>4. \A what \in Scans : Reaches(t, i, ScanTurn(t, end, i)[what])
  BY <1>2 DEF ScanTurn, ScanResult, Scans
<1>5. ASSUME NEW h, AgreeAfter(end, h, i, Len(t) + 1)
      PROVE  ScanTurn(t, h, i) = ScanTurn(t, end, i)
  <2>1. \A what \in Scans : ScanResult(t, h, i, what) = ScanResult(t, end, i, what)
    BY <1>3, <1>5 DEF ScanResult, Scans
  <2> QED
    BY <2>1 DEF ScanTurn
<1> QED
  BY <1>4, <1>5

\* scan is the loops it is written as, too.
LEMMA Scan ==
    ASSUME NEW t \in Seq(Unit)
    PROVE  /\ scan(t) \in ScanEnds(t)
           /\ \A i \in Positions(t) : scan(t)[i] = ScanTurn(t, scan(t), i)
<1> DEFINE F == [g \in ScanEnds(t) |-> [i \in Positions(t) |-> ScanTurn(t, g, i)]]
<1>1. PICK n \in Nat : n = Len(t) + 1 /\ Positions(t) = 1..n /\ Len(t) \in Nat
  BY DEF Positions
<1>2. [i \in Positions(t) |-> [what \in Scans |-> Fail]] \in ScanEnds(t)
  BY <1>1 DEF ScanEnds, Reaches, Fail
<1>3. F \in [ScanEnds(t) -> ScanEnds(t)]
  <2> SUFFICES ASSUME NEW g \in ScanEnds(t)
               PROVE  [i \in Positions(t) |-> ScanTurn(t, g, i)] \in ScanEnds(t)
    OBVIOUS
  <2>1. ASSUME NEW i \in Positions(t)
        PROVE  /\ ScanTurn(t, g, i) \in [Scans -> 0..(Len(t) + 1)]
               /\ \A what \in Scans : Reaches(t, i, ScanTurn(t, g, i)[what])
    <3>1. \A what \in Scans : Reaches(t, i, ScanTurn(t, g, i)[what])
      BY ScanTurns
    <3>2. \A what \in Scans : ScanTurn(t, g, i)[what] \in 0..(Len(t) + 1)
      <4> SUFFICES ASSUME NEW what \in Scans, NEW e, e = ScanTurn(t, g, i)[what]
                   PROVE  e \in 0..(Len(t) + 1)
        OBVIOUS
      <4>1. e = Fail \/ e \in (i + 1)..(Len(t) + 1)
        BY <3>1 DEF Reaches
      <4>2. i \in Nat /\ Len(t) \in Nat
        BY <1>1
      <4> QED
        BY <4>1, <4>2 DEF Fail
    <3>3. ScanTurn(t, g, i) = [what \in Scans |-> ScanTurn(t, g, i)[what]]
      BY DEF ScanTurn
    <3> QED
      BY <3>1, <3>2, <3>3
  <2> QED
    BY <2>1 DEF ScanEnds
<1>4. \A g \in ScanEnds(t) : g = [k \in 1..n |-> g[k]]
  BY <1>1 DEF ScanEnds
<1>5. ASSUME NEW g \in ScanEnds(t), NEW h, NEW k \in 1..n, AgreeAfter(g, h, k, n)
      PROVE  ScanTurn(t, g, k) = ScanTurn(t, h, k)
  BY <1>1, <1>5, ScanTurns
<1>6. PICK end \in ScanEnds(t) : F[end] = end
  <2>1. \A g \in ScanEnds(t), h \in ScanEnds(t) : \A k \in 1..n :
          AgreeAfter(g, h, k, n) => F[g][k] = F[h][k]
    BY <1>1, <1>5
  <2>2. n \in Nat /\ ScanEnds(t) # {}
    BY <1>1, <1>2
  <2> HIDE DEF F
  <2> QED
    BY <1>3, <1>4, <2>1, <2>2, LoopExists, Zenon
<1>7. end = [i \in Positions(t) |-> ScanTurn(t, end, i)]
  BY <1>6
<1>8. PICK loop : loop = [i \in Positions(t) |-> ScanTurn(t, loop, i)] /\ scan(t) = loop
  <2> DEFINE choice == CHOOSE g : g = [i \in Positions(t) |-> ScanTurn(t, g, i)]
  <2>1. choice = [i \in Positions(t) |-> ScanTurn(t, choice, i)]
    BY <1>7, Zenon
  <2>2. scan(t) = choice
    BY Zenon DEF scan, ScanTurn, ScanResult
  <2> HIDE DEF choice
  <2> QED
    BY <2>1, <2>2, Zenon
<1> HIDE DEF F
<1>9. \A k \in 1..n : end[k] = loop[k]
  <2>1. \A k \in 1..n : AgreeAfter(end, loop, k, n) => end[k] = loop[k]
    <3> SUFFICES ASSUME NEW k \in 1..n, AgreeAfter(end, loop, k, n)
                 PROVE  end[k] = loop[k]
      OBVIOUS
    <3>1. end[k] = ScanTurn(t, end, k)
      BY <1>1, <1>7, Zenon
    <3>2. loop[k] = ScanTurn(t, loop, k)
      BY <1>1, <1>8, Zenon
    <3> QED
      BY <1>5, <3>1, <3>2
  <2> QED
    BY <2>1, LoopIsUnique
<1>10. loop = end
  <2>1. loop = [i \in 1..n |-> loop[i]]
    BY <1>1, <1>8
  <2> QED
    BY <1>4, <1>9, <2>1
<1>11. \A i \in Positions(t) : loop[i] = ScanTurn(t, loop, i)
  BY <1>8, Zenon
<1> QED
  BY <1>8, <1>10, <1>11

------------------------------------------------------------------------------
(* parse_status_request *)

\* The starts of strings, and what parse_status_request may come to: an error, or
\* what a string of the text holds.
StringStarts(t) == {v \in DOMAIN t : t[v] = "q" /\ string_end(t, v + 1) # Fail}

Contents(t, v) == Body(t, v, string_end(t, v + 1))

Results == [error : {"none", "NotObject", "Malformed", "MissingUuid", "EmptyUuid",
                     "UuidNotString"}, uuid : Seq(Unit)]

IsAnswer(t, found, result) ==
    /\ result \in Results
    /\ found \in {NotFound} \cup StringStarts(t) /\ result.error = "none" =>
         \E v \in StringStarts(t) : result.uuid = Contents(t, v) /\ Contents(t, v) # <<>>

Founds(t) == {NotFound} \cup DOMAIN t

Parses(t) ==
    {parse \in [Positions(t) -> [Founds(t) -> Results]] :
        \A i \in Positions(t) : \A found \in Founds(t) : IsAnswer(t, found, parse[i][found])}

LEMMA ErrorIsAnswer ==
    ASSUME NEW t, NEW found,
           NEW error \in {"NotObject", "Malformed", "MissingUuid", "EmptyUuid", "UuidNotString"}
    PROVE  IsAnswer(t, found, Error(error))
<1>1. <<>> \in Seq(Unit)
  OBVIOUS
<1>2. Error(error).error # "none"
  BY DEF Error
<1> QED
  BY <1>1, <1>2 DEF IsAnswer, Error, Results

LEMMA ContentsAre ==
    ASSUME NEW t \in Seq(Unit), NEW v \in DOMAIN t
    PROVE  Contents(t, v) \in Seq(Unit)
<1>1. v + 1 \in Positions(t) /\ v \in Nat /\ v >= 1 /\ Len(t) \in Nat
  BY DEF Positions
<1> DEFINE e == string_end(t, v + 1)
<1>2. e \in 0..(Len(t) + 1)
  BY <1>1, StringShape
<1> HIDE DEF e
<1>3. v + 1 \in Int /\ e - 2 \in Int /\ (v + 1)..(e - 2) \subseteq 1..Len(t)
  BY <1>1, <1>2
<1>4. SubSeq(t, v + 1, e - 2) \in Seq(Unit)
  BY <1>3, SubSeqProperties
<1> QED
  BY <1>4 DEF Contents, Body, e

LEMMA FinishIsAnswer ==
    ASSUME NEW t \in Seq(Unit), NEW i, NEW found \in Founds(t)
    PROVE  IsAnswer(t, found, Finish(t, i, found))
<1>1. Finish(t, i, found) =
        IF skip_ws(t, i) # Len(t) + 1 THEN Error("Malformed")
        ELSE IF found = NotFound THEN Error("MissingUuid")
        ELSE IF Contents(t, found) = <<>> THEN Error("EmptyUuid")
        ELSE Ok(Contents(t, found))
  BY DEF Finish, Contents
<1>2. \A error \in {"Malformed", "MissingUuid", "EmptyUuid"} : IsAnswer(t, found, Error(error))
  BY ErrorIsAnswer
<1>3. ASSUME found # NotFound, Contents(t, found) # <<>>
      PROVE  IsAnswer(t, found, Ok(Contents(t, found)))
  <2>1. Contents(t, found) \in Seq(Unit)
    BY <1>3, ContentsAre DEF Founds
  <2> DEFINE uuid == Contents(t, found)
  <2>2. Ok(uuid) \in Results
    BY <2>1 DEF Ok, Results
  <2>3. Ok(uuid).uuid = uuid
    BY DEF Ok
  <2> QED
    BY <1>3, <2>2, <2>3 DEF IsAnswer
<1> QED
  BY <1>1, <1>2, <1>3

\* A member that is scanned, and the string that its value is.
LEMMA MemberScanned ==
    ASSUME NEW t \in Seq(Unit), NEW i \in Positions(t),
           skip_member(t, scan(t), i) # Fail
    PROVE  LET key   == skip_ws(t, i)
               colon == skip_ws(t, string_end(t, key + 1))
               value == skip_ws(t, colon + 1)
           IN  peek(t, value) = "q" => value \in StringStarts(t)
<1> DEFINE key   == skip_ws(t, i)
           after == string_end(t, key + 1)
           colon == skip_ws(t, after)
           value == skip_ws(t, colon + 1)
<1> SUFFICES ASSUME peek(t, value) = "q" PROVE value \in StringStarts(t)
  OBVIOUS
<1>1. /\ peek(t, key) = "q" /\ after # Fail /\ peek(t, colon) = ":"
      /\ scan(t)[colon + 1]["value"] # Fail
  BY DEF skip_member
<1>2. colon + 1 \in Positions(t)
  BY <1>1, PeekIn
<1>3. scan(t)[colon + 1]["value"] = parse_value(t, scan(t), colon + 1)
  <2>1. scan(t)[colon + 1] = ScanTurn(t, scan(t), colon + 1)
    BY <1>2, Scan
  <2> HIDE DEF colon
  <2>2. "value" \in Scans
    BY DEF Scans
  <2> QED
    BY <2>1, <2>2 DEF ScanTurn, ScanResult
<1>4. parse_value(t, scan(t), colon + 1) = string_end(t, value + 1)
  BY DEF parse_value
<1>5. value \in DOMAIN t /\ t[value] = "q"
  BY PeekIn
<1> QED
  BY <1>1, <1>3, <1>4, <1>5 DEF StringStarts

LEMMA ParseTurn ==
    ASSUME NEW t \in Seq(Unit), NEW parse \in Parses(t), NEW i \in Positions(t),
           NEW found \in Founds(t)
    PROVE  /\ IsAnswer(t, found, ParseMember(t, parse, i, found))
           /\ \A h : AgreeAfter(parse, h, i, Len(t) + 1) =>
                ParseMember(t, h, i, found) = ParseMember(t, parse, i, found)
<1> DEFINE key     == skip_ws(t, i)
           colon   == skip_ws(t, string_end(t, key + 1))
           value   == skip_ws(t, colon + 1)
           end     == skip_member(t, scan(t), i)
           wanted  == Body(t, key, string_end(t, key + 1)) = <<"uuid">> /\ found = NotFound
           found_  == IF wanted THEN value ELSE found
           next    == skip_ws(t, end)
<1>1. \A h : ParseMember(t, h, i, found) =
        IF end = Fail THEN Error("Malformed")
        ELSE IF wanted /\ peek(t, value) # "q" THEN Error("UuidNotString")
        ELSE CASE peek(t, next) = "comma" -> h[next + 1][found_]
               [] peek(t, next) = "close" -> Finish(t, next + 1, found_)
               [] OTHER                   -> Error("Malformed")
  BY DEF ParseMember, Proceed
<1>2. IsAnswer(t, found, Error("Malformed")) /\ IsAnswer(t, found, Error("UuidNotString"))
  BY ErrorIsAnswer
<1>3. Reaches(t, i, end)
  BY Scan, MemberTurn
<1>4. end # Fail /\ peek(t, value) = "q" => value \in StringStarts(t)
  BY MemberScanned
<1>5. end # Fail => Following(t, end) = next
  BY DEF Following
<1>6. end # Fail /\ peek(t, next) # "end" => next + 1 \in (i + 1)..(Len(t) + 1)
  <2>1. ASSUME end # Fail, peek(t, next) # "end" PROVE next \in (i + 1)..Len(t)
    <3> HIDE DEF end, next
    <3> QED
      BY <1>3, <1>5, <2>1, FollowingIn
  <2>2. i \in Nat /\ Len(t) \in Nat
    BY DEF Positions
  <2> HIDE DEF end, next
  <2> QED
    BY <2>1, <2>2
<1> HIDE DEF key, colon, value, end, wanted, next
<1>7. CASE end = Fail
  BY <1>1, <1>2, <1>7
<1>8. CASE end # Fail /\ wanted /\ peek(t, value) # "q"
  BY <1>1, <1>2, <1>8
<1>9. CASE end # Fail /\ ~(wanted /\ peek(t, value) # "q")
  <2>1. \A h : ParseMember(t, h, i, found) =
               CASE peek(t, next) = "comma" -> h[next + 1][found_]
                 [] peek(t, next) = "close" -> Finish(t, next + 1, found_)
                 [] OTHER                   -> Error("Malformed")
    BY <1>1, <1>9
  <2>2. /\ found_ \in Founds(t)
        /\ found \in {NotFound} \cup StringStarts(t) => found_ \in {NotFound} \cup StringStarts(t)
    BY <1>4, <1>9 DEF Founds, StringStarts
  <2> HIDE DEF found_
  <2>3. \A result : IsAnswer(t, found_, result) => IsAnswer(t, found, result)
    BY <2>2 DEF IsAnswer
  <2>4. CASE peek(t, next) = "comma"
    <3>1. next + 1 \in (i + 1)..(Len(t) + 1) /\ next + 1 \in Positions(t)
      <4>1. next + 1 \in (i + 1)..(Len(t) + 1)
        BY <1>6, <1>9, <2>4
      <4> QED
        BY <4>1 DEF Positions
    <3>2. IsAnswer(t, found_, parse[next + 1][found_])
      BY <2>2, <3>1 DEF Parses
    <3>3. \A h : AgreeAfter(parse, h, i, Len(t) + 1) => h[next + 1] = parse[next + 1]
      BY <3>1 DEF AgreeAfter
    <3>4. \A h : ParseMember(t, h, i, found) = h[next + 1][found_]
      BY <2>1, <2>4
    <3> QED
      BY <2>3, <3>2, <3>3, <3>4
  <2>5. CASE peek(t, next) = "close"
    <3>1. IsAnswer(t, found_, Finish(t, next + 1, found_))
      BY <2>2, FinishIsAnswer
    <3> QED
      BY <2>1, <2>3, <2>5, <3>1
  <2>6. CASE peek(t, next) # "comma" /\ peek(t, next) # "close"
    BY <1>2, <2>1, <2>6
  <2> QED
    BY <2>4, <2>5, <2>6
<1> QED
  BY <1>7, <1>8, <1>9

ParseResults(t, parse, i) == [found \in Founds(t) |-> ParseMember(t, parse, i, found)]

LEMMA Parse ==
    ASSUME NEW t \in Seq(Unit)
    PROVE  /\ ParseMembers(t) \in Parses(t)
           /\ \A i \in Positions(t) : \A found \in Founds(t) :
                ParseMembers(t)[i][found] = ParseMember(t, ParseMembers(t), i, found)
<1> DEFINE F == [g \in Parses(t) |-> [i \in Positions(t) |-> ParseResults(t, g, i)]]
<1>1. PICK n \in Nat : n = Len(t) + 1 /\ Positions(t) = 1..n /\ Len(t) \in Nat
  BY DEF Positions
<1>2. [i \in Positions(t) |-> [found \in Founds(t) |-> Error("Malformed")]] \in Parses(t)
  <2>1. \A found : IsAnswer(t, found, Error("Malformed"))
    BY ErrorIsAnswer
  <2>2. Error("Malformed") \in Results
    BY <2>1 DEF IsAnswer
  <2> QED
    BY <2>1, <2>2 DEF Parses
<1>3. F \in [Parses(t) -> Parses(t)]
  <2> SUFFICES ASSUME NEW g \in Parses(t)
               PROVE  [i \in Positions(t) |-> ParseResults(t, g, i)] \in Parses(t)
    OBVIOUS
  <2>1. \A i \in Positions(t) : \A found \in Founds(t) :
          IsAnswer(t, found, ParseMember(t, g, i, found))
    BY ParseTurn
  <2>2. \A i \in Positions(t) : \A found \in Founds(t) :
          ParseMember(t, g, i, found) \in Results
    BY <2>1 DEF IsAnswer
  <2> QED
    BY <2>1, <2>2 DEF Parses, ParseResults
<1>4. \A g \in Parses(t) : g = [k \in 1..n |-> g[k]]
  BY <1>1 DEF Parses
<1>5. ASSUME NEW g \in Parses(t), NEW h, NEW k \in 1..n, AgreeAfter(g, h, k, n)
      PROVE  ParseResults(t, g, k) = ParseResults(t, h, k)
  <2>1. \A found \in Founds(t) : ParseMember(t, g, k, found) = ParseMember(t, h, k, found)
    BY <1>1, <1>5, ParseTurn
  <2> QED
    BY <2>1 DEF ParseResults
<1>6. PICK end \in Parses(t) : F[end] = end
  <2>1. \A g \in Parses(t), h \in Parses(t) : \A k \in 1..n :
          AgreeAfter(g, h, k, n) => F[g][k] = F[h][k]
    BY <1>1, <1>5
  <2>2. n \in Nat /\ Parses(t) # {}
    BY <1>1, <1>2
  <2> HIDE DEF F
  <2> QED
    BY <1>3, <1>4, <2>1, <2>2, LoopExists, Zenon
<1>7. end = [i \in Positions(t) |-> ParseResults(t, end, i)]
  BY <1>6
<1>8. PICK loop : loop = [i \in Positions(t) |-> ParseResults(t, loop, i)] /\ ParseMembers(t) = loop
  <2> DEFINE choice == CHOOSE g : g = [i \in Positions(t) |-> ParseResults(t, g, i)]
  <2>1. choice = [i \in Positions(t) |-> ParseResults(t, choice, i)]
    BY <1>7, Zenon
  <2>2. ParseMembers(t) = choice
    BY Zenon DEF ParseMembers, ParseResults, Founds
  <2> HIDE DEF choice
  <2> QED
    BY <2>1, <2>2, Zenon
<1> HIDE DEF F
<1>9. \A k \in 1..n : end[k] = loop[k]
  <2>1. \A k \in 1..n : AgreeAfter(end, loop, k, n) => end[k] = loop[k]
    <3> SUFFICES ASSUME NEW k \in 1..n, AgreeAfter(end, loop, k, n)
                 PROVE  end[k] = loop[k]
      OBVIOUS
    <3>1. end[k] = ParseResults(t, end, k)
      BY <1>1, <1>7, Zenon
    <3>2. loop[k] = ParseResults(t, loop, k)
      BY <1>1, <1>8, Zenon
    <3> QED
      BY <1>5, <3>1, <3>2
  <2> QED
    BY <2>1, LoopIsUnique
<1>10. loop = end
  <2>1. loop = [i \in 1..n |-> loop[i]]
    BY <1>1, <1>8
  <2> QED
    BY <1>4, <1>9, <2>1
<1>11. \A i \in Positions(t) : loop[i] = ParseResults(t, loop, i)
  BY <1>8, Zenon
<1>12. \A i \in Positions(t) : \A found \in Founds(t) : loop[i][found] = ParseMember(t, loop, i, found)
  BY <1>11 DEF ParseResults
<1> QED
  BY <1>8, <1>10, <1>12

\* A uuid that is accepted is what a string of the payload holds.
LEMMA AcceptedIsString ==
    ASSUME NEW t \in Seq(Unit), parse_status_request(t).error = "none"
    PROVE  \E v \in StringStarts(t) :
             parse_status_request(t) = Ok(Contents(t, v)) /\ Contents(t, v) # <<>>
<1> DEFINE start  == skip_ws(t, 1)
           first  == skip_ws(t, start + 1)
           result == parse_status_request(t)
<1>1. result = IF peek(t, start) # "open" THEN Error("NotObject")
               ELSE IF peek(t, first) = "close" THEN Finish(t, first + 1, NotFound)
               ELSE ParseMembers(t)[first][NotFound]
  BY DEF parse_status_request
<1>2. NotFound \in Founds(t)
  BY DEF Founds
<1>3. IsAnswer(t, NotFound, result)
  <2>1. CASE peek(t, start) # "open"
    <3>1. result = Error("NotObject")
      BY <1>1, <2>1
    <3> QED
      BY <3>1, ErrorIsAnswer
  <2>2. CASE peek(t, start) = "open" /\ peek(t, first) = "close"
    <3>1. result = Finish(t, first + 1, NotFound)
      BY <1>1, <2>2
    <3> QED
      BY <1>2, <3>1, FinishIsAnswer
  <2>3. CASE peek(t, start) = "open" /\ peek(t, first) # "close"
    <3>1. result = ParseMembers(t)[first][NotFound]
      BY <1>1, <2>3
    <3>2. first \in Positions(t)
      <4>1. start + 1 \in Positions(t)
        BY <2>3, PeekIn
      <4> QED
        BY <4>1, SkipWs DEF Positions
    <3> QED
      BY <1>2, <3>1, <3>2, Parse DEF Parses
  <2> QED
    BY <2>1, <2>2, <2>3
<1>4. PICK v \in StringStarts(t) : result.uuid = Contents(t, v) /\ Contents(t, v) # <<>>
  BY <1>3 DEF IsAnswer
<1>5. result = Ok(Contents(t, v))
  <2>1. result \in Results
    BY <1>3 DEF IsAnswer
  <2> HIDE DEF result
  <2>2. result = [error |-> result.error, uuid |-> result.uuid]
    BY <2>1 DEF Results
  <2> QED
    BY <1>4, <2>2 DEF Ok, result
<1> QED
  BY <1>4, <1>5

------------------------------------------------------------------------------
(* The response *)

\* The scans, each by its name.
LEMMA ScanIs ==
    ASSUME NEW t \in Seq(Unit), NEW i \in Positions(t)
    PROVE  /\ scan(t)[i]["value"] = parse_value(t, scan(t), i)
           /\ scan(t)[i]["members"] = skip_members(t, scan(t), i)
<1>1. scan(t)[i] = ScanTurn(t, scan(t), i)
  BY Scan
<1> QED
  BY <1>1 DEF ScanTurn, ScanResult, Scans

\* A member with a key of one unit.
LEMMA ShortKey ==
    ASSUME NEW t \in Seq(Unit), NEW i \in Nat \ {0}, i + 3 <= Len(t),
           t[i] = "q", t[i + 1] \in {"uuid", "x"}, t[i + 2] = "q", t[i + 3] = ":"
    PROVE  /\ skip_ws(t, i) = i /\ string_end(t, i + 1) = i + 3
           /\ skip_ws(t, i + 3) = i + 3
           /\ skip_member(t, scan(t), i) = scan(t)[i + 4]["value"]
<1>1. /\ i \in DOMAIN t /\ i + 1 \in DOMAIN t /\ i + 2 \in DOMAIN t /\ i + 3 \in DOMAIN t
      /\ i \in Positions(t) /\ i + 1 \in Positions(t) /\ i + 2 \in Positions(t)
      /\ i + 3 \in Positions(t)
  BY DEF Positions
<1>2. peek(t, i) = "q" /\ peek(t, i + 1) \in {"uuid", "x"} /\ peek(t, i + 2) = "q"
      /\ peek(t, i + 3) = ":"
  BY <1>1 DEF peek
<1>3. string_end(t, i + 2) = i + 3
  BY <1>1, <1>2, StringIs
<1>4. string_end(t, i + 1) = i + 3
  <2>1. peek(t, i + 1) \notin {"q", "bs", "end", "raw", "nl"}
    BY <1>2
  <2>2. string_end(t, i + 1) = string_end(t, (i + 1) + 1)
    BY <1>1, <2>1, StringIs
  <2>3. (i + 1) + 1 = i + 2
    OBVIOUS
  <2> QED
    BY <1>3, <2>2, <2>3
<1>5. skip_ws(t, i) = i /\ skip_ws(t, i + 3) = i + 3
  BY <1>1, <1>2, SkipWs DEF White
<1>6. skip_member(t, scan(t), i) = scan(t)[(i + 3) + 1]["value"]
  <2>1. i + 3 # Fail
    BY DEF Fail
  <2> QED
    BY <1>2, <1>4, <1>5, <2>1 DEF skip_member
<1>7. (i + 3) + 1 = i + 4
  OBVIOUS
<1> QED
  BY <1>4, <1>5, <1>6, <1>7

LEMMA ShortBody ==
    ASSUME NEW t \in Seq(Unit), NEW i \in Nat, i + 1 <= Len(t)
    PROVE  Body(t, i, i + 3) = <<t[i + 1]>>
<1>1. (i + 3) - 2 = i + 1
  OBVIOUS
<1>2. SubSeq(t, i + 1, i + 1) = <<t[i + 1]>>
  <2> DEFINE s == SubSeq(t, i + 1, i + 1)
  <2>1. \A k \in (i + 1)..(i + 1) : t[k] \in Unit
    OBVIOUS
  <2>2. s \in Seq(Unit) /\ Len(s) = 1 /\ \A k \in 1..1 : s[k] = t[i + 1 + k - 1]
    <3>1. i + 1 \in Int /\ i + 1 <= i + 1 /\ (i + 1) - (i + 1) + 1 = 1
      OBVIOUS
    <3> QED
      BY <2>1, <3>1, SubSeqProperties
  <2> HIDE DEF s
  <2>3. s[1] = t[i + 1] /\ t[i + 1] \in Unit
    BY <2>1, <2>2
  <2>4. s = <<t[i + 1]>>
    BY <2>2, <2>3
  <2> QED
    BY <2>4 DEF s
<1> QED
  BY <1>1, <1>2 DEF Body

\* What the response is, unit by unit, around a uuid of n units and a version of
\* m digits.
IsResponse(r, n, m) ==
    /\ r \in Seq(Unit) /\ Len(r) = n + m + 25
    /\ r[1] = "open" /\ r[2] = "q" /\ r[3] = "uuid" /\ r[4] = "q" /\ r[5] = ":" /\ r[6] = "q"
    /\ r[n + 7] = "q" /\ r[n + 8] = "comma"
    /\ r[n + 9] = "q" /\ r[n + 10] = "x" /\ r[n + 11] = "q" /\ r[n + 12] = ":"
    /\ r[n + 13] = "open"
    /\ r[n + 14] = "q" /\ r[n + 15] = "x" /\ r[n + 16] = "q" /\ r[n + 17] = ":"
    /\ r[n + 18] = "word" /\ r[n + 19] = "comma"
    /\ r[n + 20] = "q" /\ r[n + 21] = "x" /\ r[n + 22] = "q" /\ r[n + 23] = ":"
    /\ \A k \in 1..m : r[n + 23 + k] = "dig"
    /\ r[n + m + 24] = "close" /\ r[n + m + 25] = "close"

LEMMA Joined ==
    ASSUME NEW s \in Seq(Unit), NEW t \in Seq(Unit)
    PROVE  /\ s \o t \in Seq(Unit) /\ Len(s \o t) = Len(s) + Len(t)
           /\ \A k \in 1..Len(s) : (s \o t)[k] = s[k]
           /\ \A k \in 1..Len(t) : (s \o t)[Len(s) + k] = t[k]
<1> DEFINE j == s \o t
<1>1. /\ j \in Seq(Unit) /\ Len(j) = Len(s) + Len(t)
      /\ \A i \in 1..(Len(s) + Len(t)) : j[i] = IF i <= Len(s) THEN s[i] ELSE t[i - Len(s)]
  BY ConcatProperties
<1> HIDE DEF j
<1>2. Len(s) \in Nat /\ Len(t) \in Nat
  OBVIOUS
<1>3. \A k \in 1..Len(s) : j[k] = s[k]
  BY <1>1, <1>2
<1>4. ASSUME NEW k \in 1..Len(t) PROVE j[Len(s) + k] = t[k]
  <2>1. /\ Len(s) + k \in 1..(Len(s) + Len(t)) /\ ~(Len(s) + k <= Len(s))
        /\ Len(s) + k - Len(s) = k
    BY <1>2
  <2> QED
    BY <1>1, <2>1
<1> QED
  BY <1>1, <1>3, <1>4 DEF j

LEMMA ResponseIs ==
    ASSUME NEW uuid \in Seq(Unit), NEW m \in Nat \ {0}
    PROVE  LET r == format_status_response(uuid, [k \in 1..m |-> "dig"])
           IN  /\ IsResponse(r, Len(uuid), m)
               /\ \A k \in 1..Len(uuid) : r[k + 6] = uuid[k]
<1> DEFINE version == [k \in 1..m |-> "dig"]
           head    == <<"open", "q", "uuid", "q", ":", "q">>
           middle  == <<"q", "comma", "q", "x", "q", ":", "open", "q", "x", "q", ":", "word",
                        "comma", "q", "x", "q", ":">>
           tail    == <<"close", "close">>
           n       == Len(uuid)
           a       == head \o uuid
           b       == a \o middle
           c       == b \o version
           r       == c \o tail
<1>1. n \in Nat /\ m \in Nat
  OBVIOUS
<1>2. version \in Seq(Unit) /\ Len(version) = m /\ \A k \in 1..m : version[k] = "dig"
  <2>1. version \in [1..m -> Unit]
    BY DEF Unit
  <2> QED
    BY <2>1
<1>3. /\ head \in Seq(Unit) /\ Len(head) = 6
      /\ head[1] = "open" /\ head[2] = "q" /\ head[3] = "uuid" /\ head[4] = "q"
      /\ head[5] = ":" /\ head[6] = "q"
  BY DEF Unit
<1>4. /\ middle \in Seq(Unit) /\ Len(middle) = 17
      /\ middle[1] = "q" /\ middle[2] = "comma"
      /\ middle[3] = "q" /\ middle[4] = "x" /\ middle[5] = "q" /\ middle[6] = ":"
      /\ middle[7] = "open"
      /\ middle[8] = "q" /\ middle[9] = "x" /\ middle[10] = "q" /\ middle[11] = ":"
      /\ middle[12] = "word" /\ middle[13] = "comma"
      /\ middle[14] = "q" /\ middle[15] = "x" /\ middle[16] = "q" /\ middle[17] = ":"
  BY DEF Unit
<1>5. tail \in Seq(Unit) /\ Len(tail) = 2 /\ tail[1] = "close" /\ tail[2] = "close"
  BY DEF Unit
<1>6. format_status_response(uuid, version) = r
  BY DEF format_status_response
<1> HIDE DEF head, middle, tail, version
<1>7. /\ a \in Seq(Unit) /\ Len(a) = 6 + n
      /\ \A k \in 1..6 : a[k] = head[k]
      /\ \A k \in 1..n : a[6 + k] = uuid[k]
  <2>1. /\ a \in Seq(Unit) /\ Len(a) = Len(head) + Len(uuid)
        /\ \A k \in 1..Len(head) : a[k] = head[k]
        /\ \A k \in 1..Len(uuid) : a[Len(head) + k] = uuid[k]
    <3>1. head \in Seq(Unit) /\ uuid \in Seq(Unit)
      BY <1>3
    <3> QED
      BY <3>1, Joined
  <2> HIDE DEF a
  <2> QED
    BY <1>1, <1>3, <2>1
<1>8. /\ b \in Seq(Unit) /\ Len(b) = 6 + n + 17
      /\ \A k \in 1..(6 + n) : b[k] = a[k]
      /\ \A k \in 1..17 : b[6 + n + k] = middle[k]
  <2>1. /\ b \in Seq(Unit) /\ Len(b) = Len(a) + Len(middle)
        /\ \A k \in 1..Len(a) : b[k] = a[k]
        /\ \A k \in 1..Len(middle) : b[Len(a) + k] = middle[k]
    <3>1. a \in Seq(Unit) /\ middle \in Seq(Unit)
      BY <1>4, <1>7
    <3> HIDE DEF a
    <3> QED
      BY <3>1, Joined
  <2> HIDE DEF b, a, n
  <2> QED
    BY <1>4, <1>7, <2>1
<1>9. /\ c \in Seq(Unit) /\ Len(c) = 6 + n + 17 + m
      /\ \A k \in 1..(6 + n + 17) : c[k] = b[k]
      /\ \A k \in 1..m : c[6 + n + 17 + k] = version[k]
  <2>1. /\ c \in Seq(Unit) /\ Len(c) = Len(b) + Len(version)
        /\ \A k \in 1..Len(b) : c[k] = b[k]
        /\ \A k \in 1..Len(version) : c[Len(b) + k] = version[k]
    <3>1. b \in Seq(Unit) /\ version \in Seq(Unit)
      BY <1>2, <1>8
    <3> HIDE DEF b
    <3> QED
      BY <3>1, Joined
  <2> HIDE DEF c, b, n
  <2> QED
    BY <1>2, <1>8, <2>1
<1>10. /\ r \in Seq(Unit) /\ Len(r) = 6 + n + 17 + m + 2
       /\ \A k \in 1..(6 + n + 17 + m) : r[k] = c[k]
       /\ \A k \in 1..2 : r[6 + n + 17 + m + k] = tail[k]
  <2>1. /\ r \in Seq(Unit) /\ Len(r) = Len(c) + Len(tail)
        /\ \A k \in 1..Len(c) : r[k] = c[k]
        /\ \A k \in 1..Len(tail) : r[Len(c) + k] = tail[k]
    <3>1. c \in Seq(Unit) /\ tail \in Seq(Unit)
      BY <1>5, <1>9
    <3> HIDE DEF c
    <3> QED
      BY <3>1, Joined
  <2> HIDE DEF r, c, n
  <2> QED
    BY <1>5, <1>9, <2>1
<1> HIDE DEF r, c, b, a, n
<1>11. \A k \in 1..6 : r[k] = head[k]
  <2>1. \A k \in 1..6 : k \in 1..(6 + n) /\ k \in 1..(6 + n + 17) /\ k \in 1..(6 + n + 17 + m)
    BY <1>1
  <2> QED
    BY <1>7, <1>8, <1>9, <1>10, <2>1
<1>12. \A k \in 1..n : r[k + 6] = uuid[k]
  <2> SUFFICES ASSUME NEW k \in 1..n PROVE r[k + 6] = uuid[k]
    OBVIOUS
  <2>1. /\ 6 + k = k + 6 /\ 6 + k \in 1..(6 + n)
        /\ 6 + k \in 1..(6 + n + 17) /\ 6 + k \in 1..(6 + n + 17 + m)
    BY <1>1
  <2>2. r[6 + k] = uuid[k]
    <3>1. a[6 + k] = uuid[k]
      BY <1>7, Zenon
    <3>2. b[6 + k] = a[6 + k] /\ c[6 + k] = b[6 + k] /\ r[6 + k] = c[6 + k]
      BY <1>8, <1>9, <1>10, <2>1, Zenon
    <3> QED
      BY <3>1, <3>2
  <2> QED
    BY <2>1, <2>2
<1>13. \A k \in 1..17 : r[6 + n + k] = middle[k]
  <2> SUFFICES ASSUME NEW k \in 1..17 PROVE r[6 + n + k] = middle[k]
    OBVIOUS
  <2>1. 6 + n + k \in 1..(6 + n + 17) /\ 6 + n + k \in 1..(6 + n + 17 + m)
    BY <1>1
  <2> QED
    BY <1>8, <1>9, <1>10, <2>1
<1>14. \A k \in 1..m : r[n + 23 + k] = "dig"
  <2> SUFFICES ASSUME NEW k \in 1..m PROVE r[n + 23 + k] = "dig"
    OBVIOUS
  <2>1. 6 + n + 17 + k \in 1..(6 + n + 17 + m) /\ 6 + n + 17 + k = n + 23 + k
    BY <1>1
  <2> QED
    BY <1>2, <1>9, <1>10, <2>1
<1>15. r[n + m + 24] = "close" /\ r[n + m + 25] = "close"
  <2>1. /\ 1 \in 1..2 /\ 6 + n + 17 + m + 1 = n + m + 24
        /\ 2 \in 1..2 /\ 6 + n + 17 + m + 2 = n + m + 25
    BY <1>1
  <2> QED
    BY <1>5, <1>10, <2>1
<1>16. /\ r[1] = "open" /\ r[2] = "q" /\ r[3] = "uuid" /\ r[4] = "q" /\ r[5] = ":" /\ r[6] = "q"
  BY <1>3, <1>11
<1>17. /\ r[n + 7] = "q" /\ r[n + 8] = "comma"
       /\ r[n + 9] = "q" /\ r[n + 10] = "x" /\ r[n + 11] = "q" /\ r[n + 12] = ":"
       /\ r[n + 13] = "open"
  <2>1. /\ 1 \in 1..17 /\ 6 + n + 1 = n + 7
        /\ 2 \in 1..17 /\ 6 + n + 2 = n + 8
        /\ 3 \in 1..17 /\ 6 + n + 3 = n + 9
        /\ 4 \in 1..17 /\ 6 + n + 4 = n + 10
        /\ 5 \in 1..17 /\ 6 + n + 5 = n + 11
        /\ 6 \in 1..17 /\ 6 + n + 6 = n + 12
        /\ 7 \in 1..17 /\ 6 + n + 7 = n + 13
    BY <1>1
  <2> QED
    BY <1>4, <1>13, <2>1
<1>18. /\ r[n + 14] = "q" /\ r[n + 15] = "x" /\ r[n + 16] = "q" /\ r[n + 17] = ":"
       /\ r[n + 18] = "word" /\ r[n + 19] = "comma"
       /\ r[n + 20] = "q" /\ r[n + 21] = "x" /\ r[n + 22] = "q" /\ r[n + 23] = ":"
  <2>1. /\ 8 \in 1..17 /\ 6 + n + 8 = n + 14
        /\ 9 \in 1..17 /\ 6 + n + 9 = n + 15
        /\ 10 \in 1..17 /\ 6 + n + 10 = n + 16
        /\ 11 \in 1..17 /\ 6 + n + 11 = n + 17
        /\ 12 \in 1..17 /\ 6 + n + 12 = n + 18
        /\ 13 \in 1..17 /\ 6 + n + 13 = n + 19
        /\ 14 \in 1..17 /\ 6 + n + 14 = n + 20
        /\ 15 \in 1..17 /\ 6 + n + 15 = n + 21
        /\ 16 \in 1..17 /\ 6 + n + 16 = n + 22
        /\ 17 \in 1..17 /\ 6 + n + 17 = n + 23
    BY <1>1
  <2> QED
    BY <1>4, <1>13, <2>1
<1>19. IsResponse(r, n, m)
  <2>1. Len(r) = n + m + 25
    BY <1>1, <1>10
  <2> QED
    BY <2>1, <1>10, <1>14, <1>15, <1>16, <1>17, <1>18 DEF IsResponse
<1> QED
  BY <1>6, <1>12, <1>19 DEF n, version

\* Where the scans of the response's values get to, from the last to the first.
LEMMA ResponseScans ==
    ASSUME NEW n \in Nat, NEW m \in Nat \ {0}, NEW r, IsResponse(r, n, m),
           string_end(r, 7) = n + 8
    PROVE  /\ skip_member(r, scan(r), n + 9) = n + m + 25
           /\ skip_member(r, scan(r), 2) = n + 8
<1>1. r \in Seq(Unit) /\ Len(r) = n + m + 25 /\ n \in Nat /\ m \in Nat /\ m >= 1
      /\ DOMAIN r = 1..(n + m + 25)
  BY DEF IsResponse
<1>2. \A k \in 1..(n + m + 25) : k \in Positions(r) /\ peek(r, k) = r[k]
  BY <1>1 DEF Positions, peek
\* Where there is no white space to skip.
<1>3. \A k \in 1..(n + m + 25) : r[k] \notin White => skip_ws(r, k) = k
  BY <1>1, <1>2, SkipWs
\* The version, a number to the end of its digits.
<1>4. scan(r)[n + 24]["value"] = n + m + 24
  <2>1. n + 24 \in 1..(n + m + 25) /\ n + m + 24 \in 1..(n + m + 25)
    BY <1>1
  <2>2. r[n + 24] = "dig" /\ r[n + m + 24] = "close"
    <3>1. 1 \in 1..m /\ n + 23 + 1 = n + 24
      BY <1>1
    <3>2. r[n + 23 + 1] = "dig"
      BY <3>1 DEF IsResponse
    <3> QED
      BY <3>1, <3>2 DEF IsResponse
  <2>3. skip_ws(r, n + 24) = n + 24
    BY <1>3, <2>1, <2>2 DEF White
  <2>4. Past({"dig"}, r, n + 24) = n + m + 24
    <3>1. ASSUME NEW k \in (n + 24)..(n + m + 24 - 1) PROVE r[k] \in {"dig"}
      <4>1. k - n - 23 \in 1..m /\ n + 23 + (k - n - 23) = k
        BY <1>1
      <4>2. r[n + 23 + (k - n - 23)] = "dig"
        BY <4>1, Zenon DEF IsResponse
      <4> QED
        BY <4>1, <4>2
    <3>2. n + m + 24 \in (n + 24)..(Len(r) + 1)
      BY <1>1
    <3>3. peek(r, n + m + 24) \notin {"dig"} /\ "end" \notin {"dig"}
      BY <1>2, <2>1, <2>2
    <3>4. n + 24 \in Positions(r)
      BY <1>2, <2>1
    <3> QED
      <4> SUFFICES ASSUME NEW i \in Positions(r), NEW j \in i..(Len(r) + 1),
                          \A k \in i..(j - 1) : r[k] \in {"dig"}, peek(r, j) \notin {"dig"}
                   PROVE  Past({"dig"}, r, i) = j
        BY <3>1, <3>2, <3>3, <3>4
      <4> QED
        BY <1>1, <3>3, PastEnds
  <2>5. peek(r, n + 24) = "dig" /\ peek(r, n + m + 24) = "close"
    BY <1>2, <2>1, <2>2
  <2>6. skip_digits(r, n + 24) = n + m + 24
    BY <2>4, <2>5 DEF skip_digits
  <2>7. skip_number(r, n + 24) = n + m + 24
    <3>1. n + m + 24 # Fail
      BY <1>1 DEF Fail
    <3> QED
      BY <2>5, <2>6, <3>1 DEF skip_number
  <2>8. parse_value(r, scan(r), n + 24) = skip_number(r, n + 24)
    BY <2>3, <2>5 DEF parse_value
  <2> QED
    BY <1>1, <1>2, <2>1, <2>7, <2>8, ScanIs
\* The member of it, and the end of the object it is in.
<1>5. scan(r)[n + 20]["members"] = n + m + 25
  <2>1. /\ n + 20 \in Nat \ {0} /\ n + 20 + 3 <= Len(r)
        /\ n + 20 + 1 = n + 21 /\ n + 20 + 2 = n + 22 /\ n + 20 + 3 = n + 23 /\ n + 20 + 4 = n + 24
    BY <1>1
  <2>2. /\ r[n + 20] = "q" /\ r[n + 20 + 1] \in {"uuid", "x"}
        /\ r[n + 20 + 2] = "q" /\ r[n + 20 + 3] = ":"
    BY <2>1 DEF IsResponse
  <2>3. skip_member(r, scan(r), n + 20) = n + m + 24
    BY <1>1, <1>4, <2>1, <2>2, ShortKey
  <2>4. n + 20 \in 1..(n + m + 25) /\ n + m + 24 \in 1..(n + m + 25) /\ n + m + 24 # Fail
    BY <1>1 DEF Fail
  <2>5. r[n + m + 24] = "close" /\ peek(r, n + m + 24) = "close" /\ skip_ws(r, n + m + 24) = n + m + 24
    <3>1. r[n + m + 24] = "close"
      BY DEF IsResponse
    <3> QED
      BY <1>2, <1>3, <2>4, <3>1 DEF White
  <2>6. skip_members(r, scan(r), n + 20) = n + m + 24 + 1
    BY <2>3, <2>4, <2>5 DEF skip_members, skip_rest
  <2>7. n + m + 24 + 1 = n + m + 25
    BY <1>1
  <2> QED
    BY <1>1, <1>2, <2>4, <2>6, <2>7, ScanIs
\* The member before it.
<1>6. scan(r)[n + 14]["members"] = n + m + 25
  <2>1. /\ n + 14 \in Nat \ {0} /\ n + 14 + 3 <= Len(r)
        /\ n + 14 + 1 = n + 15 /\ n + 14 + 2 = n + 16 /\ n + 14 + 3 = n + 17 /\ n + 14 + 4 = n + 18
    BY <1>1
  <2>2. /\ r[n + 14] = "q" /\ r[n + 14 + 1] \in {"uuid", "x"}
        /\ r[n + 14 + 2] = "q" /\ r[n + 14 + 3] = ":"
    BY <2>1 DEF IsResponse
  <2>3. /\ n + 14 \in 1..(n + m + 25) /\ n + 18 \in 1..(n + m + 25)
        /\ n + 19 \in 1..(n + m + 25) /\ n + 19 # Fail
        /\ n + 18 + 1 = n + 19 /\ n + 19 + 1 = n + 20
    BY <1>1 DEF Fail
  <2>4. scan(r)[n + 18]["value"] = n + 19
    <3>1. peek(r, n + 18) = "word" /\ skip_ws(r, n + 18) = n + 18
      <4>1. r[n + 18] = "word"
        BY DEF IsResponse
      <4> QED
        BY <1>2, <1>3, <2>3, <4>1 DEF White
    <3>2. parse_value(r, scan(r), n + 18) = n + 18 + 1
      BY <3>1 DEF parse_value
    <3> QED
      BY <1>1, <1>2, <2>3, <3>2, ScanIs
  <2>5. skip_member(r, scan(r), n + 14) = n + 19
    BY <1>1, <2>1, <2>2, <2>4, ShortKey
  <2>6. peek(r, n + 19) = "comma" /\ skip_ws(r, n + 19) = n + 19
    <3>1. r[n + 19] = "comma"
      BY DEF IsResponse
    <3> QED
      BY <1>2, <1>3, <2>3, <3>1 DEF White
  <2>7. skip_members(r, scan(r), n + 14) = scan(r)[n + 19 + 1]["members"]
    BY <2>3, <2>5, <2>6 DEF skip_members, skip_rest, Fail
  <2> QED
    BY <1>1, <1>2, <1>5, <2>3, <2>7, ScanIs
\* The object, and the member it is in.
<1>7. skip_member(r, scan(r), n + 9) = n + m + 25
  <2>1. /\ n + 9 \in Nat \ {0} /\ n + 9 + 3 <= Len(r)
        /\ n + 9 + 1 = n + 10 /\ n + 9 + 2 = n + 11 /\ n + 9 + 3 = n + 12 /\ n + 9 + 4 = n + 13
    BY <1>1
  <2>2. /\ r[n + 9] = "q" /\ r[n + 9 + 1] \in {"uuid", "x"}
        /\ r[n + 9 + 2] = "q" /\ r[n + 9 + 3] = ":"
    BY <2>1 DEF IsResponse
  <2>3. /\ n + 13 \in 1..(n + m + 25) /\ n + 14 \in 1..(n + m + 25) /\ n + 13 + 1 = n + 14
    BY <1>1
  <2>4. /\ peek(r, n + 13) = "open" /\ skip_ws(r, n + 13) = n + 13
        /\ peek(r, n + 14) = "q" /\ skip_ws(r, n + 14) = n + 14
    <3>1. r[n + 13] = "open" /\ r[n + 14] = "q"
      BY DEF IsResponse
    <3> QED
      BY <1>2, <1>3, <2>3, <3>1 DEF White
  <2>5. skip_object(r, scan(r), n + 13) = n + m + 25
    BY <1>6, <2>3, <2>4 DEF skip_object
  <2>6. parse_value(r, scan(r), n + 13) = n + m + 25
    BY <2>4, <2>5 DEF parse_value
  <2>7. scan(r)[n + 13]["value"] = n + m + 25
    BY <1>1, <1>2, <2>3, <2>6, ScanIs
  <2> QED
    BY <1>1, <2>1, <2>2, <2>7, ShortKey
\* The uuid, and its member.
<1>8. skip_member(r, scan(r), 2) = n + 8
  <2>1. 2 + 3 <= Len(r) /\ 6 \in 1..(n + m + 25)
    BY <1>1
  <2>2. r[2] = "q" /\ r[2 + 1] \in {"uuid", "x"} /\ r[2 + 2] = "q" /\ r[2 + 3] = ":" /\ r[6] = "q"
    BY DEF IsResponse
  <2>3. peek(r, 6) = "q" /\ skip_ws(r, 6) = 6
    BY <1>2, <1>3, <2>1, <2>2 DEF White
  <2>4. parse_value(r, scan(r), 6) = n + 8
    BY <2>3 DEF parse_value
  <2>5. scan(r)[2 + 4]["value"] = n + 8
    BY <1>1, <1>2, <2>1, <2>4, ScanIs
  <2> QED
    BY <1>1, <2>1, <2>2, <2>5, ShortKey
<1> QED
  BY <1>7, <1>8

\* So a response is read as a request of the uuid in it.
LEMMA ResponseIsRead ==
    ASSUME NEW n \in Nat \ {0}, NEW m \in Nat \ {0}, NEW r, IsResponse(r, n, m),
           string_end(r, 7) = n + 8
    PROVE  parse_status_request(r) = Ok(SubSeq(r, 7, n + 6))
<1>1. r \in Seq(Unit) /\ Len(r) = n + m + 25 /\ n \in Nat /\ m \in Nat /\ m >= 1 /\ n >= 1
      /\ DOMAIN r = 1..(n + m + 25)
  BY DEF IsResponse
<1>2. \A k \in 1..(n + m + 25) : k \in Positions(r) /\ peek(r, k) = r[k]
  BY <1>1 DEF Positions, peek
<1>3. \A k \in 1..(n + m + 25) : r[k] \notin White => skip_ws(r, k) = k
  BY <1>1, <1>2, SkipWs
<1>4. skip_member(r, scan(r), n + 9) = n + m + 25 /\ skip_member(r, scan(r), 2) = n + 8
  BY <1>1, ResponseScans
<1>5. /\ n + m + 25 # Fail /\ n + 8 # Fail /\ NotFound # 6
      /\ n + m + 25 \in 1..(n + m + 25) /\ n + 8 \in 1..(n + m + 25) /\ n + 9 \in 1..(n + m + 25)
      /\ 1 \in 1..(n + m + 25) /\ 2 \in 1..(n + m + 25) /\ 6 \in 1..(n + m + 25)
      /\ n + 8 + 1 = n + 9
  BY <1>1 DEF Fail, NotFound
<1>6. /\ peek(r, n + m + 25) = "close" /\ skip_ws(r, n + m + 25) = n + m + 25
      /\ peek(r, n + 8) = "comma" /\ skip_ws(r, n + 8) = n + 8
      /\ peek(r, 1) = "open" /\ skip_ws(r, 1) = 1
      /\ peek(r, 2) = "q" /\ skip_ws(r, 2) = 2
      /\ peek(r, 6) = "q" /\ skip_ws(r, 6) = 6
  <2>1. /\ r[n + m + 25] = "close" /\ r[n + 8] = "comma" /\ r[1] = "open" /\ r[2] = "q"
        /\ r[6] = "q"
    BY DEF IsResponse
  <2>2. {"close", "comma", "open", "q"} \cap White = {}
    BY DEF White
  <2> QED
    BY <1>2, <1>3, <1>5, <2>1, <2>2
<1>7. Finish(r, n + m + 25 + 1, 6) = Ok(SubSeq(r, 7, n + 6))
  <2>1. skip_ws(r, n + m + 25 + 1) = Len(r) + 1
    <3>1. n + m + 25 + 1 \in Positions(r) /\ n + m + 25 + 1 = Len(r) + 1
      BY <1>1 DEF Positions
    <3>2. skip_ws(r, n + m + 25 + 1) \in (n + m + 25 + 1)..(Len(r) + 1)
      BY <1>1, <3>1, SkipWs
    <3> QED
      BY <1>1, <3>1, <3>2
  <2>2. Body(r, 6, string_end(r, 6 + 1)) = SubSeq(r, 7, n + 6)
    <3>1. 6 + 1 = 7 /\ (n + 8) - 2 = n + 6
      BY <1>1
    <3> QED
      BY <3>1 DEF Body
  <2>3. SubSeq(r, 7, n + 6) # <<>>
    <3>1. 7 \in Int /\ n + 6 \in Int /\ 7 <= n + 6 /\ \A k \in 7..(n + 6) : r[k] \in Unit
      BY <1>1
    <3>2. Len(SubSeq(r, 7, n + 6)) = n + 6 - 7 + 1
      BY <3>1, SubSeqProperties
    <3>3. n + 6 - 7 + 1 # 0
      BY <1>1
    <3> QED
      BY <3>2, <3>3
  <2> QED
    BY <1>5, <2>1, <2>2, <2>3 DEF Finish
<1>8. ParseMembers(r)[n + 9][6] = Ok(SubSeq(r, 7, n + 6))
  <2>1. ParseMembers(r)[n + 9][6] = ParseMember(r, ParseMembers(r), n + 9, 6)
    BY <1>1, <1>2, <1>5, Parse DEF Founds
  <2> QED
    BY <1>4, <1>5, <1>6, <1>7, <2>1 DEF ParseMember, Proceed
<1>9. ParseMembers(r)[2][NotFound] = Ok(SubSeq(r, 7, n + 6))
  <2>1. ParseMembers(r)[2][NotFound] = ParseMember(r, ParseMembers(r), 2, NotFound)
    BY <1>1, <1>2, <1>5, Parse DEF Founds
  <2>2. 2 + 3 <= Len(r) /\ 2 + 1 <= Len(r) /\ 2 + 1 = 3 /\ 2 + 2 = 4 /\ 2 + 3 = 5 /\ 2 + 4 = 6 /\ 5 + 1 = 6
    BY <1>1
  <2>3. string_end(r, 3) = 5 /\ skip_ws(r, 5) = 5
    <3>1. r[2] = "q" /\ r[2 + 1] \in {"uuid", "x"} /\ r[2 + 2] = "q" /\ r[2 + 3] = ":"
      BY DEF IsResponse
    <3> QED
      BY <1>1, <2>2, <3>1, ShortKey
  <2>4. Body(r, 2, 5) = <<"uuid">>
    <3>1. Body(r, 2, 2 + 3) = <<r[2 + 1]>>
      BY <1>1, <2>2, ShortBody
    <3>2. r[3] = "uuid"
      BY DEF IsResponse
    <3> QED
      BY <2>2, <3>1, <3>2
  <2>5. ParseMember(r, ParseMembers(r), 2, NotFound) = ParseMembers(r)[n + 8 + 1][6]
    BY <1>4, <1>5, <1>6, <2>2, <2>3, <2>4 DEF ParseMember, Proceed
  <2> QED
    BY <1>5, <1>8, <2>1, <2>5
<1>10. parse_status_request(r) = ParseMembers(r)[2][NotFound]
  <2>1. 1 + 1 = 2
    OBVIOUS
  <2> QED
    BY <1>6, <2>1 DEF parse_status_request
<1> QED
  BY <1>9, <1>10

\* Whatever is sent as a status request, and however it is escaped: a uuid that
\* parse_status_request takes from it can be put into the response as it stands.
\* The response has no raw control character in it, and it is parsed as a request
\* of the same uuid, whatever stands around it and however long the version is.
THEOREM EchoSafe == payload \in Seq(Unit) => EchoIsSafe
<1> SUFFICES ASSUME payload \in Seq(Unit), parse_status_request(payload).error = "none",
                    NEW response \in Responses(parse_status_request(payload).uuid)
             PROVE  /\ \A k \in DOMAIN response : response[k] \notin {"raw", "nl"}
                    /\ parse_status_request(response) = parse_status_request(payload)
  BY DEF EchoIsSafe, Echoed, Echoes
<1>1. PICK v \in StringStarts(payload) :
        parse_status_request(payload) = Ok(Contents(payload, v)) /\ Contents(payload, v) # <<>>
  BY AcceptedIsString
<1> DEFINE e    == string_end(payload, v + 1)
           uuid == Contents(payload, v)
           n    == Len(uuid)
<1>2. /\ v + 1 \in Positions(payload) /\ v \in Nat /\ v >= 1 /\ Len(payload) \in Nat
      /\ v \in DOMAIN payload
  BY DEF StringStarts, Positions
<1>3. EndsString(payload, v + 1, e)
  BY <1>1, <1>2, StringShape DEF StringStarts
<1>4. /\ e \in (v + 1 + 1)..(Len(payload) + 1) /\ payload[e - 1] = "q"
      /\ \A k \in (v + 1)..(e - 2) : payload[k] \notin {"raw", "nl"}
  BY <1>3 DEF EndsString
<1>5. uuid = SubSeq(payload, v + 1, e - 2)
  BY DEF Contents, Body
<1>6. uuid \in Seq(Unit)
  BY <1>2, ContentsAre
<1> HIDE DEF e, uuid
<1>7. n = e - 2 - v /\ \A k \in 1..n : uuid[k] = payload[v + k]
  <2>1. v + 1 \in Int /\ e - 2 \in Int /\ (e - 2) - (v + 1) + 1 = e - 2 - v
    BY <1>2, <1>4
  <2>2. \A k \in (v + 1)..(e - 2) : payload[k] \in Unit
    BY <1>2, <1>4
  <2>3. /\ n = IF v + 1 <= e - 2 THEN e - 2 - v ELSE 0
        /\ \A k \in 1..(e - 2 - v) : uuid[k] = payload[v + 1 + k - 1]
    BY <1>5, <2>1, <2>2, SubSeqProperties
  <2>4. n = e - 2 - v
    BY <1>2, <1>4, <2>3
  <2>5. \A k \in 1..n : v + 1 + k - 1 = v + k
    BY <1>2
  <2> QED
    BY <2>3, <2>4, <2>5
<1>8. n \in Nat \ {0}
  <2>1. n \in Nat /\ uuid # <<>>
    BY <1>1, <1>6 DEF uuid
  <2> QED
    BY <1>6, <2>1
<1>9. PICK m \in Nat \ {0} : response = format_status_response(uuid, [k \in 1..m |-> "dig"])
  <2>1. Ok(uuid).uuid = uuid
    BY DEF Ok
  <2>2. response \in Responses(uuid)
    BY <1>1, <2>1 DEF uuid
  <2>3. VersionDigits \in Nat \ {0}
    BY CodecAssumption
  <2>4. \A k \in 1..VersionDigits : k \in Nat \ {0}
    BY <2>3
  <2> QED
    BY <2>2, <2>4, Zenon DEF Responses
<1> HIDE DEF n
<1>10. IsResponse(response, n, m) /\ \A k \in 1..n : response[k + 6] = uuid[k]
  BY <1>6, <1>9, ResponseIs DEF n
<1>11. /\ response \in Seq(Unit) /\ Len(response) = n + m + 25
       /\ DOMAIN response = 1..(n + m + 25)
  BY <1>10 DEF IsResponse
\* The string that the uuid is from stands in the response, too.
<1>12. string_end(response, 7) = n + 8
  <2>1. \A k \in (v + 1)..(e - 1) : response[k + (6 - v)] = payload[k]
    <3> SUFFICES ASSUME NEW k \in (v + 1)..(e - 1) PROVE response[k + (6 - v)] = payload[k]
      OBVIOUS
    <3>1. CASE k = e - 1
      <4>1. k + (6 - v) = n + 7
        BY <1>2, <1>4, <1>7, <3>1
      <4> QED
        BY <1>4, <1>10, <3>1, <4>1 DEF IsResponse
    <3>2. CASE k # e - 1
      <4>1. k - v \in 1..n /\ (k - v) + 6 = k + (6 - v) /\ v + (k - v) = k
        BY <1>2, <1>4, <1>7, <3>2
      <4>2. response[(k - v) + 6] = uuid[k - v] /\ uuid[k - v] = payload[v + (k - v)]
        BY <1>7, <1>10, <4>1
      <4> QED
        BY <4>1, <4>2
    <3> QED
      BY <3>1, <3>2
  <2>2. /\ 6 - v \in Int /\ v + 1 + (6 - v) = 7 /\ e + (6 - v) = n + 8
        /\ e + (6 - v) <= Len(response) + 1 /\ e # Fail
    BY <1>2, <1>4, <1>7, <1>8, <1>11 DEF Fail
  <2>3. string_end(response, v + 1 + (6 - v)) = e + (6 - v)
    <3>1. e = string_end(payload, v + 1)
      BY DEF e
    <3> DEFINE d == 6 - v
    <3>2. /\ d \in Int /\ v + 1 + d >= 1 /\ e + d <= Len(response) + 1 /\ e # Fail
          /\ \A k \in (v + 1)..(e - 1) : response[k + d] = payload[k]
      BY <2>1, <2>2
    <3> HIDE DEF d
    <3>3. string_end(response, v + 1 + d) = e + d
      BY <1>2, <1>11, <3>1, <3>2, SameString
    <3> QED
      BY <3>3 DEF d
  <2> QED
    BY <2>2, <2>3
<1>13. parse_status_request(response) = parse_status_request(payload)
  <2>1. parse_status_request(response) = Ok(SubSeq(response, 7, n + 6))
    BY <1>8, <1>10, <1>12, ResponseIsRead
  <2>2. SubSeq(response, 7, n + 6) = uuid
    <3> DEFINE s == SubSeq(response, 7, n + 6)
    <3>1. 7 \in Int /\ n + 6 \in Int /\ 7 <= n + 6 /\ (n + 6) - 7 + 1 = n
          /\ \A k \in 7..(n + 6) : response[k] \in Unit
      BY <1>8, <1>11
    <3>2. s \in Seq(Unit) /\ Len(s) = n /\ \A k \in 1..n : s[k] = response[7 + k - 1]
      BY <3>1, SubSeqProperties
    <3> HIDE DEF s
    <3>3. \A k \in 1..n : s[k] = uuid[k]
      <4>1. \A k \in 1..n : 7 + k - 1 = k + 6
        BY <1>8
      <4> QED
        BY <1>10, <3>2, <4>1
    <3>4. Len(uuid) = n
      BY DEF n
    <3>5. s = uuid
      BY <1>6, <3>2, <3>3, <3>4, SeqEqual
    <3> QED
      BY <3>5 DEF s
  <2> QED
    BY <1>1, <2>1, <2>2 DEF uuid
<1>14. ASSUME NEW k \in DOMAIN response PROVE response[k] \notin {"raw", "nl"}
  <2>1. k \in 1..(n + m + 25)
    BY <1>11
  <2>2. CASE k \in 7..(n + 6)
    <3>1. k - 6 \in 1..n /\ (k - 6) + 6 = k /\ v + (k - 6) \in (v + 1)..(e - 2)
      BY <1>2, <1>4, <1>7, <1>8, <2>2
    <3>2. response[(k - 6) + 6] = uuid[k - 6] /\ uuid[k - 6] = payload[v + (k - 6)]
      BY <1>7, <1>10, <3>1
    <3> QED
      BY <1>4, <3>1, <3>2
  <2>3. CASE k \in (n + 24)..(n + m + 23)
    <3>1. k - n - 23 \in 1..m /\ n + 23 + (k - n - 23) = k
      BY <1>8, <2>3
    <3>2. response[n + 23 + (k - n - 23)] = "dig"
      BY <1>10, <3>1, Zenon DEF IsResponse
    <3> QED
      BY <3>1, <3>2
  <2>4. CASE k \in 1..6
    <3>1. k = 1 \/ k = 2 \/ k = 3 \/ k = 4 \/ k = 5 \/ k = 6
      BY <2>4
    <3> QED
      BY <1>10, <3>1 DEF IsResponse
  <2>5. CASE k \in (n + 7)..(n + 13)
    <3>1. \/ k = n + 7 \/ k = n + 8 \/ k = n + 9 \/ k = n + 10 \/ k = n + 11 \/ k = n + 12
          \/ k = n + 13
      BY <1>8, <2>5
    <3> QED
      BY <1>10, <3>1 DEF IsResponse
  <2>6. CASE k \in (n + 14)..(n + 23)
    <3>1. \/ k = n + 14 \/ k = n + 15 \/ k = n + 16 \/ k = n + 17 \/ k = n + 18 \/ k = n + 19
          \/ k = n + 20 \/ k = n + 21 \/ k = n + 22 \/ k = n + 23
      BY <1>8, <2>6
    <3> QED
      BY <1>10, <3>1 DEF IsResponse
  <2>7. CASE k \in (n + m + 24)..(n + m + 25)
    <3>1. k = n + m + 24 \/ k = n + m + 25
      BY <1>8, <2>7
    <3> QED
      BY <1>10, <3>1 DEF IsResponse
  <2> QED
    BY <1>8, <2>1, <2>2, <2>3, <2>4, <2>5, <2>6, <2>7
<1> QED
  BY <1>13, <1>14
=============================================================================
