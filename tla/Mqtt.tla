-------------------------------- MODULE Mqtt --------------------------------
(***************************************************************************)
(* MqttClient: the network thread of the MQTT library with the client's    *)
(* callbacks, the client's push thread, and main, which starts and stops   *)
(* the client; the broker as far as the client sees it.                    *)
(*                                                                         *)
(* Connection and subscription are kept as two flags that both threads     *)
(* write, one store at a time: a thread may be overtaken between what it   *)
(* asks of the library and what it notes of the answer.  The session is a  *)
(* clean one, so the broker forgets the subscription with the connection.  *)
(* The library is external: what is asked of a live connection is done,    *)
(* without one the call fails, and on a broken one it may do either.       *)
(***************************************************************************)
EXTENDS Naturals

CONSTANTS
  Payloads,      \* payloads published to {prefix}/cmd
  MqttQueueBound \* bound on the requests waiting in Robot's queue

ASSUME MqttAssumption ==
  /\ Payloads \subseteq {"start", "drive", "stop", "reset", "dock", "charge", "other"}
  /\ MqttQueueBound \in Nat

VARIABLES
  link,      \* the connection: "down", "up", or "closed", before its callback
  callback,  \* the network thread is in: "none", "connect", "subscribe"
  broker,    \* the broker holds the subscription of this connection
  connected, \* Impl::connected
  subscribed,\* Impl::cmdSubscribed
  waiting,   \* nextSubscribeRetryMs lies ahead
  push,      \* the push thread: "check", "ask", "store", "publish", "note", "over"
  answer,    \* what its call of the library returned
  telemetry, \* hasTel: Robot has pushed a snapshot
  client,    \* main: "on", "joining", "disconnecting", "gone"
  queue,     \* requests handed to Robot and not yet taken
  alive      \* the process has not been terminated

flags == <<connected, subscribed, waiting>>
mqttVars ==
  <<link, callback, broker, flags, push, answer, telemetry, client, queue, alive>>

\* What a call of the library may return.
Results ==
  CASE link = "up" -> {TRUE} [] link = "closed" -> BOOLEAN [] link = "down" -> {FALSE}

Threads == alive /\ client # "gone"
----------------------------------------------------------------------------
(* The network thread and the broker.                                      *)

Connect ==
  /\ Threads /\ link = "down" /\ callback = "none"
  /\ link' = "up" /\ callback' = "connect" /\ broker' = FALSE
  /\ UNCHANGED <<flags, push, answer, telemetry, client, queue, alive>>

\* onConnectCb with an error: the library goes on trying.
Refuse ==
  /\ Threads /\ link = "down" /\ callback = "none"
  /\ connected' = FALSE /\ subscribed' = FALSE
  /\ UNCHANGED <<link, callback, broker, waiting, push, answer, telemetry, client, queue, alive>>

\* onConnectCb: the flags first ...
OnConnect ==
  /\ Threads /\ callback = "connect"
  /\ connected' = TRUE /\ subscribed' = FALSE /\ waiting' = FALSE
  /\ callback' = "subscribe"
  /\ UNCHANGED <<link, broker, push, answer, telemetry, client, queue, alive>>

\* Mutant of OnConnectSubscribes: a subscription that is noted is not asked for.
SubscribesIfUnnoted ==
  /\ Threads /\ callback = "subscribe"
  /\ IF subscribed THEN UNCHANGED <<broker, subscribed, waiting>>
     ELSE /\ \E a \in Results : subscribed' = a /\ waiting' = ~a
          /\ broker' = (broker \/ link = "up")
  /\ callback' = "none"
  /\ UNCHANGED <<link, connected, push, answer, telemetry, client, queue, alive>>

\* ... then ensureCommandSubscription("connect").
OnConnectSubscribes ==
  /\ Threads /\ callback = "subscribe"
  /\ \E a \in Results : subscribed' = a /\ waiting' = ~a
  /\ broker' = (broker \/ link = "up")
  /\ callback' = "none"
  /\ UNCHANGED <<link, connected, push, answer, telemetry, client, queue, alive>>

\* The connection breaks, or the library closes it when the client disconnects.
Break ==
  /\ Threads /\ link = "up"
  /\ link' = "closed" /\ broker' = FALSE
  /\ UNCHANGED <<callback, flags, push, answer, telemetry, client, queue, alive>>

\* onDisconnectCb.
OnDisconnect ==
  /\ Threads /\ link = "closed" /\ callback = "none"
  /\ link' = "down"
  /\ connected' = FALSE /\ subscribed' = FALSE /\ waiting' = FALSE
  /\ UNCHANGED <<callback, broker, push, answer, telemetry, client, queue, alive>>

\* onMessageCb and main's handler.  It looks into parameters that are null here:
\* "start" and "drive" throw through the library, and the process is terminated.
OnMessage ==
  /\ Threads /\ link = "up" /\ callback = "none" /\ broker
  /\ \E p \in Payloads :
       \/ p \in {"start", "drive"} /\ alive' = FALSE /\ UNCHANGED queue
       \/ /\ p \in {"stop", "reset", "dock", "charge"} /\ queue < MqttQueueBound
          /\ queue' = queue + 1 /\ UNCHANGED alive
  /\ UNCHANGED <<link, callback, broker, flags, push, answer, telemetry, client>>
----------------------------------------------------------------------------
(* The push thread.                                                        *)

Running == client = "on"

\* Mutant of PushCheck: the thread looks at running_ only when it has a connection.
PushChecksConnected ==
  /\ alive /\ push = "check"
  /\ push' = IF ~Running /\ connected THEN "over"
             ELSE IF connected /\ ~subscribed /\ ~waiting THEN "ask" ELSE "publish"
  /\ UNCHANGED <<link, callback, broker, flags, answer, telemetry, client, queue, alive>>

\* The head of the loop.
PushCheck ==
  /\ alive /\ push = "check"
  /\ push' = IF ~Running THEN "over"
             ELSE IF connected /\ ~subscribed /\ ~waiting THEN "ask" ELSE "publish"
  /\ UNCHANGED <<link, callback, broker, flags, answer, telemetry, client, queue, alive>>

\* ensureCommandSubscription("retry"): the call ...
PushAsks ==
  /\ alive /\ push = "ask" /\ push' = "store"
  /\ answer' \in Results
  /\ broker' = (broker \/ link = "up")
  /\ UNCHANGED <<link, callback, flags, telemetry, client, queue, alive>>

\* ... and what is noted of it.
PushNotes ==
  /\ alive /\ push = "store" /\ push' = "publish"
  /\ subscribed' = answer /\ waiting' = ~answer
  /\ UNCHANGED <<link, callback, broker, connected, answer, telemetry, client, queue, alive>>

\* publish: the latest snapshot, to four topics.
PushPublishes ==
  /\ alive /\ push = "publish"
  /\ \E a \in Results : push' = IF telemetry /\ ~a THEN "note" ELSE "check"
  /\ UNCHANGED <<link, callback, broker, flags, answer, telemetry, client, queue, alive>>

\* publishRaw after MOSQ_ERR_NO_CONN.
PushNotesNoConnection ==
  /\ alive /\ push = "note" /\ push' = "check"
  /\ connected' = FALSE /\ subscribed' = FALSE
  /\ UNCHANGED <<link, callback, broker, waiting, answer, telemetry, client, queue, alive>>

\* Five seconds are over.
RetryDue ==
  /\ waiting /\ waiting' = FALSE
  /\ UNCHANGED <<link, callback, broker, connected, subscribed, push, answer, telemetry,
                 client, queue, alive>>
----------------------------------------------------------------------------
(* The control loop and main.                                              *)

PushTelemetry ==
  /\ alive /\ Running /\ ~telemetry /\ telemetry' = TRUE
  /\ UNCHANGED <<link, callback, broker, flags, push, answer, client, queue, alive>>

\* processPendingExternalCommands.
Take ==
  /\ alive /\ Running /\ queue > 0 /\ queue' = 0
  /\ UNCHANGED <<link, callback, broker, flags, push, answer, telemetry, client, alive>>

\* stop: no more passes of the push thread ...
StopClient ==
  /\ alive /\ client = "on" /\ client' = "joining"
  /\ UNCHANGED <<link, callback, broker, flags, push, answer, telemetry, queue, alive>>

\* ... which is joined, then the connection is given up ...
Disconnect ==
  /\ alive /\ client = "joining" /\ push = "over"
  /\ client' = "disconnecting"
  /\ UNCHANGED <<link, callback, broker, flags, push, answer, telemetry, queue, alive>>

\* ... and the library's thread is stopped, wherever it is, and its client freed.
Destroy ==
  /\ alive /\ client = "disconnecting"
  /\ client' = "gone" /\ link' = "down" /\ broker' = FALSE /\ callback' = "none"
  /\ UNCHANGED <<flags, push, answer, telemetry, queue, alive>>
----------------------------------------------------------------------------
MqttInit ==
  /\ link = "down" /\ callback = "none" /\ broker = FALSE
  /\ connected = FALSE /\ subscribed = FALSE /\ waiting = FALSE
  /\ push = "check" /\ answer = FALSE /\ telemetry = FALSE
  /\ client = "on" /\ queue = 0 /\ alive = TRUE

PushNext == PushCheck \/ PushAsks \/ PushNotes \/ PushPublishes \/ PushNotesNoConnection

MqttNext ==
  \/ Connect \/ Refuse \/ OnConnect \/ OnConnectSubscribes \/ Break \/ OnDisconnect
  \/ OnMessage \/ PushNext \/ RetryDue \/ PushTelemetry \/ Take
  \/ StopClient \/ Disconnect \/ Destroy

MqttSpec == MqttInit /\ [][MqttNext]_mqttVars

\* Main and the push thread go on; nothing is asked of the network.
MqttFairness ==
  WF_mqttVars(PushNext) /\ WF_mqttVars(Disconnect) /\ WF_mqttVars(Destroy)
----------------------------------------------------------------------------
(* Properties.                                                             *)

MqttTypeOK ==
  /\ link \in {"down", "up", "closed"}
  /\ callback \in {"none", "connect", "subscribe"}
  /\ broker \in BOOLEAN /\ connected \in BOOLEAN /\ subscribed \in BOOLEAN
  /\ waiting \in BOOLEAN /\ answer \in BOOLEAN /\ telemetry \in BOOLEAN
  /\ push \in {"check", "ask", "store", "publish", "note", "over"}
  /\ client \in {"on", "joining", "disconnecting", "gone"}
  /\ queue \in 0..MqttQueueBound /\ alive \in BOOLEAN

\* Whatever the push thread notes late about an earlier connection, the broker
\* holds the subscription of this one once the connect callback has returned.
SubscribedWhileUp == link = "up" /\ callback = "none" => broker

\* The push thread makes no call of a client that has been given up.
ClientOutlivesPush ==
  push \in {"ask", "publish"} => client \in {"on", "joining"}

\* Stopping the client comes to an end, with a broker or without.
StopEnds == client = "joining" ~> client = "gone" \/ ~alive

\* "{prefix}/cmd - start | stop | dock | charge": no command ends the process.
CommandsSurvived == alive
=============================================================================
