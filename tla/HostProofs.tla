----------------------------- MODULE HostProofs -----------------------------
(***************************************************************************)
(* Proofs about the parts of the host that serve the control loop, most of *)
(* them from threads of their own: the web server (requests leave nothing  *)
(* behind, and the worker with its handlers implements the safety of       *)
(* Service), the MQTT client (the subscription of a connection, and the    *)
(* end of the client while its push thread runs), the GPS driver (the      *)
(* solution Robot reads is recent) and the planner (the search finds a way *)
(* if there is one, and the path made of it is clear).  They share no      *)
(* state.                                                                  *)
(***************************************************************************)
EXTENDS Server, Mqtt, Gps, GridPlanner, FiniteSetTheorems, SequenceTheorems, TLAPS

----------------------------------------------------------------------------
(* Requests clean up.                                                      *)

\* What a diagnosis and a flash may have left, by the place of the handler.
DiagTidy ==
  /\ diag # "none" => Handle("diagnose", "wait")
  /\ moving => diag = "active" /\ ~blade
FlashTidy == flashing \/ excused => work = "flash" /\ at \in {"set", "wait"}
Tidy == DiagTidy /\ FlashTidy

\* A handler that returns without having begun anything.
LEMMA ReadRepliesTidily ==
  ASSUME Tidy, HandleRead \/ HandleStop \/ HandleScript \/ HandleUpdate
  PROVE  Tidy'
BY DEF Tidy, DiagTidy, FlashTidy, HandleRead, HandleStop, HandleScript, HandleUpdate,
       Handle, Reply, OnlyWork, robotVars, flashVars

LEMMA DiagnosisIsTidy ==
  ASSUME Tidy, DiagBegins \/ DiagMowMotor \/ DiagSet \/ DiagAnswered \/ DiagTimesOut
  PROVE  Tidy'
<1>1. CASE DiagBegins
  BY <1>1 DEF Tidy, DiagTidy, FlashTidy, DiagBegins, Handle, Goes, Reply, OnlyWork,
              robotVars, flashVars
<1>2. CASE DiagMowMotor
  BY <1>2 DEF Tidy, DiagTidy, FlashTidy, DiagMowMotor, Handle, Reply, OnlyWork, flashVars
<1>3. CASE DiagSet
  BY <1>3 DEF Tidy, DiagTidy, FlashTidy, DiagSet, Handle, Goes, OnlyWork, flashVars
<1>4. CASE DiagAnswered
  BY <1>4 DEF Tidy, DiagTidy, FlashTidy, DiagAnswered, Handle, Reply, OnlyWork,
              flashVars
<1>5. CASE DiagTimesOut
  BY <1>5 DEF Tidy, DiagTidy, FlashTidy, DiagTimesOut, Handle, Reply, OnlyWork,
              flashVars
<1> QED BY <1>1, <1>2, <1>3, <1>4, <1>5

LEMMA FlashIsTidy ==
  ASSUME Tidy,
         FlashRefused \/ FlashBegins \/ FlashRuns \/ FlashNotStarted \/ FlashEnds
           \/ FlashReplied
  PROVE  Tidy'
<1>1. CASE FlashRefused
  BY <1>1 DEF Tidy, DiagTidy, FlashTidy, FlashRefused, Handle, Reply, OnlyWork,
              robotVars, flashVars
<1>2. CASE FlashBegins \/ FlashRuns
  BY <1>2 DEF Tidy, DiagTidy, FlashTidy, FlashBegins, FlashRuns, Handle, Goes,
              OnlyWork, robotVars, flashVars
<1>3. CASE FlashNotStarted \/ FlashEnds
  BY <1>3 DEF Tidy, DiagTidy, FlashTidy, FlashNotStarted, FlashEnds, Handle, Goes,
              Reply, OnlyWork, robotVars
<1>4. CASE FlashReplied
  BY <1>4 DEF Tidy, DiagTidy, FlashTidy, FlashReplied, Handle, Reply, OnlyWork,
              robotVars
<1> QED BY <1>1, <1>2, <1>3, <1>4

\* The loop ends a diagnosis it was told to cancel, and drives only for one.
LEMMA LoopIsTidy ==
  ASSUME Tidy, LoopRun
  PROVE  Tidy'
<1>1. UNCHANGED <<work, at, flashing, excused>>
  BY DEF LoopRun, flashVars
<1>2. CASE Cancelled = "active"
  BY <1>1, <1>2 DEF Tidy, DiagTidy, FlashTidy, LoopRun, Cancelled, Handle
<1>3. CASE Cancelled # "active"
  BY <1>1, <1>3 DEF Tidy, DiagTidy, FlashTidy, LoopRun, Cancelled, Handle
<1> QED BY <1>2, <1>3

LEMMA TidyHolds == ServerSafety => []Tidy
<1>1. ServerInit => Tidy
  BY DEF ServerInit, Tidy, DiagTidy, FlashTidy
<1>2. Tidy /\ [ServerNext]_serverVars => Tidy'
  <2>1. SUFFICES ASSUME Tidy, [ServerNext]_serverVars
                 PROVE  Tidy'
    OBVIOUS
  <2>2. CASE Arrive \/ UpdateEnds \/ GraceEnds
    BY <2>1, <2>2 DEF Arrive, UpdateEnds, GraceEnds, Tidy, DiagTidy, FlashTidy, Handle,
                      robotVars, flashVars
  <2>3. CASE TakeRequest
    BY <2>1, <2>3 DEF TakeRequest, Tidy, DiagTidy, FlashTidy, Handle, robotVars,
                      flashVars
  <2>4. CASE WorkerNext /\ ~TakeRequest
    BY <2>1, <2>4, ReadRepliesTidily, DiagnosisIsTidy, FlashIsTidy DEF WorkerNext
  <2>5. CASE LoopRun
    BY <2>1, <2>5, LoopIsTidy
  <2>6. CASE Terminate \/ LoopEnds
    BY <2>1, <2>6 DEF Terminate, LoopEnds, Tidy, DiagTidy, FlashTidy, Handle, flashVars
  <2>7. CASE StopServer \/ PushEnds \/ Leave
    BY <2>1, <2>7 DEF StopServer, PushEnds, Leave, Tidy, DiagTidy, FlashTidy, Handle,
                      robotVars, flashVars
  <2>8. CASE UNCHANGED serverVars
    BY <2>1, <2>8 DEF serverVars, Tidy, DiagTidy, FlashTidy, Handle
  <2> QED BY <2>1, <2>2, <2>3, <2>4, <2>5, <2>6, <2>7, <2>8 DEF ServerNext, MainNext
<1> QED BY <1>1, <1>2, PTL DEF ServerSafety

\* For all kinds of requests and any number of them: the loop turns motors for a
\* diagnosis only while its handler waits, never with the blade that diagMowMotor has
\* left on, and only a flash being handled excuses the controller.
THEOREM RequestsAlwaysCleanUp == ServerSafety => []RequestsCleanUp
<1>1. Tidy => RequestsCleanUp
  BY DEF Tidy, DiagTidy, FlashTidy, RequestsCleanUp
<1> QED BY <1>1, TidyHolds, PTL

----------------------------------------------------------------------------
(* The server implements the safety of Service.                            *)

\* The requests are of the kinds asked for, and the library is open until the push
\* thread has stopped it.
Served ==
  /\ inbox \in Seq(Kinds) /\ work \in Kinds \cup {"none"}
  /\ main \in {"loop", "joining", "waiting", "gone"}
  /\ main \in {"loop", "joining"} => open

\* The worker at work on a request of any kind that is not taken from the inbox.
Handling == WorkerNext /\ ~TakeRequest

Steady == UNCHANGED <<inbox, work, open, main>>

LEMMA HandlersKeepOrReply ==
  ASSUME Handling
  PROVE  /\ UNCHANGED <<inbox, open, main>>
         /\ work \in Handlers
         /\ work' \in {work, "none"}
BY DEF Handling, WorkerNext, HandleRead, HandleStop, HandleScript, HandleUpdate,
       DiagBegins, DiagMowMotor, DiagSet, DiagAnswered, DiagTimesOut,
       FlashRefused, FlashBegins, FlashRuns, FlashNotStarted, FlashEnds, FlashReplied,
       Handle, Goes, Reply, OnlyWork, Handlers

\* The steps of the others that no request sees.
LEMMA OthersAreSteady ==
  ASSUME UpdateEnds \/ GraceEnds \/ LoopRun \/ Terminate \/ LoopEnds
           \/ UNCHANGED serverVars
  PROVE  Steady
BY DEF UpdateEnds, GraceEnds, LoopRun, Terminate, LoopEnds, serverVars, Steady

LEMMA ServedHolds == ServerSafety => []Served
<1>1. ServerInit => Served
  <2>1. SUFFICES ASSUME ServerInit
                 PROVE  Served
    OBVIOUS
  <2>2. inbox \in Seq(Kinds)
    BY <2>1 DEF ServerInit
  <2>3. main \in {"loop", "joining"} => open
    BY <2>1 DEF ServerInit
  <2> QED BY <2>1, <2>2, <2>3 DEF ServerInit, Served
<1>2. Served /\ [ServerNext]_serverVars => Served'
  <2>1. SUFFICES ASSUME Served, [ServerNext]_serverVars
                 PROVE  Served'
    OBVIOUS
  <2>2. CASE Arrive
    <3>1. PICK k \in Kinds : inbox' = Append(inbox, k)
      BY <2>2 DEF Arrive
    <3>2. UNCHANGED <<work, open, main>>
      BY <2>2 DEF Arrive
    <3> QED BY <2>1, <3>1, <3>2 DEF Served
  <2>3. CASE TakeRequest
    <3>1. Head(inbox) \in Kinds /\ Tail(inbox) \in Seq(Kinds)
      BY <2>1, <2>3 DEF TakeRequest, Served
    <3>2. inbox' = Tail(inbox) /\ work' = Head(inbox) /\ UNCHANGED <<open, main>>
      BY <2>3 DEF TakeRequest
    <3> QED BY <2>1, <3>1, <3>2 DEF Served
  <2>4. CASE Handling
    BY <2>1, <2>4, HandlersKeepOrReply DEF Served
  <2>5. CASE UpdateEnds \/ GraceEnds \/ LoopRun \/ Terminate \/ LoopEnds
               \/ UNCHANGED serverVars
    BY <2>1, <2>5, OthersAreSteady DEF Steady, Served
  <2>6. CASE StopServer \/ PushEnds \/ Leave
    <3>1. UNCHANGED <<inbox, work>>
      BY <2>6 DEF StopServer, PushEnds, Leave
    <3>2. main' \in {"joining", "waiting", "gone"}
      BY <2>6 DEF StopServer, PushEnds, Leave
    <3>3. main' \in {"loop", "joining"} => open'
      BY <2>1, <2>6 DEF StopServer, PushEnds, Leave, Served
    <3> QED BY <2>1, <3>1, <3>2, <3>3 DEF Served
  <2> QED BY <2>1, <2>2, <2>3, <2>4, <2>5, <2>6 DEF ServerNext, MainNext, Handling
<1> QED BY <1>1, <1>2, PTL DEF ServerSafety

Step == [Requested!ServiceNext]_(Requested!ServiceVars)

LEMMA SteadyIsStutter ==
  ASSUME Steady
  PROVE  Step
BY DEF Steady, Step, Unanswered, Requested!ServiceVars

LEMMA ArriveIsAsk ==
  ASSUME Served, Arrive
  PROVE  Requested!Ask
<1>1. PICK k \in Kinds : inbox' = Append(inbox, k)
  BY DEF Arrive
<1>2. open /\ UNCHANGED <<work, open>>
  BY DEF Arrive
<1>3. CASE work = "none"
  BY <1>1, <1>2, <1>3 DEF Unanswered, Requested!Ask
<1>4. CASE work # "none"
  <2>1. <<work>> \o Append(inbox, k) = Append(<<work>> \o inbox, k)
    BY <1>4 DEF Served
  <2> QED BY <1>1, <1>2, <1>4, <2>1 DEF Unanswered, Requested!Ask
<1> QED BY <1>3, <1>4

LEMMA TakeIsStutter ==
  ASSUME Served, TakeRequest
  PROVE  UNCHANGED <<Unanswered, open>>
<1>1. /\ open /\ work = "none" /\ inbox # <<>>
      /\ work' = Head(inbox) /\ inbox' = Tail(inbox) /\ UNCHANGED open
  BY DEF TakeRequest
<1>2. Head(inbox) # "none"
  BY <1>1, ServerAssumption DEF Served, Handlers
<1>3. <<Head(inbox)>> \o Tail(inbox) = inbox
  BY <1>1 DEF Served
<1> QED BY <1>1, <1>2, <1>3 DEF Unanswered

\* A handler's last step answers the first request; the ones before it none.
LEMMA HandlingIsStep ==
  ASSUME Served, Handling
  PROVE  Step
<1>1. UNCHANGED <<inbox, open, main>> /\ work # "none" /\ work' \in {work, "none"}
  BY HandlersKeepOrReply DEF Handlers
<1>2. CASE work' = work \/ ~open
  BY <1>1, <1>2 DEF Unanswered, Step, Requested!ServiceVars
<1>3. CASE work' = "none" /\ open
  <2>1. Tail(<<work>> \o inbox) = inbox /\ <<work>> \o inbox # <<>>
    BY <1>1 DEF Served
  <2>2. Requested!Answer
    BY <1>1, <1>3, <2>1 DEF Unanswered, Requested!Answer
  <2> QED BY <2>2 DEF Step, Requested!ServiceNext
<1> QED BY <1>1, <1>2, <1>3

LEMMA StoppingIsStep ==
  ASSUME Served, StopServer \/ PushEnds \/ Leave
  PROVE  Step
<1>1. CASE StopServer
  BY <1>1 DEF StopServer, Step, Unanswered, Requested!ServiceVars
<1>2. CASE PushEnds
  BY <1>2 DEF PushEnds, Served, Step, Unanswered, Requested!ServiceNext, Requested!Close
<1>3. CASE Leave
  BY <1>3 DEF Leave, Step, Unanswered, Requested!ServiceVars
<1> QED BY <1>1, <1>2, <1>3

\* Whatever handlers wait for and however the process ends, requests are answered in
\* the order of their arrival, none twice and none that was not made.
THEOREM ServerImplementsService == ServerSafety => Requested!ServiceSafety
<1>1. ServerInit => Requested!ServiceInit
  BY DEF ServerInit, Requested!ServiceInit, Unanswered
<1>2. Served /\ [ServerNext]_serverVars => Step
  <2>1. SUFFICES ASSUME Served, [ServerNext]_serverVars
                 PROVE  Step
    OBVIOUS
  <2>2. CASE Arrive
    BY <2>1, <2>2, ArriveIsAsk DEF Step, Requested!ServiceNext
  <2>3. CASE TakeRequest
    BY <2>1, <2>3, TakeIsStutter DEF Step, Requested!ServiceVars
  <2>4. CASE Handling
    BY <2>1, <2>4, HandlingIsStep
  <2>5. CASE UpdateEnds \/ GraceEnds \/ LoopRun \/ Terminate \/ LoopEnds
               \/ UNCHANGED serverVars
    BY <2>5, OthersAreSteady, SteadyIsStutter
  <2>6. CASE StopServer \/ PushEnds \/ Leave
    BY <2>1, <2>6, StoppingIsStep
  <2> QED BY <2>1, <2>2, <2>3, <2>4, <2>5, <2>6 DEF ServerNext, MainNext, Handling
<1> QED BY <1>1, <1>2, ServedHolds, PTL DEF ServerSafety, Requested!ServiceSafety, Step

----------------------------------------------------------------------------
(* The MQTT client.                                                        *)

\* The variables have their types.
THEOREM MqttTypeCorrect == MqttSpec => []MqttTypeOK
<1>1. MqttInit => MqttTypeOK
  <2>1. SUFFICES ASSUME MqttInit
                 PROVE  MqttTypeOK
    OBVIOUS
  <2>2. queue \in 0..MqttQueueBound
    BY <2>1, MqttAssumption DEF MqttInit
  <2> QED BY <2>1, <2>2 DEF MqttInit, MqttTypeOK
<1>2. MqttTypeOK /\ [MqttNext]_mqttVars => MqttTypeOK'
  <2>1. SUFFICES ASSUME MqttTypeOK, [MqttNext]_mqttVars
                 PROVE  MqttTypeOK'
    OBVIOUS
  <2>2. Results \subseteq BOOLEAN
    BY <2>1 DEF Results, MqttTypeOK
  <2>3. CASE Connect
    BY <2>1, <2>3 DEF Connect, flags, MqttTypeOK
  <2>4. CASE Refuse
    BY <2>1, <2>4 DEF Refuse, flags, MqttTypeOK
  <2>5. CASE OnConnect
    BY <2>1, <2>5 DEF OnConnect, flags, MqttTypeOK
  <2>6. CASE OnConnectSubscribes
    BY <2>1, <2>2, <2>6 DEF OnConnectSubscribes, flags, MqttTypeOK
  <2>7. CASE Break
    BY ZenonT(60), <2>1, <2>7 DEF Break, flags, MqttTypeOK
  <2>8. CASE OnDisconnect
    BY <2>1, <2>8 DEF OnDisconnect, flags, MqttTypeOK
  <2>9. CASE OnMessage
    <3>1. alive' \in BOOLEAN
      BY <2>1, <2>9 DEF OnMessage, MqttTypeOK
    <3>2. queue' \in 0..MqttQueueBound
      BY <2>1, <2>9, MqttAssumption DEF OnMessage, MqttTypeOK
    <3>3. UNCHANGED <<link, callback, broker, connected, subscribed, waiting, push,
                      answer, telemetry, client>>
      BY <2>9 DEF OnMessage, flags
    <3> QED BY <2>1, <3>1, <3>2, <3>3 DEF MqttTypeOK
  <2>10. CASE PushCheck
    BY <2>1, <2>10 DEF PushCheck, flags, MqttTypeOK
  <2>11. CASE PushAsks
    BY <2>1, <2>2, <2>11 DEF PushAsks, flags, MqttTypeOK
  <2>12. CASE PushNotes
    BY <2>1, <2>12 DEF PushNotes, flags, MqttTypeOK
  <2>13. CASE PushPublishes
    BY <2>1, <2>13 DEF PushPublishes, flags, MqttTypeOK
  <2>14. CASE PushNotesNoConnection
    BY <2>1, <2>14 DEF PushNotesNoConnection, flags, MqttTypeOK
  <2>15. CASE RetryDue
    <3>1. waiting' \in BOOLEAN
      BY <2>15 DEF RetryDue
    <3>2. UNCHANGED <<link, callback, broker, connected, subscribed, push, answer,
                      telemetry, client, queue, alive>>
      BY <2>15 DEF RetryDue
    <3> QED BY <2>1, <3>1, <3>2 DEF MqttTypeOK
  <2>16. CASE PushTelemetry
    BY <2>1, <2>16 DEF PushTelemetry, flags, MqttTypeOK
  <2>17. CASE Take
    <3>1. queue' \in 0..MqttQueueBound
      BY <2>17, MqttAssumption DEF Take
    <3> QED BY <2>1, <2>17, <3>1 DEF Take, flags, MqttTypeOK
  <2>18. CASE StopClient
    BY <2>1, <2>18 DEF StopClient, flags, MqttTypeOK
  <2>19. CASE Disconnect
    BY <2>1, <2>19 DEF Disconnect, flags, MqttTypeOK
  <2>20. CASE Destroy
    BY <2>1, <2>20 DEF Destroy, flags, MqttTypeOK
  <2>21. CASE UNCHANGED mqttVars
    BY <2>1, <2>21 DEF mqttVars, flags, MqttTypeOK
  <2> QED BY <2>1, <2>3, <2>4, <2>5, <2>6, <2>7, <2>8, <2>9, <2>10, <2>11, <2>12,
             <2>13, <2>14, <2>15, <2>16, <2>17, <2>18, <2>19, <2>20, <2>21
           DEF MqttNext, PushNext
<1> QED BY <1>1, <1>2, PTL DEF MqttSpec

\* A connection is up only after Connect, which hands it to the connect callback,
\* and only a connection that is up can be subscribed: for all payloads and
\* bounds, whatever the push thread still notes of an earlier one.
THEOREM AlwaysSubscribedWhileUp == MqttSpec => []SubscribedWhileUp
<1>1. MqttInit => SubscribedWhileUp
  BY DEF MqttInit, SubscribedWhileUp
<1>2. SubscribedWhileUp /\ [MqttNext]_mqttVars => SubscribedWhileUp'
  <2>1. SUFFICES ASSUME SubscribedWhileUp, [MqttNext]_mqttVars
                 PROVE  SubscribedWhileUp'
    OBVIOUS
  <2>2. CASE Connect \/ Break \/ OnDisconnect \/ Destroy
    BY <2>1, <2>2 DEF Connect, Break, OnDisconnect, Destroy, SubscribedWhileUp
  <2>3. CASE OnConnect \/ OnConnectSubscribes
    BY <2>1, <2>3 DEF OnConnect, OnConnectSubscribes, SubscribedWhileUp
  <2>4. CASE PushAsks
    BY <2>1, <2>4 DEF PushAsks, SubscribedWhileUp
  <2>5. CASE Refuse \/ OnMessage \/ RetryDue \/ PushTelemetry \/ Take
    BY <2>1, <2>5 DEF Refuse, OnMessage, RetryDue, PushTelemetry, Take,
                      SubscribedWhileUp
  <2>6. CASE PushCheck \/ PushNotes \/ PushPublishes \/ PushNotesNoConnection
    BY <2>1, <2>6 DEF PushCheck, PushNotes, PushPublishes, PushNotesNoConnection,
                      SubscribedWhileUp
  <2>7. CASE StopClient \/ Disconnect
    BY <2>1, <2>7 DEF StopClient, Disconnect, SubscribedWhileUp
  <2>8. CASE UNCHANGED mqttVars
    BY <2>1, <2>8 DEF mqttVars, SubscribedWhileUp
  <2> QED BY <2>1, <2>2, <2>3, <2>4, <2>5, <2>6, <2>7, <2>8 DEF MqttNext, PushNext
<1> QED BY <1>1, <1>2, PTL DEF MqttSpec

\* Once main has joined the push thread, it does nothing any more.
Joined == client \in {"disconnecting", "gone"} => push = "over"

LEMMA JoinedHolds == MqttSpec => []Joined
<1>1. MqttInit => Joined
  BY DEF MqttInit, Joined
<1>2. Joined /\ [MqttNext]_mqttVars => Joined'
  <2>1. SUFFICES ASSUME Joined, [MqttNext]_mqttVars
                 PROVE  Joined'
    OBVIOUS
  <2>2. CASE PushNext
    BY <2>1, <2>2 DEF PushNext, PushCheck, PushAsks, PushNotes, PushPublishes,
                      PushNotesNoConnection, Joined
  <2>3. CASE StopClient \/ Disconnect \/ Destroy
    BY <2>1, <2>3 DEF StopClient, Disconnect, Destroy, Joined
  <2>4. CASE Connect \/ Refuse \/ OnConnect \/ OnConnectSubscribes
    BY <2>1, <2>4 DEF Connect, Refuse, OnConnect, OnConnectSubscribes, Joined
  <2>5. CASE Break \/ OnDisconnect \/ OnMessage \/ RetryDue \/ PushTelemetry \/ Take
    BY <2>1, <2>5 DEF Break, OnDisconnect, OnMessage, RetryDue, PushTelemetry, Take,
                      Joined
  <2>6. CASE UNCHANGED mqttVars
    BY <2>1, <2>6 DEF mqttVars, Joined
  <2> QED BY <2>1, <2>2, <2>3, <2>4, <2>5, <2>6 DEF MqttNext
<1> QED BY <1>1, <1>2, PTL DEF MqttSpec

\* MqttClient::stop frees the library's client only when nobody calls it: the push
\* thread asks and publishes only before main disconnects.
THEOREM ClientAlwaysOutlivesPush == MqttSpec => []ClientOutlivesPush
<1>1. MqttTypeOK /\ Joined => ClientOutlivesPush
  BY DEF MqttTypeOK, Joined, ClientOutlivesPush
<1> QED BY <1>1, MqttTypeCorrect, JoinedHolds, PTL

----------------------------------------------------------------------------
(* The GPS driver.                                                         *)

\* lastRelposMs_ is as old as the solution: nothing else renews it.
Aged ==
  /\ relpos \in 0..NoSolution
  /\ silence = relpos
  /\ solution # "Invalid" => relpos <= SolTimeout

\* Only a relative position renews the solution, and then all of it.
LEMMA DispatchKeepsAged ==
  ASSUME Aged, Dispatch
  PROVE  Aged'
BY GpsAssumption DEF Aged, Dispatch, NoSolution

LEMMA NoMessageKeepsAged ==
  ASSUME Aged, NoMessage
  PROVE  Aged'
BY DEF Aged, NoMessage, NoSolution

\* Whatever state the parser is in, a byte is dispatched or changes no solution.
LEMMA ParseKeepsAged ==
  ASSUME NEW right \in BOOLEAN, Aged, Parse(right)
  PROVE  Aged'
BY DispatchKeepsAged, NoMessageKeepsAged DEF Parse

\* Time takes back a solution before it is older than the timeout.
LEMMA TickKeepsAged ==
  ASSUME Aged, Tick
  PROVE  Aged'
BY GpsAssumption DEF Aged, Tick, Later, NoSolution

LEMMA AgedHolds == GpsSpec => []Aged
<1>1. GpsInit => Aged
  BY GpsAssumption DEF GpsInit, Aged, NoSolution
<1>2. Aged /\ [GpsNext]_gpsVars => Aged'
  <2>1. SUFFICES ASSUME Aged, [GpsNext]_gpsVars
                 PROVE  Aged'
    OBVIOUS
  <2>2. CASE Receive
    <3>1. (pos = Awaited) \in BOOLEAN
      OBVIOUS
    <3>2. Parse(pos = Awaited)
      BY <2>2 DEF Receive
    <3> QED BY <2>1, <3>1, <3>2, ParseKeepsAged
  <2>3. CASE Garble
    BY <2>1, <2>3, ParseKeepsAged, NoMessageKeepsAged DEF Garble
  <2>4. CASE LoseByte
    BY <2>1, <2>4, NoMessageKeepsAged DEF LoseByte
  <2>5. CASE Tick
    BY <2>1, <2>5, TickKeepsAged
  <2>6. CASE UNCHANGED gpsVars
    BY <2>1, <2>6 DEF Aged, gpsVars, NoSolution
  <2> QED BY <2>1, <2>2, <2>3, <2>4, <2>5, <2>6 DEF GpsNext
<1> QED BY <1>1, <1>2, PTL DEF GpsSpec

\* For all timeouts, lengths and numbers of mishaps: the solution Robot asks for is
\* Invalid, or was received within SOL_TIMEOUT_MS.
THEOREM FixAlwaysRecent == GpsSpec => []FixIsRecent
<1>1. Aged => FixIsRecent
  BY DEF Aged, FixIsRecent
<1> QED BY <1>1, AgedHolds, PTL
----------------------------------------------------------------------------
(* The search for a way.                                                   *)

Reached == { c \in Cells : gCost[c] < Far }

\* A set of cells that no step leaves, with the source in it.
Closes(R) == ends.src \in R /\ \A c \in R : StepsFrom(c) \subseteq R

\* No way leads to the destination.
ShutOff == \E R \in SUBSET Cells : Closes(R) /\ ends.dst \notin R

GridTyped ==
  /\ ground \in Grounds /\ ends \in [src: Starts, dst: Cells \cup {Off}]
  /\ gCost \in [Cells -> 0 .. Far] /\ parent \in [Cells -> Cells \cup {Off}]
  /\ closed \subseteq Cells
  /\ search \in {"running", "found", "failed", "traced", "smoothed", "planned", "refused"}
  /\ search = "running" => Asked

\* The parents of the cells reached are a tree of allowed steps, with its root in the
\* source; a cell's cost is that of its branch, and stays below what stands for none.
Branch(c) ==
  /\ parent[c] \in closed /\ c \in StepsFrom(parent[c])
  /\ gCost[c] = gCost[parent[c]] + StepCost(parent[c], c)
Tree ==
  /\ closed \subseteq Reached /\ (\A n \in heap : n.c \in Reached)
  /\ \A c \in Reached : gCost[c] <= Cardinality(closed) * Dearest(ground)
  /\ ends.src \in Cells => gCost[ends.src] = 0
  /\ \A c \in Reached \ {ends.src} : Branch(c)

\* What is reached is in every set that no step leaves, and is such a set itself when
\* the heap is empty, but for steps from the destination.
Frontier ==
  /\ \A R \in SUBSET Cells : Closes(R) => Reached \subseteq R
  /\ \A c \in closed \ {ends.dst} : StepsFrom(c) \subseteq Reached
  /\ search = "running" => Reached \subseteq closed \cup { n.c : n \in heap }
  /\ search = "failed" /\ Asked => Reached = closed
  /\ Asked => (ends.dst \in closed <=> search \notin {"running", "failed"})

\* What there is of the path: it ends at the destination, costs rise along it, its
\* points follow each other by steps or, as far as it is smoothed, in sight.
CourseTyped ==
  /\ path \in Seq(Cells) /\ kept \in Nat \ {0}
  /\ search \in {"running", "found"} => kept = 1 /\ Asked
  /\ search = "running" => path = <<>>
  /\ search \in {"traced", "smoothed", "planned", "refused"} => path # <<>>
Leg(i) ==
  \/ path[i] \in StepsFrom(path[i - 1])
  \/ i <= kept /\ LineIsClear(path[i - 1], path[i])
Laid ==
  /\ path # <<>> => path[Len(path)] = ends.dst
  /\ \A i \in 1 .. Len(path) :
       /\ path[i] \in Reached \ {ends.src}
       /\ \A j \in 1 .. i - 1 : gCost[path[j]] < gCost[path[i]]
  /\ \A i \in 2 .. Len(path) : Leg(i)
  /\ search \in {"traced", "smoothed", "planned", "refused"} => path[1] \in StepsFrom(ends.src)
Course == CourseTyped /\ (Asked => Laid)

GridInv == GridTyped /\ Tree /\ Frontier /\ Course

\* planPath finds a way exactly if there is one.
WayIffNotShut ==
  Asked => /\ search = "failed" => ShutOff
           /\ search \notin {"running", "failed"} => ~ShutOff

\* From the destination the parents lead over free cells and around corners, and each
\* of them is nearer to the source by a step at least: planPath's loop along them ends
\* there, and not in a cell without parent.
LeadsBack ==
  Asked /\ search \notin {"running", "failed"} =>
    /\ ends.dst \in Reached
    /\ \A c \in Reached \ {ends.src} :
         /\ parent[c] \in Reached /\ c \in StepsFrom(parent[c])
         /\ gCost[parent[c]] + Unit <= gCost[c]

LEMMA TimesGrows ==
  ASSUME NEW k \in Nat, NEW a \in Nat, NEW b \in Nat, a <= b
  PROVE  k * a \in Nat /\ k * b \in Nat /\ k * a <= k * b
<1>1. k * b = k * a + k * (b - a)
  OBVIOUS
<1>2. k * a \in Nat /\ k * b \in Nat /\ k * (b - a) \in Nat
  OBVIOUS
<1> QED BY <1>1, <1>2

\* A step costs a cell's length at least, and no more than Dearest.
LEMMA StepCosts ==
  ASSUME ground \in Grounds, NEW c \in Cells, NEW d \in Cells
  PROVE  /\ StepCost(c, d) \in Nat /\ Dearest(ground) \in Nat
         /\ Unit <= StepCost(c, d) /\ StepCost(c, d) <= Dearest(ground)
<1> DEFINE P == ground.perimeter
           X == ground.exclusions
           soft == { x \in X : ~x.hard }
           charged == { p \in P \cup soft : d \in p.near }
           inner == { x \in soft : d \in x.inside }
           count == Cardinality(charged) + Cardinality(inner)
           most == Cardinality(P) + 2 * Cardinality(X)
<1>1. ground.cost \in Nat /\ IsFiniteSet(P) /\ IsFiniteSet(X)
  BY GridAssumption DEF GroundType
<1>2. Cardinality(P) \in Nat /\ Cardinality(X) \in Nat
  BY <1>1, FS_CardinalityType
<1>3. inner \subseteq X /\ charged \subseteq P \cup X
  OBVIOUS
<1>4. IsFiniteSet(P \cup X) /\ Cardinality(P \cup X) <= Cardinality(P) + Cardinality(X)
  <2>1. IsFiniteSet(P \cap X)
    BY <1>1, FS_Intersection
  <2>2. Cardinality(P \cap X) \in Nat
    BY <2>1, FS_CardinalityType
  <2> QED BY <1>1, <1>2, <2>2, FS_Union
<1>5. /\ Cardinality(inner) \in Nat /\ Cardinality(inner) <= Cardinality(X)
      /\ Cardinality(charged) \in Nat
      /\ Cardinality(charged) <= Cardinality(P) + Cardinality(X)
  <2>1. IsFiniteSet(inner) /\ Cardinality(inner) <= Cardinality(X)
    BY <1>1, <1>3, FS_Subset
  <2>2. IsFiniteSet(charged) /\ Cardinality(charged) <= Cardinality(P \cup X)
    BY <1>3, <1>4, FS_Subset
  <2>3. /\ Cardinality(inner) \in Nat /\ Cardinality(charged) \in Nat
        /\ Cardinality(P \cup X) \in Nat
    BY <1>4, <2>1, <2>2, FS_CardinalityType
  <2> QED BY <1>2, <1>4, <2>1, <2>2, <2>3
<1>6. count \in Nat /\ most \in Nat /\ count <= most
  BY <1>2, <1>5
<1>7. /\ ground.cost * count \in Nat /\ ground.cost * most \in Nat
      /\ ground.cost * count <= ground.cost * most
  <2> HIDE DEF count, most
  <2> QED BY <1>1, <1>6, TimesGrows
<1>8. TraversalCost(ground, d)
        = ground.cost * count
            + (IF ground.corridor # {} /\ d \notin ground.corridor THEN 3 * Unit ELSE 0)
  BY DEF TraversalCost
<1>9. Dearest(ground) = 14142 + 3 * Unit + ground.cost * most
  BY DEF Dearest
<1> HIDE DEF count, most
<1> QED BY <1>7, <1>8, <1>9 DEF StepCost, Unit

\* The costs of all ways stay below the one that stands for none.
LEMMA WaysAreCheap ==
  ASSUME ground \in Grounds, NEW S, S \subseteq Cells
  PROVE  /\ IsFiniteSet(S) /\ Cardinality(S) \in Nat
         /\ Cardinality(S) * Dearest(ground) \in Nat
         /\ Cardinality(S) * Dearest(ground) < Far
<1>1. IsFiniteSet(Cells) /\ Cardinality(Cells) = GridCols * GridRows
  <2>1. /\ IsFiniteSet(0 .. GridCols - 1) /\ Cardinality(0 .. GridCols - 1) = GridCols
        /\ IsFiniteSet(0 .. GridRows - 1) /\ Cardinality(0 .. GridRows - 1) = GridRows
    <3>1. GridCols - 1 \in Int /\ GridRows - 1 \in Int /\ 0 \in Int
      BY GridAssumption
    <3>2. /\ IsFiniteSet(0 .. GridCols - 1)
          /\ Cardinality(0 .. GridCols - 1)
               = IF 0 > GridCols - 1 THEN 0 ELSE (GridCols - 1) - 0 + 1
      BY <3>1, FS_Interval
    <3>3. /\ IsFiniteSet(0 .. GridRows - 1)
          /\ Cardinality(0 .. GridRows - 1)
               = IF 0 > GridRows - 1 THEN 0 ELSE (GridRows - 1) - 0 + 1
      BY <3>1, FS_Interval
    <3> QED BY <3>2, <3>3, GridAssumption
  <2> QED BY ZenonT(60), <2>1, FS_Product DEF Cells
<1>2. IsFiniteSet(S) /\ Cardinality(S) <= GridCols * GridRows
  BY <1>1, FS_Subset
<1>3. Cardinality(S) \in Nat /\ GridCols * GridRows \in Nat
  <2>1. Cardinality(Cells) \in Nat /\ Cardinality(S) \in Nat
    BY <1>1, <1>2, FS_CardinalityType
  <2> QED BY <1>1, <2>1
<1>4. Dearest(ground) \in Nat
  <2>1. <<0, 0>> \in Cells
    BY GridAssumption DEF Cells
  <2> QED BY <2>1, StepCosts
<1>5. GridCols * GridRows * Dearest(ground) < Far
  BY GridAssumption
<1>6. /\ Dearest(ground) * Cardinality(S) \in Nat
      /\ Dearest(ground) * Cardinality(S) <= Dearest(ground) * (GridCols * GridRows)
  BY <1>2, <1>3, <1>4, TimesGrows
<1>7. /\ Cardinality(S) * Dearest(ground) = Dearest(ground) * Cardinality(S)
      /\ GridCols * GridRows * Dearest(ground) = Dearest(ground) * (GridCols * GridRows)
  BY <1>3, <1>4
<1>8. Dearest(ground) * (GridCols * GridRows) \in Nat
  BY <1>3, <1>4
<1> QED BY <1>2, <1>3, <1>5, <1>6, <1>7, <1>8, GridAssumption

LEMMA InitGrid == GridInit => GridInv
<1> SUFFICES ASSUME GridInit PROVE GridInv
  OBVIOUS
<1>1. ground \in Grounds /\ ends \in [src: Starts, dst: Cells \cup {Off}]
  BY DEF GridInit
<1>2. /\ closed = {} /\ gCost = [c \in Cells |-> IF c = ends.src THEN 0 ELSE Far]
      /\ parent = [c \in Cells |-> Off]
      /\ \A n \in heap : n.c = ends.src /\ search = "running"
      /\ search = "running" => \E n \in heap : n.c = ends.src
  <2>1. /\ search # "running" => heap = {}
        /\ search = "running" => heap = {[f |-> Heuristic(ends.src), c |-> ends.src]}
    BY DEF GridInit
  <2>2. [f |-> Heuristic(ends.src), c |-> ends.src].c = ends.src
    OBVIOUS
  <2> HIDE DEF Heuristic
  <2> QED BY <2>1, <2>2 DEF GridInit
<1>3. /\ Off \notin Cells /\ ends.src \in Cells \cup {Off} /\ ends.dst \in Cells \cup {Off}
  BY <1>1, GridAssumption DEF Off, Cells
<1>4. /\ search \in {"running", "traced", "failed"}
      /\ search = "running" <=> Asked
      /\ Asked => ends.src \in Cells
  BY <1>3 DEF GridInit, Asked
<1>5. GridTyped
  BY <1>1, <1>2, <1>4, GridAssumption DEF GridTyped
<1>6. Far > 0
  <2>1. {} \subseteq Cells
    OBVIOUS
  <2>2. Cardinality({}) * Dearest(ground) \in Nat /\ Cardinality({}) * Dearest(ground) < Far
    BY <1>1, <2>1, WaysAreCheap
  <2> QED BY <2>2, GridAssumption
<1>7. Reached \subseteq {ends.src} /\ (ends.src \in Cells => ends.src \in Reached)
  BY <1>2, <1>6, GridAssumption DEF Reached
<1>8. Tree
  <2>1. Cardinality(closed) * Dearest(ground) \in Nat
    BY <1>1, <1>2, WaysAreCheap
  <2>2. \A n \in heap : n.c \in Reached
    BY <1>2, <1>4, <1>7
  <2>3. \A c \in Reached : gCost[c] = 0
    BY <1>2, <1>7 DEF Reached
  <2> QED BY <1>2, <1>7, <2>1, <2>2, <2>3 DEF Tree
<1>9. Frontier
  <2>1. \A R \in SUBSET Cells : Closes(R) => Reached \subseteq R
    BY <1>7 DEF Closes
  <2>2. search = "running" => Reached \subseteq { n.c : n \in heap }
    BY <1>2, <1>7
  <2> QED BY <1>2, <1>4, <2>1, <2>2 DEF Frontier
<1>10. Course
  <2>1. ends.dst \in Cells \/ search = "failed"
    BY <1>3 DEF GridInit
  <2>2. path = IF search = "traced" THEN <<ends.dst>> ELSE <<>>
    BY DEF GridInit
  <2>3. CourseTyped
    BY <1>4, <2>1, <2>2 DEF GridInit, CourseTyped
  <2>4. Asked => path = <<>>
    BY <1>4, <2>2
  <2>5. Asked => Laid
    BY <1>4, <2>4 DEF Laid
  <2> QED BY <2>3, <2>5 DEF Course
<1> QED BY <1>5, <1>8, <1>9, <1>10 DEF GridInv

\* Nothing of the path is there before the search is over.
LEMMA SearchKeepsCourse ==
  ASSUME Course, search = "running", search' \in {"running", "found", "failed"},
         UNCHANGED <<ground, ends, path, kept>>
  PROVE  Course'
<1>1. path = <<>> /\ path' = <<>> /\ Asked /\ Asked'
  BY DEF Course, CourseTyped, Asked
<1>2. CourseTyped'
  BY <1>1 DEF Course, CourseTyped
<1>3. Laid'
  BY <1>1 DEF Laid
<1> QED BY <1>2, <1>3 DEF Course

\* A cell that is taken from the heap for good.
LEMMA CloseKeepsTree ==
  ASSUME GridInv, NEW n \in heap, n.c \notin closed, closed' = closed \cup {n.c},
         UNCHANGED ground
  PROVE  /\ n.c \in Reached /\ closed' \subseteq Cells
         /\ Dearest(ground) \in Nat
         /\ Cardinality(closed) * Dearest(ground) \in Nat
         /\ Cardinality(closed') * Dearest(ground')
              = Cardinality(closed) * Dearest(ground) + Dearest(ground)
         /\ Cardinality(closed') * Dearest(ground') < Far
<1>1. /\ n.c \in Reached /\ closed' \subseteq Cells
      /\ ground \in Grounds /\ closed \subseteq Cells
  BY DEF GridInv, GridTyped, Tree, Reached
<1>2. /\ IsFiniteSet(closed) /\ Cardinality(closed) \in Nat
      /\ Cardinality(closed) * Dearest(ground) \in Nat
      /\ Cardinality(closed') * Dearest(ground) < Far
  BY <1>1, WaysAreCheap
<1>3. Cardinality(closed') = Cardinality(closed) + 1
  BY <1>2, FS_AddElement
<1>4. Dearest(ground) \in Nat
  BY <1>1, StepCosts DEF Reached
<1>5. (Cardinality(closed) + 1) * Dearest(ground)
        = Cardinality(closed) * Dearest(ground) + Dearest(ground)
  BY <1>2, <1>4
<1> QED BY <1>1, <1>2, <1>3, <1>4, <1>5

LEMMA DiscardKeepsGrid ==
  ASSUME GridInv, NEW n \in heap, Discard(n), search = "running",
         UNCHANGED <<ground, ends, kept>>
  PROVE  GridInv'
<1> USE DEF Discard
<1>1. Reached' = Reached /\ Asked' = Asked
  BY DEF Reached, Asked
<1>2. GridTyped'
  BY <1>1 DEF GridInv, GridTyped
<1>3. Tree'
  BY <1>1 DEF GridInv, Tree, Branch, StepsFrom, StepCost
<1>4. Frontier'
  <2>1. \A R \in SUBSET Cells : Closes(R)' = Closes(R)
    BY DEF Closes, StepsFrom
  <2>2. \A c \in Cells : StepsFrom(c)' = StepsFrom(c)
    BY DEF StepsFrom
  <2>3. Reached \subseteq closed \cup { o.c : o \in heap }
    BY DEF GridInv, Frontier
  <2>4. Reached' \subseteq closed' \cup { o.c : o \in heap' }
    BY <1>1, <2>3
  <2> QED BY <1>1, <2>1, <2>2, <2>4 DEF GridInv, Frontier, GridTyped
<1>5. Course'
  BY SearchKeepsCourse DEF GridInv
<1> QED BY <1>2, <1>3, <1>4, <1>5 DEF GridInv

LEMMA GoalKeepsGrid ==
  ASSUME GridInv, NEW n \in heap, ReachGoal(n), search = "running",
         UNCHANGED <<ground, ends, kept>>
  PROVE  GridInv'
<1> USE DEF ReachGoal
<1>1. Reached' = Reached /\ Asked' = Asked
  BY DEF Reached, Asked
<1>2. GridTyped'
  BY <1>1, CloseKeepsTree DEF GridInv, GridTyped
<1>3. Tree'
  <2>1. closed' \subseteq Reached
    BY CloseKeepsTree DEF GridInv, Tree
  <2>2. \A c \in Reached : gCost[c] <= Cardinality(closed') * Dearest(ground')
    <3> SUFFICES ASSUME NEW c \in Reached
                 PROVE  gCost[c] <= Cardinality(closed') * Dearest(ground')
      OBVIOUS
    <3>1. gCost[c] \in Nat /\ gCost[c] <= Cardinality(closed) * Dearest(ground)
      BY GridAssumption DEF GridInv, GridTyped, Tree, Reached
    <3>2. /\ Dearest(ground) \in Nat /\ Cardinality(closed) * Dearest(ground) \in Nat
          /\ Cardinality(closed') * Dearest(ground')
               = Cardinality(closed) * Dearest(ground) + Dearest(ground)
      BY CloseKeepsTree
    <3> QED BY <3>1, <3>2
  <2>3. \A c \in Reached \ {ends.src} : Branch(c)'
    BY DEF GridInv, Tree, Branch, StepsFrom, StepCost
  <2> QED BY <1>1, <2>1, <2>2, <2>3 DEF GridInv, Tree
<1>4. Frontier'
  <2>1. \A R \in SUBSET Cells : Closes(R)' = Closes(R)
    BY DEF Closes, StepsFrom
  <2>2. \A c \in Cells : StepsFrom(c)' = StepsFrom(c)
    BY DEF StepsFrom
  <2>3. closed \subseteq Cells /\ closed' \ {ends.dst} \subseteq closed
    BY DEF GridInv, GridTyped
  <2> QED BY <1>1, <2>1, <2>2, <2>3 DEF GridInv, Frontier, GridTyped
<1>5. Course'
  BY SearchKeepsCourse DEF GridInv
<1> QED BY <1>2, <1>3, <1>4, <1>5 DEF GridInv

\* What a cell gives its neighbours: a cost that is below Far, so that each of them is
\* reached, and a parent that is closed.
LEMMA ExpandReaches ==
  ASSUME GridInv, NEW n \in heap, Expand(n), search = "running", UNCHANGED <<ground, ends>>
  PROVE  /\ Better(n.c) \subseteq StepsFrom(n.c) \ closed
         /\ n.c \notin Better(n.c) /\ ends.src \notin Better(n.c)
         /\ gCost' \in [Cells -> 0 .. Far] /\ parent' \in [Cells -> Cells \cup {Off}]
         /\ \A d \in Cells \ Better(n.c) : gCost'[d] = gCost[d] /\ parent'[d] = parent[d]
         /\ \A d \in Better(n.c) :
              /\ gCost'[d] = gCost[n.c] + StepCost(n.c, d) /\ parent'[d] = n.c
              /\ gCost'[d] <= Cardinality(closed') * Dearest(ground')
         /\ Reached' = Reached \cup StepsFrom(n.c)
<1> DEFINE c == n.c
<1>1. /\ c \in Reached /\ c \in Cells /\ closed \subseteq Reached /\ ground \in Grounds
      /\ gCost \in [Cells -> 0 .. Far] /\ parent \in [Cells -> Cells \cup {Off}]
      /\ gCost[c] <= Cardinality(closed) * Dearest(ground)
      /\ ends.src \in Cells => gCost[ends.src] = 0
  BY DEF GridInv, GridTyped, Tree, Reached
<1>2. /\ StepsFrom(c) \subseteq Cells /\ c \notin StepsFrom(c)
      /\ Better(c) \subseteq StepsFrom(c) \ closed
  BY DEF StepsFrom, Better
<1>3. /\ Cardinality(closed) * Dearest(ground) \in Nat /\ Dearest(ground) \in Nat
      /\ Cardinality(closed') * Dearest(ground')
           = Cardinality(closed) * Dearest(ground) + Dearest(ground)
      /\ Cardinality(closed') * Dearest(ground') < Far
  BY CloseKeepsTree DEF Expand
<1>4. ASSUME NEW d \in StepsFrom(c)
      PROVE  /\ StepCost(c, d) \in Nat
             /\ gCost[c] + StepCost(c, d) \in 0 .. Far
             /\ gCost[c] + StepCost(c, d) <= Cardinality(closed') * Dearest(ground')
             /\ gCost[c] + StepCost(c, d) < Far
  <2>1. StepCost(c, d) \in Nat /\ StepCost(c, d) <= Dearest(ground)
    BY <1>1, <1>2, StepCosts
  <2>2. gCost[c] \in Nat /\ Far \in Nat
    BY <1>1, GridAssumption
  <2> QED BY <1>1, <1>3, <2>1, <2>2
<1>5. gCost' = [d \in Cells |-> IF d \in Better(c) THEN gCost[c] + StepCost(c, d)
                                ELSE gCost[d]]
  BY DEF Expand
<1>6. parent' = [d \in Cells |-> IF d \in Better(c) THEN c ELSE parent[d]]
  BY DEF Expand
<1>7. ends.src \notin Better(c)
  <2>1. ASSUME ends.src \in Better(c) PROVE FALSE
    <3>1. ends.src \in StepsFrom(c) /\ gCost[c] + StepCost(c, ends.src) < gCost[ends.src]
      BY <2>1 DEF Better
    <3>2. gCost[ends.src] = 0
      BY <1>1, <1>2, <3>1
    <3> QED BY <1>4, <3>1, <3>2
  <2> QED BY <2>1
<1>8. \A d \in StepsFrom(c) : d \in Reached \/ d \in Better(c)
  <2> SUFFICES ASSUME NEW d \in StepsFrom(c), d \notin Reached
               PROVE  d \in Better(c)
    OBVIOUS
  <2>1. gCost[d] = Far /\ d \notin closed
    BY <1>1, <1>2, GridAssumption DEF Reached
  <2> QED BY <1>4, <2>1 DEF Better
<1>9. \A d \in Better(c) : gCost'[d] = gCost[c] + StepCost(c, d) /\ parent'[d] = c
  BY <1>2, <1>5, <1>6
<1>10. \A d \in Cells \ Better(c) : gCost'[d] = gCost[d] /\ parent'[d] = parent[d]
  BY <1>5, <1>6
<1>11. Reached' = Reached \cup StepsFrom(c)
  <2>1. \A d \in Better(c) : d \in Reached'
    BY <1>2, <1>4, <1>9 DEF Reached
  <2>2. \A d \in Cells \ Better(c) : d \in Reached' <=> d \in Reached
    BY <1>10 DEF Reached
  <2>3. Reached \subseteq Cells /\ Reached' \subseteq Cells
    BY DEF Reached
  <2> QED BY <1>2, <1>8, <2>1, <2>2, <2>3
<1>12. gCost' \in [Cells -> 0 .. Far] /\ parent' \in [Cells -> Cells \cup {Off}]
  BY <1>1, <1>2, <1>4, <1>5, <1>6
<1> QED BY <1>2, <1>4, <1>7, <1>9, <1>10, <1>11, <1>12

LEMMA ExpandKeepsGrid ==
  ASSUME GridInv, NEW n \in heap, Expand(n), search = "running",
         UNCHANGED <<ground, ends, kept>>
  PROVE  GridInv'
<1> DEFINE c == n.c
<1>1. /\ Better(c) \subseteq StepsFrom(c) \ closed
      /\ c \notin Better(c) /\ ends.src \notin Better(c)
      /\ gCost' \in [Cells -> 0 .. Far] /\ parent' \in [Cells -> Cells \cup {Off}]
      /\ \A d \in Cells \ Better(c) : gCost'[d] = gCost[d] /\ parent'[d] = parent[d]
      /\ \A d \in Better(c) :
           /\ gCost'[d] = gCost[c] + StepCost(c, d) /\ parent'[d] = c
           /\ gCost'[d] <= Cardinality(closed') * Dearest(ground')
      /\ Reached' = Reached \cup StepsFrom(c)
  BY ExpandReaches
<1>2. /\ c \notin closed /\ c # ends.dst /\ closed' = closed \cup {c}
      /\ search' = search
      /\ \A o \in heap' : o \in heap \/ o.c \in Better(c)
      /\ \A o \in heap \ {n} : o \in heap'
      /\ \A d \in Better(c) : \E o \in heap' : o.c = d
  <2> DEFINE node(d) == [f |-> gCost[c] + StepCost(c, d) + Heuristic(d), c |-> d]
  <2>1. \A d : node(d).c = d
    OBVIOUS
  <2> HIDE DEF node
  <2>2. heap' = (heap \ {n}) \cup { node(d) : d \in Better(c) }
    BY DEF Expand, node
  <2>3. /\ \A o \in heap' : o \in heap \/ o.c \in Better(c)
        /\ \A o \in heap \ {n} : o \in heap'
        /\ \A d \in Better(c) : \E o \in heap' : o.c = d
    BY <2>1, <2>2
  <2> QED BY <2>3 DEF Expand
<1>3. c \in Reached /\ c \in Cells /\ StepsFrom(c) \subseteq Cells
  BY CloseKeepsTree, <1>2 DEF Reached, StepsFrom
<1>4. Asked' = Asked /\ Asked
  BY DEF GridInv, GridTyped, Asked
<1>5. GridTyped'
  BY <1>1, <1>2, <1>3, <1>4 DEF GridInv, GridTyped
<1>6. Tree'
  <2>1. closed' \subseteq Reached' /\ \A o \in heap' : o.c \in Reached'
    BY <1>1, <1>2, <1>3 DEF GridInv, Tree
  <2>2. \A d \in Reached' : gCost'[d] <= Cardinality(closed') * Dearest(ground')
    <3> SUFFICES ASSUME NEW d \in Reached', d \notin Better(c)
                 PROVE  gCost'[d] <= Cardinality(closed') * Dearest(ground')
      BY <1>1
    <3>1. d \in Cells /\ gCost'[d] = gCost[d]
      BY <1>1 DEF Reached
    <3>2. d \in Reached
      BY <3>1 DEF Reached
    <3>3. gCost[d] \in Nat /\ gCost[d] <= Cardinality(closed) * Dearest(ground)
      BY <3>1, <3>2, GridAssumption DEF GridInv, GridTyped, Tree
    <3>4. /\ Dearest(ground) \in Nat /\ Cardinality(closed) * Dearest(ground) \in Nat
          /\ Cardinality(closed') * Dearest(ground')
               = Cardinality(closed) * Dearest(ground) + Dearest(ground)
      BY <1>2, CloseKeepsTree
    <3> QED BY <3>1, <3>3, <3>4
  <2>3. ends'.src \in Cells => gCost'[ends'.src] = 0
    BY <1>1 DEF GridInv, Tree
  <2>4. \A d \in Reached' \ {ends'.src} : Branch(d)'
    <3> SUFFICES ASSUME NEW d \in Reached', d # ends.src PROVE Branch(d)'
      OBVIOUS
    <3>1. /\ \A e \in Cells : StepsFrom(e)' = StepsFrom(e)
          /\ \A e \in Cells : StepCost(e, d)' = StepCost(e, d)
      BY DEF StepsFrom, StepCost
    <3>2. CASE d \in Better(c)
      <4>1. parent'[d] = c /\ gCost'[c] = gCost[c] /\ d \in StepsFrom(c)
        BY <1>1, <1>3, <3>2
      <4> QED BY <1>1, <1>2, <1>3, <3>1, <3>2, <4>1 DEF Branch
    <3>3. CASE d \notin Better(c)
      <4>1. d \in Cells /\ gCost'[d] = gCost[d] /\ parent'[d] = parent[d]
        BY <1>1, <3>3 DEF Reached
      <4>2. Branch(d)
        BY <4>1 DEF Reached, GridInv, Tree
      <4>3. /\ parent[d] \in closed /\ parent[d] \in Cells
            /\ gCost'[parent[d]] = gCost[parent[d]]
        BY <1>1, <4>2 DEF Branch, GridInv, GridTyped
      <4> QED BY <1>2, <3>1, <4>1, <4>2, <4>3 DEF Branch
    <3> QED BY <3>2, <3>3
  <2> QED BY <2>1, <2>2, <2>3, <2>4 DEF Tree
<1>7. Frontier'
  <2>1. \A R \in SUBSET Cells : Closes(R)' = Closes(R)
    BY DEF Closes, StepsFrom
  <2>2. \A d \in Cells : StepsFrom(d)' = StepsFrom(d)
    BY DEF StepsFrom
  <2>3. \A R \in SUBSET Cells : Closes(R) => Reached' \subseteq R
    <3> SUFFICES ASSUME NEW R \in SUBSET Cells, Closes(R) PROVE Reached' \subseteq R
      OBVIOUS
    <3>1. Reached \subseteq R
      BY DEF GridInv, Frontier
    <3>2. StepsFrom(c) \subseteq R
      BY <1>3, <3>1 DEF Closes
    <3> QED BY <1>1, <3>1, <3>2
  <2>4. \A d \in closed' \ {ends.dst} : StepsFrom(d) \subseteq Reached'
    BY <1>1, <1>2 DEF GridInv, Frontier
  <2>5. Reached' \subseteq closed' \cup { o.c : o \in heap' }
    <3> SUFFICES ASSUME NEW d \in Reached', d \notin closed'
                 PROVE  \E o \in heap' : o.c = d
      OBVIOUS
    <3>1. CASE d \in Better(c)
      BY <1>2, <3>1
    <3>2. CASE d \notin Better(c)
      <4>1. d \in Reached
        BY <1>1, <3>2 DEF Reached
      <4>2. d \in closed \cup { o.c : o \in heap }
        BY <4>1 DEF GridInv, Frontier
      <4>3. PICK o \in heap : o.c = d
        BY <1>2, <4>2
      <4> QED BY <1>2, <4>3
    <3> QED BY <3>1, <3>2
  <2>6. closed' \subseteq Cells
    BY <1>2, <1>3 DEF GridInv, GridTyped
  <2>7. ends'.dst \in closed' <=> search' \notin {"running", "failed"}
    BY <1>2, <1>4 DEF GridInv, Frontier
  <2> QED BY <1>2, <2>1, <2>2, <2>3, <2>4, <2>5, <2>6, <2>7 DEF Frontier
<1>8. Course'
  BY <1>2, SearchKeepsCourse DEF GridInv, Expand
<1> QED BY <1>5, <1>6, <1>7, <1>8 DEF GridInv

\* The steps after the search leave its outcome alone, but for a broken chain.
LEMMA SettledKeepsGrid ==
  ASSUME GridInv, UNCHANGED <<ground, ends, heap, gCost, parent, closed>>,
         \/ search' = search
         \/ search = "running" /\ heap = {} /\ search' = "failed"
         \/ search = "found" /\ search' = "traced"
         \/ search = "traced" /\ search' = "smoothed"
         \/ search = "smoothed" /\ search' \in {"planned", "refused"}
  PROVE  GridTyped' /\ Tree' /\ Frontier'
<1>1. /\ Reached' = Reached /\ Asked' = Asked
      /\ \A R \in SUBSET Cells : Closes(R)' = Closes(R)
      /\ \A c \in Cells : StepsFrom(c)' = StepsFrom(c)
  BY DEF Reached, Asked, Closes, StepsFrom
<1>2. GridTyped'
  BY <1>1 DEF GridInv, GridTyped
<1>3. Tree'
  BY <1>1 DEF GridInv, Tree, Branch, StepsFrom, StepCost
<1>4. search' = "failed" /\ Asked => Reached = closed
  BY DEF GridInv, Tree, Frontier
<1>5. closed \subseteq Cells
  BY DEF GridInv, GridTyped
<1>6. Frontier'
  BY <1>1, <1>4, <1>5 DEF GridInv, Frontier
<1> QED BY <1>2, <1>3, <1>6

\* A cell reached has a parent that is reached, one step and its cost nearer.
LEMMA ParentIsNearer ==
  ASSUME GridInv, NEW c \in Reached, c # ends.src
  PROVE  /\ parent[c] \in Reached /\ parent[c] # Off /\ c \in StepsFrom(parent[c])
         /\ gCost[parent[c]] + Unit <= gCost[c]
<1>1. Branch(c) /\ parent[c] \in Reached /\ parent[c] \in Cells /\ c \in Cells
  BY DEF GridInv, Tree, Branch, Reached
<1>2. gCost[parent[c]] \in Nat /\ ground \in Grounds
  BY <1>1, GridAssumption DEF GridInv, GridTyped
<1>3. StepCost(parent[c], c) \in Nat /\ Unit <= StepCost(parent[c], c)
  BY <1>1, <1>2, StepCosts
<1>4. parent[c] # Off
  BY <1>1, GridAssumption DEF Cells, Off
<1> QED BY <1>1, <1>2, <1>3, <1>4 DEF Branch, Unit

\* Where the reconstruction is: at a cell reached, from which a step leads on to what
\* there is of the path.
LEMMA CursorIsReached ==
  ASSUME GridInv, search = "found"
  PROVE  /\ Cursor \in Reached /\ Cursor # Off /\ Asked
         /\ path = <<>> => Cursor = ends.dst /\ Cursor # ends.src
         /\ path # <<>> => /\ path[1] \in StepsFrom(Cursor)
                           /\ gCost[Cursor] < gCost[path[1]]
<1>1. Asked /\ Laid /\ path \in Seq(Cells)
  BY DEF GridInv, Course, CourseTyped
<1>2. CASE path = <<>>
  <2>1. ends.dst \in Reached /\ ends.dst # ends.src /\ ends.dst # Off
    BY <1>1, GridAssumption DEF GridInv, Frontier, Tree, Asked, Cells, Off
  <2> QED BY <1>1, <1>2, <2>1 DEF Cursor
<1>3. CASE path # <<>>
  <2>1. Head(path) = path[1] /\ 1 \in 1 .. Len(path)
    BY <1>1, <1>3
  <2>2. path[1] \in Reached /\ path[1] # ends.src
    BY <1>1, <2>1 DEF Laid
  <2>3. Cursor = parent[path[1]]
    BY <1>3, <2>1 DEF Cursor
  <2>4. /\ Cursor \in Reached /\ Cursor # Off /\ path[1] \in StepsFrom(Cursor)
        /\ gCost[Cursor] + Unit <= gCost[path[1]]
    BY <2>2, <2>3, ParentIsNearer
  <2>5. gCost[Cursor] \in Nat /\ gCost[path[1]] \in Nat
    BY <2>2, <2>4, GridAssumption DEF GridInv, GridTyped, Reached
  <2> QED BY <1>1, <1>3, <2>4, <2>5 DEF Unit
<1> QED BY <1>2, <1>3

LEMMA TraceKeepsCourse ==
  ASSUME GridInv, Trace
  PROVE  Course'
<1> DEFINE c == Cursor
<1>1. /\ path \in Seq(Cells) /\ Laid /\ kept = 1 /\ search = "found"
      /\ path' = <<c>> \o path /\ c # ends.src
      /\ UNCHANGED <<ground, ends, gCost, search, kept>>
  BY DEF GridInv, Course, CourseTyped, Trace
<1>2. /\ c \in Reached /\ c \in Cells /\ Asked
      /\ path = <<>> => c = ends.dst
      /\ path # <<>> => path[1] \in StepsFrom(c) /\ gCost[c] < gCost[path[1]]
  BY <1>1, CursorIsReached DEF Reached
<1> HIDE DEF c
<1>3. /\ path' \in Seq(Cells) /\ Len(path') = Len(path) + 1 /\ path'[1] = c
      /\ \A i \in 2 .. Len(path') : i - 1 \in 1 .. Len(path) /\ path'[i] = path[i - 1]
      /\ Len(path) \in Nat /\ path' # <<>>
  BY <1>1, <1>2
<1>4. Reached' = Reached /\ Asked' = Asked /\ \A d : StepsFrom(d)' = StepsFrom(d)
  BY <1>1 DEF Reached, Asked, StepsFrom
<1>5. CourseTyped'
  BY <1>1, <1>2, <1>3, <1>4 DEF CourseTyped
<1>6. path'[Len(path')] = ends.dst
  <2>1. CASE path = <<>>
    BY <1>2, <1>3, <2>1
  <2>2. CASE path # <<>>
    <3>1. Len(path) # 0 /\ path[Len(path)] = ends.dst
      BY <1>1, <2>2 DEF Laid
    <3>2. Len(path') \in 2 .. Len(path') /\ Len(path') - 1 = Len(path)
      BY <1>3, <3>1
    <3> QED BY <1>3, <3>1, <3>2
  <2> QED BY <2>1, <2>2
<1>7. ASSUME NEW i \in 1 .. Len(path')
      PROVE  /\ path'[i] \in Reached \ {ends.src}
             /\ \A j \in 1 .. i - 1 : gCost[path'[j]] < gCost[path'[i]]
  <2>1. CASE i = 1
    BY <1>1, <1>2, <1>3, <2>1
  <2>2. CASE i # 1
    <3>1. i \in 2 .. Len(path') /\ i - 1 \in 1 .. Len(path) /\ path'[i] = path[i - 1]
      BY <1>3, <2>2
    <3>2. path'[i] \in Reached \ {ends.src}
      BY <1>1, <3>1 DEF Laid
    <3>3. ASSUME NEW j \in 1 .. i - 1 PROVE gCost[path'[j]] < gCost[path'[i]]
      <4>1. CASE j = 1
        <5>1. path # <<>> /\ gCost[c] < gCost[path[1]] /\ 1 \in 1 .. Len(path)
          BY <1>1, <1>2, <3>1
        <5>2. CASE i = 2
          BY <1>3, <3>1, <4>1, <5>1, <5>2
        <5>3. CASE i # 2
          <6>1. 1 \in 1 .. (i - 1) - 1
            BY <3>1, <5>3
          <6>2. gCost[path[1]] < gCost[path[i - 1]]
            BY <1>1, <3>1, <6>1 DEF Laid
          <6>3. gCost[c] \in Nat /\ gCost[path[1]] \in Nat /\ gCost[path[i - 1]] \in Nat
            BY <1>1, <1>2, <3>1, <5>1, GridAssumption DEF GridInv, GridTyped, Laid, Reached
          <6> QED BY <1>3, <3>1, <4>1, <5>1, <6>2, <6>3
        <5> QED BY <5>2, <5>3
      <4>2. CASE j # 1
        <5>1. j \in 2 .. Len(path') /\ j - 1 \in 1 .. (i - 1) - 1 /\ path'[j] = path[j - 1]
          BY <1>3, <3>1, <4>2
        <5> QED BY <1>1, <3>1, <5>1 DEF Laid
      <4> QED BY <4>1, <4>2
    <3> QED BY <3>2, <3>3
  <2> QED BY <2>1, <2>2
<1>8. ASSUME NEW i \in 2 .. Len(path') PROVE Leg(i)'
  <2>1. i - 1 \in 1 .. Len(path) /\ path'[i] = path[i - 1]
    BY <1>3
  <2>2. CASE i = 2
    <3>1. path # <<>> /\ path'[i] = path[1] /\ path'[i - 1] = c
      BY <1>1, <1>3, <2>1, <2>2
    <3> QED BY <1>2, <1>4, <3>1 DEF Leg
  <2>3. CASE i # 2
    <3>1. i - 1 \in 2 .. Len(path) /\ path'[i - 1] = path[(i - 1) - 1]
      BY <1>3, <2>1, <2>3
    <3>2. path[i - 1] \in StepsFrom(path[(i - 1) - 1])
      BY <1>1, <3>1 DEF Laid, Leg
    <3> QED BY <1>4, <2>1, <3>1, <3>2 DEF Leg
  <2> QED BY <2>2, <2>3
<1>9. Laid'
  BY <1>1, <1>3, <1>4, <1>6, <1>7, <1>8 DEF Laid
<1> QED BY <1>5, <1>9 DEF Course

LEMMA TraceEndsKeepsCourse ==
  ASSUME GridInv, TraceEnds
  PROVE  Course' /\ search' = "traced"
<1>1. /\ search = "found" /\ Cursor # Off /\ Asked /\ kept = 1
      /\ path = <<>> => Cursor # ends.src
      /\ path # <<>> => path[1] \in StepsFrom(Cursor)
  BY CursorIsReached DEF TraceEnds, GridInv, Course, CourseTyped
<1>2. /\ Cursor = ends.src /\ search' = "traced" /\ path' = path
      /\ UNCHANGED <<ground, ends, gCost, kept>>
  BY <1>1 DEF TraceEnds
<1>3. Reached' = Reached /\ Asked' = Asked /\ \A d : StepsFrom(d)' = StepsFrom(d)
  BY <1>2 DEF Reached, Asked, StepsFrom
<1>4. CourseTyped'
  BY <1>1, <1>2, <1>3 DEF GridInv, Course, CourseTyped
<1>5. \A i : Leg(i) => Leg(i)'
  BY <1>1, <1>2, <1>3 DEF Leg, LineIsClear
<1>6. Laid'
  BY <1>1, <1>2, <1>3, <1>5 DEF GridInv, Course, Laid
<1> QED BY <1>2, <1>4, <1>6 DEF Course

\* What a step of the smoothing leaves: the points up to the one kept last, and those
\* from one after it on.
LEMMA ShortenCuts ==
  ASSUME GridInv, Shorten
  PROVE  \E j \in kept + 1 .. Len(path) :
           /\ j = kept + 1 \/ LineIsClear(path[kept], path[j])
           /\ path' \in Seq(Cells) /\ Len(path') = kept + (Len(path) - j) + 1
           /\ \A i \in 1 .. kept : path'[i] = path[i]
           /\ \A i \in kept + 1 .. Len(path') : path'[i] = path[i - kept + j - 1]
<1>1. /\ path \in Seq(Cells) /\ kept \in Nat /\ 1 <= kept /\ kept < Len(path)
      /\ Len(path) \in Nat
  BY DEF GridInv, Course, CourseTyped, Shorten
<1>2. PICK j \in Furthest(path, kept) :
        path' = SubSeq(path, 1, kept) \o SubSeq(path, j, Len(path))
  BY DEF Shorten
<1>3. /\ j \in kept + 1 .. Len(path)
      /\ j = kept + 1 \/ LineIsClear(path[kept], path[j])
  BY <1>1 DEF Furthest
<1> DEFINE p == SubSeq(path, 1, kept)
           q == SubSeq(path, j, Len(path))
<1>4. p \in Seq(Cells) /\ Len(p) = kept /\ \A i \in 1 .. kept : p[i] = path[i]
  BY <1>1
<1>5. /\ q \in Seq(Cells) /\ Len(q) = Len(path) - j + 1
      /\ \A i \in 1 .. Len(path) - j + 1 : q[i] = path[j + i - 1]
  BY <1>1, <1>3
<1>6. path' = p \o q
  BY <1>2
<1> HIDE DEF p, q
<1>7. /\ path' \in Seq(Cells) /\ Len(path') = kept + (Len(path) - j) + 1
      /\ \A i \in 1 .. kept : path'[i] = p[i]
      /\ \A i \in kept + 1 .. Len(path') : path'[i] = q[i - kept]
  <2>1. Len(p) \in Nat /\ Len(q) \in Nat
    BY <1>1, <1>3, <1>4, <1>5
  <2>2. path' \in Seq(Cells) /\ Len(path') = Len(p) + Len(q)
    BY <1>4, <1>5, <1>6, ConcatProperties
  <2>3. \A i \in 1 .. Len(p) + Len(q) :
          path'[i] = IF i <= Len(p) THEN p[i] ELSE q[i - Len(p)]
    BY <1>4, <1>5, <1>6, ConcatProperties
  <2>4. Len(path') = kept + (Len(path) - j) + 1
    BY <1>1, <1>3, <1>4, <1>5, <2>2
  <2>5. \A i \in 1 .. kept : path'[i] = p[i]
    BY <1>1, <1>4, <2>1, <2>3
  <2>6. \A i \in kept + 1 .. Len(path') : path'[i] = q[i - kept]
    BY <1>1, <1>4, <2>1, <2>2, <2>3
  <2> QED BY <2>2, <2>4, <2>5, <2>6
<1>8. ASSUME NEW i \in kept + 1 .. Len(path') PROVE path'[i] = path[i - kept + j - 1]
  <2>1. i - kept \in 1 .. Len(path) - j + 1 /\ j + (i - kept) - 1 = i - kept + j - 1
    BY <1>1, <1>3, <1>7
  <2> QED BY <1>5, <1>7, <2>1
<1> QED BY ZenonT(60), <1>3, <1>4, <1>7, <1>8

LEMMA ShortenKeepsCourse ==
  ASSUME GridInv, Shorten
  PROVE  Course'
<1>1. PICK m \in kept + 1 .. Len(path) :
        /\ m = kept + 1 \/ LineIsClear(path[kept], path[m])
        /\ path' \in Seq(Cells) /\ Len(path') = kept + (Len(path) - m) + 1
        /\ \A i \in 1 .. kept : path'[i] = path[i]
        /\ \A i \in kept + 1 .. Len(path') : path'[i] = path[i - kept + m - 1]
  BY ShortenCuts
<1>2. /\ path \in Seq(Cells) /\ kept \in Nat /\ 1 <= kept /\ kept < Len(path)
      /\ Len(path) \in Nat /\ search = "traced" /\ kept' = kept + 1
      /\ UNCHANGED <<ground, ends, gCost, search>>
  BY DEF GridInv, Course, CourseTyped, Shorten
<1>3. /\ Reached' = Reached /\ Asked' = Asked /\ \A d : StepsFrom(d)' = StepsFrom(d)
      /\ \A d, e : LineIsClear(d, e)' = LineIsClear(d, e)
  BY <1>2 DEF Reached, Asked, StepsFrom, LineIsClear
<1>4. Len(path') \in Nat /\ kept + 1 <= Len(path') /\ path' # <<>>
  BY <1>1, <1>2
<1>5. CourseTyped'
  BY <1>1, <1>2, <1>3, <1>4 DEF CourseTyped
<1> DEFINE was(i) == IF i <= kept THEN i ELSE i - kept + m - 1
<1>6. /\ \A i \in 1 .. Len(path') : was(i) \in 1 .. Len(path) /\ path'[i] = path[was(i)]
      /\ \A i \in 1 .. Len(path') : \A j \in 1 .. i - 1 : was(j) \in 1 .. was(i) - 1
      /\ was(Len(path')) = Len(path) /\ was(1) = 1
  BY <1>1, <1>2, <1>4
<1>7. \A i \in kept + 2 .. Len(path') :
        was(i) \in 2 .. Len(path) /\ was(i - 1) = was(i) - 1 /\ was(i) > kept
  BY <1>1, <1>2, <1>4
<1>8. was(kept) = kept /\ was(kept + 1) = m
  BY <1>1, <1>2
<1>9. \A i \in 2 .. kept : was(i) = i /\ was(i - 1) = i - 1
  BY <1>2
<1> HIDE DEF was
<1>10. ASSUME Asked PROVE Laid'
  <2>1. Laid
    BY <1>10 DEF GridInv, Course
  <2>2. path'[Len(path')] = ends.dst
    BY <1>2, <1>4, <1>6, <2>1 DEF Laid
  <2>3. ASSUME NEW i \in 1 .. Len(path')
        PROVE  /\ path'[i] \in Reached \ {ends.src}
               /\ \A j \in 1 .. i - 1 : gCost[path'[j]] < gCost[path'[i]]
    <3>1. path'[i] \in Reached \ {ends.src}
      BY <1>6, <2>1 DEF Laid
    <3>2. ASSUME NEW j \in 1 .. i - 1 PROVE gCost[path'[j]] < gCost[path'[i]]
      <4>1. j \in 1 .. Len(path') /\ was(j) \in 1 .. was(i) - 1 /\ was(i) \in 1 .. Len(path)
        BY <1>4, <1>6
      <4> QED BY <1>6, <2>1, <4>1 DEF Laid
    <3> QED BY <3>1, <3>2
  <2>4. ASSUME NEW i \in 2 .. Len(path') PROVE Leg(i)'
    <3>1. i \in 1 .. Len(path') /\ i - 1 \in 1 .. Len(path')
      BY <1>4
    <3>2. path'[i] = path[was(i)] /\ path'[i - 1] = path[was(i - 1)]
      BY <1>6, <3>1
    <3>3. CASE i <= kept
      <4>1. was(i) = i /\ was(i - 1) = i - 1 /\ i \in 2 .. Len(path)
        BY <1>2, <1>9, <3>3
      <4>2. Leg(i)
        BY <2>1, <4>1 DEF Laid
      <4> QED BY <1>2, <1>3, <3>2, <3>3, <4>1, <4>2 DEF Leg
    <3>4. CASE i = kept + 1
      <4>1. path'[i] = path[m] /\ path'[i - 1] = path[kept] /\ i <= kept'
        BY <1>2, <1>8, <3>2, <3>4
      <4>2. CASE LineIsClear(path[kept], path[m])
        BY <1>3, <4>1, <4>2 DEF Leg
      <4>3. CASE m = kept + 1
        <5>1. m \in 2 .. Len(path) /\ m - 1 = kept
          BY <1>2, <4>3
        <5>2. Leg(m)
          BY <2>1, <5>1 DEF Laid
        <5> QED BY <1>2, <1>3, <4>1, <5>1, <5>2 DEF Leg
      <4> QED BY <1>1, <4>2, <4>3
    <3>5. CASE i > kept + 1
      <4>1. was(i) \in 2 .. Len(path) /\ was(i - 1) = was(i) - 1 /\ was(i) > kept
        BY <1>2, <1>4, <1>7, <3>5
      <4>2. Leg(was(i)) /\ ~(was(i) <= kept)
        BY <1>2, <2>1, <4>1 DEF Laid
      <4> QED BY <1>3, <3>2, <4>1, <4>2 DEF Leg
    <3> QED BY <1>2, <3>3, <3>4, <3>5
  <2>5. path'[1] \in StepsFrom(ends.src)
    <3>1. 1 \in 1 .. Len(path') /\ path'[1] = path[1]
      BY <1>2, <1>4, <1>6
    <3> QED BY <1>2, <2>1, <3>1 DEF Laid
  <2> QED BY <1>2, <1>3, <2>2, <2>3, <2>4, <2>5 DEF Laid
<1> QED BY <1>3, <1>5, <1>10 DEF Course

LEMMA GridStep == GridInv /\ [GridNext]_gridVars => GridInv'
<1> SUFFICES ASSUME GridInv, [GridNext]_gridVars PROVE GridInv'
  OBVIOUS
<1>1. CASE Pop
  <2>1. PICK n \in Least : Discard(n) \/ ReachGoal(n) \/ Expand(n)
    BY <1>1 DEF Pop
  <2>2. n \in heap /\ search = "running" /\ UNCHANGED <<ground, ends, kept>>
    BY <1>1 DEF Pop, Least
  <2> QED BY <2>1, <2>2, DiscardKeepsGrid, GoalKeepsGrid, ExpandKeepsGrid
<1>2. CASE Exhausted
  <2>1. GridTyped' /\ Tree' /\ Frontier'
    BY <1>2, SettledKeepsGrid DEF Exhausted
  <2>2. Course'
    BY <1>2, SearchKeepsCourse DEF Exhausted, GridInv
  <2> QED BY <2>1, <2>2 DEF GridInv
<1>3. CASE Trace
  <2>1. GridTyped' /\ Tree' /\ Frontier'
    BY <1>3, SettledKeepsGrid DEF Trace
  <2> QED BY <1>3, <2>1, TraceKeepsCourse DEF GridInv
<1>4. CASE TraceEnds
  <2>1. Course' /\ search' = "traced"
    BY <1>4, TraceEndsKeepsCourse
  <2>2. GridTyped' /\ Tree' /\ Frontier'
    BY <1>4, <2>1, SettledKeepsGrid DEF TraceEnds
  <2> QED BY <2>1, <2>2 DEF GridInv
<1>5. CASE Shorten
  <2>1. GridTyped' /\ Tree' /\ Frontier'
    BY <1>5, SettledKeepsGrid DEF Shorten
  <2> QED BY <1>5, <2>1, ShortenKeepsCourse DEF GridInv
<1>6. CASE Smoothed \/ Check \/ UNCHANGED gridVars
  <2>1. /\ UNCHANGED <<ground, ends, heap, gCost, parent, closed, path, kept>>
        /\ \/ search' = search
           \/ search = "traced" /\ search' = "smoothed"
           \/ search = "smoothed" /\ search' \in {"planned", "refused"}
    BY <1>6 DEF Smoothed, Check, gridVars
  <2>2. GridTyped' /\ Tree' /\ Frontier'
    BY <2>1, SettledKeepsGrid
  <2>3. /\ Reached' = Reached /\ Asked' = Asked /\ \A d : StepsFrom(d)' = StepsFrom(d)
        /\ \A i : Leg(i)' = Leg(i)
    BY <2>1 DEF Reached, Asked, StepsFrom, Leg, LineIsClear
  <2>4. CourseTyped'
    BY <2>1, <2>3 DEF GridInv, Course, CourseTyped
  <2>5. Laid => Laid'
    BY <2>1, <2>3 DEF Laid
  <2> QED BY <2>2, <2>3, <2>4, <2>5 DEF GridInv, Course
<1> QED BY <1>1, <1>2, <1>3, <1>4, <1>5, <1>6 DEF GridNext

\* The planner finds a way to a free destination exactly if there is one, on every map
\* of every size: when it fails there is a set of cells that no step leaves, with the
\* source in it and the destination not, and when it succeeds there is none.
THEOREM WayIsFoundIfThereIsOne == GridSpec => []WayIffNotShut
<1>1. GridInv => WayIffNotShut
  <2> SUFFICES ASSUME GridInv, Asked
               PROVE  /\ search = "failed" => ShutOff
                      /\ search \notin {"running", "failed"} => ~ShutOff
    BY DEF WayIffNotShut
  <2>1. ends.src \in Cells /\ ends.dst \in Cells
    BY GridAssumption DEF GridInv, GridTyped, Asked
  <2>2. ends.src \in Reached
    BY <2>1, WaysAreCheap, GridAssumption DEF GridInv, GridTyped, Tree, Reached
  <2>3. ASSUME search = "failed" PROVE ShutOff
    <3>1. Reached = closed /\ ends.dst \notin closed
      BY <2>3 DEF GridInv, Frontier
    <3>2. Closes(closed)
      BY <2>2, <3>1 DEF GridInv, Frontier, Closes
    <3> QED BY <3>1, <3>2 DEF ShutOff, GridInv, GridTyped
  <2>4. ASSUME search \notin {"running", "failed"} PROVE ~ShutOff
    <3>1. ends.dst \in Reached
      BY <2>4 DEF GridInv, Tree, Frontier
    <3> QED BY <3>1 DEF ShutOff, GridInv, Frontier
  <2> QED BY <2>3, <2>4
<1> QED BY <1>1, InitGrid, GridStep, PTL DEF GridSpec

\* planPath's reconstruction of a way ends at the source, after steps that the map
\* allows, and never runs into a cell without parent.
THEOREM WayLeadsBack == GridSpec => []LeadsBack
<1>1. GridInv => LeadsBack
  <2> SUFFICES ASSUME GridInv, Asked, search \notin {"running", "failed"}
               PROVE  /\ ends.dst \in Reached
                      /\ \A c \in Reached \ {ends.src} :
                           /\ parent[c] \in Reached /\ c \in StepsFrom(parent[c])
                           /\ gCost[parent[c]] + Unit <= gCost[c]
    BY DEF LeadsBack
  <2>1. ends.dst \in Reached
    BY DEF GridInv, Tree, Frontier
  <2> QED BY <2>1, ParentIsNearer
<1> QED BY <1>1, InitGrid, GridStep, PTL DEF GridSpec

\* planPath's path, as it comes from the search and as it is smoothed, leads from the
\* source to the destination by steps that the map allows or lines that are free, and
\* visits no cell twice, on every map and grid.
THEOREM PathAlwaysClear == GridSpec => []PathIsClear
<1>1. GridInv => PathIsClear
  <2> SUFFICES ASSUME GridInv, Asked,
                      search \in {"traced", "smoothed", "planned", "refused"}
               PROVE  /\ path # <<>> /\ path[Len(path)] = ends.dst
                      /\ \A i \in 1 .. Len(path) :
                           /\ \/ path[i] \in StepsFrom(Before(i))
                              \/ 1 < i /\ i <= kept /\ LineIsClear(Before(i), path[i])
                           /\ path[i] # ends.src
                           /\ \A j \in 1 .. i - 1 : path[j] # path[i]
    BY DEF PathIsClear
  <2>1. Laid /\ path # <<>> /\ path \in Seq(Cells)
    BY DEF GridInv, Course, CourseTyped
  <2>2. ASSUME NEW i \in 1 .. Len(path)
        PROVE  \/ path[i] \in StepsFrom(Before(i))
               \/ 1 < i /\ i <= kept /\ LineIsClear(Before(i), path[i])
    <3>1. CASE i = 1
      BY <2>1, <3>1 DEF Laid, Before
    <3>2. CASE i # 1
      <4>1. i \in 2 .. Len(path) /\ Before(i) = path[i - 1] /\ 1 < i
        BY <2>1, <3>2 DEF Before
      <4> QED BY <2>1, <4>1 DEF Laid, Leg
    <3> QED BY <3>1, <3>2
  <2>3. ASSUME NEW i \in 1 .. Len(path), NEW j \in 1 .. i - 1 PROVE path[j] # path[i]
    <3>1. gCost[path[j]] < gCost[path[i]] /\ gCost[path[i]] \in Nat
      BY <2>1, GridAssumption DEF Laid, GridInv, GridTyped, Reached
    <3> QED BY <3>1
  <2>4. path[Len(path)] = ends.dst /\ \A i \in 1 .. Len(path) : path[i] # ends.src
    BY <2>1 DEF Laid
  <2> QED BY <2>1, <2>2, <2>3, <2>4
<1> QED BY <1>1, InitGrid, GridStep, PTL DEF GridSpec
=============================================================================
