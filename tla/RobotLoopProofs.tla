--------------------------- MODULE RobotLoopProofs ---------------------------
(***************************************************************************)
(* The control loop implements OpManager, for all inputs, commands and     *)
(* bounds: every step of every phase is a request that the active          *)
(* operation may make, the flush of the pending one, or leaves the         *)
(* transition state alone.  With it the theorems of OpManagerProofs hold   *)
(* of the robot.                                                           *)
(***************************************************************************)
EXTENDS RobotLoop, TLAPS

OP == INSTANCE OpManagerProofs

----------------------------------------------------------------------------
(* The tables of Ops are the same in the instances OM and OP as here.      *)

LEMMA SameOMRequests ==
  /\ OM!OpNames = OpNames /\ OM!None = None /\ OM!Detours = Detours
  /\ OM!RobotRequests = RobotRequests
  /\ \A op : OM!ChangeTo(op) = ChangeTo(op) /\ OM!DetourTo(op) = DetourTo(op)
  /\ \A op, p : OM!Ask(op, p) = Ask(op, p)
  /\ \A op : OM!OwnRequests(op) = OwnRequests(op)
<1>1. /\ \A op : OM!ChangeTo(op) = ChangeTo(op) /\ OM!DetourTo(op) = DetourTo(op)
      /\ \A op, p : OM!Ask(op, p) = Ask(op, p)
  BY DEF OM!Ask, Ask, OM!ChangeTo, ChangeTo, OM!DetourTo, DetourTo, OM!NORMAL, NORMAL
<1>2. \A op : OM!OwnRequests(op) = OwnRequests(op)
  BY <1>1 DEF OM!OwnRequests, OwnRequests
<1>3. OM!RobotRequests = RobotRequests
  BY <1>1 DEF OM!RobotRequests, RobotRequests, OM!CRITICAL, CRITICAL, OM!HIGH, HIGH,
              OM!NORMAL, NORMAL
<1>4. OM!OpNames = OpNames /\ OM!None = None /\ OM!Detours = Detours
  BY DEF OM!OpNames, OpNames, OM!None, None, OM!Detours, Detours
<1> QED
  BY <1>1, <1>2, <1>3, <1>4

LEMMA SameOMAnswers == OM!Answers = Answers
<1>1. \A op : OM!Table(op) = Table(op)
  BY SameOMRequests DEF OM!Table, Table, OM!MowAnswers, MowAnswers, OM!NavToStartAnswers,
     NavToStartAnswers, OM!DockAnswers, DockAnswers, OM!ChargeAnswers, ChargeAnswers,
     OM!UndockAnswers, UndockAnswers, OM!EscapeReverseAnswers, EscapeReverseAnswers,
     OM!EscapeForwardAnswers, EscapeForwardAnswers, OM!WaitRainAnswers, WaitRainAnswers,
     OM!ManualAnswers, ManualAnswers, OM!DefaultAnswers, DefaultAnswers,
     OM!CRITICAL, CRITICAL
<1> QED
  BY <1>1, SameOMRequests DEF OM!Answers, Answers

LEMMA SameOMMayAsk ==
  OM!MayAsk = OwnRequests(active) \union Answers[active] \union RobotRequests
              \union (IF active \in Detours /\ next[active] # None
                      THEN {ChangeTo(next[active])} ELSE {})
  BY SameOMRequests, SameOMAnswers DEF OM!MayAsk

LEMMA SameOPRequests ==
  /\ OP!OpNames = OpNames /\ OP!None = None /\ OP!Detours = Detours
  /\ OP!RobotRequests = RobotRequests
  /\ \A op : OP!ChangeTo(op) = ChangeTo(op) /\ OP!DetourTo(op) = DetourTo(op)
  /\ \A op, p : OP!Ask(op, p) = Ask(op, p)
  /\ \A op : OP!OwnRequests(op) = OwnRequests(op)
<1>1. /\ \A op : OP!ChangeTo(op) = ChangeTo(op) /\ OP!DetourTo(op) = DetourTo(op)
      /\ \A op, p : OP!Ask(op, p) = Ask(op, p)
  BY DEF OP!Ask, Ask, OP!ChangeTo, ChangeTo, OP!DetourTo, DetourTo, OP!NORMAL, NORMAL
<1>2. \A op : OP!OwnRequests(op) = OwnRequests(op)
  BY <1>1 DEF OP!OwnRequests, OwnRequests
<1>3. OP!RobotRequests = RobotRequests
  BY <1>1 DEF OP!RobotRequests, RobotRequests, OP!CRITICAL, CRITICAL, OP!HIGH, HIGH,
              OP!NORMAL, NORMAL
<1>4. OP!OpNames = OpNames /\ OP!None = None /\ OP!Detours = Detours
  BY DEF OP!OpNames, OpNames, OP!None, None, OP!Detours, Detours
<1> QED
  BY <1>1, <1>2, <1>3, <1>4

LEMMA SameOPAnswers == OP!Answers = Answers
<1>1. \A op : OP!Table(op) = Table(op)
  BY SameOPRequests DEF OP!Table, Table, OP!MowAnswers, MowAnswers, OP!NavToStartAnswers,
     NavToStartAnswers, OP!DockAnswers, DockAnswers, OP!ChargeAnswers, ChargeAnswers,
     OP!UndockAnswers, UndockAnswers, OP!EscapeReverseAnswers, EscapeReverseAnswers,
     OP!EscapeForwardAnswers, EscapeForwardAnswers, OP!WaitRainAnswers, WaitRainAnswers,
     OP!ManualAnswers, ManualAnswers, OP!DefaultAnswers, DefaultAnswers,
     OP!CRITICAL, CRITICAL
<1> QED
  BY <1>1, SameOPRequests DEF OP!Answers, Answers

LEMMA SameOPMayAsk ==
  OP!MayAsk = OwnRequests(active) \union Answers[active] \union RobotRequests
              \union (IF active \in Detours /\ next[active] # None
                      THEN {ChangeTo(next[active])} ELSE {})
  BY SameOPRequests, SameOPAnswers DEF OP!MayAsk

----------------------------------------------------------------------------
\* A step of the loop, as the operation manager sees it.
OMStep == OM!Next \/ UNCHANGED omVars

\* A request that is in MayAsk is a step of OpManager, accepted or not.
LEMMA RequestIsStep ==
  ASSUME NEW r \in OM!MayAsk, RequestOp(r)
  PROVE  OMStep
  BY DEF OMStep, OM!Next, OM!AskFor, RequestOp

LEMMA QuietIsStep == Quiet => OMStep
  BY DEF Quiet, OMStep

\* An event handler asks only for what its table names.
LEMMA AnswerIsStep ==
  ASSUME active \in OpNames, NEW ev, Answer(ev)
  PROVE  OMStep
<1>1. CASE Hears(ev)
  <2>1. Table(active)[ev] \in OM!MayAsk
    BY <1>1, SameOMMayAsk DEF Hears, Answers
  <2> QED
    BY <1>1, <2>1, RequestIsStep DEF Answer
<1>2. CASE ~Hears(ev)
  BY <1>2, QuietIsStep DEF Answer
<1> QED
  BY <1>1, <1>2

LEMMA TellIsStep ==
  ASSUME active \in OpNames, NEW ev, Tell(ev)
  PROVE  OMStep
  BY AnswerIsStep DEF Tell

\* What Robot asks for in the active operation's name.
LEMMA RobotMayAsk ==
  /\ Ask("Error", CRITICAL) \in OM!MayAsk
  /\ Ask("Idle", CRITICAL) \in OM!MayAsk
  /\ Ask("Manual", NORMAL) \in OM!MayAsk
  /\ Ask("Dock", HIGH) \in OM!MayAsk
  /\ Departure \in OM!MayAsk
  BY SameOMMayAsk DEF RobotRequests, Departure

LEMMA OwnMayAsk ==
  ASSUME NEW r \in OwnRequests(active)
  PROVE  r \in OM!MayAsk
  BY SameOMMayAsk

----------------------------------------------------------------------------
(* The operator's commands                                                 *)

LEMMA StartMowingIsStep == StartMowing \/ StartMowingZones => OMStep
  BY RobotMayAsk, RequestIsStep, QuietIsStep DEF StartMowing, StartMowingZones

LEMMA StartDockingIsStep == StartDocking => OMStep
  BY RobotMayAsk, RequestIsStep DEF StartDocking

LEMMA EmergencyStopIsStep == EmergencyStop => OMStep
  BY RobotMayAsk, RequestIsStep DEF EmergencyStop

LEMMA CommandIsStep == ASSUME NEW c, Execute(c) PROVE OMStep
  BY StartMowingIsStep, StartDockingIsStep, EmergencyStopIsStep, QuietIsStep
     DEF Execute, ResumeActiveMission

----------------------------------------------------------------------------
(* The phases                                                              *)

LEMMA SensingIsStep ==
  ASSUME active \in OpNames
  PROVE  /\ Hardware \/ PowerOff \/ TakeCommands \/ CommandsDone \/ Assemble => OMStep
         /\ Schedule => OMStep
         /\ ExecuteCommand => OMStep
<1>1. Hardware \/ PowerOff \/ TakeCommands \/ CommandsDone \/ Assemble => OMStep
  BY DEF Hardware, PowerOff, TakeCommands, CommandsDone, Assemble, OMStep
<1>2. Schedule => OMStep
  BY TellIsStep, StartMowingIsStep, QuietIsStep DEF Schedule
<1>3. ExecuteCommand => OMStep
  BY CommandIsStep DEF ExecuteCommand
<1> QED
  BY <1>1, <1>2, <1>3

LEMMA GuardIsStep ==
  ASSUME active \in OpNames
  PROVE  /\ CheckBattery => OMStep
         /\ MonitorMcu => OMStep
         /\ MonitorGps => OMStep
         /\ MonitorPerimeter => OMStep
         /\ MonitorMapChange => OMStep
         /\ MonitorStuck => OMStep
         /\ MonitorOverload => OMStep
         /\ MonitorWatchdog => OMStep
<1>1. CheckBattery => OMStep
  BY TellIsStep, AnswerIsStep, QuietIsStep DEF CheckBattery
<1>2. MonitorMcu => OMStep
  BY RobotMayAsk, RequestIsStep, QuietIsStep DEF MonitorMcu
<1>3. MonitorGps => OMStep
  BY TellIsStep, QuietIsStep DEF MonitorGps
<1>4. MonitorPerimeter => OMStep
  BY TellIsStep, QuietIsStep DEF MonitorPerimeter
<1>5. MonitorMapChange => OMStep
  BY TellIsStep, QuietIsStep DEF MonitorMapChange
<1>6. MonitorStuck => OMStep
  BY TellIsStep, RobotMayAsk, RequestIsStep, QuietIsStep DEF MonitorStuck
<1>7. MonitorOverload => OMStep
  BY TellIsStep, QuietIsStep DEF MonitorOverload
<1>8. MonitorWatchdog => OMStep
  BY TellIsStep, QuietIsStep DEF MonitorWatchdog
<1> QED
  BY <1>1, <1>2, <1>3, <1>4, <1>5, <1>6, <1>7, <1>8

LEMMA TickIsStep ==
  /\ Flush => OMStep
  /\ NoFlush => OMStep
  /\ Begin => OMStep
<1>1. Flush => OMStep
  BY DEF Flush, OMStep, OM!Next
<1>2. NoFlush => OMStep
  BY DEF NoFlush, OMStep
<1>3. Begin => OMStep
  <2>1. BeginMow => OMStep
    <3>1. ASSUME active \in {"Mow", "NavToStart"} PROVE ChangeTo("Idle") \in OM!MayAsk
      BY <3>1, OwnMayAsk DEF OwnRequests
    <3> QED
      BY <3>1, RequestIsStep, QuietIsStep DEF BeginMow
  <2>2. BeginDock => OMStep
    <3>1. ASSUME active = "Dock" PROVE ChangeTo("Error") \in OM!MayAsk
      BY <3>1, OwnMayAsk DEF OwnRequests
    <3> QED
      BY <3>1, RequestIsStep, QuietIsStep DEF BeginDock
  <2>3. BeginUndock \/ BeginOther => OMStep
    BY QuietIsStep DEF BeginUndock, BeginOther
  <2> QED
    BY <2>1, <2>2, <2>3 DEF Begin
<1> QED
  BY <1>1, <1>2, <1>3

LEMMA TrackIsStep == ASSUME active \in OpNames, Track PROVE OMStep
  BY AnswerIsStep, QuietIsStep DEF Track, Hold

\* run() asks for what OwnRequests names, or for the operation the detour came
\* from.
LEMMA RunIsStep == ASSUME active \in OpNames, RunStep PROVE OMStep
<1>1. CASE RunIdle
  BY <1>1, OwnMayAsk, RequestIsStep, QuietIsStep DEF RunIdle, Running, OwnRequests
<1>2. CASE RunMow
  BY <1>2, TellIsStep, TrackIsStep DEF RunMow
<1>3. CASE RunDock
  BY <1>3, OwnMayAsk, RequestIsStep, TrackIsStep DEF RunDock, Running, OwnRequests
<1>4. CASE RunCharge
  <2>1. {ChangeTo("Dock"), ChangeTo("Error")} \subseteq OM!MayAsk
    BY <1>4, OwnMayAsk DEF RunCharge, Running, OwnRequests
  <2> QED
    BY <1>4, <2>1, RequestIsStep, QuietIsStep DEF RunCharge
<1>5. CASE RunUndock
  <2>1. {ChangeTo("NavToStart"), ChangeTo("Error")} \subseteq OM!MayAsk
    BY <1>5, OwnMayAsk DEF RunUndock, Running, OwnRequests
  <2> QED
    BY <1>5, <2>1, RequestIsStep, QuietIsStep, TrackIsStep DEF RunUndock, Hold
<1>6. CASE RunEscape
  <2>1. /\ {ChangeTo("Idle"), ChangeTo("Error")} \subseteq OM!MayAsk
        /\ next[active] # None => ChangeTo(next[active]) \in OM!MayAsk
    BY <1>6, OwnMayAsk, SameOMMayAsk DEF RunEscape, Running, OwnRequests, Detours
  <2> QED
    BY <1>6, <2>1, RequestIsStep, QuietIsStep DEF RunEscape, Hold
<1>7. CASE RunGpsWait
  <2>1. /\ {ChangeTo("Idle"), ChangeTo("Dock"), ChangeTo("Error")} \subseteq OM!MayAsk
        /\ next[active] # None => ChangeTo(next[active]) \in OM!MayAsk
    BY <1>7, OwnMayAsk, SameOMMayAsk DEF RunGpsWait, Running, OwnRequests, Detours
  <2> QED
    BY <1>7, <2>1, RequestIsStep, QuietIsStep DEF RunGpsWait
<1>8. CASE RunWaitRain
  <2>1. {ChangeTo("Idle"), ChangeTo("Dock")} \subseteq OM!MayAsk
    BY <1>8, OwnMayAsk DEF RunWaitRain, Running, OwnRequests
  <2> QED
    BY <1>8, <2>1, RequestIsStep, QuietIsStep DEF RunWaitRain
<1>9. CASE RunError
  BY <1>9, QuietIsStep DEF RunError
<1> QED
  BY <1>1, <1>2, <1>3, <1>4, <1>5, <1>6, <1>7, <1>8, <1>9 DEF RunStep

LEMMA AfterTickIsStep ==
  ASSUME active \in OpNames
  PROVE  /\ Arrive => OMStep
         /\ Settle \/ Diagnose => OMStep
         /\ Button => OMStep
         /\ ManualDrive => OMStep
         /\ SafetyStop => OMStep
         /\ SafetyLift => OMStep
         /\ SafetyFault => OMStep
         /\ Remember => OMStep
<1>1. Arrive => OMStep
  <2>1. /\ active = "Dock" => ChangeTo("Error") \in OM!MayAsk
        /\ active = "Undock" => ChangeTo("NavToStart") \in OM!MayAsk
    BY OwnMayAsk DEF OwnRequests
  <2> QED
    BY <2>1, TellIsStep, RequestIsStep, QuietIsStep DEF Arrive, Hold
<1>2. Settle \/ Diagnose => OMStep
  BY DEF Settle, Diagnose, OMStep
<1>3. Button => OMStep
  BY EmergencyStopIsStep, StartMowingIsStep, StartDockingIsStep, QuietIsStep
     DEF Button, Hold
<1>4. ManualDrive => OMStep
  BY RobotMayAsk, RequestIsStep, QuietIsStep DEF ManualDrive, Hold
<1>5. SafetyStop => OMStep
  BY AnswerIsStep, QuietIsStep DEF SafetyStop, Hold
<1>6. SafetyLift => OMStep
  BY TellIsStep, QuietIsStep DEF SafetyLift, Hold
<1>7. SafetyFault => OMStep
  BY TellIsStep, QuietIsStep DEF SafetyFault, Hold
<1>8. Remember => OMStep
  BY TellIsStep, QuietIsStep DEF Remember, Hold
<1> QED
  BY <1>1, <1>2, <1>3, <1>4, <1>5, <1>6, <1>7, <1>8

LEMMA NextIsStep == ASSUME active \in OpNames, Next PROVE OMStep
<1>1. CASE Loop
  BY <1>1, SensingIsStep, GuardIsStep, TickIsStep, RunIsStep, AfterTickIsStep DEF Loop
<1>2. CASE LoadMap \/ DiagClient
  BY <1>2 DEF LoadMap, DiagClient, OMStep
<1> QED
  BY <1>1, <1>2 DEF Next

----------------------------------------------------------------------------
(* The theorem                                                             *)

\* The instances OM and OP share their variables, and so their definitions.
LEMMA SameManager ==
  /\ OM!Init <=> OP!Init
  /\ OMStep <=> [OP!Next]_(OP!vars)
  /\ OP!IInv => active \in OpNames
<1>1. OM!Init <=> OP!Init
  BY SameOMRequests, SameOPRequests DEF OM!Init, OP!Init
<1>2. OM!Next <=> OP!Next
  <2>1. OM!MayAsk = OP!MayAsk
    BY SameOMMayAsk, SameOPMayAsk
  <2>2. ASSUME NEW r PROVE OM!AskFor(r) <=> OP!AskFor(r)
    <3>1. \A op, p : OM!EffectivePrio(op, p) = OP!EffectivePrio(op, p)
      BY DEF OM!EffectivePrio, OP!EffectivePrio, OM!MinPrio, OP!MinPrio, OM!LOW, OP!LOW,
             OM!NORMAL, OP!NORMAL, OM!HIGH, OP!HIGH
    <3>2. OM!SetPending(r) <=> OP!SetPending(r)
      BY <3>1, SameOMRequests, SameOPRequests DEF OM!SetPending, OP!SetPending
    <3>3. OM!Accepts(r) <=> OP!Accepts(r)
      BY <3>1 DEF OM!Accepts, OP!Accepts
    <3> QED
      BY <2>1, <3>2, <3>3 DEF OM!AskFor, OP!AskFor, OM!RequestOp, OP!RequestOp, OM!vars,
                              OP!vars
  <2>3. OM!Flush <=> OP!Flush
    BY SameOMRequests, SameOPRequests DEF OM!Flush, OP!Flush
  <2> QED
    BY <2>1, <2>2, <2>3 DEF OM!Next, OP!Next
<1>3. OP!IInv => active \in OpNames
  BY SameOPRequests DEF OP!IInv, OP!TypeOK
<1> QED
  BY <1>1, <1>2, <1>3 DEF OMStep, omVars, OP!vars

\* The control loop implements the operation manager: no phase of Robot::run,
\* no handler and no other thread changes the active or the pending operation
\* but through requestOp and tick, and each asks only for what OpManager lists.
THEOREM LoopImplementsOpManager == Spec => ImplementsOpManager
<1>1. Init => OM!Init /\ OP!IInv
  BY SameManager, OP!InitIInv DEF Init
<1>2. OP!IInv /\ [Next]_vars => OMStep /\ OP!IInv'
  <2> SUFFICES ASSUME OP!IInv, [Next]_vars PROVE OMStep /\ OP!IInv'
    OBVIOUS
  <2>1. OMStep
    BY NextIsStep, SameManager DEF vars, OMStep
  <2> QED
    BY <2>1, SameManager, OP!NextIInv
<1>3. OMStep => [OM!Next]_(OM!vars)
  BY DEF OMStep, omVars, OM!vars
<1> QED
  BY <1>1, <1>2, <1>3, PTL DEF Spec, ImplementsOpManager, OM!Spec

\* What OpManagerProofs shows of the operation manager holds of the robot: in
\* every state of the loop the pending transition and the return addresses are
\* those of the inductive invariant.
THEOREM LoopKeepsInvariant == Spec => [](OM!PendingWellFormed /\ OM!ReturnsToRoute)
<1>1. Init => OP!IInv
  BY SameManager, OP!InitIInv DEF Init
<1>2. OP!IInv /\ [Next]_vars => OP!IInv'
  <2> SUFFICES ASSUME OP!IInv, [Next]_vars PROVE OP!IInv'
    OBVIOUS
  <2>1. OMStep
    BY NextIsStep, SameManager DEF vars, OMStep
  <2> QED
    BY <2>1, SameManager, OP!NextIInv
<1>3. OP!IInv => OM!PendingWellFormed /\ OM!ReturnsToRoute
  <2>1. OP!PendingWellFormed => OM!PendingWellFormed
    BY SameOMRequests, SameOPRequests
       DEF OP!PendingWellFormed, OM!PendingWellFormed, OM!MinPrio, OP!MinPrio, OM!LOW,
           OP!LOW, OM!NORMAL, OP!NORMAL, OM!HIGH, OP!HIGH
  <2>2. OP!ReturnsToRoute => OM!ReturnsToRoute
    BY SameOMRequests, SameOPRequests
       DEF OP!ReturnsToRoute, OM!ReturnsToRoute, OM!ReturnAddress, OP!ReturnAddress,
           OM!Routed, OP!Routed
  <2> QED
    BY <2>1, <2>2 DEF OP!IInv
<1> QED
  BY <1>1, <1>2, <1>3, PTL DEF Spec

----------------------------------------------------------------------------
(* The stop sensors                                                        *)

Last == {"lift", "fault", "remember", "hardware", "off"}

SeenType == "lifted" \in DOMAIN seen

\* From tickSafetyStop to the end of the cycle the motors are at rest while a
\* stop sensor is set; and no diagnosis is ever taken up.
StopInv ==
  /\ SeenType
  /\ pc \in PhaseNames \union {"off"}
  /\ pc # "diag"
  /\ pc \in Last /\ Tripped => motor = Stopped

\* The phases before tickSafetyStop lead no further than to tickSafetyStop, and
\* none to a diagnosis.
LEMMA StopComesLast ==
  ASSUME "diag" \notin Inputs, NEW p \in PhaseNames, NEW q \in Then[p]
  PROVE  /\ q \in PhaseNames
         /\ q # "diag"
         /\ p \notin {"stop", "lift", "fault", "remember"} => q \notin Last
<1>1. q \in PhaseNames /\ Follows(p, q)
  BY DEF Then
<1>2. DOMAIN Phases = 1..25 /\ Phases[22] = "stop"
  BY DEF Phases
<1>3. Live("stop") /\ ~Live("diag") /\ "hardware" # "diag"
  BY DEF Live
<1>4. PICK i \in 1..25 : Phases[i] = p /\
        \/ /\ q = "hardware"
           /\ \A k \in 1..25 : k > i => ~Live(Phases[k])
        \/ \E j \in 1..25 :
             /\ j > i /\ Phases[j] = q /\ Live(q)
             /\ \A k \in 1..25 : i < k /\ k < j => ~Live(Phases[k])
  BY <1>1, <1>2 DEF Follows
<1>5. q # "diag"
  BY <1>3, <1>4
<1>6. ASSUME p \notin {"stop", "lift", "fault", "remember"} PROVE q \notin Last
  <2>1. i < 22
    BY <1>4, <1>6 DEF Phases
  <2>2. PICK j \in 1..25 : j > i /\ Phases[j] = q /\ j <= 22
    BY <2>1, <1>2, <1>3, <1>4
  <2>3. Phases[1] = "hardware" /\ \A k \in 2..22 : Phases[k] \notin Last
    BY DEF Phases, Last
  <2> QED
    BY <2>2, <2>3
<1> QED
  BY <1>1, <1>5, <1>6

LEMMA StopInit == Init => StopInv
  BY DEF Init, StopInv, SeenType, PhaseNames, Phases, Tripped, Stopped

\* A phase before tickSafetyStop only has to keep the types.
LEMMA EarlyKeeps ==
  ASSUME "diag" \notin Inputs, StopInv, SeenType',
         NEW p \in PhaseNames \ {"stop", "lift", "fault", "remember"}, pc' \in Then[p]
  PROVE  StopInv'
  BY StopComesLast DEF StopInv

\* A handler may stop the motors, but does not start them.
LEMMA TellStops == ASSUME NEW ev, Tell(ev) PROVE motor' \in {motor, Stopped}
  BY DEF Tell

LEMMA StopNext == ASSUME "diag" \notin Inputs PROVE StopInv /\ [Next]_vars => StopInv'
<1> SUFFICES ASSUME StopInv, [Next]_vars PROVE StopInv'
  OBVIOUS
<1> DEFINE Early == PhaseNames \ {"stop", "lift", "fault", "remember"}
<1>0. /\ {"hardware", "schedule", "commands", "execute", "assemble", "battery", "mcu",
          "gps", "outside", "map", "stuck", "overload", "watchdog", "flush", "begin",
          "run", "arrive", "settle", "button", "manual"} \subseteq Early
      /\ {"stop", "lift", "fault", "remember", "diag"} \subseteq PhaseNames
  <2>1. PhaseNames = {"hardware", "schedule", "commands", "execute", "assemble",
            "battery", "mcu", "gps", "outside", "map", "stuck", "overload",
            "watchdog", "flush", "begin", "run", "arrive", "settle", "diag",
            "button", "manual", "stop", "lift", "fault", "remember"}
    <3>1. DOMAIN Phases = 1..25
      BY DEF Phases
    <3>2. \A x : x \in PhaseNames <=> \E i \in 1..25 : x = Phases[i]
      BY <3>1 DEF PhaseNames
    <3> QED
      BY <3>2 DEF Phases
  <2> QED
    BY <2>1
<1>1. CASE UNCHANGED seen /\ \E p \in Early : pc' \in Then[p]
  BY <1>1, EarlyKeeps DEF StopInv, SeenType
<1>2. ASSUME Hardware \/ Schedule \/ TakeCommands \/ CommandsDone \/ Assemble \/
             CheckBattery \/ MonitorMcu \/ MonitorGps \/ MonitorMapChange \/
             MonitorStuck \/ MonitorOverload \/ MonitorWatchdog
      PROVE  UNCHANGED seen /\ \E p \in Early : pc' \in Then[p]
  BY <1>0, <1>2 DEF Hardware, Schedule, TakeCommands, CommandsDone, Assemble, CheckBattery,
     MonitorMcu, MonitorGps, MonitorMapChange, MonitorStuck, MonitorOverload,
     MonitorWatchdog, At, Advance
<1>3. ASSUME Flush \/ NoFlush \/ Begin \/ RunStep \/ Arrive \/ Settle \/ ManualDrive
      PROVE  UNCHANGED seen /\ \E p \in Early : pc' \in Then[p]
  <2>1. CASE Flush \/ NoFlush \/ Begin \/ Arrive \/ Settle \/ ManualDrive
    BY <1>0, <2>1 DEF Flush, NoFlush, Begin, Arrive, Settle, ManualDrive, At, Advance
  <2>2. CASE RunStep
    <3>1. At("run") /\ (Turn \/ Advance)
      BY <2>2 DEF RunStep, RunIdle, RunMow, RunDock, RunCharge, RunUndock, RunEscape,
                  RunGpsWait, RunWaitRain, RunError, Running, Track
    <3> QED
      BY <1>0, <2>2, <3>1 DEF RunStep, At, Turn, Advance
  <2> QED
    BY <1>3, <2>1, <2>2
<1>4. CASE MonitorPerimeter \/ Button
  <2>1. SeenType'
    BY <1>4 DEF MonitorPerimeter, Button, StopInv, SeenType
  <2>2. \E p \in Early : pc' \in Then[p]
    BY <1>0, <1>4 DEF MonitorPerimeter, Button, At, Advance
  <2> QED
    BY <2>1, <2>2, EarlyKeeps
<1>5. CASE ExecuteCommand
  BY <1>5 DEF ExecuteCommand, StopInv, SeenType, At, Last
<1>6. CASE PowerOff
  BY <1>6 DEF PowerOff, StopInv, SeenType
<1>7. CASE Diagnose
  BY <1>7 DEF Diagnose, StopInv, At
<1>8. CASE SafetyStop
  <2>1. UNCHANGED sens /\ pc' \in Then["stop"]
    BY <1>8 DEF SafetyStop, At, Advance
  <2>2. PICK lifted : /\ seen' = [seen EXCEPT !.lifted = lifted]
                      /\ Trips(lifted) => motor' = Stopped
    BY <1>8 DEF SafetyStop
  <2>3. SeenType' /\ seen'.lifted = lifted
    BY <2>2 DEF StopInv, SeenType
  <2>4. Tripped' => Trips(lifted)
    BY <2>1, <2>3 DEF Tripped, Trips
  <2> QED
    BY <1>0, <2>1, <2>2, <2>3, <2>4, StopComesLast DEF StopInv
<1>9. CASE SafetyLift
  <2>1. UNCHANGED sens /\ At("lift") /\ pc' \in Then["lift"] /\ motor' \in {motor, Stopped}
    BY <1>9, TellStops DEF SafetyLift, At, Advance, Hold
  <2>2. SeenType' /\ seen'.lifted = seen.lifted
    BY <1>9 DEF SafetyLift, StopInv, SeenType
  <2>3. Tripped' => motor' = Stopped
    BY <2>1, <2>2 DEF StopInv, Tripped, At, Last
  <2> QED
    BY <1>0, <2>1, <2>2, <2>3, StopComesLast DEF StopInv
<1>10. CASE SafetyFault \/ Remember
  <2>1. /\ UNCHANGED sens /\ pc \in {"fault", "remember"} /\ pc' \in Then[pc]
        /\ motor' \in {motor, Stopped}
    BY <1>10, TellStops DEF SafetyFault, Remember, At, Advance, Hold
  <2>2. SeenType' /\ seen'.lifted = seen.lifted
    BY <1>10 DEF SafetyFault, Remember, StopInv, SeenType
  <2>3. Tripped' => motor' = Stopped
    BY <2>1, <2>2 DEF StopInv, Tripped, Last
  <2> QED
    BY <1>0, <2>1, <2>2, <2>3, StopComesLast DEF StopInv
<1>11. CASE LoadMap
  BY <1>11 DEF LoadMap, StopInv, SeenType, Tripped
<1>12. CASE DiagClient
  BY <1>12 DEF DiagClient
<1>13. CASE UNCHANGED vars
  BY <1>13 DEF vars, StopInv, SeenType, Tripped
<1> QED
  BY <1>1, <1>2, <1>3, <1>4, <1>5, <1>6, <1>7, <1>8, <1>9, <1>10, <1>11, <1>12, <1>13
     DEF Next, Loop

\* Without a diagnosis, a cycle never ends with a bumper, a lift or a motor
\* fault set and a motor running: whatever the operations, the guards, the
\* operator and the joystick did, tickSafetyStop comes after them.
THEOREM SafetyStopAlways ==
  ASSUME "diag" \notin Inputs
  PROVE  Spec => []SafetyStopHolds
<1>1. StopInv => SafetyStopHolds
  BY DEF StopInv, SafetyStopHolds, At, Last
<1> QED
  BY <1>1, StopInit, StopNext, PTL DEF Spec
=============================================================================
