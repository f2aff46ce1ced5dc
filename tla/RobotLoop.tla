----------------------------- MODULE RobotLoop -----------------------------
(***************************************************************************)
(* core/Robot.cpp: the control loop.  Every 20 ms Robot::run senses,       *)
(* looks at the timetable, executes the queued operator commands, runs     *)
(* eight safety guards, ticks the operation manager, and then serves a     *)
(* diagnosis, the button, the joystick and the stop sensors.  Each of      *)
(* these is a phase here, in the order of the code; between two of them    *)
(* the other threads (web socket, MQTT, HTTP) queue commands, load a map   *)
(* or ask for a diagnosis.                                                 *)
(*                                                                         *)
(* Time is abstract: whether a timer has run out is a choice.  The route   *)
(* is reduced to whether RuntimeState holds one, and of which kind.        *)
(***************************************************************************)
EXTENDS Ops, Sequences

CONSTANTS
  Inputs,        \* the inputs and disturbances the environment produces
  Commands,      \* the commands the other threads queue
  MaxBatch,      \* bound on the commands found in the queue, unbounded in the code
  MaxStuck       \* stuck_recovery_max_attempts

AllInputs == {"bumper", "lift", "fault", "rain", "charger", "outside", "kidnap",
              "battery", "mcu", "gps", "map", "stuck", "overload", "watchdog",
              "schedule", "button", "manual", "diag", "arrive"}
AllCommands == {"Start", "StartZones", "Dock", "Stop", "Resume"}

ASSUME LoopAssumption ==
  /\ Inputs \subseteq AllInputs
  /\ Commands \subseteq AllCommands
  /\ MaxBatch \in Nat
  /\ MaxStuck \in Nat \ {0}

VARIABLES
  active, pending, pendingPrio, next,   \* the operation manager
  pc,        \* the phase of Robot::run that is next
  sens,      \* sensors_, battery_, odometry_, lastGps_: as of this cycle
  seen,      \* what earlier cycles left for edge detection and debouncing
  latch,     \* latches of the guards, and state the operations keep
  motor,     \* the last setMotorPwm: drive wheels and blade
  job,       \* the mission: RuntimeState, WaypointExecutor, saved mission;
             \* halted is history: an emergency stop, and nothing started since
  blocked,   \* resumeBlockedByMapChange_: now, as in ctx, as last seen
  batch,     \* the commands swapped out of externalCmdQueue_ this cycle
  diag,      \* diagReq_ and its client
  running    \* running_

OM == INSTANCE OpManager
omVars == <<active, pending, pendingPrio, next>>
vars == <<omVars, pc, sens, seen, latch, motor, job, blocked, batch, diag, running>>

Phases == <<"hardware", "schedule", "commands", "execute", "assemble",
            "battery", "mcu", "gps", "outside", "map", "stuck", "overload",
            "watchdog", "flush", "begin", "run", "arrive", "settle", "diag",
            "button", "manual", "stop", "lift", "fault", "remember">>
PhaseNames == {Phases[i] : i \in DOMAIN Phases}

\* A phase without its input does nothing and is left out of the cycle.
Live(p) ==
  \/ p \in Inputs
  \/ p \in {"hardware", "flush", "begin", "run", "settle", "stop", "remember"}
  \/ p \in {"commands", "execute"} /\ Commands # {}
  \/ p = "assemble" /\ "map" \in Inputs

\* The phase that comes next: the first live one after p, or a new cycle.
Follows(p, q) ==
  \E i \in DOMAIN Phases :
    /\ Phases[i] = p
    /\ \/ /\ q = "hardware"
          /\ \A k \in DOMAIN Phases : k > i => ~Live(Phases[k])
       \/ \E j \in DOMAIN Phases :
            /\ j > i /\ Phases[j] = q /\ Live(q)
            /\ \A k \in DOMAIN Phases : i < k /\ k < j => ~Live(Phases[k])

Then == [p \in PhaseNames |-> {q \in PhaseNames : Follows(p, q)}]

At(p)   == pc = p
Advance == pc' \in Then[pc]

May(x) == IF x \in Inputs THEN BOOLEAN ELSE {FALSE}

Readings == [bumper : May("bumper"), lift : May("lift"), fault : May("fault"),
             rain : May("rain"), charger : May("charger"),
             outside : May("outside"), mcuLost : May("mcu"),
             button : May("button"),
             gps : IF "gps" \in Inputs THEN {"fix", "float", "none"} ELSE {"fix"},
             battery : IF "battery" \in Inputs THEN {"ok", "low", "critical"}
                       ELSE {"ok"}]

Driving == [drive |-> TRUE, blade |-> FALSE]
Stopped == [drive |-> FALSE, blade |-> FALSE]

TypeOK ==
  /\ OM!TypeOK
  /\ pc \in PhaseNames \union {"off"}
  /\ sens \in Readings
  /\ seen \in [bumper : BOOLEAN, fault : BOOLEAN, rain : BOOLEAN,
               lift : BOOLEAN, lifted : BOOLEAN, button : BOOLEAN,
               outside : BOOLEAN]
  /\ latch \in [noSignal : BOOLEAN, fixTimeout : BOOLEAN, mcu : BOOLEAN,
                kidnapped : BOOLEAN, window : BOOLEAN, recovering : BOOLEAN,
                undock : {"reverse", "dropped", "path", "lost"},
                docking : BOOLEAN, stuck : 0..MaxStuck, lastOp : OpNames]
  /\ motor \in [drive : BOOLEAN, blade : BOOLEAN]
  /\ job \in [route : {"none", "mow", "dock"}, plan : BOOLEAN,
              mission : BOOLEAN, saved : BOOLEAN, halted : BOOLEAN]
  /\ blocked \in [now : BOOLEAN, ctx : BOOLEAN, last : BOOLEAN]
  /\ batch \in Seq(Commands) /\ Len(batch) <= MaxBatch
  /\ diag \in {"none", "allowed", "active"}
  /\ running \in BOOLEAN

Init ==
  /\ OM!Init
  /\ pc = "hardware"
  /\ sens \in {r \in Readings : r.battery = "ok" /\ r.gps = "fix"
                /\ ~ (r.bumper \/ r.lift \/ r.fault \/ r.rain \/ r.charger
                       \/ r.outside \/ r.mcuLost \/ r.button)}
  /\ seen = [bumper |-> FALSE, fault |-> FALSE, rain |-> FALSE, lift |-> FALSE,
             lifted |-> FALSE, button |-> FALSE, outside |-> FALSE]
  /\ latch = [noSignal |-> FALSE, fixTimeout |-> FALSE, mcu |-> FALSE,
              kidnapped |-> FALSE, window |-> FALSE, recovering |-> FALSE,
              undock |-> "reverse", docking |-> FALSE, stuck |-> 0,
              lastOp |-> "Idle"]
  /\ motor = Stopped
  /\ job = [route |-> "none", plan |-> FALSE, mission |-> FALSE,
            saved |-> FALSE, halted |-> FALSE]
  /\ blocked = [now |-> FALSE, ctx |-> FALSE, last |-> FALSE]
  /\ batch = <<>>
  /\ diag = "none"
  /\ running = TRUE
----------------------------------------------------------------------------
(* Events and requests                                                     *)

RequestOp(r) == OM!RequestOp(r)
Quiet == UNCHANGED omVars            \* nothing is asked for

\* op->onEvent(ctx) on the active operation: its request, if it has a handler
\* that makes one, and whether it stops the motors at once.
Hears(ev)  == ev \in DOMAIN Table(active)
Answer(ev) == IF Hears(ev) THEN RequestOp(Table(active)[ev]) ELSE Quiet

Tell(ev) ==
  /\ Answer(ev)
  /\ motor' = IF HandlerStops(active, ev) THEN Stopped ELSE motor

\* clearActiveMissionTracking: the plan and all of RuntimeState, but not the
\* WaypointExecutor's plan.
Cleared == [job EXCEPT !.route = "none", !.mission = FALSE]

\* A mission activated: activateMissionPlan, startPlannedMowing,
\* buildAndStartWaypointPlan.
Started == [job EXCEPT !.route = "mow", !.plan = TRUE, !.mission = TRUE,
                       !.halted = FALSE]
----------------------------------------------------------------------------
(* Operator commands: executed by the control loop from the queue, from    *)
(* the timetable and from the button.                                      *)

\* A started mission begins with undocking, or with the way to its start.
Departure == Ask(IF sens.charger THEN "Undock" ELSE "NavToStart", HIGH)

\* startMowing: refused (no map, no zones, an invalid route), or started, by way
\* of Undock on the charger; a saved mission is resumed and no longer saved.
\* startPlannedMowing fails only on an empty route, refused before.
StartMowing ==
  \/ Quiet /\ UNCHANGED <<job, blocked>>
  \/ /\ job' = [Started EXCEPT !.saved = FALSE]
     /\ blocked' = [blocked EXCEPT !.now = FALSE]
     /\ RequestOp(Departure)

\* startMowingZones and startMowingMission never resume, and leave a saved
\* mission saved.
StartMowingZones ==
  \/ Quiet /\ UNCHANGED <<job, blocked>>
  \/ /\ job' = Started
     /\ blocked' = [blocked EXCEPT !.now = FALSE]
     /\ RequestOp(Departure)

\* resumeActiveMission: startMowing of a saved mission, if there is one.
ResumeActiveMission ==
  IF job.saved THEN StartMowing ELSE Quiet /\ UNCHANGED <<job, blocked>>

\* startDocking: saves the mission that was running.
StartDocking ==
  /\ job' = [Cleared EXCEPT !.saved = job.saved \/ job.mission,
                             !.halted = FALSE]
  /\ blocked' = [blocked EXCEPT !.now = FALSE]
  /\ RequestOp(Ask("Dock", HIGH))

\* emergencyStop: motors off, all missions forgotten, diagnosis cancelled.
EmergencyStop ==
  /\ job' = [Cleared EXCEPT !.saved = FALSE, !.halted = TRUE]
  /\ motor' = Stopped
  /\ blocked' = [blocked EXCEPT !.now = FALSE]
  /\ diag' = IF diag = "active" THEN "none" ELSE diag
  /\ RequestOp(Ask("Idle", CRITICAL))

Execute(c) ==
  \/ c = "Start"      /\ StartMowing         /\ UNCHANGED <<motor, diag>>
  \/ c = "StartZones" /\ StartMowingZones    /\ UNCHANGED <<motor, diag>>
  \/ c = "Resume"     /\ ResumeActiveMission /\ UNCHANGED <<motor, diag>>
  \/ c = "Dock"       /\ StartDocking        /\ UNCHANGED <<motor, diag>>
  \/ c = "Stop"       /\ EmergencyStop

----------------------------------------------------------------------------
(* Sensing, timetable, commands                                            *)

\* tickHardware, tickStateEstimation: one reading per cycle.
Hardware ==
  /\ At("hardware") /\ running
  /\ sens' \in Readings
  /\ Advance
  /\ UNCHANGED <<omVars, seen, latch, motor, job, blocked, batch, diag, running>>

\* loop() leaves when running_ is false and turns the motors off.
PowerOff ==
  /\ At("hardware") /\ ~running
  /\ pc' = "off"
  /\ motor' = Stopped
  /\ UNCHANGED <<omVars, sens, seen, latch, job, blocked, batch, diag, running>>

\* tickSchedule: at the edges of the mowing window.
Schedule ==
  /\ At("schedule") /\ Advance
  /\ \/ Quiet /\ UNCHANGED <<latch, motor, job, blocked>>
     \/ /\ latch' = [latch EXCEPT !.window = ~latch.window]
        /\ \/ /\ ~latch.window /\ active \in {"Idle", "Charge"}
              /\ StartMowing /\ UNCHANGED motor
           \/ /\ ~latch.window /\ active \notin {"Idle", "Charge"}
              /\ Tell("timetableStart") /\ UNCHANGED <<job, blocked>>
           \/ /\ latch.window
              /\ Tell("timetableStop") /\ UNCHANGED <<job, blocked>>
  /\ UNCHANGED <<sens, seen, batch, diag, running>>

\* processPendingExternalCommands: the queue is swapped out under its mutex;
\* what other threads push meanwhile waits for the next cycle.  Nothing else
\* reads the queue, so its contents are chosen here.
TakeCommands ==
  /\ At("commands") /\ Advance
  /\ batch' \in UNION {[1..n -> Commands] : n \in 0..MaxBatch}
  /\ UNCHANGED <<omVars, sens, seen, latch, motor, job, blocked, diag, running>>

ExecuteCommand ==
  /\ At("execute") /\ batch # <<>>
  /\ Execute(Head(batch))
  /\ batch' = Tail(batch)
  /\ UNCHANGED <<pc, sens, seen, latch, running>>

CommandsDone ==
  /\ At("execute") /\ batch = <<>> /\ Advance
  /\ UNCHANGED <<omVars, sens, seen, latch, motor, job, blocked, batch, diag, running>>

\* assembleOpContext copies resumeBlockedByMapChange_ for GpsWaitFixOp.
Assemble ==
  /\ At("assemble") /\ Advance
  /\ blocked' = [blocked EXCEPT !.ctx = blocked.now]
  /\ UNCHANGED <<omVars, sens, seen, latch, motor, job, batch, diag, running>>

----------------------------------------------------------------------------
(* tickSafetyGuards                                                        *)

\* checkBattery: nothing on the charger; a critical battery ends the loop
\* after this cycle.
CheckBattery ==
  /\ At("battery") /\ Advance
  /\ \/ /\ sens.charger \/ sens.battery = "ok"
        /\ Quiet /\ UNCHANGED <<motor, running>>
     \/ /\ ~sens.charger /\ sens.battery = "low"
        /\ Tell("batteryLow") /\ UNCHANGED running
     \/ /\ ~sens.charger /\ sens.battery = "critical"
        /\ Answer("undervoltage")
        /\ motor' = Stopped
        /\ running' = FALSE
  /\ UNCHANGED <<sens, seen, latch, job, blocked, batch, diag>>

\* monitorMcuConnectivity: once per loss; re-armed outside Error.
MonitorMcu ==
  /\ At("mcu") /\ Advance
  /\ IF sens.mcuLost /\ ~latch.mcu
     THEN /\ latch' = [latch EXCEPT !.mcu = TRUE]
          /\ job' = Cleared
          /\ motor' = Stopped
          /\ RequestOp(Ask("Error", CRITICAL))
     ELSE /\ latch' = [latch EXCEPT !.mcu = @ /\ (sens.mcuLost \/ active = "Error")]
          /\ Quiet /\ UNCHANGED <<job, motor>>
  /\ UNCHANGED <<sens, seen, blocked, batch, diag, running>>

\* monitorGpsResilience: the outage of the fix outranks the short outage, each
\* is told once, and both are re-armed only after a stable recovery.  The short
\* outage may be held back (age below gps_no_signal_ms, or coasting in Mow).
MonitorGps ==
  /\ At("gps") /\ Advance
  /\ \/ /\ sens.gps # "none"
        /\ Quiet /\ UNCHANGED motor
        /\ \/ latch' = [latch EXCEPT !.noSignal = FALSE, !.fixTimeout = FALSE]
           \/ UNCHANGED latch
     \/ /\ sens.gps = "none" /\ ~latch.fixTimeout
        /\ latch' = [latch EXCEPT !.noSignal = TRUE, !.fixTimeout = TRUE]
        /\ Tell("gpsFixTimeout")
     \/ /\ sens.gps = "none" /\ ~latch.noSignal
        /\ latch' = [latch EXCEPT !.noSignal = TRUE]
        /\ Tell("gpsNoSignal")
     \/ /\ sens.gps = "none"
        /\ Quiet /\ UNCHANGED <<motor, latch>>
  /\ UNCHANGED <<sens, seen, job, blocked, batch, diag, running>>

\* monitorPerimeterSafety: on the edge of leaving the allowed area.
MonitorPerimeter ==
  /\ At("outside") /\ Advance
  /\ seen' = [seen EXCEPT !.outside = sens.outside]
  /\ IF sens.outside /\ ~seen.outside THEN Tell("perimeter")
     ELSE Quiet /\ UNCHANGED motor
  /\ UNCHANGED <<sens, latch, job, blocked, batch, diag, running>>

\* monitorMapChangeSafety: on the edge of resumeBlockedByMapChange_.
MonitorMapChange ==
  /\ At("map") /\ Advance
  /\ blocked' = [blocked EXCEPT !.last = blocked.now]
  /\ IF blocked.now /\ ~blocked.last THEN Tell("mapChanged")
     ELSE Quiet /\ UNCHANGED motor
  /\ UNCHANGED <<sens, seen, latch, job, batch, diag, running>>

\* monitorStuckDetection: only while a speed is commanded; progress resets the
\* count, and the last attempt is an error.  The count saturates at MaxStuck:
\* beyond it every value acts alike.
MonitorStuck ==
  /\ At("stuck") /\ Advance
  /\ \/ Quiet /\ UNCHANGED <<motor, latch>>
     \/ /\ active \in {"Mow", "Dock", "Undock"} /\ motor.drive
        /\ Quiet /\ UNCHANGED motor
        /\ latch' = [latch EXCEPT !.stuck = 0]
     \/ /\ active \in {"Mow", "Dock", "Undock"} /\ motor.drive
        /\ latch' = [latch EXCEPT !.stuck = IF @ < MaxStuck THEN @ + 1 ELSE @]
        /\ IF latch.stuck + 1 >= MaxStuck
           THEN RequestOp(Ask("Error", CRITICAL)) /\ UNCHANGED motor
           ELSE Tell("stuck")
  /\ UNCHANGED <<sens, seen, job, blocked, batch, diag, running>>

\* monitorMowOverload, if escape_lawn_enabled: a long overload counts as stuck.
MonitorOverload ==
  /\ At("overload") /\ Advance
  /\ \/ Quiet /\ UNCHANGED motor
     \/ active = "Mow" /\ Tell("stuck")
  /\ UNCHANGED <<sens, seen, latch, job, blocked, batch, diag, running>>

\* monitorOpWatchdog: only DockOp has a timeout.
MonitorWatchdog ==
  /\ At("watchdog") /\ Advance
  /\ \/ Quiet /\ UNCHANGED motor
     \/ active = "Dock" /\ Tell("watchdog")
  /\ UNCHANGED <<sens, seen, latch, job, blocked, batch, diag, running>>

----------------------------------------------------------------------------
(* tickStateMachine: OpManager::tick                                       *)

\* Mutant of Flush: end() and begin(), but pendingPriority_ stays.
FlushStalePrio ==
  /\ At("flush") /\ pending # None
  /\ active' = pending /\ pending' = None /\ UNCHANGED <<pendingPrio, next>>
  /\ motor' = IF active \in EndStops THEN Stopped ELSE motor
  /\ Advance
  /\ UNCHANGED <<sens, seen, latch, job, blocked, batch, diag, running>>

\* The pending transition: end() of the old operation.
Flush ==
  /\ At("flush") /\ pending # None
  /\ OM!Flush
  /\ motor' = IF active \in EndStops THEN Stopped ELSE motor
  /\ Advance
  /\ UNCHANGED <<sens, seen, latch, job, blocked, batch, diag, running>>

NoFlush ==
  /\ At("flush") /\ pending = None
  /\ pc' \in Then["begin"]
  /\ UNCHANGED <<omVars, sens, seen, latch, motor, job, blocked, batch, diag, running>>

\* A route to mow: the WaypointExecutor's plan, which is never taken back, or
\* RuntimeState's.
HasMowRoute == job.plan \/ job.route = "mow"

\* begin() of the new operation.  Mow turns the blade on before it looks for a
\* route.
BeginMow ==
  /\ active \in {"Mow", "NavToStart"}
  /\ IF HasMowRoute
     THEN Quiet /\ latch' = [latch EXCEPT !.kidnapped = FALSE]
     ELSE RequestOp(ChangeTo("Idle")) /\ UNCHANGED latch
  /\ UNCHANGED job

\* Dock drops the docking retries and plans a docking path, or finds none.
BeginDock ==
  /\ active = "Dock"
  /\ \/ /\ job' = [job EXCEPT !.route = "dock"]
        /\ latch' = [latch EXCEPT !.kidnapped = FALSE]
        /\ Quiet
     \/ RequestOp(ChangeTo("Error")) /\ UNCHANGED <<job, latch>>

BeginUndock ==
  /\ active = "Undock"
  /\ latch' = [latch EXCEPT !.undock = IF sens.charger THEN "reverse" ELSE "dropped"]
  /\ Quiet /\ UNCHANGED job

BeginOther ==
  /\ active \notin Routed \union {"Undock"}
  /\ latch' = CASE active = "Manual"        -> [latch EXCEPT !.kidnapped = FALSE]
                [] active = "EscapeReverse" -> [latch EXCEPT !.recovering = FALSE]
                [] active = "WaitRain"      -> [latch EXCEPT !.docking = FALSE]
                [] OTHER                    -> latch
  /\ Quiet /\ UNCHANGED job

Begin ==
  /\ At("begin") /\ Advance
  /\ motor' = CASE active \in BeginStops -> Stopped
                [] active = "Mow"         -> [drive |-> FALSE, blade |-> TRUE]
                [] OTHER                  -> motor
  /\ BeginMow \/ BeginDock \/ BeginUndock \/ BeginOther
  /\ UNCHANGED <<sens, seen, blocked, batch, diag, running>>
----------------------------------------------------------------------------
(* run() of the active operation.  Each RunX ends the operation's turn,    *)
(* but for those that follow a route: they go on to "arrive".              *)

Running(op) == At("run") /\ active = op
Turn == pc' \in Then["arrive"]
Hold == Quiet /\ UNCHANGED motor

\* LineTracker::track: the handler of the kidnap edge runs before the motors
\* are set, and does not keep them from being set.  The blade is on in Mow,
\* where the route says so; or the turn is spent on planning a detour.
Track ==
  \/ /\ \E off \in May("kidnap") :
          /\ latch' = [latch EXCEPT !.kidnapped = off]
          /\ IF off /\ ~latch.kidnapped THEN Answer("kidnapped") ELSE Quiet
     /\ motor' \in {Driving} \union
                   (IF active = "Mow" THEN {[Driving EXCEPT !.blade = TRUE]} ELSE {})
     /\ Advance
  \/ Hold /\ Turn /\ UNCHANGED latch

RunIdle ==
  /\ Running("Idle") /\ Turn
  /\ \/ Quiet
     \/ sens.charger /\ RequestOp(ChangeTo("Charge"))        \* for over 2 s
  /\ UNCHANGED <<motor, latch>>

RunMow ==
  /\ At("run") /\ active \in {"Mow", "NavToStart"}
  /\ \/ sens.outside /\ Tell("perimeter") /\ Turn /\ UNCHANGED latch
     \/ ~sens.outside /\ Track

RunDock ==
  /\ Running("Dock")
  /\ \/ /\ sens.charger
        /\ RequestOp(ChangeTo("Charge"))
        /\ motor' = Stopped /\ Turn /\ UNCHANGED latch
     \/ ~sens.charger /\ Track

\* Without contact the robot creeps forward, or gives up: back to docking, or
\* to Error after the last retry.
RunCharge ==
  /\ Running("Charge") /\ Turn
  /\ \/ sens.charger /\ Quiet /\ motor' \in {motor, Stopped}
     \/ ~sens.charger /\ Quiet /\ motor' = Driving
     \/ ~sens.charger /\ RequestOp(ChangeTo("Dock")) /\ motor' = Stopped
     \/ ~sens.charger /\ RequestOp(ChangeTo("Error")) /\ UNCHANGED motor
  /\ UNCHANGED latch

\* Blind reverse until the contact has opened and the distance is made, then
\* along the docking path; "lost" is a path that could not be started.
RunUndock ==
  /\ Running("Undock")
  /\ LET stage == IF latch.undock = "reverse" /\ ~sens.charger THEN "dropped"
                  ELSE latch.undock
         to(u) == latch' = [latch EXCEPT !.undock = u]
     IN \/ /\ stage = "dropped"
           /\ to("path") \/ to("lost")
           /\ Quiet /\ motor' = Stopped /\ Turn
        \/ /\ stage = "dropped" /\ to("dropped")
           /\ RequestOp(ChangeTo("NavToStart")) /\ motor' = Stopped /\ Turn
        \/ /\ stage \in {"reverse", "dropped"} /\ to(stage)
           /\ RequestOp(ChangeTo("Error")) /\ UNCHANGED motor /\ Turn
        \/ /\ stage \in {"reverse", "dropped"} /\ to(stage)
           /\ Quiet /\ motor' = Driving /\ Turn
        \/ stage = "path" /\ Track
        \/ stage = "lost" /\ Hold /\ Turn /\ UNCHANGED latch

\* Reverse for three seconds, forward again when that leads out of the
\* perimeter, then back to the interrupted operation.
RunEscape ==
  /\ Running("EscapeReverse") /\ Turn
  /\ \/ /\ latch.recovering /\ ~sens.outside
        /\ latch' = [latch EXCEPT !.recovering = FALSE]
        /\ Hold
     \/ /\ latch.recovering /\ sens.outside
        /\ \/ Quiet /\ motor' = Driving
           \/ RequestOp(ChangeTo("Error")) /\ motor' = Stopped
        /\ UNCHANGED latch
     \/ /\ ~latch.recovering /\ sens.outside
        /\ latch' = [latch EXCEPT !.recovering = TRUE]
        /\ Quiet /\ motor' = Stopped
     \/ /\ ~latch.recovering /\ ~sens.outside
        /\ \/ Quiet /\ motor' = Driving
           \/ /\ RequestOp(ChangeTo(IF sens.lift THEN "Error"
                                    ELSE IF next[active] # None THEN next[active]
                                    ELSE "Idle"))
              /\ motor' = Stopped
        /\ UNCHANGED latch

\* Op::getGoalOp of a return address.
Goal(op) == IF op # None /\ next[op] # None THEN next[op] ELSE op

\* Mutant of GoodEnough: the better fix counts only for a dock.
GoodEnoughExact(goal) == sens.gps = IF goal = "Dock" THEN "fix" ELSE "float"

\* A dock waits for a fix, everything else takes a float.
GoodEnough(goal) == sens.gps = "fix" \/ (sens.gps = "float" /\ goal # "Dock")

\* On recovery the interrupted operation goes on, unless the map has changed in
\* the meantime; the wait has a limit.
RunGpsWait ==
  /\ Running("GpsWait") /\ Turn
  /\ \/ /\ GoodEnough(Goal(next[active]))
        /\ RequestOp(ChangeTo(IF blocked.ctx \/ next[active] = None
                              THEN "Idle" ELSE next[active]))
     \/ ~GoodEnough(Goal(next[active])) /\ Quiet
     \/ /\ ~GoodEnough(Goal(next[active]))
        /\ RequestOp(ChangeTo(IF sens.gps = "float" THEN "Dock" ELSE "Error"))
  /\ UNCHANGED <<motor, latch>>

RunWaitRain ==
  /\ Running("WaitRain") /\ Turn
  /\ motor' = Stopped
  /\ \/ ~sens.rain /\ RequestOp(ChangeTo("Idle")) /\ UNCHANGED latch
     \/ /\ sens.rain /\ ~sens.charger /\ ~latch.docking
        /\ latch' = [latch EXCEPT !.docking = TRUE]
        /\ RequestOp(ChangeTo("Dock"))
     \/ /\ sens.rain /\ (sens.charger \/ latch.docking)
        /\ Quiet /\ UNCHANGED latch

RunError ==
  /\ At("run") /\ active \in {"Error", "Manual"} /\ Turn
  /\ motor' = IF active = "Error" THEN Stopped ELSE motor
  /\ Quiet /\ UNCHANGED latch

\* Waypoint progression in track: the target is reached and more waypoints
\* follow, or none.  NavToStart asks for Mow in either case.  Dock retries from
\* its position or gives up; Undock is done when its route no longer docks.
Arrive ==
  /\ At("arrive") /\ Advance
  /\ \/ Hold /\ UNCHANGED <<latch, job>>
     \/ /\ active = "NavToStart"
        /\ Tell("targetReached") /\ UNCHANGED <<latch, job>>
     \/ /\ active = "Mow"
        /\ Tell("noFurther") /\ UNCHANGED <<latch, job>>
     \/ /\ active = "Dock"
        /\ RequestOp(ChangeTo("Error")) /\ UNCHANGED <<motor, latch, job>>
     \/ /\ active = "Dock"
        /\ Quiet /\ motor' = Stopped
        /\ latch' = [latch EXCEPT !.kidnapped = FALSE]
        /\ job' = [job EXCEPT !.route = "dock"]
     \/ /\ active = "Undock" /\ latch.undock = "path"
        /\ RequestOp(ChangeTo("NavToStart")) /\ motor' = Stopped
        /\ UNCHANGED <<latch, job>>
  /\ UNCHANGED <<sens, seen, blocked, batch, diag, running>>

RunStep ==
  /\ RunIdle \/ RunMow \/ RunDock \/ RunCharge \/ RunUndock \/ RunEscape
     \/ RunGpsWait \/ RunWaitRain \/ RunError
  /\ UNCHANGED <<sens, seen, job, blocked, batch, diag, running>>

\* Mutants: an escape forgets the mission; mowing on starts the count anew.
ForgetsInEscape(op) == op \in {"Idle", "Charge", "Error", "EscapeReverse"}
CountsAnewInMow(op) == op \in {"Idle", "Charge", "NavToStart", "Undock", "Mow"}

ForgetsMission(op)   == op \in {"Idle", "Charge", "Error"}
CountsStuckAnew(op)  == op \in {"Idle", "Charge", "NavToStart", "Undock"}

\* The rest of tickStateMachine, when the operation has changed: the mission is
\* forgotten in Idle, Charge and Error, the stuck count starts anew, and a GPS
\* outage that began before NavToStart is told again.
Settle ==
  /\ At("settle") /\ Advance
  /\ IF active = latch.lastOp THEN UNCHANGED <<latch, job>>
     ELSE /\ job' = IF ForgetsMission(active) THEN Cleared ELSE job
          /\ latch' = [latch EXCEPT
               !.lastOp   = active,
               !.stuck    = IF CountsStuckAnew(active) THEN 0 ELSE @,
               !.noSignal = @ /\ ~(active = "NavToStart" /\ sens.gps = "none")]
  /\ UNCHANGED <<omVars, sens, seen, motor, blocked, batch, diag, running>>

----------------------------------------------------------------------------
(* After the tick                                                          *)

\* tickDiag: a diagnosis drives the motors and ends the cycle early; the stop
\* button cancels it, and the cycle goes on.
Diagnose ==
  /\ At("diag")
  /\ \/ diag # "active" /\ Advance /\ UNCHANGED <<motor, diag>>
     \/ /\ diag = "active" /\ sens.button
        /\ motor' = Stopped /\ diag' = "none" /\ Advance
     \/ /\ diag = "active" /\ ~sens.button
        /\ \/ motor' \in {Driving, [drive |-> FALSE, blade |-> TRUE]}
              /\ UNCHANGED diag
           \/ motor' = Stopped /\ diag' = "none"
        /\ pc' = "hardware"
  /\ UNCHANGED <<omVars, sens, seen, latch, job, blocked, batch, running>>

\* tickButtonControl: pressing stops at once, except in Idle and Charge; on
\* release, what was asked for depends on how long the button was held.
Button ==
  /\ At("button") /\ Advance
  /\ seen' = [seen EXCEPT !.button = sens.button]
  /\ \/ /\ sens.button /\ ~seen.button /\ active \notin {"Idle", "Charge"}
        /\ EmergencyStop /\ UNCHANGED running
     \/ /\ sens.button = seen.button \/ ~sens.button \/ active \in {"Idle", "Charge"}
        /\ Hold /\ UNCHANGED <<job, blocked, diag, running>>
     \/ /\ ~sens.button /\ seen.button
        /\ \/ EmergencyStop /\ running' \in {running, FALSE}
           \/ StartMowing  /\ UNCHANGED <<motor, diag, running>>
           \/ StartDocking /\ UNCHANGED <<motor, diag, running>>
  /\ UNCHANGED <<sens, latch, batch>>

\* tickManualDrive: whether a joystick command is fresh (under 1500 ms).
ManualDrive ==
  /\ At("manual") /\ Advance
  /\ \E fresh \in BOOLEAN :
       CASE active = "Idle" /\ fresh ->
              RequestOp(Ask("Manual", NORMAL)) /\ UNCHANGED motor
         [] active = "Manual" /\ ~fresh ->
              RequestOp(Ask("Idle", CRITICAL)) /\ UNCHANGED motor
         [] active = "Manual" /\ fresh ->
              Quiet /\ motor' \in
                IF sens.button \/ sens.bumper \/ seen.lifted \/ sens.fault
                THEN {Stopped} ELSE {Stopped, Driving}
         [] OTHER -> Hold
  /\ UNCHANGED <<sens, seen, latch, job, blocked, batch, diag, running>>

\* tickSafetyStop.  While a bumper, the debounced lift or the motor fault is
\* set the motors are stopped in every cycle, but the operation is told only
\* of the edge.  The left and the right bumper count as one.
Tripped == sens.bumper \/ seen.lifted \/ sens.fault

\* Mutant of Trips: a held bumper stops the motors only once.
TripsOnEdge(lifted) == (sens.bumper /\ ~seen.bumper) \/ lifted \/ sens.fault

Trips(lifted) == sens.bumper \/ lifted \/ sens.fault

SafetyStop ==
  /\ At("stop") /\ Advance
  /\ \E lifted \in IF sens.lift THEN {seen.lifted, TRUE} ELSE {FALSE} :
       /\ seen' = [seen EXCEPT !.lifted = lifted]
       /\ IF Trips(lifted)
          THEN /\ motor' = Stopped
               /\ IF sens.bumper /\ ~seen.bumper THEN Answer("obstacle") ELSE Quiet
          ELSE Hold
  /\ UNCHANGED <<sens, latch, job, blocked, batch, diag, running>>

\* The lift edge is taken, and prevLiftDebounced kept, only while tripped.
SafetyLift ==
  /\ At("lift") /\ Advance
  /\ seen' = [seen EXCEPT !.lift = IF Tripped THEN seen.lifted ELSE @]
  /\ IF Tripped /\ seen.lifted /\ ~seen.lift THEN Tell("lift") ELSE Hold
  /\ UNCHANGED <<sens, latch, job, blocked, batch, diag, running>>

\* A motor fault is an obstacle to Mow and NavToStart.
SafetyFault ==
  /\ At("fault") /\ Advance
  /\ IF sens.fault /\ ~seen.fault
     THEN Tell(IF active \in {"Mow", "NavToStart"} THEN "obstacle" ELSE "motorError")
     ELSE Hold
  /\ UNCHANGED <<sens, seen, latch, job, blocked, batch, diag, running>>

\* The rain edge, and previousSensors_ for the next cycle.
Remember ==
  /\ At("remember") /\ Advance
  /\ IF sens.rain /\ ~seen.rain THEN Tell("rain") ELSE Hold
  /\ seen' = [seen EXCEPT !.bumper = sens.bumper, !.fault = sens.fault,
                          !.rain = sens.rain]
  /\ UNCHANGED <<sens, latch, job, blocked, batch, diag, running>>

----------------------------------------------------------------------------
(* Other threads                                                           *)

\* loadMap with another map while not in Idle (web socket thread).
LoadMap ==
  /\ "map" \in Inputs /\ pc # "off" /\ active # "Idle"
  /\ blocked' = [blocked EXCEPT !.now = TRUE]
  /\ UNCHANGED <<omVars, pc, sens, seen, latch, motor, job, batch, diag, running>>

\* A diagnosis is allowed in Idle; the check and the request are apart.  Its
\* client waits 15 s.  diagMowMotor switches the blade from its own thread.
DiagCheck ==
  /\ diag = "none" /\ active = "Idle"
  /\ diag' = "allowed" /\ UNCHANGED motor

DiagRequest ==
  /\ diag = "allowed"
  /\ \/ diag' = "active" /\ UNCHANGED motor
     \/ diag' = "none" /\ motor' \in {Stopped, [drive |-> FALSE, blade |-> TRUE]}

DiagTimeout ==
  /\ diag = "active"
  /\ diag' = "none" /\ motor' = Stopped

DiagClient ==
  /\ "diag" \in Inputs /\ pc # "off"
  /\ DiagCheck \/ DiagRequest \/ DiagTimeout
  /\ UNCHANGED <<omVars, pc, sens, seen, latch, job, blocked, batch, running>>

----------------------------------------------------------------------------
Loop ==
  \/ Hardware \/ PowerOff \/ Schedule \/ TakeCommands \/ ExecuteCommand
  \/ CommandsDone \/ Assemble \/ CheckBattery \/ MonitorMcu \/ MonitorGps
  \/ MonitorPerimeter \/ MonitorMapChange \/ MonitorStuck \/ MonitorOverload
  \/ MonitorWatchdog \/ Flush \/ NoFlush \/ Begin \/ RunStep \/ Arrive
  \/ Settle \/ Diagnose \/ Button \/ ManualDrive \/ SafetyStop \/ SafetyLift
  \/ SafetyFault \/ Remember

Next == Loop \/ LoadMap \/ DiagClient

Spec == Init /\ [][Next]_vars

\* The control loop goes on; the other threads need not do anything.  A robot
\* that reverses for ever has a broken clock: the three seconds of an escape,
\* and the five of a perimeter recovery, do run out.
LoopFairness ==
  /\ WF_vars(Loop)
  /\ SF_vars(RunStep /\ active = "EscapeReverse" /\ pending' # None)

FairSpec == Spec /\ LoopFairness

----------------------------------------------------------------------------
(* Properties                                                              *)

\* Every request the robot makes is one that OpManager allows the active
\* operation, and nothing else touches the transition state.
ImplementsOpManager == OM!Spec

\* When a cycle ends, a pressed bumper, a debounced lift or a motor fault has
\* both wheels and blade at rest, whatever the operation, the guards and the
\* joystick did in that cycle (tickSafetyStop comes last).
SafetyStopHolds == At("hardware") /\ Tripped => motor = Stopped

\* When a cycle ends, the blade turns only in Mow, and the wheels turn only in
\* an operation that drives: no route from one operation to another leaves a
\* motor on (end() and begin() of the operations).
MotorsMatchOperation ==
  At("hardware") =>
    /\ motor.blade => active = "Mow"
    /\ motor.drive => active \in Routed \union
                        {"Undock", "EscapeReverse", "Charge", "Manual"}

\* An escape or GPS wait that interrupts a route goes back to that route: the
\* address is the operation the request was made in, not an older one.
DetourReturns ==
  /\ pending = "EscapeReverse" /\ active \in Routed => next[pending] = active
  /\ pending = "GpsWait" => next[pending] = active
  /\ active = "GpsWait" => next[active] \in Routed

\* The route tracker is never run on a cleared RuntimeState, whose target is
\* the origin of the map: an operation that drives a route has one.
RouteFollowed == At("arrive") /\ active \in Routed => job.route # "none"

\* When the loop ends because the battery is critical, with nobody at the robot (no
\* commands, button, joystick or diagnosis among the inputs), the last cycle leaves the
\* motors at rest: no pending transition of higher priority, the timetable's among them,
\* and no later phase starts them again.  Otherwise they may not be: with the button held
\* the joystick drives once more, and a start that is pending in Error is carried out.
ShutdownAtRest == At("hardware") /\ ~running => motor = Stopped

\* A battery that stays low away from the charger ends mowing, however often
\* the robot gets stuck: the request to dock may be displaced by an escape
\* back into Mow, but the count of stuck recoveries survives the escape.
LowBatteryEndsMowing ==
  <>[](sens.battery = "low" /\ ~sens.charger)
    => []<>(active \notin {"Mow", "EscapeReverse", "WaitRain"})

\* Once the fix is back for good the robot does not wait for it for ever: it
\* resumes or goes to Idle, also after the waits that follow each other.
GpsRecoveryEndsWait ==
  <>[](sens.gps = "fix") => []<>(active # "GpsWait")

(* Said of the program, and not so: see the findings.                      *)

\* After an emergency stop, until something is started, the robot stands.
HaltHolds == At("hardware") /\ job.halted /\ active # "Manual" => ~motor.drive

\* Docking that interrupts an active mission saves its plan: a mission that is
\* forgotten in Charge is saved.
DockingSavesMission ==
  [][active = "Charge" /\ job.mission /\ ~job'.mission => job'.saved]_vars
=============================================================================
