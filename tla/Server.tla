------------------------------- MODULE Server -------------------------------
(***************************************************************************)
(* The web server: one worker that handles its requests, the push thread   *)
(* that broadcasts telemetry and closes the server, main's shutdown, and   *)
(* of Robot's control loop what requests wait for or change: the           *)
(* diagnosis, the stop command and the maintenance window of a flash.      *)
(*                                                                         *)
(* A handler of a motor diagnosis waits for the control loop; one of a     *)
(* script (a check for updates, a probe, a flash) for the script; all the  *)
(* others wait behind it.  The HTTP library is external: it hands over     *)
(* requests in the order of their arrival, and its stop lets the handler   *)
(* at work return.                                                         *)
(***************************************************************************)
EXTENDS Naturals, Sequences

CONSTANTS
  Kinds,     \* kinds of requests that are made: see Handlers
  InboxBound \* bound on the requests waiting for the worker

Handlers == {"read", "stop", "diagnose", "flash", "script", "update"}

ASSUME ServerAssumption == Kinds \subseteq Handlers /\ InboxBound \in Nat

VARIABLES
  inbox,    \* requests that arrived, in order
  work,     \* the request the worker handles, or "none"
  at,       \* where its handler is: see Places
  open,     \* the library takes and hands over requests
  running,  \* Robot::running_ and its loop: "on", "ending", "off"
  activeOp, \* the active operation; Idle stands for all at rest
  told,     \* ... in the telemetry the server has
  stopped,  \* a stop waits in Robot's queue
  diag,     \* diagReq_: "none", "active", "done"
  moving,   \* motors the loop turns for diagReq_
  blade,    \* the blade as diagMowMotor has switched it
  flashing, \* stmFlashRunning_
  excused,  \* stmFlashMaintenanceActive_
  grace,    \* stmFlashMaintenanceUntil_ms_ lies ahead
  updating, \* otaRunning_
  main      \* "loop", "joining", "waiting", "gone"

serverVars == <<inbox, work, at, open, running, activeOp, told, stopped, diag, moving,
                blade, flashing, excused, grace, updating, main>>
flashVars == <<flashing, excused, grace>>
robotVars == <<running, activeOp, told, stopped, diag, moving, blade>>
----------------------------------------------------------------------------
(* The library and the worker.                                             *)

Arrive ==
  /\ open /\ Len(inbox) < InboxBound
  /\ \E k \in Kinds : inbox' = Append(inbox, k)
  /\ UNCHANGED <<work, at, open, robotVars, flashVars, updating, main>>

TakeRequest ==
  /\ open /\ work = "none" /\ inbox # <<>>
  /\ work' = Head(inbox) /\ at' = "begin" /\ inbox' = Tail(inbox)
  /\ UNCHANGED <<open, robotVars, flashVars, updating, main>>

Handle(k, s) == work = k /\ at = s
Reply    == work' = "none" /\ at' = "begin"
Goes(s)  == at' = s /\ UNCHANGED work
OnlyWork == UNCHANGED <<inbox, open, main>>

\* Maps, missions, configuration, schedule, history: files and copies under mutexes;
\* a restart only leaves a thread behind that asks systemd for it: see Terminate.
HandleRead ==
  /\ Handle("read", "begin") /\ Reply
  /\ OnlyWork /\ UNCHANGED <<robotVars, flashVars, updating>>

\* The web socket's commands are only queued for the loop.
HandleStop ==
  /\ Handle("stop", "begin") /\ Reply
  /\ stopped' = TRUE
  /\ OnlyWork
  /\ UNCHANGED <<running, activeOp, told, diag, moving, blade, flashVars, updating>>

\* POST /api/diag/...: the operation is looked at.  A request for no such motor or no
\* distance is refused, and a calibration of the IMU turns no motor.
DiagBegins ==
  /\ Handle("diagnose", "begin")
  /\ \/ Reply
     \/ activeOp = "Idle" /\ \E s \in {"set", "blade"} : Goes(s)
  /\ OnlyWork /\ UNCHANGED <<robotVars, flashVars, updating>>

\* diagMowMotor switches the blade, on or off, and the wheels off, and returns.
DiagMowMotor ==
  /\ Handle("diagnose", "blade") /\ Reply
  /\ blade' \in BOOLEAN /\ moving' = FALSE
  /\ OnlyWork
  /\ UNCHANGED <<running, activeOp, told, stopped, diag, flashVars, updating>>

\* diagRunMotor, diagDriveStraight, diagTurnInPlace: the request is set under
\* diagMutex_ ...
DiagSet ==
  /\ Handle("diagnose", "set") /\ Goes("wait")
  /\ diag' = "active"
  /\ OnlyWork
  /\ UNCHANGED <<running, activeOp, told, stopped, moving, blade, flashVars, updating>>

\* ... and waited for.
DiagAnswered ==
  /\ Handle("diagnose", "wait") /\ diag = "done" /\ Reply
  /\ diag' = "none"
  /\ OnlyWork
  /\ UNCHANGED <<running, activeOp, told, stopped, moving, blade, flashVars, updating>>

\* Mutant of DiagTimesOut: the handler waits for the loop without a limit.
DiagWaits ==
  /\ Handle("diagnose", "wait") /\ diag = "done" /\ Reply
  /\ diag' = "none" /\ moving' = FALSE /\ blade' = FALSE
  /\ OnlyWork /\ UNCHANGED <<running, activeOp, told, stopped, flashVars, updating>>

\* Mutant of DiagTimesOut: the request is left active.
DiagLeftActive ==
  /\ Handle("diagnose", "wait") /\ diag = "active" /\ Reply
  /\ moving' = FALSE /\ blade' = FALSE
  /\ OnlyWork /\ UNCHANGED <<running, activeOp, told, stopped, diag, flashVars, updating>>

\* Nobody has answered in 15, in 30 s, or in the duration and 10 s.
DiagTimesOut ==
  /\ Handle("diagnose", "wait") /\ diag = "active" /\ Reply
  /\ diag' = "none" /\ moving' = FALSE /\ blade' = FALSE
  /\ OnlyWork /\ UNCHANGED <<running, activeOp, told, stopped, flashVars, updating>>

\* POST /api/ota/check, /api/stm/probe: as long as the script takes.
HandleScript ==
  /\ Handle("script", "begin") /\ Reply
  /\ OnlyWork /\ UNCHANGED <<robotVars, flashVars, updating>>

\* POST /api/ota/update: one at a time, on a thread of its own.
HandleUpdate ==
  /\ Handle("update", "begin") /\ Reply
  /\ updating' = TRUE
  /\ OnlyWork /\ UNCHANGED <<robotVars, flashVars>>

UpdateEnds ==
  /\ updating /\ updating' = FALSE
  /\ UNCHANGED <<inbox, work, at, open, robotVars, flashVars, main>>

\* POST /api/stm/flash: without script or firmware, or while the telemetry shows an
\* operation, it is refused; so is a second one.
FlashRefused ==
  /\ Handle("flash", "begin") /\ Reply
  /\ OnlyWork /\ UNCHANGED <<robotVars, flashVars, updating>>

\* setStmFlashMaintenance(true) ...
FlashBegins ==
  /\ Handle("flash", "begin") /\ told = "Idle" /\ ~flashing /\ Goes("set")
  /\ flashing' = TRUE /\ excused' = TRUE /\ grace' = FALSE
  /\ OnlyWork /\ UNCHANGED <<robotVars, updating>>

\* ... then the script runs, if it can be started ...
FlashRuns ==
  /\ Handle("flash", "set") /\ Goes("wait")
  /\ OnlyWork /\ UNCHANGED <<robotVars, flashVars, updating>>

FlashNotStarted ==
  /\ Handle("flash", "set") /\ Reply
  /\ flashing' = FALSE /\ excused' = FALSE /\ UNCHANGED grace
  /\ OnlyWork /\ UNCHANGED <<robotVars, updating>>

\* ... and ends: setStmFlashMaintenance(false) stores the flag first ...
FlashEnds ==
  /\ Handle("flash", "wait") /\ Goes("store")
  /\ flashing' = FALSE /\ excused' = FALSE /\ UNCHANGED grace
  /\ OnlyWork /\ UNCHANGED <<robotVars, updating>>

\* ... and the 15 s of grace after it.
FlashReplied ==
  /\ Handle("flash", "store") /\ Reply
  /\ grace' \in BOOLEAN
  /\ OnlyWork /\ UNCHANGED <<robotVars, flashing, excused, updating>>

GraceEnds ==
  /\ grace /\ grace' = FALSE
  /\ UNCHANGED <<inbox, work, at, open, robotVars, flashing, excused, updating, main>>

WorkerNext ==
  \/ TakeRequest \/ HandleRead \/ HandleStop \/ HandleScript
  \/ HandleUpdate
  \/ DiagBegins \/ DiagMowMotor \/ DiagSet \/ DiagAnswered \/ DiagTimesOut
  \/ FlashRefused \/ FlashBegins \/ FlashRuns \/ FlashNotStarted \/ FlashEnds
  \/ FlashReplied
----------------------------------------------------------------------------
(* The control loop and main.                                              *)

\* emergencyStop cancels the diagnosis.
Cancelled == IF stopped /\ diag = "active" THEN "done" ELSE diag

\* A pass of Robot::run: commands, button, timetable and missions change the
\* operation, then tickDiag drives, ends, or is stopped by the button.  The blade goes
\* off with a stop and with another diagnosis, and as soon as something else commands
\* the motors.
LoopRun ==
  /\ running = "on"
  /\ stopped' = FALSE /\ activeOp' \in {"Idle", "Mow"} /\ told' = activeOp'
  /\ IF Cancelled # "active"
     THEN /\ diag' = Cancelled /\ moving' = (moving /\ ~stopped)
          /\ blade' \in {blade /\ ~stopped, FALSE}
     ELSE /\ \/ diag' = "active" /\ moving' = TRUE
             \/ diag' = "done" /\ moving' = FALSE
          /\ blade' = FALSE
  /\ UNCHANGED <<inbox, work, at, open, running, flashVars, updating, main>>

\* SIGTERM, the battery, an exception in run.
Terminate ==
  /\ running = "on" /\ running' = "ending"
  /\ UNCHANGED <<inbox, work, at, open, activeOp, told, stopped, diag, moving,
                 blade, flashVars, updating, main>>

\* The motors off, the power released.
LoopEnds ==
  /\ running = "ending" /\ running' = "off" /\ moving' = FALSE /\ blade' = FALSE
  /\ UNCHANGED <<inbox, work, at, open, activeOp, told, stopped, diag, flashVars,
                 updating, main>>

\* WebSocketServer::stop: running_ is cleared, the push thread joined.
StopServer ==
  /\ running = "off" /\ main = "loop" /\ main' = "joining"
  /\ UNCHANGED <<inbox, work, at, open, robotVars, flashVars, updating>>

\* The push thread ends, and stops the library before.
PushEnds ==
  /\ main = "joining" /\ main' = "waiting" /\ open' = FALSE
  /\ UNCHANGED <<inbox, work, at, robotVars, flashVars, updating>>

\* Mutant of Leave: what has arrived is waited for, too.
LeavesEmpty ==
  /\ main = "waiting" /\ work = "none" /\ inbox = <<>> /\ main' = "gone"
  /\ UNCHANGED <<inbox, work, at, open, robotVars, flashVars, updating>>

\* crowFuture_.wait: the worker has returned from its handler.
Leave ==
  /\ main = "waiting" /\ work = "none" /\ main' = "gone"
  /\ UNCHANGED <<inbox, work, at, open, robotVars, flashVars, updating>>

MainNext == LoopEnds \/ StopServer \/ PushEnds \/ Leave
----------------------------------------------------------------------------
ServerInit ==
  /\ inbox = <<>> /\ work = "none" /\ at = "begin" /\ open = TRUE
  /\ running = "on" /\ activeOp = "Idle" /\ told = "Idle" /\ stopped = FALSE
  /\ diag = "none" /\ moving = FALSE /\ blade = FALSE
  /\ flashing = FALSE /\ excused = FALSE /\ grace = FALSE /\ updating = FALSE
  /\ main = "loop"

ServerNext ==
  \/ Arrive \/ WorkerNext \/ UpdateEnds \/ GraceEnds
  \/ LoopRun \/ Terminate \/ MainNext

ServerSafety == ServerInit /\ [][ServerNext]_serverVars

\* The worker goes on: waits have a limit, and a script ends.  So does main.
ServerFairness == WF_serverVars(WorkerNext) /\ WF_serverVars(MainNext)

ServerSpec == ServerSafety /\ ServerFairness
----------------------------------------------------------------------------
(* Properties.                                                             *)

Places == {"begin", "blade", "set", "wait", "store"}

ServerTypeOK ==
  /\ inbox \in Seq(Kinds) /\ work \in Kinds \cup {"none"} /\ at \in Places
  /\ open \in BOOLEAN /\ running \in {"on", "ending", "off"}
  /\ activeOp \in {"Idle", "Mow"} /\ told \in {"Idle", "Mow"} /\ stopped \in BOOLEAN
  /\ diag \in {"none", "active", "done"} /\ moving \in BOOLEAN /\ blade \in BOOLEAN
  /\ flashing \in BOOLEAN /\ excused \in BOOLEAN /\ grace \in BOOLEAN
  /\ updating \in BOOLEAN /\ main \in {"loop", "joining", "waiting", "gone"}

\* What a request has begun ends with it, but for the blade that diagMowMotor switches
\* on, which is left on.  The motors that the loop turns for a diagnosis turn only while
\* its handler waits and nobody has ended it, and never together with that blade; and a
\* silent motor controller is excused by a flash only while that flash is handled.
RequestsCleanUp ==
  /\ diag # "none" => Handle("diagnose", "wait")
  /\ moving => diag = "active" /\ ~blade
  /\ flashing \/ excused => work = "flash"

\* Once the loop is ending the process ends, whatever its worker waits for.
ShutdownCompletes == running = "ending" ~> main = "gone"

\* The requests not answered, the one at work first.
Unanswered ==
  IF ~open THEN <<>> ELSE IF work = "none" THEN inbox ELSE <<work>> \o inbox

Requested == INSTANCE Service WITH Requests <- Kinds, waiting <- Unanswered

\* The server is a Service: although a diagnosis waits for the control loop, which
\* may have ended, each request is answered in its turn, or the server closes.
ImplementsService == Requested!ServiceSpec
=============================================================================
