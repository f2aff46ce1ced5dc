-------------------------------- MODULE Ops --------------------------------
(***************************************************************************)
(* The twelve operations of the mower's state machine (core/op), the       *)
(* priorities of a transition request, and what each operation asks for    *)
(* when the robot tells it about an event.  Everything here is constant:   *)
(* the tables that OpManager and RobotLoop are built from.                 *)
(***************************************************************************)
EXTENDS Integers

OpNames == {"Idle", "Mow", "Dock", "Charge", "Undock", "NavToStart",
            "WaitRain", "EscapeReverse", "EscapeForward", "GpsWait",
            "Error", "Manual"}

None == "None"            \* nullptr: no pending operation, no return address

\* Op::PRIO_* of Op.h
LOW == 10
NORMAL == 50
HIGH == 80
CRITICAL == 100
Priorities == {LOW, NORMAL, HIGH, CRITICAL}

\* The least priority a request for an operation is queued with.
MinPrio(op) ==
  CASE op \in {"Error", "Charge"} -> HIGH
    [] op \in {"EscapeReverse", "EscapeForward", "GpsWait", "Manual"} -> LOW
    [] OTHER -> NORMAL

\* Mutants of EffectivePrio: added up instead of the greater; no least priority.
PrioSum(op, prio) == prio + MinPrio(op)
PrioRaw(op, prio) == prio

EffectivePrio(op, prio) == IF prio > MinPrio(op) THEN prio ELSE MinPrio(op)

----------------------------------------------------------------------------
(* Requests: what an operation hands to OpManager::setPending.             *)

Requests == [target : OpNames, prio : Priorities, back : BOOLEAN]

Ask(op, prio) == [target |-> op, prio |-> prio, back |-> FALSE]
ChangeTo(op)  == Ask(op, NORMAL)                       \* changeOp(ctx, op)
DetourTo(op)  == [target |-> op, prio |-> NORMAL, back |-> TRUE]
                                                       \* changeOp(ctx, op, true)
----------------------------------------------------------------------------
(* The event handlers.  A table names the events that an operation         *)
(* overrides a handler for, and what it asks for; every other event is     *)
(* ignored (Op.cpp: empty defaults), but for the battery's undervoltage.   *)

Routed == {"Mow", "NavToStart", "Dock"}   \* the operations that follow a route

MowAnswers ==
  [gpsNoSignal   |-> DetourTo("GpsWait"),       gpsFixTimeout |-> ChangeTo("Dock"),
   rain          |-> ChangeTo("WaitRain"),      lift          |-> ChangeTo("Error"),
   motorError    |-> ChangeTo("Error"),         obstacle      |-> DetourTo("EscapeReverse"),
   stuck         |-> DetourTo("EscapeReverse"), noFurther     |-> ChangeTo("Dock"),
   kidnapped     |-> DetourTo("GpsWait"),       perimeter     |-> ChangeTo("Dock"),
   mapChanged    |-> ChangeTo("Idle"),          timetableStop |-> ChangeTo("Dock"),
   undervoltage  |-> ChangeTo("Error"),         batteryLow    |-> ChangeTo("Dock")]

NavToStartAnswers ==
  [gpsNoSignal   |-> DetourTo("GpsWait"),       gpsFixTimeout |-> ChangeTo("Dock"),
   lift          |-> ChangeTo("Error"),         motorError    |-> ChangeTo("Error"),
   obstacle      |-> DetourTo("EscapeReverse"), targetReached |-> ChangeTo("Mow"),
   noFurther     |-> ChangeTo("Mow"),           kidnapped     |-> DetourTo("GpsWait"),
   perimeter     |-> ChangeTo("Dock"),          mapChanged    |-> ChangeTo("Idle"),
   undervoltage  |-> ChangeTo("Error")]

\* noFurther is not a transition but a retry: see Arrive in RobotLoop.
DockAnswers ==
  [gpsNoSignal   |-> DetourTo("GpsWait"),       gpsFixTimeout |-> ChangeTo("Error"),
   lift          |-> ChangeTo("Error"),         motorError    |-> ChangeTo("Error"),
   obstacle      |-> DetourTo("EscapeReverse"), stuck         |-> DetourTo("EscapeReverse"),
   kidnapped     |-> DetourTo("GpsWait"),       perimeter     |-> ChangeTo("Error"),
   mapChanged    |-> ChangeTo("Idle"),          watchdog      |-> ChangeTo("Error"),
   undervoltage  |-> ChangeTo("Error")]

ChargeAnswers ==
  [timetableStart |-> ChangeTo("Undock"), undervoltage |-> ChangeTo("Error")]

UndockAnswers ==
  [lift       |-> ChangeTo("Error"), stuck        |-> ChangeTo("Error"),
   motorError |-> ChangeTo("Error"), undervoltage |-> Ask("Error", CRITICAL)]

EscapeReverseAnswers ==
  [lift         |-> ChangeTo("Error"), kidnapped |-> DetourTo("GpsWait"),
   undervoltage |-> ChangeTo("Error")]

EscapeForwardAnswers ==
  [lift      |-> ChangeTo("Error"),  obstacle     |-> DetourTo("EscapeReverse"),
   kidnapped |-> DetourTo("GpsWait"), perimeter   |-> ChangeTo("Dock"),
   undervoltage |-> ChangeTo("Error")]

WaitRainAnswers ==
  [batteryLow |-> ChangeTo("Dock"), undervoltage |-> Ask("Error", CRITICAL)]

ManualAnswers ==
  [lift |-> ChangeTo("Idle"), undervoltage |-> Ask("Error", CRITICAL)]

\* Idle, GpsWait and Error.
DefaultAnswers == [undervoltage |-> Ask("Error", CRITICAL)]

Table(op) ==
  CASE op = "Mow"           -> MowAnswers
    [] op = "NavToStart"    -> NavToStartAnswers
    [] op = "Dock"          -> DockAnswers
    [] op = "Charge"        -> ChargeAnswers
    [] op = "Undock"        -> UndockAnswers
    [] op = "EscapeReverse" -> EscapeReverseAnswers
    [] op = "EscapeForward" -> EscapeForwardAnswers
    [] op = "WaitRain"      -> WaitRainAnswers
    [] op = "Manual"        -> ManualAnswers
    [] OTHER                -> DefaultAnswers

\* What each operation may ask for in answer to an event.
Answers == [op \in OpNames |-> {Table(op)[ev] : ev \in DOMAIN Table(op)}]

\* The handlers that also stop the motors, drive and blade (ctx.stopMotors).
HandlerStops(op, ev) ==
  \/ ev = "kidnapped"    /\ op \in Routed \union {"EscapeReverse", "EscapeForward"}
  \/ ev = "perimeter"    /\ op \in Routed \union {"EscapeForward"}
  \/ ev = "mapChanged"   /\ op \in Routed
  \/ ev = "undervoltage" /\ op \in {"Dock", "EscapeReverse", "EscapeForward"}
  \/ ev = "watchdog"     /\ op = "Dock"
  \/ ev = "obstacle"     /\ op = "EscapeForward"
  \/ ev = "lift"         /\ op \in {"EscapeReverse", "EscapeForward", "Manual"}
----------------------------------------------------------------------------
(* Requests an operation makes of its own accord, in begin() or run().     *)

OwnRequests(op) ==
  CASE op = "Idle"       -> {ChangeTo("Charge")}
    [] op = "Charge"     -> {ChangeTo("Dock"), ChangeTo("Error")}
    [] op = "Undock"     -> {ChangeTo("NavToStart"), ChangeTo("Error")}
    [] op \in {"NavToStart", "Mow"} -> {ChangeTo("Idle")}
    [] op = "Dock"       -> {ChangeTo("Charge"), ChangeTo("Error")}
    [] op = "WaitRain"   -> {ChangeTo("Idle"), ChangeTo("Dock")}
    [] op = "EscapeReverse" -> {ChangeTo("Idle"), ChangeTo("Error")}
    [] op = "EscapeForward" -> {ChangeTo("Idle")}
    [] op = "GpsWait"    -> {ChangeTo("Idle"), ChangeTo("Dock"), ChangeTo("Error")}
    [] OTHER             -> {}

\* end() and begin() of which operations stop the motors.
EndStops == {"Mow", "NavToStart", "Undock", "WaitRain", "Manual"}

\* Mutant of BeginStops: GpsWaitFixOp::begin leaves the motors alone.
BeginStopsNotInGpsWait == {"Idle", "Dock", "Charge", "Undock", "NavToStart",
                           "WaitRain", "Error", "Manual"}

BeginStops == {"Idle", "Dock", "Charge", "Undock", "NavToStart", "GpsWait",
               "WaitRain", "Error", "Manual"}

\* An operation entered as a detour also asks for the one it came from.
Detours == {"EscapeReverse", "EscapeForward", "GpsWait"}

\* What Robot asks for in the active operation's name: error after a lost MCU
\* or an exhausted stuck recovery, and the operator's commands.
RobotRequests ==
  {Ask("Error", CRITICAL), Ask("Idle", CRITICAL), Ask("Manual", NORMAL)} \union
  {Ask(op, HIGH) : op \in {"Dock", "Undock", "NavToStart", "Charge",
                           "WaitRain", "EscapeReverse", "EscapeForward"}}
=============================================================================
