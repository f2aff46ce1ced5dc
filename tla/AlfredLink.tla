----------------------------- MODULE AlfredLink -----------------------------
(***************************************************************************)
(* The robot's computer and its motor controller: SerialRobotDriver, the   *)
(* serial line, and Firmware.  In each cycle of the control loop the       *)
(* driver reads what the controller answered, sends AT+M with the motor    *)
(* values latched in the cycle before, now and then AT+S, and looks for a  *)
(* controller that has become silent.                                      *)
(*                                                                         *)
(* One unit of time is one cycle.  The line keeps the order of frames; a   *)
(* frame may be damaged, which its checksum shows, and is then lost.       *)
(* What Robot wants of the motors is free, but RobotLoop's guards bind it: *)
(* a stop sensor or a silent controller takes all motors off.              *)
(***************************************************************************)
EXTENDS Firmware, SequencesExt

CONSTANTS
  ConsolePeriod,   \* units between looks at the answers: kConsolePeriodMs
  SummaryPeriod,   \* units between AT+S: kSummaryPeriodMs
  RampSteps,       \* units in which the blade's ramp goes from end to end
  Grace,           \* units from keepPowerOn(false) to the shutdown
  MaxStall,        \* bound on the units a cycle may come late
  Watched          \* the histories a run keeps: "trip", "silent", "ticks"

ASSUME LinkAssumption ==
  /\ ConsolePeriod \in Nat \ {0} /\ SummaryPeriod \in Nat \ {0}
  /\ RampSteps \in Nat \ {0} /\ Grace \in Nat /\ MaxStall \in Nat
  /\ Watched \subseteq {"trip", "silent", "ticks"}

VARIABLES
  drv,      \* SerialRobotDriver
  pi,       \* the process: "on", "down" after a crash, "left" after loop(), "halted"
  late,     \* units since the last cycle
  toMcu,    \* frames on their way to the controller
  toPi,     \* frames on their way to the computer, or in its buffer
  trip,     \* history: units the bumper has been pressed for
  silent,   \* history: units since a motor answer was read
  owed      \* history: ticks counted and not reported, or Unknown

vars == <<fwVars, drv, pi, late, toMcu, toPi, trip, silent, owed>>

Buffer   == 2     \* frames that fit into the controller's receive buffer
Unknown  == -1

NoticeAge == 2 * ConsolePeriod - 2 + MaxStall  \* a silent controller is noticed
TripAge   == NoticeAge + StopAge + 2 + MaxStall       \* a pressed bumper has stopped the wheels
BladeAge  == TripAge + RampSteps * (1 + MaxStall)  \* ... and the blade

\* The driver after init().
NewDriver ==
  [wheels |-> FALSE, blade |-> FALSE, ramp |-> 0, connected |-> FALSE,
   reset |-> TRUE, unread |-> 0, rx |-> FALSE, console |-> 0, summary |-> 0,
   bumper |-> FALSE, fast |-> FALSE, slow |-> FALSE, fault |-> FALSE,
   shutdown |-> FALSE, grace |-> 0]

Most(n, bound) == IF n > bound THEN bound ELSE n
----------------------------------------------------------------------------
(* The driver's frame handlers and ticks: from driver state to driver state. *)

\* parseMotorFrame, the compact form, and updateLatchedMotorFault.
MotorFrame(d, f) ==
  [d EXCEPT
     !.unread = @ + f.ticks, !.bumper = f.bumper, !.fast = f.overload,
     !.fault = f.overload \/ d.slow, !.connected = TRUE, !.rx = TRUE]

\* parseSummaryFrame.
SummaryFrame(d, f) ==
  [d EXCEPT
     !.bumper = f.bumper, !.slow = f.fault, !.fault = d.fast \/ f.fault]

\* dispatchFrame.
Dispatch(d, f) == IF f.kind = "M" THEN MotorFrame(d, f) ELSE SummaryFrame(d, f)

\* pollRx: all that has come, in its order.
PollRx(d, frames) == FoldLeft(LAMBDA e, f : Dispatch(e, f), d, frames)

\* tickMotor: the blade's value follows its setting along a ramp, both ways.
Ramp(d) == [d EXCEPT !.ramp = IF d.blade THEN Most(@ + 1, RampSteps)
                                         ELSE IF @ = 0 THEN 0 ELSE @ - 1]
MotorCommand(d) == [kind |-> "M", wheels |-> d.wheels, blade |-> d.ramp > 0]

\* tickSummary.
SummaryDue(d) == d.summary >= SummaryPeriod
Summary == [kind |-> "S"]

\* Mutant of LookForAnswers: the count of answers is not taken back.
LookForAnswersOnce(d) ==
  IF d.console < ConsolePeriod THEN d
  ELSE [d EXCEPT !.console = 0, !.connected = @ /\ d.rx, !.reset = @ \/ ~d.rx]

\* tickConsole: no motor answer since the last look means a silent controller.
LookForAnswers(d) ==
  IF d.console < ConsolePeriod THEN d
  ELSE [d EXCEPT !.console = 0, !.rx = FALSE,
                 !.connected = @ /\ d.rx, !.reset = @ \/ ~d.rx]

\* readOdometry: the ticks since the last call, none on the first call after
\* the controller has come back.
Reported(d) == IF d.connected /\ ~d.reset THEN d.unread ELSE 0
ReadOdometry(d) == [d EXCEPT !.unread = 0, !.reset = ~d.connected]

\* Mutant of Allowed: without monitorMcuConnectivity.
AllowedBlind(d) == {c \in Commands : d.bumper \/ d.fault => ~c.wheels /\ ~c.blade}

\* Robot's guards: bumper and motor fault (tickSafetyStop) and the silent
\* controller (monitorMcuConnectivity) take all motors off by the end of the
\* cycle.  That nobody starts a mission while the controller is silent, and that
\* the guard was armed again, is an assumption: see SilentControllerStops.
Allowed(d) ==
  {c \in Commands : d.bumper \/ d.fault \/ ~d.connected => ~c.wheels /\ ~c.blade}

SetMotorPwm(d, c) == [d EXCEPT !.wheels = c.wheels, !.blade = c.blade]

\* keepPowerOn(FALSE).
PowerOff(d) == IF d.shutdown THEN d ELSE [d EXCEPT !.shutdown = TRUE, !.grace = Grace]
----------------------------------------------------------------------------
(* Histories, each kept only in the runs that watch it.                    *)

Watch(h, unwatched, value) == IF h \in Watched THEN value ELSE unwatched

TicksOf(f) == IF f.kind = "M" THEN f.ticks ELSE 0
TicksIn(frames) == FoldLeft(LAMBDA n, f : n + TicksOf(f), 0, frames)

\* Ticks that nobody will report any more: what is owed is not known then.
Forget == owed' = Unknown
----------------------------------------------------------------------------
(* Actions of the computer.                                                *)

\* Robot::run: SerialRobotDriver::run, the readings, and the motors' new values.
Cycle ==
  /\ pi = "on" /\ late > 0
  /\ LET polled == PollRx(drv, toPi)
         ramped == Ramp(polled)
         due    == SummaryDue(ramped)
         sent   == <<MotorCommand(ramped)>> \o (IF due THEN <<Summary>> ELSE <<>>)
         looked == LookForAnswers([ramped EXCEPT !.summary = IF due THEN 0 ELSE @])
         read   == ReadOdometry(looked)
     IN /\ \E c \in Allowed(looked) : drv' = SetMotorPwm(read, c)
        /\ toMcu' = SubSeq(toMcu \o sent, 1, Most(Len(toMcu \o sent), Buffer))
        /\ pi' = IF looked.shutdown /\ looked.grace = 0 THEN "halted" ELSE "on"
        /\ owed' = IF owed = Unknown \/ (looked.connected /\ looked.reset /\ looked.unread > 0)
                   THEN Unknown ELSE owed - Reported(looked)
        /\ silent' = IF \E i \in DOMAIN toPi : toPi[i].kind = "M" THEN 0 ELSE silent
  /\ late' = 0 /\ toPi' = <<>>
  /\ UNCHANGED <<fwVars, trip>>

\* Robot::loop ends after a cycle: a critical battery, the button, a signal.
Leave ==
  /\ "exit" \in Disturbances
  /\ pi = "on" /\ late = 0
  /\ pi' = "left"
  /\ drv' = PowerOff(SetMotorPwm(drv, [wheels |-> FALSE, blade |-> FALSE]))
  /\ UNCHANGED <<fwVars, late, toMcu, toPi, trip, silent, owed>>

\* The process dies, and is started again: opening the port flushes it.
Crash ==
  /\ "crash" \in Disturbances
  /\ pi = "on" /\ pi' = "down"
  /\ UNCHANGED <<fwVars, drv, late, toMcu, toPi, trip, silent, owed>>

Restart ==
  /\ pi = "down" /\ pi' = "on"
  /\ drv' = NewDriver /\ toMcu' = <<>> /\ toPi' = <<>>
  /\ Forget
  /\ UNCHANGED <<fwVars, late, trip, silent>>
----------------------------------------------------------------------------
(* Actions of the controller and the line.                                 *)

FromPi == Head(toMcu)

\* cmdMotor's and cmdSummary's answers, made before the sensors are read again.
MotorAnswer == [kind |-> "M", ticks |-> fw.ticks, bumper |-> fw.bumper,
                overload |-> fw.overload]
SummaryAnswer == [kind |-> "S", bumper |-> fw.bumper,
                  fault |-> fw.mowFault \/ fw.overload \/ fw.permanent]

Released == trip' = IF fw'.bumper THEN trip ELSE 0

McuPass ==
  /\ fw.due /\ Pass /\ Released
  /\ UNCHANGED <<drv, pi, late, toMcu, toPi, silent, owed>>

McuMotor ==
  /\ toMcu # <<>>
  /\ \E c \in Commands : FromPi = [kind |-> "M", wheels |-> c.wheels, blade |-> c.blade]
                        /\ Serve(c)
  /\ toMcu' = Tail(toMcu) /\ toPi' = Append(toPi, MotorAnswer)
  /\ Released
  /\ UNCHANGED <<drv, pi, late, silent, owed>>

McuSummary ==
  /\ toMcu # <<>> /\ FromPi = Summary
  /\ Pass
  /\ toMcu' = Tail(toMcu) /\ toPi' = Append(toPi, SummaryAnswer)
  /\ Released
  /\ UNCHANGED <<drv, pi, late, silent, owed>>

McuReset ==
  /\ Reset
  /\ toMcu' = <<>> /\ trip' = 0
  /\ Forget
  /\ UNCHANGED <<drv, pi, late, toPi, silent>>

LoseCommand ==
  /\ "loss" \in Disturbances /\ toMcu # <<>>
  /\ toMcu' = Tail(toMcu)
  /\ UNCHANGED <<fwVars, drv, pi, late, toPi, trip, silent, owed>>

LoseAnswer ==
  /\ "loss" \in Disturbances /\ toPi # <<>>
  /\ toPi' = Tail(toPi)
  /\ IF Head(toPi).kind = "M" THEN Forget ELSE UNCHANGED owed
  /\ UNCHANGED <<fwVars, drv, pi, late, toMcu, trip, silent>>

\* A unit passes: the frames sent in it have arrived, the cycle has been run or
\* is late, and what comes while the controller boots is lost.
Tick ==
  /\ FwTick
  /\ toMcu = <<>> \/ fw.boot > 0 \/ "hang" \in Disturbances
  /\ toMcu' = IF fw.boot > 0 \/ fw'.boot > 0 THEN <<>> ELSE toMcu
  /\ pi = "on" => late <= (IF "stall" \in Disturbances THEN MaxStall ELSE 0)
  /\ late' = IF pi = "on" THEN late + 1 ELSE 1
  /\ drv' = [drv EXCEPT !.console = Most(@ + 1, ConsolePeriod),
                        !.summary = Most(@ + 1, SummaryPeriod),
                        !.grace = IF @ = 0 THEN 0 ELSE @ - 1]
  /\ trip' = Watch("trip", 0, IF fw.bumper THEN Most(trip + 1, BladeAge + 1) ELSE 0)
  /\ silent' = Watch("silent", 0, Most(silent + 1, NoticeAge + 1))
  /\ owed' = Watch("ticks", Unknown,
                   IF owed = Unknown \/ (fw.boot = 0 /\ fw.dog >= WatchdogTime) THEN Unknown
                   ELSE owed + (IF fw.outWheels /\ fw.boot = 0 THEN 1 ELSE 0))
  /\ UNCHANGED <<pi, toPi>>

Init ==
  /\ FwInit
  /\ drv = NewDriver /\ pi = "on" /\ late = 0 /\ toMcu = <<>> /\ toPi = <<>>
  /\ trip = 0 /\ silent = 0
  /\ owed = Watch("ticks", Unknown, 0)

Next == \/ Cycle \/ Leave \/ Crash \/ Restart
        \/ McuPass \/ McuMotor \/ McuSummary \/ McuReset
        \/ LoseCommand \/ LoseAnswer \/ Tick

Spec == Init /\ [][Next]_vars

\* Each side does what is due, and time goes on.
FairSpec == /\ Spec
            /\ WF_vars(Cycle) /\ WF_vars(Tick)
            /\ WF_vars(McuPass) /\ WF_vars(McuMotor) /\ WF_vars(McuSummary)
----------------------------------------------------------------------------
(* Properties.                                                             *)

TypeOK ==
  /\ FwTypeOK
  /\ drv \in [wheels: BOOLEAN, blade: BOOLEAN, ramp: 0..RampSteps,
              connected: BOOLEAN, reset: BOOLEAN, unread: Nat, rx: BOOLEAN,
              console: 0..ConsolePeriod, summary: 0..SummaryPeriod,
              bumper: BOOLEAN, fast: BOOLEAN, slow: BOOLEAN, fault: BOOLEAN,
              shutdown: BOOLEAN, grace: 0..Grace]
  /\ pi \in {"on", "down", "left", "halted"}
  /\ late \in 0..(MaxStall + 1) /\ Len(toMcu) <= Buffer /\ Len(toPi) <= 2 * Buffer
  /\ trip \in 0..(BladeAge + 1) /\ silent \in 0..(NoticeAge + 1)
  /\ owed \in Nat \cup {Unknown}

\* A bumper that stays pressed stops the wheels, and after the ramp the blade,
\* whichever frames are lost, whether a cycle is late, the process dies, or the
\* controller restarts: by the computer's guard if it hears of the bumper, by
\* the silent controller's if it does not, and by the command timeout otherwise.
TripStopsMotors ==
  /\ trip > TripAge => ~fw.outWheels
  /\ trip > BladeAge => ~fw.outBlade

\* The computer does not go on believing in a controller that answers no motor
\* command: it notices within two looks.
SilenceNoticed == pi = "on" /\ late = 0 /\ drv.connected => silent <= NoticeAge

\* Every tick of the wheels is reported once: as long as no answer is lost and
\* no side restarts, what is not yet reported is on its way.
TicksKept == owed # Unknown => owed = fw.ticks + TicksIn(toPi)

\* "keepPowerOn(false) starts a 5 s grace period then calls shutdown now."
ShutdownFires == drv.shutdown ~> pi = "halted"
=============================================================================
