------------------------------ MODULE Firmware ------------------------------
(***************************************************************************)
(* alfred/firmware/rm18.ino: the STM32 that turns AT+M commands into motor *)
(* outputs, reads the sensors and protects the motors by itself: a command *)
(* timeout, an overload cut-out and a hardware watchdog.                   *)
(*                                                                         *)
(* Time goes in units in which each periodic part of loop() runs once; a   *)
(* pass of loop() without them only serves the console.  Motors are on or  *)
(* off, analog readings are above their threshold or not, and the pulses   *)
(* that release the brake of the blade count as on.                        *)
(***************************************************************************)
EXTENDS Integers

CONSTANTS
  MotorTimeout,    \* units a command holds: 3 s in the code
  WatchdogTime,    \* units without a pass until IWatchdog resets: 2 s
  BootTime,        \* units of setup()'s delay(2000)
  ShortRecovery,   \* units of the cut-out after an overload: 2 s
  LongRecovery,    \* ... and from the fourth sample in a window on: 10 s
  OverloadWindow,  \* units in which the samples are counted together: 60 s
  Disturbances     \* what may happen: see Disturbed

Disturbed == {"bumper", "current", "pin", "hang", "reset"}

ASSUME FirmwareAssumption ==
  /\ MotorTimeout \in Nat /\ WatchdogTime \in Nat \ {0} /\ BootTime \in Nat
  /\ ShortRecovery \in Nat /\ LongRecovery \in Nat /\ OverloadWindow \in Nat
  /\ Disturbances \subseteq (Disturbed \cup {"loss", "stall", "crash", "exit"})

VARIABLES
  fw,       \* the globals of the sketch
  age       \* history: units since a motor command was obeyed

fwVars == <<fw, age>>

StopAge    == MotorTimeout + 2 * WatchdogTime   \* when silence has stopped all
HealMax    == IF ShortRecovery > LongRecovery THEN ShortRecovery ELSE LongRecovery
Commands   == [wheels: BOOLEAN, blade: BOOLEAN]

\* What the sensors may show when they are read.
Readings == {s \in [bumper: BOOLEAN, current: BOOLEAN, pin: BOOLEAN] :
               \A i \in {"bumper", "current", "pin"} : s[i] => i \in Disturbances}

\* The state after a reset: all outputs are off, and no command is in force.
Boot(n) ==
  [wheels |-> FALSE, blade |-> FALSE, outWheels |-> FALSE, outBlade |-> FALSE,
   quiet |-> MotorTimeout + 1, ticks |-> 0, bumper |-> FALSE, mowFault |-> FALSE,
   overload |-> FALSE, permanent |-> FALSE, count |-> 0,
   heal |-> 0, window |-> 0, due |-> TRUE, dog |-> 0, boot |-> n]
----------------------------------------------------------------------------
(* The parts of loop(), in its order.                                      *)

\* motor() and mower(): an overload takes the wheels' setting, not the blade's.
Drive(f) ==
  LET on == f.wheels /\ ~f.overload
  IN [f EXCEPT !.wheels = on, !.outWheels = on, !.outBlade = f.blade]

\* Mutant of Silence: the blade is forgotten.
SilenceWheels(f) == IF f.quiet > MotorTimeout THEN [f EXCEPT !.wheels = FALSE] ELSE f

\* now > motorTimeout: both settings are taken back.
Silence(f) == IF f.quiet > MotorTimeout THEN [f EXCEPT !.wheels = FALSE, !.blade = FALSE]
                                        ELSE f

\* Mutant of Obey: the ticks answered are not taken off.
ObeyKeepTicks(f, c) == [f EXCEPT !.wheels = c.wheels, !.blade = c.blade, !.quiet = 0]

\* cmdMotor: new settings, a new deadline, and the ticks counted go out.
Obey(f, c) == [f EXCEPT !.wheels = c.wheels, !.blade = c.blade,
                        !.quiet = 0, !.ticks = 0]

\* Mutant of Overcurrent: only an overload's first sample counts.
OvercurrentOnset(f) ==
  LET fresh == f.window > OverloadWindow
      n     == (IF fresh THEN 0 ELSE f.count) + (IF f.overload THEN 0 ELSE 1)
  IN [f EXCEPT !.window = IF fresh THEN 0 ELSE @,
               !.count = IF n > 6 THEN 6 ELSE n,
               !.permanent = @ \/ n > 5,
               !.overload = TRUE,
               !.heal = (IF n <= 3 THEN ShortRecovery ELSE LongRecovery) + 1]

\* readMotorCurrent, when the filtered current is too high: each sample counts.
Overcurrent(f) ==
  LET fresh == f.window > OverloadWindow
      n     == (IF fresh THEN 0 ELSE f.count) + 1
  IN [f EXCEPT !.window = IF fresh THEN 0 ELSE @,
               !.count = IF n > 6 THEN 6 ELSE n,
               !.permanent = @ \/ n > 5,
               !.overload = TRUE,
               !.heal = (IF n <= 3 THEN ShortRecovery ELSE LongRecovery) + 1]

\* readSensors: the fault pin counts only while the blade is commanded.
Sense(f, s) ==
  LET g == [f EXCEPT !.bumper = s.bumper,
                     !.mowFault = s.pin /\ (f.blade \/ f.outBlade)]
  IN IF s.current THEN Overcurrent(g) ELSE g

\* Mutant of Heal: the cut-out ends in any case.
HealAlways(f) == IF f.heal = 0 THEN [f EXCEPT !.overload = FALSE] ELSE f

\* now > motorOverloadTimeout: the cut-out ends, unless it is permanent.
Heal(f) == IF f.heal = 0 /\ ~f.permanent THEN [f EXCEPT !.overload = FALSE] ELSE f

\* A unit of time: deadlines come nearer, driven wheels count ticks.
Older(f) ==
  [f EXCEPT !.quiet  = IF @ > MotorTimeout THEN @ ELSE @ + 1,
            !.heal   = IF @ = 0 THEN 0 ELSE @ - 1,
            !.window = IF @ > OverloadWindow THEN @ ELSE @ + 1,
            !.ticks  = IF f.outWheels THEN @ + 1 ELSE @,
            !.due    = TRUE, !.dog = @ + 1]
----------------------------------------------------------------------------
(* Actions.                                                                *)

\* processConsole: a motor command, or nothing that changes the state.
Nothing == [nothing |-> TRUE]
Console(f, c) == IF c = Nothing THEN f ELSE Obey(f, c)

\* loop(); the periodic parts run if they are due.
Loop(c) ==
  /\ fw.boot = 0
  /\ \/ /\ fw.due
        /\ \E s \in Readings :
              fw' = [Heal(Sense(Console(Silence(Drive(fw)), c), s))
                       EXCEPT !.due = FALSE, !.dog = 0]
     \/ /\ ~fw.due
        /\ fw' = [Heal(Console(Silence(fw), c)) EXCEPT !.dog = 0]

Pass == Loop(Nothing) /\ UNCHANGED age

Serve(c) == Loop(c) /\ age' = 0

\* Time passes; without a pass for too long IWatchdog resets the controller.
Aged == age' = IF age > StopAge THEN age ELSE age + 1

FwTick ==
  /\ \/ fw.boot > 0 /\ fw' = [fw EXCEPT !.boot = @ - 1]
     \/ /\ fw.boot = 0 /\ (~fw.due \/ "hang" \in Disturbances)
        /\ fw' = IF fw.dog < WatchdogTime THEN Older(fw) ELSE Boot(BootTime)
  /\ Aged

\* A brown-out or a flash of the firmware.
Reset ==
  /\ "reset" \in Disturbances
  /\ fw' = Boot(BootTime)
  /\ UNCHANGED age

FwInit == fw = Boot(0) /\ age = StopAge + 1

FwNext == Pass \/ (\E c \in Commands : Serve(c)) \/ FwTick \/ Reset

FwSpec == FwInit /\ [][FwNext]_fwVars /\ WF_fwVars(Pass) /\ WF_fwVars(FwTick)
----------------------------------------------------------------------------
(* Properties.                                                             *)

FwState ==
  [wheels: BOOLEAN, blade: BOOLEAN, outWheels: BOOLEAN, outBlade: BOOLEAN,
   quiet: 0..(MotorTimeout + 1), ticks: Nat, bumper: BOOLEAN, mowFault: BOOLEAN,
   overload: BOOLEAN, permanent: BOOLEAN, count: 0..6, heal: 0..(HealMax + 1),
   window: 0..(OverloadWindow + 1), due: BOOLEAN, dog: 0..WatchdogTime,
   boot: 0..BootTime]

FwTypeOK == fw \in FwState /\ age \in 0..(StopAge + 1)

\* Whatever the computer sends or ceases to send, and however long the
\* controller hangs before its watchdog acts: when no motor command has been
\* obeyed for StopAge units, wheels and blade are off.
SilenceStopsMotors == age > StopAge => ~fw.outWheels /\ ~fw.outBlade

\* A permanent fault is never healed: the cut-out stays until a reset, and with
\* it the wheels' settings are taken in every control pass.
PermanentHolds == fw.permanent => fw.overload

\* An overload ends: sampled again and again during the cut-out it becomes a
\* permanent fault before the window of its count is over.
OverloadEnds == fw.overload ~> (~fw.overload \/ fw.permanent)
=============================================================================
