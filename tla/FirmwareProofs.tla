--------------------------- MODULE FirmwareProofs ---------------------------
(***************************************************************************)
(* Theorems about the motor controller, alone and in the whole of          *)
(* AlfredLink: whatever the computer does and whatever becomes of the      *)
(* frames, silence stops the motors, and a permanent fault stays; ticks    *)
(* are reported once, a silent controller is noticed, and a bumper that    *)
(* stays pressed stops the motors.                                         *)
(***************************************************************************)
EXTENDS AlfredLink, SequenceTheorems, TLAPS

\* Settings still on are no older than the timeout and the time since the last
\* pass; outputs still on may be older by the longest time between two passes.
Fresh(f, a) ==
  /\ f.quiet <= MotorTimeout => a = f.quiet
  /\ f.wheels \/ f.blade => a <= MotorTimeout + f.dog
  /\ f.outWheels \/ f.outBlade => a <= MotorTimeout + WatchdogTime + f.dog
  /\ ~f.due => f.dog = 0
  /\ f.boot > 0 => /\ ~f.wheels /\ ~f.blade /\ ~f.outWheels /\ ~f.outBlade
                   /\ f.quiet = MotorTimeout + 1

FwInv == FwTypeOK /\ Fresh(fw, age) /\ PermanentHolds

LEMMA HealMaxType == HealMax \in Nat /\ ShortRecovery <= HealMax /\ LongRecovery <= HealMax
BY FirmwareAssumption DEF HealMax

LEMMA StopAgeType == StopAge \in Nat /\ StopAge = MotorTimeout + 2 * WatchdogTime
BY FirmwareAssumption DEF StopAge

\* motor() and mower() turn settings into outputs and touch nothing else.
LEMMA DriveType ==
  ASSUME NEW f \in FwState
  PROVE  /\ Drive(f) \in FwState
         /\ Drive(f).wheels => f.wheels
         /\ Drive(f).blade = f.blade
         /\ Drive(f).outWheels => f.wheels
         /\ Drive(f).outBlade = f.blade
         /\ Drive(f).quiet = f.quiet /\ Drive(f).boot = f.boot
         /\ Drive(f).dog = f.dog /\ Drive(f).due = f.due
         /\ Drive(f).overload = f.overload /\ Drive(f).permanent = f.permanent
BY ZenonT(60) DEF Drive, FwState

\* The timeout leaves settings on only while it has not passed.
LEMMA SilenceType ==
  ASSUME NEW f \in FwState
  PROVE  /\ Silence(f) \in FwState
         /\ Silence(f).wheels => f.wheels /\ f.quiet <= MotorTimeout
         /\ Silence(f).blade => f.blade /\ f.quiet <= MotorTimeout
         /\ Silence(f).outWheels = f.outWheels /\ Silence(f).outBlade = f.outBlade
         /\ Silence(f).quiet = f.quiet /\ Silence(f).boot = f.boot
         /\ Silence(f).dog = f.dog /\ Silence(f).due = f.due
         /\ Silence(f).overload = f.overload /\ Silence(f).permanent = f.permanent
<1>1. CASE f.quiet > MotorTimeout
  <2>1. Silence(f) = [f EXCEPT !.wheels = FALSE, !.blade = FALSE]
    BY <1>1 DEF Silence
  <2>2. [f EXCEPT !.wheels = FALSE, !.blade = FALSE] \in FwState
    BY DEF FwState
  <2>3. ~Silence(f).wheels /\ ~Silence(f).blade
    BY <2>1 DEF FwState
  <2>4. /\ Silence(f).outWheels = f.outWheels /\ Silence(f).outBlade = f.outBlade
        /\ Silence(f).quiet = f.quiet /\ Silence(f).boot = f.boot
        /\ Silence(f).dog = f.dog /\ Silence(f).due = f.due
        /\ Silence(f).overload = f.overload /\ Silence(f).permanent = f.permanent
    BY <2>1 DEF FwState
  <2> QED BY <2>1, <2>2, <2>3, <2>4
<1>2. CASE ~(f.quiet > MotorTimeout)
  <2>1. Silence(f) = f
    BY <1>2 DEF Silence
  <2>2. f.quiet <= MotorTimeout
    BY <1>2, FirmwareAssumption DEF FwState
  <2> QED BY <2>1, <2>2
<1> QED BY <1>1, <1>2

LEMMA ObeyType ==
  ASSUME NEW f \in FwState, NEW c \in Commands
  PROVE  /\ Obey(f, c) \in FwState
         /\ Obey(f, c).quiet = 0
         /\ Obey(f, c).outWheels = f.outWheels /\ Obey(f, c).outBlade = f.outBlade
         /\ Obey(f, c).boot = f.boot /\ Obey(f, c).dog = f.dog
         /\ Obey(f, c).due = f.due
         /\ Obey(f, c).overload = f.overload /\ Obey(f, c).permanent = f.permanent
<1>1. c.wheels \in BOOLEAN /\ c.blade \in BOOLEAN
  BY DEF Commands
<1>2. Obey(f, c) \in FwState
  <2>1. 0 \in 0..(MotorTimeout + 1)
    BY FirmwareAssumption
  <2>2. ASSUME NEW w \in BOOLEAN, NEW b \in BOOLEAN
        PROVE  [f EXCEPT !.wheels = w, !.blade = b, !.quiet = 0, !.ticks = 0] \in FwState
    BY <2>1 DEF FwState
  <2> QED BY <1>1, <2>2 DEF Obey
<1>3. Obey(f, c).quiet = 0
  BY DEF Obey, FwState
<1>4. /\ Obey(f, c).outWheels = f.outWheels /\ Obey(f, c).outBlade = f.outBlade
      /\ Obey(f, c).boot = f.boot /\ Obey(f, c).dog = f.dog
      /\ Obey(f, c).due = f.due
      /\ Obey(f, c).overload = f.overload /\ Obey(f, c).permanent = f.permanent
  BY DEF Obey, FwState
<1> QED BY <1>2, <1>3, <1>4

\* The sensors never touch motors or deadlines, except for the overload.
LEMMA OvercurrentType ==
  ASSUME NEW f \in FwState
  PROVE  /\ Overcurrent(f) \in FwState
         /\ Overcurrent(f).overload
         /\ Overcurrent(f).wheels = f.wheels /\ Overcurrent(f).blade = f.blade
         /\ Overcurrent(f).outWheels = f.outWheels
         /\ Overcurrent(f).outBlade = f.outBlade
         /\ Overcurrent(f).quiet = f.quiet /\ Overcurrent(f).boot = f.boot
         /\ Overcurrent(f).dog = f.dog /\ Overcurrent(f).due = f.due
<1> DEFINE fresh == f.window > OverloadWindow
           n     == (IF fresh THEN 0 ELSE f.count) + 1
           w     == IF fresh THEN 0 ELSE f.window
           k     == IF n > 6 THEN 6 ELSE n
           p     == f.permanent \/ n > 5
           t     == (IF n <= 3 THEN ShortRecovery ELSE LongRecovery) + 1
<1>1. Overcurrent(f) = [f EXCEPT !.window = w, !.count = k, !.permanent = p,
                                 !.overload = TRUE, !.heal = t]
  BY DEF Overcurrent
<1>2. f.window \in 0..(OverloadWindow + 1) /\ f.count \in 0..6
  BY DEF FwState
<1>3. w \in 0..(OverloadWindow + 1)
  BY <1>2, FirmwareAssumption
<1>4. k \in 0..6
  BY <1>2
<1>5. t \in 0..(HealMax + 1)
  BY HealMaxType, FirmwareAssumption
<1>6. p \in BOOLEAN
  BY DEF FwState
<1> HIDE DEF w, k, p, t
<1>7. [f EXCEPT !.window = w, !.count = k, !.permanent = p,
                !.overload = TRUE, !.heal = t] \in FwState
  BY <1>3, <1>4, <1>5, <1>6 DEF FwState
<1>8. Overcurrent(f).overload
  BY <1>1 DEF FwState
<1>9. /\ Overcurrent(f).wheels = f.wheels /\ Overcurrent(f).blade = f.blade
      /\ Overcurrent(f).outWheels = f.outWheels
      /\ Overcurrent(f).outBlade = f.outBlade
      /\ Overcurrent(f).quiet = f.quiet /\ Overcurrent(f).boot = f.boot
      /\ Overcurrent(f).dog = f.dog /\ Overcurrent(f).due = f.due
  BY <1>1 DEF FwState
<1> QED BY <1>1, <1>7, <1>8, <1>9

LEMMA SenseType ==
  ASSUME NEW f \in FwState, NEW s \in Readings, f.permanent => f.overload
  PROVE  /\ Sense(f, s) \in FwState
         /\ Sense(f, s).permanent => Sense(f, s).overload
         /\ Sense(f, s).wheels = f.wheels /\ Sense(f, s).blade = f.blade
         /\ Sense(f, s).outWheels = f.outWheels
         /\ Sense(f, s).outBlade = f.outBlade
         /\ Sense(f, s).quiet = f.quiet /\ Sense(f, s).boot = f.boot
         /\ Sense(f, s).dog = f.dog /\ Sense(f, s).due = f.due
<1> DEFINE g == [f EXCEPT !.bumper = s.bumper,
                          !.mowFault = s.pin /\ (f.blade \/ f.outBlade)]
<1>1. /\ g \in FwState
      /\ g.permanent = f.permanent /\ g.overload = f.overload
      /\ g.wheels = f.wheels /\ g.blade = f.blade
      /\ g.outWheels = f.outWheels /\ g.outBlade = f.outBlade
      /\ g.quiet = f.quiet /\ g.boot = f.boot /\ g.dog = f.dog /\ g.due = f.due
  BY DEF FwState, Readings
<1>2. Sense(f, s) = IF s.current THEN Overcurrent(g) ELSE g
  BY DEF Sense
<1> HIDE DEF g
<1>3. CASE s.current
  BY <1>1, <1>2, <1>3, OvercurrentType
<1>4. CASE ~s.current
  BY <1>1, <1>2, <1>4
<1> QED BY <1>3, <1>4

LEMMA HealType ==
  ASSUME NEW f \in FwState, f.permanent => f.overload
  PROVE  /\ Heal(f) \in FwState
         /\ Heal(f).permanent => Heal(f).overload
         /\ Heal(f).wheels = f.wheels /\ Heal(f).blade = f.blade
         /\ Heal(f).outWheels = f.outWheels /\ Heal(f).outBlade = f.outBlade
         /\ Heal(f).quiet = f.quiet /\ Heal(f).boot = f.boot
         /\ Heal(f).dog = f.dog /\ Heal(f).due = f.due
BY DEF Heal, FwState

LEMMA BootType ==
  ASSUME NEW n \in 0..BootTime, NEW a \in 0..(StopAge + 1)
  PROVE  Boot(n) \in FwState /\ Fresh(Boot(n), a) /\ ~Boot(n).permanent
BY FirmwareAssumption, StopAgeType, HealMaxType DEF Boot, FwState, Fresh

\* After a pass the settings on are within the timeout; the outputs on come
\* from settings that were on before it.
LEMMA LoopKeepsInv ==
  ASSUME FwInv, NEW c \in Commands \cup {Nothing}, Loop(c),
         (c = Nothing /\ age' = age) \/ (c \in Commands /\ age' = 0)
  PROVE  FwInv'
<1> USE DEF FwInv, FwTypeOK, PermanentHolds
<1>1. fw.boot = 0
  BY DEF Loop
<1>n. Nothing \notin Commands
  BY DEF Nothing, Commands
<1>a. age' \in 0..(StopAge + 1) /\ StopAge \in Nat
  BY StopAgeType
<1>c. ASSUME NEW f \in FwState
      PROVE  /\ Console(f, c) \in FwState
             /\ Console(f, c).outWheels = f.outWheels
             /\ Console(f, c).outBlade = f.outBlade
             /\ Console(f, c).boot = f.boot /\ Console(f, c).dog = f.dog
             /\ Console(f, c).due = f.due
             /\ Console(f, c).overload = f.overload
             /\ Console(f, c).permanent = f.permanent
             /\ c = Nothing => Console(f, c) = f
             /\ c # Nothing => Console(f, c).quiet = 0
  BY ObeyType DEF Console
<1>2. CASE fw.due /\ \E s \in Readings :
             fw' = [Heal(Sense(Console(Silence(Drive(fw)), c), s))
                      EXCEPT !.due = FALSE, !.dog = 0]
  <2>1. PICK s \in Readings :
           fw' = [Heal(Sense(Console(Silence(Drive(fw)), c), s))
                    EXCEPT !.due = FALSE, !.dog = 0]
    BY <1>2
  <2> DEFINE d == Drive(fw)
             i == Silence(d)
             o == Console(i, c)
             h == Heal(Sense(o, s))
  <2>2. d \in FwState /\ i \in FwState /\ o \in FwState
    BY DriveType, SilenceType, <1>c
  <2>3. o.permanent => o.overload
    BY DriveType, SilenceType, <1>c, <2>2
  <2>4. /\ h \in FwState /\ (h.permanent => h.overload)
        /\ h.wheels = o.wheels /\ h.blade = o.blade
        /\ h.outWheels = o.outWheels /\ h.outBlade = o.outBlade
        /\ h.quiet = o.quiet /\ h.boot = o.boot
    BY SenseType, HealType, <2>2, <2>3
  <2>5. /\ (o.outWheels => fw.wheels) /\ (o.outBlade => fw.blade)
        /\ o.boot = 0
    BY DriveType, SilenceType, <1>c, <1>1, <2>2
  <2>6. c = Nothing => /\ o.wheels \/ o.blade => fw.quiet <= MotorTimeout
                       /\ o.quiet = fw.quiet
    BY DriveType, SilenceType, <1>c, <2>2
  <2>7. c # Nothing => o.quiet = 0
    BY <1>c, <2>2
  <2>8. fw' = [h EXCEPT !.due = FALSE, !.dog = 0]
    BY <2>1
  <2> HIDE DEF h, o, i, d
  <2>9. /\ fw' \in FwState /\ (fw'.permanent => fw'.overload)
        /\ fw'.wheels = o.wheels /\ fw'.blade = o.blade
        /\ fw'.outWheels = o.outWheels /\ fw'.outBlade = o.outBlade
        /\ fw'.quiet = o.quiet /\ fw'.boot = 0 /\ fw'.due = FALSE /\ fw'.dog = 0
    <3>1. 0 \in 0..WatchdogTime
      BY FirmwareAssumption
    <3>2. fw' \in FwState
      BY <3>1, <2>4, <2>8 DEF FwState
    <3>3. /\ fw'.permanent = h.permanent /\ fw'.overload = h.overload
          /\ fw'.wheels = h.wheels /\ fw'.blade = h.blade
          /\ fw'.outWheels = h.outWheels /\ fw'.outBlade = h.outBlade
          /\ fw'.quiet = h.quiet /\ fw'.boot = h.boot
          /\ fw'.due = FALSE /\ fw'.dog = 0
      BY <2>4, <2>8 DEF FwState
    <3> QED BY <3>2, <3>3, <2>4, <2>5
  <2>10. Fresh(fw', age')
    <3>1. CASE c = Nothing
      BY FirmwareAssumption, <2>5, <2>6, <2>9, <1>n, <3>1 DEF Fresh, FwState
    <3>2. CASE c # Nothing
      BY FirmwareAssumption, <2>7, <2>9, <3>2 DEF Fresh, FwState
    <3> QED BY <3>1, <3>2
  <2> QED BY <1>1, <1>a, <2>9, <2>10
<1>3. CASE ~fw.due /\ fw' = [Heal(Console(Silence(fw), c)) EXCEPT !.dog = 0]
  <2> DEFINE i == Silence(fw)
             o == Console(i, c)
             h == Heal(o)
  <2>2. i \in FwState /\ o \in FwState /\ (o.permanent => o.overload)
    BY SilenceType, <1>c
  <2>4. /\ h \in FwState /\ (h.permanent => h.overload)
        /\ h.wheels = o.wheels /\ h.blade = o.blade
        /\ h.outWheels = fw.outWheels /\ h.outBlade = fw.outBlade
        /\ h.quiet = o.quiet /\ h.boot = 0 /\ h.due = FALSE
    BY SilenceType, HealType, <1>c, <1>1, <1>3, <2>2 DEF FwState
  <2>6. c = Nothing => /\ o.wheels \/ o.blade => fw.quiet <= MotorTimeout
                       /\ o.quiet = fw.quiet
    BY SilenceType, <1>c, <2>2
  <2>7. c # Nothing => o.quiet = 0
    BY <1>c, <2>2
  <2>8. fw' = [h EXCEPT !.dog = 0]
    BY <1>3
  <2> HIDE DEF h, o, i
  <2>9. /\ fw' \in FwState /\ (fw'.permanent => fw'.overload)
        /\ fw'.wheels = o.wheels /\ fw'.blade = o.blade
        /\ fw'.outWheels = fw.outWheels /\ fw'.outBlade = fw.outBlade
        /\ fw'.quiet = o.quiet /\ fw'.boot = 0 /\ fw'.due = FALSE /\ fw'.dog = 0
    BY FirmwareAssumption, <2>4, <2>8 DEF FwState
  <2>10. Fresh(fw', age')
    <3>1. CASE c = Nothing
      BY FirmwareAssumption, <1>3, <2>6, <2>9, <1>n, <3>1 DEF Fresh, FwState
    <3>2. CASE c # Nothing
      BY FirmwareAssumption, <2>7, <2>9, <3>2 DEF Fresh, FwState
    <3> QED BY <3>1, <3>2
  <2> QED BY <1>1, <1>a, <2>9, <2>10
<1> QED BY <1>2, <1>3 DEF Loop

\* A unit of time brings every age nearer to its bound by one, and the watchdog
\* acts before the bound is passed.
LEMMA TickKeepsInv ==
  ASSUME FwInv, FwTick
  PROVE  FwInv'
<1> USE DEF FwInv, FwTypeOK, PermanentHolds
<1>1. age' \in 0..(StopAge + 1) /\ age' <= age + 1
  BY StopAgeType DEF FwTick, Aged
<1>2. CASE fw.boot > 0 /\ fw' = [fw EXCEPT !.boot = @ - 1]
  BY FirmwareAssumption, <1>1, <1>2 DEF FwState, Fresh
<1>3. CASE fw.boot = 0 /\ fw.dog < WatchdogTime /\ fw' = Older(fw)
  <2> DEFINE quiet  == IF fw.quiet > MotorTimeout THEN fw.quiet ELSE fw.quiet + 1
             heal   == IF fw.heal = 0 THEN 0 ELSE fw.heal - 1
             window == IF fw.window > OverloadWindow THEN fw.window ELSE fw.window + 1
             ticks  == IF fw.outWheels THEN fw.ticks + 1 ELSE fw.ticks
             dog    == fw.dog + 1
             next   == [fw EXCEPT !.quiet = quiet, !.heal = heal, !.window = window,
                                  !.ticks = ticks, !.due = TRUE, !.dog = dog]
  <2>a. fw' = next
    BY <1>3 DEF Older
  <2>b. quiet \in 0..(MotorTimeout + 1) /\ window \in 0..(OverloadWindow + 1)
    BY FirmwareAssumption DEF FwState
  <2>c. heal \in 0..(HealMax + 1)
    BY HealMaxType DEF FwState
  <2>d. ticks \in Nat /\ dog \in 0..WatchdogTime
    BY FirmwareAssumption, <1>3 DEF FwState
  <2>1. fw' \in FwState /\ (fw'.permanent => fw'.overload)
    <3> HIDE DEF quiet, heal, window, ticks, dog
    <3>1. next \in FwState
      BY <2>b, <2>c, <2>d DEF FwState
    <3>2. next.permanent = fw.permanent /\ next.overload = fw.overload
      BY DEF FwState
    <3> QED BY <2>a, <3>1, <3>2
  <2>2. /\ fw'.dog = fw.dog + 1 /\ fw'.due /\ fw'.boot = 0
        /\ fw'.wheels = fw.wheels /\ fw'.blade = fw.blade
        /\ fw'.outWheels = fw.outWheels /\ fw'.outBlade = fw.outBlade
        /\ fw'.quiet = IF fw.quiet > MotorTimeout THEN fw.quiet ELSE fw.quiet + 1
    BY <1>3 DEF Older, FwState
  <2>3. fw.quiet <= MotorTimeout => age' = age + 1
    BY FirmwareAssumption, StopAgeType DEF FwTick, Aged, Fresh, FwState
  <2>4. Fresh(fw', age')
    BY FirmwareAssumption, <1>1, <2>2, <2>3 DEF Fresh, FwState
  <2> QED BY <1>1, <2>1, <2>4
<1>4. CASE fw' = Boot(BootTime)
  BY FirmwareAssumption, <1>1, <1>4, BootType
<1> QED BY <1>2, <1>3, <1>4 DEF FwTick

LEMMA StepKeepsInv == FwInv /\ [FwNext]_fwVars => FwInv'
<1> SUFFICES ASSUME FwInv, [FwNext]_fwVars PROVE FwInv'
  OBVIOUS
<1>1. CASE Pass
  BY <1>1, LoopKeepsInv DEF Pass
<1>2. CASE \E c \in Commands : Serve(c)
  BY <1>2, LoopKeepsInv DEF Serve
<1>3. CASE FwTick
  BY <1>3, TickKeepsInv
<1>4. CASE Reset
  BY FirmwareAssumption, <1>4, BootType DEF Reset, FwInv, FwTypeOK, PermanentHolds
<1>5. CASE UNCHANGED fwVars
  BY <1>5 DEF fwVars, FwInv, FwTypeOK, PermanentHolds
<1> QED BY <1>1, <1>2, <1>3, <1>4, <1>5 DEF FwNext

LEMMA InitInv == FwInit => FwInv
BY FirmwareAssumption, StopAgeType, BootType DEF FwInit, FwInv, FwTypeOK, PermanentHolds

LEMMA InvStops == FwInv => SilenceStopsMotors
BY FirmwareAssumption, StopAgeType DEF FwInv, FwTypeOK, Fresh, FwState, SilenceStopsMotors

\* The controller's variables keep their types.
THEOREM FirmwareTypeCorrect == FwSpec => []FwTypeOK
<1>1. FwInv => FwTypeOK
  BY DEF FwInv
<1> QED BY <1>1, InitInv, StepKeepsInv, PTL DEF FwSpec

\* Without commands the motors are off after the timeout and at most two hangs,
\* whatever was commanded before and whatever the sensors show.
THEOREM SilenceAlwaysStops == FwSpec => []SilenceStopsMotors
<1> QED BY InvStops, InitInv, StepKeepsInv, PTL DEF FwSpec

\* A permanent fault keeps the cut-out until a reset.
THEOREM PermanentStays == FwSpec => []PermanentHolds
<1>1. FwInv => PermanentHolds
  BY DEF FwInv
<1> QED BY <1>1, InitInv, StepKeepsInv, PTL DEF FwSpec

\* Every step of the composed system is a step of the controller or leaves it
\* alone.
LEMMA LinkStepIsFirmwareStep == [Next]_vars => [FwNext]_fwVars
<1> SUFFICES ASSUME [Next]_vars PROVE [FwNext]_fwVars
  OBVIOUS
<1>1. CASE Cycle \/ Leave \/ Crash \/ Restart \/ LoseCommand \/ LoseAnswer
  BY <1>1 DEF Cycle, Leave, Crash, Restart, LoseCommand, LoseAnswer, fwVars
<1>2. CASE McuPass \/ McuSummary
  BY <1>2 DEF McuPass, McuSummary, FwNext
<1>3. CASE McuMotor
  BY <1>3 DEF McuMotor, FwNext
<1>4. CASE McuReset \/ Tick
  BY <1>4 DEF McuReset, Tick, FwNext
<1>5. CASE UNCHANGED vars
  BY <1>5 DEF vars, fwVars
<1> QED BY <1>1, <1>2, <1>3, <1>4, <1>5 DEF Next

\* In the composed system, too, whatever the computer does - crash, leave, be
\* late - and whatever frames are lost, silence stops the motors.
THEOREM LinkSilenceStops == Spec => []SilenceStopsMotors
<1>1. Init => FwInv
  BY InitInv DEF Init
<1>2. FwInv /\ [Next]_vars => FwInv'
  BY StepKeepsInv, LinkStepIsFirmwareStep
<1> QED BY <1>1, <1>2, InvStops, PTL DEF Spec
----------------------------------------------------------------------------
(* The folds over the frames: the buffers hold two at most.                *)

LEMMA MaxOfTwo ==
  ASSUME NEW s \in SUBSET {1, 2}
  PROVE  /\ 2 \in s => Max(s) = 2
         /\ 2 \notin s /\ 1 \in s => Max(s) = 1
         /\ 2 \notin s /\ 1 \notin s => s = {}
<1>0. ASSUME NEW m \in s, \A y \in s : m >= y PROVE Max(s) = m
  <2>1. \A x \in s : (\A y \in s : x >= y) => x = m
    <3> SUFFICES ASSUME NEW x \in s, \A y \in s : x >= y PROVE x = m
      OBVIOUS
    <3>1. m \in Int /\ x \in Int /\ m >= x /\ x >= m
      BY <1>0
    <3> QED BY <3>1
  <2> QED BY <1>0, <2>1 DEF Max
<1>1. ASSUME 2 \in s PROVE Max(s) = 2
  <2>1. \A y \in s : 2 >= y
    OBVIOUS
  <2> QED BY <1>0, <1>1, <2>1
<1>2. ASSUME 2 \notin s, 1 \in s PROVE Max(s) = 1
  <2>1. \A y \in s : 1 >= y
    BY <1>2
  <2> QED BY <1>0, <1>2, <2>1
<1> QED BY <1>1, <1>2

LEMMA PollTwo ==
  ASSUME NEW d, NEW frames, DOMAIN frames \in SUBSET {1, 2}
  PROVE  PollRx(d, frames) =
           LET e == IF 1 \in DOMAIN frames THEN Dispatch(d, frames[1]) ELSE d
           IN  IF 2 \in DOMAIN frames THEN Dispatch(e, frames[2]) ELSE e
<1> DEFINE S == SUBSET (DOMAIN frames)
           Step(g, s) == IF s = {} THEN d
                         ELSE Dispatch(g[s \ {Max(s)}], frames[Max(s)])
           First(s) == IF 1 \in s THEN Dispatch(d, frames[1]) ELSE d
           w == [s \in S |-> IF 2 \in s THEN Dispatch(First(s), frames[2]) ELSE First(s)]
           g == CHOOSE h : h = [s \in S |-> Step(h, s)]
<1>1. PollRx(d, frames) = g[DOMAIN frames]
  BY DEF PollRx, FoldLeft, MapThenFoldSet
<1>2. w = [s \in S |-> Step(w, s)]
  <2>1. ASSUME NEW s \in S PROVE w[s] = Step(w, s)
    <3>1. CASE 2 \in s
      <4>1. s \ {2} \in S /\ 2 \notin s \ {2} /\ (1 \in s <=> 1 \in s \ {2})
        OBVIOUS
      <4> QED BY <3>1, <4>1, MaxOfTwo
    <3>2. CASE 2 \notin s /\ 1 \in s
      <4>1. s \ {1} \in S /\ 2 \notin s \ {1} /\ 1 \notin s \ {1}
        BY <3>2
      <4> QED BY <3>2, <4>1, MaxOfTwo
    <3>3. CASE 2 \notin s /\ 1 \notin s
      BY <3>3, MaxOfTwo
    <3> QED BY <3>1, <3>2, <3>3
  <2> QED BY <2>1
<1> HIDE DEF w
<1>3. g = [s \in S |-> Step(g, s)]
  BY <1>2
<1> HIDE DEF g
<1>4. ASSUME NEW s \in S, 2 \notin s PROVE g[s] = First(s)
  <2>1. CASE 1 \in s
    <3>1. s \ {1} \in S /\ s \ {1} = {}
      BY <1>4, MaxOfTwo
    <3> QED BY <1>3, <1>4, <2>1, <3>1, MaxOfTwo
  <2>2. CASE 1 \notin s
    BY <1>3, <1>4, <2>2, MaxOfTwo
  <2> QED BY <2>1, <2>2
<1>5. CASE 2 \in DOMAIN frames
  <2>1. DOMAIN frames \ {2} \in S /\ 2 \notin DOMAIN frames \ {2}
    OBVIOUS
  <2>2. g[DOMAIN frames] = Dispatch(g[DOMAIN frames \ {2}], frames[2])
    BY <1>3, <1>5, MaxOfTwo
  <2> QED BY <1>1, <1>4, <1>5, <2>1, <2>2
<1>6. CASE 2 \notin DOMAIN frames
  BY <1>1, <1>4, <1>6
<1> QED BY <1>5, <1>6
LEMMA TicksTwo ==
  ASSUME NEW frames, DOMAIN frames \in SUBSET {1, 2},
         \A i \in DOMAIN frames : TicksOf(frames[i]) \in Nat
  PROVE  TicksIn(frames) =
           (IF 1 \in DOMAIN frames THEN TicksOf(frames[1]) ELSE 0)
           + (IF 2 \in DOMAIN frames THEN TicksOf(frames[2]) ELSE 0)
<1> DEFINE S == SUBSET (DOMAIN frames)
           Step(g, s) == IF s = {} THEN 0
                         ELSE g[s \ {Max(s)}] + TicksOf(frames[Max(s)])
           First(s) == IF 1 \in s THEN 0 + TicksOf(frames[1]) ELSE 0
           w == [s \in S |-> IF 2 \in s THEN First(s) + TicksOf(frames[2]) ELSE First(s)]
           g == CHOOSE h : h = [s \in S |-> Step(h, s)]
<1>1. TicksIn(frames) = g[DOMAIN frames]
  BY DEF TicksIn, FoldLeft, MapThenFoldSet
<1>2. w = [s \in S |-> Step(w, s)]
  <2>1. ASSUME NEW s \in S PROVE w[s] = Step(w, s)
    <3>1. CASE 2 \in s
      <4>1. s \ {2} \in S /\ 2 \notin s \ {2} /\ (1 \in s <=> 1 \in s \ {2})
        OBVIOUS
      <4> QED BY <3>1, <4>1, MaxOfTwo
    <3>2. CASE 2 \notin s /\ 1 \in s
      <4>1. s \ {1} \in S /\ 2 \notin s \ {1} /\ 1 \notin s \ {1}
        BY <3>2
      <4> QED BY <3>2, <4>1, MaxOfTwo
    <3>3. CASE 2 \notin s /\ 1 \notin s
      BY <3>3, MaxOfTwo
    <3> QED BY <3>1, <3>2, <3>3
  <2> QED BY <2>1
<1> HIDE DEF w
<1>3. g = [s \in S |-> Step(g, s)]
  BY <1>2
<1> HIDE DEF g
<1>4. ASSUME NEW s \in S, 2 \notin s PROVE g[s] = First(s)
  <2>1. CASE 1 \in s
    <3>1. s \ {1} \in S /\ s \ {1} = {} /\ s # {} /\ Max(s) = 1
      BY <1>4, <2>1, MaxOfTwo
    <3>2. g[s \ {1}] = 0
      BY <1>3, <3>1
    <3>3. g[s] = g[s \ {1}] + TicksOf(frames[1])
      BY <1>3, <3>1
    <3> QED BY <2>1, <3>2, <3>3
  <2>2. CASE 1 \notin s
    BY <1>3, <1>4, <2>2, MaxOfTwo
  <2> QED BY <2>1, <2>2
<1>5. CASE 2 \in DOMAIN frames
  <2>1. DOMAIN frames \ {2} \in S /\ 2 \notin DOMAIN frames \ {2}
    OBVIOUS
  <2>2. g[DOMAIN frames] = g[DOMAIN frames \ {2}] + TicksOf(frames[2])
    BY <1>3, <1>5, MaxOfTwo
  <2>3. g[DOMAIN frames \ {2}] = IF 1 \in DOMAIN frames THEN TicksOf(frames[1]) ELSE 0
    <3>1. g[DOMAIN frames \ {2}] = First(DOMAIN frames \ {2})
      BY <1>4, <2>1
    <3>2. 1 \in DOMAIN frames \ {2} <=> 1 \in DOMAIN frames
      OBVIOUS
    <3> QED BY <3>1, <3>2
  <2> QED BY <1>1, <1>5, <2>2, <2>3
<1>6. CASE 2 \notin DOMAIN frames
  BY <1>1, <1>4, <1>6
<1> QED BY <1>5, <1>6
----------------------------------------------------------------------------
(* The driver in its cycle.                                                *)

Drivers ==
  [wheels: BOOLEAN, blade: BOOLEAN, ramp: 0..RampSteps, connected: BOOLEAN,
   reset: BOOLEAN, unread: Nat, rx: BOOLEAN, console: 0..ConsolePeriod,
   summary: 0..SummaryPeriod, bumper: BOOLEAN, fast: BOOLEAN, slow: BOOLEAN,
   fault: BOOLEAN, shutdown: BOOLEAN, grace: 0..Grace]
CommandFrames == [kind: {"M"}, wheels: BOOLEAN, blade: BOOLEAN] \cup {Summary}
AnswerFrames  == [kind: {"M"}, ticks: Nat, bumper: BOOLEAN, overload: BOOLEAN]
                 \cup [kind: {"S"}, bumper: BOOLEAN, fault: BOOLEAN]

\* A motor answer is among the frames.
Answered(frames) == \E i \in DOMAIN frames : frames[i].kind = "M"

\* What no frame changes.
Apart(d, e) ==
  /\ e.wheels = d.wheels /\ e.blade = d.blade /\ e.ramp = d.ramp
  /\ e.reset = d.reset /\ e.console = d.console /\ e.summary = d.summary
  /\ e.shutdown = d.shutdown /\ e.grace = d.grace

LEMMA TicksOfType == ASSUME NEW f \in AnswerFrames PROVE TicksOf(f) \in Nat
BY DEF AnswerFrames, TicksOf

LEMMA DispatchType ==
  ASSUME NEW d \in Drivers, NEW f \in AnswerFrames
  PROVE  /\ Dispatch(d, f) \in Drivers /\ Apart(d, Dispatch(d, f))
         /\ Dispatch(d, f).bumper = f.bumper
         /\ Dispatch(d, f).connected = (d.connected \/ f.kind = "M")
         /\ Dispatch(d, f).rx = (d.rx \/ f.kind = "M")
         /\ Dispatch(d, f).unread = d.unread + TicksOf(f)
<1>1. CASE f \in [kind: {"M"}, ticks: Nat, bumper: BOOLEAN, overload: BOOLEAN]
  <2>1. f.kind = "M" /\ f.ticks \in Nat /\ f.bumper \in BOOLEAN /\ f.overload \in BOOLEAN
    BY <1>1
  <2>2. Dispatch(d, f) = MotorFrame(d, f)
    BY <2>1 DEF Dispatch
  <2> DEFINE x == f.overload \/ d.slow
  <2>4. d.unread + f.ticks \in Nat /\ x \in BOOLEAN
    BY <2>1 DEF Drivers
  <2>5. MotorFrame(d, f) =
          [d EXCEPT !.unread = d.unread + f.ticks, !.bumper = f.bumper,
             !.fast = f.overload, !.fault = x, !.connected = TRUE, !.rx = TRUE]
    BY DEF MotorFrame
  <2> HIDE DEF x
  <2>6. /\ MotorFrame(d, f) \in Drivers /\ Apart(d, MotorFrame(d, f))
        /\ MotorFrame(d, f).unread = d.unread + f.ticks
        /\ MotorFrame(d, f).bumper = f.bumper
        /\ MotorFrame(d, f).connected = TRUE /\ MotorFrame(d, f).rx = TRUE
    <3>1. MotorFrame(d, f) \in Drivers
      BY <2>1, <2>4, <2>5 DEF Drivers
    <3>2. Apart(d, MotorFrame(d, f))
      BY <2>5 DEF Drivers, Apart
    <3>3. /\ MotorFrame(d, f).unread = d.unread + f.ticks
          /\ MotorFrame(d, f).bumper = f.bumper
          /\ MotorFrame(d, f).connected = TRUE /\ MotorFrame(d, f).rx = TRUE
      BY <2>5 DEF Drivers
    <3> QED BY <3>1, <3>2, <3>3
  <2>7. TicksOf(f) = f.ticks
    BY <2>1 DEF TicksOf
  <2> QED BY <2>1, <2>2, <2>6, <2>7
<1>2. CASE f \in [kind: {"S"}, bumper: BOOLEAN, fault: BOOLEAN]
  <2>1. f.kind = "S" /\ f.kind # "M" /\ f.bumper \in BOOLEAN /\ f.fault \in BOOLEAN
    BY <1>2
  <2>2. Dispatch(d, f) = SummaryFrame(d, f) /\ TicksOf(f) = 0
    BY <2>1 DEF Dispatch, TicksOf
  <2> DEFINE x == d.fast \/ f.fault
  <2>4. x \in BOOLEAN
    BY <2>1 DEF Drivers
  <2>5. SummaryFrame(d, f) =
          [d EXCEPT !.bumper = f.bumper, !.slow = f.fault, !.fault = x]
    BY DEF SummaryFrame
  <2> HIDE DEF x
  <2>6. /\ SummaryFrame(d, f) \in Drivers /\ Apart(d, SummaryFrame(d, f))
        /\ SummaryFrame(d, f).unread = d.unread
        /\ SummaryFrame(d, f).bumper = f.bumper
        /\ SummaryFrame(d, f).connected = d.connected
        /\ SummaryFrame(d, f).rx = d.rx
    <3>1. SummaryFrame(d, f) \in Drivers
      BY <2>1, <2>4, <2>5 DEF Drivers
    <3>2. Apart(d, SummaryFrame(d, f))
      BY <2>5 DEF Drivers, Apart
    <3>3. /\ SummaryFrame(d, f).unread = d.unread
          /\ SummaryFrame(d, f).bumper = f.bumper
          /\ SummaryFrame(d, f).connected = d.connected
          /\ SummaryFrame(d, f).rx = d.rx
      BY <2>5 DEF Drivers
    <3> QED BY <3>1, <3>2, <3>3
  <2>7. /\ d.unread + 0 = d.unread
        /\ d.connected = (d.connected \/ f.kind = "M")
        /\ d.rx = (d.rx \/ f.kind = "M")
    <3>1. d.unread \in Nat /\ d.connected \in BOOLEAN /\ d.rx \in BOOLEAN
      BY DEF Drivers
    <3> QED BY <2>1, <3>1
  <2> QED BY <2>2, <2>6, <2>7
<1> QED BY <1>1, <1>2 DEF AnswerFrames

\* What pollRx makes of at most two frames.
LEMMA PollType ==
  ASSUME NEW d \in Drivers, NEW frames \in Seq(AnswerFrames), Len(frames) <= 2
  PROVE  /\ PollRx(d, frames) \in Drivers /\ Apart(d, PollRx(d, frames))
         /\ frames = <<>> => PollRx(d, frames) = d
         /\ frames # <<>> => PollRx(d, frames).bumper = frames[Len(frames)].bumper
         /\ PollRx(d, frames).connected = (d.connected \/ Answered(frames))
         /\ PollRx(d, frames).rx = (d.rx \/ Answered(frames))
         /\ TicksIn(frames) \in Nat
         /\ PollRx(d, frames).unread = d.unread + TicksIn(frames)
         /\ ~Answered(frames) => TicksIn(frames) = 0
<1>0. /\ d.unread \in Nat /\ d.connected \in BOOLEAN /\ d.rx \in BOOLEAN
  BY DEF Drivers
<1>1. CASE Len(frames) = 0
  <2>1. frames = <<>> /\ DOMAIN frames = {}
    BY <1>1
  <2>2. PollRx(d, frames) = d /\ TicksIn(frames) = 0
    BY <2>1, PollTwo, TicksTwo
  <2>3. ~Answered(frames)
    BY <2>1 DEF Answered
  <2> QED BY <1>0, <2>1, <2>2, <2>3 DEF Apart
<1>2. CASE Len(frames) = 1
  <2>1. frames # <<>> /\ DOMAIN frames = {1} /\ frames[1] \in AnswerFrames
    BY <1>2
  <2>2. PollRx(d, frames) = Dispatch(d, frames[1])
    BY <2>1, PollTwo
  <2>3. TicksOf(frames[1]) \in Nat
    BY <2>1, TicksOfType
  <2>4. TicksIn(frames) = TicksOf(frames[1])
    BY <2>1, <2>3, TicksTwo
  <2>5. Answered(frames) <=> frames[1].kind = "M"
    BY <2>1 DEF Answered
  <2>6. ~Answered(frames) => TicksOf(frames[1]) = 0
    BY <2>5 DEF TicksOf
  <2> QED BY <1>0, <1>2, <2>1, <2>2, <2>3, <2>4, <2>5, <2>6, DispatchType
<1>3. CASE Len(frames) = 2
  <2> DEFINE e == Dispatch(d, frames[1])
  <2>1. /\ frames # <<>> /\ DOMAIN frames = {1, 2}
        /\ frames[1] \in AnswerFrames /\ frames[2] \in AnswerFrames
    BY SMTT(30), <1>3
  <2>2. PollRx(d, frames) = Dispatch(e, frames[2])
    BY <2>1, PollTwo
  <2>3. TicksOf(frames[1]) \in Nat /\ TicksOf(frames[2]) \in Nat
    BY <2>1, TicksOfType
  <2>4. TicksIn(frames) = TicksOf(frames[1]) + TicksOf(frames[2])
    <3>1. \A i \in DOMAIN frames : TicksOf(frames[i]) \in Nat
      BY <2>1, <2>3
    <3> QED BY <2>1, <3>1, TicksTwo
  <2>5. Answered(frames) <=> frames[1].kind = "M" \/ frames[2].kind = "M"
    BY <2>1 DEF Answered
  <2>6. ~Answered(frames) => TicksOf(frames[1]) = 0 /\ TicksOf(frames[2]) = 0
    BY <2>5 DEF TicksOf
  <2>7. /\ e \in Drivers /\ Apart(d, e)
        /\ e.connected = (d.connected \/ frames[1].kind = "M")
        /\ e.rx = (d.rx \/ frames[1].kind = "M")
        /\ e.unread = d.unread + TicksOf(frames[1])
    BY <2>1, DispatchType
  <2> HIDE DEF e
  <2>8. /\ Dispatch(e, frames[2]) \in Drivers /\ Apart(e, Dispatch(e, frames[2]))
        /\ Dispatch(e, frames[2]).bumper = frames[2].bumper
        /\ Dispatch(e, frames[2]).connected = (e.connected \/ frames[2].kind = "M")
        /\ Dispatch(e, frames[2]).rx = (e.rx \/ frames[2].kind = "M")
        /\ Dispatch(e, frames[2]).unread = e.unread + TicksOf(frames[2])
    BY <2>1, <2>7, DispatchType
  <2>9. Apart(d, Dispatch(e, frames[2]))
    BY <2>7, <2>8 DEF Apart
  <2>10. Dispatch(e, frames[2]).unread = d.unread + TicksIn(frames)
    BY <1>0, <2>3, <2>4, <2>7, <2>8
  <2>11. /\ Dispatch(e, frames[2]).connected = (d.connected \/ Answered(frames))
         /\ Dispatch(e, frames[2]).rx = (d.rx \/ Answered(frames))
    BY <1>0, <2>5, <2>7, <2>8
  <2>12. TicksIn(frames) \in Nat /\ (~Answered(frames) => TicksIn(frames) = 0)
    BY <2>3, <2>4, <2>6
  <2>13. /\ PollRx(d, frames) \in Drivers /\ Apart(d, PollRx(d, frames))
         /\ PollRx(d, frames).bumper = frames[Len(frames)].bumper
    BY <1>3, <2>2, <2>8, <2>9
  <2>14. /\ PollRx(d, frames).connected = (d.connected \/ Answered(frames))
         /\ PollRx(d, frames).rx = (d.rx \/ Answered(frames))
         /\ PollRx(d, frames).unread = d.unread + TicksIn(frames)
    BY <2>2, <2>10, <2>11
  <2> QED BY <2>1, <2>12, <2>13, <2>14
<1> QED
  <2>1. Len(frames) = 0 \/ Len(frames) = 1 \/ Len(frames) = 2
    <3>1. Len(frames) \in Nat /\ Len(frames) <= 2
      BY LenProperties
    <3>2. \A n \in Nat : n <= 2 => n = 0 \/ n = 1 \/ n = 2
      OBVIOUS
    <3> QED BY <3>1, <3>2
  <2> QED BY <1>1, <1>2, <1>3, <2>1

LEMMA RampType ==
  ASSUME NEW d \in Drivers
  PROVE  Ramp(d) \in Drivers
<1> DEFINE ramp == IF d.blade THEN Most(d.ramp + 1, RampSteps)
                              ELSE IF d.ramp = 0 THEN 0 ELSE d.ramp - 1
<1>1. ramp \in 0..RampSteps
  BY LinkAssumption DEF Drivers, Most
<1>2. Ramp(d) = [d EXCEPT !.ramp = ramp]
  BY DEF Ramp
<1> HIDE DEF ramp
<1> QED BY <1>1, <1>2 DEF Drivers

\* What SerialRobotDriver does in a cycle after it has read the frames.
LEMMA DriverCycle ==
  ASSUME NEW d \in Drivers, NEW n \in 0..SummaryPeriod, NEW c \in Commands
  PROVE  LET r == Ramp(d)
             l == LookForAnswers([r EXCEPT !.summary = n])
             e == SetMotorPwm(ReadOdometry(l), c)
             far == d.console < ConsolePeriod
         IN  /\ r \in Drivers /\ r.summary = d.summary /\ r.wheels = d.wheels
             /\ r.ramp = e.ramp
             /\ l \in Drivers /\ l.bumper = d.bumper /\ l.unread = d.unread
             /\ l.connected = (d.connected /\ (far \/ d.rx))
             /\ e \in Drivers /\ e.unread = 0 /\ e.bumper = d.bumper
             /\ e.connected = l.connected /\ e.rx = (d.rx /\ far)
             /\ e.console = IF far THEN d.console ELSE 0
             /\ e.ramp = IF d.blade THEN Most(d.ramp + 1, RampSteps)
                                    ELSE IF d.ramp = 0 THEN 0 ELSE d.ramp - 1
             /\ e.wheels = c.wheels /\ e.blade = c.blade
<1> DEFINE far == d.console < ConsolePeriod
           ramp == IF d.blade THEN Most(d.ramp + 1, RampSteps)
                              ELSE IF d.ramp = 0 THEN 0 ELSE d.ramp - 1
           r == Ramp(d)
           k == [r EXCEPT !.summary = n]
           l == LookForAnswers(k)
           o == ReadOdometry(l)
           e == SetMotorPwm(o, c)
<1>0. /\ ConsolePeriod \in Nat \ {0} /\ RampSteps \in Nat \ {0}
      /\ SummaryPeriod \in Nat \ {0} /\ 0 \in 0..ConsolePeriod
  BY LinkAssumption
<1>1. ramp \in 0..RampSteps
  BY <1>0 DEF Drivers, Most
<1>2. r = [d EXCEPT !.ramp = ramp]
  BY DEF Ramp
<1> HIDE DEF ramp, r
<1>3. /\ r \in Drivers /\ r.ramp = ramp
      /\ r.wheels = d.wheels /\ r.summary = d.summary /\ r.console = d.console
      /\ r.bumper = d.bumper /\ r.unread = d.unread
      /\ r.connected = d.connected /\ r.rx = d.rx
  <2>1. r \in Drivers
    BY RampType DEF r
  <2>2. r.ramp = ramp
    BY <1>2 DEF Drivers
  <2>3. /\ r.wheels = d.wheels /\ r.summary = d.summary /\ r.console = d.console
        /\ r.bumper = d.bumper /\ r.unread = d.unread
        /\ r.connected = d.connected /\ r.rx = d.rx
    BY <1>2 DEF Drivers
  <2> QED BY <2>1, <2>2, <2>3
<1>4. /\ k \in Drivers /\ k.ramp = ramp /\ k.console = d.console
      /\ k.bumper = d.bumper /\ k.unread = d.unread
      /\ k.connected = d.connected /\ k.rx = d.rx
  <2>1. k \in Drivers
    BY <1>3 DEF Drivers
  <2>2. /\ k.ramp = r.ramp /\ k.console = r.console
        /\ k.bumper = r.bumper /\ k.unread = r.unread
        /\ k.connected = r.connected /\ k.rx = r.rx
    BY <1>3 DEF Drivers
  <2> QED BY <1>3, <2>1, <2>2
<1> HIDE DEF k
<1>5. /\ l \in Drivers /\ l.ramp = ramp /\ l.bumper = d.bumper /\ l.unread = d.unread
      /\ l.connected = (d.connected /\ (far \/ d.rx)) /\ l.rx = (d.rx /\ far)
      /\ l.console = IF far THEN d.console ELSE 0
  <2>0. d.connected \in BOOLEAN /\ d.rx \in BOOLEAN /\ k.reset \in BOOLEAN
    BY <1>4 DEF Drivers
  <2>1. CASE far
    <3>1. l = k
      BY <1>4, <2>1 DEF LookForAnswers
    <3> QED BY <1>4, <2>0, <2>1, <3>1
  <2>2. CASE ~far
    <3> DEFINE on == k.connected /\ k.rx
               re == k.reset \/ ~k.rx
    <3>1. l = [k EXCEPT !.console = 0, !.rx = FALSE, !.connected = on, !.reset = re]
      BY <1>4, <2>2 DEF LookForAnswers
    <3>2. on \in BOOLEAN /\ re \in BOOLEAN
      OBVIOUS
    <3>3. on = (d.connected /\ (far \/ d.rx))
      BY <1>4, <2>0, <2>2
    <3> HIDE DEF on, re
    <3>4. l \in Drivers
      BY <1>0, <1>4, <3>1, <3>2 DEF Drivers
    <3>5. /\ l.ramp = k.ramp /\ l.bumper = k.bumper /\ l.unread = k.unread
          /\ l.connected = on /\ l.rx = FALSE /\ l.console = 0
      BY <1>4, <3>1 DEF Drivers
    <3> QED BY <1>4, <2>0, <2>2, <3>3, <3>4, <3>5
  <2> QED BY <2>1, <2>2
<1> HIDE DEF l
<1>6. /\ o \in Drivers /\ o.ramp = ramp /\ o.bumper = d.bumper /\ o.unread = 0
      /\ o.connected = l.connected /\ o.rx = l.rx /\ o.console = l.console
  <2> DEFINE re == ~l.connected
  <2>1. o = [l EXCEPT !.unread = 0, !.reset = re]
    BY DEF ReadOdometry
  <2>2. re \in BOOLEAN
    OBVIOUS
  <2> HIDE DEF re
  <2>3. o \in Drivers
    <3>1. l \in Drivers
      BY <1>5
    <3>2. o = [l EXCEPT !.unread = 0, !.reset = re] /\ re \in BOOLEAN /\ 0 \in Nat
      BY <2>1, <2>2
    <3> QED BY <3>1, <3>2 DEF Drivers
  <2>4. /\ o.ramp = l.ramp /\ o.bumper = l.bumper /\ o.unread = 0
        /\ o.connected = l.connected /\ o.rx = l.rx /\ o.console = l.console
    BY <1>5, <2>1 DEF Drivers
  <2> QED BY <1>5, <2>3, <2>4
<1> HIDE DEF o
<1>7. /\ e \in Drivers /\ e.ramp = o.ramp /\ e.bumper = o.bumper /\ e.unread = 0
      /\ e.connected = o.connected /\ e.rx = o.rx /\ e.console = o.console
      /\ e.wheels = c.wheels /\ e.blade = c.blade
  <2>1. e = [o EXCEPT !.wheels = c.wheels, !.blade = c.blade]
    BY DEF SetMotorPwm
  <2>2. c.wheels \in BOOLEAN /\ c.blade \in BOOLEAN
    BY DEF Commands
  <2>3. e \in Drivers
    BY <1>6, <2>1, <2>2 DEF Drivers
  <2>4. /\ e.ramp = o.ramp /\ e.bumper = o.bumper /\ e.unread = o.unread
        /\ e.connected = o.connected /\ e.rx = o.rx /\ e.console = o.console
    BY <1>6, <2>1 DEF Drivers
  <2>5. e.wheels = c.wheels
    BY <1>6, <2>1 DEF Drivers
  <2>6. e.blade = c.blade
    BY <1>6, <2>1 DEF Drivers
  <2> QED BY <1>6, <2>3, <2>4, <2>5, <2>6
<1> HIDE DEF e
<1>8. /\ r \in Drivers /\ r.summary = d.summary /\ r.wheels = d.wheels /\ r.ramp = e.ramp
      /\ e.unread = 0 /\ e.bumper = d.bumper
      /\ e.connected = l.connected /\ e.rx = (d.rx /\ far)
      /\ e.console = (IF far THEN d.console ELSE 0) /\ e.ramp = ramp
  BY <1>3, <1>5, <1>6, <1>7
<1> HIDE DEF far
<1> QED BY <1>5, <1>7, <1>8 DEF far, ramp, r, k, l, o, e

\* The parts of loop() and the ticks.
LEMMA PassTicks ==
  ASSUME NEW f \in FwState, NEW s \in Readings
  PROVE  /\ Drive(f).ticks = f.ticks /\ Silence(f).ticks = f.ticks
         /\ Sense(f, s).ticks = f.ticks /\ Heal(f).ticks = f.ticks
<1>1. Drive(f).ticks = f.ticks
  BY DEF Drive, FwState
<1>2. Silence(f).ticks = f.ticks
  BY DEF Silence, FwState
<1>3. Heal(f).ticks = f.ticks
  BY DEF Heal, FwState
<1>4. Sense(f, s).ticks = f.ticks
  <2> DEFINE g == [f EXCEPT !.bumper = s.bumper,
                            !.mowFault = s.pin /\ (f.blade \/ f.outBlade)]
  <2>1. g \in FwState /\ g.ticks = f.ticks
    BY DEF FwState, Readings
  <2>2. Sense(f, s) = IF s.current THEN Overcurrent(g) ELSE g
    BY DEF Sense
  <2> HIDE DEF g
  <2>3. Overcurrent(g).ticks = g.ticks
    BY <2>1 DEF Overcurrent, FwState
  <2> QED BY <2>1, <2>2, <2>3
<1> QED BY <1>1, <1>2, <1>3, <1>4
----------------------------------------------------------------------------
(* The controller's passes and units of time, and the ticks.               *)

\* What processConsole makes of the settings and the ticks.
LEMMA ConsoleEffect ==
  ASSUME NEW f \in FwState, NEW c \in Commands \cup {Nothing}
  PROVE  /\ Console(f, c) \in FwState
         /\ Console(f, c).outWheels = f.outWheels /\ Console(f, c).outBlade = f.outBlade
         /\ Console(f, c).boot = f.boot /\ Console(f, c).due = f.due
         /\ Console(f, c).overload = f.overload
         /\ Console(f, c).permanent = f.permanent
         /\ c = Nothing => Console(f, c) = f
         /\ c # Nothing => /\ c \in Commands
                           /\ Console(f, c).quiet = 0 /\ Console(f, c).ticks = 0
                           /\ Console(f, c).wheels = c.wheels
                           /\ Console(f, c).blade = c.blade
<1>1. CASE c = Nothing
  BY <1>1 DEF Console
<1>2. CASE c # Nothing
  <2>1. c \in Commands /\ Console(f, c) = Obey(f, c)
    BY <1>2 DEF Console
  <2>2. Obey(f, c).ticks = 0
    BY DEF Obey, FwState
  <2>3. Obey(f, c).wheels = c.wheels
    BY DEF Obey, FwState
  <2>4. Obey(f, c).blade = c.blade
    BY DEF Obey, FwState
  <2> QED BY <1>2, <2>1, <2>2, <2>3, <2>4, ObeyType
<1> QED BY <1>1, <1>2

\* One pass: which settings and outputs are left, and which ticks.
LEMMA LoopEffect ==
  ASSUME FwInv, NEW c \in Commands \cup {Nothing}, Loop(c)
  PROVE  /\ fw.boot = 0 /\ fw'.due = FALSE
         /\ fw'.ticks = IF c = Nothing THEN fw.ticks ELSE 0
         /\ c = Nothing => /\ fw'.wheels => fw.wheels /\ fw.quiet <= MotorTimeout
                           /\ fw'.blade => fw.blade /\ fw.quiet <= MotorTimeout
                           /\ fw'.quiet = fw.quiet
         /\ c # Nothing => /\ fw'.wheels = c.wheels /\ fw'.blade = c.blade
                           /\ fw'.quiet = 0
         /\ fw'.outWheels => IF fw.due THEN fw.wheels ELSE fw.outWheels
         /\ fw'.outBlade => IF fw.due THEN fw.blade ELSE fw.outBlade
<1> USE DEF FwInv, FwTypeOK, PermanentHolds
<1>1. fw.boot = 0 /\ fw \in FwState /\ fw.due \in BOOLEAN
  BY DEF Loop, FwState
<1>2. CASE fw.due /\ \E s \in Readings :
             fw' = [Heal(Sense(Console(Silence(Drive(fw)), c), s))
                      EXCEPT !.due = FALSE, !.dog = 0]
  <2>1. PICK s \in Readings :
           fw' = [Heal(Sense(Console(Silence(Drive(fw)), c), s))
                    EXCEPT !.due = FALSE, !.dog = 0]
    BY <1>2
  <2> DEFINE d == Drive(fw)
             i == Silence(d)
             o == Console(i, c)
             h == Heal(Sense(o, s))
  <2>2. /\ d \in FwState /\ i \in FwState /\ i.ticks = fw.ticks /\ i.quiet = fw.quiet
        /\ i.wheels => fw.wheels /\ fw.quiet <= MotorTimeout
        /\ i.blade => fw.blade /\ fw.quiet <= MotorTimeout
        /\ i.outWheels => fw.wheels
        /\ i.outBlade => fw.blade
        /\ i.permanent => i.overload
    BY <1>1, <2>1, DriveType, SilenceType, PassTicks
  <2>3. /\ o \in FwState /\ (o.permanent => o.overload)
        /\ o.outWheels => fw.wheels
        /\ o.outBlade => fw.blade
        /\ o.ticks = IF c = Nothing THEN fw.ticks ELSE 0
        /\ c = Nothing => o = i
        /\ c # Nothing => o.wheels = c.wheels /\ o.blade = c.blade /\ o.quiet = 0
    BY <2>2, ConsoleEffect
  <2>4. /\ h \in FwState
        /\ h.wheels = o.wheels /\ h.blade = o.blade
        /\ h.outWheels = o.outWheels /\ h.outBlade = o.outBlade
        /\ h.quiet = o.quiet /\ h.ticks = o.ticks
    BY <2>3, SenseType, HealType, PassTicks
  <2>5. fw' = [h EXCEPT !.due = FALSE, !.dog = 0]
    BY <2>1
  <2> HIDE DEF h, o, i, d
  <2>6. /\ fw'.wheels = h.wheels /\ fw'.blade = h.blade
        /\ fw'.outWheels = h.outWheels /\ fw'.outBlade = h.outBlade
        /\ fw'.quiet = h.quiet /\ fw'.ticks = h.ticks /\ fw'.due = FALSE
    BY <2>4, <2>5 DEF FwState
  <2> QED BY <1>1, <1>2, <2>2, <2>3, <2>4, <2>6
<1>3. CASE ~fw.due /\ fw' = [Heal(Console(Silence(fw), c)) EXCEPT !.dog = 0]
  <2> DEFINE i == Silence(fw)
             o == Console(i, c)
             h == Heal(o)
  <2>0. Readings # {}
    <3>1. [bumper |-> FALSE, current |-> FALSE, pin |-> FALSE] \in Readings
      BY DEF Readings
    <3> QED BY <3>1
  <2>2. /\ i \in FwState /\ i.ticks = fw.ticks /\ i.quiet = fw.quiet
        /\ i.wheels => fw.wheels /\ fw.quiet <= MotorTimeout
        /\ i.blade => fw.blade /\ fw.quiet <= MotorTimeout
        /\ i.outWheels = fw.outWheels /\ i.outBlade = fw.outBlade
        /\ i.due = fw.due /\ (i.permanent => i.overload)
    BY <1>1, <2>0, SilenceType, PassTicks
  <2>3. /\ o \in FwState /\ (o.permanent => o.overload)
        /\ o.outWheels = fw.outWheels /\ o.outBlade = fw.outBlade /\ o.due = fw.due
        /\ o.ticks = IF c = Nothing THEN fw.ticks ELSE 0
        /\ c = Nothing => o = i
        /\ c # Nothing => o.wheels = c.wheels /\ o.blade = c.blade /\ o.quiet = 0
    BY <2>2, ConsoleEffect
  <2>4. /\ h \in FwState
        /\ h.wheels = o.wheels /\ h.blade = o.blade
        /\ h.outWheels = o.outWheels /\ h.outBlade = o.outBlade
        /\ h.quiet = o.quiet /\ h.ticks = o.ticks /\ h.due = o.due
    BY <2>0, <2>3, HealType, PassTicks
  <2>5. fw' = [h EXCEPT !.dog = 0]
    BY <1>3
  <2> HIDE DEF h, o, i
  <2>6. /\ fw'.wheels = h.wheels /\ fw'.blade = h.blade
        /\ fw'.outWheels = h.outWheels /\ fw'.outBlade = h.outBlade
        /\ fw'.quiet = h.quiet /\ fw'.ticks = h.ticks /\ fw'.due = h.due
    BY <2>4, <2>5 DEF FwState
  <2>7. fw'.due = FALSE
    BY <1>1, <1>3, <2>3, <2>4, <2>6
  <2> QED BY <1>1, <1>3, <2>2, <2>3, <2>4, <2>6, <2>7
<1> QED BY <1>2, <1>3 DEF Loop

\* One unit of time: booting, running, or the watchdog's reset.
LEMMA TickEffect ==
  ASSUME FwInv, FwTick
  PROVE  \/ /\ fw.boot > 0
            /\ fw'.ticks = fw.ticks /\ fw'.bumper = fw.bumper
            /\ ~fw'.wheels /\ ~fw'.blade /\ ~fw'.outWheels /\ ~fw'.outBlade
         \/ /\ fw.boot = 0 /\ fw.dog < WatchdogTime
            /\ ~fw.due \/ "hang" \in Disturbances
            /\ fw'.due = TRUE /\ fw'.bumper = fw.bumper
            /\ fw'.ticks = IF fw.outWheels THEN fw.ticks + 1 ELSE fw.ticks
            /\ fw'.quiet = IF fw.quiet > MotorTimeout THEN fw.quiet ELSE fw.quiet + 1
            /\ fw'.wheels = fw.wheels /\ fw'.blade = fw.blade
            /\ fw'.outWheels = fw.outWheels /\ fw'.outBlade = fw.outBlade
         \/ /\ fw.boot = 0 /\ fw.dog >= WatchdogTime /\ "hang" \in Disturbances
            /\ fw'.ticks = 0
            /\ ~fw'.wheels /\ ~fw'.blade /\ ~fw'.outWheels /\ ~fw'.outBlade
<1> USE DEF FwInv, FwTypeOK
<1>1. CASE fw.boot > 0 /\ fw' = [fw EXCEPT !.boot = @ - 1]
  <2>1. /\ fw'.ticks = fw.ticks /\ fw'.bumper = fw.bumper
        /\ fw'.wheels = fw.wheels /\ fw'.blade = fw.blade
        /\ fw'.outWheels = fw.outWheels /\ fw'.outBlade = fw.outBlade
    BY <1>1 DEF FwState
  <2> QED BY <1>1, <2>1 DEF Fresh
<1>2. CASE /\ fw.boot = 0 /\ fw.dog < WatchdogTime /\ fw' = Older(fw)
           /\ ~fw.due \/ "hang" \in Disturbances
  BY <1>2 DEF Older, FwState
<1>3. CASE /\ fw.boot = 0 /\ ~(fw.dog < WatchdogTime) /\ fw' = Boot(BootTime)
           /\ ~fw.due \/ "hang" \in Disturbances
  <2>1. /\ fw'.ticks = 0
        /\ ~fw'.wheels /\ ~fw'.blade /\ ~fw'.outWheels /\ ~fw'.outBlade
    BY <1>3 DEF Boot
  <2>2. fw.dog \in Nat /\ WatchdogTime \in Nat \ {0} /\ (~fw.due => fw.dog = 0)
    BY FirmwareAssumption DEF FwState, Fresh
  <2> QED BY <1>3, <2>1, <2>2
<1> QED BY <1>1, <1>2, <1>3 DEF FwTick
----------------------------------------------------------------------------
(* The types of the line, and the ticks on their way.                      *)

\* The types of the line and of the computer, and the ticks on their way.
LineInv ==
  /\ FwInv
  /\ drv \in Drivers /\ drv.unread = 0
  /\ pi \in {"on", "down", "left", "halted"} /\ late \in 0..(MaxStall + 1)
  /\ toMcu \in Seq(CommandFrames) /\ toPi \in Seq(AnswerFrames)
  /\ Len(toMcu) + Len(toPi) <= Buffer
  /\ trip \in 0..(BladeAge + 1) /\ silent \in 0..(NoticeAge + 1)
  /\ owed \in Nat \cup {Unknown}
  /\ TicksKept

LEMMA Ages ==
  /\ NoticeAge \in Nat /\ TripAge \in Nat /\ BladeAge \in Nat
  /\ NoticeAge = 2 * ConsolePeriod - 2 + MaxStall
  /\ TripAge = NoticeAge + StopAge + 2 + MaxStall
  /\ BladeAge = TripAge + RampSteps * (1 + MaxStall)
<1>1. NoticeAge \in Nat /\ TripAge \in Nat
  BY LinkAssumption, StopAgeType DEF NoticeAge, TripAge
<1>2. RampSteps * (1 + MaxStall) \in Nat
  BY LinkAssumption
<1> QED BY <1>1, <1>2 DEF NoticeAge, TripAge, BladeAge

\* The frames of a sequence and their ticks when one is added or taken.
LEMMA FramesAppend ==
  ASSUME NEW s \in Seq(AnswerFrames), Len(s) <= 1, NEW a \in AnswerFrames
  PROVE  /\ Append(s, a) \in Seq(AnswerFrames) /\ Len(Append(s, a)) = Len(s) + 1
         /\ TicksIn(Append(s, a)) = TicksIn(s) + TicksOf(a)
<1>1. /\ Append(s, a) \in Seq(AnswerFrames) /\ Len(Append(s, a)) = Len(s) + 1
      /\ Append(s, a)[Len(s) + 1] = a
      /\ \A i \in 1..Len(s) : Append(s, a)[i] = s[i]
  BY AppendProperties
<1>2. /\ \A i \in DOMAIN s : TicksOf(s[i]) \in Nat
      /\ \A i \in DOMAIN Append(s, a) : TicksOf(Append(s, a)[i]) \in Nat
      /\ TicksOf(a) \in Nat
  BY <1>1, TicksOfType
<1>3. Len(s) = 0 \/ Len(s) = 1
  <2>1. Len(s) \in Nat /\ Len(s) <= 1
    BY LenProperties
  <2>2. \A n \in Nat : n <= 1 => n = 0 \/ n = 1
    OBVIOUS
  <2> QED BY <2>1, <2>2
<1>4. CASE Len(s) = 0
  <2>1. DOMAIN s = {} /\ DOMAIN Append(s, a) = {1} /\ Append(s, a)[1] = a
    BY <1>1, <1>4
  <2>2. TicksIn(s) = 0
    BY <1>2, <2>1, TicksTwo
  <2>3. TicksIn(Append(s, a)) = TicksOf(Append(s, a)[1])
    BY <1>2, <2>1, TicksTwo
  <2> QED BY <1>1, <1>2, <2>1, <2>2, <2>3
<1>5. CASE Len(s) = 1
  <2>1. /\ DOMAIN s = {1} /\ DOMAIN Append(s, a) = {1, 2}
        /\ Append(s, a)[2] = a /\ Append(s, a)[1] = s[1]
    BY <1>1, <1>5
  <2>2. TicksIn(s) = TicksOf(s[1])
    BY <1>2, <2>1, TicksTwo
  <2>3. TicksIn(Append(s, a)) = TicksOf(s[1]) + TicksOf(a)
    BY <1>2, <2>1, TicksTwo
  <2> QED BY <1>1, <2>2, <2>3
<1> QED BY <1>3, <1>4, <1>5

LEMMA FramesTail ==
  ASSUME NEW s \in Seq(AnswerFrames), s # <<>>, Len(s) <= 2
  PROVE  /\ Tail(s) \in Seq(AnswerFrames) /\ Len(Tail(s)) = Len(s) - 1
         /\ Head(s) \in AnswerFrames
         /\ TicksIn(s) = TicksOf(Head(s)) + TicksIn(Tail(s))
         /\ \A i \in DOMAIN Tail(s) : i + 1 \in DOMAIN s /\ Tail(s)[i] = s[i + 1]
<1> DEFINE t == Tail(s)
<1>1. /\ t \in Seq(AnswerFrames) /\ Len(t) = Len(s) - 1
      /\ \A i \in 1..Len(t) : t[i] = s[i + 1]
      /\ Head(s) \in AnswerFrames /\ Head(s) = s[1]
  BY HeadTailProperties
<1> HIDE DEF t
<1>0. /\ DOMAIN t = 1..(Len(s) - 1) /\ DOMAIN s = 1..Len(s) /\ Len(s) \in Nat
      /\ \A i \in DOMAIN t : i + 1 \in DOMAIN s /\ t[i] = s[i + 1]
  BY <1>1, LenProperties
<1>2. /\ \A i \in DOMAIN s : TicksOf(s[i]) \in Nat
      /\ \A i \in DOMAIN t : TicksOf(t[i]) \in Nat
  BY <1>1, TicksOfType
<1>3. Len(s) = 1 \/ Len(s) = 2
  <2>1. Len(s) \in Nat /\ Len(s) <= 2 /\ Len(s) # 0
    BY LenProperties, EmptySeq
  <2>2. \A n \in Nat : n <= 2 /\ n # 0 => n = 1 \/ n = 2
    OBVIOUS
  <2> QED BY <2>1, <2>2
<1>4. TicksIn(s) = TicksOf(s[1]) + TicksIn(t)
  <2>1. CASE Len(s) = 1
    <3>1. DOMAIN t = {} /\ DOMAIN s = {1}
      BY <1>0, <2>1
    <3>2. TicksIn(s) = TicksOf(s[1]) /\ TicksOf(s[1]) \in Nat
      BY <1>2, <3>1, TicksTwo
    <3>3. TicksIn(t) = 0
      BY <1>2, <3>1, TicksTwo
    <3> QED BY <3>2, <3>3
  <2>2. CASE Len(s) = 2
    <3>1. DOMAIN t = {1} /\ DOMAIN s = {1, 2}
      BY <1>0, <2>2
    <3>2. TicksIn(s) = TicksOf(s[1]) + TicksOf(s[2])
      BY <1>2, <3>1, TicksTwo
    <3>3. TicksIn(t) = TicksOf(t[1]) /\ t[1] = s[2]
      BY <1>0, <1>2, <3>1, TicksTwo
    <3> QED BY <3>2, <3>3
  <2> QED BY <1>3, <2>1, <2>2
<1> QED BY <1>0, <1>1, <1>4 DEF t

LEMMA CommandsTail ==
  ASSUME NEW s \in Seq(CommandFrames), s # <<>>
  PROVE  /\ Tail(s) \in Seq(CommandFrames) /\ Len(Tail(s)) = Len(s) - 1
         /\ Len(s) \in Nat \ {0} /\ 1 \in DOMAIN s /\ Head(s) = s[1]
         /\ \A i \in DOMAIN Tail(s) : i + 1 \in DOMAIN s /\ Tail(s)[i] = s[i + 1]
BY HeadTailProperties, LenProperties, EmptySeq

LEMMA NoFrames == TicksIn(<<>>) = 0 /\ Len(<<>>) = 0 /\ ~Answered(<<>>)
<1>1. DOMAIN <<>> = {}
  OBVIOUS
<1> QED BY <1>1, TicksTwo DEF Answered

LEMMA PrefixOf ==
  ASSUME NEW u \in Seq(CommandFrames), NEW n \in 0..Len(u)
  PROVE  /\ SubSeq(u, 1, n) \in Seq(CommandFrames)
         /\ Len(SubSeq(u, 1, n)) = n /\ DOMAIN SubSeq(u, 1, n) = 1..n
         /\ \A i \in 1..n : SubSeq(u, 1, n)[i] = u[i]
<1> DEFINE w == SubSeq(u, 1, n)
<1>1. Len(u) \in Nat /\ DOMAIN u = 1..Len(u)
  BY LenProperties
<1>2. \A i \in 1..n : i \in 1..Len(u) /\ u[i] \in CommandFrames
  BY <1>1
<1>3. /\ w \in Seq(CommandFrames)
      /\ Len(w) = IF 1 <= n THEN n - 1 + 1 ELSE 0
      /\ \A i \in 1..(n - 1 + 1) : w[i] = u[1 + i - 1]
  BY <1>1, <1>2, SubSeqProperties
<1> HIDE DEF w
<1>4. w \in Seq(CommandFrames) /\ Len(w) = n
  BY <1>1, <1>3
<1>5. DOMAIN w = 1..n
  BY <1>4, LenProperties
<1>6. \A i \in 1..n : w[i] = u[i]
  BY <1>1, <1>3
<1> QED BY <1>4, <1>5, <1>6 DEF w

\* What the buffer holds after a cycle.
LEMMA SentFrames ==
  ASSUME NEW s \in Seq(CommandFrames), NEW t \in Seq(CommandFrames), NEW q,
         q = SubSeq(s \o t, 1, Most(Len(s \o t), Buffer))
  PROVE  /\ q \in Seq(CommandFrames) /\ Len(q) <= Buffer
         /\ \A i \in DOMAIN q : \/ \E j \in DOMAIN s : q[i] = s[j]
                                \/ \E j \in DOMAIN t : q[i] = t[j]
<1> DEFINE u == s \o t
           n == Most(Len(u), Buffer)
<1>1. /\ u \in Seq(CommandFrames) /\ Len(u) = Len(s) + Len(t)
      /\ \A i \in 1..Len(u) : u[i] = IF i <= Len(s) THEN s[i] ELSE t[i - Len(s)]
  BY ConcatProperties
<1>2. /\ Len(s) \in Nat /\ Len(t) \in Nat /\ Len(u) \in Nat
      /\ DOMAIN s = 1..Len(s) /\ DOMAIN t = 1..Len(t) /\ DOMAIN u = 1..Len(u)
  BY <1>1, LenProperties
<1> HIDE DEF u
<1>3. n \in 0..Len(u) /\ n <= Buffer
  BY <1>2 DEF Most, Buffer
<1>4. q = SubSeq(u, 1, n)
  BY DEF u
<1> HIDE DEF n
<1>5. /\ q \in Seq(CommandFrames) /\ Len(q) = n /\ DOMAIN q = 1..n
      /\ \A i \in 1..n : q[i] = u[i]
  <2>1. u \in Seq(CommandFrames) /\ n \in 0..Len(u)
    BY <1>1, <1>3
  <2>2. /\ SubSeq(u, 1, n) \in Seq(CommandFrames)
        /\ Len(SubSeq(u, 1, n)) = n /\ DOMAIN SubSeq(u, 1, n) = 1..n
        /\ \A i \in 1..n : SubSeq(u, 1, n)[i] = u[i]
    BY <2>1, PrefixOf, Zenon
  <2> QED BY <1>4, <2>2, Zenon
<1> HIDE DEF u, n
<1>6. ASSUME NEW i \in DOMAIN q
      PROVE  \/ \E j \in DOMAIN s : q[i] = s[j]
             \/ \E j \in DOMAIN t : q[i] = t[j]
  <2>0. i \in 1..n
    BY <1>5
  <2>1. i \in 1..Len(u) /\ q[i] = u[i]
    <3>1. q[i] = u[i]
      BY <1>5, <2>0
    <3>2. i \in Int /\ 1 <= i /\ i <= n /\ n <= Len(u)
      BY <1>2, <1>3, <2>0
    <3>3. n \in Int /\ Len(u) \in Int
      BY <1>2, <1>3
    <3>4. i \in 1..Len(u)
      BY <3>2, <3>3
    <3> QED BY <3>1, <3>4, Zenon
  <2>a. u[i] = IF i <= Len(s) THEN s[i] ELSE t[i - Len(s)]
    BY <1>1, <2>1
  <2>2. CASE i <= Len(s)
    <3>1. i \in DOMAIN s
      BY <1>2, <2>1, <2>2
    <3>2. q[i] = s[i]
      BY <2>1, <2>a, <2>2
    <3> QED BY <3>1, <3>2, Zenon
  <2>3. CASE ~(i <= Len(s))
    <3>1. i - Len(s) \in 1..Len(t)
      BY <1>1, <1>2, <2>1, <2>3
    <3>2. q[i] = t[i - Len(s)]
      BY <2>1, <2>a, <2>3
    <3> QED BY <1>2, <3>1, <3>2
  <2> QED BY <2>2, <2>3
<1> QED BY <1>3, <1>5, <1>6

\* A command, and now and then a request for a summary.
LEMMA SentOf ==
  ASSUME NEW a \in CommandFrames, NEW b \in CommandFrames, NEW due, NEW s,
         s = <<a>> \o (IF due THEN <<b>> ELSE <<>>)
  PROVE  s \in Seq(CommandFrames) /\ \A j \in DOMAIN s : s[j] = a \/ s[j] = b
<1>1. CASE due
  <2> DEFINE p == <<a>>
             q == <<b>>
  <2>1. s = p \o q
    BY <1>1
  <2>2. /\ p \in Seq(CommandFrames) /\ Len(p) = 1 /\ p[1] = a
        /\ q \in Seq(CommandFrames) /\ Len(q) = 1 /\ q[1] = b
    OBVIOUS
  <2> HIDE DEF p, q
  <2>3. /\ s \in Seq(CommandFrames) /\ Len(s) = Len(p) + Len(q)
        /\ \A i \in 1..(Len(p) + Len(q)) : s[i] = IF i <= Len(p) THEN p[i] ELSE q[i - Len(p)]
    BY <2>1, <2>2, ConcatProperties
  <2>4. DOMAIN s = {1, 2}
    BY <2>2, <2>3, LenProperties
  <2>5. s[1] = a /\ s[2] = b
    BY <2>2, <2>3
  <2> QED BY <2>3, <2>4, <2>5
<1>2. CASE ~due
  <2>1. s = <<a>> \o <<>>
    BY <1>2
  <2>2. <<a>> \in Seq(CommandFrames)
    OBVIOUS
  <2>3. s = <<a>>
    BY <2>1, <2>2, ConcatEmptySeq
  <2> QED BY <2>3
<1> QED BY <1>1, <1>2

LEMMA InitLine == Init => LineInv
<1> SUFFICES ASSUME Init PROVE LineInv
  OBVIOUS
<1>1. FwInv /\ fw.ticks = 0
  BY InitInv DEF Init, FwInit, Boot
<1>2. drv \in Drivers /\ drv.unread = 0
  BY LinkAssumption DEF Init, NewDriver, Drivers
<1>3. /\ toMcu \in Seq(CommandFrames) /\ toPi \in Seq(AnswerFrames)
      /\ Len(toMcu) + Len(toPi) <= Buffer
  BY EmptySeq DEF Init, Buffer
<1>4. TicksIn(toPi) = 0
  BY NoFrames DEF Init
<1>5. owed \in Nat \cup {Unknown} /\ (owed # Unknown => owed = 0)
  BY DEF Init, Watch
<1>6. /\ pi = "on" /\ late = 0 /\ trip = 0 /\ silent = 0
  BY DEF Init
<1>7. /\ late \in 0..(MaxStall + 1) /\ trip \in 0..(BladeAge + 1)
      /\ silent \in 0..(NoticeAge + 1)
  BY <1>6, Ages, LinkAssumption
<1>8. TicksKept
  BY <1>1, <1>4, <1>5 DEF TicksKept
<1> QED BY <1>1, <1>2, <1>3, <1>5, <1>6, <1>7, <1>8 DEF LineInv

\* The computer's cycle, in terms of what it found: the frames it sends, and
\* its picture of the controller.
CycleOf(c) ==
  LET polled == PollRx(drv, toPi)
      far    == drv.console < ConsolePeriod
      told   == drv.connected \/ Answered(toPi)
      heard  == drv.rx \/ Answered(toPi)
  IN  /\ drv' \in Drivers /\ drv'.unread = 0
      /\ drv'.wheels = c.wheels /\ drv'.blade = c.blade
      /\ drv'.bumper = polled.bumper
      /\ drv'.wheels \/ drv'.blade => drv'.connected /\ ~drv'.bumper
      /\ drv'.connected = (told /\ (far \/ heard))
      /\ drv'.rx = (heard /\ far)
      /\ drv'.console = IF far THEN drv.console ELSE 0
      /\ drv'.ramp = IF drv.blade THEN Most(drv.ramp + 1, RampSteps)
                                  ELSE IF drv.ramp = 0 THEN 0 ELSE drv.ramp - 1
      /\ toMcu' \in Seq(CommandFrames) /\ Len(toMcu') <= Buffer
      /\ \A i \in DOMAIN toMcu' :
           \/ \E j \in DOMAIN toMcu : toMcu'[i] = toMcu[j]
           \/ toMcu'[i] = [kind |-> "M", wheels |-> drv.wheels, blade |-> drv'.ramp > 0]
           \/ toMcu'[i] = Summary
      /\ pi' \in {"on", "halted"}
      /\ \/ owed' = Unknown
         \/ owed # Unknown /\ owed' = owed - TicksIn(toPi)

LEMMA CycleEffect == LineInv /\ Cycle => \E c \in Commands : CycleOf(c)
<1> SUFFICES ASSUME LineInv, Cycle PROVE \E c \in Commands : CycleOf(c)
  OBVIOUS
<1> DEFINE polled == PollRx(drv, toPi)
           ramped == Ramp(polled)
           due    == SummaryDue(ramped)
           sent   == <<MotorCommand(ramped)>> \o (IF due THEN <<Summary>> ELSE <<>>)
           n      == IF due THEN 0 ELSE ramped.summary
           k      == [ramped EXCEPT !.summary = n]
           looked == LookForAnswers(k)
           read   == ReadOdometry(looked)
           far    == drv.console < ConsolePeriod
           told   == drv.connected \/ Answered(toPi)
           heard  == drv.rx \/ Answered(toPi)
<1>1. PICK c \in Allowed(looked) : drv' = SetMotorPwm(read, c)
  BY DEF Cycle
<1>2. c \in Commands /\ (looked.bumper \/ looked.fault \/ ~looked.connected => ~c.wheels /\ ~c.blade)
  BY DEF Allowed
<1>3. /\ toMcu' = SubSeq(toMcu \o sent, 1, Most(Len(toMcu \o sent), Buffer))
      /\ pi' \in {"on", "halted"}
      /\ owed' = IF owed = Unknown \/ (looked.connected /\ looked.reset /\ looked.unread > 0)
                   THEN Unknown ELSE owed - Reported(looked)
  BY DEF Cycle
<1>4. Len(toPi) <= 2 /\ toPi \in Seq(AnswerFrames) /\ drv \in Drivers /\ drv.unread = 0
      /\ toMcu \in Seq(CommandFrames)
  <2>1. Len(toMcu) \in Nat /\ Len(toPi) \in Nat /\ Len(toMcu) + Len(toPi) <= 2
    BY LenProperties DEF LineInv, Buffer
  <2> QED BY <2>1 DEF LineInv
<1>5. /\ polled \in Drivers /\ Apart(drv, polled)
      /\ polled.connected = told /\ polled.rx = heard
      /\ polled.unread = TicksIn(toPi) /\ TicksIn(toPi) \in Nat
      /\ ~Answered(toPi) => TicksIn(toPi) = 0
  BY <1>4, PollType
<1> HIDE DEF polled, n
<1>6. ramped \in Drivers
  BY <1>5, RampType
<1>7. n \in 0..SummaryPeriod
  BY <1>6, LinkAssumption DEF n, Drivers
<1> HIDE DEF ramped
<1>8. /\ ramped.wheels = polled.wheels /\ ramped.ramp = drv'.ramp
      /\ looked.bumper = polled.bumper /\ looked.unread = polled.unread
      /\ looked.connected =
           (polled.connected /\ (polled.console < ConsolePeriod \/ polled.rx))
      /\ drv' \in Drivers /\ drv'.unread = 0 /\ drv'.bumper = polled.bumper
      /\ drv'.connected = looked.connected
      /\ drv'.rx = (polled.rx /\ polled.console < ConsolePeriod)
      /\ drv'.console = IF polled.console < ConsolePeriod THEN polled.console ELSE 0
      /\ drv'.ramp = IF polled.blade THEN Most(polled.ramp + 1, RampSteps)
                                     ELSE IF polled.ramp = 0 THEN 0 ELSE polled.ramp - 1
      /\ drv'.wheels = c.wheels /\ drv'.blade = c.blade /\ looked \in Drivers
  BY <1>1, <1>2, <1>5, <1>7, DriverCycle DEF ramped
<1> HIDE DEF k, looked, read
<1>9. /\ drv'.wheels \/ drv'.blade => drv'.connected /\ ~drv'.bumper
  BY <1>2, <1>8
<1>10. /\ drv'.connected = (told /\ (far \/ heard))
       /\ drv'.rx = (heard /\ far)
       /\ drv'.console = IF far THEN drv.console ELSE 0
       /\ drv'.ramp = IF drv.blade THEN Most(drv.ramp + 1, RampSteps)
                                   ELSE IF drv.ramp = 0 THEN 0 ELSE drv.ramp - 1
  BY <1>5, <1>8 DEF Apart
<1> DEFINE cmd == MotorCommand(ramped)
<1>11. cmd = [kind |-> "M", wheels |-> drv.wheels, blade |-> drv'.ramp > 0]
       /\ cmd \in CommandFrames
  BY <1>4, <1>5, <1>8 DEF MotorCommand, Apart, Drivers, CommandFrames
<1> HIDE DEF due, cmd
<1>12. /\ sent \in Seq(CommandFrames)
       /\ \A j \in DOMAIN sent : sent[j] = cmd \/ sent[j] = Summary
  <2>1. sent = <<cmd>> \o (IF due THEN <<Summary>> ELSE <<>>)
    BY DEF cmd
  <2>2. Summary \in CommandFrames
    BY DEF CommandFrames
  <2> HIDE DEF sent
  <2> QED BY <1>11, <2>1, <2>2, SentOf
<1> HIDE DEF sent
<1>13. /\ toMcu' \in Seq(CommandFrames) /\ Len(toMcu') <= Buffer
       /\ \A i \in DOMAIN toMcu' :
            \/ \E j \in DOMAIN toMcu : toMcu'[i] = toMcu[j]
            \/ toMcu'[i] = cmd
            \/ toMcu'[i] = Summary
  <2>1. /\ toMcu' \in Seq(CommandFrames) /\ Len(toMcu') <= Buffer
        /\ \A i \in DOMAIN toMcu' : \/ \E j \in DOMAIN toMcu : toMcu'[i] = toMcu[j]
                                    \/ \E j \in DOMAIN sent : toMcu'[i] = sent[j]
    <3>1. sent \in Seq(CommandFrames) /\ toMcu \in Seq(CommandFrames)
      BY <1>4, <1>12
    <3>2. \A q : q = SubSeq(toMcu \o sent, 1, Most(Len(toMcu \o sent), Buffer)) =>
            /\ q \in Seq(CommandFrames) /\ Len(q) <= Buffer
            /\ \A i \in DOMAIN q : \/ \E j \in DOMAIN toMcu : q[i] = toMcu[j]
                                   \/ \E j \in DOMAIN sent : q[i] = sent[j]
      BY <3>1, SentFrames
    <3> QED BY <1>3, <3>2, Zenon
  <2> QED BY <1>12, <2>1
<1>14. \/ owed' = Unknown
       \/ owed # Unknown /\ owed' = owed - TicksIn(toPi)
  <2>1. CASE owed = Unknown \/ (looked.connected /\ looked.reset /\ looked.unread > 0)
    BY <1>3, <2>1
  <2>2. CASE ~(owed = Unknown \/ (looked.connected /\ looked.reset /\ looked.unread > 0))
    <3>1. Reported(looked) = TicksIn(toPi)
      <4>1. CASE looked.connected /\ ~looked.reset
        BY <1>5, <1>8, <4>1 DEF Reported
      <4>2. CASE looked.connected /\ looked.reset
        BY <1>5, <1>8, <2>2, <4>2 DEF Reported
      <4>3. CASE ~looked.connected
        <5>1. ~Answered(toPi)
          BY <1>5, <1>8, <4>3
        <5> QED BY <1>5, <4>3, <5>1 DEF Reported
      <4> QED BY <4>1, <4>2, <4>3
    <3> QED BY <1>3, <2>2, <3>1
  <2> QED BY <2>1, <2>2
<1> HIDE DEF far, told, heard
<1>15. CycleOf(c)
  BY <1>3, <1>8, <1>9, <1>10, <1>11, <1>13, <1>14 DEF CycleOf, polled, far, told, heard
<1> QED BY <1>2, <1>15

LEMMA LeaveEffect ==
  ASSUME drv \in Drivers, Leave
  PROVE  /\ drv' \in Drivers /\ drv'.unread = drv.unread
         /\ drv'.wheels = FALSE /\ drv'.blade = FALSE
<1> DEFINE e == SetMotorPwm(drv, [wheels |-> FALSE, blade |-> FALSE])
<1>1. drv' = PowerOff(e)
  BY DEF Leave
<1>2. /\ e \in Drivers /\ e.unread = drv.unread /\ e.wheels = FALSE /\ e.blade = FALSE
  <2>1. e \in Drivers
    BY DEF SetMotorPwm, Drivers
  <2>2. e.unread = drv.unread /\ e.wheels = FALSE /\ e.blade = FALSE
    BY DEF SetMotorPwm, Drivers
  <2> QED BY <2>1, <2>2
<1> HIDE DEF e
<1>3. Grace \in 0..Grace
  BY LinkAssumption
<1>4. CASE e.shutdown
  <2>1. drv' = e
    BY <1>1, <1>4 DEF PowerOff
  <2> QED BY <1>2, <2>1
<1>5. CASE ~e.shutdown
  <2>1. drv' = [e EXCEPT !.shutdown = TRUE, !.grace = Grace]
    BY <1>1, <1>5 DEF PowerOff
  <2>2. [e EXCEPT !.shutdown = TRUE, !.grace = Grace] \in Drivers
    BY <1>2, <1>3 DEF Drivers
  <2>3. drv'.unread = e.unread /\ drv'.wheels = e.wheels /\ drv'.blade = e.blade
    BY <1>2, <2>1 DEF Drivers
  <2> QED BY <1>2, <2>1, <2>2, <2>3
<1> QED BY <1>4, <1>5

LEMMA NewDriverType ==
  /\ NewDriver \in Drivers /\ NewDriver.unread = 0
  /\ ~NewDriver.wheels /\ ~NewDriver.blade /\ NewDriver.ramp = 0
  /\ ~NewDriver.connected /\ ~NewDriver.rx
<1>1. NewDriver \in Drivers
  BY LinkAssumption DEF NewDriver, Drivers
<1> QED BY <1>1 DEF NewDriver

LEMMA TickDriver ==
  ASSUME drv \in Drivers, Tick
  PROVE  /\ drv' \in Drivers /\ drv'.unread = drv.unread
         /\ drv'.wheels = drv.wheels /\ drv'.blade = drv.blade /\ drv'.ramp = drv.ramp
         /\ drv'.connected = drv.connected /\ drv'.rx = drv.rx
         /\ drv'.bumper = drv.bumper
         /\ drv'.console = IF drv.console < ConsolePeriod THEN drv.console + 1
                                                          ELSE ConsolePeriod
<1> DEFINE console == Most(drv.console + 1, ConsolePeriod)
           summary == Most(drv.summary + 1, SummaryPeriod)
           grace   == IF drv.grace = 0 THEN 0 ELSE drv.grace - 1
<1>1. drv' = [drv EXCEPT !.console = console, !.summary = summary, !.grace = grace]
  BY DEF Tick
<1>2. /\ console \in 0..ConsolePeriod /\ summary \in 0..SummaryPeriod
      /\ grace \in 0..Grace
      /\ console = IF drv.console < ConsolePeriod THEN drv.console + 1 ELSE ConsolePeriod
  BY LinkAssumption DEF Most, Drivers
<1> HIDE DEF console, summary, grace
<1>3. drv' \in Drivers
  BY <1>1, <1>2 DEF Drivers
<1>4. /\ drv'.unread = drv.unread /\ drv'.console = console
      /\ drv'.wheels = drv.wheels /\ drv'.blade = drv.blade /\ drv'.ramp = drv.ramp
      /\ drv'.connected = drv.connected /\ drv'.rx = drv.rx
      /\ drv'.bumper = drv.bumper
  BY <1>1 DEF Drivers
<1> QED BY <1>2, <1>3, <1>4

LEMMA AnswerTypes ==
  ASSUME FwInv
  PROVE  /\ MotorAnswer \in AnswerFrames /\ TicksOf(MotorAnswer) = fw.ticks
         /\ MotorAnswer.bumper = fw.bumper /\ MotorAnswer.kind = "M"
         /\ SummaryAnswer \in AnswerFrames /\ TicksOf(SummaryAnswer) = 0
         /\ SummaryAnswer.bumper = fw.bumper /\ SummaryAnswer.kind = "S"
<1>1. /\ fw.ticks \in Nat /\ fw.bumper \in BOOLEAN /\ fw.overload \in BOOLEAN
      /\ fw.mowFault \in BOOLEAN /\ fw.permanent \in BOOLEAN
  BY DEF FwInv, FwTypeOK, FwState
<1>2. MotorAnswer \in AnswerFrames /\ SummaryAnswer \in AnswerFrames
  BY <1>1 DEF MotorAnswer, SummaryAnswer, AnswerFrames
<1> QED BY <1>2 DEF MotorAnswer, SummaryAnswer, TicksOf

\* A pass that sends an answer, or none.
LEMMA AnswerKeepsLine ==
  ASSUME LineInv, NEW c \in Commands \cup {Nothing}, Loop(c), Released, FwInv',
         NEW a \in AnswerFrames,
         TicksOf(a) = IF c = Nothing THEN 0 ELSE fw.ticks,
         UNCHANGED <<drv, pi, late, silent, owed>>,
         toMcu # <<>>, toMcu' = Tail(toMcu), toPi' = Append(toPi, a)
  PROVE  LineInv'
<1>1. fw'.ticks = IF c = Nothing THEN fw.ticks ELSE 0
  BY LoopEffect DEF LineInv
<1>2. trip' \in 0..(BladeAge + 1)
  BY SMTT(30), Ages DEF Released, LineInv
<1>3. /\ Len(toPi) \in Nat /\ Len(toMcu) \in Nat /\ toMcu' \in Seq(CommandFrames)
      /\ Len(toMcu') = Len(toMcu) - 1 /\ Len(toMcu) # 0
      /\ Len(toMcu) + Len(toPi) <= 2 /\ toPi \in Seq(AnswerFrames)
  BY CommandsTail, LenProperties DEF LineInv, Buffer
<1>4. /\ toPi' \in Seq(AnswerFrames) /\ Len(toPi') = Len(toPi) + 1
      /\ TicksIn(toPi') = TicksIn(toPi) + TicksOf(a)
  <2>1. Len(toPi) <= 1
    BY <1>3
  <2> QED BY <1>3, <2>1, FramesAppend
<1>5. TicksKept'
  <2>1. TicksIn(toPi) \in Nat /\ fw.ticks \in Nat
    <3>1. Len(toPi) <= 2
      BY <1>3
    <3> QED BY <3>1, PollType DEF LineInv, FwInv, FwTypeOK, FwState
  <2>2. owed' # Unknown => owed' = fw.ticks + TicksIn(toPi)
    BY DEF LineInv, TicksKept
  <2> QED BY <1>1, <1>4, <2>1, <2>2 DEF TicksKept
<1>6. Len(toMcu') + Len(toPi') <= Buffer
  BY <1>3, <1>4 DEF Buffer
<1> QED BY <1>2, <1>3, <1>4, <1>5, <1>6 DEF LineInv

LEMMA LineStep == LineInv /\ [Next]_vars => LineInv'
<1> SUFFICES ASSUME LineInv, [Next]_vars PROVE LineInv'
  OBVIOUS
<1>0. FwInv'
  BY StepKeepsInv, LinkStepIsFirmwareStep DEF LineInv
<1>a. /\ Len(toPi) \in Nat /\ Len(toMcu) \in Nat
      /\ Len(toPi) <= 2 /\ Len(toMcu) <= 2 /\ toPi \in Seq(AnswerFrames)
      /\ Len(toMcu) + Len(toPi) <= 2
  <2>1. Len(toPi) \in Nat /\ Len(toMcu) \in Nat /\ Len(toMcu) + Len(toPi) <= 2
    BY LenProperties DEF LineInv, Buffer
  <2> QED BY <2>1 DEF LineInv
<1>b. TicksIn(toPi) \in Nat /\ fw.ticks \in Nat
  BY <1>a, PollType DEF LineInv, FwInv, FwTypeOK, FwState
<1>c. /\ MaxStall \in Nat /\ NoticeAge \in Nat /\ BladeAge \in Nat
      /\ late \in 0..(MaxStall + 1) /\ silent \in 0..(NoticeAge + 1)
      /\ trip \in 0..(BladeAge + 1)
  BY LinkAssumption, Ages DEF LineInv
<1>1. CASE Cycle
  <2>1. PICK c \in Commands : CycleOf(c)
    BY <1>1, CycleEffect
  <2>2. /\ drv' \in Drivers /\ drv'.unread = 0
        /\ toMcu' \in Seq(CommandFrames) /\ Len(toMcu') <= Buffer
        /\ pi' \in {"on", "halted"}
        /\ \/ owed' = Unknown
           \/ owed # Unknown /\ owed' = owed - TicksIn(toPi)
    BY <2>1 DEF CycleOf
  <2>3. /\ late' = 0 /\ toPi' = <<>> /\ trip' = trip /\ fw' = fw
        /\ (silent' = 0 \/ silent' = silent)
    BY <1>1 DEF Cycle, fwVars
  <2>4. late' \in 0..(MaxStall + 1) /\ silent' \in 0..(NoticeAge + 1)
        /\ trip' \in 0..(BladeAge + 1)
    BY <1>c, <2>3
  <2>5. toPi' \in Seq(AnswerFrames) /\ Len(toPi') = 0 /\ TicksIn(toPi') = 0
    BY <2>3, NoFrames, EmptySeq
  <2>6. owed' \in Nat \cup {Unknown} /\ (owed' # Unknown => owed' = fw'.ticks)
    BY <1>b, <2>2, <2>3 DEF LineInv, TicksKept
  <2>7. TicksKept'
    BY <1>b, <2>3, <2>5, <2>6 DEF TicksKept
  <2>8. Len(toMcu') + Len(toPi') <= Buffer
    <3>1. Len(toMcu') \in Nat
      BY <2>2, LenProperties
    <3> QED BY <2>2, <2>5, <3>1
  <2> QED BY <1>0, <2>2, <2>4, <2>5, <2>6, <2>7, <2>8 DEF LineInv
<1>2. CASE Leave
  <2>1. drv' \in Drivers /\ drv'.unread = 0
    BY <1>2, LeaveEffect DEF LineInv
  <2>2. pi' = "left" /\ UNCHANGED <<fw, late, toMcu, toPi, trip, silent, owed>>
    BY <1>2 DEF Leave, fwVars
  <2> QED BY <1>0, <2>1, <2>2 DEF LineInv, TicksKept
<1>3. CASE Crash
  BY <1>0, <1>3 DEF Crash, fwVars, LineInv, TicksKept
<1>4. CASE Restart
  <2>1. drv' \in Drivers /\ drv'.unread = 0
    BY <1>4, NewDriverType DEF Restart
  <2>2. /\ pi' = "on" /\ toMcu' = <<>> /\ toPi' = <<>> /\ owed' = Unknown
        /\ UNCHANGED <<late, trip, silent>>
    BY <1>4 DEF Restart, Forget
  <2>3. /\ toMcu' \in Seq(CommandFrames) /\ toPi' \in Seq(AnswerFrames)
        /\ Len(toMcu') = 0 /\ Len(toPi') = 0
    BY <2>2, EmptySeq
  <2> QED BY <1>0, <2>1, <2>2, <2>3 DEF LineInv, TicksKept, Buffer
<1>5. CASE McuPass
  <2>1. /\ Loop(Nothing) /\ Released /\ UNCHANGED <<drv, pi, late, toMcu, toPi, silent, owed>>
    BY <1>5 DEF McuPass, Pass
  <2>2. fw'.ticks = fw.ticks
    BY <2>1, LoopEffect DEF LineInv
  <2>3. trip' \in 0..(BladeAge + 1)
    BY <1>c, <2>1 DEF Released
  <2> QED BY <1>0, <2>1, <2>2, <2>3 DEF LineInv, TicksKept
<1>6. CASE McuMotor
  <2>1. PICK c \in Commands : Loop(c)
    BY <1>6 DEF McuMotor, Serve
  <2>2. /\ Released /\ UNCHANGED <<drv, pi, late, silent, owed>>
        /\ toMcu # <<>> /\ toMcu' = Tail(toMcu) /\ toPi' = Append(toPi, MotorAnswer)
    BY <1>6 DEF McuMotor
  <2>3. c # Nothing
    BY DEF Nothing, Commands
  <2>4. MotorAnswer \in AnswerFrames /\ TicksOf(MotorAnswer) = fw.ticks
    BY AnswerTypes DEF LineInv
  <2> QED BY <1>0, <2>1, <2>2, <2>3, <2>4, AnswerKeepsLine
<1>7. CASE McuSummary
  <2>1. Loop(Nothing)
    BY <1>7 DEF McuSummary, Pass
  <2>2. /\ Released /\ UNCHANGED <<drv, pi, late, silent, owed>>
        /\ toMcu # <<>> /\ toMcu' = Tail(toMcu) /\ toPi' = Append(toPi, SummaryAnswer)
    BY <1>7 DEF McuSummary
  <2>4. SummaryAnswer \in AnswerFrames /\ TicksOf(SummaryAnswer) = 0
    BY AnswerTypes DEF LineInv
  <2> QED BY <1>0, <2>1, <2>2, <2>4, AnswerKeepsLine
<1>8. CASE McuReset
  <2>1. /\ toMcu' = <<>> /\ trip' = 0 /\ owed' = Unknown
        /\ UNCHANGED <<drv, pi, late, toPi, silent>>
    BY <1>8 DEF McuReset, Forget
  <2>2. /\ toMcu' \in Seq(CommandFrames) /\ Len(toMcu') = 0
    BY <2>1, EmptySeq
  <2>3. trip' \in 0..(BladeAge + 1) /\ Len(toMcu') + Len(toPi') <= Buffer
    BY <1>a, <1>c, <2>1, <2>2 DEF Buffer
  <2> QED BY <1>0, <2>1, <2>2, <2>3 DEF LineInv, TicksKept
<1>9. CASE LoseCommand
  <2>1. /\ toMcu # <<>> /\ toMcu' = Tail(toMcu)
        /\ UNCHANGED <<fw, drv, pi, late, toPi, trip, silent, owed>>
    BY <1>9 DEF LoseCommand, fwVars
  <2>2. toMcu' \in Seq(CommandFrames) /\ Len(toMcu') = Len(toMcu) - 1
    BY <2>1, CommandsTail DEF LineInv
  <2>3. Len(toMcu') + Len(toPi') <= Buffer
    BY <1>a, <2>1, <2>2 DEF Buffer
  <2> QED BY <1>0, <2>1, <2>2, <2>3 DEF LineInv, TicksKept
<1>10. CASE LoseAnswer
  <2>1. /\ toPi # <<>> /\ toPi' = Tail(toPi)
        /\ UNCHANGED <<fw, drv, pi, late, toMcu, trip, silent>>
        /\ owed' = IF Head(toPi).kind = "M" THEN Unknown ELSE owed
    BY <1>10 DEF LoseAnswer, fwVars, Forget
  <2>2. /\ toPi' \in Seq(AnswerFrames) /\ Len(toPi') = Len(toPi) - 1
        /\ TicksIn(toPi) = TicksOf(Head(toPi)) + TicksIn(toPi')
    BY <1>a, <2>1, FramesTail
  <2>3. Len(toMcu') + Len(toPi') <= Buffer
    BY <1>a, <2>1, <2>2 DEF Buffer
  <2>4. TicksKept'
    <3>1. TicksIn(toPi') \in Nat
      BY <1>a, <2>2, PollType DEF LineInv
    <3>2. owed' # Unknown => owed' = owed /\ TicksOf(Head(toPi)) = 0
      BY <2>1 DEF TicksOf
    <3> QED BY <2>1, <2>2, <3>1, <3>2 DEF TicksKept, LineInv
  <2> QED BY <1>0, <2>1, <2>2, <2>3, <2>4 DEF LineInv
<1>11. CASE Tick
  <2>1. drv' \in Drivers /\ drv'.unread = 0
    BY <1>11, TickDriver DEF LineInv
  <2>2. late' \in 0..(MaxStall + 1)
    BY <1>11, <1>c DEF Tick
  <2>3. trip' \in 0..(BladeAge + 1)
    BY <1>11, <1>c DEF Tick, Watch, Most
  <2>4. silent' \in 0..(NoticeAge + 1)
    BY <1>11, <1>c DEF Tick, Watch, Most
  <2>5. pi' = pi /\ toPi' = toPi
    BY <1>11 DEF Tick
  <2>6. /\ toMcu' \in Seq(CommandFrames) /\ Len(toMcu') + Len(toPi') <= Buffer
    <3>1. toMcu' = toMcu \/ toMcu' = <<>>
      BY <1>11 DEF Tick
    <3>2. CASE toMcu' = toMcu
      BY <1>a, <2>5, <3>2 DEF LineInv, Buffer
    <3>3. CASE toMcu' = <<>>
      <4>1. toMcu' \in Seq(CommandFrames) /\ Len(toMcu') = 0
        BY <3>3, EmptySeq
      <4> QED BY <1>a, <2>5, <4>1 DEF Buffer
    <3> QED BY <3>1, <3>2, <3>3
  <2>7. owed' \in Nat \cup {Unknown} /\ TicksKept'
    <3>1. \/ owed' = Unknown
          \/ /\ owed # Unknown /\ ~(fw.boot = 0 /\ fw.dog >= WatchdogTime)
             /\ owed' = owed + (IF fw.outWheels /\ fw.boot = 0 THEN 1 ELSE 0)
      BY <1>11 DEF Tick, Watch
    <3>2. CASE owed' = Unknown
      BY <3>2 DEF TicksKept
    <3>3. CASE /\ owed # Unknown /\ ~(fw.boot = 0 /\ fw.dog >= WatchdogTime)
               /\ owed' = owed + (IF fw.outWheels /\ fw.boot = 0 THEN 1 ELSE 0)
      <4>1. fw.boot \in Nat /\ FwTick
        BY <1>11, FirmwareAssumption DEF Tick, LineInv, FwInv, FwTypeOK, FwState
      <4>2. fw'.ticks = fw.ticks + (IF fw.outWheels /\ fw.boot = 0 THEN 1 ELSE 0)
        <5>1. \/ fw.boot > 0 /\ fw'.ticks = fw.ticks
              \/ /\ fw.boot = 0
                 /\ fw'.ticks = IF fw.outWheels THEN fw.ticks + 1 ELSE fw.ticks
          BY <3>3, <4>1, TickEffect DEF LineInv
        <5> QED BY <1>b, <4>1, <5>1
      <4>3. owed = fw.ticks + TicksIn(toPi)
        BY <3>3 DEF LineInv, TicksKept
      <4> QED BY <1>b, <2>5, <3>3, <4>2, <4>3 DEF TicksKept
    <3> QED BY <3>1, <3>2, <3>3
  <2> QED BY <1>0, <2>1, <2>2, <2>3, <2>4, <2>5, <2>6, <2>7 DEF LineInv
<1>12. CASE UNCHANGED vars
  BY <1>0, <1>12 DEF vars, fwVars, LineInv, TicksKept
<1> QED BY <1>1, <1>2, <1>3, <1>4, <1>5, <1>6, <1>7, <1>8, <1>9, <1>10, <1>11, <1>12
        DEF Next
----------------------------------------------------------------------------
(* A silent controller is noticed.                                         *)

\* Before the first frame of a new port nothing is believed.
Opened == ~drv.connected /\ ~drv.rx /\ toMcu = <<>> /\ toPi = <<>>

\* The time since the last look counts the units in which no cycle was run.
Looked == /\ drv.console < ConsolePeriod => late <= drv.console
          /\ drv.console = ConsolePeriod => late >= 1

\* How old the last motor answer may be: within the present look if one has
\* been read since the last look, within the last two otherwise.
Since(rx, console, l, h) ==
  IF rx
  THEN /\ h <= ConsolePeriod - 2 + l
       /\ console < ConsolePeriod => h < console
  ELSE /\ h <= 2 * ConsolePeriod - 2 + MaxStall + l
       /\ console < ConsolePeriod => h <= ConsolePeriod - 1 + MaxStall + console

Recent(h) == Since(drv.rx, drv.console, late, h)

LookInv == pi = "on" => (Opened \/ Looked) /\ (drv.connected => Recent(silent))

\* A cycle keeps the bound for what it had heard of before, and sets it for what
\* it has just heard.
LEMMA CycleKeepsSince ==
  ASSUME LineInv, pi = "on", late > 0, Opened \/ Looked,
         NEW c \in Commands, CycleOf(c), late' = 0, drv'.connected, NEW h \in Int,
         \/ drv.connected /\ Recent(h) /\ ~Answered(toPi)
         \/ toPi # <<>> /\ h <= late - 1
  PROVE  Since(drv'.rx, drv'.console, 0, h)
<1> DEFINE far   == drv.console < ConsolePeriod
           told  == drv.connected \/ Answered(toPi)
           heard == drv.rx \/ Answered(toPi)
<1>1. /\ drv'.connected = (told /\ (far \/ heard))
      /\ drv'.rx = (heard /\ far)
      /\ drv'.console = IF far THEN drv.console ELSE 0
  BY DEF CycleOf
<1>2. /\ drv.console \in 0..ConsolePeriod /\ late \in 1..(MaxStall + 1)
      /\ ConsolePeriod \in Nat \ {0} /\ MaxStall \in Nat
  BY LinkAssumption DEF LineInv, Drivers
<1>3. Looked
  <2>1. told /\ (toPi = <<>> => ~Answered(toPi))
    BY <1>1, NoFrames
  <2> QED BY <2>1 DEF Opened
<1>4. Since(heard, drv.console, late, h)
  <2>1. CASE h <= late - 1
    BY <1>2, <1>3, <2>1 DEF Since, Looked
  <2>2. CASE drv.connected /\ Recent(h) /\ ~Answered(toPi)
    <3>1. CASE drv.rx
      BY <2>2, <3>1 DEF Since, Recent
    <3>2. CASE ~drv.rx
      BY <2>2, <3>2 DEF Since, Recent
    <3> QED BY <3>1, <3>2
  <2> QED BY <2>1, <2>2
<1>5. far \/ heard
  BY <1>1
<1>6. CASE far /\ heard
  <2>1. drv'.rx = TRUE /\ drv'.console = drv.console /\ drv.console < ConsolePeriod
    BY <1>1, <1>6
  <2>2. h < drv.console
    BY <1>4, <1>6 DEF Since
  <2> HIDE DEF heard, far
  <2> QED BY <1>2, <2>1, <2>2 DEF Since
<1>7. CASE far /\ ~heard
  <2>1. drv'.rx = FALSE /\ drv'.console = drv.console /\ drv.console < ConsolePeriod
    BY <1>1, <1>7
  <2>2. h <= ConsolePeriod - 1 + MaxStall + drv.console
    BY <1>4, <1>7 DEF Since
  <2> HIDE DEF heard, far
  <2> QED BY <1>2, <2>1, <2>2 DEF Since
<1>8. CASE ~far /\ heard
  <2>1. drv'.rx = FALSE /\ drv'.console = 0
    BY <1>1, <1>8
  <2>2. h <= ConsolePeriod - 2 + late
    BY <1>4, <1>8 DEF Since
  <2> HIDE DEF heard, far
  <2> QED BY <1>2, <2>1, <2>2 DEF Since
<1> QED BY <1>5, <1>6, <1>7, <1>8

LEMMA TickKeepsSince ==
  ASSUME drv \in Drivers, late \in Nat, Tick, pi = "on", NEW h \in Int, NEW g \in Int,
         Recent(h), g <= h + 1 \/ g <= 0
  PROVE  Since(drv'.rx, drv'.console, late', g)
<1>1. /\ drv'.rx = drv.rx
      /\ drv'.console = IF drv.console < ConsolePeriod THEN drv.console + 1
                                                       ELSE ConsolePeriod
  BY TickDriver
<1>2. late' = late + 1
  BY DEF Tick
<1>3. drv.console \in 0..ConsolePeriod /\ ConsolePeriod \in Nat \ {0} /\ MaxStall \in Nat
  BY LinkAssumption DEF Drivers
<1>4. CASE drv.rx
  BY <1>1, <1>2, <1>3, <1>4 DEF Since, Recent
<1>5. CASE ~drv.rx
  BY <1>1, <1>2, <1>3, <1>5 DEF Since, Recent
<1> QED BY <1>4, <1>5

LEMMA TickKeepsLooks ==
  ASSUME drv \in Drivers, late \in Nat, Tick, pi = "on", Opened \/ Looked
  PROVE  Opened' \/ Looked'
<1>1. /\ drv'.connected = drv.connected /\ drv'.rx = drv.rx
      /\ drv'.console = IF drv.console < ConsolePeriod THEN drv.console + 1
                                                       ELSE ConsolePeriod
  BY TickDriver
<1>2. late' = late + 1 /\ (toMcu' = toMcu \/ toMcu' = <<>>) /\ toPi' = toPi
  BY DEF Tick
<1>3. drv.console \in 0..ConsolePeriod /\ ConsolePeriod \in Nat \ {0}
  BY LinkAssumption DEF Drivers
<1>4. CASE Opened
  BY <1>1, <1>2, <1>4 DEF Opened
<1>5. CASE Looked
  BY <1>1, <1>2, <1>3, <1>5 DEF Looked
<1> QED BY <1>4, <1>5

LEMMA InitLook == Init => LookInv
BY NewDriverType DEF Init, LookInv, Opened

LEMMA LookStep == LineInv /\ LookInv /\ [Next]_vars => LookInv'
<1> SUFFICES ASSUME LineInv, LookInv, [Next]_vars, pi' = "on"
             PROVE  (Opened \/ Looked)' /\ (drv'.connected => Recent(silent)')
  BY DEF LookInv
<1>a. /\ drv \in Drivers /\ late \in Nat /\ silent \in Nat
  BY LinkAssumption, Ages DEF LineInv
<1>1. CASE Cycle
  <2>1. PICK c \in Commands : CycleOf(c)
    BY <1>1, CycleEffect
  <2>2. /\ pi = "on" /\ late > 0 /\ late' = 0 /\ toPi' = <<>>
        /\ silent' = IF Answered(toPi) THEN 0 ELSE silent
    BY <1>1 DEF Cycle, Answered
  <2>3. drv' \in Drivers /\ drv'.console = IF drv.console < ConsolePeriod THEN drv.console ELSE 0
    BY <2>1 DEF CycleOf
  <2>4. Looked'
    BY <1>a, <2>2, <2>3, LinkAssumption DEF Looked, Drivers
  <2>5. ASSUME drv'.connected PROVE Since(drv'.rx, drv'.console, 0, silent')
    <3>1. CASE Answered(toPi)
      <4>1. toPi # <<>> /\ silent' = 0 /\ 0 <= late - 1 /\ 0 \in Int
        BY <1>a, <2>2, <3>1, NoFrames
      <4>2. Since(drv'.rx, drv'.console, 0, 0)
        BY <2>1, <2>2, <2>5, <4>1, CycleKeepsSince DEF LookInv
      <4> QED BY <4>1, <4>2
    <3>2. CASE ~Answered(toPi)
      <4>1. drv.connected /\ silent' = silent /\ silent \in Int
        <5>1. drv'.connected = ((drv.connected \/ Answered(toPi))
                 /\ (drv.console < ConsolePeriod \/ (drv.rx \/ Answered(toPi))))
          BY <2>1 DEF CycleOf
        <5>2. drv.connected
          BY <2>5, <3>2, <5>1
        <5>3. silent' = silent /\ silent \in Int
          BY <1>a, <2>2, <3>2
        <5> QED BY <5>2, <5>3
      <4>2. Recent(silent)
        BY <2>2, <4>1 DEF LookInv
      <4>3. Since(drv'.rx, drv'.console, 0, silent)
        BY <2>1, <2>2, <2>5, <3>2, <4>1, <4>2, CycleKeepsSince DEF LookInv
      <4> QED BY <4>1, <4>3
    <3> QED BY <3>1, <3>2
  <2>6. drv'.connected => Recent(silent)'
    BY <2>2, <2>5 DEF Recent
  <2> QED BY <2>4, <2>6
<1>2. CASE Leave
  BY <1>2 DEF Leave
<1>3. CASE Crash
  BY <1>3 DEF Crash
<1>4. CASE Restart
  BY <1>4, NewDriverType DEF Restart, Opened
<1>5. CASE McuPass \/ McuReset
  <2>1. /\ UNCHANGED <<drv, pi, late, toPi, silent>>
        /\ toMcu' = toMcu \/ toMcu' = <<>>
    BY <1>5 DEF McuPass, McuReset
  <2> QED BY <2>1 DEF LookInv, Opened, Looked, Recent
<1>6. CASE McuMotor \/ McuSummary \/ LoseCommand \/ LoseAnswer
  <2>1. /\ UNCHANGED <<drv, pi, late, silent>>
        /\ toMcu # <<>> \/ toPi # <<>>
    BY <1>6 DEF McuMotor, McuSummary, LoseCommand, LoseAnswer
  <2> QED BY <2>1 DEF LookInv, Opened, Looked, Recent
<1>7. CASE Tick
  <2>1. pi = "on" /\ (silent' <= silent + 1 \/ silent' <= 0) /\ silent' \in Int
    BY <1>7, <1>a, Ages DEF Tick, Watch, Most
  <2>2. (Opened \/ Looked)'
    BY <1>7, <1>a, <2>1, TickKeepsLooks DEF LookInv
  <2>3. drv'.connected = drv.connected
    BY <1>7, <1>a, TickDriver
  <2>4. ASSUME drv'.connected PROVE Recent(silent)'
    <3>1. Recent(silent)
      BY <2>1, <2>3, <2>4 DEF LookInv
    <3>2. silent \in Int
      BY <1>a
    <3>3. Since(drv'.rx, drv'.console, late', silent')
      BY <1>7, <1>a, <2>1, <3>1, <3>2, TickKeepsSince
    <3> QED BY <3>3 DEF Recent
  <2> QED BY <2>2, <2>4
<1>8. CASE UNCHANGED vars
  BY <1>8 DEF vars, LookInv, Opened, Looked, Recent
<1> QED BY <1>1, <1>2, <1>3, <1>4, <1>5, <1>6, <1>7, <1>8 DEF Next

LEMMA LookNotices == LineInv /\ LookInv => SilenceNoticed
<1> SUFFICES ASSUME LineInv, LookInv, pi = "on", late = 0, drv.connected
             PROVE  silent <= NoticeAge
  BY DEF SilenceNoticed
<1>1. Since(drv.rx, drv.console, 0, silent)
  BY DEF LookInv, Recent
<1>2. silent \in Nat /\ ConsolePeriod \in Nat \ {0} /\ MaxStall \in Nat
  BY LinkAssumption, Ages DEF LineInv
<1> QED BY <1>1, <1>2, Ages DEF Since
----------------------------------------------------------------------------
(* A pressed bumper.                                                       *)

\* Units in which a ramp that has come down to r may still reach its end.
SpinDown(r) == (RampSteps - r + 1) * (1 + MaxStall)

\* How long the bumper may be pressed when a command for the wheels, or the
\* blade, is still sent, and how long an output outlives its command.
WheelAge == NoticeAge + 2 + MaxStall
SpinAge  == NoticeAge + 1 + SpinDown(1)
Held     == MotorTimeout + (IF fw.due THEN 2 ELSE 1)

\* An answer without the bumper is as old as the last cycle at most.
Told == /\ ~fw.bumper => trip = 0
        /\ pi = "on" => \A i \in DOMAIN toPi : ~toPi[i].bumper => trip <= late

\* What the computer believes and wants after a bumper has been pressed.
Wanted ==
  pi = "on" =>
    /\ drv.connected /\ ~drv.bumper => Recent(trip - 1)
    /\ drv.wheels \/ drv.blade => trip <= NoticeAge + 1 + late
    /\ ~drv.blade /\ drv.ramp > 0 => trip <= NoticeAge + 1 + late + SpinDown(drv.ramp)

Sent ==
  \A i \in DOMAIN toMcu : toMcu[i].kind = "M" =>
    /\ toMcu[i].wheels => trip <= WheelAge
    /\ toMcu[i].blade => trip <= SpinAge

Obeyed ==
  /\ fw.wheels => trip <= WheelAge + fw.quiet
  /\ fw.blade => trip <= SpinAge + fw.quiet
  /\ (fw.wheels \/ fw.blade) /\ fw.quiet > MotorTimeout => fw.due
  /\ fw.outWheels => trip <= WheelAge + Held
  /\ fw.outBlade => trip <= SpinAge + Held

TripInv == Told /\ Wanted /\ Sent /\ Obeyed

LEMMA SpinDownType ==
  ASSUME NEW r \in 1..RampSteps
  PROVE  /\ SpinDown(r) \in Nat /\ SpinDown(r) >= 1 + MaxStall
         /\ SpinDown(r) <= SpinDown(1)
         /\ r > 1 => SpinDown(r - 1) = SpinDown(r) + 1 + MaxStall
         /\ SpinDown(1) = RampSteps * (1 + MaxStall)
<1> DEFINE m == 1 + MaxStall
<1>1. RampSteps \in Nat \ {0} /\ m \in Nat /\ MaxStall \in Nat
  BY LinkAssumption
<1> HIDE DEF m
<1>2. \A x, y \in Nat : x * m \in Nat /\ (x + y) * m = x * m + y * m
  BY <1>1
<1>3. 1 * m = m
  BY <1>1
<1>4. \A x \in Nat : SpinDown(RampSteps - x + 1) = x * m
  <2> TAKE x \in Nat
  <2>1. RampSteps - (RampSteps - x + 1) + 1 = x
    BY <1>1
  <2> QED BY <2>1 DEF SpinDown, m
<1> DEFINE a == RampSteps - r
<1>5. a \in Nat /\ r - 1 \in Nat /\ r \in Nat
  BY <1>1
<1>6. SpinDown(r) = a * m + m
  <2>1. SpinDown(r) = (a + 1) * m
    BY DEF SpinDown, m
  <2>2. (a + 1) * m = a * m + 1 * m
    BY <1>2, <1>5
  <2> QED BY <1>3, <2>1, <2>2
<1>7. a * m \in Nat
  BY <1>2, <1>5
<1>8. SpinDown(1) = RampSteps * m
  <2>1. RampSteps - 1 + 1 = RampSteps
    BY <1>1
  <2> QED BY <2>1 DEF SpinDown, m
<1>9. SpinDown(r) <= SpinDown(1)
  <2>1. RampSteps = (a + 1) + (r - 1)
    BY <1>1, <1>5
  <2>2. RampSteps * m = (a + 1) * m + (r - 1) * m /\ (r - 1) * m \in Nat /\ (a + 1) * m \in Nat
    BY <1>2, <1>5, <2>1
  <2>3. SpinDown(r) = (a + 1) * m
    BY DEF SpinDown, m
  <2> QED BY <1>8, <2>2, <2>3
<1>10. ASSUME r > 1 PROVE SpinDown(r - 1) = SpinDown(r) + m
  <2>1. SpinDown(r - 1) = (a + 1 + 1) * m
    <3>1. RampSteps - (r - 1) + 1 = a + 1 + 1
      BY <1>1, <1>5
    <3> QED BY <3>1 DEF SpinDown, m
  <2>2. (a + 1 + 1) * m = (a + 1) * m + 1 * m
    BY <1>2, <1>5
  <2>3. SpinDown(r) = (a + 1) * m
    BY DEF SpinDown, m
  <2> QED BY <1>3, <2>1, <2>2, <2>3
<1>11. SpinDown(r) \in Nat /\ SpinDown(r) >= m
  BY <1>1, <1>6, <1>7
<1> QED BY <1>1, <1>8, <1>9, <1>10, <1>11 DEF m

LEMMA Bounds ==
  /\ NoticeAge \in Nat /\ MaxStall \in Nat /\ MotorTimeout \in Nat
  /\ SpinDown(1) \in Nat /\ SpinDown(1) >= 1 + MaxStall
  /\ WheelAge \in Nat /\ WheelAge = NoticeAge + 2 + MaxStall
  /\ SpinAge \in Nat /\ SpinAge = NoticeAge + 1 + SpinDown(1)
  /\ WheelAge <= SpinAge
  /\ WheelAge + MotorTimeout + 2 <= TripAge
  /\ SpinAge + MotorTimeout + 2 <= BladeAge
<1>1. 1 \in 1..RampSteps
  BY LinkAssumption
<1>2. SpinDown(1) \in Nat /\ SpinDown(1) >= 1 + MaxStall
      /\ SpinDown(1) = RampSteps * (1 + MaxStall)
  BY <1>1, SpinDownType
<1>3. /\ NoticeAge \in Nat /\ TripAge = NoticeAge + StopAge + 2 + MaxStall
      /\ BladeAge = TripAge + SpinDown(1)
  BY <1>2, Ages
<1> HIDE DEF SpinDown
<1>4. MaxStall \in Nat /\ MotorTimeout \in Nat /\ WatchdogTime \in Nat \ {0}
      /\ StopAge = MotorTimeout + 2 * WatchdogTime
  BY LinkAssumption, FirmwareAssumption, StopAgeType
<1> QED BY <1>2, <1>3, <1>4 DEF WheelAge, SpinAge

\* The invariant gives the bounds.
LEMMA TripStops == LineInv /\ TripInv => TripStopsMotors
<1> SUFFICES ASSUME LineInv, TripInv PROVE TripStopsMotors
  OBVIOUS
<1>1. trip \in Nat /\ Held <= MotorTimeout + 2 /\ Held \in Nat
  BY Ages, Bounds DEF LineInv, Held
<1>2. /\ fw.outWheels => trip <= WheelAge + Held
      /\ fw.outBlade => trip <= SpinAge + Held
  BY DEF TripInv, Obeyed
<1>3. TripAge \in Nat /\ BladeAge \in Nat
  BY Ages
<1> QED BY <1>1, <1>2, <1>3, Bounds DEF TripStopsMotors

LEMMA InitTrip == Init => TripInv
<1> SUFFICES ASSUME Init PROVE TripInv
  OBVIOUS
<1>1. /\ trip = 0 /\ toMcu = <<>> /\ toPi = <<>> /\ late = 0 /\ drv = NewDriver
  BY DEF Init
<1>2. /\ ~fw.wheels /\ ~fw.blade /\ ~fw.outWheels /\ ~fw.outBlade
  BY DEF Init, FwInit, Boot
<1>3. Told /\ Sent
  BY <1>1 DEF Told, Sent
<1>4. Wanted
  BY <1>1, NewDriverType DEF Wanted
<1>5. Obeyed
  BY <1>2 DEF Obeyed
<1> QED BY <1>3, <1>4, <1>5 DEF TripInv

\* A pass with a command that is young enough.
LEMMA LoopKeepsObeyed ==
  ASSUME LineInv, TripInv, NEW c \in Commands \cup {Nothing}, Loop(c), Released, FwInv',
         c # Nothing => /\ c.wheels => trip <= WheelAge
                        /\ c.blade => trip <= SpinAge
  PROVE  /\ Obeyed' /\ (~fw'.bumper => trip' = 0)
         /\ trip' \in Nat /\ trip' <= trip
<1>1. trip \in Nat /\ trip' \in Nat /\ trip' <= trip /\ (~fw'.bumper => trip' = 0)
  BY Ages DEF LineInv, Released
<1>2. /\ fw.quiet \in 0..(MotorTimeout + 1) /\ fw.due \in BOOLEAN
      /\ fw'.quiet \in 0..(MotorTimeout + 1) /\ MotorTimeout \in Nat
  BY FirmwareAssumption DEF LineInv, FwInv, FwTypeOK, FwState
<1>3. /\ fw.boot = 0 /\ fw'.due = FALSE
      /\ c = Nothing => /\ fw'.wheels => fw.wheels /\ fw.quiet <= MotorTimeout
                        /\ fw'.blade => fw.blade /\ fw.quiet <= MotorTimeout
                        /\ fw'.quiet = fw.quiet
      /\ c # Nothing => fw'.wheels = c.wheels /\ fw'.blade = c.blade /\ fw'.quiet = 0
      /\ fw'.outWheels => IF fw.due THEN fw.wheels ELSE fw.outWheels
      /\ fw'.outBlade => IF fw.due THEN fw.blade ELSE fw.outBlade
  BY LoopEffect DEF LineInv
<1>4. Obeyed
  BY DEF TripInv
<1>5. fw'.wheels => trip' <= WheelAge + fw'.quiet
  <2>1. CASE c = Nothing
    <3>1. fw'.wheels => trip <= WheelAge + fw.quiet
      BY <1>3, <1>4, <2>1 DEF Obeyed
    <3> QED BY <1>1, <1>2, <1>3, <2>1, <3>1, Bounds
  <2>2. CASE c # Nothing
    <3>1. fw'.wheels => trip <= WheelAge
      BY <1>3, <2>2
    <3> QED BY <1>1, <1>2, <1>3, <2>2, <3>1, Bounds
  <2> QED BY <2>1, <2>2
<1>6. fw'.blade => trip' <= SpinAge + fw'.quiet
  <2>1. CASE c = Nothing
    <3>1. fw'.blade => trip <= SpinAge + fw.quiet
      BY <1>3, <1>4, <2>1 DEF Obeyed
    <3> QED BY <1>1, <1>2, <1>3, <2>1, <3>1, Bounds
  <2>2. CASE c # Nothing
    <3>1. fw'.blade => trip <= SpinAge
      BY <1>3, <2>2
    <3> QED BY <1>1, <1>2, <1>3, <2>2, <3>1, Bounds
  <2> QED BY <2>1, <2>2
<1>7. (fw'.wheels \/ fw'.blade) => fw'.quiet <= MotorTimeout
  BY <1>2, <1>3
<1>8. fw'.outWheels => trip' <= WheelAge + MotorTimeout + 1
  <2>1. CASE fw.due
    BY <1>1, <1>2, <1>3, <1>4, <2>1, Bounds DEF Obeyed
  <2>2. CASE ~fw.due
    BY <1>1, <1>2, <1>3, <1>4, <2>2, Bounds DEF Obeyed, Held
  <2> QED BY <2>1, <2>2
<1>9. fw'.outBlade => trip' <= SpinAge + MotorTimeout + 1
  <2>1. CASE fw.due
    BY <1>1, <1>2, <1>3, <1>4, <2>1, Bounds DEF Obeyed
  <2>2. CASE ~fw.due
    BY <1>1, <1>2, <1>3, <1>4, <2>2, Bounds DEF Obeyed, Held
  <2> QED BY <2>1, <2>2
<1>10. Held' = MotorTimeout + 1
  BY <1>3 DEF Held
<1>11. Obeyed'
  <2>1. (fw'.outWheels => trip' <= WheelAge + Held') /\ (fw'.outBlade => trip' <= SpinAge + Held')
    BY <1>1, <1>2, <1>8, <1>9, <1>10, Bounds
  <2>2. (fw'.wheels \/ fw'.blade) /\ fw'.quiet > MotorTimeout => fw'.due
    BY <1>2, <1>7
  <2> QED BY <1>5, <1>6, <2>1, <2>2 DEF Obeyed, WheelAge, SpinAge, NoticeAge, SpinDown
<1> QED BY <1>1, <1>11

LEMMA SinceSmaller ==
  ASSUME NEW rx, NEW console \in Int, NEW l \in Int, NEW h \in Int, NEW g \in Int,
         g <= h, Since(rx, console, l, h)
  PROVE  Since(rx, console, l, g)
<1>1. ConsolePeriod \in Int /\ MaxStall \in Int
  BY LinkAssumption
<1>2. CASE rx
  BY <1>1, <1>2 DEF Since
<1>3. CASE ~rx
  BY <1>1, <1>3 DEF Since
<1> QED BY <1>2, <1>3

\* A smaller age keeps what is wanted.
LEMMA WantedKept ==
  ASSUME LineInv, Wanted, UNCHANGED <<drv, pi, late>>, trip' \in Nat, trip' <= trip
  PROVE  Wanted'
<1> SUFFICES ASSUME pi = "on"
             PROVE  /\ drv.connected /\ ~drv.bumper => Since(drv.rx, drv.console, late, trip' - 1)
                    /\ drv.wheels \/ drv.blade => trip' <= NoticeAge + 1 + late
                    /\ ~drv.blade /\ drv.ramp > 0
                         => trip' <= NoticeAge + 1 + late + SpinDown(drv.ramp)
  BY DEF Wanted, Recent
<1>1. /\ trip \in Nat /\ late \in Nat /\ NoticeAge \in Nat
      /\ drv.console \in 0..ConsolePeriod /\ ConsolePeriod \in Nat \ {0} /\ MaxStall \in Nat
      /\ drv.ramp \in 0..RampSteps
  BY Ages, LinkAssumption DEF LineInv, Drivers
<1>2. ASSUME drv.connected, ~drv.bumper
      PROVE  Since(drv.rx, drv.console, late, trip' - 1)
  <2>1. Since(drv.rx, drv.console, late, trip - 1)
    BY <1>2 DEF Wanted, Recent
  <2>2. drv.console \in Int /\ late \in Int
    BY <1>1
  <2>3. trip - 1 \in Int /\ trip' - 1 \in Int /\ trip' - 1 <= trip - 1
    <3>1. \A m, n \in Nat : m <= n => n - 1 \in Int /\ m - 1 \in Int /\ m - 1 <= n - 1
      OBVIOUS
    <3> QED BY <1>1, <3>1
  <2> QED BY <2>1, <2>2, <2>3, SinceSmaller
<1>3. ASSUME drv.wheels \/ drv.blade PROVE trip' <= NoticeAge + 1 + late
  BY <1>1, <1>3 DEF Wanted
<1>4. ASSUME ~drv.blade, drv.ramp > 0
      PROVE  trip' <= NoticeAge + 1 + late + SpinDown(drv.ramp)
  <2>1. SpinDown(drv.ramp) \in Nat
    <3>1. drv.ramp \in 1..RampSteps
      BY <1>1, <1>4
    <3> QED BY <3>1, SpinDownType
  <2>2. trip <= NoticeAge + 1 + late + SpinDown(drv.ramp)
    BY <1>4 DEF Wanted
  <2> QED BY <1>1, <2>1, <2>2
<1> QED BY <1>2, <1>3, <1>4

\* Frames that were there before, and a smaller age.
LEMMA SentKept ==
  ASSUME LineInv, Sent, trip' \in Nat, trip' <= trip,
         \A i \in DOMAIN toMcu' : \E j \in DOMAIN toMcu : toMcu'[i] = toMcu[j]
  PROVE  Sent'
<1>1. trip \in Nat /\ WheelAge \in Nat /\ SpinAge \in Nat
  BY Ages, Bounds DEF LineInv
<1>2. ASSUME NEW i \in DOMAIN toMcu', toMcu'[i].kind = "M"
      PROVE  /\ toMcu'[i].wheels => trip' <= WheelAge
             /\ toMcu'[i].blade => trip' <= SpinAge
  <2>1. PICK j \in DOMAIN toMcu : toMcu'[i] = toMcu[j]
    OBVIOUS
  <2>2. /\ toMcu'[i].wheels => trip <= WheelAge
        /\ toMcu'[i].blade => trip <= SpinAge
    BY <1>2, <2>1 DEF Sent
  <2> QED BY <1>1, <2>2
<1> QED BY <1>2 DEF Sent, WheelAge, SpinAge, NoticeAge, SpinDown

LEMMA CycleKeepsTrip == LineInv /\ LookInv /\ TripInv /\ Cycle => TripInv'
<1> SUFFICES ASSUME LineInv, LookInv, TripInv, Cycle PROVE TripInv'
  OBVIOUS
<1>1. PICK c \in Commands : CycleOf(c)
  BY CycleEffect
<1>2. /\ pi = "on" /\ late > 0 /\ late' = 0 /\ toPi' = <<>>
      /\ trip' = trip /\ fw' = fw
  BY DEF Cycle, fwVars
<1>3. /\ drv \in Drivers /\ late \in 1..(MaxStall + 1) /\ trip \in Nat
      /\ drv.ramp \in 0..RampSteps /\ drv.blade \in BOOLEAN /\ drv.wheels \in BOOLEAN
      /\ RampSteps \in Nat \ {0}
  BY <1>2, Ages, LinkAssumption DEF LineInv, Drivers
<1>4. Told /\ Wanted /\ Sent /\ Obeyed
  BY DEF TripInv
<1>5. Told'
  BY <1>2, <1>4 DEF Told
<1>6. Obeyed'
  BY <1>2, <1>4 DEF Obeyed, WheelAge, SpinAge, NoticeAge, SpinDown, Held
<1>7. ASSUME drv'.connected, ~drv'.bumper
      PROVE  Since(drv'.rx, drv'.console, 0, trip - 1)
  <2>1. Opened \/ Looked
    BY <1>2 DEF LookInv
  <2>2. \/ drv.connected /\ Recent(trip - 1) /\ ~Answered(toPi)
        \/ toPi # <<>> /\ trip - 1 <= late - 1
    <3>1. toPi \in Seq(AnswerFrames) /\ Len(toPi) <= 2
      <4>1. Len(toPi) \in Nat /\ Len(toMcu) \in Nat /\ Len(toPi) + Len(toMcu) <= 2
        BY LenProperties DEF LineInv, Buffer
      <4> QED BY <4>1 DEF LineInv
    <3>2. CASE toPi = <<>>
      <4>1. PollRx(drv, toPi) = drv /\ ~Answered(toPi)
        BY <1>3, <3>1, <3>2, PollType, NoFrames
      <4>2. ~drv.bumper
        BY <1>1, <1>7, <4>1 DEF CycleOf
      <4>3. drv'.connected = ((drv.connected \/ Answered(toPi))
               /\ (drv.console < ConsolePeriod \/ (drv.rx \/ Answered(toPi))))
        BY <1>1 DEF CycleOf
      <4>4. drv.connected
        BY <1>7, <4>1, <4>3
      <4> QED BY <1>2, <1>4, <4>1, <4>2, <4>4 DEF Wanted
    <3>3. CASE toPi # <<>>
      <4>1. PollRx(drv, toPi).bumper = toPi[Len(toPi)].bumper
        BY <1>3, <3>1, <3>3, PollType
      <4>2. ~toPi[Len(toPi)].bumper
        BY <1>1, <1>7, <4>1 DEF CycleOf
      <4>3. Len(toPi) \in DOMAIN toPi
        BY <3>1, <3>3, EmptySeq, LenProperties
      <4>4. trip <= late
        BY <1>2, <1>4, <4>2, <4>3 DEF Told
      <4> QED BY <1>3, <3>3, <4>4
    <3> QED BY <3>2, <3>3
  <2>3. trip - 1 \in Int
    BY <1>3
  <2> QED BY <1>1, <1>2, <1>7, <2>1, <2>2, <2>3, CycleKeepsSince
<1>8. drv'.wheels \/ drv'.blade => trip <= NoticeAge + 1
  <2> SUFFICES ASSUME drv'.wheels \/ drv'.blade PROVE trip <= NoticeAge + 1
    OBVIOUS
  <2>1. drv'.connected /\ ~drv'.bumper
    BY <1>1 DEF CycleOf
  <2>2. Since(drv'.rx, drv'.console, 0, trip - 1)
    BY <1>7, <2>1
  <2>3. ConsolePeriod \in Nat \ {0} /\ MaxStall \in Nat
    BY LinkAssumption
  <2> QED BY <1>3, <2>2, <2>3, Ages DEF Since
<1>9. drv'.ramp > 0 =>
        \/ trip <= NoticeAge + 1 + (1 + MaxStall)
        \/ drv'.ramp \in 1..RampSteps /\ trip <= NoticeAge + 1 + SpinDown(drv'.ramp)
  <2> SUFFICES ASSUME drv'.ramp > 0
               PROVE  \/ trip <= NoticeAge + 1 + (1 + MaxStall)
                      \/ /\ drv'.ramp \in 1..RampSteps
                         /\ trip <= NoticeAge + 1 + SpinDown(drv'.ramp)
    OBVIOUS
  <2>1. drv'.ramp = IF drv.blade THEN Most(drv.ramp + 1, RampSteps)
                                 ELSE IF drv.ramp = 0 THEN 0 ELSE drv.ramp - 1
    BY <1>1 DEF CycleOf
  <2>2. CASE drv.blade
    <3>1. trip <= NoticeAge + 1 + late
      BY <1>2, <1>4, <2>2 DEF Wanted
    <3> QED BY <1>3, <3>1, Bounds
  <2>3. CASE ~drv.blade
    <3>1. drv'.ramp = drv.ramp - 1 /\ drv.ramp > 1 /\ drv.ramp \in 1..RampSteps
      BY <1>3, <2>1, <2>3
    <3>2. trip <= NoticeAge + 1 + late + SpinDown(drv.ramp)
      BY <1>2, <1>3, <1>4, <2>3, <3>1 DEF Wanted
    <3>3. /\ SpinDown(drv.ramp - 1) = SpinDown(drv.ramp) + 1 + MaxStall
          /\ SpinDown(drv.ramp) \in Nat
      BY <3>1, SpinDownType
    <3>4. trip <= NoticeAge + 1 + SpinDown(drv.ramp - 1)
      BY <1>3, <3>2, <3>3, Bounds
    <3>5. drv'.ramp \in 1..RampSteps
      BY <1>3, <3>1
    <3> QED BY <3>1, <3>4, <3>5
  <2> QED BY <2>2, <2>3
<1>10. Wanted'
  <2>1. ASSUME drv'.connected, ~drv'.bumper PROVE Recent(trip - 1)'
    BY <1>2, <1>7, <2>1 DEF Recent
  <2>2. drv'.wheels \/ drv'.blade => trip' <= NoticeAge + 1 + late'
    BY <1>2, <1>3, <1>8, Bounds
  <2>3. ASSUME drv'.ramp > 0
        PROVE  trip' <= NoticeAge + 1 + late' + SpinDown(drv'.ramp)
    <3>1. drv'.ramp \in 1..RampSteps
      <4>1. drv'.ramp \in 0..RampSteps
        BY <1>1 DEF CycleOf, Drivers
      <4> QED BY <1>3, <2>3, <4>1
    <3>2. SpinDown(drv'.ramp) \in Nat /\ SpinDown(drv'.ramp) >= 1 + MaxStall
      BY <3>1, SpinDownType
    <3> QED BY <1>2, <1>3, <1>9, <2>3, <3>2, Bounds
  <2> QED BY <2>1, <2>2, <2>3 DEF Wanted, NoticeAge, SpinDown
<1>11. Sent'
  <2>1. ASSUME NEW i \in DOMAIN toMcu', toMcu'[i].kind = "M"
        PROVE  /\ toMcu'[i].wheels => trip <= WheelAge
               /\ toMcu'[i].blade => trip <= SpinAge
    <3>1. \/ \E j \in DOMAIN toMcu : toMcu'[i] = toMcu[j]
          \/ toMcu'[i] = [kind |-> "M", wheels |-> drv.wheels, blade |-> drv'.ramp > 0]
          \/ toMcu'[i] = Summary
      BY <1>1 DEF CycleOf
    <3>2. CASE \E j \in DOMAIN toMcu : toMcu'[i] = toMcu[j]
      BY <1>4, <2>1, <3>2 DEF Sent
    <3>3. CASE toMcu'[i] = [kind |-> "M", wheels |-> drv.wheels, blade |-> drv'.ramp > 0]
      <4>1. toMcu'[i].wheels = drv.wheels /\ (toMcu'[i].blade <=> drv'.ramp > 0)
        <5> DEFINE b == drv'.ramp > 0
        <5>1. toMcu'[i] = [kind |-> "M", wheels |-> drv.wheels, blade |-> b]
          BY <3>3
        <5>2. b \in BOOLEAN
          OBVIOUS
        <5> HIDE DEF b
        <5>3. toMcu'[i].wheels = drv.wheels /\ toMcu'[i].blade = b
          BY <5>1
        <5> QED BY <5>2, <5>3 DEF b
      <4>2. drv.wheels => trip <= WheelAge
        <5>1. drv.wheels => trip <= NoticeAge + 1 + late
          BY <1>2, <1>4 DEF Wanted
        <5> QED BY <1>3, <5>1, Bounds
      <4>3. drv'.ramp > 0 => trip <= SpinAge
        <5>1. drv'.ramp \in 1..RampSteps => SpinDown(drv'.ramp) <= SpinDown(1)
                                            /\ SpinDown(drv'.ramp) \in Nat
          BY SpinDownType
        <5> QED BY <1>3, <1>9, <5>1, Bounds
      <4> QED BY <4>1, <4>2, <4>3
    <3>4. CASE toMcu'[i] = Summary
      BY <2>1, <3>4 DEF Summary
    <3> QED BY <3>1, <3>2, <3>3, <3>4
  <2> QED BY <1>2, <2>1 DEF Sent, WheelAge, SpinAge, NoticeAge, SpinDown
<1> QED BY <1>5, <1>6, <1>10, <1>11 DEF TripInv

\* A pass without a new frame from the computer, or with one.
LEMMA PassKeepsTrip ==
  ASSUME LineInv, TripInv, FwInv', NEW c \in Commands \cup {Nothing}, Loop(c), Released,
         UNCHANGED <<drv, pi, late>>,
         c # Nothing => /\ c.wheels => trip <= WheelAge
                        /\ c.blade => trip <= SpinAge,
         \A i \in DOMAIN toMcu' : \E j \in DOMAIN toMcu : toMcu'[i] = toMcu[j],
         \A i \in DOMAIN toPi' : \/ \E j \in DOMAIN toPi : toPi'[i] = toPi[j]
                                 \/ toPi'[i].bumper = fw.bumper
  PROVE  TripInv'
<1>1. /\ Obeyed' /\ (~fw'.bumper => trip' = 0)
      /\ trip' \in Nat /\ trip' <= trip
  BY LoopKeepsObeyed
<1>2. Wanted' /\ Sent'
  BY <1>1, WantedKept, SentKept DEF TripInv
<1>3. Told'
  <2>1. ASSUME pi = "on", NEW i \in DOMAIN toPi', ~toPi'[i].bumper
        PROVE  trip' <= late
    <3>1. trip \in Nat /\ late \in Nat
      BY Ages, LinkAssumption DEF LineInv
    <3>2. CASE \E j \in DOMAIN toPi : toPi'[i] = toPi[j]
      <4>1. trip <= late
        BY <2>1, <3>2 DEF TripInv, Told
      <4> QED BY <1>1, <3>1, <4>1
    <3>3. CASE toPi'[i].bumper = fw.bumper
      <4>1. trip = 0
        BY <2>1, <3>3 DEF TripInv, Told
      <4> QED BY <1>1, <3>1, <4>1
    <3> QED BY <3>2, <3>3
  <2> QED BY <1>1, <2>1 DEF Told
<1> QED BY <1>1, <1>2, <1>3 DEF TripInv

\* One more frame on the way.
LEMMA AnswerFramesOf ==
  ASSUME NEW s \in Seq(AnswerFrames), NEW a \in AnswerFrames, NEW b, a.bumper = b
  PROVE  \A i \in DOMAIN Append(s, a) : \/ \E j \in DOMAIN s : Append(s, a)[i] = s[j]
                                        \/ Append(s, a)[i].bumper = b
<1> DEFINE t == Append(s, a)
<1>1. /\ t \in Seq(AnswerFrames) /\ Len(t) = Len(s) + 1 /\ t[Len(s) + 1] = a
      /\ \A i \in 1..Len(s) : t[i] = s[i]
  BY AppendProperties
<1>2. Len(s) \in Nat /\ DOMAIN s = 1..Len(s) /\ DOMAIN t = 1..Len(t)
  BY <1>1, LenProperties
<1> HIDE DEF t
<1>3. ASSUME NEW i \in DOMAIN t
      PROVE  (\E j \in DOMAIN s : t[i] = s[j]) \/ t[i].bumper = b
  <2>1. i \in 1..Len(s) \/ i = Len(s) + 1
    BY <1>1, <1>2
  <2>2. CASE i \in 1..Len(s)
    <3>1. i \in DOMAIN s /\ t[i] = s[i]
      BY <1>1, <1>2, <2>2
    <3> QED BY <3>1
  <2>3. CASE i = Len(s) + 1
    BY <1>1, <2>3
  <2> QED BY <2>1, <2>2, <2>3
<1> QED BY <1>3 DEF t

\* A unit of time in which the controller does not hang.
LEMMA TickKeepsTrip ==
  ASSUME LineInv, TripInv, Tick, "hang" \notin Disturbances
  PROVE  TripInv'
<1>1. /\ drv \in Drivers /\ trip \in Nat /\ late \in 0..(MaxStall + 1) /\ late \in Nat
      /\ FwInv /\ FwTick /\ fw.bumper \in BOOLEAN /\ MaxStall \in Nat
  BY Ages, LinkAssumption DEF LineInv, Tick, FwInv, FwTypeOK, FwState
<1>2. /\ trip' \in Nat /\ trip' <= trip + 1
      /\ ~fw.bumper => trip' = 0
  BY <1>1, Ages DEF Tick, Watch, Most
<1>3. \/ /\ fw.boot > 0 /\ fw'.bumper = fw.bumper
         /\ ~fw'.wheels /\ ~fw'.blade /\ ~fw'.outWheels /\ ~fw'.outBlade
      \/ /\ fw.boot = 0 /\ ~fw.due /\ fw'.due = TRUE /\ fw'.bumper = fw.bumper
         /\ fw'.quiet = IF fw.quiet > MotorTimeout THEN fw.quiet ELSE fw.quiet + 1
         /\ fw'.wheels = fw.wheels /\ fw'.blade = fw.blade
         /\ fw'.outWheels = fw.outWheels /\ fw'.outBlade = fw.outBlade
  BY <1>1, TickEffect
<1>4. Told /\ Wanted /\ Sent /\ Obeyed
  BY DEF TripInv
<1>5. pi' = pi /\ toPi' = toPi /\ (pi = "on" => late' = late + 1)
  BY DEF Tick
<1>6. Told'
  <2>1. ~fw'.bumper => trip' = 0
    BY <1>2, <1>3
  <2>2. ASSUME pi = "on", NEW i \in DOMAIN toPi, ~toPi[i].bumper
        PROVE  trip' <= late + 1
    <3>1. trip <= late
      BY <1>4, <2>2 DEF Told
    <3> QED BY <1>1, <1>2, <3>1
  <2> QED BY <1>5, <2>1, <2>2 DEF Told
<1>7. Wanted'
  <2> SUFFICES ASSUME pi = "on"
               PROVE  /\ drv'.connected /\ ~drv'.bumper
                           => Since(drv'.rx, drv'.console, late', trip' - 1)
                      /\ drv'.wheels \/ drv'.blade => trip' <= NoticeAge + 1 + late'
                      /\ ~drv'.blade /\ drv'.ramp > 0
                           => trip' <= NoticeAge + 1 + late' + SpinDown(drv'.ramp)
    BY <1>5 DEF Wanted, Recent, NoticeAge, SpinDown
  <2>1. /\ drv'.wheels = drv.wheels /\ drv'.blade = drv.blade /\ drv'.ramp = drv.ramp
        /\ drv'.connected = drv.connected /\ drv'.bumper = drv.bumper
    BY <1>1, TickDriver
  <2>2. ASSUME drv'.connected, ~drv'.bumper
        PROVE  Since(drv'.rx, drv'.console, late', trip' - 1)
    <3>1. Recent(trip - 1)
      BY <1>4, <2>1, <2>2 DEF Wanted
    <3>2. /\ trip - 1 \in Int /\ trip' - 1 \in Int /\ trip' - 1 <= (trip - 1) + 1
      <4>1. \A m, n \in Nat : m <= n + 1 =>
              n - 1 \in Int /\ m - 1 \in Int /\ m - 1 <= (n - 1) + 1
        OBVIOUS
      <4> QED BY <1>1, <1>2, <4>1
    <3> QED BY <1>1, <3>1, <3>2, TickKeepsSince
  <2>3. drv'.wheels \/ drv'.blade => trip' <= NoticeAge + 1 + late'
    <3>1. drv.wheels \/ drv.blade => trip <= NoticeAge + 1 + late
      BY <1>4 DEF Wanted
    <3> QED BY <1>1, <1>2, <1>5, <2>1, <3>1, Bounds
  <2>4. ASSUME ~drv'.blade, drv'.ramp > 0
        PROVE  trip' <= NoticeAge + 1 + late' + SpinDown(drv'.ramp)
    <3>1. drv.ramp \in 1..RampSteps
      BY <1>1, <2>1, <2>4, LinkAssumption DEF Drivers
    <3>2. SpinDown(drv.ramp) \in Nat
      BY <3>1, SpinDownType
    <3>3. trip <= NoticeAge + 1 + late + SpinDown(drv.ramp)
      BY <1>4, <2>1, <2>4 DEF Wanted
    <3> QED BY <1>1, <1>2, <1>5, <2>1, <3>2, <3>3, Bounds
  <2> QED BY <2>2, <2>3, <2>4
<1>8. toMcu' = <<>>
  BY <1>1 DEF Tick
<1>9. Sent'
  BY <1>8 DEF Sent
<1>10. Obeyed'
  <2>1. CASE /\ fw.boot > 0
             /\ ~fw'.wheels /\ ~fw'.blade /\ ~fw'.outWheels /\ ~fw'.outBlade
    BY <2>1 DEF Obeyed
  <2>2. CASE /\ fw.boot = 0 /\ ~fw.due /\ fw'.due = TRUE
             /\ fw'.quiet = IF fw.quiet > MotorTimeout THEN fw.quiet ELSE fw.quiet + 1
             /\ fw'.wheels = fw.wheels /\ fw'.blade = fw.blade
             /\ fw'.outWheels = fw.outWheels /\ fw'.outBlade = fw.outBlade
    <3>1. fw.quiet \in Nat /\ MotorTimeout \in Nat
      BY <1>1, FirmwareAssumption DEF FwInv, FwTypeOK, FwState
    <3>2. Held = MotorTimeout + 1 /\ Held' = MotorTimeout + 2
      BY <2>2 DEF Held
    <3>3. (fw.wheels \/ fw.blade) => fw'.quiet = fw.quiet + 1
      BY <1>4, <2>2, <3>1 DEF Obeyed
    <3>4. fw'.wheels => trip' <= WheelAge + fw'.quiet
      <4>1. fw.wheels => trip <= WheelAge + fw.quiet
        BY <1>4 DEF Obeyed
      <4> QED BY <1>1, <1>2, <2>2, <3>1, <3>3, <4>1, Bounds
    <3>5. fw'.blade => trip' <= SpinAge + fw'.quiet
      <4>1. fw.blade => trip <= SpinAge + fw.quiet
        BY <1>4 DEF Obeyed
      <4> QED BY <1>1, <1>2, <2>2, <3>1, <3>3, <4>1, Bounds
    <3>6. fw'.outWheels => trip' <= WheelAge + Held'
      <4>1. fw.outWheels => trip <= WheelAge + Held
        BY <1>4 DEF Obeyed
      <4> QED BY <1>1, <1>2, <2>2, <3>1, <3>2, <4>1, Bounds
    <3>7. fw'.outBlade => trip' <= SpinAge + Held'
      <4>1. fw.outBlade => trip <= SpinAge + Held
        BY <1>4 DEF Obeyed
      <4> QED BY <1>1, <1>2, <2>2, <3>1, <3>2, <4>1, Bounds
    <3> QED BY <2>2, <3>4, <3>5, <3>6, <3>7
            DEF Obeyed, WheelAge, SpinAge, NoticeAge, SpinDown
  <2> QED BY <1>3, <2>1, <2>2
<1> QED BY <1>6, <1>7, <1>9, <1>10 DEF TripInv

LEMMA TripStep ==
  ASSUME "hang" \notin Disturbances
  PROVE  LineInv /\ LookInv /\ TripInv /\ [Next]_vars => TripInv'
<1> SUFFICES ASSUME LineInv, LookInv, TripInv, [Next]_vars PROVE TripInv'
  OBVIOUS
<1>0. FwInv'
  BY StepKeepsInv, LinkStepIsFirmwareStep DEF LineInv
<1>a. Told /\ Wanted /\ Sent /\ Obeyed /\ trip \in Nat
  BY Ages DEF TripInv, LineInv
<1>b. ASSUME fw' = fw, trip' = trip PROVE Obeyed'
  BY <1>a, <1>b DEF Obeyed, WheelAge, SpinAge, NoticeAge, SpinDown, Held
<1>c. ASSUME trip' = trip, toMcu' = toMcu PROVE Sent'
  BY <1>a, <1>c DEF Sent, WheelAge, SpinAge, NoticeAge, SpinDown
<1>d. ASSUME trip' = trip, UNCHANGED <<drv, pi, late>> PROVE Wanted'
  BY <1>a, <1>d, WantedKept
<1>1. CASE Cycle
  BY <1>1, CycleKeepsTrip
<1>2. CASE Leave \/ Crash
  <2>1. pi' # "on" /\ UNCHANGED <<fw, trip, toMcu, toPi>>
    BY <1>2 DEF Leave, Crash, fwVars
  <2>2. Told' /\ Wanted'
    BY <1>a, <2>1 DEF Told, Wanted
  <2> QED BY <1>b, <1>c, <2>1, <2>2 DEF TripInv
<1>3. CASE Restart
  <2>1. /\ drv' = NewDriver /\ toMcu' = <<>> /\ toPi' = <<>>
        /\ fw' = fw /\ trip' = trip
    BY <1>3 DEF Restart, fwVars
  <2>2. Told' /\ Sent'
    BY <1>a, <2>1 DEF Told, Sent
  <2>3. Wanted'
    BY <2>1, NewDriverType DEF Wanted
  <2> QED BY <1>b, <2>1, <2>2, <2>3 DEF TripInv
<1>4. CASE McuPass
  <2>1. Loop(Nothing) /\ Released /\ UNCHANGED <<drv, pi, late, toMcu, toPi>>
    BY <1>4 DEF McuPass, Pass
  <2> QED BY <1>0, <2>1, PassKeepsTrip
<1>5. CASE McuMotor \/ McuSummary
  <2>1. /\ Released /\ UNCHANGED <<drv, pi, late>>
        /\ toMcu # <<>> /\ toMcu' = Tail(toMcu)
        /\ toPi' = Append(toPi, MotorAnswer) \/ toPi' = Append(toPi, SummaryAnswer)
    BY <1>5 DEF McuMotor, McuSummary
  <2>2. /\ 1 \in DOMAIN toMcu /\ Head(toMcu) = toMcu[1]
        /\ \A i \in DOMAIN toMcu' : \E j \in DOMAIN toMcu : toMcu'[i] = toMcu[j]
    BY <2>1, CommandsTail DEF LineInv
  <2>3. \A i \in DOMAIN toPi' : \/ \E j \in DOMAIN toPi : toPi'[i] = toPi[j]
                                \/ toPi'[i].bumper = fw.bumper
    <3>1. /\ MotorAnswer \in AnswerFrames /\ MotorAnswer.bumper = fw.bumper
          /\ SummaryAnswer \in AnswerFrames /\ SummaryAnswer.bumper = fw.bumper
          /\ toPi \in Seq(AnswerFrames)
      BY AnswerTypes DEF LineInv
    <3>2. CASE toPi' = Append(toPi, MotorAnswer)
      BY <3>1, <3>2, AnswerFramesOf
    <3>3. CASE toPi' = Append(toPi, SummaryAnswer)
      BY <3>1, <3>3, AnswerFramesOf
    <3> QED BY <2>1, <3>2, <3>3
  <2>4. \E c \in Commands \cup {Nothing} :
          /\ Loop(c)
          /\ c # Nothing => /\ c.wheels => trip <= WheelAge
                            /\ c.blade => trip <= SpinAge
    <3>1. CASE McuMotor
      <4>1. PICK c \in Commands : /\ FromPi = [kind |-> "M", wheels |-> c.wheels, blade |-> c.blade]
                                  /\ Loop(c)
        BY <3>1 DEF McuMotor, Serve
      <4>2. /\ toMcu[1].kind = "M" /\ toMcu[1].wheels = c.wheels /\ toMcu[1].blade = c.blade
        BY <2>2, <4>1 DEF FromPi
      <4>3. /\ c.wheels => trip <= WheelAge
            /\ c.blade => trip <= SpinAge
        BY <1>a, <2>2, <4>2 DEF Sent
      <4> QED BY <4>1, <4>3
    <3>2. CASE McuSummary
      BY <3>2 DEF McuSummary, Pass
    <3> QED BY <1>5, <3>1, <3>2
  <2> QED BY <1>0, <2>1, <2>2, <2>3, <2>4, PassKeepsTrip
<1>6. CASE McuReset
  <2>1. /\ fw' = Boot(BootTime) /\ toMcu' = <<>> /\ trip' = 0
        /\ UNCHANGED <<drv, pi, late, toPi>>
    BY <1>6 DEF McuReset, Reset
  <2>2. Told'
    BY <2>1, LinkAssumption DEF Told, LineInv
  <2>3. Wanted'
    BY <1>a, <2>1, WantedKept
  <2>4. Sent'
    BY <2>1 DEF Sent
  <2>5. Obeyed'
    BY <2>1 DEF Obeyed, Boot
  <2> QED BY <2>2, <2>3, <2>4, <2>5 DEF TripInv
<1>7. CASE LoseCommand
  <2>1. /\ toMcu # <<>> /\ toMcu' = Tail(toMcu)
        /\ UNCHANGED <<fw, drv, pi, late, toPi, trip>>
    BY <1>7 DEF LoseCommand, fwVars
  <2>2. \A i \in DOMAIN toMcu' : \E j \in DOMAIN toMcu : toMcu'[i] = toMcu[j]
    BY <2>1, CommandsTail DEF LineInv
  <2>3. Sent'
    BY <1>a, <2>1, <2>2, SentKept
  <2>4. Told'
    BY <1>a, <2>1 DEF Told
  <2> QED BY <1>b, <1>d, <2>1, <2>3, <2>4 DEF TripInv
<1>8. CASE LoseAnswer
  <2>1. /\ toPi # <<>> /\ toPi' = Tail(toPi)
        /\ UNCHANGED <<fw, drv, pi, late, toMcu, trip>>
    BY <1>8 DEF LoseAnswer, fwVars
  <2>2. \A i \in DOMAIN toPi' : i + 1 \in DOMAIN toPi /\ toPi'[i] = toPi[i + 1]
    <3>1. Len(toPi) <= 2 /\ toPi \in Seq(AnswerFrames)
      <4>1. Len(toPi) \in Nat /\ Len(toMcu) \in Nat /\ Len(toMcu) + Len(toPi) <= 2
        BY LenProperties DEF LineInv, Buffer
      <4> QED BY <4>1 DEF LineInv
    <3> QED BY <2>1, <3>1, FramesTail
  <2>3. Told'
    BY <1>a, <2>1, <2>2 DEF Told
  <2> QED BY <1>b, <1>c, <1>d, <2>1, <2>3 DEF TripInv
<1>9. CASE Tick
  BY <1>9, TickKeepsTrip
<1>10. CASE UNCHANGED vars
  <2>1. UNCHANGED <<fw, drv, pi, late, toMcu, toPi, trip>>
    BY <1>10 DEF vars, fwVars
  <2>2. Told'
    BY <1>a, <2>1 DEF Told
  <2> QED BY <1>b, <1>c, <1>d, <2>1, <2>2 DEF TripInv
<1> QED BY <1>1, <1>2, <1>3, <1>4, <1>5, <1>6, <1>7, <1>8, <1>9, <1>10 DEF Next

\* The types of the composed system.
THEOREM LinkTypeCorrect == Spec => []TypeOK
<1>1. LineInv => TypeOK
  <2> SUFFICES ASSUME LineInv PROVE TypeOK
    OBVIOUS
  <2>1. Len(toMcu) <= Buffer /\ Len(toPi) <= 2 * Buffer
    <3>1. Len(toPi) \in Nat /\ Len(toMcu) \in Nat /\ Len(toMcu) + Len(toPi) <= 2
      BY LenProperties DEF LineInv, Buffer
    <3> QED BY <3>1 DEF Buffer
  <2> QED BY <2>1 DEF LineInv, FwInv, TypeOK, Drivers
<1> QED BY <1>1, InitLine, LineStep, PTL DEF Spec

\* Every tick of the wheels is reported once, or still on its way: whatever the
\* line loses, whenever the controller hangs, is reset or boots, and however
\* late the computer's cycles are.
THEOREM TicksAlwaysKept == Spec => []TicksKept
<1>1. LineInv => TicksKept
  BY DEF LineInv
<1> QED BY <1>1, InitLine, LineStep, PTL DEF Spec

\* The computer never believes in a controller that has not answered a motor
\* command for two looks.
THEOREM SilenceAlwaysNoticed == Spec => []SilenceNoticed
<1> QED BY InitLine, LineStep, InitLook, LookStep, LookNotices, PTL DEF Spec

\* A pressed bumper stops the wheels and, after the ramp, the blade, unless the
\* controller hangs.
THEOREM TripAlwaysStops ==
  ASSUME "hang" \notin Disturbances
  PROVE  Spec => []TripStopsMotors
<1>1. Init => LineInv /\ LookInv /\ TripInv
  BY InitLine, InitLook, InitTrip
<1>2. /\ LineInv /\ LookInv /\ TripInv /\ [Next]_vars
      => (LineInv /\ LookInv /\ TripInv)'
  BY LineStep, LookStep, TripStep
<1>3. LineInv /\ LookInv /\ TripInv => TripStopsMotors
  BY TripStops
<1> QED BY <1>1, <1>2, <1>3, PTL DEF Spec
=============================================================================
