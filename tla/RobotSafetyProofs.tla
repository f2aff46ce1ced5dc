-------------------------- MODULE RobotSafetyProofs --------------------------
(***************************************************************************)
(* What Robot::run keeps from cycle to cycle, for every choice of inputs,  *)
(* commands and bounds the theorems name: its types, where detours return  *)
(* to, which operation a motor may run in, that a followed route exists,   *)
(* that a shutdown leaves the motors at rest, and that a silent motor      *)
(* controller does.                                                        *)
(***************************************************************************)
EXTENDS RobotLoopProofs

----------------------------------------------------------------------------
(* The order of the phases                                                 *)

LEMMA PhaseList ==
  PhaseNames = {"hardware", "schedule", "commands", "execute", "assemble",
                "battery", "mcu", "gps", "outside", "map", "stuck", "overload",
                "watchdog", "flush", "begin", "run", "arrive", "settle", "diag",
                "button", "manual", "stop", "lift", "fault", "remember"}
<1>1. DOMAIN Phases = 1..25
  BY DEF Phases
<1>2. \A x : x \in PhaseNames <=> \E i \in 1..25 : x = Phases[i]
  BY <1>1 DEF PhaseNames
<1> QED
  BY <1>2 DEF Phases

LEMMA ThenIsPhase == ASSUME NEW p \in PhaseNames PROVE Then[p] \subseteq PhaseNames
  BY DEF Then

\* The cycle goes from the i-th phase no further than to the next live one.
LEMMA PhaseOrder ==
  ASSUME NEW i \in 1..25, NEW k \in 1..25, i < k, Live(Phases[k]),
         NEW q \in Then[Phases[i]]
  PROVE  \E j \in 1..25 : i < j /\ j <= k /\ q = Phases[j] /\ Live(q)
<1>1. DOMAIN Phases = 1..25
  BY DEF Phases
<1>2. Phases[i] \in PhaseNames
  BY <1>1 DEF PhaseNames
<1>3. Follows(Phases[i], q)
  BY <1>2 DEF Then
<1>4. \A h \in 1..25 : Phases[h] = Phases[i] => h = i
  BY DEF Phases
<1> QED
  BY <1>1, <1>3, <1>4 DEF Follows

----------------------------------------------------------------------------
(* Types                                                                   *)

SeenTypes    == [bumper : BOOLEAN, fault : BOOLEAN, rain : BOOLEAN, lift : BOOLEAN,
                 lifted : BOOLEAN, button : BOOLEAN, outside : BOOLEAN]
LatchTypes   == [noSignal : BOOLEAN, fixTimeout : BOOLEAN, mcu : BOOLEAN,
                 kidnapped : BOOLEAN, window : BOOLEAN, recovering : BOOLEAN,
                 undock : {"reverse", "dropped", "path", "lost"},
                 docking : BOOLEAN, stuck : 0..MaxStuck, lastOp : OpNames]
MotorTypes   == [drive : BOOLEAN, blade : BOOLEAN]
JobTypes     == [route : {"none", "mow", "dock"}, plan : BOOLEAN, mission : BOOLEAN,
                 saved : BOOLEAN, halted : BOOLEAN]
BlockedTypes == [now : BOOLEAN, ctx : BOOLEAN, last : BOOLEAN]

\* What a phase of the loop owns, apart from the transition state.
LoopTypeOK ==
  /\ pc \in PhaseNames \union {"off"}
  /\ sens \in Readings
  /\ seen \in SeenTypes
  /\ latch \in LatchTypes
  /\ motor \in MotorTypes
  /\ job \in JobTypes
  /\ blocked \in BlockedTypes
  /\ batch \in Seq(Commands) /\ Len(batch) <= MaxBatch
  /\ diag \in {"none", "allowed", "active"}
  /\ running \in BOOLEAN

LEMMA ReadingTypes ==
  ASSUME NEW r \in Readings
  PROVE  /\ r.bumper \in BOOLEAN /\ r.lift \in BOOLEAN /\ r.fault \in BOOLEAN
         /\ r.rain \in BOOLEAN /\ r.charger \in BOOLEAN /\ r.outside \in BOOLEAN
         /\ r.mcuLost \in BOOLEAN /\ r.button \in BOOLEAN
         /\ r.gps \in {"fix", "float", "none"}
         /\ r.battery \in {"ok", "low", "critical"}
<1> DEFINE Gps     == IF "gps" \in Inputs THEN {"fix", "float", "none"} ELSE {"fix"}
           Battery == IF "battery" \in Inputs THEN {"ok", "low", "critical"} ELSE {"ok"}
<1>1. \A x : May(x) \subseteq BOOLEAN
  BY DEF May
<1>2. r \in [bumper : May("bumper"), lift : May("lift"), fault : May("fault"),
             rain : May("rain"), charger : May("charger"),
             outside : May("outside"), mcuLost : May("mcu"),
             button : May("button"), gps : Gps, battery : Battery]
  BY DEF Readings
<1>3. Gps \subseteq {"fix", "float", "none"} /\ Battery \subseteq {"ok", "low", "critical"}
  OBVIOUS
<1> HIDE DEF Gps, Battery
<1> QED
  BY <1>1, <1>2, <1>3

Mowing == [Driving EXCEPT !.blade = TRUE]

LEMMA MotorValues ==
  /\ {Stopped, Driving, Mowing, [drive |-> FALSE, blade |-> TRUE]} \subseteq MotorTypes
  /\ ~Stopped.drive /\ ~Stopped.blade /\ ~Driving.blade
<1>1. \A m \in MotorTypes : [m EXCEPT !.blade = TRUE] \in MotorTypes
  BY DEF MotorTypes
<1>2. \A d, b \in BOOLEAN : [drive |-> d, blade |-> b] \in MotorTypes
  BY DEF MotorTypes
<1>3. ~Stopped.drive /\ ~Stopped.blade /\ ~Driving.blade
  BY DEF Stopped, Driving
<1> QED
  BY <1>1, <1>2, <1>3, Zenon DEF Stopped, Driving, Mowing

LEMMA TellTyped == ASSUME LoopTypeOK, NEW ev, Tell(ev) PROVE motor' \in MotorTypes
  BY TellStops, MotorValues DEF LoopTypeOK

\* The operator's commands keep the mission and what belongs to it typed.
LEMMA CommandTyped ==
  ASSUME LoopTypeOK
  PROVE  /\ StartMowing \/ StartMowingZones \/ ResumeActiveMission \/ StartDocking
              => job' \in JobTypes /\ blocked' \in BlockedTypes
         /\ EmergencyStop
              => /\ job' \in JobTypes /\ blocked' \in BlockedTypes
                 /\ motor' = Stopped /\ diag' \in {"none", "allowed", "active"}
<1>1. [blocked EXCEPT !.now = FALSE] \in BlockedTypes
  BY DEF LoopTypeOK, BlockedTypes
<1>2. Started \in JobTypes /\ [Started EXCEPT !.saved = FALSE] \in JobTypes
  BY DEF LoopTypeOK, JobTypes, Started
<1>3. [Cleared EXCEPT !.saved = FALSE, !.halted = TRUE] \in JobTypes
  BY DEF LoopTypeOK, JobTypes, Cleared
<1>4. [Cleared EXCEPT !.saved = job.saved \/ job.mission, !.halted = FALSE] \in JobTypes
  BY DEF LoopTypeOK, JobTypes, Cleared
<1> QED
  BY <1>1, <1>2, <1>3, <1>4 DEF LoopTypeOK, StartMowing, StartMowingZones,
     ResumeActiveMission, StartDocking, EmergencyStop

\* Sensing, timetable and commands keep the types.
LEMMA SensingTyped ==
  ASSUME LoopTypeOK
  PROVE  /\ Hardware \/ PowerOff \/ CommandsDone \/ Assemble => LoopTypeOK'
         /\ Schedule => LoopTypeOK'
         /\ TakeCommands => LoopTypeOK'
         /\ ExecuteCommand => LoopTypeOK'
<1>0. {"hardware", "schedule", "commands", "execute", "assemble"} \subseteq PhaseNames
  BY PhaseList
<1> USE <1>0, ThenIsPhase, MotorValues DEF At, Advance
<1>1. Hardware \/ PowerOff \/ CommandsDone \/ Assemble => LoopTypeOK'
  <2>1. [blocked EXCEPT !.ctx = blocked.now] \in BlockedTypes
    BY DEF LoopTypeOK, BlockedTypes
  <2> QED
    BY <2>1 DEF LoopTypeOK, Hardware, PowerOff, CommandsDone, Assemble
<1>2. Schedule => LoopTypeOK'
  <2> SUFFICES ASSUME Schedule PROVE LoopTypeOK'
    OBVIOUS
  <2>1. [latch EXCEPT !.window = ~latch.window] \in LatchTypes
    BY DEF LoopTypeOK, LatchTypes
  <2>2. motor' \in MotorTypes
    BY TellTyped DEF Schedule, LoopTypeOK
  <2>3. job' \in JobTypes /\ blocked' \in BlockedTypes
    BY CommandTyped DEF Schedule, LoopTypeOK
  <2> QED
    BY <2>1, <2>2, <2>3 DEF LoopTypeOK, Schedule
<1>3. TakeCommands => LoopTypeOK'
  <2> SUFFICES ASSUME TakeCommands PROVE LoopTypeOK'
    OBVIOUS
  <2>1. PICK n \in 0..MaxBatch : batch' \in [1..n -> Commands]
    BY DEF TakeCommands
  <2>2. batch' \in Seq(Commands) /\ Len(batch') = n
    BY <2>1
  <2>3. Len(batch') <= MaxBatch
    BY <2>2, LoopAssumption
  <2> QED
    BY <2>2, <2>3 DEF LoopTypeOK, TakeCommands
<1>4. ExecuteCommand => LoopTypeOK'
  <2> SUFFICES ASSUME ExecuteCommand PROVE LoopTypeOK'
    OBVIOUS
  <2>1. Tail(batch) \in Seq(Commands) /\ Len(Tail(batch)) <= MaxBatch
    BY LoopAssumption DEF ExecuteCommand, LoopTypeOK
  <2>2. /\ job' \in JobTypes /\ blocked' \in BlockedTypes /\ motor' \in MotorTypes
        /\ diag' \in {"none", "allowed", "active"}
    BY CommandTyped DEF ExecuteCommand, Execute, LoopTypeOK
  <2> QED
    BY <2>1, <2>2 DEF LoopTypeOK, ExecuteCommand
<1> QED
  BY <1>1, <1>2, <1>3, <1>4

\* The safety guards keep the types.
LEMMA GuardTyped ==
  ASSUME LoopTypeOK
  PROVE  /\ CheckBattery => LoopTypeOK'
         /\ MonitorMcu => LoopTypeOK'
         /\ MonitorGps => LoopTypeOK'
         /\ MonitorPerimeter => LoopTypeOK'
         /\ MonitorMapChange => LoopTypeOK'
         /\ MonitorStuck => LoopTypeOK'
         /\ MonitorOverload \/ MonitorWatchdog => LoopTypeOK'
<1>0. {"battery", "mcu", "gps", "outside", "map", "stuck", "overload", "watchdog"}
         \subseteq PhaseNames
  BY PhaseList
<1> USE <1>0, ThenIsPhase, MotorValues DEF At, Advance
<1>1. CheckBattery => LoopTypeOK'
  <2> SUFFICES ASSUME CheckBattery PROVE LoopTypeOK'
    OBVIOUS
  <2>1. motor' \in MotorTypes
    BY TellTyped DEF CheckBattery, LoopTypeOK
  <2> QED
    BY <2>1 DEF LoopTypeOK, CheckBattery
<1>2. MonitorMcu => LoopTypeOK'
  <2>1. Cleared \in JobTypes
    BY DEF LoopTypeOK, JobTypes, Cleared
  <2>2. \A b \in BOOLEAN : [latch EXCEPT !.mcu = b] \in LatchTypes
    BY DEF LoopTypeOK, LatchTypes
  <2>3. [latch EXCEPT !.mcu = TRUE] \in LatchTypes
    BY <2>2
  <2>4. [latch EXCEPT !.mcu = @ /\ (sens.mcuLost \/ active = "Error")] \in LatchTypes
    BY DEF LoopTypeOK, LatchTypes
  <2> QED
    BY <2>1, <2>3, <2>4 DEF LoopTypeOK, MonitorMcu
<1>3. MonitorGps => LoopTypeOK'
  <2> SUFFICES ASSUME MonitorGps PROVE LoopTypeOK'
    OBVIOUS
  <2>1. motor' \in MotorTypes
    BY TellTyped DEF MonitorGps, LoopTypeOK
  <2>2. latch' \in LatchTypes
    BY DEF LoopTypeOK, LatchTypes, MonitorGps
  <2> QED
    BY <2>1, <2>2 DEF LoopTypeOK, MonitorGps
<1>4. MonitorPerimeter => LoopTypeOK'
  <2> SUFFICES ASSUME MonitorPerimeter PROVE LoopTypeOK'
    OBVIOUS
  <2>1. motor' \in MotorTypes
    BY TellTyped DEF MonitorPerimeter, LoopTypeOK
  <2>2. seen' \in SeenTypes
    BY ReadingTypes DEF LoopTypeOK, SeenTypes, MonitorPerimeter
  <2> QED
    BY <2>1, <2>2 DEF LoopTypeOK, MonitorPerimeter
<1>5. MonitorMapChange => LoopTypeOK'
  <2> SUFFICES ASSUME MonitorMapChange PROVE LoopTypeOK'
    OBVIOUS
  <2>1. motor' \in MotorTypes
    BY TellTyped DEF MonitorMapChange, LoopTypeOK
  <2>2. blocked' \in BlockedTypes
    BY DEF LoopTypeOK, BlockedTypes, MonitorMapChange
  <2> QED
    BY <2>1, <2>2 DEF LoopTypeOK, MonitorMapChange
<1>6. MonitorStuck => LoopTypeOK'
  <2> SUFFICES ASSUME MonitorStuck PROVE LoopTypeOK'
    OBVIOUS
  <2>1. motor' \in MotorTypes
    BY TellTyped DEF MonitorStuck, LoopTypeOK
  <2>2. latch' \in LatchTypes
    BY LoopAssumption DEF LoopTypeOK, LatchTypes, MonitorStuck
  <2> QED
    BY <2>1, <2>2 DEF LoopTypeOK, MonitorStuck
<1>7. MonitorOverload \/ MonitorWatchdog => LoopTypeOK'
  <2> SUFFICES ASSUME MonitorOverload \/ MonitorWatchdog PROVE LoopTypeOK'
    OBVIOUS
  <2>1. motor' \in MotorTypes
    BY TellTyped DEF MonitorOverload, MonitorWatchdog, LoopTypeOK
  <2> QED
    BY <2>1 DEF LoopTypeOK, MonitorOverload, MonitorWatchdog
<1> QED
  BY <1>1, <1>2, <1>3, <1>4, <1>5, <1>6, <1>7

\* The tick of the operation manager keeps the types: the transition, begin(),
\* and the bookkeeping after it.
LEMMA TickTyped ==
  ASSUME LoopTypeOK, active \in OpNames
  PROVE  /\ Flush \/ NoFlush => LoopTypeOK'
         /\ Begin => LoopTypeOK'
         /\ Settle => LoopTypeOK'
<1>0. {"flush", "begin", "settle"} \subseteq PhaseNames
  BY PhaseList
<1> USE <1>0, ThenIsPhase, MotorValues DEF At, Advance
<1>1. Flush \/ NoFlush => LoopTypeOK'
  BY DEF LoopTypeOK, Flush, NoFlush
<1>2. Begin => LoopTypeOK'
  <2> SUFFICES ASSUME Begin PROVE LoopTypeOK'
    OBVIOUS
  <2>1. latch' \in LatchTypes
    <3>1. latch \in LatchTypes /\ sens.charger \in BOOLEAN
      BY ReadingTypes DEF LoopTypeOK
    <3>2. CASE BeginMow \/ BeginDock
      BY <3>1, <3>2 DEF BeginMow, BeginDock, LatchTypes
    <3>3. CASE BeginUndock
      BY <3>1, <3>3 DEF BeginUndock, LatchTypes
    <3>4. CASE BeginOther
      BY <3>1, <3>4 DEF BeginOther, LatchTypes
    <3> QED
      BY <3>2, <3>3, <3>4 DEF Begin
  <2>2. job' \in JobTypes
    BY DEF LoopTypeOK, JobTypes, Begin, BeginMow, BeginDock, BeginUndock, BeginOther
  <2>3. motor' \in MotorTypes
    BY DEF LoopTypeOK, Begin
  <2> QED
    BY <2>1, <2>2, <2>3 DEF LoopTypeOK, Begin
<1>3. Settle => LoopTypeOK'
  <2> SUFFICES ASSUME Settle PROVE LoopTypeOK'
    OBVIOUS
  <2>1. latch' \in LatchTypes
    <3> DEFINE count  == IF CountsStuckAnew(active) THEN 0 ELSE latch.stuck
               signal == latch.noSignal /\ ~(active = "NavToStart" /\ sens.gps = "none")
    <3>1. \A n \in 0..MaxStuck : \A b \in BOOLEAN :
            [latch EXCEPT !.lastOp = active, !.stuck = n, !.noSignal = b] \in LatchTypes
      BY DEF LoopTypeOK, LatchTypes
    <3>2. count \in 0..MaxStuck /\ signal \in BOOLEAN
      BY LoopAssumption DEF LoopTypeOK, LatchTypes
    <3>3. latch' \in {latch, [latch EXCEPT !.lastOp = active, !.stuck = count,
                                           !.noSignal = signal]}
      BY DEF Settle
    <3> HIDE DEF count, signal
    <3> QED
      BY <3>1, <3>2, <3>3, Zenon DEF LoopTypeOK
  <2>2. job' \in JobTypes
    BY DEF LoopTypeOK, JobTypes, Settle, Cleared
  <2> QED
    BY <2>1, <2>2 DEF LoopTypeOK, Settle
<1> QED
  BY <1>1, <1>2, <1>3

\* What run() of any operation changes is typed.
LEMMA TrackTyped ==
  ASSUME LoopTypeOK, Track
  PROVE  latch' \in LatchTypes /\ motor' \in MotorTypes
<1>1. \A off \in BOOLEAN : [latch EXCEPT !.kidnapped = off] \in LatchTypes
  BY DEF LoopTypeOK, LatchTypes
<1>2. May("kidnap") \subseteq BOOLEAN
  BY DEF May
<1> QED
  BY <1>1, <1>2, MotorValues DEF Track, Hold, LoopTypeOK, Mowing

LEMMA RunTyped == ASSUME LoopTypeOK, RunStep PROVE LoopTypeOK'
<1> DEFINE Goal1 == latch' \in LatchTypes /\ motor' \in MotorTypes
<1>0. /\ latch \in LatchTypes /\ motor \in MotorTypes
      /\ latch.recovering \in BOOLEAN
  BY DEF LoopTypeOK, LatchTypes
<1>1. ASSUME RunIdle \/ RunGpsWait \/ RunError \/ RunCharge PROVE Goal1
  BY <1>0, <1>1, MotorValues DEF RunIdle, RunGpsWait, RunError, RunCharge
<1>2. ASSUME RunMow PROVE Goal1
  BY <1>0, <1>2, TrackTyped, TellTyped DEF RunMow
<1>3. ASSUME RunDock PROVE Goal1
  BY <1>0, <1>3, TrackTyped, MotorValues DEF RunDock
<1>4. ASSUME RunUndock PROVE Goal1
  <2>1. \A u \in {"reverse", "dropped", "path", "lost"} :
           [latch EXCEPT !.undock = u] \in LatchTypes
    BY <1>0 DEF LatchTypes
  <2> QED
    BY <1>0, <1>4, <2>1, TrackTyped, MotorValues DEF RunUndock, Hold
<1>5. ASSUME RunEscape PROVE Goal1
  <2>1. \A b \in BOOLEAN : [latch EXCEPT !.recovering = b] \in LatchTypes
    BY <1>0 DEF LatchTypes
  <2> QED
    BY <1>0, <1>5, <2>1, MotorValues DEF RunEscape, Hold
<1>6. ASSUME RunWaitRain PROVE Goal1
  <2>1. [latch EXCEPT !.docking = TRUE] \in LatchTypes
    BY <1>0 DEF LatchTypes
  <2> QED
    BY <1>0, <1>6, <2>1, MotorValues DEF RunWaitRain
<1>7. Goal1
  BY <1>1, <1>2, <1>3, <1>4, <1>5, <1>6 DEF RunStep
<1>8. pc' \in PhaseNames
  <2>1. {"run", "arrive"} \subseteq PhaseNames
    BY PhaseList
  <2>2. At("run") /\ (Turn \/ Advance)
    BY DEF RunStep, RunIdle, RunMow, RunDock, RunCharge, RunUndock, RunEscape,
           RunGpsWait, RunWaitRain, RunError, Running, Track
  <2> QED
    BY <2>1, <2>2, ThenIsPhase DEF At, Turn, Advance
<1> QED
  BY <1>7, <1>8 DEF RunStep, LoopTypeOK

\* Waypoint progression and what follows the tick.
LEMMA AfterTickTyped ==
  ASSUME LoopTypeOK
  PROVE  /\ Arrive => LoopTypeOK'
         /\ Diagnose => LoopTypeOK'
         /\ Button => LoopTypeOK'
         /\ ManualDrive => LoopTypeOK'
         /\ SafetyStop => LoopTypeOK'
         /\ SafetyLift => LoopTypeOK'
         /\ SafetyFault => LoopTypeOK'
         /\ Remember => LoopTypeOK'
<1>0. {"hardware", "arrive", "diag", "button", "manual", "stop", "lift", "fault", "remember"}
         \subseteq PhaseNames
  BY PhaseList
<1> USE <1>0, ThenIsPhase, MotorValues DEF At, Advance
<1>1. Arrive => LoopTypeOK'
  <2> SUFFICES ASSUME Arrive PROVE LoopTypeOK'
    OBVIOUS
  <2>1. motor' \in MotorTypes
    BY TellTyped DEF Arrive, Hold, LoopTypeOK
  <2>2. [latch EXCEPT !.kidnapped = FALSE] \in LatchTypes
    BY DEF LoopTypeOK, LatchTypes
  <2>3. [job EXCEPT !.route = "dock"] \in JobTypes
    BY DEF LoopTypeOK, JobTypes
  <2> QED
    BY <2>1, <2>2, <2>3 DEF LoopTypeOK, Arrive
<1>2. Diagnose => LoopTypeOK'
  BY DEF LoopTypeOK, Diagnose
<1>3. Button => LoopTypeOK'
  <2> SUFFICES ASSUME Button PROVE LoopTypeOK'
    OBVIOUS
  <2>1. [seen EXCEPT !.button = sens.button] \in SeenTypes
    BY ReadingTypes DEF LoopTypeOK, SeenTypes
  <2>2. /\ job' \in JobTypes /\ blocked' \in BlockedTypes /\ motor' \in MotorTypes
        /\ diag' \in {"none", "allowed", "active"} /\ running' \in BOOLEAN
    BY CommandTyped DEF Button, Hold, LoopTypeOK
  <2> QED
    BY <2>1, <2>2 DEF LoopTypeOK, Button
<1>4. ManualDrive => LoopTypeOK'
  BY DEF LoopTypeOK, ManualDrive, Hold
<1>5. SafetyStop => LoopTypeOK'
  <2> SUFFICES ASSUME SafetyStop PROVE LoopTypeOK'
    OBVIOUS
  <2>1. \A l \in BOOLEAN : [seen EXCEPT !.lifted = l] \in SeenTypes
    BY DEF LoopTypeOK, SeenTypes
  <2>2. seen.lifted \in BOOLEAN
    BY DEF LoopTypeOK, SeenTypes
  <2>3. seen' \in SeenTypes
    BY <2>1, <2>2 DEF SafetyStop
  <2>4. motor' \in MotorTypes
    BY DEF LoopTypeOK, SafetyStop, Hold
  <2> QED
    BY <2>3, <2>4 DEF LoopTypeOK, SafetyStop
<1>6. SafetyLift => LoopTypeOK'
  <2> SUFFICES ASSUME SafetyLift PROVE LoopTypeOK'
    OBVIOUS
  <2>1. seen' \in SeenTypes
    BY DEF LoopTypeOK, SeenTypes, SafetyLift
  <2>2. motor' \in MotorTypes
    BY TellTyped DEF LoopTypeOK, SafetyLift, Hold
  <2> QED
    BY <2>1, <2>2 DEF LoopTypeOK, SafetyLift
<1>7. SafetyFault => LoopTypeOK'
  <2> SUFFICES ASSUME SafetyFault PROVE LoopTypeOK'
    OBVIOUS
  <2>1. motor' \in MotorTypes
    BY TellTyped DEF LoopTypeOK, SafetyFault, Hold
  <2> QED
    BY <2>1 DEF LoopTypeOK, SafetyFault
<1>8. Remember => LoopTypeOK'
  <2> SUFFICES ASSUME Remember PROVE LoopTypeOK'
    OBVIOUS
  <2>1. seen' \in SeenTypes
    BY ReadingTypes DEF LoopTypeOK, SeenTypes, Remember
  <2>2. motor' \in MotorTypes
    BY TellTyped DEF LoopTypeOK, Remember, Hold
  <2> QED
    BY <2>1, <2>2 DEF LoopTypeOK, Remember
<1> QED
  BY <1>1, <1>2, <1>3, <1>4, <1>5, <1>6, <1>7, <1>8

LEMMA ThreadsTyped == ASSUME LoopTypeOK, LoadMap \/ DiagClient PROVE LoopTypeOK'
<1>1. [blocked EXCEPT !.now = TRUE] \in BlockedTypes
  BY DEF LoopTypeOK, BlockedTypes
<1> QED
  BY <1>1, MotorValues DEF LoopTypeOK, LoadMap, DiagClient, DiagCheck, DiagRequest,
                           DiagTimeout

LEMMA NextTyped == ASSUME LoopTypeOK, active \in OpNames, Next PROVE LoopTypeOK'
  BY SensingTyped, GuardTyped, TickTyped, RunTyped, AfterTickTyped, ThreadsTyped
     DEF Next, Loop

LEMMA InitTyped == Init => LoopTypeOK
<1> SUFFICES ASSUME Init PROVE LoopTypeOK
  OBVIOUS
<1>1. seen \in SeenTypes /\ blocked \in BlockedTypes /\ job \in JobTypes
  BY DEF Init, SeenTypes, BlockedTypes, JobTypes
<1>2. latch \in LatchTypes
  BY LoopAssumption DEF Init, LatchTypes, OpNames
<1> QED
  BY <1>1, <1>2, MotorValues, PhaseList, LoopAssumption DEF Init, LoopTypeOK

\* The transition state and the rest, typed together: what the other invariants
\* below are proved from.
LoopInv == OP!IInv /\ LoopTypeOK

LEMMA LoopInvInit == Init => LoopInv
  BY InitTyped, SameManager, OP!InitIInv DEF Init, LoopInv

LEMMA LoopInvNext == LoopInv /\ [Next]_vars => LoopInv'
<1> SUFFICES ASSUME LoopInv, [Next]_vars PROVE LoopInv'
  OBVIOUS
<1>1. active \in OpNames
  BY SameManager DEF LoopInv
<1>2. OMStep
  BY <1>1, NextIsStep DEF vars, OMStep
<1>3. OP!IInv'
  BY <1>2, SameManager, OP!NextIInv DEF LoopInv
<1>4. LoopTypeOK'
  <2>1. CASE Next
    BY <1>1, <2>1, NextTyped DEF LoopInv
  <2>2. CASE UNCHANGED vars
    BY <2>2 DEF vars, LoopInv, LoopTypeOK
  <2> QED
    BY <2>1, <2>2
<1> QED
  BY <1>3, <1>4 DEF LoopInv

\* Every variable of the control loop keeps its type, for any inputs, commands
\* and bounds: each phase of Robot::run and each of the other threads.
THEOREM LoopTypeCorrect == Spec => []TypeOK
<1>1. LoopInv => TypeOK
  <2>1. OP!TypeOK => OM!TypeOK
    BY SameOMRequests, SameOPRequests
       DEF OP!TypeOK, OM!TypeOK, OP!Priorities, OM!Priorities, OP!LOW, OM!LOW, OP!NORMAL,
           OM!NORMAL, OP!HIGH, OM!HIGH, OP!CRITICAL, OM!CRITICAL
  <2> QED
    BY <2>1 DEF LoopInv, OP!IInv, LoopTypeOK, TypeOK, SeenTypes, LatchTypes, MotorTypes,
                JobTypes, BlockedTypes
<1> QED
  BY <1>1, LoopInvInit, LoopInvNext, PTL DEF Spec

----------------------------------------------------------------------------
(* Detours                                                                 *)

\* OpManager lets the robot send the mower into a detour from anywhere; the
\* loop does so only from an operation that follows a route.  The forward
\* escape is never asked for.
Detoured == {"EscapeReverse", "GpsWait"}

DetourInv ==
  /\ active # "EscapeForward" /\ pending # "EscapeForward"
  /\ pending \in Detoured => active \in Routed /\ next[pending] = active
  /\ active \in Detoured => next[active] \in Routed

\* A request as the loop makes it.
Asked(r) ==
  \/ r.target \in OpNames \ (Detoured \union {"EscapeForward"})
  \/ r.target \in Detoured /\ r.back /\ active \in Routed

\* A step of the loop, as the operation manager sees it.
ManagerStep == Quiet \/ OM!Flush \/ \E r : Asked(r) /\ RequestOp(r)

LEMMA AskedRequests ==
  /\ \A op \in OpNames \ (Detoured \union {"EscapeForward"}) :
        Asked(ChangeTo(op)) /\ \A prio : Asked(Ask(op, prio))
  /\ \A op \in Detoured : active \in Routed => Asked(DetourTo(op))
  BY DEF Asked, Ask, ChangeTo, DetourTo

\* A kidnapping is told only where a route, or the way out of the dock, is
\* followed: an escape would answer it with a wait of its own.
LEMMA AnswerAsked ==
  ASSUME active \in OpNames, active # "EscapeForward",
         NEW ev, ev = "kidnapped" => active # "EscapeReverse", Answer(ev)
  PROVE  ManagerStep
<1> DEFINE Plain == {ChangeTo("Dock"), ChangeTo("Error"), ChangeTo("Idle"),
                     ChangeTo("Mow"), ChangeTo("Undock"), ChangeTo("WaitRain"),
                     Ask("Error", CRITICAL)}
<1>1. \A r \in Plain : Asked(r)
  <2>1. {"Dock", "Error", "Idle", "Mow", "Undock", "WaitRain"}
           \subseteq OpNames \ (Detoured \union {"EscapeForward"})
    BY DEF OpNames, Detoured
  <2> QED
    BY <2>1, AskedRequests
<1>2. ASSUME Hears(ev) PROVE Asked(Table(active)[ev])
  <2>1. CASE active \in Routed
    <3>1. Table(active)[ev] \in Plain \union {DetourTo("EscapeReverse"), DetourTo("GpsWait")}
      BY <1>2, <2>1 DEF Hears, Table, Routed, MowAnswers, NavToStartAnswers, DockAnswers
    <3>2. Asked(DetourTo("EscapeReverse")) /\ Asked(DetourTo("GpsWait"))
      BY <2>1, AskedRequests DEF Detoured
    <3> QED
      BY <1>1, <3>1, <3>2
  <2>2. CASE active \notin Routed
    <3>1. Table(active)[ev] \in Plain
      BY <1>2, <2>2 DEF Hears, Table, Routed, ChargeAnswers, UndockAnswers, WaitRainAnswers,
                        ManualAnswers, DefaultAnswers, EscapeReverseAnswers
    <3> QED
      BY <1>1, <3>1
  <2> QED
    BY <2>1, <2>2
<1> QED
  BY <1>2 DEF Answer, ManagerStep

\* Every phase asks for what a detour can come back from.
LEMMA StepAsks ==
  ASSUME active \in OpNames, DetourInv, Next
  PROVE  ManagerStep
<1> DEFINE Direct == OpNames \ (Detoured \union {"EscapeForward"})
<1>0. /\ {"Idle", "Mow", "Dock", "Charge", "Undock", "NavToStart", "WaitRain", "Error",
          "Manual"} \subseteq Direct
      /\ Routed \subseteq Direct /\ None \notin Routed
  BY DEF OpNames, Detoured, Routed, None
<1>a. \A op \in Direct : RequestOp(ChangeTo(op)) => ManagerStep
  BY AskedRequests DEF ManagerStep
<1>b. \A op \in Direct : \A prio : RequestOp(Ask(op, prio)) => ManagerStep
  BY AskedRequests DEF ManagerStep
<1>c. Quiet => ManagerStep
  BY DEF ManagerStep
<1>d. ASSUME NEW ev, ev # "kidnapped", Answer(ev) \/ Tell(ev) PROVE ManagerStep
  BY <1>d, AnswerAsked DEF Tell, DetourInv
<1> HIDE DEF Direct
<1>e. StartMowing \/ StartMowingZones \/ ResumeActiveMission \/ StartDocking \/ EmergencyStop
        => ManagerStep
  BY <1>0, <1>b, <1>c DEF StartMowing, StartMowingZones, ResumeActiveMission, StartDocking,
                          EmergencyStop, Departure
<1>1. CASE Hardware \/ PowerOff \/ TakeCommands \/ CommandsDone \/ Assemble \/ NoFlush
           \/ Settle \/ Diagnose \/ LoadMap \/ DiagClient
  BY <1>1 DEF ManagerStep, Quiet, Hardware, PowerOff, TakeCommands, CommandsDone, Assemble,
              NoFlush, Settle, Diagnose, LoadMap, DiagClient
<1>2. CASE Schedule \/ ExecuteCommand
  BY <1>2, <1>c, <1>d, <1>e DEF Schedule, ExecuteCommand, Execute
<1>3. CASE CheckBattery \/ MonitorMcu \/ MonitorGps \/ MonitorPerimeter
           \/ MonitorMapChange \/ MonitorStuck \/ MonitorOverload \/ MonitorWatchdog
  <2>1. CASE CheckBattery
    BY <2>1, <1>c, <1>d DEF CheckBattery
  <2>2. CASE MonitorMcu
    BY <2>2, <1>0, <1>b, <1>c DEF MonitorMcu
  <2>3. CASE MonitorGps
    BY <2>3, <1>c, <1>d DEF MonitorGps
  <2>4. CASE MonitorPerimeter \/ MonitorMapChange \/ MonitorOverload \/ MonitorWatchdog
    BY <2>4, <1>c, <1>d DEF MonitorPerimeter, MonitorMapChange, MonitorOverload,
                            MonitorWatchdog
  <2>5. CASE MonitorStuck
    BY <2>5, <1>0, <1>b, <1>c, <1>d DEF MonitorStuck
  <2> QED
    BY <1>3, <2>1, <2>2, <2>3, <2>4, <2>5
<1>4. CASE Flush
  BY <1>4 DEF Flush, ManagerStep
<1>5. CASE Begin
  BY <1>5, <1>0, <1>a, <1>c DEF Begin, BeginMow, BeginDock, BeginUndock, BeginOther
<1>6. CASE RunStep
  <2>1. ASSUME active \in Routed \union {"Undock"}, Track PROVE ManagerStep
    <3>1. active \in OpNames /\ active # "EscapeForward" /\ active # "EscapeReverse"
      BY <2>1 DEF Routed
    <3> QED
      BY <2>1, <3>1, <1>c, AnswerAsked DEF Track, Hold
  <2>2. CASE RunIdle \/ RunWaitRain \/ RunError \/ RunCharge
    BY <2>2, <1>0, <1>a, <1>c DEF RunIdle, RunWaitRain, RunError, RunCharge
  <2>3. CASE RunMow
    BY <2>3, <2>1, <1>d DEF RunMow, Routed
  <2>4. CASE RunDock
    BY <2>4, <2>1, <1>0, <1>a DEF RunDock, Running, Routed
  <2>5. CASE RunUndock
    BY <2>5, <2>1, <1>0, <1>a, <1>c DEF RunUndock, Running, Hold
  <2>6. CASE RunEscape
    <3>1. next[active] \in Direct
      BY <2>6, <1>0 DEF RunEscape, Running, DetourInv, Detoured
    <3> QED
      BY <2>6, <3>1, <1>0, <1>a, <1>c DEF RunEscape, Hold
  <2>7. CASE RunGpsWait
    <3>1. next[active] \in Direct
      BY <2>7, <1>0 DEF RunGpsWait, Running, DetourInv, Detoured
    <3> QED
      BY <2>7, <3>1, <1>0, <1>a, <1>c DEF RunGpsWait
  <2> QED
    BY <1>6, <2>2, <2>3, <2>4, <2>5, <2>6, <2>7 DEF RunStep
<1>7. CASE Arrive
  BY <1>7, <1>0, <1>a, <1>c, <1>d DEF Arrive, Hold
<1>8. CASE Button
  BY <1>8, <1>c, <1>e DEF Button, Hold
<1>9. CASE ManualDrive
  BY <1>9, <1>0, <1>b, <1>c DEF ManualDrive, Hold
<1>10. CASE SafetyStop \/ SafetyLift \/ SafetyFault \/ Remember
  BY <1>10, <1>c, <1>d DEF SafetyStop, SafetyLift, SafetyFault, Remember, Hold
<1> QED
  BY <1>1, <1>2, <1>3, <1>4, <1>5, <1>6, <1>7, <1>8, <1>9, <1>10 DEF Next, Loop

LEMMA DetourStep ==
  ASSUME active \in OpNames, next \in [OpNames -> OpNames \union {None}],
         DetourInv, ManagerStep
  PROVE  DetourInv'
<1>0. None \notin Detoured /\ None # "EscapeForward" /\ OM!None = None
  BY DEF Detoured, None, OM!None
<1>1. CASE Quiet
  BY <1>1 DEF Quiet, omVars, DetourInv
<1>2. CASE OM!Flush
  BY <1>0, <1>2 DEF OM!Flush, DetourInv
<1>3. ASSUME NEW r, Asked(r), RequestOp(r) PROVE DetourInv'
  <2>1. CASE OM!Accepts(r)
    <3>1. /\ pending' = r.target /\ UNCHANGED active /\ r.target # active
          /\ next' = [next EXCEPT ![r.target] = IF r.back THEN active ELSE None]
      BY <1>0, <1>3, <2>1 DEF RequestOp, OM!RequestOp, OM!SetPending, OM!Accepts
    <3>2. r.target \in OpNames /\ Detoured \subseteq OpNames
      BY <1>3 DEF Asked, Detoured, OpNames
    <3>3. active \in Detoured => next'[active] = next[active]
      BY <3>1, <3>2
    <3>4. r.target \in Detoured => active \in Routed /\ next'[r.target] = active
      BY <1>3, <3>1, <3>2 DEF Asked
    <3>5. r.target # "EscapeForward"
      BY <1>3 DEF Asked, Detoured
    <3> QED
      BY <3>1, <3>3, <3>4, <3>5 DEF DetourInv
  <2>2. CASE ~OM!Accepts(r)
    BY <1>3, <2>2 DEF RequestOp, OM!RequestOp, OM!vars, DetourInv
  <2> QED
    BY <2>1, <2>2
<1> QED
  BY <1>1, <1>2, <1>3 DEF ManagerStep

LEMMA DetourInit == Init => DetourInv
  BY DEF Init, OM!Init, OM!None, DetourInv, Detoured, None

LEMMA DetourNext == LoopInv /\ DetourInv /\ [Next]_vars => DetourInv'
<1> SUFFICES ASSUME LoopInv, DetourInv, [Next]_vars PROVE DetourInv'
  OBVIOUS
<1>1. active \in OpNames /\ next \in [OpNames -> OpNames \union {None}]
  BY SameOPRequests DEF LoopInv, OP!IInv, OP!TypeOK
<1>2. CASE Next
  BY <1>1, <1>2, StepAsks, DetourStep
<1>3. CASE UNCHANGED vars
  BY <1>3 DEF vars, omVars, DetourInv
<1> QED
  BY <1>2, <1>3

\* An escape or a wait for GPS goes back to the very operation it was asked for
\* in, and that is one that follows a route: for all disturbances, all operator
\* commands and any depth of the command queue.
THEOREM DetoursReturn == Spec => []DetourReturns
<1>1. DetourInv => DetourReturns
  BY DEF DetourInv, DetourReturns, Detoured
<1> QED
  BY <1>1, LoopInvInit, LoopInvNext, DetourInit, DetourNext, PTL DEF Spec

----------------------------------------------------------------------------
(* The motors                                                              *)

Drivers == Routed \union {"Undock", "EscapeReverse", "Charge", "Manual"}

\* The blade is off when begin() is called, and otherwise on only in Mow; the
\* wheels may still turn when begin() is called, from the operation before.
MotorInv ==
  /\ pc # "diag"
  /\ motor.blade => pc # "begin" /\ active = "Mow"
  /\ motor.drive => pc = "begin" \/ active \in Drivers

\* begin() comes after end(), and only there.
LEMMA BeginFollowsFlush ==
  ASSUME NEW p \in PhaseNames, NEW q \in Then[p], q = "begin"
  PROVE  p = "flush"
<1>1. DOMAIN Phases = 1..25 /\ Phases[14] = "flush" /\ Phases[15] = "begin"
  BY DEF Phases
<1>2. PICK i \in 1..25 : Phases[i] = p
  BY <1>1 DEF PhaseNames
<1>3. Live("flush") /\ Live("begin") /\ "begin" # "hardware"
  BY DEF Live
<1>4. \A k \in 1..25 : Phases[k] = "begin" => k = 15
  BY DEF Phases
<1>5. \A k \in 1..25 : Phases[k] = p => k = i
  BY <1>2 DEF Phases
<1>6. PICK j \in 1..25 : /\ j > i /\ Phases[j] = q
                         /\ \A k \in 1..25 : i < k /\ k < j => ~Live(Phases[k])
  BY <1>1, <1>2, <1>3, <1>5 DEF Then, Follows
<1>7. j = 15 /\ i = 14
  BY <1>1, <1>3, <1>4, <1>6
<1> QED
  BY <1>1, <1>2, <1>7

LEMMA FlushLeadsToBegin == ASSUME NEW q \in Then["flush"] PROVE q = "begin"
<1>1. DOMAIN Phases = 1..25 /\ Phases[14] = "flush" /\ Phases[15] = "begin"
  BY DEF Phases
<1>2. Live(Phases[15])
  BY <1>1 DEF Live
<1>3. \E j \in 1..25 : 14 < j /\ j <= 15 /\ q = Phases[j]
  BY <1>1, <1>2, PhaseOrder
<1> QED
  BY <1>1, <1>3

LEMMA NoDiagnosis ==
  ASSUME "diag" \notin Inputs, NEW p \in PhaseNames, NEW q \in Then[p]
  PROVE  q # "diag"
  BY StopComesLast

\* A step that starts no motor and stays in its operation.
Coasts ==
  /\ motor' \in {motor, Stopped}
  /\ UNCHANGED active
  /\ pc' = pc \/ pc' \notin {"begin", "diag"}

LEMMA CoastKeeps == ASSUME MotorInv, pc # "begin", Coasts PROVE MotorInv'
  BY MotorValues DEF MotorInv, Coasts

LEMMA AdvanceCoasts ==
  ASSUME "diag" \notin Inputs, NEW p \in PhaseNames, p # "flush", pc' \in Then[p]
  PROVE  pc' \notin {"begin", "diag"}
  BY BeginFollowsFlush, NoDiagnosis

LEMMA RequestStays == ASSUME NEW r, RequestOp(r) PROVE UNCHANGED active
  BY DEF RequestOp, OM!RequestOp, OM!SetPending, OM!vars

LEMMA AnswerStays == ASSUME NEW ev, Answer(ev) \/ Tell(ev) PROVE UNCHANGED active
  BY RequestStays DEF Answer, Tell, Quiet, omVars

\* Commands stop motors, and start none.
LEMMA CommandCoasts ==
  /\ StartMowing \/ StartMowingZones \/ ResumeActiveMission \/ StartDocking
       => UNCHANGED active
  /\ EmergencyStop => UNCHANGED active /\ motor' = Stopped
  /\ \A c : Execute(c) => UNCHANGED active /\ motor' \in {motor, Stopped}
<1>1. /\ StartMowing \/ StartMowingZones \/ ResumeActiveMission \/ StartDocking
           => UNCHANGED active
      /\ EmergencyStop => UNCHANGED active /\ motor' = Stopped
  BY RequestStays DEF StartMowing, StartMowingZones, ResumeActiveMission, StartDocking,
                      EmergencyStop, Quiet, omVars
<1> QED
  BY <1>1 DEF Execute

LEMMA PhasesCoast ==
  ASSUME "diag" \notin Inputs
  PROVE  /\ Hardware \/ TakeCommands \/ CommandsDone \/ Assemble => Coasts
         /\ PowerOff => motor' = Stopped /\ pc' = "off"
         /\ Schedule => Coasts
         /\ ExecuteCommand => Coasts
         /\ CheckBattery => Coasts
         /\ MonitorMcu => Coasts
         /\ MonitorGps \/ MonitorPerimeter \/ MonitorMapChange => Coasts
         /\ MonitorStuck => Coasts
         /\ MonitorOverload \/ MonitorWatchdog => Coasts
         /\ NoFlush => Coasts
         /\ Arrive => Coasts
         /\ Settle => Coasts
         /\ Button => Coasts
         /\ SafetyStop => Coasts
         /\ SafetyLift \/ SafetyFault \/ Remember => Coasts
<1>0. PhaseNames \ {"flush"} = {"hardware", "schedule", "commands", "execute", "assemble",
                "battery", "mcu", "gps", "outside", "map", "stuck", "overload",
                "watchdog", "begin", "run", "arrive", "settle", "diag",
                "button", "manual", "stop", "lift", "fault", "remember"}
  BY PhaseList
<1>a. ASSUME pc \in PhaseNames \ {"flush"}, Advance PROVE pc' \notin {"begin", "diag"}
  BY <1>a, AdvanceCoasts DEF Advance
<1> USE DEF At, Coasts
<1>1. Hardware \/ TakeCommands \/ CommandsDone \/ Assemble => Coasts
  BY <1>0, <1>a DEF Hardware, TakeCommands, CommandsDone, Assemble, omVars
<1>2. PowerOff => motor' = Stopped /\ pc' = "off"
  BY DEF PowerOff
<1>3. Schedule => Coasts
  <2> SUFFICES ASSUME Schedule PROVE Coasts
    OBVIOUS
  <2>1. UNCHANGED active /\ motor' \in {motor, Stopped}
    BY AnswerStays, TellStops, CommandCoasts DEF Schedule, Quiet, omVars
  <2> QED
    BY <1>0, <1>a, <2>1 DEF Schedule
<1>4. ExecuteCommand => Coasts
  BY CommandCoasts DEF ExecuteCommand
<1>5. CheckBattery => Coasts
  <2> SUFFICES ASSUME CheckBattery PROVE Coasts
    OBVIOUS
  <2>1. UNCHANGED active /\ motor' \in {motor, Stopped}
    BY AnswerStays, TellStops DEF CheckBattery, Quiet, omVars
  <2> QED
    BY <1>0, <1>a, <2>1 DEF CheckBattery
<1>6. MonitorMcu => Coasts
  BY <1>0, <1>a, RequestStays DEF MonitorMcu, Quiet, omVars
<1>7. MonitorGps \/ MonitorPerimeter \/ MonitorMapChange => Coasts
  <2> SUFFICES ASSUME MonitorGps \/ MonitorPerimeter \/ MonitorMapChange PROVE Coasts
    OBVIOUS
  <2>1. UNCHANGED active /\ motor' \in {motor, Stopped}
    BY AnswerStays, TellStops
       DEF MonitorGps, MonitorPerimeter, MonitorMapChange, Quiet, omVars
  <2> QED
    BY <1>0, <1>a, <2>1 DEF MonitorGps, MonitorPerimeter, MonitorMapChange
<1>8. MonitorStuck => Coasts
  <2> SUFFICES ASSUME MonitorStuck PROVE Coasts
    OBVIOUS
  <2>1. UNCHANGED active /\ motor' \in {motor, Stopped}
    BY RequestStays, AnswerStays, TellStops DEF MonitorStuck, Quiet, omVars
  <2> QED
    BY <1>0, <1>a, <2>1 DEF MonitorStuck
<1>9. MonitorOverload \/ MonitorWatchdog => Coasts
  <2> SUFFICES ASSUME MonitorOverload \/ MonitorWatchdog PROVE Coasts
    OBVIOUS
  <2>1. UNCHANGED active /\ motor' \in {motor, Stopped}
    BY AnswerStays, TellStops DEF MonitorOverload, MonitorWatchdog, Quiet, omVars
  <2> QED
    BY <1>0, <1>a, <2>1 DEF MonitorOverload, MonitorWatchdog
<1>10. NoFlush => Coasts
  BY <1>0, AdvanceCoasts DEF NoFlush, omVars
<1>11. Arrive => Coasts
  <2> SUFFICES ASSUME Arrive PROVE Coasts
    OBVIOUS
  <2>1. UNCHANGED active /\ motor' \in {motor, Stopped}
    BY RequestStays, AnswerStays, TellStops DEF Arrive, Hold, Quiet, omVars
  <2> QED
    BY <1>0, <1>a, <2>1 DEF Arrive
<1>12. Settle => Coasts
  BY <1>0, <1>a DEF Settle, omVars
<1>13. Button => Coasts
  <2> SUFFICES ASSUME Button PROVE Coasts
    OBVIOUS
  <2>1. UNCHANGED active /\ motor' \in {motor, Stopped}
    BY CommandCoasts DEF Button, Hold, Quiet, omVars
  <2> QED
    BY <1>0, <1>a, <2>1 DEF Button
<1>14. SafetyStop => Coasts
  <2> SUFFICES ASSUME SafetyStop PROVE Coasts
    OBVIOUS
  <2>1. UNCHANGED active /\ motor' \in {motor, Stopped}
    BY AnswerStays DEF SafetyStop, Hold, Quiet, omVars
  <2> QED
    BY <1>0, <1>a, <2>1 DEF SafetyStop
<1>15. SafetyLift \/ SafetyFault \/ Remember => Coasts
  <2> SUFFICES ASSUME SafetyLift \/ SafetyFault \/ Remember PROVE Coasts
    OBVIOUS
  <2>1. UNCHANGED active /\ motor' \in {motor, Stopped}
    BY AnswerStays, TellStops DEF SafetyLift, SafetyFault, Remember, Hold, Quiet, omVars
  <2> QED
    BY <1>0, <1>a, <2>1 DEF SafetyLift, SafetyFault, Remember
<1> QED
  BY <1>1, <1>2, <1>3, <1>4, <1>5, <1>6, <1>7, <1>8, <1>9, <1>10, <1>11, <1>12, <1>13,
     <1>14, <1>15

\* run() turns the wheels only in the operations that drive, and the blade only
\* in Mow.
RunFits ==
  /\ \/ motor' \in {motor, Stopped}
     \/ motor' = Driving /\ active \in Drivers
     \/ motor' = Mowing /\ active = "Mow"
  /\ UNCHANGED active

LEMMA RunMotors ==
  ASSUME RunStep
  PROVE  RunFits /\ At("run") /\ (Turn \/ Advance)
<1>0. At("run") /\ (Turn \/ Advance)
  BY DEF RunStep, RunIdle, RunMow, RunDock, RunCharge, RunUndock, RunEscape, RunGpsWait,
         RunWaitRain, RunError, Running, Track
<1>1. ASSUME Track, active \in Routed \union {"Undock"} PROVE RunFits
  BY <1>1, AnswerStays DEF RunFits, Track, Hold, Quiet, omVars, Drivers, Mowing
<1>2. ASSUME RunIdle \/ RunWaitRain \/ RunError \/ RunGpsWait PROVE RunFits
  BY <1>2, RequestStays DEF RunFits, RunIdle, RunWaitRain, RunError, RunGpsWait, Quiet, omVars
<1>3. ASSUME RunMow PROVE RunFits
  BY <1>1, <1>3, AnswerStays, TellStops DEF RunFits, RunMow, Routed
<1>4. ASSUME RunDock PROVE RunFits
  BY <1>1, <1>4, RequestStays DEF RunFits, RunDock, Running, Routed
<1>5. ASSUME RunCharge PROVE RunFits
  BY <1>5, RequestStays DEF RunFits, RunCharge, Running, Drivers, Quiet, omVars
<1>6. ASSUME RunUndock PROVE RunFits
  BY <1>1, <1>6, RequestStays DEF RunFits, RunUndock, Running, Drivers, Hold, Quiet, omVars
<1>7. ASSUME RunEscape PROVE RunFits
  BY <1>7, RequestStays DEF RunFits, RunEscape, Running, Drivers, Hold, Quiet, omVars
<1>8. RunFits
  BY <1>2, <1>3, <1>4, <1>5, <1>6, <1>7 DEF RunStep
<1> QED
  BY <1>0, <1>8

LEMMA MotorNext ==
  ASSUME "diag" \notin Inputs
  PROVE  LoopInv /\ DetourInv /\ MotorInv /\ [Next]_vars => MotorInv'
<1> SUFFICES ASSUME LoopInv, DetourInv, MotorInv, [Next]_vars PROVE MotorInv'
  OBVIOUS
<1>0. /\ {"flush", "begin", "run", "arrive", "manual"} \subseteq PhaseNames
      /\ active \in OpNames
  BY PhaseList, SameManager DEF LoopInv
<1>1. CASE PowerOff
  BY <1>1, PhasesCoast, MotorValues DEF MotorInv
<1>2. CASE Flush
  <2>1. At("flush") /\ pc' \in Then["flush"] /\ motor' \in {motor, Stopped}
    BY <1>2 DEF Flush, At, Advance
  <2>2. pc' = "begin"
    BY <2>1, FlushLeadsToBegin
  <2>3. motor.blade => motor' = Stopped
    BY <1>2 DEF Flush, MotorInv, EndStops
  <2> QED
    BY <2>1, <2>2, <2>3, MotorValues DEF MotorInv
<1>3. CASE Begin
  <2>1. At("begin") /\ pc' \notin {"begin", "diag"}
    BY <1>0, <1>3, AdvanceCoasts DEF Begin, At, Advance
  <2>2. UNCHANGED active
    BY <1>3, RequestStays DEF Begin, BeginMow, BeginDock, BeginUndock, BeginOther, Quiet,
                              omVars
  <2>3. CASE active \in BeginStops
    BY <1>3, <2>1, <2>2, <2>3, MotorValues DEF Begin, MotorInv
  <2>4. CASE active = "Mow"
    BY <1>3, <2>1, <2>2, <2>4 DEF Begin, MotorInv, BeginStops
  <2>5. CASE active \notin BeginStops \union {"Mow"}
    <3>1. active = "EscapeReverse"
      BY <1>0, <2>5 DEF OpNames, BeginStops, DetourInv
    <3>2. motor' = motor /\ ~motor.blade
      BY <1>3, <2>1, <2>5 DEF Begin, MotorInv, At
    <3> QED
      BY <2>1, <2>2, <3>1, <3>2 DEF MotorInv, Drivers
  <2> QED
    BY <2>3, <2>4, <2>5
<1>4. CASE RunStep
  <2>1. pc = "run" /\ pc' \notin {"begin", "diag"}
    BY <1>0, <1>4, RunMotors, AdvanceCoasts DEF At, Turn, Advance
  <2>2. "Mow" \in Drivers
    BY DEF Drivers, Routed
  <2> QED
    BY <1>4, <2>1, <2>2, RunMotors, MotorValues DEF RunFits, MotorInv
<1>5. CASE ManualDrive
  <2>1. pc' \notin {"begin", "diag"} /\ pc # "begin"
    BY <1>0, <1>5, AdvanceCoasts DEF ManualDrive, At, Advance
  <2>2. UNCHANGED active
    BY <1>5, RequestStays DEF ManualDrive, Hold, Quiet, omVars
  <2>3. motor' \in {motor, Stopped} \/ (motor' = Driving /\ active = "Manual")
    <3>1. ASSUME active # "Manual" PROVE UNCHANGED motor
      BY <1>5, <3>1, Zenon DEF ManualDrive, Hold
    <3>2. ASSUME active = "Manual" PROVE motor' \in {motor, Stopped, Driving}
      BY <1>5, <3>2 DEF ManualDrive
    <3> QED
      BY <3>1, <3>2
  <2> QED
    BY <2>1, <2>2, <2>3, MotorValues DEF MotorInv, Drivers
<1>6. CASE Diagnose
  BY <1>6 DEF Diagnose, At, MotorInv
<1>7. CASE LoadMap
  BY <1>7 DEF LoadMap, omVars, MotorInv
<1>8. CASE DiagClient
  BY <1>8 DEF DiagClient
<1>9. CASE UNCHANGED vars
  BY <1>9 DEF vars, omVars, MotorInv
<1>10. CASE Coasts /\ pc # "begin"
  BY <1>10, CoastKeeps
<1>11. ASSUME Hardware \/ Schedule \/ TakeCommands \/ ExecuteCommand \/ CommandsDone
              \/ Assemble \/ CheckBattery \/ MonitorMcu \/ MonitorGps \/ MonitorPerimeter
              \/ MonitorMapChange \/ MonitorStuck \/ MonitorOverload \/ MonitorWatchdog
              \/ NoFlush \/ Arrive \/ Settle \/ Button \/ SafetyStop \/ SafetyLift
              \/ SafetyFault \/ Remember
       PROVE  Coasts /\ pc # "begin"
  <2>1. Coasts
    BY <1>11, PhasesCoast
  <2>2. pc # "begin"
    BY <1>11 DEF At, Hardware, Schedule, TakeCommands, ExecuteCommand, CommandsDone,
       Assemble, CheckBattery, MonitorMcu, MonitorGps, MonitorPerimeter, MonitorMapChange,
       MonitorStuck, MonitorOverload, MonitorWatchdog, NoFlush, Arrive, Settle, Button,
       SafetyStop, SafetyLift, SafetyFault, Remember
  <2> QED
    BY <2>1, <2>2
<1> QED
  BY <1>1, <1>2, <1>3, <1>4, <1>5, <1>6, <1>7, <1>8, <1>9, <1>10, <1>11 DEF Next, Loop

LEMMA MotorInit == Init => MotorInv
  BY MotorValues DEF Init, MotorInv

\* Without a diagnosis no path from one operation to another leaves a motor on:
\* outside begin() the blade turns only in Mow and the wheels only in an
\* operation that drives.
THEOREM MotorsMatch ==
  ASSUME "diag" \notin Inputs
  PROVE  Spec => []MotorsMatchOperation
<1>1. MotorInv => MotorsMatchOperation
  BY DEF MotorInv, MotorsMatchOperation, At, Drivers
<1> QED
  BY <1>1, LoopInvInit, LoopInvNext, DetourInit, DetourNext, MotorInit, MotorNext, PTL
     DEF Spec

----------------------------------------------------------------------------
(* The route                                                               *)

\* From the flush to the end of the tick.
Window == {"begin", "run", "arrive", "settle"}

LEMMA WindowEntry ==
  ASSUME NEW p \in PhaseNames \ (Window \union {"flush"}), NEW q \in Then[p]
  PROVE  q \notin Window
<1>1. DOMAIN Phases = 1..25 /\ Phases[14] = "flush" /\ Phases[1] = "hardware"
  BY DEF Phases
<1>2. PICK i \in 1..25 : Phases[i] = p
  BY <1>1 DEF PhaseNames
<1>3. i < 14 \/ i > 18
  BY <1>2 DEF Phases, Window
<1>4. CASE i < 14
  <2>1. Live(Phases[14])
    BY <1>1 DEF Live
  <2>2. 14 \in 1..25 /\ q \in Then[Phases[i]]
    BY <1>2
  <2>3. PICK j \in 1..25 : i < j /\ j <= 14 /\ q = Phases[j]
    BY SMTT(30), <1>4, <2>1, <2>2, PhaseOrder
  <2> QED
    BY <2>3 DEF Phases, Window
<1>5. CASE i > 18
  <2>1. \A k \in 1..25 : Phases[k] = p => k = i
    BY <1>2 DEF Phases
  <2>2. q = "hardware" \/ \E j \in 1..25 : j > i /\ Phases[j] = q
    BY <1>1, <2>1 DEF Then, Follows
  <2>3. \A j \in 1..25 : j > 18 => Phases[j] \notin Window
    BY DEF Phases, Window
  <2> QED
    BY <1>5, <2>2, <2>3 DEF Window
<1> QED
  BY <1>3, <1>4, <1>5

\* The loop is only in phases that have their input.
LiveInv == pc = "off" \/ Live(pc)

LEMMA ThenIsLive == ASSUME NEW p \in PhaseNames, NEW q \in Then[p] PROVE Live(q)
  BY DEF Then, Follows, Live

LEMMA LiveNext == LoopInv /\ LiveInv /\ [Next]_vars => LiveInv'
<1> SUFFICES ASSUME LoopInv, LiveInv, [Next]_vars PROVE LiveInv'
  OBVIOUS
<1>1. ASSUME NEW p \in PhaseNames, pc' \in Then[p] PROVE LiveInv'
  BY <1>1, ThenIsLive DEF LiveInv, Live
<1>2. {"begin", "run", "arrive"} \subseteq PhaseNames
  BY PhaseList
<1>3. CASE pc # "off" /\ Advance
  BY <1>1, <1>3 DEF Advance, LoopInv, LoopTypeOK
<1>4. CASE pc' \in {pc, "off", "hardware"}
  BY <1>4 DEF LiveInv, Live
<1>5. CASE RunStep \/ NoFlush
  BY <1>1, <1>2, <1>5, RunMotors DEF At, NoFlush, Turn, Advance
<1>6. ASSUME Next, ~(RunStep \/ NoFlush)
      PROVE  (pc # "off" /\ Advance) \/ pc' \in {pc, "off", "hardware"}
  BY <1>6 DEF Next, Loop, At, Hardware, PowerOff, Schedule, TakeCommands, ExecuteCommand,
     CommandsDone, Assemble, CheckBattery, MonitorMcu, MonitorGps, MonitorPerimeter,
     MonitorMapChange, MonitorStuck, MonitorOverload, MonitorWatchdog, Flush, Begin, Arrive,
     Settle, Diagnose, Button, ManualDrive, SafetyStop, SafetyLift, SafetyFault, Remember,
     LoadMap, DiagClient
<1> QED
  BY <1>3, <1>4, <1>5, <1>6 DEF vars

\* The operations that follow a route, or go back to one that does.
NeedRoute == Routed \union {"EscapeReverse", "GpsWait", "WaitRain"}

\* A mission away from the charger: nothing clears the route of an operation that
\* needs it.  An operation that forgets its mission has nothing pending when it
\* does (Settle).
RouteInv ==
  /\ LiveInv
  /\ active \notin {"Charge", "Undock"} /\ pending \notin {"Charge", "Undock"}
  /\ active \in NeedRoute \/ pending \in NeedRoute => job.route # "none"
  /\ pc \in Window /\ active \in {"Idle", "Error"} => pending = None

\* A request that leads to a routed operation only from one that has a route.
RouteAsked(r) ==
  \/ r.target \in {"Idle", "Error", "Manual"}
  \/ r.target \in NeedRoute /\ active \in NeedRoute

\* What a step does to the operation and its route.
RouteStep ==
  \/ UNCHANGED <<active, pending, job>>
  \/ UNCHANGED job /\ \E r : RouteAsked(r) /\ RequestOp(r)
  \/ /\ job'.route # "none"
     /\ Quiet \/ \E r : r.target \in NeedRoute \union {"Error"} /\ RequestOp(r)

LEMMA RouteStepKeeps ==
  ASSUME RouteInv, LiveInv', RouteStep,
         \/ pc' \notin Window
         \/ pc \in Window /\ active \notin {"Idle", "Error"}
         \/ pc \in Window /\ UNCHANGED <<active, pending, job>>
  PROVE  RouteInv'
<1>1. UNCHANGED active
  BY RequestStays DEF RouteStep, Quiet, omVars
<1>2. pending' = pending \/ \E r : pending' = r.target /\ RequestOp(r)
                                /\ (RouteAsked(r) \/ r.target \in NeedRoute \union {"Error"})
  BY DEF RouteStep, RequestOp, OM!RequestOp, OM!SetPending, OM!vars, Quiet, omVars
<1>3. \A r : RouteAsked(r) \/ r.target \in NeedRoute \union {"Error"}
               => r.target \notin {"Charge", "Undock"}
  BY DEF RouteAsked, NeedRoute, Routed
<1>4. pending' \notin {"Charge", "Undock"}
  BY <1>2, <1>3 DEF RouteInv
<1>5. active \in NeedRoute \/ pending' \in NeedRoute => job'.route # "none"
  <2>1. CASE UNCHANGED <<active, pending, job>>
    BY <2>1 DEF RouteInv
  <2>2. ASSUME UNCHANGED job, NEW r, RouteAsked(r), RequestOp(r)
        PROVE  active \in NeedRoute \/ pending' \in NeedRoute => job'.route # "none"
    <3>1. pending' \in {pending, r.target}
      BY <2>2 DEF RequestOp, OM!RequestOp, OM!SetPending, OM!vars
    <3>2. {"Idle", "Error", "Manual"} \cap NeedRoute = {}
      BY DEF NeedRoute, Routed
    <3> QED
      BY <2>2, <3>1, <3>2 DEF RouteAsked, RouteInv
  <2> QED
    BY <2>1, <2>2 DEF RouteStep
<1>6. pc' \in Window /\ active \in {"Idle", "Error"} => pending' = None
  BY DEF RouteInv
<1> QED
  BY <1>1, <1>4, <1>5, <1>6 DEF RouteInv

LEMMA RouteAnswer ==
  ASSUME RouteInv, DetourInv, active \in OpNames, NEW ev, Answer(ev) \/ Tell(ev),
         UNCHANGED job
  PROVE  RouteStep
<1>1. ASSUME Hears(ev) PROVE RouteAsked(Table(active)[ev])
  <2>1. CASE active \in Routed
    <3>1. Table(active)[ev] \in {ChangeTo("Dock"), ChangeTo("Error"), ChangeTo("Idle"),
             ChangeTo("Mow"), ChangeTo("WaitRain"), Ask("Error", CRITICAL),
             DetourTo("EscapeReverse"), DetourTo("GpsWait")}
      BY <1>1, <2>1 DEF Hears, Table, Routed, MowAnswers, NavToStartAnswers, DockAnswers
    <3> QED
      BY <2>1, <3>1 DEF RouteAsked, NeedRoute, Routed, ChangeTo, DetourTo, Ask
  <2>2. CASE active \in {"EscapeReverse", "WaitRain"}
    <3>1. Table(active)[ev] \in {ChangeTo("Dock"), ChangeTo("Error"),
             Ask("Error", CRITICAL), DetourTo("GpsWait")}
      BY <1>1, <2>2 DEF Hears, Table, EscapeReverseAnswers, WaitRainAnswers
    <3> QED
      BY <2>2, <3>1 DEF RouteAsked, NeedRoute, Routed, ChangeTo, DetourTo, Ask
  <2>3. CASE active \in {"Idle", "GpsWait", "Error", "Manual"}
    <3>1. Table(active)[ev] \in {ChangeTo("Idle"), Ask("Error", CRITICAL)}
      BY <1>1, <2>3 DEF Hears, Table, ManualAnswers, DefaultAnswers
    <3> QED
      BY <3>1 DEF RouteAsked, ChangeTo, Ask
  <2> QED
    BY <2>1, <2>2, <2>3 DEF OpNames, Routed, RouteInv, DetourInv
<1>2. CASE Hears(ev)
  BY <1>1, <1>2 DEF Answer, Tell, RouteStep
<1>3. CASE ~Hears(ev)
  BY <1>3 DEF Answer, Tell, Quiet, omVars, RouteStep
<1> QED
  BY <1>2, <1>3

\* A mission away from the charger: the controller answers, nobody presses the
\* button, and the operator only starts and resumes.
AwayFromDock ==
  /\ Inputs \cap {"charger", "mcu", "button"} = {}
  /\ Commands \subseteq {"Start", "StartZones", "Resume"}

LEMMA NoCharger == ASSUME AwayFromDock, LoopInv PROVE ~sens.charger
<1>1. sens.charger \in May("charger")
  BY DEF LoopInv, LoopTypeOK, Readings
<1> QED
  BY <1>1 DEF AwayFromDock, May

LEMMA NotAtThem ==
  ASSUME AwayFromDock, RouteInv PROVE pc \notin {"mcu", "button"}
  BY DEF AwayFromDock, RouteInv, LiveInv, Live

LEMMA StartRoute ==
  ASSUME AwayFromDock, LoopInv, StartMowing \/ StartMowingZones \/ ResumeActiveMission
  PROVE  RouteStep
<1>1. Departure.target = "NavToStart"
  BY NoCharger DEF Departure, Ask
<1>2. Started.route = "mow" /\ [Started EXCEPT !.saved = FALSE].route = "mow"
  BY DEF Started, LoopInv, LoopTypeOK, JobTypes
<1>3. "NavToStart" \in NeedRoute
  BY DEF NeedRoute, Routed
<1>4. CASE Quiet /\ UNCHANGED job
  BY <1>4 DEF Quiet, omVars, RouteStep
<1>5. CASE job'.route = "mow" /\ RequestOp(Departure)
  BY <1>1, <1>3, <1>5 DEF RouteStep
<1> QED
  BY <1>2, <1>4, <1>5 DEF StartMowing, StartMowingZones, ResumeActiveMission

\* Outside the window the pending operation may be any.
LEMMA OutsideRoute ==
  ASSUME AwayFromDock, LoopInv, DetourInv, RouteInv, LoopInv'
  PROVE  /\ Hardware \/ PowerOff \/ TakeCommands \/ CommandsDone \/ Assemble => RouteStep
         /\ Schedule => RouteStep
         /\ ExecuteCommand => RouteStep
         /\ CheckBattery \/ MonitorGps \/ MonitorPerimeter \/ MonitorMapChange => RouteStep
         /\ MonitorStuck \/ MonitorOverload \/ MonitorWatchdog => RouteStep
         /\ Diagnose \/ LoadMap \/ DiagClient => RouteStep
         /\ ManualDrive => RouteStep
         /\ SafetyStop \/ SafetyLift \/ SafetyFault \/ Remember => RouteStep
<1>0. active \in OpNames
  BY SameManager DEF LoopInv
<1>a. UNCHANGED <<omVars, job>> \/ (Quiet /\ UNCHANGED job) => RouteStep
  BY DEF RouteStep, Quiet, omVars
<1>b. ASSUME NEW ev, Answer(ev) \/ Tell(ev), UNCHANGED job PROVE RouteStep
  BY <1>b, <1>0, RouteAnswer
<1>c. ASSUME NEW op \in {"Idle", "Error", "Manual"}, NEW prio, RequestOp(Ask(op, prio)),
             UNCHANGED job
      PROVE  RouteStep
  BY <1>c DEF RouteStep, RouteAsked, Ask
<1>1. Hardware \/ PowerOff \/ TakeCommands \/ CommandsDone \/ Assemble => RouteStep
  BY <1>a DEF Hardware, PowerOff, TakeCommands, CommandsDone, Assemble
<1>2. Schedule => RouteStep
  BY <1>a, <1>b, StartRoute DEF Schedule
<1>3. ExecuteCommand => RouteStep
  <2> SUFFICES ASSUME ExecuteCommand PROVE RouteStep
    OBVIOUS
  <2>1. Head(batch) \in Commands
    BY DEF ExecuteCommand, LoopInv, LoopTypeOK
  <2>2. Head(batch) \in {"Start", "StartZones", "Resume"}
    BY <2>1 DEF AwayFromDock
  <2> QED
    BY <2>2, StartRoute DEF ExecuteCommand, Execute
<1>4. CheckBattery \/ MonitorGps \/ MonitorPerimeter \/ MonitorMapChange => RouteStep
  BY <1>a, <1>b DEF CheckBattery, MonitorGps, MonitorPerimeter, MonitorMapChange
<1>5. MonitorStuck \/ MonitorOverload \/ MonitorWatchdog => RouteStep
  BY <1>a, <1>b, <1>c DEF MonitorStuck, MonitorOverload, MonitorWatchdog
<1>6. Diagnose \/ LoadMap \/ DiagClient => RouteStep
  BY <1>a DEF Diagnose, LoadMap, DiagClient
<1>7. ManualDrive => RouteStep
  BY <1>a, <1>c DEF ManualDrive, Hold
<1>8. SafetyStop \/ SafetyLift \/ SafetyFault \/ Remember => RouteStep
  BY <1>a, <1>b DEF SafetyStop, SafetyLift, SafetyFault, Remember, Hold
<1> QED
  BY <1>1, <1>2, <1>3, <1>4, <1>5, <1>6, <1>7, <1>8

\* In the window Idle and Error ask for nothing, and the others for what their
\* route allows; what plans a docking path has one afterwards.
LEMMA WindowRoute ==
  ASSUME AwayFromDock, LoopInv, DetourInv, RouteInv
  PROVE  /\ Begin \/ RunStep \/ Arrive => RouteStep
         /\ Begin \/ RunStep \/ Arrive =>
              active \notin {"Idle", "Error"} \/ UNCHANGED <<active, pending, job>>
<1>0. active \in OpNames /\ active \notin {"Charge", "Undock", "EscapeForward"}
  BY SameManager DEF LoopInv, RouteInv, DetourInv
<1>a. Quiet /\ UNCHANGED job => RouteStep /\ UNCHANGED <<active, pending, job>>
  BY DEF RouteStep, Quiet, omVars
<1>b. ASSUME NEW ev, Answer(ev) \/ Tell(ev), UNCHANGED job PROVE RouteStep
  BY <1>b, <1>0, RouteAnswer
<1>c. ASSUME NEW op \in {"Idle", "Error"}, RequestOp(ChangeTo(op)), UNCHANGED job
      PROVE  RouteStep
  BY <1>c DEF RouteStep, RouteAsked, ChangeTo, Ask
<1>d. ASSUME NEW op \in NeedRoute, active \in NeedRoute, RequestOp(ChangeTo(op)),
             UNCHANGED job
      PROVE  RouteStep
  BY <1>d DEF RouteStep, RouteAsked, ChangeTo, Ask
<1>e. [job EXCEPT !.route = "dock"].route # "none"
  BY DEF LoopInv, LoopTypeOK, JobTypes
<1>f. /\ Routed \subseteq NeedRoute
      /\ {"Idle", "Error"} \cap NeedRoute = {}
      /\ {"EscapeReverse", "GpsWait", "WaitRain"} \subseteq NeedRoute
  BY DEF NeedRoute, Routed
<1> DEFINE Ok == /\ RouteStep
                 /\ active \notin {"Idle", "Error"} \/ UNCHANGED <<active, pending, job>>
<1>1. ASSUME Begin PROVE Ok
  <2>1. CASE BeginMow
    BY <1>a, <1>c, <2>1 DEF BeginMow
  <2>2. CASE BeginDock
    <3>1. RouteStep
      BY <1>c, <1>e, <2>2 DEF BeginDock, RouteStep
    <3> QED
      BY <2>2, <3>1 DEF BeginDock
  <2>3. CASE BeginUndock \/ BeginOther
    BY <1>a, <2>3 DEF BeginUndock, BeginOther
  <2> QED
    BY <1>1, <2>1, <2>2, <2>3 DEF Begin
<1>2. ASSUME RunStep PROVE Ok
  <2>0. UNCHANGED job /\ ~sens.charger
    BY <1>2, NoCharger DEF RunStep
  <2>1. ASSUME Track PROVE RouteStep
    BY <1>a, <1>b, <2>0, <2>1 DEF Track, Hold
  <2>2. CASE RunIdle
    BY <1>a, <2>0, <2>2 DEF RunIdle
  <2>3. CASE RunMow
    BY <1>b, <2>0, <2>1, <2>3 DEF RunMow
  <2>4. CASE RunDock
    BY <2>0, <2>1, <2>4 DEF RunDock, Running
  <2>5. CASE RunCharge \/ RunUndock
    BY <1>0, <2>5 DEF RunCharge, RunUndock, Running
  <2>6. CASE RunEscape
    <3>1. active = "EscapeReverse" /\ next[active] \in NeedRoute /\ next[active] # None
      BY <1>f, <2>6 DEF RunEscape, Running, DetourInv, Detoured, Routed, None
    <3>2. RouteStep
      BY <1>a, <1>c, <1>d, <1>f, <2>0, <2>6, <3>1 DEF RunEscape, Hold
    <3> QED
      BY <3>1, <3>2
  <2>7. CASE RunGpsWait
    <3>1. active = "GpsWait" /\ next[active] \in NeedRoute /\ next[active] # None
      BY <1>f, <2>7 DEF RunGpsWait, Running, DetourInv, Detoured, Routed, None
    <3>2. "Dock" \in NeedRoute /\ active \in NeedRoute
      BY <1>f, <3>1 DEF Routed
    <3>3. RouteStep
      BY <1>a, <1>c, <1>d, <2>0, <2>7, <3>1, <3>2 DEF RunGpsWait
    <3> QED
      BY <3>1, <3>3
  <2>8. CASE RunWaitRain
    <3>1. active = "WaitRain" /\ "Dock" \in NeedRoute /\ active \in NeedRoute
      BY <1>f, <2>8 DEF RunWaitRain, Running, Routed
    <3>2. RouteStep
      BY <1>a, <1>c, <1>d, <2>0, <2>8, <3>1 DEF RunWaitRain
    <3> QED
      BY <3>1, <3>2
  <2>9. CASE RunError
    BY <1>a, <2>0, <2>9 DEF RunError
  <2> QED
    BY <1>2, <2>2, <2>3, <2>4, <2>5, <2>6, <2>7, <2>8, <2>9 DEF RunStep
<1>3. ASSUME Arrive PROVE Ok
  BY <1>0, <1>a, <1>b, <1>c, <1>e, <1>3 DEF Arrive, Hold, RouteStep
<1> QED
  BY <1>1, <1>2, <1>3

LEMMA RouteInit == Init => RouteInv
  BY DEF Init, OM!Init, OM!None, RouteInv, LiveInv, Live, NeedRoute, Routed, None, Window

LEMMA RouteNext ==
  ASSUME AwayFromDock
  PROVE  LoopInv /\ DetourInv /\ RouteInv /\ [Next]_vars => RouteInv'
<1> SUFFICES ASSUME LoopInv, DetourInv, RouteInv, [Next]_vars PROVE RouteInv'
  OBVIOUS
<1>0. LoopInv' /\ LiveInv'
  BY LoopInvNext, LiveNext DEF RouteInv
<1>1. ASSUME Hardware \/ PowerOff \/ Schedule \/ TakeCommands \/ ExecuteCommand
             \/ CommandsDone \/ Assemble \/ CheckBattery \/ MonitorGps
             \/ MonitorPerimeter \/ MonitorMapChange \/ MonitorStuck \/ MonitorOverload
             \/ MonitorWatchdog \/ Diagnose \/ ManualDrive \/ SafetyStop \/ SafetyLift
             \/ SafetyFault \/ Remember
      PROVE  RouteInv'
  <2>1. RouteStep
    BY <1>0, <1>1, OutsideRoute
  <2>2. pc' \notin Window
    <3>1. {"hardware", "schedule", "commands", "execute", "assemble", "battery", "gps",
           "outside", "map", "stuck", "overload", "watchdog", "diag", "manual", "stop",
           "lift", "fault", "remember"} \subseteq PhaseNames \ (Window \union {"flush"})
      BY PhaseList DEF Window
    <3>2. \/ pc \in PhaseNames \ (Window \union {"flush"}) /\ Advance
          \/ pc' \in {"off", "hardware"}
          \/ pc = "execute" /\ pc' = pc
      BY <1>1, <3>1 DEF At, Hardware, PowerOff, Schedule, TakeCommands, ExecuteCommand,
         CommandsDone, Assemble, CheckBattery, MonitorGps, MonitorPerimeter,
         MonitorMapChange, MonitorStuck, MonitorOverload, MonitorWatchdog, Diagnose,
         ManualDrive, SafetyStop, SafetyLift, SafetyFault, Remember
    <3> QED
      BY <3>2, WindowEntry DEF Advance, Window
  <2> QED
    BY <1>0, <2>1, <2>2, RouteStepKeeps
<1>2. CASE MonitorMcu \/ Button
  BY <1>2, NotAtThem DEF MonitorMcu, Button, At
<1>3. CASE Flush
  BY <1>0, <1>3 DEF Flush, OM!Flush, OM!None, None, RouteInv, NeedRoute, Routed
<1>4. CASE NoFlush
  BY <1>0, <1>4 DEF NoFlush, omVars, RouteInv
<1>5. CASE Begin \/ RunStep \/ Arrive
  <2>1. RouteStep /\ (active \notin {"Idle", "Error"} \/ UNCHANGED <<active, pending, job>>)
    BY <1>5, WindowRoute
  <2>2. pc \in Window
    BY <1>5, RunMotors DEF Begin, Arrive, At, Window
  <2> QED
    BY <1>0, <2>1, <2>2, RouteStepKeeps
<1>6. CASE Settle
  <2>1. active' = active /\ pending' = pending /\ pc = "settle" /\ pc \in Window
    BY <1>6 DEF Settle, omVars, At, Window
  <2>2. ForgetsMission(active) => active \notin NeedRoute /\ pending = None
    BY <2>1 DEF ForgetsMission, RouteInv, NeedRoute, Routed
  <2>3. None \notin NeedRoute
    BY DEF None, NeedRoute, Routed
  <2>4. UNCHANGED job \/ ForgetsMission(active)
    BY <1>6 DEF Settle
  <2> QED
    BY <1>0, <2>1, <2>2, <2>3, <2>4 DEF RouteInv
<1>7. CASE LoadMap \/ DiagClient
  BY <1>0, <1>7 DEF LoadMap, DiagClient, omVars, RouteInv
<1>8. CASE UNCHANGED vars
  BY <1>0, <1>8 DEF vars, omVars, RouteInv
<1> QED
  BY <1>1, <1>2, <1>3, <1>4, <1>5, <1>6, <1>7, <1>8 DEF Next, Loop

\* During a mission away from the charger the tracker is never run on a cleared
\* RuntimeState, whatever escapes, waits, rain and faults come between: an
\* operation that drives a route, or will be gone back to, has one.
THEOREM RouteAlwaysFollowed ==
  ASSUME AwayFromDock
  PROVE  Spec => []RouteFollowed
<1>1. RouteInv => RouteFollowed
  BY DEF RouteInv, RouteFollowed, NeedRoute
<1> QED
  BY <1>1, LoopInvInit, LoopInvNext, DetourInit, DetourNext, RouteInit, RouteNext, PTL
     DEF Spec

----------------------------------------------------------------------------
(* Shutdown                                                                *)

AfterBattery == {"mcu", "gps", "outside", "map", "stuck", "overload", "watchdog", "flush"}
AfterFlush   == {"run", "arrive", "settle", "diag", "button", "manual", "stop", "lift",
                 "fault", "remember", "hardware"}

LEMMA AfterBatteryStays ==
  ASSUME NEW p \in {"battery"} \union (AfterBattery \ {"flush"}), NEW q \in Then[p]
  PROVE  q \in AfterBattery
<1>1. DOMAIN Phases = 1..25 /\ Phases[14] = "flush"
  BY DEF Phases
<1>2. p \in PhaseNames
  BY PhaseList DEF AfterBattery
<1>3. PICK i \in 1..25 : Phases[i] = p
  BY <1>1, <1>2 DEF PhaseNames
<1>4. i >= 6 /\ i < 14
  BY <1>3 DEF Phases, AfterBattery
<1>5. PICK j \in 1..25 : i < j /\ j <= 14 /\ q = Phases[j]
  <2>1. Live(Phases[14])
    BY <1>1 DEF Live
  <2>2. 14 \in 1..25 /\ i < 14 /\ q \in Then[Phases[i]]
    BY <1>3, <1>4
  <2> QED
    BY SMTT(30), <2>1, <2>2, PhaseOrder
<1>6. \A k \in 7..14 : Phases[k] \in AfterBattery
  BY DEF Phases, AfterBattery
<1> QED
  BY <1>4, <1>5, <1>6

LEMMA AfterFlushStays ==
  ASSUME NEW p \in (AfterFlush \ {"hardware"}) \union {"begin"}, NEW q \in Then[p]
  PROVE  q \in AfterFlush
<1>1. DOMAIN Phases = 1..25
  BY DEF Phases
<1>2. p \in PhaseNames
  BY PhaseList DEF AfterFlush
<1>3. PICK i \in 1..25 : Phases[i] = p
  BY <1>1, <1>2 DEF PhaseNames
<1>4. i >= 15
  BY <1>3 DEF Phases, AfterFlush
<1>5. \A k \in 1..25 : Phases[k] = p => k = i
  BY <1>3 DEF Phases
<1>6. q = "hardware" \/ \E j \in 1..25 : j > i /\ Phases[j] = q
  BY <1>1, <1>2, <1>5 DEF Then, Follows
<1>7. \A j \in 16..25 : Phases[j] \in AfterFlush
  BY DEF Phases, AfterFlush
<1> QED
  BY <1>4, <1>6, <1>7 DEF AfterFlush

\* Nobody starts or docks the robot, or shuts it down by hand, while its battery
\* runs out; an emergency stop is allowed at any time.
Unattended ==
  /\ Commands \subseteq {"Stop"}
  /\ {"button", "diag"} \cap Inputs = {}

\* The next tick stops the robot, whatever the guards still ask for.
Stopping == \/ active = "Error"
            \/ pending \in {"Error", "Idle"} /\ pendingPrio >= HIGH

\* Error is left for Idle only, and what outranks HIGH leads to rest.  Once the
\* loop is to end, the pending transition does, and after it the motors are off.
RestInv ==
  /\ LiveInv
  /\ active = "Error" => pending \in {None, "Idle"}
  /\ pendingPrio > HIGH => pending \in {"Error", "Idle"}
  /\ ~running => \/ pc \in AfterBattery /\ Stopping /\ motor = Stopped
                 \/ pc = "begin" /\ active \in {"Error", "Idle"}
                 \/ pc \in AfterFlush /\ active \in {"Error", "Idle"} /\ motor = Stopped
                 \/ pc = "off"

\* The priorities requests are queued with.
LEMMA QueuedPriority ==
  /\ \A op \in OpNames \ {"Error", "Charge"} : OM!EffectivePrio(op, NORMAL) = NORMAL
  /\ \A op \in {"Undock", "NavToStart"} : OM!EffectivePrio(op, HIGH) = HIGH
  /\ \A op \in {"Error", "Charge"} : OM!EffectivePrio(op, NORMAL) = HIGH
  /\ \A op \in {"Error", "Idle"} : OM!EffectivePrio(op, CRITICAL) = CRITICAL
  /\ NORMAL = 50 /\ HIGH = 80 /\ CRITICAL = 100
  BY DEF OM!EffectivePrio, OM!MinPrio, OM!LOW, OM!NORMAL, OM!HIGH, NORMAL, HIGH, CRITICAL

\* A request that keeps the invariant.
RestAsked(r) ==
  LET prio == OM!EffectivePrio(r.target, r.prio)
  IN  /\ r.target \in OpNames /\ prio \in Int
      /\ active = "Error" => r.target \in {"Error", "Idle"}
      /\ r.target \in {"Error", "Idle"} \/ prio <= HIGH
      /\ pc \in AfterBattery => r.target \in {"Error", "Idle"} \/ prio < HIGH

RestStep == Quiet \/ \E r : RestAsked(r) /\ RequestOp(r)

\* The plain requests, by target.
LEMMA RestRequests ==
  /\ \A op \in {"Error", "Idle"} :
       RestAsked(ChangeTo(op)) /\ RestAsked(Ask(op, CRITICAL))
  /\ \A op \in OpNames \ {"Error", "Idle", "Charge"} : active # "Error" =>
       RestAsked(ChangeTo(op)) /\ RestAsked(DetourTo(op)) /\ RestAsked(Ask(op, NORMAL))
  /\ \A op \in {"Undock", "NavToStart", "Charge"} :
       active # "Error" /\ pc \notin AfterBattery =>
       RestAsked(ChangeTo(op)) /\ (op # "Charge" => RestAsked(Ask(op, HIGH)))
<1>1. {"Error", "Idle", "Charge", "Undock", "NavToStart"} \subseteq OpNames
  BY DEF OpNames
<1>2. \A op : /\ ChangeTo(op).target = op /\ ChangeTo(op).prio = NORMAL
              /\ DetourTo(op).target = op /\ DetourTo(op).prio = NORMAL
              /\ \A prio : Ask(op, prio).target = op /\ Ask(op, prio).prio = prio
  BY DEF ChangeTo, DetourTo, Ask
<1> QED
  BY <1>1, <1>2, QueuedPriority DEF RestAsked

LEMMA RestAnswer ==
  ASSUME active \in OpNames, NEW ev, Answer(ev) \/ Tell(ev)
  PROVE  RestStep
<1> DEFINE Targets == {"Dock", "Mow", "Undock", "WaitRain", "EscapeReverse", "GpsWait"}
<1>1. ASSUME Hears(ev) PROVE RestAsked(Table(active)[ev])
  <2>1. CASE active = "Error"
    <3>1. Table(active)[ev] = Ask("Error", CRITICAL)
      BY <1>1, <2>1 DEF Hears, Table, DefaultAnswers
    <3> QED
      BY <3>1, RestRequests
  <2>2. CASE active # "Error"
    <3>1. Targets \subseteq OpNames \ {"Error", "Idle", "Charge"}
      BY DEF OpNames
    <3>2. Table(active)[ev] \in {ChangeTo("Error"), ChangeTo("Idle"), ChangeTo("Dock"),
             ChangeTo("Mow"), ChangeTo("Undock"), ChangeTo("WaitRain"),
             Ask("Error", CRITICAL), DetourTo("EscapeReverse"), DetourTo("GpsWait")}
      <4>1. CASE active \in Routed
        BY <1>1, <4>1 DEF Hears, Table, Routed, MowAnswers, NavToStartAnswers, DockAnswers
      <4>2. CASE active \in {"EscapeReverse", "EscapeForward"}
        BY <1>1, <4>2 DEF Hears, Table, EscapeReverseAnswers, EscapeForwardAnswers
      <4>3. CASE active \notin Routed \union {"EscapeReverse", "EscapeForward"}
        BY <1>1, <4>3 DEF Hears, Table, Routed, ChargeAnswers, UndockAnswers,
                          WaitRainAnswers, ManualAnswers, DefaultAnswers
      <4> QED
        BY <4>1, <4>2, <4>3
    <3>3. \A op \in Targets : RestAsked(ChangeTo(op)) /\ RestAsked(DetourTo(op))
      <4> HIDE DEF Targets
      <4> QED
        BY <2>2, <3>1, RestRequests
    <3>4. /\ RestAsked(ChangeTo("Error")) /\ RestAsked(ChangeTo("Idle"))
          /\ RestAsked(Ask("Error", CRITICAL))
      BY RestRequests
    <3> QED
      BY <3>2, <3>3, <3>4
  <2> QED
    BY <2>1, <2>2
<1> QED
  BY <1>1 DEF Answer, Tell, RestStep

\* What a step does to the pending transition.
LEMMA RestStepKeeps ==
  ASSUME LoopInv, RestInv, RestStep
  PROVE  /\ UNCHANGED active
         /\ active = "Error" => pending' \in {None, "Idle"}
         /\ pendingPrio' > HIGH => pending' \in {"Error", "Idle"}
         /\ pc \in AfterBattery /\ Stopping => Stopping'
<1>1. pendingPrio \in Int /\ HIGH \in Int
  BY DEF LoopInv, OP!IInv, OP!TypeOK, OP!Priorities, OP!LOW, OP!NORMAL, OP!HIGH, OP!CRITICAL,
         HIGH
<1>2. CASE UNCHANGED omVars
  BY <1>2 DEF omVars, RestInv, Stopping
<1>3. ASSUME NEW r, RestAsked(r), RequestOp(r), ~UNCHANGED omVars
      PROVE  /\ UNCHANGED active
             /\ active = "Error" => pending' \in {None, "Idle"}
             /\ pendingPrio' > HIGH => pending' \in {"Error", "Idle"}
             /\ pc \in AfterBattery /\ Stopping => Stopping'
  <2> DEFINE prio == OM!EffectivePrio(r.target, r.prio)
  <2>1. /\ UNCHANGED active /\ pending' = r.target /\ pendingPrio' = prio
        /\ r.target # active /\ pendingPrio <= prio
    BY <1>3 DEF RequestOp, OM!RequestOp, OM!Accepts, OM!SetPending, OM!vars, omVars
  <2>2. /\ r.target \in OpNames /\ prio \in Int
        /\ active = "Error" => r.target \in {"Error", "Idle"}
        /\ r.target \in {"Error", "Idle"} \/ prio <= HIGH
        /\ pc \in AfterBattery => r.target \in {"Error", "Idle"} \/ prio < HIGH
    BY <1>3 DEF RestAsked
  <2> HIDE DEF prio
  <2> QED
    BY <1>1, <2>1, <2>2 DEF Stopping
<1> QED
  BY <1>2, <1>3 DEF RestStep, Quiet

LEMMA RestAsks ==
  ASSUME Unattended, LoopInv, DetourInv, RestInv, Next, ~Flush
  PROVE  RestStep
<1>0. active \in OpNames
  BY SameManager DEF LoopInv
<1>a. Quiet \/ UNCHANGED omVars => RestStep
  BY DEF RestStep, Quiet
<1>b. ASSUME NEW ev, Answer(ev) \/ Tell(ev) PROVE RestStep
  BY <1>b, <1>0, RestAnswer
<1>c. ASSUME NEW op \in {"Error", "Idle"},
             RequestOp(ChangeTo(op)) \/ RequestOp(Ask(op, CRITICAL))
      PROVE  RestStep
  BY <1>c, RestRequests DEF RestStep
<1>d. ASSUME NEW op \in Routed, active # "Error", RequestOp(ChangeTo(op))
      PROVE  RestStep
  <2>1. op \in OpNames \ {"Error", "Idle", "Charge"}
    BY DEF OpNames, Routed
  <2> QED
    BY <1>d, <2>1, RestRequests DEF RestStep
<1>e. EmergencyStop => RestStep
  BY <1>c DEF EmergencyStop
<1>f. pc \notin AfterBattery /\ active # "Error" /\ StartMowing => RestStep
  BY <1>a, RestRequests DEF StartMowing, Departure, RestStep
<1>g. pc \notin AfterBattery /\ active # "Error" /\ RequestOp(ChangeTo("Charge")) => RestStep
  BY RestRequests DEF RestStep
<1>h. "run" \notin AfterBattery /\ "schedule" \notin AfterBattery
  BY DEF AfterBattery
<1>i. \A op \in {"Dock", "NavToStart", "Mow"} : op \in Routed
  BY DEF Routed
<1>1. CASE Hardware \/ PowerOff \/ TakeCommands \/ CommandsDone \/ Assemble \/ NoFlush
           \/ Settle \/ Diagnose \/ LoadMap \/ DiagClient
  BY <1>1, <1>a DEF Hardware, PowerOff, TakeCommands, CommandsDone, Assemble, NoFlush,
                    Settle, Diagnose, LoadMap, DiagClient
<1>2. CASE Schedule
  BY <1>2, <1>a, <1>b, <1>f, <1>h DEF Schedule, At
<1>3. CASE ExecuteCommand
  <2>1. Head(batch) \in Commands
    BY <1>3 DEF ExecuteCommand, LoopInv, LoopTypeOK
  <2>2. Head(batch) = "Stop"
    BY <2>1 DEF Unattended
  <2> QED
    BY <1>3, <1>e, <2>2 DEF ExecuteCommand, Execute
<1>4. CASE CheckBattery \/ MonitorGps \/ MonitorPerimeter \/ MonitorMapChange
           \/ MonitorOverload \/ MonitorWatchdog
  BY <1>4, <1>a, <1>b DEF CheckBattery, MonitorGps, MonitorPerimeter, MonitorMapChange,
                          MonitorOverload, MonitorWatchdog
<1>5. CASE MonitorMcu \/ MonitorStuck
  BY <1>5, <1>a, <1>b, <1>c DEF MonitorMcu, MonitorStuck
<1>6. CASE Begin
  BY <1>6, <1>a, <1>c DEF Begin, BeginMow, BeginDock, BeginUndock, BeginOther
<1>7. CASE RunStep
  <2>1. ASSUME Track PROVE RestStep
    BY <1>a, <1>b, <2>1 DEF Track, Hold
  <2>2. CASE RunIdle
    BY <1>a, <1>g, <1>h, <2>2 DEF RunIdle, Running, At
  <2>3. CASE RunMow
    BY <1>b, <2>1, <2>3 DEF RunMow
  <2>4. CASE RunDock
    BY <1>g, <1>h, <2>1, <2>4 DEF RunDock, Running, At
  <2>5. CASE RunCharge
    BY <1>a, <1>c, <1>d, <1>i, <2>5 DEF RunCharge, Running
  <2>6. CASE RunUndock
    BY <1>a, <1>c, <1>d, <1>i, <2>1, <2>6 DEF RunUndock, Running, Hold
  <2>7. CASE RunEscape
    <3>1. active = "EscapeReverse" /\ next[active] \in Routed
      BY <2>7 DEF RunEscape, Running, DetourInv, Detoured
    <3> QED
      BY <1>a, <1>c, <1>d, <2>7, <3>1 DEF RunEscape, Hold
  <2>8. CASE RunGpsWait
    <3>1. active = "GpsWait" /\ next[active] \in Routed
      BY <2>8 DEF RunGpsWait, Running, DetourInv, Detoured
    <3> QED
      BY <1>a, <1>c, <1>d, <1>i, <2>8, <3>1 DEF RunGpsWait
  <2>9. CASE RunWaitRain
    BY <1>a, <1>c, <1>d, <1>i, <2>9 DEF RunWaitRain, Running
  <2>10. CASE RunError
    BY <1>a, <2>10 DEF RunError
  <2> QED
    BY <1>7, <2>2, <2>3, <2>4, <2>5, <2>6, <2>7, <2>8, <2>9, <2>10 DEF RunStep
<1>8. CASE Arrive
  BY <1>8, <1>a, <1>b, <1>c, <1>d, <1>i DEF Arrive, Hold
<1>9. CASE Button
  BY <1>9 DEF Button, At, RestInv, LiveInv, Live, Unattended
<1>10. CASE ManualDrive
  <2>1. "Manual" \in OpNames \ {"Error", "Idle", "Charge"}
    BY DEF OpNames
  <2>2. RequestOp(Ask("Manual", NORMAL)) /\ active # "Error" => RestStep
    BY <2>1, RestRequests DEF RestStep
  <2> QED
    BY <1>10, <1>a, <1>c, <2>2 DEF ManualDrive, Hold
<1>11. CASE SafetyStop \/ SafetyLift \/ SafetyFault \/ Remember
  BY <1>11, <1>a, <1>b DEF SafetyStop, SafetyLift, SafetyFault, Remember, Hold
<1> QED
  BY <1>1, <1>2, <1>3, <1>4, <1>5, <1>6, <1>7, <1>8, <1>9, <1>10, <1>11 DEF Next, Loop

\* Every operation answers an undervoltage with a request for Error that outranks
\* all but a stop and another error.
LEMMA UndervoltageHeard ==
  ASSUME active \in OpNames
  PROVE  /\ Hears("undervoltage")
         /\ Table(active)["undervoltage"] \in {ChangeTo("Error"), Ask("Error", CRITICAL)}
  BY DEF Hears, Table, OpNames, MowAnswers, NavToStartAnswers, DockAnswers, ChargeAnswers,
         UndockAnswers, WaitRainAnswers, ManualAnswers, DefaultAnswers,
         EscapeReverseAnswers, EscapeForwardAnswers

LEMMA UndervoltageStops ==
  ASSUME LoopInv, RestInv, Answer("undervoltage")
  PROVE  Stopping'
<1>0. active \in OpNames
  BY SameManager DEF LoopInv
<1>1. pendingPrio \in Int /\ HIGH = 80 /\ CRITICAL = 100
  BY DEF LoopInv, OP!IInv, OP!TypeOK, OP!Priorities, OP!LOW, OP!NORMAL, OP!HIGH, OP!CRITICAL,
         HIGH, CRITICAL
<1>2. PICK r \in {ChangeTo("Error"), Ask("Error", CRITICAL)} : RequestOp(r)
  BY <1>0, UndervoltageHeard DEF Answer
<1> DEFINE prio == OM!EffectivePrio(r.target, r.prio)
<1>3. r.target = "Error" /\ prio \in {HIGH, CRITICAL}
  BY QueuedPriority DEF ChangeTo, Ask
<1>4. \/ active # "Error" /\ pendingPrio <= prio /\ pending' = "Error" /\ pendingPrio' = prio
      \/ UNCHANGED <<active, pending, pendingPrio>> /\ (active = "Error" \/ pendingPrio > prio)
  <2>1. pendingPrio <= prio \/ pendingPrio > prio
    BY <1>1, <1>3
  <2> QED
    BY <1>2, <1>3, <2>1 DEF RequestOp, OM!RequestOp, OM!Accepts, OM!SetPending, OM!vars
<1> HIDE DEF prio
<1> QED
  BY <1>1, <1>3, <1>4 DEF Stopping, RestInv

\* The guards that follow the battery: they ask, and start no motor.
Guard ==
  \/ MonitorMcu \/ MonitorGps \/ MonitorPerimeter \/ MonitorMapChange
  \/ MonitorStuck \/ MonitorOverload \/ MonitorWatchdog

\* What follows the tick.
AfterTick ==
  Arrive \/ Settle \/ SafetyStop \/ SafetyLift \/ SafetyFault \/ Remember

LEMMA RestNext ==
  ASSUME Unattended
  PROVE  LoopInv /\ DetourInv /\ RestInv /\ [Next]_vars => RestInv'
<1> SUFFICES ASSUME LoopInv, DetourInv, RestInv, [Next]_vars PROVE RestInv'
  OBVIOUS
<1> DEFINE Orderly == /\ active = "Error" => pending \in {None, "Idle"}
                      /\ pendingPrio > HIGH => pending \in {"Error", "Idle"}
           Ending == \/ pc \in AfterBattery /\ Stopping /\ motor = Stopped
                     \/ pc = "begin" /\ active \in {"Error", "Idle"}
                     \/ pc \in AfterFlush /\ active \in {"Error", "Idle"} /\ motor = Stopped
                     \/ pc = "off"
<1>0. LiveInv' /\ "diag" \notin Inputs
  BY LiveNext DEF RestInv, Unattended
<1>1. ASSUME Next, ~Flush PROVE UNCHANGED active /\ Orderly'
  BY <1>1, RestAsks, RestStepKeeps DEF RestInv
<1>2. ASSUME Next, ~Flush, ~running' => Ending' PROVE RestInv'
  BY <1>0, <1>1, <1>2 DEF RestInv
<1>3. CASE UNCHANGED vars
  BY <1>0, <1>3 DEF vars, omVars, RestInv, Stopping
<1>4. CASE Flush
  <2>1. Orderly'
    BY <1>4 DEF Flush, OM!Flush, OM!None, None, OM!LOW, HIGH
  <2>2. ASSUME ~running' PROVE Ending'
    <3>1. ~running /\ pc = "flush" /\ pending # None /\ active' = pending
      BY <1>4, <2>2 DEF Flush, At, OM!Flush
    <3>2. Stopping
      BY <3>1 DEF RestInv, AfterFlush
    <3>3. active' \in {"Error", "Idle"}
      BY <3>1, <3>2 DEF RestInv, Stopping
    <3>4. pc' = "begin"
      BY <1>4, FlushLeadsToBegin DEF Flush, At, Advance
    <3> QED
      BY <3>3, <3>4
  <2> QED
    BY <1>0, <2>1, <2>2 DEF RestInv
<1>5. ASSUME UNCHANGED <<running, pc, motor>>, Next, ~Flush, pc \notin AfterBattery
      PROVE  RestInv'
  BY <1>1, <1>2, <1>5 DEF RestInv
<1>6. CASE CheckBattery
  <2>1. pc' \in AfterBattery /\ pc = "battery"
    BY <1>6, AfterBatteryStays DEF CheckBattery, At, Advance
  <2>2. running
    BY <2>1 DEF RestInv, AfterBattery, AfterFlush
  <2>3. ASSUME ~running' PROVE Stopping' /\ motor' = Stopped
    BY <1>6, <2>2, <2>3, UndervoltageStops DEF CheckBattery
  <2>4. ~Flush /\ Next
    BY <1>6, <2>1 DEF Flush, At, Next, Loop
  <2> QED
    BY <1>2, <2>1, <2>3, <2>4
<1>7. CASE Guard
  <2>1. /\ pc \in AfterBattery \ {"flush"} /\ pc' \in AfterBattery
        /\ UNCHANGED running
    <3>1. /\ pc \in AfterBattery \ {"flush"} /\ Advance
          /\ UNCHANGED running
      BY <1>7 DEF Guard, At, MonitorMcu, MonitorGps, MonitorPerimeter, MonitorMapChange,
         MonitorStuck, MonitorOverload, MonitorWatchdog, AfterBattery
    <3> QED
      BY <3>1, AfterBatteryStays DEF Advance
  <2>2. ~Flush /\ Next
    BY <1>7, <2>1 DEF Flush, At, Next, Loop, Guard
  <2>3. motor' \in {motor, Stopped}
    BY <1>0, <1>7, PhasesCoast DEF Guard, Coasts
  <2>4. Stopping => Stopping'
    BY <2>1, <2>2, RestAsks, RestStepKeeps
  <2>5. ~running => Stopping /\ motor = Stopped
    BY <2>1 DEF RestInv, AfterBattery, AfterFlush
  <2> QED
    BY <1>2, <2>1, <2>2, <2>3, <2>4, <2>5
<1>8. CASE NoFlush
  <2>1. pc = "flush" /\ pending = None /\ pc' \in AfterFlush /\ UNCHANGED <<running, motor>>
    BY <1>8, AfterFlushStays DEF NoFlush, At
  <2>2. ~Flush /\ Next
    BY <1>8, <2>1 DEF Flush, Next, Loop
  <2>3. ~running => active = "Error" /\ motor = Stopped
    BY <2>1 DEF RestInv, Stopping, AfterFlush, None
  <2> QED
    BY <1>1, <1>2, <2>1, <2>2, <2>3
<1>9. ASSUME Next, ~Flush, pc \in (AfterFlush \ {"hardware"}) \union {"begin"},
             pc' \in AfterFlush, UNCHANGED running,
             ~running /\ active \in {"Error", "Idle"} =>
               motor' = Stopped \/ (pc # "begin" /\ motor' = motor)
      PROVE  RestInv'
  <2>1. pc \notin AfterBattery /\ pc # "off"
    BY <1>9 DEF AfterBattery, AfterFlush
  <2> QED
    BY <1>1, <1>2, <1>9, <2>1 DEF RestInv
<1>10. CASE Begin
  <2>1. pc = "begin" /\ pc' \in AfterFlush /\ UNCHANGED running
    BY <1>10, AfterFlushStays DEF Begin, At, Advance
  <2>2. ~Flush /\ Next
    BY <1>10, <2>1 DEF Flush, At, Next, Loop
  <2>3. active \in {"Error", "Idle"} => motor' = Stopped
    BY <1>10 DEF Begin, BeginStops
  <2> QED
    BY <1>9, <2>1, <2>2, <2>3
<1>11. CASE RunStep
  <2>1. pc = "run" /\ pc' \in AfterFlush /\ UNCHANGED running
    <3>1. pc = "run" /\ (pc' \in Then["arrive"] \/ pc' \in Then["run"]) /\ UNCHANGED running
      BY <1>11, RunMotors DEF RunStep, At, Turn, Advance
    <3> QED
      BY <3>1, AfterFlushStays DEF AfterFlush
  <2>2. ~Flush /\ Next
    BY <1>11, <2>1 DEF Flush, At, Next, Loop
  <2>3. active \in {"Error", "Idle"} => motor' \in {motor, Stopped}
    BY <1>11, RunMotors DEF RunFits, Drivers, Routed
  <2> QED
    BY <1>9, <2>1, <2>2, <2>3 DEF AfterFlush
<1>12. CASE AfterTick
  <2>1. /\ pc \in AfterFlush \ {"hardware"} /\ Advance /\ UNCHANGED running
    BY <1>12 DEF AfterTick, At, Arrive, Settle, SafetyStop, SafetyLift, SafetyFault, Remember,
                 AfterFlush
  <2>2. ~Flush /\ Next /\ pc' \in AfterFlush /\ pc # "begin"
    BY <1>12, <2>1, AfterFlushStays DEF Flush, At, Next, Loop, AfterTick, Advance, AfterFlush
  <2>3. motor' \in {motor, Stopped}
    BY <1>0, <1>12, PhasesCoast DEF AfterTick, Coasts
  <2> QED
    BY <1>9, <2>1, <2>2, <2>3
<1>13. CASE ManualDrive
  <2>1. pc = "manual" /\ pc' \in AfterFlush /\ UNCHANGED running
    BY <1>13, AfterFlushStays DEF ManualDrive, At, Advance, AfterFlush
  <2>2. ~Flush /\ Next
    BY <1>13, <2>1 DEF Flush, At, Next, Loop
  <2>3. active \in {"Error", "Idle"} => UNCHANGED motor
    <3>1. ASSUME active # "Manual" PROVE UNCHANGED motor
      BY <1>13, <3>1, Zenon DEF ManualDrive, Hold
    <3> QED
      BY <3>1
  <2> QED
    BY <1>9, <2>1, <2>2, <2>3 DEF AfterFlush
<1>14. CASE Diagnose \/ Button \/ DiagClient
  BY <1>14 DEF Diagnose, Button, DiagClient, At, RestInv, LiveInv, Live, Unattended
<1>15. CASE PowerOff
  <2>1. pc = "hardware" /\ pc' = "off"
    BY <1>15 DEF PowerOff, At
  <2>2. ~Flush /\ Next
    BY <1>15, <2>1 DEF Flush, At, Next, Loop
  <2> QED
    BY <1>2, <2>1, <2>2
<1>16. CASE LoadMap
  <2>1. ~Flush /\ Next /\ omVars' = omVars /\ UNCHANGED <<pc, motor, running>>
    BY <1>16 DEF LoadMap, Flush, OM!Flush, omVars, Next
  <2> QED
    BY <1>0, <2>1 DEF omVars, RestInv, Stopping
<1>17. CASE Hardware \/ Schedule \/ TakeCommands \/ ExecuteCommand \/ CommandsDone \/ Assemble
  <2>1. /\ pc \in {"hardware", "schedule", "commands", "execute", "assemble"}
        /\ UNCHANGED running
    BY <1>17 DEF At, Hardware, Schedule, TakeCommands, ExecuteCommand, CommandsDone, Assemble
  <2>2. running
    <3>1. running \/ pc = "hardware"
      BY <2>1 DEF RestInv, AfterBattery, AfterFlush
    <3>2. pc = "hardware" => running
      BY <1>17, Zenon DEF At, Hardware, Schedule, TakeCommands, ExecuteCommand,
                          CommandsDone, Assemble
    <3> QED
      BY <3>1, <3>2
  <2>3. ~Flush /\ Next
    BY <1>17, <2>1 DEF Flush, At, Next, Loop
  <2>4. running'
    BY <2>1, <2>2, Zenon
  <2> QED
    BY <1>2, <2>3, <2>4
<1> QED
  BY <1>3, <1>4, <1>6, <1>7, <1>8, <1>10, <1>11, <1>12, <1>13, <1>14, <1>15, <1>16, <1>17
     DEF Next, Loop, Guard, AfterTick

LEMMA RestInit == Init => RestInv
  BY DEF Init, OM!Init, OM!None, OM!LOW, RestInv, LiveInv, Live, None, HIGH

\* A battery that runs out while nobody is at the robot leaves the motors at rest
\* in the last cycle: no guard, no pending transition and no phase after the tick
\* starts them again, whatever the sensors, the timetable, the joystick and the
\* emergency stop do in that cycle.
THEOREM ShutdownRests ==
  ASSUME Unattended
  PROVE  Spec => []ShutdownAtRest
<1>1. RestInv => ShutdownAtRest
  BY DEF RestInv, ShutdownAtRest, At, AfterBattery
<1> QED
  BY <1>1, LoopInvInit, LoopInvNext, DetourInit, DetourNext, RestInit, RestNext, PTL
     DEF Spec

----------------------------------------------------------------------------
(* A silent motor controller                                               *)

BeforeMcu == {"schedule", "commands", "execute", "assemble", "battery", "mcu"}
AfterMcu  == {"gps", "outside", "map", "stuck", "overload", "watchdog", "flush"}

\* Every cycle that found the controller silent leaves the motors at rest.
SilentAtRest == At("hardware") /\ sens.mcuLost => motor = Stopped

\* Nobody commands or diagnoses the robot while the controller is silent, and
\* the button, which the controller reports, does not change.
LeftAlone ==
  sens.mcuLost => batch = <<>> /\ sens.button = seen.button /\ diag = "none"

\* A controller that falls silent finds the guard armed again after an earlier
\* loss, or the robot still in Error, and not about to leave it.
Rearmed ==
  ~sens.mcuLost /\ sens'.mcuLost =>
    /\ active = "Error" => pending = None
    /\ latch.mcu => active = "Error"

InError    == active = "Error" /\ pending = None
ErrorAsked == pending = "Error" /\ pendingPrio = CRITICAL

\* Once monitorMcuConnectivity has looked, the robot is in Error or is sent
\* there by the tick, and no motor turns after run() of Error.
SilentInv ==
  sens.mcuLost =>
    /\ pc \in BeforeMcu =>
         /\ active = "Error" => pending = None
         /\ latch.mcu => active = "Error"
    /\ pc \in AfterMcu => latch.mcu /\ (InError \/ ErrorAsked)
    /\ pc \notin BeforeMcu \union AfterMcu =>
         /\ latch.mcu /\ InError
         /\ pc \in {"begin", "run"} \/ motor = Stopped

\* A reading that can say that the controller is silent makes the guard a phase
\* of the loop, and no cycle gets past it.
LEMMA LostIsLive == ASSUME NEW r \in Readings, r.mcuLost PROVE Live("mcu")
<1>1. r.mcuLost \in May("mcu")
  BY DEF Readings
<1> QED
  BY <1>1 DEF May, Live

LEMMA BeforeMcuStays ==
  ASSUME Live("mcu"), NEW p \in {"hardware"} \union (BeforeMcu \ {"mcu"}), NEW q \in Then[p]
  PROVE  q \in BeforeMcu
<1>1. DOMAIN Phases = 1..25 /\ Phases[7] = "mcu"
  BY DEF Phases
<1>2. p \in PhaseNames
  BY PhaseList DEF BeforeMcu
<1>3. PICK i \in 1..25 : Phases[i] = p
  BY <1>1, <1>2 DEF PhaseNames
<1>4. i < 7
  BY <1>3 DEF Phases, BeforeMcu
<1>5. PICK j \in 1..25 : i < j /\ j <= 7 /\ q = Phases[j]
  BY <1>1, <1>3, <1>4, PhaseOrder
<1>6. \A k \in 2..7 : Phases[k] \in BeforeMcu
  BY DEF Phases, BeforeMcu
<1> QED
  BY <1>5, <1>6

LEMMA AfterMcuStays ==
  ASSUME NEW p \in {"mcu"} \union (AfterMcu \ {"flush"}), NEW q \in Then[p]
  PROVE  q \in AfterMcu
<1>1. DOMAIN Phases = 1..25 /\ Phases[14] = "flush"
  BY DEF Phases
<1>2. p \in PhaseNames
  BY PhaseList DEF AfterMcu
<1>3. PICK i \in 1..25 : Phases[i] = p
  BY <1>1, <1>2 DEF PhaseNames
<1>4. i >= 7 /\ i < 14
  BY <1>3 DEF Phases, AfterMcu
<1>5. PICK j \in 1..25 : i < j /\ j <= 14 /\ q = Phases[j]
  <2>1. Live(Phases[14])
    BY <1>1 DEF Live
  <2>2. 14 \in 1..25 /\ i < 14 /\ q \in Then[Phases[i]]
    BY <1>3, <1>4
  <2> QED
    BY SMTT(30), <2>1, <2>2, PhaseOrder
<1>6. \A k \in 8..14 : Phases[k] \in AfterMcu
  BY DEF Phases, AfterMcu
<1> QED
  BY <1>4, <1>5, <1>6

LEMMA BeginLeadsToRun == ASSUME NEW q \in Then["begin"] PROVE q = "run"
<1>1. DOMAIN Phases = 1..25 /\ Phases[15] = "begin" /\ Phases[16] = "run"
  BY DEF Phases
<1>2. Live(Phases[16])
  BY <1>1 DEF Live
<1>3. \E j \in 1..25 : 15 < j /\ j <= 16 /\ q = Phases[j]
  BY <1>1, <1>2, PhaseOrder
<1> QED
  BY <1>1, <1>3

\* In Error the only event that is heard asks for Error.
LEMMA ErrorIsDeaf ==
  ASSUME active = "Error", NEW ev, Answer(ev) \/ Tell(ev)
  PROVE  UNCHANGED omVars
<1>1. Hears(ev) => Table(active)[ev].target = active
  BY DEF Hears, Table, DefaultAnswers, Ask
<1>2. \A r : RequestOp(r) /\ r.target = active => UNCHANGED omVars
  BY DEF RequestOp, OM!RequestOp, OM!Accepts, OM!vars, omVars
<1> QED
  BY <1>1, <1>2 DEF Answer, Tell, Quiet

LEMMA ErrorAskedAgain ==
  ASSUME ErrorAsked, RequestOp(Ask("Error", CRITICAL))
  PROVE  ErrorAsked'
<1>1. Ask("Error", CRITICAL).target = "Error" /\ Ask("Error", CRITICAL).prio = CRITICAL
  BY DEF Ask
<1>2. OM!EffectivePrio("Error", CRITICAL) = CRITICAL
  BY QueuedPriority
<1> QED
  BY <1>1, <1>2 DEF ErrorAsked, RequestOp, OM!RequestOp, OM!SetPending, OM!vars

\* No event displaces an error that was asked for with the highest priority.
LEMMA ErrorStaysAsked ==
  ASSUME active \in OpNames, ErrorAsked, NEW ev, Answer(ev) \/ Tell(ev)
  PROVE  ErrorAsked'
<1>1. \A op : OM!EffectivePrio(op, NORMAL) < CRITICAL
  BY DEF OM!EffectivePrio, OM!MinPrio, OM!LOW, OM!NORMAL, OM!HIGH, NORMAL, CRITICAL
<1>2. \A op : ChangeTo(op).prio = NORMAL /\ DetourTo(op).prio = NORMAL
  BY DEF ChangeTo, DetourTo, Ask
<1>3. ASSUME Hears(ev)
      PROVE  Table(active)[ev] = Ask("Error", CRITICAL) \/ Table(active)[ev].prio = NORMAL
  <2>1. Table(active)[ev] \in {ChangeTo("Error"), ChangeTo("Idle"), ChangeTo("Dock"),
           ChangeTo("Mow"), ChangeTo("Undock"), ChangeTo("WaitRain"),
           Ask("Error", CRITICAL), DetourTo("EscapeReverse"), DetourTo("GpsWait")}
    <3>1. CASE active \in Routed
      BY <1>3, <3>1 DEF Hears, Table, Routed, MowAnswers, NavToStartAnswers, DockAnswers
    <3>2. CASE active \in {"EscapeReverse", "EscapeForward"}
      BY <1>3, <3>2 DEF Hears, Table, EscapeReverseAnswers, EscapeForwardAnswers
    <3>3. CASE active \notin Routed \union {"EscapeReverse", "EscapeForward"}
      BY <1>3, <3>3 DEF Hears, Table, Routed, ChargeAnswers, UndockAnswers,
                        WaitRainAnswers, ManualAnswers, DefaultAnswers
    <3> QED
      BY <3>1, <3>2, <3>3
  <2> QED
    BY <1>2, <2>1
<1>4. RequestOp(Ask("Error", CRITICAL)) => ErrorAsked'
  BY ErrorAskedAgain
<1>5. ASSUME NEW r, RequestOp(r), r.prio = NORMAL PROVE ErrorAsked'
  <2>1. ~(CRITICAL <= OM!EffectivePrio(r.target, r.prio))
    <3>1. OM!EffectivePrio(r.target, NORMAL) \in Int /\ CRITICAL \in Int
      BY DEF OM!EffectivePrio, OM!MinPrio, OM!LOW, OM!NORMAL, OM!HIGH, NORMAL, CRITICAL
    <3> QED
      BY <1>1, <1>5, <3>1
  <2> QED
    BY <1>5, <2>1 DEF ErrorAsked, RequestOp, OM!RequestOp, OM!Accepts, OM!vars
<1>6. Quiet => ErrorAsked'
  BY DEF Quiet, omVars, ErrorAsked
<1> QED
  BY <1>3, <1>4, <1>5, <1>6 DEF Answer, Tell

\* Left alone in Error, the robot asks for nothing.
LEMMA ErrorHolds ==
  ASSUME LoopInv, LeftAlone, sens.mcuLost, InError, Next
  PROVE  UNCHANGED omVars
<1>0. active = "Error" /\ pending = None /\ None = OM!None
  BY DEF InError, None, OM!None
<1>a. ASSUME NEW ev, Answer(ev) \/ Tell(ev) PROVE UNCHANGED omVars
  BY <1>0, <1>a, ErrorIsDeaf
<1>b. ASSUME NEW prio, RequestOp(Ask("Error", prio)) PROVE UNCHANGED omVars
  BY <1>0, <1>b DEF RequestOp, OM!RequestOp, OM!Accepts, OM!vars, omVars, Ask
<1>c. active \notin Routed \union {"Idle", "Charge", "Undock", "EscapeReverse", "GpsWait",
                                   "WaitRain", "Manual"}
  BY <1>0 DEF Routed
<1>1. CASE Hardware \/ PowerOff \/ TakeCommands \/ CommandsDone \/ Assemble \/ NoFlush
           \/ Settle \/ Diagnose \/ LoadMap \/ DiagClient
  BY <1>1 DEF omVars, Hardware, PowerOff, TakeCommands, CommandsDone, Assemble, NoFlush,
              Settle, Diagnose, LoadMap, DiagClient
<1>2. CASE Schedule \/ Arrive
  BY <1>2, <1>a, <1>c DEF Schedule, Arrive, Hold, Quiet, Routed
<1>3. CASE ExecuteCommand \/ Flush
  BY <1>0, <1>3 DEF ExecuteCommand, Flush, LeftAlone
<1>4. CASE CheckBattery \/ MonitorGps \/ MonitorPerimeter \/ MonitorMapChange
           \/ MonitorOverload \/ MonitorWatchdog
  BY <1>4, <1>a DEF CheckBattery, MonitorGps, MonitorPerimeter, MonitorMapChange,
                    MonitorOverload, MonitorWatchdog, Quiet
<1>5. CASE MonitorMcu \/ MonitorStuck
  BY <1>5, <1>a, <1>b DEF MonitorMcu, MonitorStuck, Quiet
<1>6. CASE Begin
  BY <1>6, <1>c DEF Begin, BeginMow, BeginDock, BeginUndock, BeginOther, Quiet, Routed
<1>7. CASE RunStep
  BY <1>7, <1>c DEF RunStep, RunIdle, RunMow, RunDock, RunCharge, RunUndock, RunEscape,
                    RunGpsWait, RunWaitRain, RunError, Running, Quiet, Routed
<1>8. CASE Button
  BY <1>8 DEF Button, Hold, Quiet, LeftAlone
<1>9. CASE ManualDrive
  BY <1>9, <1>c, Zenon DEF ManualDrive, Hold, Quiet
<1>10. CASE SafetyStop \/ SafetyLift \/ SafetyFault \/ Remember
  BY <1>10, <1>a DEF SafetyStop, SafetyLift, SafetyFault, Remember, Hold, Quiet
<1> QED
  BY <1>1, <1>2, <1>3, <1>4, <1>5, <1>6, <1>7, <1>8, <1>9, <1>10 DEF Next, Loop

LEMMA SilentNext ==
  LoopInv /\ SilentInv /\ LeftAlone /\ [Next]_vars /\ [Rearmed]_vars => SilentInv'
<1> SUFFICES ASSUME LoopInv, SilentInv, LeftAlone, [Next]_vars, [Rearmed]_vars,
                    sens'.mcuLost
             PROVE  SilentInv'
  BY DEF SilentInv
<1> DEFINE Other == PhaseNames \ (BeforeMcu \union AfterMcu)
           Unaware == /\ active = "Error" => pending = None
                      /\ latch.mcu => active = "Error"
           Aware   == latch.mcu /\ (InError \/ ErrorAsked)
           AtRest  == latch.mcu /\ InError /\ motor = Stopped
<1>0. /\ sens \in Readings /\ sens.mcuLost \in BOOLEAN /\ pc \in PhaseNames \union {"off"}
      /\ latch \in LatchTypes /\ active \in OpNames
  BY ReadingTypes, SameManager DEF LoopInv, LoopTypeOK
<1>1. CASE UNCHANGED vars
  BY <1>1 DEF vars, omVars, SilentInv, InError, ErrorAsked
<1>2. CASE Hardware
  <2>1. /\ sens' \in Readings /\ Live("mcu") /\ pc' \in BeforeMcu
        /\ UNCHANGED <<active, pending, latch>>
    <3>1. sens' \in Readings /\ pc = "hardware" /\ pc' \in Then["hardware"]
      BY <1>2 DEF Hardware, At, Advance
    <3>2. Live("mcu")
      BY <3>1, LostIsLive
    <3> QED
      BY <1>2, <3>1, <3>2, BeforeMcuStays DEF Hardware, omVars
  <2>2. Unaware
    <3>1. CASE sens.mcuLost
      BY <1>2, <3>1 DEF Hardware, At, SilentInv, BeforeMcu, AfterMcu, InError
    <3>2. CASE ~sens.mcuLost
      <4>1. sens' # sens
        BY <3>2
      <4> QED
        BY <3>2, <4>1 DEF Rearmed, vars
    <3> QED
      BY <3>1, <3>2
  <2> QED
    BY <2>1, <2>2 DEF SilentInv, BeforeMcu, AfterMcu
<1>3. ASSUME Next, ~Hardware PROVE SilentInv'
  <2>0. UNCHANGED sens /\ sens.mcuLost
    BY <1>3, RunMotors DEF Next, Loop, PowerOff, Schedule, TakeCommands, ExecuteCommand,
       CommandsDone, Assemble, CheckBattery, MonitorMcu, MonitorGps, MonitorPerimeter,
       MonitorMapChange, MonitorStuck, MonitorOverload, MonitorWatchdog, Flush, NoFlush,
       Begin, RunStep, Arrive, Settle, Diagnose, Button, ManualDrive, SafetyStop,
       SafetyLift, SafetyFault, Remember, LoadMap, DiagClient
  <2>a. Live("mcu")
    BY <1>0, <2>0, LostIsLive
  <2>b. InError => UNCHANGED omVars
    BY <1>3, <2>0, ErrorHolds
  <2>c. InError => InError'
    BY <2>b DEF InError, omVars
  <2>1. ASSUME pc \in BeforeMcu \ {"mcu"}, pc' \in BeforeMcu, UNCHANGED active,
               latch'.mcu = latch.mcu
        PROVE  SilentInv'
    <3>1. Unaware
      BY <2>0, <2>1 DEF SilentInv
    <3>2. Unaware'
      BY <2>1, <2>c, <3>1 DEF InError
    <3> QED
      BY <2>1, <3>2 DEF SilentInv, BeforeMcu, AfterMcu
  <2>2. ASSUME pc' \in AfterMcu, Aware' PROVE SilentInv'
    BY <2>2 DEF SilentInv, BeforeMcu, AfterMcu
  <2>3. ASSUME pc \notin BeforeMcu \union AfterMcu \union {"begin", "run"},
               pc' \notin BeforeMcu \union AfterMcu,
               latch'.mcu = latch.mcu, motor' \in {motor, Stopped}
        PROVE  SilentInv'
    BY <2>0, <2>3, <2>c DEF SilentInv
  <2>4. CASE Schedule \/ TakeCommands \/ ExecuteCommand \/ CommandsDone \/ Assemble
             \/ CheckBattery
    <3>1. pc \in BeforeMcu \ {"mcu"} /\ (Advance \/ pc' = pc)
      BY <2>4 DEF At, Schedule, TakeCommands, ExecuteCommand, CommandsDone, Assemble,
                  CheckBattery, BeforeMcu
    <3>2. pc' \in BeforeMcu
      BY <2>a, <3>1, BeforeMcuStays DEF Advance
    <3>3. UNCHANGED active
      BY <2>4, AnswerStays, CommandCoasts
         DEF Schedule, TakeCommands, ExecuteCommand, CommandsDone, Assemble, CheckBattery,
             Quiet, omVars
    <3>4. latch'.mcu = latch.mcu
      BY <1>0, <2>4 DEF LatchTypes, Schedule, TakeCommands, ExecuteCommand, CommandsDone,
                        Assemble, CheckBattery
    <3> QED
      BY <2>1, <3>1, <3>2, <3>3, <3>4
  <2>5. CASE MonitorMcu
    <3>1. pc = "mcu" /\ pc' \in AfterMcu
      BY <2>5, AfterMcuStays DEF MonitorMcu, At, Advance
    <3>2. Unaware
      BY <2>0, <3>1 DEF SilentInv, BeforeMcu
    <3>3. CASE latch.mcu
      <4>1. latch'.mcu
        BY <1>0, <2>0, <2>5, <3>3 DEF MonitorMcu, LatchTypes
      <4> QED
        BY <2>2, <2>c, <3>1, <3>2, <3>3, <4>1 DEF InError
    <3>4. CASE ~latch.mcu
      <4>1. latch'.mcu /\ RequestOp(Ask("Error", CRITICAL))
        BY <1>0, <2>0, <2>5, <3>4 DEF MonitorMcu, LatchTypes
      <4>2. InError' \/ ErrorAsked'
        <5>1. CASE active = "Error"
          BY <2>c, <3>2, <5>1 DEF InError
        <5>2. CASE active # "Error"
          <6>1. pendingPrio <= CRITICAL
            BY DEF LoopInv, OP!IInv, OP!TypeOK, OP!Priorities, OP!LOW, OP!NORMAL, OP!HIGH,
                   OP!CRITICAL, CRITICAL
          <6>2. OM!EffectivePrio("Error", CRITICAL) = CRITICAL
            BY QueuedPriority
          <6>3. /\ Ask("Error", CRITICAL).target = "Error"
                /\ Ask("Error", CRITICAL).prio = CRITICAL
            BY DEF Ask
          <6> QED
            BY <4>1, <5>2, <6>1, <6>2, <6>3
               DEF RequestOp, OM!RequestOp, OM!Accepts, OM!SetPending, ErrorAsked
        <5> QED
          BY <5>1, <5>2
      <4> QED
        BY <2>2, <3>1, <4>1, <4>2
    <3> QED
      BY <3>3, <3>4
  <2>6. CASE MonitorGps \/ MonitorPerimeter \/ MonitorMapChange \/ MonitorStuck
             \/ MonitorOverload \/ MonitorWatchdog
    <3>1. pc \in AfterMcu \ {"flush"} /\ pc' \in AfterMcu
      <4>1. pc \in AfterMcu \ {"flush"} /\ Advance
        BY <2>6 DEF At, MonitorGps, MonitorPerimeter, MonitorMapChange, MonitorStuck,
                    MonitorOverload, MonitorWatchdog, AfterMcu
      <4> QED
        BY <4>1, AfterMcuStays DEF Advance
    <3>2. latch.mcu /\ (InError \/ ErrorAsked)
      BY <2>0, <3>1 DEF SilentInv
    <3>3. latch'.mcu = latch.mcu
      BY <1>0, <2>6 DEF LatchTypes, MonitorGps, MonitorPerimeter, MonitorMapChange,
                        MonitorStuck, MonitorOverload, MonitorWatchdog
    <3>4. ErrorAsked => ErrorAsked'
      <4> SUFFICES ASSUME ErrorAsked PROVE ErrorAsked'
        OBVIOUS
      <4>1. ASSUME NEW ev, Answer(ev) \/ Tell(ev) PROVE ErrorAsked'
        BY <1>0, <4>1, ErrorStaysAsked
      <4>2. Quiet => ErrorAsked'
        BY DEF Quiet, omVars, ErrorAsked
      <4>3. RequestOp(Ask("Error", CRITICAL)) => ErrorAsked'
        BY ErrorAskedAgain
      <4> QED
        BY <2>6, <4>1, <4>2, <4>3 DEF MonitorGps, MonitorPerimeter, MonitorMapChange,
           MonitorStuck, MonitorOverload, MonitorWatchdog
    <3> QED
      BY <2>2, <2>c, <3>1, <3>2, <3>3, <3>4
  <2>7. CASE Flush
    <3>1. pc = "flush" /\ pc' = "begin" /\ pending # None
      BY <2>7, FlushLeadsToBegin DEF Flush, At, Advance
    <3>2. latch.mcu /\ ErrorAsked
      BY <2>0, <3>1 DEF SilentInv, AfterMcu, InError
    <3>3. latch'.mcu /\ InError'
      BY <2>7, <3>2 DEF Flush, OM!Flush, OM!None, None, ErrorAsked, InError
    <3> QED
      BY <3>1, <3>3 DEF SilentInv, BeforeMcu, AfterMcu
  <2>8. CASE NoFlush
    <3>1. pc = "flush" /\ pending = None /\ pc' = "run" /\ UNCHANGED <<omVars, latch>>
      BY <2>8, BeginLeadsToRun DEF NoFlush, At
    <3>2. latch.mcu /\ InError
      BY <2>0, <3>1 DEF SilentInv, AfterMcu, ErrorAsked, None
    <3> QED
      BY <2>c, <3>1, <3>2 DEF SilentInv, BeforeMcu, AfterMcu
  <2>9. CASE Begin \/ RunStep
    <3>1. pc \in {"begin", "run"} /\ pc' \in AfterFlush
      <4>1. pc \in {"begin", "run"} /\ (pc' \in Then["arrive"] \/ pc' \in Then[pc])
        BY <2>9, RunMotors DEF Begin, At, Turn, Advance
      <4> QED
        BY <4>1, AfterFlushStays DEF AfterFlush
    <3>2. latch.mcu /\ InError
      BY <2>0, <3>1 DEF SilentInv, BeforeMcu, AfterMcu
    <3>3. motor' = Stopped /\ latch' = latch
      BY <2>9, <3>2 DEF InError, Begin, BeginMow, BeginDock, BeginUndock, BeginOther,
         BeginStops, Routed, RunStep, RunIdle, RunMow, RunDock, RunCharge, RunUndock,
         RunEscape, RunGpsWait, RunWaitRain, RunError, Running
    <3> QED
      BY <2>c, <3>1, <3>2, <3>3 DEF SilentInv, BeforeMcu, AfterMcu, AfterFlush
  <2>10. CASE Arrive \/ Settle \/ Diagnose \/ Button \/ ManualDrive \/ SafetyStop
              \/ SafetyLift \/ SafetyFault \/ Remember
    <3>1. /\ pc \in AfterFlush \ {"hardware", "run"}
          /\ Advance \/ pc' = "hardware"
      BY <2>10 DEF At, Arrive, Settle, Diagnose, Button, ManualDrive, SafetyStop,
                   SafetyLift, SafetyFault, Remember, AfterFlush
    <3>2. pc' \in AfterFlush
      BY <3>1, AfterFlushStays DEF Advance, AfterFlush
    <3>3. InError
      BY <2>0, <3>1 DEF SilentInv, BeforeMcu, AfterMcu, AfterFlush
    <3>4. latch'.mcu = latch.mcu
      BY <1>0, <2>10 DEF LatchTypes, Arrive, Settle, Diagnose, Button, ManualDrive,
         SafetyStop, SafetyLift, SafetyFault, Remember
    <3>5. motor' \in {motor, Stopped}
      <4>1. CASE Arrive \/ SafetyStop \/ SafetyLift \/ SafetyFault \/ Remember
        BY <4>1, TellStops DEF Arrive, SafetyStop, SafetyLift, SafetyFault, Remember, Hold
      <4>2. CASE Settle \/ Diagnose \/ Button
        BY <2>0, <4>2, CommandCoasts DEF Settle, Diagnose, Button, Hold, LeftAlone
      <4>3. CASE ManualDrive
        <5>1. active \notin {"Idle", "Manual"}
          BY <3>3 DEF InError
        <5> QED
          BY <4>3, <5>1, Zenon DEF ManualDrive, Hold
      <4> QED
        BY <2>10, <4>1, <4>2, <4>3
    <3> QED
      BY <2>3, <3>1, <3>2, <3>4, <3>5 DEF AfterFlush, BeforeMcu, AfterMcu
  <2>11. CASE PowerOff
    BY <2>3, <2>11 DEF PowerOff, At, BeforeMcu, AfterMcu
  <2>12. CASE LoadMap
    BY <2>0, <2>12 DEF LoadMap, omVars, SilentInv, InError, ErrorAsked
  <2>13. CASE DiagClient
    <3>1. UNCHANGED <<omVars, pc, latch>> /\ diag = "none"
      BY <2>0, <2>13 DEF DiagClient, LeftAlone
    <3>2. UNCHANGED motor
      BY <2>13, <3>1 DEF DiagClient, DiagCheck, DiagRequest, DiagTimeout
    <3> QED
      BY <2>0, <3>1, <3>2 DEF omVars, SilentInv, InError, ErrorAsked
  <2> QED
    BY <1>3, <2>4, <2>5, <2>6, <2>7, <2>8, <2>9, <2>10, <2>11, <2>12, <2>13
       DEF Next, Loop
<1> QED
  BY <1>1, <1>2, <1>3

\* The cycle that finds the motor controller silent leaves the motors at rest,
\* and so does every later one until it answers again: monitorMcuConnectivity
\* sends the robot to Error once, and no operation, guard or sensor leads out
\* of it.  It takes that the robot is left alone meanwhile, and that the guard
\* was armed again after an earlier loss: the code arms it only in a cycle that
\* finds the controller answering and the robot out of Error.
THEOREM SilentControllerStops ==
  Spec /\ []LeftAlone /\ [][Rearmed]_vars => []SilentAtRest
<1>1. Init => SilentInv
  BY DEF Init, SilentInv
<1>2. SilentInv => SilentAtRest
  BY DEF SilentInv, SilentAtRest, At, BeforeMcu, AfterMcu
<1> QED
  BY <1>1, <1>2, LoopInvInit, LoopInvNext, SilentNext, PTL DEF Spec
=============================================================================
