------------------------------- MODULE Routes -------------------------------
(***************************************************************************)
(* core/navigation/RuntimeState.cpp, the route state, and how the          *)
(* operations use it: a mowing route, the mapped docking path, and a local *)
(* (free) route that leads around an obstacle or to the dock and then      *)
(* returns to what it interrupted.                                         *)
(*                                                                         *)
(* Geometry is abstract.  A target is the name of a route point: <<"mow",  *)
(* i>>, <<"dock", i>> or <<"free", i>>, counted from 0 as in the code; what *)
(* the planners find is the number of points of a path, 0 for none.  A     *)
(* transition that is asked for is made at once: what may come in between  *)
(* is the subject of RobotLoop.                                            *)
(***************************************************************************)
EXTENDS Integers

CONSTANTS
  MowLen,     \* points of a mission's route
  MaxDock,    \* bound on the points of the mapped docking path
  MaxFree,    \* bound on the points of a local route
  MaxTries    \* dock_retry_max_attempts

ASSUME RoutesAssumption ==
  /\ MowLen \in Nat \ {0} /\ MaxDock \in Nat
  /\ MaxFree \in Nat \ {0} /\ MaxTries \in Nat \ {0}

None == -1    \* no interrupted mission: interruptedMowPointsIdx_

VARIABLES
  op,       \* the active operation; Idle stands for Error, too
  back,     \* the operation an escape or a GPS wait goes back to
  dockLen,  \* points of the map's docking path
  rt,       \* RuntimeState
  saved,    \* the cursor of the interrupted mission, or None
  tries,    \* DockOp's retries, and those of them without progress
  inTheWay  \* obstacles of the map may lie on the route

vars == <<op, back, dockLen, rt, saved, tries, inTheWay>>

Lengths == 0..MaxFree        \* what a planner may return
Found   == 1..MaxFree
Origin  == <<"mow", 0>>      \* Point{}: no route uses it while mow = 0

NoDetour == [active |-> FALSE, mode |-> "MOW", target |-> Origin,
             mowIdx |-> 0, dockIdx |-> 0]

\* RuntimeState::clear.
Cleared == [mode |-> "MOW", shouldDock |-> FALSE, mow |-> 0, mowIdx |-> 0,
            dockIdx |-> 0, free |-> 0, freeIdx |-> 0, detour |-> NoDetour,
            target |-> Origin]

NoLocal(r) == [r EXCEPT !.free = 0, !.freeIdx = 0, !.detour = NoDetour]
----------------------------------------------------------------------------
(* Operations of RuntimeState: each takes a route state to the set of      *)
(* route states it may become.                                             *)

\* Mutant of BeginFreeRoute: the return point is the mowing route's start.
BeginFreeRouteFromStart(r, mode, target, dockIdx, n) ==
  [r EXCEPT !.detour = [active |-> TRUE, mode |-> mode, target |-> target,
                        mowIdx |-> 0, dockIdx |-> dockIdx],
            !.free = n, !.freeIdx = 0, !.mode = "FREE", !.target = <<"free", 0>>]

\* A local route of n points that returns to mode and target.
BeginFreeRoute(r, mode, target, dockIdx, n) ==
  [r EXCEPT !.detour = [active |-> TRUE, mode |-> mode, target |-> target,
                        mowIdx |-> r.mowIdx, dockIdx |-> dockIdx],
            !.free = n, !.freeIdx = 0, !.mode = "FREE", !.target = <<"free", 0>>]

\* Around an obstacle and back to the present target.
Detours(r) == {BeginFreeRoute(r, r.mode, r.target, r.dockIdx, n) : n \in Found}

\* startPlannedMowing begins at the nearest point; seekToMowIndex resumes.
StartPlannedMowing(i) ==
  [Cleared EXCEPT !.mow = MowLen, !.mowIdx = i, !.target = <<"mow", i>>]

\* startDocking, and retryDocking, whose lateral offset is geometry: a local
\* route to the first point of the docking path, or straight to it.  Empty:
\* there is no docking path.
StartDocking(r) ==
  LET d == [r EXCEPT !.shouldDock = TRUE, !.dockIdx = 0]
  IN IF dockLen = 0 THEN {}
     ELSE {BeginFreeRoute(d, "DOCK", <<"dock", 0>>, 0, n) : n \in Found}
          \union {[NoLocal(d) EXCEPT !.mode = "DOCK", !.target = <<"dock", 0>>]}

\* A better approach replaces the local route; it takes over the mode to
\* return to, but the target of the moment, not the target to return to.
InjectFreePath(r, n) ==
  IF n = 0 THEN r
  ELSE BeginFreeRoute(r, IF r.detour.active THEN r.detour.mode ELSE r.mode,
                      r.target, r.dockIdx, n)

StartUndocking(r) ==
  [NoLocal(r) EXCEPT !.mode = "DOCK", !.shouldDock = FALSE,
                     !.dockIdx = dockLen - 1, !.target = <<"dock", dockLen - 2>>]

\* Mutant of Replan: on a local route as well.
ReplanAnywhere(r) == Detours(r)

\* replanToCurrentTarget: not on a local route; a failed plan leaves none.
Replan(r) == IF r.mode = "FREE" THEN {} ELSE Detours(r)

IsDocking(r)   == r.shouldDock /\ r.mode \in {"DOCK", "FREE"}
IsUndocking(r) == ~r.shouldDock /\ r.mode = "DOCK"

Moved(r)   == [ok |-> TRUE, rt |-> r]
Ended(r)   == [ok |-> FALSE, rt |-> r]

\* The cursor stays on the last point when the route is completed.
NextMowPoint(r) ==
  IF r.mowIdx + 1 < r.mow
  THEN Moved([r EXCEPT !.mowIdx = @ + 1, !.target = <<"mow", r.mowIdx + 1>>])
  ELSE Ended([r EXCEPT !.mowIdx = IF r.mow = 0 THEN @ ELSE r.mow - 1])

\* Undocking runs the path backwards; below 0 all cursors act alike, so that
\* the model stops counting there.
NextDockPoint(r) ==
  CASE dockLen = 0 -> Ended(r)
    [] dockLen > 0 /\ ~r.shouldDock ->
         IF r.dockIdx > 1
         THEN Moved([r EXCEPT !.dockIdx = @ - 1, !.target = <<"dock", r.dockIdx - 2>>])
         ELSE Ended([r EXCEPT !.dockIdx = IF @ > -1 THEN @ - 1 ELSE @])
    [] dockLen > 0 /\ r.shouldDock ->
         IF r.dockIdx + 1 < dockLen
         THEN Moved([r EXCEPT !.dockIdx = @ + 1, !.target = <<"dock", r.dockIdx + 1>>])
         ELSE Ended([r EXCEPT !.dockIdx = @ + 1])

\* Mutant of NextFreePoint: the target stays on the local route.
NextFreePointStays(r) ==
  IF r.freeIdx + 1 < r.free
  THEN Moved([r EXCEPT !.freeIdx = @ + 1, !.target = <<"free", r.freeIdx + 1>>])
  ELSE Moved([NoLocal(r) EXCEPT !.mode = r.detour.mode,
                                !.mowIdx = r.detour.mowIdx,
                                !.dockIdx = r.detour.dockIdx])

NextFreePoint(r) ==
  IF r.freeIdx + 1 < r.free
  THEN Moved([r EXCEPT !.freeIdx = @ + 1, !.target = <<"free", r.freeIdx + 1>>])
  ELSE Moved([NoLocal(r) EXCEPT !.mode = r.detour.mode,
                                !.target = r.detour.target,
                                !.mowIdx = r.detour.mowIdx,
                                !.dockIdx = r.detour.dockIdx])

\* nextPoint: the next point of the route in force, and a local route first if
\* an obstacle lies on the way to it.
NextPoint(r) ==
  LET s == CASE r.mode = "MOW"  -> NextMowPoint(r)
             [] r.mode = "DOCK" -> NextDockPoint(r)
             [] r.mode = "FREE" -> NextFreePoint(r)
  IN {s} \union IF s.ok /\ s.rt.mode # "FREE" /\ inTheWay
                THEN {Moved(d) : d \in Detours(s.rt)} ELSE {}
----------------------------------------------------------------------------
(* The operations                                                          *)

Init ==
  /\ op = "Idle" /\ back = "Idle"
  /\ dockLen \in 0..MaxDock
  /\ rt = Cleared
  /\ saved = None
  /\ tries = [all |-> 0, idle |-> 0]
  /\ inTheWay \in BOOLEAN

\* Idle, Charge and Error forget the mission (Robot::tickStateMachine).
Rest(o) == op' = o /\ rt' = Cleared /\ UNCHANGED tries

\* DockOp::begin with route state r.
BeginDock(r) ==
  IF StartDocking(r) = {} THEN Rest("Idle")
  ELSE /\ op' = "Dock"
       /\ tries' = [all |-> 0, idle |-> 0]
       /\ \E d \in StartDocking(r), n \in Lengths : rt' = InjectFreePath(d, n)

\* A mission begins at the point nearest to the robot, by way of Undock on the
\* charger.  startMowing resumes an interrupted one where it was instead;
\* startMowingZones and startMowingMission leave it interrupted.
StartMowing ==
  /\ op' \in {"Undock", "NavToStart"}
  /\ \/ /\ saved # None
        /\ rt' = StartPlannedMowing(saved) /\ saved' = None
     \/ /\ \E i \in 0..(MowLen - 1) : rt' = StartPlannedMowing(i)
        /\ UNCHANGED saved
  /\ UNCHANGED <<back, dockLen, tries, inTheWay>>

\* The operator's startDocking saves the cursor of an active mission, and
\* clears the route state before it asks for Dock; in Dock that request is
\* dropped.
OperatorDocks ==
  /\ saved' = IF rt.mow > 0 THEN rt.mowIdx ELSE saved
  /\ IF op = "Dock" THEN rt' = Cleared /\ UNCHANGED <<op, tries>>
     ELSE BeginDock(Cleared)
  /\ UNCHANGED <<back, dockLen, inTheWay>>

\* Battery, timetable, rain, perimeter or GPS: the operation itself asks for
\* Dock, and the mission is kept.
RobotDocks ==
  /\ op \in {"NavToStart", "Mow", "Escape"}
  /\ BeginDock(rt)
  /\ UNCHANGED <<back, dockLen, saved, inTheWay>>

\* An obstacle, getting stuck or a GPS wait.
Interrupt ==
  /\ op \in {"NavToStart", "Mow", "Dock"}
  /\ op' = "Escape" /\ back' = op
  /\ UNCHANGED <<dockLen, rt, saved, tries, inTheWay>>

\* EscapeReverseOp plans around what it met, unless it is on a local route;
\* GpsWaitFixOp does not.  Then the interrupted operation begins anew.
Continue ==
  /\ op = "Escape"
  /\ \E r \in Replan(rt) \union {rt} :
       IF back = "Dock" THEN BeginDock(r)
       ELSE op' = back /\ rt' = r /\ UNCHANGED tries
  /\ UNCHANGED <<back, dockLen, saved, inTheWay>>

\* The charger's contact, the operator's stop, an error.
Finish ==
  /\ op # "Idle"
  /\ Rest(IF op = "Dock" THEN "Charge" ELSE "Idle") \/ Rest("Idle")
  /\ UNCHANGED <<back, dockLen, saved, inTheWay>>

\* UndockOp: the blind reverse is done; without a path it goes on at once.
BlindReverseDone ==
  /\ op = "Undock"
  /\ IF dockLen >= 2
     THEN op' = "UndockPath" /\ rt' = StartUndocking(rt)
     ELSE op' = "NavToStart" /\ UNCHANGED rt
  /\ UNCHANGED <<back, dockLen, saved, tries, inTheWay>>

\* LineTracker::track, when the route is blocked: a local route.  UndockOp asks
\* after each turn whether its path is still the one in force.
TrackAround ==
  /\ op \in {"NavToStart", "Mow", "Dock", "UndockPath"} /\ inTheWay
  /\ rt' \in Replan(rt)
  /\ op' = IF op = "UndockPath" THEN "NavToStart" ELSE op
  /\ UNCHANGED <<back, dockLen, saved, tries, inTheWay>>

\* LineTracker::track, when the target is reached: onTargetReached,
\* advanceTracking and onNoFurtherWaypoints of the operation.
TargetReached ==
  /\ op \in {"NavToStart", "Mow", "UndockPath"}
  /\ \E s \in NextPoint(rt) :
       \/ /\ op = "NavToStart"
          /\ op' = "Mow" /\ rt' = s.rt /\ UNCHANGED tries
       \/ /\ op = "Mow" /\ s.ok
          /\ rt' = s.rt /\ UNCHANGED <<op, tries>>
       \/ /\ op = "Mow" /\ ~s.ok
          /\ BeginDock(s.rt)
       \/ /\ op = "UndockPath"
          /\ rt' = s.rt
          /\ op' = IF IsDocking(s.rt) \/ IsUndocking(s.rt) THEN op ELSE "NavToStart"
          /\ UNCHANGED tries
  /\ UNCHANGED <<back, dockLen, saved, inTheWay>>

\* Mutant of Retried: a retry with progress is not counted.
RetriedUncounted(idle) ==
  [all |-> IF idle = 0 THEN tries.all ELSE tries.all + 1, idle |-> idle]

\* DockOp::onNoFurtherWaypoints: two retries without progress, or as many as
\* allowed, are an error.
GivesUp(idle) == idle >= 2 \/ tries.all >= MaxTries
Retried(idle) == [all |-> tries.all + 1, idle |-> idle]

DockTargetReached ==
  /\ op = "Dock"
  /\ \E s \in NextPoint(rt) :
       \/ /\ s.ok
          /\ rt' = s.rt /\ UNCHANGED <<op, tries>>
       \/ /\ ~s.ok
          /\ \E idle \in {0, tries.idle + 1} :
               IF GivesUp(idle) \/ StartDocking(s.rt) = {}
               THEN Rest("Idle")
               ELSE /\ rt' \in StartDocking(s.rt)
                    /\ tries' = Retried(idle)
                    /\ UNCHANGED op
  /\ UNCHANGED <<back, dockLen, saved, inTheWay>>

\* loadMap: another docking path; the operations that follow a route are told
\* and end, Undock and the escape are not.
LoadMap ==
  /\ dockLen' \in 0..MaxDock
  /\ IF op \in {"NavToStart", "Mow", "Dock"} THEN Rest("Idle")
     ELSE UNCHANGED <<op, rt, tries>>
  /\ UNCHANGED <<back, saved, inTheWay>>

\* Obstacles come, and expire.
Obstacles ==
  /\ inTheWay' = ~inTheWay
  /\ UNCHANGED <<op, back, dockLen, rt, saved, tries>>

Next ==
  \/ StartMowing \/ OperatorDocks \/ RobotDocks \/ Interrupt \/ Continue
  \/ Finish \/ BlindReverseDone \/ TrackAround \/ TargetReached
  \/ DockTargetReached \/ LoadMap \/ Obstacles

Spec == Init /\ [][Next]_vars

\* While Dock is not interrupted the robot reaches the target of the moment: it
\* drives towards it in every cycle.
FairSpec == Spec /\ WF_vars(DockTargetReached)
----------------------------------------------------------------------------
(* Properties                                                              *)

Targets == {"mow", "dock", "free"} \X (0..(MowLen + MaxDock + MaxFree))

RouteStates ==
  [mode : {"MOW", "DOCK", "FREE"}, shouldDock : BOOLEAN, mow : {0, MowLen},
   mowIdx : 0..(MowLen - 1), dockIdx : -1..MaxDock, free : Lengths,
   freeIdx : 0..(MaxFree - 1), target : Targets,
   detour : [active : BOOLEAN, mode : {"MOW", "DOCK"}, target : Targets,
             mowIdx : 0..(MowLen - 1), dockIdx : -1..MaxDock]]

TypeOK ==
  /\ op \in {"Idle", "Charge", "NavToStart", "Mow", "Dock", "Escape", "Undock",
             "UndockPath"}
  /\ back \in {"Idle", "NavToStart", "Mow", "Dock"}
  /\ dockLen \in 0..MaxDock
  /\ rt \in RouteStates
  /\ saved \in {None} \union 0..(MowLen - 1)
  /\ tries \in [all : 0..MaxTries, idle : 0..1]
  /\ inTheWay \in BOOLEAN

\* The way mode, the local route and its return point agree: on a local route
\* there is one, with the cursor on it, and it returns to a real route; off it
\* nothing is left of it (else nextFreePoint ends the mission, or a later
\* detour returns to an older route).
LocalRouteSound ==
  /\ rt.mode = "FREE" <=> rt.detour.active
  /\ rt.mode = "FREE" <=> rt.free > 0
  /\ rt.mode = "FREE" => rt.freeIdx < rt.free /\ rt.detour.mode # "FREE"

\* Whatever interrupts mowing, the robot drives to the point its cursor names,
\* and a detour returns to it.
MowingReturns ==
  /\ rt.mode = "MOW" /\ rt.mow > 0 => rt.target = <<"mow", rt.mowIdx>>
  /\ rt.mode = "FREE" /\ rt.detour.mode = "MOW" =>
       rt.detour.target = <<"mow", rt.mowIdx>> /\ rt.detour.mowIdx = rt.mowIdx

\* Within a mission the points are mown in order: detours, escapes, docking and
\* waits neither skip a point nor go back.
MowsInOrder ==
  [][StartMowing \/ rt.mow = 0 \/ rt'.mow = 0
       \/ rt'.mowIdx \in {rt.mowIdx, rt.mowIdx + 1}]_vars

\* Docking comes to an end: with contact, an error or an interruption, the
\* retries included, unless obstacles keep coming.
DockingEnds == <>[]~inTheWay => (op = "Dock" ~> op # "Dock")

(* Said of the program, and not so: see the findings.                      *)

\* A robot that has come to the start of the docking path has undocked.
UndockPathEnds == op = "UndockPath" => rt.dockIdx > 0
=============================================================================
