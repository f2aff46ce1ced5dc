# sunray-core: a TLA+ model of the mowing robot's program

sunray-core drives the RTK-GPS lawn mower Alfred: a C++17 process on a
Raspberry Pi (`src/core`, `src/hal`, `src/platform`), an STM32 motor controller
(`src/alfred/firmware`), a Svelte web interface and a Flutter app. This
directory models the part in which the decisions are made - the operation
manager, the operations, the control loop that senses, guards, ticks and stops,
the route it follows, the missions, the path search, and the line to the motor
controller with the controller's own protection - and the parts around it that
wait, store or listen: web server, stored maps, MQTT client, history and GPS
receiver. It checks them with TLC and proves their central properties with
TLAPS.

File names below are relative to `src/`.

## 1. Inventory

### Components, their state and their operations

| component | state | operations | modelled in |
|---|---|---|---|
| operation manager, `core/op/Op.cpp` | `activeOp_`, `pendingOp_`, `pendingPriority_`, every operation's `nextOp` | `requestOp`, `changeOp`, `setPending`, `tick`, `changeOperationTypeByOperator` | `Ops`, `OpManager` |
| the twelve operations, `core/op/*Op.cpp` | per operation: timers, counters, flags such as `returnBackOnRecovery` | `begin`, `run`, `end`, about 20 event handlers each | `Ops` (who answers what), `RobotLoop` (`Begin*`, `Run*`) |
| control loop, `core/Robot.cpp` `run` | sensor snapshot, latches, edges | `tickHardware` ... `tickSafetyStop`, in a fixed order | `RobotLoop` |
| safety guards, `tickSafetyGuards` | one latch, counter or edge each | battery, motor controller, GPS, perimeter, map change, stuck, overload, watchdog | `RobotLoop` |
| operator commands, `processPendingExternalCommands` | `externalCmdQueue_` under a mutex | start, start zones, dock, stop, resume, joystick, button, timetable | `RobotLoop` |
| missions | `missions.json`, `pendingMissionPlan_`, `activeMissionPlan_`, `interruptedMissionPlan_` | store, delete, preview, start, save, resume | `Missions`; in `RobotLoop` as `job` |
| motor diagnosis, `tickDiag`, `diagRunMotor` ... | `diagReq_`, a condition variable | request, run, time out, cancel | `RobotLoop` (`diag`) |
| route state, `core/navigation/RuntimeState.cpp` | three cursors, the way mode, the detour with its return point | start, advance, detour, resume, seek | `Routes` (`rt`) |
| line tracker, `LineTracker.cpp` | kidnap edge | `track` | `Track`, `Arrive` in `RobotLoop`; `TargetReached`, `TrackAround` in `Routes` |
| costmap, grid search, `PathPlanner` | layers of cells, costs; open set, costs, parents | `buildFromMap`, `planPath`, `smoothPath`, `pathAllowed` | `GridPlanner` |
| missions' compiler, stripes, transitions | polygons | geometry | a plan is accepted or refused (`Missions`) |
| state estimator | a Kalman filter | floating point | not modelled |
| serial driver, `hal/SerialRobotDriver` | latched PWM values, tick counters, sensor snapshot, `mcuConnected_`, deadlines | `run` and its ticks, the frame parsers, `readOdometry`, `keepPowerOn` | `AlfredLink` (`drv`) |
| motor controller, `alfred/firmware/rm18.ino` | speed settings, timeouts, overload count, sensors | `loop`, `cmdMotor`, `cmdSummary`, `readSensors`, `readMotorCurrent` | `Firmware` (`fw`) |
| GPS driver, `hal/GpsDriver` | parser state, `lastRelposMs_`, the solution | `readerLoop`, `parseByte`, `dispatchMessage`, the solution's timeout | `Gps` |
| IMU driver, `platform/*` | registers | calibration, system calls | not modelled |
| web socket and HTTP server, `core/WebSocketServer.cpp` | requests, `stmFlashRunning_`, `otaRunning_`, the last telemetry | about forty handlers on one worker, a push thread, `stop` | `Server`, `Service` |
| stored maps, in the same file | `map.json`, `maps/`, `catalog.json` | rebuild, create, edit, rename, activate, delete | `MapStore` |
| MQTT client, `core/MqttClient.cpp` | `connected`, `cmdSubscribed`, the retry's deadline | callbacks, push thread, `stop` | `Mqtt` |
| history, `core/storage/*`, `tickSessionTracking` | the SQLite file, `currentSession_`, `warnedWriteFailure_` | upgrade, append, upsert, prune, clear | `History` |
| configuration, buzzer | key-value file | storage, output | not modelled |
| user interfaces | - | - | not modelled |

### How they interact

`Robot::run` is called every 20 ms from one thread. It owns all state above
except for three things other threads touch: the command queue (pushed by web
socket, MQTT and HTTP, swapped out under its mutex once per cycle), the map and
`resumeBlockedByMapChange_` (written by `loadMap` on the web socket thread), and
`diagReq_` (written by the thread that serves a diagnosis). In front of it the
web server's single worker takes one request after the other; what a handler
waits for - a diagnosis by the control loop, a script, a flash - all later
requests wait for. MQTT has two threads, the library's network thread and the
client's push thread, which share flags without a lock; the GPS driver has one,
which hands a solution over under a mutex. Maps, missions and history are files:
the first two are truncated and written anew, without a copy; in the last each
statement is a transaction of its own.

Guards, tracker and stop logic *tell* the active operation of an event by
calling its handler; most handlers ask the manager for a transition with a
priority. A request is only noted: one slot, and an equal or higher priority
overwrites what is in it. The next `tick` calls `end()` of the old and
`begin()` of the new operation. A detour (escape, GPS wait) is asked for with a
*return address*, stored in the detour itself when the request is made.

The serial driver is a part of that cycle: `tickHardware` calls its `run`, which
reads what the controller has answered, sends `AT+M` with the motor values that
were latched in the cycle before, every half second `AT+S`, and every five
seconds looks whether any `AT+M` was answered. The controller runs its own loop: it
obeys commands, forgets them after three seconds, cuts the motors off on an
overload, and is reset by its watchdog when it hangs.

### What is hard

* **Ordering.** Eight guards, the operation's own `run`, the tracker, the
  button, the joystick and four stop edges ask for transitions in one cycle;
  the slot has room for one.
* **Edges and latches.** Most events are told once. If the operation of that
  moment has no handler, or its request is displaced, nobody tells it again.
* **Return addresses** outlive the request that wrote them.
* **Motors.** A motor may be left on by any of the 12 x 12 transitions; `end()`
  and `begin()` share the duty of stopping it, unevenly.
* **Other threads** change the map flag and the diagnosis between any two
  phases.
* **Repetition.** Escape, retry, wait: loops that only a counter ends.
* **Routes within routes.** A local route interrupts a mowing or docking route,
  is itself interrupted, and must return to the point it left.
* **One worker.** A handler that waits holds up all others, a stop among them.
* **Files.** A write that is cut short, a reader that comes in between, a process
  that dies between the two files that must agree.
* **Flags of two threads.** What was asked of a library is noted after the answer
  of a later connection.
* **A byte stream** has no frames once a byte is lost.
* **Two computers.** Frames are lost, the process dies and is started again, the
  controller hangs or is reset; what one side believes of the other is old.

What each component must guarantee: the manager keeps priorities and return
addresses consistent; a stop sensor leaves the motors at rest at the end of
every cycle; an operation without drive leaves them at rest; a detour ends where
it began; a route is there whenever one is followed; a low battery ends mowing;
a recovered GPS ends the wait; a critical battery, with nobody at the robot, ends the
program with the motors at rest; a local route returns to
what it interrupted, and the points of a mission are mown in order; silence on
the line stops the motors, and no tick of the wheels is counted twice; a start
that names a mission mows that mission's zones and no others; each request is answered
in its turn and leaves nothing behind in the loop, and a shutdown ends; the maps that
are listed exist, and a single failure does not lose the map in use; the subscription to commands outlives every
broken connection; retention keeps the newest, a session without an end is
explained; a fix is recent, and the parser finds its way back; a way is found if
there is one.

## 2. Modules

| module | what it is |
|---|---|
| `Ops` | The operations, the priorities, and for every operation the table of its handlers: which request each event leads to. Also what each `begin()` and `end()` does to the motors and every request the operations make on their own. No variables. |
| `OpManager` | The manager alone: `active`, `pending`, `pendingPrio`, `next`. The active operation may ask, in any order, for everything `Ops` says it can ask for. This is the abstract specification of the loop. |
| `RobotLoop` | `Robot::run`, phase by phase, with all guards, commands, handlers, the diagnosis and the other threads. `OM == INSTANCE OpManager`. |
| `Routes` | `RuntimeState` and how the operations use it: mowing, docking and undocking routes, local routes with their return points, the docking retries. |
| `Firmware` | The motor controller by itself: `loop` with its command timeout, overload cut-out and watchdog. |
| `AlfredLink` | `SerialRobotDriver`, the line and the controller; extends `Firmware`. |
| `Missions` | `missions.json` between the worker that writes it and the loop that reads it, the commands that name a mission, the preview and the plans. |
| `Service` | What a client of the server may rely on. The abstract specification of `Server`. |
| `Server` | The worker with its handlers, the push thread, main's shutdown, and what requests wait for in the control loop. `Requested == INSTANCE Service`. |
| `MapStore` | The handlers of maps as sequences of file writes, any of which may fail or be the last one. |
| `Mqtt` | The network thread's callbacks, the push thread, main, and the broker. |
| `History` | The upgrade of the database, events and sessions with their limits, and the loop that writes them. |
| `Gps` | The UBX parser byte by byte, and the solution with its timeout. |
| `GridPlanner` | The costmap, A*, smoothing and the last check, for any maps (`Grounds`), and a reference for the cheapest way. |
| `MCRobotLoop`, `MCAlfredLink` | the instances of the loop and of the line that TLC checks |
| `MCRobotParts`, `MCHostParts` | instances of parts that share no variable, see section 3; the planner's maps are in `MCHostParts` |
| `OpManagerProofs`, `RobotLoopProofs`, `RobotSafetyProofs`, `RoutesProofs`, `FirmwareProofs`, `MissionsProofs` | theorems and their proofs, for the modules they are named after; `RobotSafetyProofs` for the loop's other invariants |
| `HostProofs`, `StoreProofs` | theorems about `Server`, `Mqtt`, `Gps` and `GridPlanner`, and about `MapStore` and `History` |

### State and code

| `RobotLoop` | code |
|---|---|
| `active`, `pending`, `pendingPrio`, `next` | `OpManager::activeOp_`, `pendingOp_`, `pendingPriority_`, `Op::nextOp` |
| `pc` | the phase of `Robot::run` that comes next; `"off"` after the loop has left |
| `sens` | `sensors_`, `battery_`, `odometry_.mcuConnected`, the GPS quality of this cycle; one reading per cycle |
| `seen` | `previousSensors_`, `prevLiftDebounced`, `previousInsidePerimeter_`, the debounced lift |
| `latch` | the guards' latches and the state the operations keep from cycle to cycle |
| `motor` | the last command to the drive wheels and to the blade |
| `job` | `route`: what `RuntimeState` holds; `plan`: the waypoint executor's plan; `mission`, `saved`: active and interrupted mission plan; `halted`: history, for one property |
| `blocked` | `resumeBlockedByMapChange_`, its copy in the context, and its value last seen by the guard |
| `batch` | the commands swapped out of the queue |
| `diag` | the diagnosis: none, allowed by the check for Idle, active |
| `running` | `running_` |

| `Routes` | code |
|---|---|
| `op`, `back` | the active operation, and where an escape or a GPS wait goes back to (`Idle` stands for Error, too; `UndockPath` is Undock's second phase) |
| `rt` | `RuntimeState`: way mode, `shouldDock_`, the three routes' lengths and cursors, the target, `freeRouteContext_` (`detour`) |
| `dockLen` | the docking path of the map that is loaded |
| `saved` | `interruptedMowPointsIdx_` |
| `tries` | Dock's two retry counters |
| `inTheWay` | whether the map has obstacles that may lie on the route |

| `Firmware`, `AlfredLink` | code |
|---|---|
| `fw.wheels`, `blade`, `outWheels`, `outBlade` | `leftSpeedSet`/`rightSpeedSet`, `mowSpeedSet`, and the motor pins |
| `fw.quiet`, `heal`, `window`, `dog` | time since `motorTimeout` was set, to `motorOverloadTimeout`, since `motorOverloadWindowStart`, since `IWatchdog.reload` |
| `fw.overload`, `permanent`, `count` | `motorOverload`, `motorPermanentFault`, `motorOverloadCount` |
| `fw.bumper`, `mowFault`, `ticks`, `boot` | sensor globals, the ticks not yet sent, `setup`'s delay |
| `drv` | `pwm*_`, `pwmMowCurr_` (`ramp`), `mcuConnected_`, `resetTicks_`, raw minus last ticks (`unread`), `motorRxCount_ > 0` (`rx`), the deadlines, `sensors_`, the two fault bits, `shutdownPending_` |
| `pi`, `late` | the process and how long ago its last cycle was |
| `toMcu`, `toPi` | frames in the line and the receive buffers |
| `age`, `trip`, `silent`, `owed` | history variables, for the properties |

| `Missions` | code |
|---|---|
| `file`, `writing`, `target` | `missions.json`, and the worker between truncating and writing it |
| `zones` | the zones of the map `Robot` holds |
| `commands` | `externalCmdQueue_` |
| `preview`, `plan`, `interrupted` | `pendingMissionPlan_`, `activeMissionPlan_`, `interruptedMissionPlan_` |
| `stored`, `had` | history: the missions as clients stored them, and the zones each ever had |

| `Server` | code |
|---|---|
| `inbox`, `work`, `at` | requests before the worker, the one at work, the place in its handler |
| `open`, `main` | the library's state, and how far main is in `WebSocketServer::stop` |
| `running`, `activeOp`, `told`, `stopped` | of `Robot`: its loop, its operation, the telemetry the server has, a stop in its queue |
| `diag`, `moving` | `diagReq_` and the motors that the loop has switched on for it |
| `blade` | the blade, as `Robot::diagMowMotor` has switched it from the worker |
| `flashing`, `excused`, `grace`, `updating` | `stmFlashRunning_`, `stmFlashMaintenanceActive_`, its deadline, `otaRunning_` |

| `MapStore` | code |
|---|---|
| `disk` | `map.json`, the files of `maps/` (`entry`), `catalog.json` |
| `robot` | the document `Robot::loadMap` read last |
| `req`, `todo`, `editing` | the request at work and the writes left of it |
| `safe` | history: the document that `map.json` and the active map's file both held last, or what an activation has put in its place since |

| `Mqtt` | code |
|---|---|
| `link`, `callback`, `broker` | the connection, the callback the network thread is in, the broker's subscription |
| `connected`, `subscribed`, `waiting` | `Impl::connected`, `cmdSubscribed`, `nextSubscribeRetryMs` ahead |
| `push`, `answer` | where the push thread is, and what its call returned |
| `client`, `queue`, `alive` | main's `stop`, requests in `Robot`'s queue, the process |

| `History` | code |
|---|---|
| `db` | the file: its `schema_version`, whether its tables fit, the rows, the backup |
| `proc`, `life`, `uptime` | the process, its starts, `now_ms_` |
| `mowing`, `doing`, `session` | `lastRecordedOpName_` is Mow, what follows a transition's event, `sessionActive_` and `currentSession_` |
| `warned` | `EventRecorder::warnedWriteFailure_` |
| `worked`, `cut`, `lost` | history: the last write worked, sessions nobody could end, the latest event pruned |

| `Gps` | code |
|---|---|
| `frame`, `pos` | what the receiver is sending |
| `parser` | `state_`, the payload left, whether the bytes read belong together |
| `relpos`, `solution` | the age of `lastRelposMs_`, `data_.solution` |
| `silence`, `received` | history: the age of the last solution, and whether this pass received one |

| `GridPlanner` | code |
|---|---|
| `ground` | the map, the zone and the docking corridor that `planPath` is given |
| `ends` | source and destination |
| `heap`, `gCost`, `parent`, `closed` | the same names in `GridMap::planPath` (`openSet`) |
| `search`, `path` | how far the plan is, and its points; the reconstruction puts them in front one by one, so that nothing is left to reverse |
| `kept` | the length of `result` in `smoothPath`; what waits behind it in `path` is still to smooth |

A phase of the code is an action of the model, named for it; a phase whose input
is not part of a run is left out of that run's cycle (`Live`, `Then`), which
changes no reachable state of the others. `Hears`, `Answer` and `Tell` stand for
the call of a handler. Two facts a reader may look for: `onImuTilt` and
`onImuError` are never called by `Robot`, and no operation handles
`onObstacleRotation`, so neither is an event here.

### What is abstract

* *Time*: whether a timer has run out (escape time, charge contact, debounce,
  GPS age, retry limits of Charge and Dock, button hold) is a choice of the step
  that reads it. Only the stuck counter is kept, as the properties are about it.
* *Place*: a route is there or not (`RobotLoop`), or a number of points with
  names (`Routes`), where a planner returns a length; perimeter, kidnap and
  "target reached" are inputs.
* *`Routes` makes a transition at once* when it is asked for; what may come in
  between is the subject of `RobotLoop`.
* *`Firmware` and `AlfredLink` count time* in control cycles, in which every
  periodic part of the sketch runs once. Motors are on or off, analog readings
  above their threshold or not; the pulses that release the blade's brake count
  as on, and a wheel that coasts counts no ticks. The overload count stops at 6,
  from where it no longer matters. The bumper stands for all stop sensors.
* *The line* keeps the order of frames; a damaged frame is a lost one, so damage
  the 8-bit sum does not show is left out. The controller's buffer takes two
  frames (`Buffer`). Legacy frames, the firmware version, battery values, the
  charger's debounce, the sign and the wrap-around of the ticks are left out.
* *Missions*: a mission is known by its zones, a plan by its mission and the zones
  it mows; that a transition fails is a choice, and so is which zones of the mission
  can be mown at all: too narrow, without a working area or without a route are those
  that the compiler leaves out (`Mown`).
* *`Server`*: a request is one of six kinds: reading, stop, diagnosis, flash,
  script, update. Handlers that neither wait nor share state are `HandleRead`;
  those of maps and missions are in `MapStore` and `Missions`. What happens in a
  script is its end, good or bad.
* *`MapStore`*: a document is the map it describes and a number. A write may be
  refused, or leave a part, noticed or not.
* *`Mqtt`*: what is published has no content. A call on a live connection is
  done, on none it fails, on one that is breaking it may do either.
* *`History`*: the wall clock goes on, so that sessions are numbered; the time in
  a row is the uptime, as it is in the code.
* *`Gps`*: a byte is known by its place in its frame; the checksum finds every
  frame that is not complete. NMEA lines and the decoded values are left out.
* *`GridPlanner`*: a polygon is the set of cells in it, with those of its edge
  and near it; a margin's cost is one value instead of a ramp; a cell is 10000
  long. The heuristic is rounded up, as the root of two is above the code's
  1.4142, so that it overestimates a little: that the way found is the cheapest
  is shown for the grids of the run only, where that does not matter. For odd numbers
  of columns or rows `GridMap::gridToWorld` and `worldToGrid` differ by half a cell
  (`GridMap.cpp:26-38`), so that samples may lie on the border of two cells; the model
  rounds alike for all sizes, and no property depends on which cell is taken.
* *Left out*: telemetry's contents, LEDs, buzzer, texts.

A watchdog reset takes the ticks in the controller with it in either place where it can
happen, whatever the boot takes (`Tick`, `McuReset`).

`AlfredLink` leaves free what `Robot` commands, except for the guards that take the
motors off (`Allowed`): with a stop sensor set or the controller silent, they rest when
the cycle ends. `RobotLoop` has both guards, and both are theorems about it:
`SafetyStopAlways`, without a diagnosis, and `SilentControllerStops`, as long as nobody
starts a mission or a diagnosis meanwhile and the guard was armed again after an earlier
loss. These are the assumptions of `AlfredLink`, and the code does not enforce them
(section 4).

## 3. Runs

Runs of `MCRobotLoop` use `MaxBatch = 1` (2 in `StopLost`): commands found in
one cycle; and `MaxStuck = 2`, the smallest number with a recovery before the
last one. Each run chooses the inputs its question is about; an input absent is
constantly "fine". Everything else is finite in the code, too.

| run | inputs and bounds | checks | states |
|---|---|---|---|
| `loop_stop` | start; bumper, lift, motor fault, rain, overload, watchdog, waypoints | `SafetyStopHolds`: at the end of a cycle with a stop sensor set all motors are at rest; `RouteFollowed`: the tracker never runs on a cleared route | 592 thousand |
| `loop_gps` | start; GPS, kidnap, perimeter, map upload, joystick, waypoints | `MotorsMatchOperation`: the blade turns only in Mow, the wheels only where the operation drives; `DetourReturns`: a detour goes back to the operation it was asked for in; `GpsRecoveryEndsWait` (liveness) | 316 thousand |
| `loop_power` | battery, charger, motor controller, stuck, rain, timetable, waypoints | `ShutdownAtRest`: when a critical battery ends the loop, with nobody at the robot, the last cycle left the motors at rest; `LowBatteryEndsMowing` (liveness) | 626 thousand |
| `loop_operator` | all commands; button, timetable, charger, diagnosis, waypoints | `TypeOK`; `ImplementsOpManager`: the loop is a refinement of `OpManager` | 642 thousand |
| `link` | bumper, lost frames, cycles late by one, crashes, resets, the loop's end; command timeout 2, looks and summaries every 2 cycles, ramp of 2 | `TripStopsMotors`: a pressed bumper stops the wheels, and after the ramp the blade, within a bound; `TicksKept`: what is not yet reported is on its way, as long as no answer is lost; `SilenceNoticed`: within two looks | 1.92 million |
| `robot_parts`, routes | mission of 3 points, docking path of up to 3, local routes of up to 2, 3 retries | `LocalRouteSound`: way mode, local route and return point agree; `MowingReturns`: a detour returns to the point the mowing cursor names; `MowsInOrder`: no point is skipped or mown again; `DockingEnds` (liveness) | 728 thousand, all three parts |
| `robot_parts`, firmware | overloads, hangs, resets; command timeout 2, watchdog 2, recoveries 1 and 2, window 18 | `SilenceStopsMotors`: without a command for the timeout and twice the watchdog's time, all motors are off; `PermanentHolds`: a permanent fault keeps the cut-out; `OverloadEnds` (liveness): an overload ends or becomes permanent | |
| `robot_parts`, missions | 2 missions, 2 zones, 2 commands or previews, and 2 changes, which are missions stored or deleted, maps edited, failing writes or deaths | `MissionsKept`: the file is what all clients' requests make of it; `StartsAsAsked`: a start that names a mission mows zones that mission had, all of them or the part that can be mown on the map of now, though the file is read again later, maybe while it is written; its plan is known as the mission's exactly if the loop still finds it; both as long as no write failed | |
| `host_parts`, manager | everything `Ops` allows | `PendingWellFormed`: the pending operation is not the active one, with at least the priority its kind demands; `ReturnsToRoute`: a detour's address is a route or a detour with one; `InterruptReturns`: a pending detour returns to what is active now; `PriorityRespected`: no request displaces a higher one | 199 thousand, all seven parts |
| `host_parts`, history | 3 events, 2 sessions, 2 lives of uptime 1; limits of 2 events and 1 session | `RetentionKeepsNewest`, within one life; `OpenSessionExplained`: a session without end is the one going on or one nobody could end; `UpgradeBacksUp`: a foreign file is copied before it is changed; `SessionRestored` (liveness): the session going on is in the database again after it was cleared or a write failed | |
| `host_parts`, mqtt | `start`, `stop`; 2 requests in the queue | `SubscribedWhileUp`: the broker holds the subscription of this connection, whatever the push thread notes late of the last one; `StopEnds` (liveness) | |
| `host_parts`, maps | 2 maps, 2 documents, 2 faults | `ListedMapsExist`: the catalog names files that are there, whatever was interrupted; `CopiesAgree`: without a fault `map.json`, the active map's file and `Robot` agree; `MapInUseSurvives`: through one fault at any point, and all requests after it, the document both places held last, or the one activated since, or a newer one of the same map, is whole in one of them | |
| `host_parts`, server | all kinds of requests, 2 waiting | `RequestsCleanUp`: the loop turns motors for a diagnosis only while its handler waits, never with the blade on that an earlier diagnosis has left on, and only a flash at work excuses a silent controller; `ShutdownCompletes` (liveness); `ImplementsService`: the server is a `Service` | |
| `host_parts`, gps | payload of 2 bytes, false lengths up to 4, timeout 2, 2 mishaps | `FixIsRecent`: a solution that is not Invalid is not older than the timeout; `ParserRecovers` (liveness) | |
| `host_parts`, planner | grid of 4 x 3, up to 2 obstacle cells or one of each kind of area, one cost | `SearchIsRight`: a way is found exactly if there is one by free cells and around corners, and none is cheaper; the path made of it (`PathIsClear`) leads there by such steps or, once smoothed, by lines whose samples are free, and visits no cell twice | |

`robot_parts` and `host_parts` each put several parts into one run that share no
variable. A behaviour is one of a single part, chosen in the initial state
(`part`), while the others rest in an initial state of theirs; the properties of
a part hold of the others trivially, and each of them is checked over all
behaviours of its own part, as if it had a run of its own. As only one part
takes steps, one fairness condition can stand for one of each part (`Fairly`).

Five more runs end in a counterexample, see section 4.

Deadlock checking is off where the system may stop: the loop leaves on a
critical battery or a long press of the button, the process ends, a search is
over.

The bounds are enough for these questions because the manager's slot holds one
request: two requests in one cycle (a guard and a command, or two guards) show
every overwriting, and the state between cycles is finite without a bound. In
routes, three points have a first, an inner and a last one, a local route of
two has a point before its last, and three retries have two without progress and
one with. In the firmware the window is longer than six samples with their
recoveries, as 60 s are in the code; in `link` every deadline is at least two
units, so that something may happen before it. The bounds of
`SilenceStopsMotors`, `SilenceNoticed` and, for the wheels, `TripStopsMotors` are
expressions over the constants that cannot be lowered by one; the blade's is two
units above the least one. `link` leaves hangs to `Firmware`: during a hang the
outputs stay, and the bound of `SilenceStopsMotors` is the one that counts.

Two changes of `missions.json` are one that a command refers to and one between
its two readings, or one of them and an edit of the map; two zones are the fewest of
which a mission may have a part, and a plan a part of that. Two faults in `MapStore` are one that leaves a torn file and
one in the request that repairs it; two documents tell old from new. Three events
against a limit of two, and two sessions against one, make retention prune; two
lives make uptimes of different lives meet. A false length of four bytes is
longer than a payload, so that the parser swallows the head of the next frame,
and two mishaps make it do so again. On a grid of three rows a way has to go
around a corner, and the cost of two cells makes it better to do so; a cell is
reached again on a cheaper way (what the run's mutant leaves out).

### Fairness

`RobotLoop`'s `FairSpec` is used by its two runs with liveness. `WF_vars(Loop)`: the loop
thread keeps running, as it does until `running_` is false; nothing is assumed of
other threads. `SF_vars` on the end of an escape: `EscapeReverse` reverses until
a deadline, and a deadline that is passed is seen in the next cycle; without
this, choosing "not yet" for ever would be a clock that stands still. No
fairness is assumed of sensors, operator, waypoints or the network.

`Routes`' `FairSpec` has weak fairness of `DockTargetReached`: a docking robot
that is not interrupted drives towards its target in every cycle. `DockingEnds`
moreover assumes that obstacles cease at some time (`<>[]~inTheWay`), as an
obstacle in every approach lets Dock and EscapeReverse alternate for ever.

`FwSpec` has weak fairness of `Pass` and `FwTick`: `loop()` is called again, and
time goes on. The parts on the Pi: the server's worker and main go on, as the
diagnosis' wait has a limit and scripts end (`ServerFairness`); MQTT's push
thread runs and main disconnects and frees the client, nothing is asked of the
network (`MqttFairness`); the receiver sends and its thread reads
(`GpsFairness`); the loop begins and ends a session, and a write that is tried
again every 2 s succeeds some time if it could infinitely often
(`HistFairness`, strong, as the loop's other steps come in between).

`AlfredLink`'s `FairSpec` has weak fairness of the driver's cycle, of the
controller's passes and of `Tick`; it is used in a run that fails all the same.

## 4. Findings: where the code does something else than it says

Each is a run that must end in a counterexample, with one property that states
what a document or comment says.

| run | what TLC shows |
|---|---|
| `stop_lost` (`HaltHolds`) | `requestOp` drops a request for the active operation: an emergency stop in Idle does not take back a start that is pending from the same cycle, and the robot drives. |
| `mission_not_saved` (`DockingSavesMission`) | Only the operator's dock command saves the mission; one that a battery, the timetable or the perimeter sends to the dock is forgotten in Charge. |
| `undock_endless` (`UndockPathEnds`) | At the end of the undocking path `nextDockPoint` leaves the way mode DOCK, and Undock waits for it to change: on a mapped path it does not end. |
| `mqtt_start` (`CommandsSurvived`) | For `start` by MQTT main's handler asks the parameters for a value, but `onMessageCb` passes a null document: this throws in a callback of the C library, where nothing catches it, and the process ends. |
| `shutdown_lost` (`ShutdownFires`) | `keepPowerOn(false)`, the last statement of `Robot::loop`, arms a shutdown that only `SerialRobotDriver::run` carries out, which nobody calls any more. |

Seen while modelling, and not a run:

* The lift's edge is taken by whatever operation is active; in one without a
  handler it is gone, and a mission started while the robot is held up is not
  told. The motors stay at rest all the same (`SafetyStopHolds`).
* A map change is told once; during an escape it is ignored, and the escape
  returns to the route of the old map.
* Undock means to ignore a bumper, but the safety stop holds the wheels in every
  cycle while it is pressed.
* A second dock command clears the route, and its request is dropped, so that no
  new one is planned: the tracker follows a cleared route. `RouteFollowed` is
  checked without that command.
* `DockOp::begin` injects a better approach while `startDocking`'s is active: the
  robot returns to the first point of the approach that was replaced before it
  follows the docking path.
* A shorter docking path loaded while undocking leaves the cursor beyond its end.
* `DockOp::begin` resets the retry counters, so that the escapes between two
  attempts are bounded by nothing.
* In Error a critical battery asks for Error, which is dropped because Error is
  active: with a start pending from the same cycle the robot drives in its last
  cycle. In Manual the joystick of the cycle in which the button was held long
  enough drives once more. In both the shutdown comes with the motors on
  (`ShutdownAtRest` is false with these inputs, as TLC shows).
* `DockOp::begin` that finds no way asks for Error, but the `run` of the same tick
  and the tracker follow the cleared route once (`RouteFollowed` is false with a
  charger among the inputs).
* The guard against a silent controller, `monitorMcuConnectivity`, is armed again
  (`Robot.cpp:2190` and `2202`) only in a cycle that finds the controller answering and
  the robot out of Error. When the controller comes back, a start is executed, and the
  controller is gone again in the next cycle, the guard does not fire, and the robot
  goes on driving as far as it knows; likewise when a start is still pending in Error
  as the controller falls silent, for the guard's request for Error is dropped, Error
  being active. TLC shows both: they are what `SilentControllerStops` excludes.
* Error is left by start and dock commands, also while its cause lasts; a
  diagnosis ends the cycle before the safety stop and drives with a bumper set.
* The blade's soft start is a ramp in both directions: after a stop the blade is
  still commanded on for some 600 commands, about 12 s.
* The firmware counts samples, not overloads: one that lasts 0.6 s is permanent.
* Each motor and summary frame counts for the charger's debounce, though two of
  them may carry one measurement; the sign of the ticks is that of the PWM of
  now; `now > motorTimeout` is not safe where `millis()` wraps.
* `SerialRobotDriver.h:72` speaks of a fallback to 28 V without a controller;
  `readBattery` returns the last values.
* Web server: `WebSocketServer.h` speaks of a thread pool, one worker runs; a stop
  by web socket waits behind a diagnosis, a script or a flash. The gate of a flash
  reads telemetry that may be old. `setStmFlashMaintenance` stores the flag before its
  deadline, so that for a moment the excuse may be over already. `Robot::diagMowMotor`
  (`Robot.cpp:2539-2545`) switches the blade on from the worker and returns: it stays on
  until something else commands the motors (`Server`'s `blade`; `RequestsCleanUp`
  excludes it by name). A second client's diagnosis overwrites the first. When the
  program ends the server is freed before the GPS thread, which may still log to it, is
  joined.
* Missions: `RouteValidator.cpp:170` skips a zone that the map does not have any
  more, though the comment above says otherwise; with a torn `missions.json` a start
  that names a mission is a plain start; a plain start takes any earlier preview,
  and a stop leaves it; an interrupted plan that no longer validates refuses every
  plain start until a stop. A zone that has no working area, is too narrow or has no
  route is left out (`MissionCompiler.cpp:1255-1268` and `1361-1362`), and the start
  of the rest reports success: nobody is told that a part will not be mown.
* Maps: after a death between `map.json` and the catalog in an activation, the next
  edit overwrites the file of the map that was active before, which is lost; an edit
  whose snapshot failed is in `map.json` only, and activating another map overwrites
  it there (`MapInUseSurvives` promises neither). A torn catalog is
  rebuilt with `default` alone; activating a torn file copies it over `map.json`;
  before there is a catalog, the first edit has one copy only; a write that fails
  when it is flushed is reported as done. GeoJSON drops profiles, the dock's
  metadata and obstacles.
* History: events are pruned by uptime, so that after a restart the newest ones
  go first, as do arbitrary ones of the same millisecond
  (`.memory/runtime-knowledge.md:81` asks for the wall clock in matters of order);
  `EventRecorder` warns of every other failure only; a file of an old version gets
  the new version number without its tables' new columns, and appends fail.
* MQTT: the push thread may publish on a connection that is closed; the call fails,
  and is made again.
* GPS: a frame of length zero loses a byte of its checksum; a RELPOSNED of less than
  64 bytes reads what an earlier frame left in the buffer; GGA lines are taken
  without their checksum; a false length swallows up to 65535 bytes.
* Planner: a hard exclusion's `clearance_m` marks only cells inside it, which are
  occupied anyway (`Costmap.cpp:307`); `lineIsClear` samples every half cell, so a
  shortcut may clip a corner the search went around, though `GridMap.h` says it
  passes no occupied cell; `GridMap.cpp:134` lets a search begin in an occupied
  cell, but `PathPlanner.cpp:94` then refuses the path; without a perimeter
  `isInsideAllowedArea` ignores the exclusions; the grid ends after 200 cells, and
  an end beyond it has no path.

## 5. Proofs

All proofs are for arbitrary values of the constants; the only assumptions are
`LoopAssumption`, `RoutesAssumption`, `FirmwareAssumption`, `MissionsAssumption`,
`ServerAssumption`, `MqttAssumption`, `GpsAssumption`, `MapStoreAssumption`,
`HistoryAssumption`, `GridAssumption` (the inputs are among those the model knows, the
bounds are numbers, a mission has a point, the watchdog's time is not zero, an id is
not one of the words the model uses for none, and no way through the grid costs as
much as what stands for none, which is 1e30 in the code), and the hypotheses that the next paragraphs
name.

`OpManagerProofs`. The inductive invariant `IInv` is the conjunction of
`TypeOK`, `PendingWellFormed`, `ReturnsToRoute` and `InterruptReturns`; they need
each other: that a pending escape returns to the active operation is kept only
because a pending operation differs from the active one, and an address stays a
route only because of what the handler tables put there. The tables are finite
data, so the lemmas `TableSound`, `OwnRequestsSound`, `RobotRequestsSound` go
through them once, and everything after cites `MayAskSound`. Theorems:
`TypeCorrect`, `PendingSound`, `DetoursReturnToRoutes`,
`DetoursReturnWhereTheyBegan`, `PriorityKept`.

`RobotLoopProofs`. `LoopImplementsOpManager`: every step of the loop is a step of
`OpManager` or leaves its variables alone - one lemma per phase (`...IsStep`).
With it `LoopKeepsInvariant` carries `IInv` over to the loop for all inputs.
`SafetyStopAlways`: without a diagnosis, no cycle ends with a stop sensor set and
a motor running; the inductive invariant (`StopInv`) says that after the phase
`stop` of a tripped cycle the motors are at rest, and needs that the phases after
it (lift, fault, rain) only stop motors and come after it in every cycle
(`StopComesLast`).

`RobotSafetyProofs` has the loop's other invariants. `LoopInv` (`LoopTypeCorrect`) is
`IInv` with the type of every variable of the loop; all others rest on it. The
proofs have the same form: a lemma says what a step may do to the operations (a
request from a short list, the flush, or nothing), one lemma per group of phases
shows that each phase does only that, and the invariant follows from the first.

* `DetoursReturn`: `DetourInv` adds that the forward escape is never asked for, that
  a detour is pending only in the routed operation it returns to, and that an active
  detour's address is routed. It holds of the loop and not of `OpManager`, which
  lets the robot ask for a detour from anywhere.
* `MotorsMatch`, without a diagnosis (`"diag" \notin Inputs`): `MotorInv` says where
  `end()` leaves the wheels turning - only up to the next `begin()` - and that the
  blade is off then. With a diagnosis it is false, as that drives in Idle.
* `RouteAlwaysFollowed`, `AwayFromDock`: no charger, button or silent controller, and
  of the commands start, start zones and resume. `RouteInv`: an operation that
  drives a route, *or that will be gone back to by one*, has a route, and one that
  forgets its mission has nothing pending when it does. The hypothesis is that of the
  run `loop_stop` made as weak as it may be; section 4 has what happens without it.
* `ShutdownRests`, `Unattended`: nobody starts or docks the robot or holds the
  button, and there is no diagnosis. `RestInv` follows the last cycle: until the tick
  the robot is stopping - in Error, or Error or Idle is pending with priority - and
  nothing that is asked for later outranks it; from `begin()` on it is in Error or
  Idle with its motors off. Section 4 has what happens otherwise.
* `SilentControllerStops`, for all inputs and commands, but two hypotheses on the
  behaviour: `LeftAlone`, that while the controller is silent no command is executed, no
  diagnosis runs and the button does not change - the button is a field of the
  controller's own summary (`SerialRobotDriver.cpp:739`), so silence freezes it, and the
  rest is the operator's - and `Rearmed`, on the cycle in which it falls silent. Then
  that cycle and every later one until the controller answers leave the motors at rest.
  `SilentInv` follows the cycle in three parts: up to `monitorMcuConnectivity` it says
  that the guard fires or has fired for an Error that stands; from there to the tick, that
  Error is active or asked for with a priority nothing displaces (`ErrorStaysAsked`,
  through all handler tables); from `begin()` on that Error is active with nothing
  pending, and hears nothing (`ErrorHolds`). TLC found no violation of `SilentInv` before
  it was proved, and one at once without `Rearmed`, which is how section 4 came by its
  entry.

`RoutesProofs`, for routes of any length: the inductive invariant is `TypeOK`,
`Sound(rt)` - `LocalRouteSound` and `MowingReturns` of one route state - and
`OnlyDockDocks`, without which the docking cursor could run forward off the path
in an operation that undocks. Each operation of `RuntimeState` is a function from
route states to sets of them, and has a lemma: it keeps `Sound`, and what it does
to the mowing cursor. Theorems: `RouteTypeCorrect`, `LocalRoutesReturn`,
`MowingAlwaysReturns`, `PointsMownInOrder`.

`FirmwareProofs`: the property `SilenceStopsMotors` speaks of one age; the
invariant `Fresh` has one bound for each stage the command has come through:
settings still on are at most `MotorTimeout` old plus the time since the last
pass, outputs one watchdog time more, because the pass that takes the settings
back comes after the one that drives them. Each helper of `loop()` has a lemma on
what it leaves alone. Theorems: `FirmwareTypeCorrect`, `SilenceAlwaysStops`,
`PermanentStays`, and `LinkSilenceStops` for the composed system: every step of
`AlfredLink` is a step of the controller or leaves it alone, so that the bound
holds whatever the computer does and whichever frames are lost.

`FirmwareProofs`, line. `pollRx` is a fold over the frames that have come. What makes
it tractable is a fact about the line: commands and answers together never are more
than the controller's buffer holds, two, because every answer uses up a command and
a cycle takes all answers out before it sends. So the folds unroll (`PollTwo`,
`TicksTwo`), and `CycleOf` is what a cycle does with at most two frames in hand.

* `LineInv`, for `LinkTypeCorrect` and `TicksAlwaysKept`: the types, that bound, no
  tick left over between two cycles, and `TicksKept`.
* `LookInv` for `SilenceAlwaysNoticed`: an age is bounded by where the look at the
  answers stands (`Since`) - the bound differs by a whole period between the time
  before an answer was counted and the time after it.
* `TripInv` for `TripAlwaysStops` follows the news of the bumper to the computer and
  its command back: `Told` (an answer without the bumper is from before the last
  cycle), `Wanted` (what the computer believes is as old as its last answer, and the
  blade's ramp as far as `SpinDown` says), `Sent` and `Obeyed` (a command is as old as
  what made it, settings older by the time since they came, outputs by the timeout).

`TripAlwaysStops` has one hypothesis, `"hang" \notin Disturbances`, and needs it: a
controller that hangs keeps an old command waiting in its buffer and obeys it
afterwards. TLC finds that when `link`'s instance is given hangs. The other two hold
with hangs as well, and so does `LinkSilenceStops`.

`MissionsProofs`. The two readings of `missions.json` are the difficulty: what the
loop reads may be newer than what the worker read, or torn. `Held` is what the file
holds, or will when the write is over; `Intact` says that, as long as no write
failed, it is `stored`, and that the file is torn only while it is written
(`MissionsAlwaysKept`). For `AlwaysStartsAsAsked` the invariant `Asked` says in
addition that what is stored is among what each mission ever had (`Remembered`), and
that a command in the queue that names a mission carries zones that mission had, or
none (`Queued`). Which of them the compiler can mow is left open (`Mown`), so that the
theorem holds for every choice of it, a plan of a part of the mission among them.

`HostProofs`, server. `Tidy` strengthens `RequestsCleanUp` by the place the handler is at:
each step of the loop that drives for a diagnosis sets the blade off, too, and no
handler can switch it on meanwhile, as the only worker waits in another; a flash is noted only between the step that begins it and the one that ends it.
`ServerImplementsService` is the refinement's safety part, one lemma per group of
actions: each is a step of `Service` on the requests not yet answered, or leaves
them alone. That requests are answered at all is liveness and checked by
`host_parts`.

`HostProofs`, MQTT. `SubscribedWhileUp` needs no word on the flags that the two threads
share, which is the point: the connect callback subscribes whatever they say. The
invariant is inductive as it stands, because a connection comes up only into that
callback. `ClientAlwaysOutlivesPush`
shows that main frees the client only after the push thread is over.

`HostProofs`, GPS. `Aged`: `lastRelposMs_` is exactly as old as the last solution, since no
other message renews it; the head of the reader's pass then takes the solution back
in time. Theorem: `FixAlwaysRecent`.

`HostProofs`, planner, for any grid and any map: `GridInv` has three parts. `Tree`: the
parents of the cells reached form a tree of allowed steps that is rooted in the
source, and a cell's cost is that of its branch and at most the dearest step times
the number of closed cells - so it stays below the cost of a cell not reached yet,
without which a step might look no better than none. `Frontier`: what is reached is
in every set of cells that no step leaves, and is such a set itself once the heap is
empty. Neither depends on the heuristic, on which node is taken among equals, or on the
order of the neighbours. `WayIsFoundIfThereIsOne` follows in both directions, and
`WayLeadsBack`: the loop along the parents ends at the source, and its branch for a
broken chain (`GridMap.cpp:236`) is never taken. A fourth part, `Course`, is about the
path while it is made: the reconstruction and `smoothPath` are steps of the model, so
that no recursive function stands in the way. What there is of the path ends at the
destination, costs rise along it (hence no cell twice), and each of its points follows by
a step or, among the `kept` ones, in sight. `PathAlwaysClear` says so of the path from
the moment it has reached the source. That the way is the cheapest is not proved, and
not true in general, as the heuristic overestimates.

`StoreProofs`, maps, for any ids and any number of faults. A request is a sequence of
steps, so that the invariants need to know what may still come: `StepInv` describes
the plans a request can be in the middle of (`Planned`: which step follows which, an
edit's steps and the others' do not mix). `Effects` says of every write what it
does done, refused and torn, and is all that the three invariants use of the code.

* `ListedInv` for `ListedMapsAlwaysExist`: a map is about to be listed or activated
  only when its file is there, and about to be removed only when it is not listed.
* `AgreeInv` for `CopiesAlwaysAgree`, as long as nothing failed: what every file is
  about (`Named`, `Addressed`), and in which steps which of the three copies may
  differ (`Synced`).
* `SurvivalInv` for `MapInUseAlwaysSurvives`, on top of both: before the first fault the
  document `safe` is in `map.json` and in the active map's file, but for the middle of an
  activation (`BothKept`), and a write touches one of the two (`HitsOne`). After it one
  is enough, because whatever comes later is about that map: `map.json`, as long as it
  is whole, is (`OfSafe`), and an edit sends a newer document of it and puts no other
  one there (`EditKeeps`, `Dated`). That an activation copies a file which is about the
  map it names (`Copied`, `NewFile`) is `AgreeInv`'s `Named` at the first fault.

`StoreProofs`, history, for any limits, lives and sessions: `WrittenIs` says what a
write that may stop between any two statements leaves of the file. `HistInv` has four
parts: `HistTidy` (types; a session has one row; a session is begun or ended only in
the state the loop is in), `RetainInv` for `RetentionAlwaysKeepsNewest` (nothing in the
file, and nothing that was taken from it, is later than now; what was taken is not
later than what is kept), `OpenSessionExplained`, which is inductive with `HistTidy`,
and `BackupInv` for `UpgradesBackUp`. That no more sessions are kept than the limit is
`KeptSessionsAre`: of the rows kept, all but the oldest come after it.

The type invariants of the manager, the routes, the firmware, the line and MQTT are
proved and not among the runs' properties.

Only model-checked: all liveness properties, which are beyond TLAPS, and of
`SearchIsRight` that no way is cheaper, whose reference is a fixpoint over the data:
what it computes for every grid takes an induction that the provers cannot do. The
rest of it - a way is found exactly if there is one, and the path is clear - is
`WayIsFoundIfThereIsOne` and `PathAlwaysClear`. Of `ImplementsService` the safety part
is a theorem, as is every other property of a passing run.

## 6. Not modelled, and what is left

Not modelled: the floating-point part - state estimator, drive control, line
tracking, the compiler of missions with its stripes and transitions - whose
verdicts are choices here; the IMU, the simulation driver and the wrappers of
system calls; configuration; the user interfaces. Of the parts that are modelled in
part, `components` in `PROJECT.json` says what is left out.

Left, in this order:

1. `Charging`: Charge's contact retries and the charger's debounce over frames.
2. Two clients that ask for a diagnosis, with the condition variable and its
   timeout; `Server` has one worker, and both requests reach it through one queue.
3. `Schedule`: the calendar, windows over midnight; the obstacles of `Map` with
   their expiry.
4. Composition: `AlfredLink` with `RobotLoop` as the source of its commands, whose
   `Allowed` is now justified by theorems about the loop alone; `Server`'s stop and
   diagnosis with `RobotLoop`'s.
5. Proofs: `TripStopsMotors` with hangs, for a bound that allows for the time the
   controller is gone.
