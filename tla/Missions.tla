-------------------------------- MODULE Missions --------------------------------
(***************************************************************************)
(* Missions from the web server to the control loop: missions.json, the    *)
(* queue of commands, the plan of the latest preview, and the plans Robot  *)
(* mows or has interrupted.                                                *)
(*                                                                         *)
(* The worker of the server writes missions.json and, for a start, reads   *)
(* it; the control loop reads it once more when it takes the command, also *)
(* while the worker has truncated it.  A mission is known by its zones, a  *)
(* plan by its mission and the zones its route mows; which zones are too   *)
(* narrow, and whether a transition fails, is left open.                   *)
(***************************************************************************)
EXTENDS Naturals, Sequences

CONSTANTS
  MissionIds,  \* ids of missions
  Zones,       \* ids of zones
  ChangeBound, \* bound on the missions stored or deleted, the maps edited, the
               \* writes that fail and the deaths of the process, all together
  AskBound     \* bound on the commands and the previews

ASSUME MissionsAssumption ==
  /\ MissionIds \subseteq STRING /\ MissionIds \cap {"none", "map", "zones", ""} = {}
  /\ ChangeBound \in Nat /\ AskBound \in Nat

VARIABLES
  file,     \* missions.json: the missions in it, or that it cannot be parsed
  writing,  \* the worker has truncated it
  target,   \* ... to write these missions
  zones,    \* zones of the map Robot holds; none without a map
  commands, \* externalCmdQueue_
  preview,  \* pendingMissionPlan_
  plan,     \* activeMissionPlan_
  interrupted, \* interruptedMissionPlan_
  changes, asks, \* how many there have been
  tears,    \* ... and of the changes, writes that failed and deaths
  stored,   \* history: the missions as clients stored them
  had       \* history: the zones each mission ever had

storeVars == <<file, writing, target, changes, stored, had>>
loopVars  == <<plan, interrupted>>
missionVars == <<storeVars, zones, commands, preview, loopVars, asks, tears>>

NoPlan == [of |-> "none", zones |-> {}]
Plans  == [of : MissionIds \cup {"map", "zones", ""}, zones : SUBSET Zones] \cup {NoPlan}
Missions(ids) == [ids -> SUBSET Zones]
Stores == UNION {Missions(ids) : ids \in SUBSET MissionIds}
NoMissions ==  [m \in {} |-> {}]
MissionCommands == [kind : {"start", "mission", "zones", "dock", "resume", "stop"},
                    of : MissionIds \cup {"none"}, zones : SUBSET Zones]

Torn == [torn |-> TRUE, missions |-> NoMissions]
----------------------------------------------------------------------------
(* The worker: the missions.                                               *)

\* One request after the other; a file that cannot be parsed is not written.
Count  == changes < ChangeBound /\ changes' = changes + 1
Change == ~writing /\ ~file.torn /\ Count

\* The file is opened for writing, and by that truncated.
Rewrite(missions) ==
  /\ writing' = TRUE /\ target' = missions /\ file' = Torn
  /\ UNCHANGED <<zones, commands, preview, loopVars, asks, tears>>

With(missions, m, z) ==
  [n \in DOMAIN missions \cup {m} |-> IF n = m THEN z ELSE missions[n]]
Without(missions, m) == [n \in DOMAIN missions \ {m} |-> missions[n]]

\* A client has stored mission m with zones z.
Stored(m, z) ==
  stored' = With(stored, m, z) /\ had' = [had EXCEPT ![m] = @ \cup {z}]

\* POST /api/missions: 409 for an id that is there.
PostMission ==
  /\ Change
  /\ \E m \in MissionIds \ DOMAIN file.missions, z \in SUBSET Zones :
       Rewrite(With(file.missions, m, z)) /\ Stored(m, z)

\* Mutant of PutMission: only the mission of the request is written.
PutAlone ==
  /\ Change
  /\ \E m \in MissionIds, z \in SUBSET Zones : Rewrite([n \in {m} |-> z]) /\ Stored(m, z)

PutMission ==
  /\ Change
  /\ \E m \in MissionIds, z \in SUBSET Zones :
       Rewrite(With(file.missions, m, z)) /\ Stored(m, z)

\* The file is written even if the mission was not there.
DeleteMission ==
  /\ Change
  /\ \E m \in MissionIds :
       Rewrite(Without(file.missions, m)) /\ stored' = Without(stored, m)
  /\ UNCHANGED had

\* The handler returns and the file is closed; nobody looks at errors.
FinishWrite ==
  /\ writing /\ writing' = FALSE
  /\ \/ file' = [torn |-> FALSE, missions |-> target] /\ UNCHANGED <<changes, tears>>
     \/ Count /\ tears' = tears + 1 /\ file' = Torn
  /\ UNCHANGED <<target, stored, had, zones, commands, preview, loopVars, asks>>

\* A part of a file that is cut to nothing counts as no missions.
Die ==
  /\ Count /\ tears' = tears + 1
  /\ writing' = FALSE
  /\ file' \in IF writing THEN {Torn, [torn |-> FALSE, missions |-> NoMissions]} ELSE {file}
  /\ commands' = <<>>
  /\ preview' = NoPlan /\ plan' = NoPlan /\ interrupted' = NoPlan
  /\ UNCHANGED <<target, stored, had, zones, asks>>
----------------------------------------------------------------------------
(* The worker: commands and previews.                                      *)

Request(kind, of, z) ==
  /\ asks < AskBound /\ asks' = asks + 1
  /\ commands' = Append(commands, [kind |-> kind, of |-> of, zones |-> z])

\* loadMissionZoneIds: nothing for a mission that is not there.
ZonesOf(m) == IF m \in DOMAIN file.missions THEN file.missions[m] ELSE {}

\* Mutant of AskMission: without zones all of the map is asked for.
AskMissionOrMap ==
  /\ ~writing
  /\ \E m \in MissionIds :
       IF file.torn \/ ZonesOf(m) = {} THEN Request("start", m, {})
       ELSE Request("mission", m, ZonesOf(m))
  /\ UNCHANGED <<storeVars, zones, preview, loopVars, tears>>

\* "start" with a mission: the exception of a torn file makes it a plain start.
AskMission ==
  /\ ~writing
  /\ \E m \in MissionIds :
       IF file.torn THEN Request("start", m, {}) ELSE Request("mission", m, ZonesOf(m))
  /\ UNCHANGED <<storeVars, zones, preview, loopVars, tears>>

AskOther ==
  /\ ~writing
  /\ \E k \in {"start", "dock", "resume", "stop"} : Request(k, "none", {})
  /\ UNCHANGED <<storeVars, zones, preview, loopVars, tears>>

AskZones ==
  /\ ~writing
  /\ \E z \in SUBSET Zones : Request("zones", "none", z)
  /\ UNCHANGED <<storeVars, zones, preview, loopVars, tears>>

\* POST /api/planner/preview: for the map and the mission the client sends.
StorePreview ==
  /\ ~writing
  /\ asks < AskBound /\ asks' = asks + 1
  /\ \E m \in MissionIds, z \in SUBSET Zones \ {{}} : preview' = [of |-> m, zones |-> z]
  /\ UNCHANGED <<storeVars, zones, commands, loopVars, tears>>

\* POST /api/map and the others that have Robot reload.
EditZones ==
  /\ ~writing /\ Count
  /\ zones' \in SUBSET Zones
  /\ UNCHANGED <<file, writing, target, stored, had, commands, preview, loopVars,
                 asks, tears>>
----------------------------------------------------------------------------
(* The control loop.                                                       *)

\* The compiler's loop over the zones asked for: one that the map does not have, or
\* that has no working area or no route in it, is left out, and nobody is told.
Mown(z) == SUBSET (z \cap zones)

\* buildMissionPlanPreview for the map Robot holds.
Built(of, z) == {[of |-> of, zones |-> mown] : mown \in Mown(z)}

\* canStartPlannedMission: without a map or a route never; on another map than the
\* one it was built for a route may be refused, also zones that are gone may pass.
Refused ==
  UNCHANGED <<plan, interrupted>>
Activated(p) == p.zones # {} /\ zones # {} /\ plan' = p
Starts(of, z) == \E p \in Built(of, z) : Activated(p)

Obsolete == preview' = NoPlan

\* resumeActiveMission.
Resume ==
  \/ Refused /\ UNCHANGED preview
  \/ interrupted # NoPlan /\ Activated(interrupted) /\ interrupted' = NoPlan /\ Obsolete

\* startMowing: what was interrupted, what was previewed last, or all of the map.
StartPlain ==
  IF zones # {} /\ interrupted # NoPlan THEN Resume
  ELSE IF zones = {} THEN Refused /\ UNCHANGED preview
  ELSE /\ Obsolete
       /\ \/ Refused
          \/ /\ IF preview # NoPlan THEN Activated(preview) ELSE Starts("map", zones)
             /\ UNCHANGED interrupted

StartZones(z) ==
  IF z = {} THEN StartPlain
  ELSE /\ UNCHANGED preview
       /\ Refused \/ (Starts("zones", z) /\ UNCHANGED interrupted)

\* loadMissionDocumentById: no document where the file cannot be parsed now.
Document(m) ==
  IF file.torn \/ m \notin DOMAIN file.missions THEN [of |-> "", zones |-> {}]
  ELSE [of |-> m, zones |-> file.missions[m]]

\* startMowingMission: the zones read with the request, if there were any.
StartMission(m, z) ==
  LET doc == Document(m)
  IN /\ UNCHANGED preview
     /\ \/ Refused
        \/ /\ Starts(doc.of, IF z # {} THEN z ELSE doc.zones)
           /\ UNCHANGED interrupted

\* startDocking saves the plan; emergencyStop forgets both.
DockAndSave ==
  /\ interrupted' = IF plan # NoPlan THEN plan ELSE interrupted
  /\ plan' = NoPlan /\ UNCHANGED preview

EmergencyStop == plan' = NoPlan /\ interrupted' = NoPlan /\ UNCHANGED preview

\* processPendingExternalCommands: one command of the queue.
Execute ==
  /\ commands # <<>> /\ commands' = Tail(commands)
  /\ LET c == Head(commands)
     IN \/ c.kind = "start"   /\ StartPlain
        \/ c.kind = "mission" /\ StartMission(c.of, c.zones)
        \/ c.kind = "zones"   /\ StartZones(c.zones)
        \/ c.kind = "resume"  /\ Resume
        \/ c.kind = "dock"    /\ DockAndSave
        \/ c.kind = "stop"    /\ EmergencyStop
  /\ UNCHANGED <<storeVars, zones, asks, tears>>

\* The timetable and the button start, the button docks and stops, too ...
ActHere ==
  /\ StartPlain \/ DockAndSave \/ EmergencyStop
  /\ UNCHANGED <<storeVars, zones, commands, asks, tears>>

\* ... and the operation that follows ends the mission.
EndMission ==
  /\ plan' = NoPlan
  /\ UNCHANGED <<storeVars, zones, commands, preview, interrupted, asks, tears>>
----------------------------------------------------------------------------
MissionsInit ==
  /\ file = [torn |-> FALSE, missions |-> NoMissions]
  /\ writing = FALSE /\ target = NoMissions
  /\ zones = Zones /\ commands = <<>> /\ preview = NoPlan /\ plan = NoPlan
  /\ interrupted = NoPlan /\ changes = 0 /\ asks = 0 /\ tears = 0
  /\ stored = NoMissions /\ had = [m \in MissionIds |-> {}]

MissionsNext ==
  \/ PostMission \/ PutMission \/ DeleteMission \/ FinishWrite \/ Die
  \/ AskMission \/ AskOther \/ AskZones \/ StorePreview \/ EditZones
  \/ Execute \/ ActHere \/ EndMission

MissionsSpec == MissionsInit /\ [][MissionsNext]_missionVars
----------------------------------------------------------------------------
(* Properties.                                                             *)

MissionsTypeOK ==
  /\ file \in [torn : BOOLEAN, missions : Stores] /\ writing \in BOOLEAN
  /\ target \in Stores /\ zones \subseteq Zones /\ commands \in Seq(MissionCommands)
  /\ preview \in Plans /\ plan \in Plans /\ interrupted \in Plans
  /\ changes \in 0..ChangeBound /\ asks \in 0..AskBound /\ tears \in 0..ChangeBound
  /\ stored \in Stores /\ had \in [MissionIds -> SUBSET SUBSET Zones]

\* As long as no write of missions.json failed, a start that names a mission mows only
\* zones that mission had, together at some time and on the map of now: never all of
\* the map, nor the plan of a preview or of an interrupted mission.  Its plan is known
\* as that mission's, except where the loop could not find the mission any more.  That
\* it mows all of them is not said: the compiler leaves out what it cannot mow.
StartsAsAsked ==
  [][commands # <<>> /\ commands' = Tail(commands) /\ tears' = 0 =>
       LET m == Head(commands).of
       IN m # "none" /\ plan' # plan =>
            /\ \E z \in had[m] : plan'.zones \subseteq z \cap zones
            /\ plan'.of = (IF ~writing /\ m \in DOMAIN stored THEN m ELSE "")
    ]_missionVars

\* As long as no write failed, missions.json is what all the clients' requests together
\* make of it.
MissionsKept ==
  tears = 0 => (IF writing THEN target ELSE file.missions) = stored
=============================================================================
