--------------------------- MODULE MissionsProofs ---------------------------
(***************************************************************************)
(* Proofs about missions: no stored mission is lost, and a start that      *)
(* names a mission mows none but that mission's zones.                     *)
(***************************************************************************)
EXTENDS Missions, TLAPS

----------------------------------------------------------------------------
(* The file.                                                               *)

\* What the file holds, or will when the write that is going on is over.
Held == IF writing THEN target ELSE file.missions

\* As long as no write failed, the file is torn only while it is written.
Intact ==
  /\ tears \in Nat
  /\ tears = 0 => /\ Held = stored
                  /\ ~writing => ~file.torn
                  /\ writing => file = Torn

LEMMA ChangesKeepIntact ==
  ASSUME Intact, PostMission \/ PutMission \/ DeleteMission
  PROVE  Intact'
<1>1. ~writing /\ tears' = tears /\ writing' = TRUE /\ file' = Torn
  BY DEF PostMission, PutMission, DeleteMission, Change, Rewrite
<1>2. CASE tears = 0
  <2>1. file.missions = stored
    BY <1>1, <1>2 DEF Intact, Held
  <2>2. target' = stored'
    BY <2>1 DEF PostMission, PutMission, DeleteMission, Rewrite, Stored
  <2> QED BY <1>1, <2>2 DEF Intact, Held
<1> QED BY <1>1, <1>2 DEF Intact

LEMMA FinishKeepsIntact ==
  ASSUME Intact, FinishWrite
  PROVE  Intact'
<1>1. CASE file' = [torn |-> FALSE, missions |-> target] /\ UNCHANGED tears
  BY <1>1 DEF Intact, Held, FinishWrite
<1>2. CASE tears' = tears + 1
  BY <1>2 DEF Intact
<1> QED BY <1>1, <1>2 DEF FinishWrite

\* The other steps leave the file and its history alone.
fileVars == <<file, writing, target, stored, had, tears>>

LEMMA AskingLeavesFile ==
  ASSUME AskMission \/ AskOther \/ AskZones \/ StorePreview \/ EditZones
  PROVE  UNCHANGED fileVars
BY DEF AskMission, AskOther, AskZones, StorePreview, EditZones, storeVars, fileVars

LEMMA LoopLeavesFile ==
  ASSUME Execute \/ ActHere \/ EndMission
  PROVE  UNCHANGED fileVars
BY DEF Execute, ActHere, EndMission, storeVars, fileVars

LEMMA IntactHolds == MissionsSpec => []Intact
<1>1. MissionsInit => Intact
  BY DEF MissionsInit, Intact, Held
<1>2. Intact /\ [MissionsNext]_missionVars => Intact'
  <2>1. SUFFICES ASSUME Intact, [MissionsNext]_missionVars
                 PROVE  Intact'
    OBVIOUS
  <2>2. CASE PostMission \/ PutMission \/ DeleteMission
    BY <2>1, <2>2, ChangesKeepIntact
  <2>3. CASE FinishWrite
    BY <2>1, <2>3, FinishKeepsIntact
  <2>4. CASE Die
    BY <2>1, <2>4 DEF Die, Intact
  <2>5. CASE UNCHANGED fileVars
    BY <2>1, <2>5 DEF fileVars, Intact, Held
  <2>6. UNCHANGED missionVars => UNCHANGED fileVars
    BY DEF missionVars, storeVars, fileVars
  <2> QED BY <2>1, <2>2, <2>3, <2>4, <2>5, <2>6, AskingLeavesFile, LoopLeavesFile
          DEF MissionsNext
<1> QED BY <1>1, <1>2, PTL DEF MissionsSpec

\* For all missions, zones and bounds: what clients stored is what missions.json holds,
\* as long as no write failed.
THEOREM MissionsAlwaysKept == MissionsSpec => []MissionsKept
<1>1. Intact => MissionsKept
  BY DEF Intact, Held, MissionsKept
<1> QED BY <1>1, IntactHolds, PTL
----------------------------------------------------------------------------
(* The commands.                                                           *)

\* What clients stored is remembered.
Remembered ==
  /\ had \in [MissionIds -> SUBSET SUBSET Zones]
  /\ DOMAIN stored \subseteq MissionIds
  /\ \A m \in DOMAIN stored : stored[m] \in had[m]

\* A command that names a mission was given with zones that mission had, or without.
Named(c) ==
  c.of # "none" =>
    c.of \in MissionIds /\ c.kind = "mission" /\ (c.zones = {} \/ c.zones \in had[c.of])

Queued ==
  tears = 0 => /\ commands \in Seq(MissionCommands)
               /\ \A i \in 1..Len(commands) : Named(commands[i])

Asked == Intact /\ Remembered /\ Queued

LEMMA StoredIsRemembered ==
  ASSUME Remembered, NEW m \in MissionIds, NEW z \in SUBSET Zones, Stored(m, z)
  PROVE  Remembered' /\ \A n \in MissionIds : had[n] \subseteq had'[n]
<1>1. /\ had' = [had EXCEPT ![m] = @ \cup {z}]
      /\ stored' = With(stored, m, z)
  BY DEF Stored
<1>2. \A n \in MissionIds : had'[n] = IF n = m THEN had[m] \cup {z} ELSE had[n]
  BY <1>1 DEF Remembered
<1>3. had' \in [MissionIds -> SUBSET SUBSET Zones]
  BY <1>1 DEF Remembered
<1>4. /\ DOMAIN stored' = DOMAIN stored \cup {m}
      /\ \A n \in DOMAIN stored' : stored'[n] = IF n = m THEN z ELSE stored[n]
  BY <1>1 DEF With
<1> QED BY <1>2, <1>3, <1>4 DEF Remembered

LEMMA ChangesKeepAsked ==
  ASSUME Remembered, Queued, PostMission \/ PutMission \/ DeleteMission
  PROVE  Remembered' /\ Queued'
<1>1. UNCHANGED <<commands, tears>>
  BY DEF PostMission, PutMission, DeleteMission, Rewrite
<1>2. Remembered' /\ \A n \in MissionIds : had[n] \subseteq had'[n]
  <2>1. CASE PostMission \/ PutMission
    <3>1. PICK m \in MissionIds, z \in SUBSET Zones : Stored(m, z)
      BY <2>1 DEF PostMission, PutMission
    <3> QED BY <3>1, StoredIsRemembered
  <2>2. CASE DeleteMission
    <3>1. PICK m \in MissionIds : stored' = Without(stored, m)
      BY <2>2 DEF DeleteMission
    <3>2. UNCHANGED had
      BY <2>2 DEF DeleteMission
    <3> QED BY <3>1, <3>2 DEF Remembered, Without
  <2> QED BY <2>1, <2>2
<1>3. ASSUME NEW c, Named(c)
      PROVE  Named(c)'
  BY <1>2, <1>3 DEF Named
<1> QED BY <1>1, <1>2, <1>3 DEF Queued

\* A request puts one command at the end of the queue.
LEMMA RequestQueues ==
  ASSUME Queued, NEW kind, NEW of, NEW z, Request(kind, of, z),
         UNCHANGED <<had, tears>>,
         tears = 0 => /\ [kind |-> kind, of |-> of, zones |-> z] \in MissionCommands
                      /\ Named([kind |-> kind, of |-> of, zones |-> z])
  PROVE  Queued'
<1> DEFINE c == [kind |-> kind, of |-> of, zones |-> z]
<1>1. SUFFICES ASSUME tears = 0
               PROVE  Queued'
  BY DEF Queued
<1>2. commands' = Append(commands, c) /\ commands \in Seq(MissionCommands)
  BY <1>1 DEF Request, Queued
<1>3. commands' \in Seq(MissionCommands)
  BY <1>1, <1>2
<1>4. ASSUME NEW i \in 1..Len(commands')
      PROVE  Named(commands'[i])
  <2>1. commands'[i] = IF i \in 1..Len(commands) THEN commands[i] ELSE c
    BY <1>1, <1>2, <1>4
  <2> QED BY <1>1, <2>1 DEF Queued
<1>5. ASSUME NEW d
      PROVE  Named(d)' = Named(d)
  BY DEF Named
<1> QED BY <1>3, <1>4, <1>5 DEF Queued

LEMMA AskMissionKeepsQueued ==
  ASSUME Asked, AskMission
  PROVE  Queued'
<1>1. UNCHANGED <<had, tears>> /\ ~writing
  BY AskingLeavesFile DEF fileVars, AskMission
<1>2. PICK m \in MissionIds :
        IF file.torn THEN Request("start", m, {}) ELSE Request("mission", m, ZonesOf(m))
  BY DEF AskMission
<1>3. CASE file.torn
  <2>1. tears # 0
    BY <1>1, <1>3 DEF Asked, Intact
  <2> QED BY <1>1, <1>2, <1>3, <2>1, RequestQueues DEF Asked
<1>4. CASE ~file.torn
  <2> DEFINE z == ZonesOf(m)
  <2>1. tears = 0 => z = {} \/ z \in had[m]
    BY <1>1, <1>4 DEF Asked, Intact, Held, Remembered, ZonesOf
  <2>2. tears = 0 => z \in SUBSET Zones
    BY <2>1 DEF Asked, Remembered
  <2>3. tears = 0 => [kind |-> "mission", of |-> m, zones |-> z] \in MissionCommands
    BY <2>2 DEF MissionCommands
  <2>4. tears = 0 => Named([kind |-> "mission", of |-> m, zones |-> z])
    BY <2>1 DEF Named
  <2>5. Request("mission", m, z)
    BY <1>2, <1>4
  <2> QED BY <1>1, <2>3, <2>4, <2>5, RequestQueues DEF Asked
<1> QED BY <1>3, <1>4

LEMMA AskOthersKeepsQueued ==
  ASSUME Asked, AskOther \/ AskZones
  PROVE  Queued'
<1>1. UNCHANGED <<had, tears>>
  BY AskingLeavesFile DEF fileVars
<1>2. PICK kind \in {"start", "zones", "dock", "resume", "stop"}, z \in SUBSET Zones :
        Request(kind, "none", z)
  BY DEF AskOther, AskZones
<1>3. [kind |-> kind, of |-> "none", zones |-> z] \in MissionCommands
  BY DEF MissionCommands
<1>4. Named([kind |-> kind, of |-> "none", zones |-> z])
  BY DEF Named
<1> QED BY <1>1, <1>2, <1>3, <1>4, RequestQueues DEF Asked

LEMMA ExecuteKeepsQueued ==
  ASSUME Asked, Execute
  PROVE  Queued'
<1>1. commands # <<>> /\ commands' = Tail(commands) /\ UNCHANGED <<had, tears>>
  BY LoopLeavesFile DEF Execute, fileVars
<1>2. SUFFICES ASSUME tears = 0
               PROVE  Queued'
  BY <1>1 DEF Queued
<1>3. commands \in Seq(MissionCommands) /\ \A i \in 1..Len(commands) : Named(commands[i])
  BY <1>2 DEF Asked, Queued
<1>4. commands' \in Seq(MissionCommands)
  BY <1>1, <1>3
<1>5. ASSUME NEW i \in 1..Len(commands')
      PROVE  Named(commands'[i])
  <2>1. commands'[i] = commands[i + 1] /\ i + 1 \in 1..Len(commands)
    BY <1>1, <1>3, <1>5
  <2> QED BY <1>3, <2>1
<1>6. ASSUME NEW d
      PROVE  Named(d)' = Named(d)
  BY <1>1 DEF Named
<1> QED BY <1>4, <1>5, <1>6 DEF Queued

LEMMA AskedHolds == MissionsSpec => []Asked
<1>1. MissionsInit => Asked
  <2>1. SUFFICES ASSUME MissionsInit
                 PROVE  Asked
    OBVIOUS
  <2>2. Intact
    BY <2>1 DEF MissionsInit, Intact, Held
  <2>3. Remembered
    BY <2>1 DEF MissionsInit, Remembered, NoMissions
  <2>4. Queued
    BY <2>1 DEF MissionsInit, Queued
  <2> QED BY <2>2, <2>3, <2>4 DEF Asked
<1>2. Asked /\ Intact' /\ [MissionsNext]_missionVars => Asked'
  <2>1. SUFFICES ASSUME Asked, Intact', [MissionsNext]_missionVars
                 PROVE  Remembered' /\ Queued'
    BY DEF Asked
  <2>2. CASE PostMission \/ PutMission \/ DeleteMission
    BY <2>1, <2>2, ChangesKeepAsked DEF Asked
  <2>3. UNCHANGED <<stored, had>> => Remembered'
    BY <2>1 DEF Asked, Remembered
  <2>4. UNCHANGED <<commands, had>> /\ (tears' = 0 => tears = 0) => Queued'
    BY <2>1 DEF Asked, Queued, Named
  <2>5. CASE FinishWrite
    BY <2>1, <2>3, <2>4, <2>5 DEF FinishWrite, Asked, Intact
  <2>6. CASE Die
    BY <2>1, <2>3, <2>6 DEF Die, Asked, Intact, Queued
  <2>7. CASE AskMission \/ AskOther \/ AskZones
    BY <2>1, <2>3, <2>7, AskMissionKeepsQueued, AskOthersKeepsQueued, AskingLeavesFile
       DEF fileVars
  <2>8. CASE StorePreview \/ EditZones
    BY <2>3, <2>4, <2>8, AskingLeavesFile DEF fileVars, StorePreview, EditZones
  <2>9. CASE Execute
    BY <2>1, <2>3, <2>9, ExecuteKeepsQueued, LoopLeavesFile DEF fileVars
  <2>10. CASE ActHere \/ EndMission
    BY <2>3, <2>4, <2>10, LoopLeavesFile DEF fileVars, ActHere, EndMission
  <2>11. CASE UNCHANGED missionVars
    BY <2>3, <2>4, <2>11 DEF missionVars, storeVars
  <2> QED BY <2>1, <2>2, <2>5, <2>6, <2>7, <2>8, <2>9, <2>10, <2>11 DEF MissionsNext
<1> QED BY <1>1, <1>2, IntactHolds, PTL DEF MissionsSpec
----------------------------------------------------------------------------
(* A start mows as it was asked.                                           *)

\* The mission is read once more: it may be gone, changed, or not to be read.
LEMMA DocumentRemembered ==
  ASSUME Asked, tears = 0, NEW m \in MissionIds
  PROVE  Document(m).zones = {} \/ Document(m).zones \in had[m]
<1>1. CASE file.torn \/ m \notin DOMAIN file.missions
  BY <1>1 DEF Document
<1>2. CASE ~file.torn /\ m \in DOMAIN file.missions
  <2>1. ~writing
    BY <1>2 DEF Asked, Intact, Torn
  <2>2. file.missions = stored
    BY <2>1 DEF Asked, Intact, Held
  <2> QED BY <1>2, <2>2 DEF Document, Asked, Remembered
<1> QED BY <1>1, <1>2

\* A plan is built from the zones asked for, or, without any, from the ones in the
\* file; whatever the compiler leaves out, nothing comes in.
LEMMA MissionStartsAsAsked ==
  ASSUME Asked, tears = 0, NEW m \in MissionIds, NEW z, z = {} \/ z \in had[m],
         StartMission(m, z), plan' # plan
  PROVE  /\ \E y \in had[m] : plan'.zones \subseteq y \cap zones
         /\ plan'.of = (IF ~writing /\ m \in DOMAIN stored THEN m ELSE "")
<1> DEFINE y == IF z # {} THEN z ELSE Document(m).zones
<1>1. PICK p \in Built(Document(m).of, y) : Activated(p)
  BY DEF StartMission, Refused, Starts
<1>2. plan' = p /\ p.zones # {} /\ p.zones \subseteq y \cap zones /\ p.of = Document(m).of
  BY <1>1 DEF Activated, Built, Mown
<1>3. y # {}
  BY <1>2
<1>4. y \in had[m]
  BY <1>3, DocumentRemembered
<1>5. Document(m).of = (IF ~writing /\ m \in DOMAIN stored THEN m ELSE "")
  <2>1. writing <=> file.torn
    BY DEF Asked, Intact, Torn
  <2>2. ~writing => file.missions = stored
    BY DEF Asked, Intact, Held
  <2> QED BY <2>1, <2>2 DEF Document
<1> QED BY <1>2, <1>4, <1>5

\* For all missions, zones and bounds, whatever the worker writes between a start and
\* its execution, and whatever the compiler leaves out: as long as no write failed, a
\* start that names a mission mows only zones which that mission had together, on the
\* map of now, and the plan is known as that mission's unless it could not be found.
THEOREM AlwaysStartsAsAsked == MissionsSpec => StartsAsAsked
<1>1. Asked /\ [MissionsNext]_missionVars =>
        [commands # <<>> /\ commands' = Tail(commands) /\ tears' = 0 =>
           LET m == Head(commands).of
           IN m # "none" /\ plan' # plan =>
                /\ \E z \in had[m] : plan'.zones \subseteq z \cap zones
                /\ plan'.of = (IF ~writing /\ m \in DOMAIN stored THEN m ELSE "")
        ]_missionVars
  <2> DEFINE c == Head(commands)
  <2>1. SUFFICES ASSUME Asked, MissionsNext, commands # <<>>, commands' = Tail(commands),
                        tears' = 0, c.of # "none", plan' # plan
                 PROVE  /\ \E z \in had[c.of] : plan'.zones \subseteq z \cap zones
                        /\ plan'.of = (IF ~writing /\ c.of \in DOMAIN stored THEN c.of ELSE "")
    OBVIOUS
  <2>2. tears = 0
    BY <2>1 DEF MissionsNext, Die, FinishWrite, PostMission, PutMission, DeleteMission,
                Rewrite, AskMission, AskOther, AskZones, StorePreview, EditZones, Execute,
                ActHere, EndMission, Asked, Intact
  <2>3. commands \in Seq(MissionCommands) /\ Named(commands[1])
    BY <2>1, <2>2 DEF Asked, Queued
  <2>4. c = commands[1] /\ commands' # commands
    BY <2>1, <2>3
  <2>5. Execute
    <3>1. ~Die
      BY <2>2, <2>1 DEF Die
    <3>2. ~(PostMission \/ PutMission \/ DeleteMission \/ FinishWrite)
      BY <2>1 DEF PostMission, PutMission, DeleteMission, FinishWrite, Rewrite, loopVars
    <3>3. ~(AskMission \/ AskOther \/ AskZones \/ StorePreview \/ EditZones)
      BY <2>1 DEF AskMission, AskOther, AskZones, StorePreview, EditZones, loopVars
    <3>4. ~(ActHere \/ EndMission)
      BY <2>4 DEF ActHere, EndMission
    <3> QED BY <2>1, <3>1, <3>2, <3>3, <3>4 DEF MissionsNext
  <2>6. /\ c.of \in MissionIds /\ c.kind = "mission"
        /\ c.zones = {} \/ c.zones \in had[c.of]
    BY <2>1, <2>3, <2>4 DEF Named
  <2>7. StartMission(c.of, c.zones)
    BY <2>5, <2>6 DEF Execute
  <2> QED BY <2>1, <2>2, <2>6, <2>7, MissionStartsAsAsked
<1> QED BY <1>1, AskedHolds, PTL DEF MissionsSpec, StartsAsAsked
=============================================================================
