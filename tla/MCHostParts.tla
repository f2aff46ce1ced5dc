---------------------------- MODULE MCHostParts -----------------------------
(***************************************************************************)
(* The parts of the program on the Pi that share no variable are checked   *)
(* by one run: a behaviour is one of a single part, chosen at the start,   *)
(* while the others rest.                                                  *)
(***************************************************************************)
EXTENDS OpManager, History, Mqtt, MapStore, Server, Gps, GridPlanner

CONSTANTS
  Walls,  \* bound on the cells that obstacles cover
  Costs   \* what a margin and a soft exclusion may cost

VARIABLE part

partsVars == <<part, vars, histVars, mqttVars, mapVars, serverVars, gpsVars,
               gridVars>>

Parts == {"manager", "history", "mqtt", "maps", "server", "gps", "planner"}

\* The lowest row of cells is near the perimeter's edge, or within its hard margin.
Border == { c \in Cells : c[2] = 0 }
Middle == <<1, 1>>

Polygon(inside, near, edge) ==
  [inside |-> inside, near |-> near, edge |-> edge, hard |-> FALSE]
Hard(p) == [p EXCEPT !.hard = TRUE]

Perimeters == { Polygon(Cells, Border, {}), Polygon(Cells, {}, Border) }
Constraint == Polygon(Cells \ {<<2, 0>>}, {}, {})
Patches    == { Polygon({Middle}, {Middle}, {}), Hard(Polygon({Middle}, {}, {Middle})) }

AtMostOne(S) == {{}} \cup { {x} : x \in S }

\* A map of many obstacles, or one of everything else.
SomeGrounds ==
  [perimeter: {{}}, zone: {{}}, exclusions: {{}}, corridor: {{}}, cost: Costs,
   obstacles: { S \in SUBSET Cells : Cardinality(S) <= Walls }]
    \cup
  [perimeter: AtMostOne(Perimeters), zone: AtMostOne({Constraint}),
   exclusions: AtMostOne(Patches), corridor: {{}, Border}, cost: Costs,
   obstacles: {{}, {<<2, 1>>}}]
SomeStarts == {<<0, 0>>, Middle, Off}

\* A part that rests does so in one of its initial states.
Rests ==
  /\ part # "history" => db.version = "none"
  /\ part # "maps" => disk.map = NoDoc
  /\ part # "gps" => pos = 1

PlannerRests ==
  part # "planner" =>
    ends = [src |-> Off, dst |-> Off] /\ ground = CHOOSE m \in Grounds : TRUE

PartsInit ==
  /\ part \in Parts
  /\ PlannerRests /\ GridInit
  /\ Init /\ HistInit /\ MqttInit /\ MapInit /\ ServerInit /\ GpsInit
  /\ Rests

PartsNext ==
  /\ UNCHANGED part
  /\ \/ part = "manager" /\ Next
     \/ part # "manager" /\ UNCHANGED vars
  /\ \/ part = "history" /\ HistNext
     \/ part # "history" /\ UNCHANGED histVars
  /\ \/ part = "mqtt" /\ MqttNext
     \/ part # "mqtt" /\ UNCHANGED mqttVars
  /\ \/ part = "maps" /\ MapNext
     \/ part # "maps" /\ UNCHANGED mapVars
  /\ \/ part = "server" /\ ServerNext
     \/ part # "server" /\ UNCHANGED serverVars
  /\ \/ part = "gps" /\ GpsNext
     \/ part # "gps" /\ UNCHANGED gpsVars
  /\ \/ part = "planner" /\ GridNext
     \/ part # "planner" /\ UNCHANGED gridVars

\* The fairness of the part that runs.  Only one runs, so weak fairness of a choice
\* between steps of different parts is weak fairness of each of them.
Fairly(history, mqtt, server, gps) ==
  /\ UNCHANGED <<part, vars, mapVars, gridVars>>
  /\ \/ part = "history" /\ history
     \/ part # "history" /\ UNCHANGED histVars
  /\ \/ part = "mqtt" /\ mqtt
     \/ part # "mqtt" /\ UNCHANGED mqttVars
  /\ \/ part = "server" /\ server
     \/ part # "server" /\ UNCHANGED serverVars
  /\ \/ part = "gps" /\ gps
     \/ part # "gps" /\ UNCHANGED gpsVars

PartsFairness ==
  /\ WF_partsVars(Fairly(BeginSession, PushNext, WorkerNext, Receive))
  /\ WF_partsVars(Fairly(EndSession, Disconnect, MainNext, FALSE))
  /\ WF_mqttVars(part = "mqtt" /\ Destroy)
  /\ SF_histVars(part = "history" /\ TrackSession /\ worked')

PartsSpec == PartsInit /\ [][PartsNext]_partsVars /\ PartsFairness
=============================================================================
