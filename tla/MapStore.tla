------------------------------ MODULE MapStore ------------------------------
(***************************************************************************)
(* The maps of the web server: map.json, which Robot loads, the directory  *)
(* maps/ with a file for each named map, and its catalog.json.             *)
(*                                                                         *)
(* The only worker of the server handles one request after the other, each *)
(* a sequence of file writes.  Every write truncates its file first: it    *)
(* may be refused, or leave a part (also unnoticed, since the handlers     *)
(* look at the stream before it is flushed), and the process may die       *)
(* before, in or after any of them.                                        *)
(***************************************************************************)
EXTENDS Naturals, Sequences

CONSTANTS
  Others,       \* ids of maps beside "default"
  VersionBound, \* bound on the documents clients send
  FaultBound    \* bound on the deaths of the process and the writes that fail

ASSUME MapStoreAssumption ==
  /\ Others \subseteq STRING /\ Others \cap {"default", "none", "torn"} = {}
  /\ VersionBound \in Nat /\ FaultBound \in Nat

VARIABLES
  disk,    \* map.json, the named maps' files, the catalog
  robot,   \* the document Robot holds
  req,     \* the request's map and its document
  todo,    \* what is left of the request
  editing, \* the request is one that edits the map in place
  version, \* documents sent so far
  faults,  \* history: deaths and failing writes
  safe     \* history: the document that map.json and the active map's file both held
           \* last, or what an activation has put in its place since

mapVars == <<disk, robot, req, todo, editing, version, faults, safe>>

Ids  == Others \cup {"default"}
Docs == [of: Ids, v: 0..VersionBound]   \* documents, by the map they describe

Torn  == [of |-> "torn", v |-> 0]       \* a part of a document, or nothing
NoDoc == [of |-> "none", v |-> 0]       \* no such file
Files == Docs \cup {Torn, NoDoc}

Blank   == [of |-> "default", v |-> 0]  \* kDefaultMapJson
Empty   == [maps |-> {}, active |-> "none"]   \* also read from a torn catalog
Whole(f) == f.of \in Ids

catalog == disk.catalog

\* Map::load: a document that cannot be parsed leaves no map.
Loaded(d, old) == IF Whole(d.map) THEN d.map ELSE IF d.map = NoDoc THEN old ELSE NoDoc

Ensure     == <<"rebuild", "adopt">>
Activation == Ensure \o <<"copy", "activate", "reload">>
----------------------------------------------------------------------------
(* One write.                                                              *)

\* A write that fails ends the request; an edit, whose map.json is written,
\* only leaves out the snapshot and has Robot reload.
GiveUp == todo' = IF editing /\ Head(todo) # "map" THEN <<"reload">> ELSE <<>>

\* A write of new; torn is what a part of it leaves; checked: the handler looks
\* at the stream.
Save(new, torn, checked) ==
  /\ \/ /\ disk' = new /\ todo' = Tail(todo)
        /\ UNCHANGED <<robot, faults>>
     \/ /\ faults < FaultBound /\ faults' = faults + 1
        /\ \/ disk' = disk /\ GiveUp /\ UNCHANGED robot
           \/ disk' = torn /\ todo' = Tail(todo) /\ UNCHANGED robot
           \/ disk' = torn /\ checked /\ GiveUp /\ UNCHANGED robot
           \/ disk' = torn /\ todo' = <<>> /\ robot' = Loaded(torn, NoDoc)
  /\ UNCHANGED <<req, editing, version>>

SaveMap(doc, checked) ==
  Save([disk EXCEPT !.map = doc], [disk EXCEPT !.map = Torn], checked)

SaveEntry(id, doc, checked) ==
  Save([disk EXCEPT !.entry[id] = doc], [disk EXCEPT !.entry[id] = Torn], checked)

\* saveMapsCatalogLocked.
SaveCatalog(c) ==
  Save([disk EXCEPT !.catalog = c], [disk EXCEPT !.catalog = Empty], TRUE)

\* The step has nothing to do, or the request ends here.
Skip == todo' = Tail(todo) /\ UNCHANGED <<disk, robot, req, editing, version, faults>>
Fail == GiveUp /\ UNCHANGED <<disk, robot, req, editing, version, faults>>

Step(s) == todo # <<>> /\ Head(todo) = s
----------------------------------------------------------------------------
(* The requests.  A request may be refused as it is: nothing happens then. *)

Begin(steps, id, doc, edits) ==
  /\ todo = <<>> /\ todo' = steps
  /\ req' = [id |-> id, doc |-> doc] /\ editing' = edits
  /\ UNCHANGED <<disk, robot, faults>>

\* GET /api/maps saves the catalog, too.
ListMaps == Begin(Ensure, "default", NoDoc, FALSE) /\ UNCHANGED version

\* A newer document of map of, to be written to map.json.
Edit(of) ==
  /\ version < VersionBound /\ version' = version + 1
  /\ Begin(<<"map">> \o Ensure \o <<"snapshot", "note", "reload">>, of,
           [of |-> of, v |-> version + 1], TRUE)

\* What the client edits: the map in map.json; without one, the map it takes for active.
InEditor ==
  IF Whole(disk.map) THEN disk.map.of
  ELSE IF catalog = Empty THEN "default" ELSE catalog.active

\* POST /api/map, and an import of GeoJSON: written, whatever there was before.
PostMap == Edit(InEditor)
ImportGeoJson == Edit(InEditor)

\* A zone's profiles: map.json is read, changed and written.
EditProfile == Whole(disk.map) /\ Edit(disk.map.of)

\* POST /api/maps: an id that is not used, with the document sent or a copy.
CreateMap ==
  /\ version < VersionBound /\ version' = version + 1
  /\ \E id \in Ids \ catalog.maps, activate \in BOOLEAN :
       /\ catalog = Empty => id # "default"
       /\ Begin(Ensure \o <<"entry", "list">> \o (IF activate THEN Activation ELSE <<>>),
                id, [of |-> id, v |-> version + 1], FALSE)

ActivateMap ==
  /\ \E id \in Ids : Begin(Activation, id, NoDoc, FALSE)
  /\ UNCHANGED version

DeleteMap ==
  /\ \E id \in Ids : Begin(Ensure \o <<"unlist", "remove">>, id, NoDoc, FALSE)
  /\ UNCHANGED version
----------------------------------------------------------------------------
(* Their steps.                                                            *)

WriteMap == Step("map") /\ SaveMap(req.doc, FALSE)

\* ensureMapsCatalogLocked: without a catalog, map.json becomes "default" ...
Rebuild ==
  /\ Step("rebuild")
  /\ IF catalog.maps # {} THEN Skip
     ELSE SaveEntry("default", IF Whole(disk.map) THEN disk.map ELSE Blank, FALSE)

\* ... and the catalog is saved, new or not.
Adopt ==
  /\ Step("adopt")
  /\ SaveCatalog(IF catalog.maps # {} THEN catalog
                 ELSE [maps |-> {"default"}, active |-> "default"])

\* Mutant of Snapshot: always the first map of the catalog.
SnapshotsFirst ==
  /\ Step("snapshot")
  /\ IF catalog.maps = {} THEN Fail ELSE SaveEntry("default", req.doc, TRUE)

\* Mutant of Snapshot: a copy of map.json as it was written.
SnapshotsFile ==
  /\ Step("snapshot")
  /\ IF catalog.maps = {} THEN Fail ELSE SaveEntry(catalog.active, disk.map, TRUE)

\* syncActiveMapSnapshotLocked.
Snapshot ==
  /\ Step("snapshot")
  /\ IF catalog.maps = {} THEN Fail ELSE SaveEntry(catalog.active, req.doc, TRUE)

Note == Step("note") /\ SaveCatalog(catalog)

WriteEntry == Step("entry") /\ SaveEntry(req.id, req.doc, FALSE)

List ==
  /\ Step("list")
  /\ SaveCatalog([maps |-> catalog.maps \cup {req.id},
                  active |-> IF catalog = Empty THEN req.id ELSE catalog.active])

\* activateMapByIdLocked: a torn entry is copied as it is, unless nothing is left.
Copy ==
  /\ Step("copy")
  /\ \/ (req.id \notin catalog.maps \/ disk.entry[req.id] \in {Torn, NoDoc}) /\ Fail
     \/ /\ req.id \in catalog.maps /\ disk.entry[req.id] # NoDoc
        /\ SaveMap(disk.entry[req.id], TRUE)

Activate == Step("activate") /\ SaveCatalog([catalog EXCEPT !.active = req.id])

Reload ==
  /\ Step("reload")
  /\ robot' = Loaded(disk, robot) /\ todo' = Tail(todo)
  /\ UNCHANGED <<disk, req, editing, version, faults>>

\* Mutant of Unlist: the active map may be deleted as long as another is left.
UnlistsActive ==
  /\ Step("unlist")
  /\ IF req.id \notin catalog.maps \/ catalog.maps = {req.id} THEN Fail
     ELSE SaveCatalog([catalog EXCEPT !.maps = @ \ {req.id}])

Unlist ==
  /\ Step("unlist")
  /\ IF req.id \notin catalog.maps \ {catalog.active} THEN Fail
     ELSE SaveCatalog([catalog EXCEPT !.maps = @ \ {req.id}])

\* remove: an error is ignored.
Remove ==
  /\ Step("remove")
  /\ \/ Skip
     \/ /\ disk' = [disk EXCEPT !.entry[req.id] = NoDoc] /\ todo' = Tail(todo)
        /\ UNCHANGED <<robot, req, editing, version, faults>>
----------------------------------------------------------------------------
\* The process dies between two writes, and is started again.
Die ==
  /\ todo # <<>> /\ faults < FaultBound /\ faults' = faults + 1
  /\ todo' = <<>> /\ robot' = Loaded(disk, NoDoc)
  /\ UNCHANGED <<disk, req, editing, version>>

TwoCopies ==
  /\ catalog.maps # {}
  /\ Whole(disk.map) /\ disk.entry[catalog.active] = disk.map

\* An activation has put the map's file, as it is, into map.json, or the map's name
\* into the catalog.
Switches ==
  \/ Step("copy") /\ disk'.map = disk.entry[req.id] /\ disk'.map # NoDoc
  \/ Step("activate") /\ catalog'.active = req.id

Remember ==
  safe' = IF TwoCopies' THEN disk'.map ELSE IF Switches THEN disk.entry[req.id] ELSE safe

\* A new installation, without a map or with one.
MapInit ==
  /\ \E m \in {NoDoc, Blank} :
       /\ disk = [map |-> m, entry |-> [i \in Ids |-> NoDoc], catalog |-> Empty]
       /\ robot = m
  /\ req = [id |-> "default", doc |-> NoDoc] /\ todo = <<>> /\ editing = FALSE
  /\ version = 0 /\ faults = 0 /\ safe = NoDoc

MapNext ==
  /\ \/ ListMaps \/ PostMap \/ ImportGeoJson \/ EditProfile
     \/ CreateMap \/ ActivateMap \/ DeleteMap
     \/ WriteMap \/ Rebuild \/ Adopt \/ Snapshot \/ Note \/ WriteEntry \/ List
     \/ Copy \/ Activate \/ Reload \/ Unlist \/ Remove \/ Die
  /\ Remember

MapSpec == MapInit /\ [][MapNext]_mapVars
----------------------------------------------------------------------------
(* Properties.                                                             *)

Steps == {"map", "rebuild", "adopt", "snapshot", "note", "entry", "list", "copy",
          "activate", "reload", "unlist", "remove"}

MapTypeOK ==
  /\ disk \in [map: Files, entry: [Ids -> Files],
               catalog: [maps: SUBSET Ids, active: Ids \cup {"none"}]]
  /\ robot \in Docs \cup {NoDoc}
  /\ req \in [id: Ids, doc: Docs \cup {NoDoc}]
  /\ todo \in Seq(Steps) /\ editing \in BOOLEAN
  /\ version \in 0..VersionBound /\ faults \in 0..FaultBound /\ safe \in Files

\* Whatever was interrupted or refused, the catalog that can be read names an
\* active map among its maps, and a file is there for each of them.
ListedMapsExist ==
  catalog # Empty =>
    catalog.active \in catalog.maps /\ \A m \in catalog.maps : disk.entry[m] # NoDoc

\* As long as nothing fails, each named map's file describes that map, and between
\* requests map.json, if there is one, the active map's file and Robot hold the
\* same document.
CopiesAgree ==
  faults = 0 /\ catalog # Empty =>
    /\ \A m \in catalog.maps : disk.entry[m].of = m
    /\ todo = <<>> /\ disk.map # NoDoc =>
         disk.map = disk.entry[catalog.active] /\ robot = disk.map

\* A document of the same map as d, and not an older one.
Keeps(f, d) == f.of = d.of /\ f.v >= d.v

\* The map in use, which Robot loads from map.json, is not lost.  The document that
\* map.json and the active map's file both held last, or the one activated since, is
\* still whole in one of them, or a newer one of the same map is, after one failing
\* write or one death of the process, at whatever point of a request and through all
\* the requests that follow; only a torn file that is activated ends the promise.
\* Nothing is promised for the map that was in use before an activation.
MapInUseSurvives ==
  Whole(safe) /\ faults <= 1 =>
    Keeps(disk.map, safe) \/ (catalog # Empty /\ Keeps(disk.entry[catalog.active], safe))
=============================================================================
