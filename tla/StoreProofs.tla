---------------------------- MODULE StoreProofs -----------------------------
(***************************************************************************)
(* Proofs about what the host keeps on disk: the maps of the web server    *)
(* and the history database.                                               *)
(***************************************************************************)
EXTENDS History, MapStore, SequenceTheorems, FiniteSetTheorems, WellFoundedInduction,
        TLAPS

----------------------------------------------------------------------------
(* The maps: the steps of a request.                                       *)

\* Which step comes right after which.
Fits(s, t) ==
  /\ t # "map"
  /\ t = "rebuild" => s \in {"map", "list"}
  /\ t = "adopt" => s = "rebuild"
  /\ t \in {"snapshot", "entry", "copy", "unlist"} => s = "adopt"
  /\ t = "note" => s = "snapshot"
  /\ t = "list" => s = "entry"
  /\ t = "activate" => s = "copy"
  /\ t = "reload" => s \in {"note", "activate"}
  /\ t = "remove" => s = "unlist"

\* The steps of an edit, and those of the other requests; an edit and an activation
\* end in a reload; a map is written before it is listed.
EditSteps  == {"map", "snapshot", "note"}
OtherSteps == {"entry", "list", "copy", "activate", "unlist", "remove"}

Planned(s, edits) ==
  /\ s \in Seq(Steps)
  /\ \A i \in 1..Len(s) : i + 1 <= Len(s) => Fits(s[i], s[i + 1])
  /\ \A i \in 1..Len(s) : IF edits THEN s[i] \notin OtherSteps ELSE s[i] \notin EditSteps
  /\ \A i \in 1..Len(s) : edits \/ s[i] \in {"copy", "activate"} => s[Len(s)] = "reload"
  /\ \A i, j \in 1..Len(s) : i < j /\ s[i] = "list" => s[j] # "entry"

\* What a request sends along.
Sent == EditSteps \union {"entry"}
In(s) == \E i \in 1..Len(todo) : todo[i] = s

StepInv ==
  /\ MapTypeOK
  /\ Planned(todo, editing)
  /\ \A s \in Sent : In(s) => req.doc # NoDoc

\* One step done, the next is one that comes after it.
LEMMA PlanGoesOn ==
  ASSUME NEW s, NEW edits \in BOOLEAN, Planned(s, edits), s # <<>>
  PROVE  /\ Planned(Tail(s), edits)
         /\ Head(s) \in Steps
         /\ Tail(s) # <<>> => Fits(Head(s), Head(Tail(s)))
         /\ edits \/ Head(s) \in {"copy", "activate"} => Head(s) = "reload" \/ Tail(s) # <<>>
         /\ Head(s) = "reload" => Tail(s) = <<>>
<1> DEFINE t == Tail(s)
<1>1. s \in Seq(Steps) /\ Len(s) \in Nat /\ Len(s) # 0 /\ Head(s) = s[1]
  BY DEF Planned
<1>2. /\ t \in Seq(Steps) /\ Len(t) = Len(s) - 1
      /\ \A i \in 1..Len(t) : t[i] = s[i + 1]
  BY <1>1
<1>3. /\ Head(s) \in Steps
      /\ t # <<>> => Head(t) = s[2] /\ Len(s) >= 2
  BY <1>1, <1>2
<1> HIDE DEF t
<1>4. t # <<>> => Fits(Head(s), Head(t))
  BY <1>1, <1>3 DEF Planned
<1>5. /\ \A i \in 1..Len(t) : i + 1 <= Len(t) => Fits(t[i], t[i + 1])
      /\ \A i \in 1..Len(t) : IF edits THEN t[i] \notin OtherSteps ELSE t[i] \notin EditSteps
  BY SMTT(30), <1>1, <1>2 DEF Planned
<1>6. \A i \in 1..Len(t) : edits \/ t[i] \in {"copy", "activate"} => t[Len(t)] = "reload"
  BY <1>1, <1>2 DEF Planned
<1>7. \A i, j \in 1..Len(t) : i < j /\ t[i] = "list" => t[j] # "entry"
  BY <1>1, <1>2 DEF Planned
<1>8. edits \/ Head(s) \in {"copy", "activate"} => Head(s) = "reload" \/ t # <<>>
  <2> SUFFICES ASSUME edits \/ Head(s) \in {"copy", "activate"}, t = <<>>
               PROVE  Head(s) = "reload"
    OBVIOUS
  <2>1. Len(s) = 1
    BY <1>1, <1>2
  <2> QED
    BY <1>1, <2>1 DEF Planned
<1>9. Head(s) = "reload" => t = <<>>
  <2> SUFFICES ASSUME Head(s) = "reload", t # <<>> PROVE FALSE
    OBVIOUS
  <2>1. Head(t) \in Steps /\ Fits("reload", Head(t))
    BY <1>2, <1>4
  <2> QED
    BY <2>1 DEF Fits, Steps
<1> QED
  BY <1>2, <1>3, <1>4, <1>5, <1>6, <1>7, <1>8, <1>9 DEF Planned, t

LEMMA SamePlan ==
  ASSUME NEW edits, NEW s \in Seq(Steps), NEW t \in Seq(Steps), Planned(t, edits),
         Len(s) = Len(t), \A i \in 1..Len(t) : s[i] = t[i]
  PROVE  Planned(s, edits)
<1>1. s = t
  BY SeqEqual
<1> QED
  BY <1>1

LEMMA Plans ==
  /\ Planned(<<>>, TRUE) /\ Planned(<<>>, FALSE)
  /\ Planned(<<"reload">>, TRUE)
  /\ Planned(Ensure, FALSE)
  /\ Planned(<<"map">> \o Ensure \o <<"snapshot", "note", "reload">>, TRUE)
  /\ Planned(Activation, FALSE)
  /\ Planned(Ensure \o <<"entry", "list">> \o <<>>, FALSE)
  /\ Planned(Ensure \o <<"entry", "list">> \o Activation, FALSE)
  /\ Planned(Ensure \o <<"unlist", "remove">>, FALSE)
<1> DEFINE edit     == <<"map", "rebuild", "adopt", "snapshot", "note", "reload">>
           activate == <<"rebuild", "adopt", "copy", "activate", "reload">>
           create   == <<"rebuild", "adopt", "entry", "list">>
           both     == <<"rebuild", "adopt", "entry", "list", "rebuild", "adopt", "copy",
                         "activate", "reload">>
           delete   == <<"rebuild", "adopt", "unlist", "remove">>
<1>1. Planned(<<>>, TRUE) /\ Planned(<<>>, FALSE) /\ Planned(<<"reload">>, TRUE)
  BY DEF Planned, Steps, OtherSteps
<1>2. Planned(Ensure, FALSE)
  BY DEF Planned, Steps, Ensure, Fits, EditSteps
<1>3. Planned(edit, TRUE)
  BY DEF Planned, Steps, Fits, OtherSteps
<1>4. Planned(activate, FALSE) /\ Planned(create, FALSE) /\ Planned(delete, FALSE)
  BY DEF Planned, Steps, Fits, EditSteps
<1>5. Planned(both, FALSE)
  BY DEF Planned, Steps, Fits, EditSteps
<1>6. Planned(<<"map">> \o Ensure \o <<"snapshot", "note", "reload">>, TRUE)
  <2> DEFINE s == <<"map">> \o Ensure \o <<"snapshot", "note", "reload">>
  <2>1. s \in Seq(Steps) /\ edit \in Seq(Steps)
    BY DEF Ensure, Steps
  <2>2. Len(s) = 6 /\ Len(edit) = 6
    BY DEF Ensure
  <2>3. \A i \in 1..6 : s[i] = edit[i]
    BY DEF Ensure
  <2> HIDE DEF s, edit
  <2> QED
    BY <1>3, <2>1, <2>2, <2>3, SamePlan DEF s
<1>7. Planned(Activation, FALSE)
  <2>1. Activation \in Seq(Steps) /\ activate \in Seq(Steps)
    BY DEF Activation, Ensure, Steps
  <2>2. Len(Activation) = 5 /\ Len(activate) = 5
    BY DEF Activation, Ensure
  <2>3. \A i \in 1..5 : Activation[i] = activate[i]
    BY DEF Activation, Ensure
  <2> HIDE DEF activate
  <2> QED
    BY <1>4, <2>1, <2>2, <2>3, SamePlan
<1>8. Planned(Ensure \o <<"entry", "list">> \o <<>>, FALSE)
  <2> DEFINE s == Ensure \o <<"entry", "list">> \o <<>>
  <2>1. s \in Seq(Steps) /\ create \in Seq(Steps)
    BY DEF Ensure, Steps
  <2>2. Len(s) = 4 /\ Len(create) = 4
    BY DEF Ensure
  <2>3. \A i \in 1..4 : s[i] = create[i]
    BY DEF Ensure
  <2> HIDE DEF s, create
  <2> QED
    BY <1>4, <2>1, <2>2, <2>3, SamePlan DEF s
<1>9. Planned(Ensure \o <<"entry", "list">> \o Activation, FALSE)
  <2> DEFINE s == Ensure \o <<"entry", "list">> \o Activation
  <2>1. s \in Seq(Steps) /\ both \in Seq(Steps)
    BY DEF Activation, Ensure, Steps
  <2>2. Len(s) = 9 /\ Len(both) = 9
    BY DEF Activation, Ensure
  <2>3. \A i \in 1..9 : s[i] = both[i]
    BY DEF Activation, Ensure
  <2> HIDE DEF s, both
  <2> QED
    BY <1>5, <2>1, <2>2, <2>3, SamePlan DEF s
<1>10. Planned(Ensure \o <<"unlist", "remove">>, FALSE)
  <2> DEFINE s == Ensure \o <<"unlist", "remove">>
  <2>1. s \in Seq(Steps) /\ delete \in Seq(Steps)
    BY DEF Ensure, Steps
  <2>2. Len(s) = 4 /\ Len(delete) = 4
    BY DEF Ensure
  <2>3. \A i \in 1..4 : s[i] = delete[i]
    BY DEF Ensure
  <2> HIDE DEF s, delete
  <2> QED
    BY <1>4, <2>1, <2>2, <2>3, SamePlan DEF s
<1> QED
  BY <1>1, <1>2, <1>6, <1>7, <1>8, <1>9, <1>10

\* What is not in a request that sends nothing, and how requests begin.
LEMMA PlanBegins ==
  /\ \A i \in 1..Len(Ensure) : Ensure[i] # "entry"
  /\ \A i \in 1..Len(Activation) : Activation[i] # "entry"
  /\ LET p == Ensure \o <<"unlist", "remove">>
     IN  (\A i \in 1..Len(p) : p[i] # "entry") /\ Head(p) = "rebuild"
  /\ Head(Ensure) = "rebuild" /\ Head(Activation) = "rebuild"
  /\ Head(<<"map">> \o Ensure \o <<"snapshot", "note", "reload">>) = "map"
  /\ Head(Ensure \o <<"entry", "list">> \o <<>>) = "rebuild"
  /\ Head(Ensure \o <<"entry", "list">> \o Activation) = "rebuild"
  BY DEF Ensure, Activation

\* The outcomes of a write.
Wrote   == faults' = faults /\ todo' = Tail(todo) /\ robot' = robot
Refused == faults' = faults + 1 /\ GiveUp
Tore    == faults' = faults + 1 /\ (todo' = Tail(todo) \/ GiveUp \/ todo' = <<>>)

Catalogs == [maps : SUBSET Ids, active : Ids \cup {"none"}]
Disks    == [map : Files, entry : [Ids -> Files], catalog : Catalogs]

LEMMA IdNames ==
  /\ "default" \in Ids /\ "none" \notin Ids /\ "torn" \notin Ids
  /\ Torn.of = "torn" /\ NoDoc.of = "none" /\ Blank \in Docs /\ Blank.of = "default"
  /\ \A f \in Files : Whole(f) <=> f \in Docs
  /\ \A f \in Docs : f.of \in Ids
  /\ Torn \in Files /\ NoDoc \in Files /\ Docs \subseteq Files
  /\ Torn \notin Docs /\ NoDoc \notin Docs /\ Torn # NoDoc /\ Empty \in Catalogs
  BY MapStoreAssumption DEF Ids, Torn, NoDoc, Blank, Docs, Files, Whole, Empty, Catalogs

LEMMA LoadedIs ==
  ASSUME NEW d \in Disks, NEW old \in Docs \cup {NoDoc}
  PROVE  Loaded(d, old) \in Docs \cup {NoDoc}
  BY IdNames DEF Loaded, Disks

LEMMA SaveDoes ==
  ASSUME MapTypeOK, NEW new \in Disks, NEW torn \in Disks, NEW checked \in BOOLEAN,
         Save(new, torn, checked)
  PROVE  /\ disk' \in Disks /\ robot' \in Docs \cup {NoDoc} /\ faults' \in 0..FaultBound
         /\ UNCHANGED <<req, editing, version>>
         /\ \/ Wrote /\ disk' = new
            \/ Refused /\ disk' = disk
            \/ Tore /\ disk' = torn
<1>1. /\ NoDoc \in Docs \cup {NoDoc} /\ Loaded(torn, NoDoc) \in Docs \cup {NoDoc}
      /\ faults < FaultBound => faults + 1 \in 0..FaultBound
  BY MapStoreAssumption, LoadedIs DEF MapTypeOK
<1> QED
  BY <1>1 DEF Save, MapTypeOK, Disks, Catalogs, Wrote, Refused, Tore

LEMMA SaveMapDoes ==
  ASSUME MapTypeOK, NEW doc \in Files, NEW checked \in BOOLEAN, SaveMap(doc, checked)
  PROVE  /\ disk' \in Disks /\ robot' \in Docs \cup {NoDoc} /\ faults' \in 0..FaultBound
         /\ UNCHANGED <<req, editing, version>>
         /\ disk'.entry = disk.entry /\ disk'.catalog = disk.catalog
         /\ \/ Wrote /\ disk'.map = doc
            \/ Refused /\ disk'.map = disk.map
            \/ Tore /\ disk'.map = Torn
<1> DEFINE to(f) == [disk EXCEPT !.map = f]
<1>1. \A f \in Files : /\ to(f) \in Disks /\ to(f).map = f /\ to(f).entry = disk.entry
                       /\ to(f).catalog = disk.catalog
  BY DEF MapTypeOK, Disks, Catalogs
<1>2. Save(to(doc), to(Torn), checked)
  BY DEF SaveMap
<1> HIDE DEF to
<1> QED
  BY <1>1, <1>2, IdNames, SaveDoes

LEMMA SaveEntryDoes ==
  ASSUME MapTypeOK, NEW id \in Ids, NEW doc \in Files, NEW checked \in BOOLEAN,
         SaveEntry(id, doc, checked)
  PROVE  /\ disk' \in Disks /\ robot' \in Docs \cup {NoDoc} /\ faults' \in 0..FaultBound
         /\ UNCHANGED <<req, editing, version>>
         /\ disk'.map = disk.map /\ disk'.catalog = disk.catalog
         /\ \A i \in Ids \ {id} : disk'.entry[i] = disk.entry[i]
         /\ \/ Wrote /\ disk'.entry[id] = doc
            \/ Refused /\ disk'.entry[id] = disk.entry[id]
            \/ Tore /\ disk'.entry[id] = Torn
<1> DEFINE to(f) == [disk EXCEPT !.entry[id] = f]
<1>1. \A f \in Files : /\ to(f) \in Disks /\ to(f).map = disk.map
                       /\ to(f).catalog = disk.catalog
                       /\ to(f).entry = [disk.entry EXCEPT ![id] = f]
  BY DEF MapTypeOK, Disks, Catalogs
<1>2. \A f \in Files : /\ to(f).entry[id] = f
                       /\ \A i \in Ids \ {id} : to(f).entry[i] = disk.entry[i]
  BY <1>1 DEF MapTypeOK
<1>3. Save(to(doc), to(Torn), checked)
  BY DEF SaveEntry
<1> HIDE DEF to
<1>4. /\ disk' \in Disks /\ robot' \in Docs \cup {NoDoc} /\ faults' \in 0..FaultBound
      /\ UNCHANGED <<req, editing, version>>
      /\ ((Wrote /\ disk' = to(doc)) \/ (Refused /\ disk' = disk) \/ (Tore /\ disk' = to(Torn)))
  <2>1. to(doc) \in Disks /\ to(Torn) \in Disks
    BY <1>1, IdNames
  <2> QED
    BY <1>3, <2>1, SaveDoes
<1>5. \A f \in {doc, Torn} :
         /\ to(f).map = disk.map /\ to(f).catalog = disk.catalog /\ to(f).entry[id] = f
         /\ \A i \in Ids \ {id} : to(f).entry[i] = disk.entry[i]
  BY <1>1, <1>2, IdNames
<1> QED
  BY <1>4, <1>5

LEMMA SaveCatalogDoes ==
  ASSUME MapTypeOK, NEW c \in Catalogs, SaveCatalog(c)
  PROVE  /\ disk' \in Disks /\ robot' \in Docs \cup {NoDoc} /\ faults' \in 0..FaultBound
         /\ UNCHANGED <<req, editing, version>>
         /\ disk'.map = disk.map /\ disk'.entry = disk.entry
         /\ \/ Wrote /\ disk'.catalog = c
            \/ Refused /\ disk'.catalog = disk.catalog
            \/ Tore /\ disk'.catalog = Empty
<1> DEFINE to(d) == [disk EXCEPT !.catalog = d]
<1>1. \A d \in Catalogs : /\ to(d) \in Disks /\ to(d).map = disk.map
                          /\ to(d).entry = disk.entry /\ to(d).catalog = d
  BY DEF MapTypeOK, Disks, Catalogs
<1>2. Save(to(c), to(Empty), TRUE)
  BY DEF SaveCatalog
<1> HIDE DEF to
<1> QED
  BY ZenonT(60), <1>1, <1>2, IdNames, SaveDoes

\* The next step of a request comes after this one, or ends an edit that failed.
LEMMA RequestGoesOn ==
  ASSUME StepInv, todo # <<>>, todo' = Tail(todo) \/ GiveUp \/ todo' = <<>>,
         UNCHANGED editing
  PROVE  /\ Planned(todo', editing')
         /\ \A s : In(s)' => (In(s) \/ s = "reload")
         /\ Head(todo) \in Steps
         /\ todo' # <<>> => \/ todo' = Tail(todo) /\ Fits(Head(todo), Head(todo'))
                            \/ todo' = <<"reload">> /\ editing
<1>1. todo' \in {Tail(todo), <<>>} \/ (todo' = <<"reload">> /\ editing)
  BY DEF GiveUp
<1>2. editing \in BOOLEAN /\ Planned(todo, editing) /\ todo \in Seq(Steps)
  BY DEF StepInv, MapTypeOK
<1>3. CASE todo' = Tail(todo)
  <2>1. \A s : In(s)' => In(s)
    <3>1. \A i \in 1..Len(todo') : i + 1 \in 1..Len(todo) /\ todo'[i] = todo[i + 1]
      BY <1>2, <1>3
    <3> QED
      BY <3>1 DEF In
  <2>2. /\ Planned(Tail(todo), editing) /\ Head(todo) \in Steps
        /\ Tail(todo) # <<>> => Fits(Head(todo), Head(Tail(todo)))
    BY <1>2, PlanGoesOn
  <2> QED
    BY <1>3, <2>1, <2>2
<1>4. CASE todo' = <<>>
  <2>1. \A s : ~In(s)'
    BY <1>4 DEF In
  <2> QED
    BY <1>2, <1>4, <2>1, Plans, PlanGoesOn
<1>5. CASE todo' = <<"reload">> /\ editing
  <2>1. \A i \in 1..Len(todo') : todo'[i] = "reload"
    BY <1>5
  <2>2. editing = TRUE
    BY <1>2, <1>5
  <2> QED
    BY <1>2, <1>5, <2>1, <2>2, Plans, PlanGoesOn DEF In
<1> QED
  BY <1>1, <1>3, <1>4, <1>5

\* What the steps of a request have in common.
RequestStep ==
  \/ WriteMap \/ Rebuild \/ Adopt \/ Snapshot \/ Note \/ WriteEntry \/ List
  \/ Copy \/ Activate \/ Reload \/ Unlist \/ Remove \/ Die

Outcome ==
  /\ disk' \in Disks /\ robot' \in Docs \cup {NoDoc} /\ faults' \in 0..FaultBound
  /\ UNCHANGED <<req, editing, version>>
  /\ todo # <<>> /\ (todo' = Tail(todo) \/ GiveUp \/ todo' = <<>>)

LEMMA RequestDoc ==
  ASSUME StepInv, NEW s \in Sent, Step(s)
  PROVE  req.doc \in Docs /\ req.id \in Ids
<1>1. In(s)
  <2>1. todo \in Seq(Steps) /\ todo # <<>> /\ Head(todo) = s
    BY DEF Step, StepInv, MapTypeOK
  <2>2. Len(todo) \in Nat /\ Len(todo) >= 1 /\ todo[1] = s
    BY <2>1
  <2> QED
    BY <2>2 DEF In
<1> QED
  BY <1>1 DEF StepInv, MapTypeOK

LEMMA CatalogIs ==
  ASSUME MapTypeOK
  PROVE  /\ disk \in Disks /\ disk.map \in Files /\ disk.catalog \in Catalogs
         /\ \A i \in Ids : disk.entry[i] \in Files
         /\ catalog = disk.catalog /\ catalog.maps \subseteq Ids
         /\ catalog.active \in Ids \cup {"none"}
         /\ req.id \in Ids /\ req.doc \in Docs \cup {NoDoc} /\ todo \in Seq(Steps)
         /\ robot \in Docs \cup {NoDoc} /\ faults \in 0..FaultBound /\ editing \in BOOLEAN
  BY DEF MapTypeOK, Disks, Catalogs, catalog

LEMMA StepOutcome ==
  ASSUME StepInv, RequestStep, ListedMapsExist
  PROVE  Outcome
<1>0. MapTypeOK
  BY DEF StepInv
<1>a. Wrote \/ Refused \/ Tore => todo' = Tail(todo) \/ GiveUp \/ todo' = <<>>
  BY DEF Wrote, Refused, Tore
<1>b. Skip \/ Fail => /\ disk' \in Disks /\ robot' \in Docs \cup {NoDoc}
                     /\ faults' \in 0..FaultBound /\ UNCHANGED <<req, editing, version>>
                     /\ (todo' = Tail(todo) \/ GiveUp)
  BY <1>0, CatalogIs DEF Skip, Fail
<1>c. ASSUME NEW doc \in Files, NEW checked \in BOOLEAN, SaveMap(doc, checked), todo # <<>>
      PROVE  Outcome
  BY <1>0, <1>a, <1>c, SaveMapDoes DEF Outcome
<1>d. ASSUME NEW id \in Ids, NEW doc \in Files, NEW checked \in BOOLEAN,
             SaveEntry(id, doc, checked), todo # <<>>
      PROVE  Outcome
  BY <1>0, <1>a, <1>d, SaveEntryDoes DEF Outcome
<1>e. ASSUME NEW c \in Catalogs, SaveCatalog(c), todo # <<>> PROVE Outcome
  BY <1>0, <1>a, <1>e, SaveCatalogDoes DEF Outcome
<1>1. CASE WriteMap
  BY <1>1, <1>c, RequestDoc, IdNames DEF WriteMap, Step, Sent, EditSteps
<1>2. CASE Rebuild
  <2>1. (IF Whole(disk.map) THEN disk.map ELSE Blank) \in Files
    BY <1>0, CatalogIs, IdNames
  <2> QED
    BY <1>2, <2>1, <1>b, <1>d, IdNames DEF Rebuild, Step, Outcome
<1>3. CASE Adopt
  <2>1. (IF catalog.maps # {} THEN catalog
         ELSE [maps |-> {"default"}, active |-> "default"]) \in Catalogs
    BY <1>0, CatalogIs, IdNames DEF Catalogs
  <2> QED
    BY <1>3, <2>1, <1>e DEF Adopt, Step
<1>4. CASE Snapshot
  <2>1. CASE catalog.maps = {}
    BY <1>4, <2>1, <1>b DEF Snapshot, Step, Outcome
  <2>2. CASE catalog.maps # {}
    <3>1. catalog.active \in Ids
      BY <1>0, <2>2, CatalogIs DEF ListedMapsExist, Empty
    <3>2. req.doc \in Files
      BY <1>4, RequestDoc, IdNames DEF Snapshot, Sent, EditSteps
    <3> QED
      BY <1>4, <2>2, <3>1, <3>2, <1>d DEF Snapshot, Step
  <2> QED
    BY <2>1, <2>2
<1>5. CASE Note
  BY <1>0, <1>5, <1>e, CatalogIs DEF Note, Step
<1>6. CASE WriteEntry
  BY <1>6, <1>d, RequestDoc, IdNames DEF WriteEntry, Step, Sent
<1>7. CASE List
  <2>1. [maps |-> catalog.maps \cup {req.id},
         active |-> IF catalog = Empty THEN req.id ELSE catalog.active] \in Catalogs
    BY <1>0, CatalogIs DEF Catalogs
  <2> QED
    BY <1>7, <2>1, <1>e DEF List, Step
<1>8. CASE Copy
  BY <1>0, <1>8, <1>b, <1>c, CatalogIs DEF Copy, Step, Outcome
<1>9. CASE Activate
  <2>1. [catalog EXCEPT !.active = req.id] \in Catalogs
    BY <1>0, CatalogIs DEF Catalogs
  <2> QED
    BY <1>9, <2>1, <1>e DEF Activate, Step
<1>10. CASE Reload
  BY <1>0, <1>10, CatalogIs, LoadedIs DEF Reload, Step, Outcome
<1>11. CASE Unlist
  <2>1. [catalog EXCEPT !.maps = @ \ {req.id}] \in Catalogs
    BY <1>0, CatalogIs DEF Catalogs
  <2> QED
    BY <1>11, <2>1, <1>b, <1>e DEF Unlist, Step, Outcome
<1>12. CASE Remove
  <2>1. [disk EXCEPT !.entry[req.id] = NoDoc] \in Disks
    BY <1>0, CatalogIs, IdNames DEF MapTypeOK, Disks, Catalogs
  <2> QED
    BY <1>0, <1>12, <2>1, <1>b, CatalogIs DEF Remove, Step, Outcome
<1>13. CASE Die
  <2>1. faults' \in 0..FaultBound
    BY <1>0, <1>13, MapStoreAssumption DEF Die, MapTypeOK
  <2> QED
    BY <1>0, <1>13, <2>1, CatalogIs, LoadedIs, IdNames DEF Die, Outcome
<1> QED
  BY <1>1, <1>2, <1>3, <1>4, <1>5, <1>6, <1>7, <1>8, <1>9, <1>10, <1>11, <1>12, <1>13
     DEF RequestStep

\* The requests, by their plans: edits send a document, a new map, too.
Request == ListMaps \/ PostMap \/ ImportGeoJson \/ EditProfile \/ CreateMap \/ ActivateMap
           \/ DeleteMap

Begun(steps, edits) ==
  /\ todo = <<>> /\ todo' = steps /\ editing' = edits
  /\ UNCHANGED <<disk, robot, faults>> /\ version' \in 0..VersionBound
  /\ req' \in [id : Ids, doc : Docs \cup {NoDoc}]

EditBegins ==
  Begun(<<"map">> \o Ensure \o <<"snapshot", "note", "reload">>, TRUE) /\ req'.doc # NoDoc

CreateBegins ==
  /\ \/ Begun(Ensure \o <<"entry", "list">> \o <<>>, FALSE)
     \/ Begun(Ensure \o <<"entry", "list">> \o Activation, FALSE)
  /\ req'.doc # NoDoc

OtherBegins ==
  \/ Begun(Ensure, FALSE) \/ Begun(Activation, FALSE)
  \/ Begun(Ensure \o <<"unlist", "remove">>, FALSE)

LEMMA EditBegun ==
  ASSUME MapTypeOK, NEW of \in Ids, Edit(of)
  PROVE  EditBegins /\ req'.doc.of = of
<1>1. [of |-> of, v |-> version + 1] \in Docs /\ version + 1 \in 0..VersionBound
  BY MapStoreAssumption DEF Edit, MapTypeOK, Docs
<1> QED
  BY <1>1, IdNames DEF Edit, Begin, EditBegins, Begun

LEMMA InEditorIs == ASSUME MapTypeOK, ListedMapsExist PROVE InEditor \in Ids
<1>1. CASE Whole(disk.map)
  BY <1>1 DEF InEditor, Whole
<1>2. CASE ~Whole(disk.map)
  BY <1>2, IdNames, CatalogIs DEF InEditor, ListedMapsExist
<1> QED
  BY <1>1, <1>2

LEMMA RequestBegins ==
  ASSUME MapTypeOK, ListedMapsExist, Request
  PROVE  EditBegins \/ CreateBegins \/ OtherBegins
<1>1. CASE PostMap \/ ImportGeoJson \/ EditProfile
  BY <1>1, InEditorIs, EditBegun DEF PostMap, ImportGeoJson, EditProfile, Whole
<1>2. CASE CreateMap
  <2>1. version' = version + 1 /\ version' \in 0..VersionBound
    BY <1>2, MapStoreAssumption DEF CreateMap, MapTypeOK
  <2>2. PICK id \in Ids, activate \in BOOLEAN :
          Begin(Ensure \o <<"entry", "list">> \o (IF activate THEN Activation ELSE <<>>),
                id, [of |-> id, v |-> version + 1], FALSE)
    BY <1>2 DEF CreateMap
  <2>3. [of |-> id, v |-> version + 1] \in Docs
    BY <2>1 DEF Docs
  <2>4. req' \in [id : Ids, doc : Docs \cup {NoDoc}] /\ req'.doc # NoDoc
    BY <2>2, <2>3, IdNames DEF Begin
  <2>5. CASE activate
    BY <2>1, <2>2, <2>4, <2>5 DEF Begin, Begun, CreateBegins
  <2>6. CASE ~activate
    BY <2>1, <2>2, <2>4, <2>6 DEF Begin, Begun, CreateBegins
  <2> QED
    BY <2>5, <2>6
<1>3. CASE ListMaps \/ ActivateMap \/ DeleteMap
  BY <1>3, IdNames DEF ListMaps, ActivateMap, DeleteMap, Begin, Begun, OtherBegins, MapTypeOK
<1> QED
  BY <1>1, <1>2, <1>3 DEF Request

\* What becomes of the document that is kept.
LEMMA SafeIs ==
  ASSUME StepInv, ListedMapsExist, MapNext
  PROVE  /\ Request \/ RequestStep
         /\ safe' \in Files
         /\ TwoCopies' => safe' = disk'.map
         /\ \/ safe' = safe /\ ~Switches
            \/ safe' = disk'.map /\ (TwoCopies' \/ Step("copy"))
            \/ Step("activate") /\ catalog'.active = req.id /\ safe' = disk.entry[req.id]
<1>0. MapTypeOK
  BY DEF StepInv
<1>1. (Request \/ RequestStep) /\ Remember
  BY DEF MapNext, Request, RequestStep
<1>2. disk' \in Disks
  <2>1. Request => UNCHANGED disk
    BY <1>0, RequestBegins DEF EditBegins, CreateBegins, OtherBegins, Begun
  <2> QED
    BY <1>0, <1>1, <2>1, StepOutcome, CatalogIs DEF Outcome
<1>3. safe \in Files /\ disk'.map \in Files /\ disk.entry[req.id] \in Files
  BY <1>0, <1>2, CatalogIs DEF MapTypeOK, Disks
<1>4. /\ TwoCopies' => safe' = disk'.map
      /\ ~TwoCopies' /\ Switches => safe' = disk.entry[req.id]
      /\ ~TwoCopies' /\ ~Switches => safe' = safe
  BY <1>1 DEF Remember
<1>5. Switches => \/ Step("copy") /\ disk'.map = disk.entry[req.id]
                  \/ Step("activate") /\ catalog'.active = req.id
  BY DEF Switches
<1> QED
  BY <1>1, <1>3, <1>4, <1>5

LEMMA BeginKeepsSteps ==
  ASSUME StepInv, safe' \in Files, EditBegins \/ CreateBegins \/ OtherBegins
  PROVE  StepInv' /\ todo' # <<>> /\ Head(todo') \in {"map", "rebuild"}
<1>1. \A steps, edits : Planned(steps, edits) /\ edits \in BOOLEAN /\ Begun(steps, edits) =>
        MapTypeOK' /\ Planned(todo', editing')
  BY DEF Planned, Begun, StepInv, MapTypeOK, catalog
<1>2. MapTypeOK' /\ Planned(todo', editing') /\ Head(todo') \in {"map", "rebuild"}
  BY <1>1, Plans, PlanBegins DEF EditBegins, CreateBegins, OtherBegins, Begun
<1>3. OtherBegins => \A s \in Sent : ~In(s)'
  <2> SUFFICES ASSUME OtherBegins, NEW s \in Sent, In(s)' PROVE FALSE
    OBVIOUS
  <2>1. editing' = FALSE /\ ~In("entry")'
    BY PlanBegins DEF OtherBegins, Begun, In
  <2> QED
    BY <1>2, <2>1 DEF Sent, Planned, In
<1>4. todo' # <<>>
  <2>1. Len(Ensure) # 0 /\ Len(Activation) # 0 /\ Len(Ensure \o <<"unlist", "remove">>) # 0
        /\ Len(Ensure \o <<"entry", "list">> \o <<>>) # 0
        /\ Len(Ensure \o <<"entry", "list">> \o Activation) # 0
        /\ Len(<<"map">> \o Ensure \o <<"snapshot", "note", "reload">>) # 0
    BY DEF Ensure, Activation
  <2>2. Len(todo') # 0
    BY <2>1 DEF EditBegins, CreateBegins, OtherBegins, Begun
  <2> QED
    BY <2>2
<1> QED
  BY <1>2, <1>3, <1>4 DEF StepInv, EditBegins, CreateBegins

LEMMA OutcomeKeepsSteps ==
  ASSUME StepInv, safe' \in Files, Outcome
  PROVE  /\ StepInv'
         /\ todo' # <<>> => \/ todo' = Tail(todo) /\ Fits(Head(todo), Head(todo'))
                            \/ todo' = <<"reload">> /\ editing
<1>1. /\ Planned(todo', editing')
      /\ \A s : In(s)' => (In(s) \/ s = "reload")
      /\ todo' # <<>> => \/ todo' = Tail(todo) /\ Fits(Head(todo), Head(todo'))
                         \/ todo' = <<"reload">> /\ editing
  BY RequestGoesOn DEF Outcome
<1>2. MapTypeOK'
  BY <1>1 DEF Outcome, StepInv, MapTypeOK, Planned, Disks, Catalogs
<1>3. "reload" \notin Sent
  BY DEF Sent, EditSteps
<1> QED
  BY <1>1, <1>2, <1>3 DEF StepInv, Outcome

----------------------------------------------------------------------------
(* The maps: what the steps write.                                         *)

OnlyMap(doc) ==
  /\ disk'.entry = disk.entry /\ disk'.catalog = disk.catalog
  /\ \/ Wrote /\ disk'.map = doc
     \/ Refused /\ disk'.map = disk.map
     \/ Tore /\ disk'.map = Torn

OnlyEntry(id, doc) ==
  /\ disk'.map = disk.map /\ disk'.catalog = disk.catalog
  /\ \A i \in Ids \ {id} : disk'.entry[i] = disk.entry[i]
  /\ \/ Wrote /\ disk'.entry[id] = doc
     \/ Refused /\ disk'.entry[id] = disk.entry[id]
     \/ Tore /\ disk'.entry[id] = Torn

OnlyCatalog(c) ==
  /\ disk'.map = disk.map /\ disk'.entry = disk.entry
  /\ \/ Wrote /\ disk'.catalog = c
     \/ Refused /\ disk'.catalog = disk.catalog
     \/ Tore /\ disk'.catalog = Empty

\* The disk is left alone, and the request goes on, or ends.
Skips   == UNCHANGED <<disk, robot, faults>> /\ todo' = Tail(todo)
Returns == UNCHANGED <<disk, robot, faults>> /\ GiveUp

LEMMA Effects ==
  ASSUME StepInv, ListedMapsExist
  PROVE  /\ WriteMap => Step("map") /\ req.doc \in Docs /\ OnlyMap(req.doc)
         /\ Rebuild =>
              /\ Step("rebuild")
              /\ \/ catalog.maps # {} /\ Skips
                 \/ catalog.maps = {} /\ OnlyEntry("default", IF Whole(disk.map) THEN disk.map ELSE Blank)
         /\ Adopt =>
              /\ Step("adopt")
              /\ \/ catalog.maps # {} /\ OnlyCatalog(catalog)
                 \/ catalog.maps = {} /\ OnlyCatalog([maps |-> {"default"}, active |-> "default"])
         /\ Snapshot =>
              /\ Step("snapshot") /\ req.doc \in Docs
              /\ \/ catalog.maps = {} /\ Returns
                 \/ catalog.maps # {} /\ OnlyEntry(catalog.active, req.doc)
         /\ Note => Step("note") /\ OnlyCatalog(catalog)
         /\ WriteEntry => Step("entry") /\ req.doc \in Docs /\ OnlyEntry(req.id, req.doc)
         /\ List =>
              /\ Step("list")
              /\ OnlyCatalog([maps |-> catalog.maps \cup {req.id},
                              active |-> IF catalog = Empty THEN req.id ELSE catalog.active])
         /\ Copy =>
              /\ Step("copy")
              /\ \/ Returns
                 \/ /\ req.id \in catalog.maps /\ disk.entry[req.id] # NoDoc
                    /\ OnlyMap(disk.entry[req.id])
         /\ Activate => Step("activate") /\ OnlyCatalog([maps |-> catalog.maps, active |-> req.id])
         /\ Reload => /\ Step("reload") /\ UNCHANGED <<disk, faults>> /\ todo' = Tail(todo)
                      /\ robot' = Loaded(disk, robot)
         /\ Unlist =>
              /\ Step("unlist")
              /\ \/ Returns
                 \/ /\ req.id \in catalog.maps \ {catalog.active}
                    /\ OnlyCatalog([maps |-> catalog.maps \ {req.id}, active |-> catalog.active])
         /\ Remove =>
              /\ Step("remove")
              /\ \/ Skips
                 \/ OnlyEntry(req.id, NoDoc) /\ Wrote
         /\ Die => /\ faults' = faults + 1 /\ todo' = <<>> /\ UNCHANGED disk
<1>0. MapTypeOK
  BY DEF StepInv
<1>a. ASSUME NEW doc \in Files, NEW checked \in BOOLEAN, SaveMap(doc, checked)
      PROVE  OnlyMap(doc)
  BY <1>0, <1>a, SaveMapDoes DEF OnlyMap
<1>b. ASSUME NEW id \in Ids, NEW doc \in Files, NEW checked \in BOOLEAN,
             SaveEntry(id, doc, checked)
      PROVE  OnlyEntry(id, doc)
  BY <1>0, <1>b, SaveEntryDoes DEF OnlyEntry
<1>c. ASSUME NEW c \in Catalogs, SaveCatalog(c) PROVE OnlyCatalog(c)
  BY <1>0, <1>c, SaveCatalogDoes DEF OnlyCatalog
<1>d. \A s \in Sent : Step(s) => req.doc \in Docs /\ req.doc \in Files /\ req.id \in Ids
  BY RequestDoc, IdNames
<1>e. "map" \in Sent /\ "snapshot" \in Sent /\ "entry" \in Sent
  BY DEF Sent, EditSteps
<1> USE DEF Skips, Returns
<1>1. WriteMap => Step("map") /\ req.doc \in Docs /\ OnlyMap(req.doc)
  BY <1>a, <1>d, <1>e DEF WriteMap
<1>2. ASSUME Rebuild
      PROVE  /\ Step("rebuild")
             /\ \/ catalog.maps # {} /\ Skips
                \/ catalog.maps = {} /\ OnlyEntry("default", IF Whole(disk.map) THEN disk.map ELSE Blank)
  <2>1. (IF Whole(disk.map) THEN disk.map ELSE Blank) \in Files
    BY <1>0, CatalogIs, IdNames
  <2> QED
    BY <1>2, <2>1, <1>b, IdNames DEF Rebuild, Skip
<1>3. ASSUME Adopt
      PROVE  /\ Step("adopt")
             /\ \/ catalog.maps # {} /\ OnlyCatalog(catalog)
                \/ catalog.maps = {} /\ OnlyCatalog([maps |-> {"default"}, active |-> "default"])
  <2>1. catalog \in Catalogs /\ [maps |-> {"default"}, active |-> "default"] \in Catalogs
    BY <1>0, CatalogIs, IdNames DEF Catalogs
  <2>2. CASE catalog.maps # {}
    BY <1>3, <2>1, <2>2, <1>c DEF Adopt
  <2>3. CASE catalog.maps = {}
    BY <1>3, <2>1, <2>3, <1>c DEF Adopt
  <2> QED
    BY <2>2, <2>3
<1>4. ASSUME Snapshot
      PROVE  /\ Step("snapshot") /\ req.doc \in Docs
             /\ \/ catalog.maps = {} /\ Returns
                \/ catalog.maps # {} /\ OnlyEntry(catalog.active, req.doc)
  <2>1. CASE catalog.maps = {}
    BY <1>4, <2>1, <1>d, <1>e DEF Snapshot, Fail
  <2>2. CASE catalog.maps # {}
    <3>1. catalog.active \in Ids
      BY <1>0, <2>2, CatalogIs DEF ListedMapsExist, Empty
    <3> QED
      BY <1>4, <2>2, <3>1, <1>b, <1>d, <1>e DEF Snapshot
  <2> QED
    BY <2>1, <2>2
<1>5. Note => Step("note") /\ OnlyCatalog(catalog)
  BY <1>0, <1>c, CatalogIs DEF Note
<1>6. WriteEntry => Step("entry") /\ req.doc \in Docs /\ OnlyEntry(req.id, req.doc)
  BY <1>b, <1>d, <1>e DEF WriteEntry
<1>7. ASSUME List
      PROVE  /\ Step("list")
             /\ OnlyCatalog([maps |-> catalog.maps \cup {req.id},
                             active |-> IF catalog = Empty THEN req.id ELSE catalog.active])
  <2>1. [maps |-> catalog.maps \cup {req.id},
         active |-> IF catalog = Empty THEN req.id ELSE catalog.active] \in Catalogs
    BY <1>0, CatalogIs DEF Catalogs
  <2> QED
    BY <1>7, <2>1, <1>c DEF List
<1>8. Copy => /\ Step("copy")
              /\ \/ Returns
                 \/ /\ req.id \in catalog.maps /\ disk.entry[req.id] # NoDoc
                    /\ OnlyMap(disk.entry[req.id])
  BY <1>0, <1>a, CatalogIs DEF Copy, Fail
<1>9. ASSUME Activate
      PROVE  Step("activate") /\ OnlyCatalog([maps |-> catalog.maps, active |-> req.id])
  <2>1. /\ [catalog EXCEPT !.active = req.id] = [maps |-> catalog.maps, active |-> req.id]
        /\ [maps |-> catalog.maps, active |-> req.id] \in Catalogs
    BY <1>0, CatalogIs DEF Catalogs
  <2> QED
    BY <1>9, <2>1, <1>c DEF Activate
<1>10. Reload => /\ Step("reload") /\ UNCHANGED <<disk, faults>> /\ todo' = Tail(todo)
                 /\ robot' = Loaded(disk, robot)
  BY DEF Reload
<1>11. ASSUME Unlist
       PROVE  /\ Step("unlist")
              /\ \/ Returns
                 \/ /\ req.id \in catalog.maps \ {catalog.active}
                    /\ OnlyCatalog([maps |-> catalog.maps \ {req.id}, active |-> catalog.active])
  <2>1. [catalog EXCEPT !.maps = @ \ {req.id}]
          = [maps |-> catalog.maps \ {req.id}, active |-> catalog.active]
    <3>1. \A c \in Catalogs : \A m : [c EXCEPT !.maps = m] = [maps |-> m, active |-> c.active]
      BY DEF Catalogs
    <3> QED
      BY <1>0, <3>1, CatalogIs
  <2>2. [maps |-> catalog.maps \ {req.id}, active |-> catalog.active] \in Catalogs
    <3>1. catalog.maps \ {req.id} \subseteq Ids /\ catalog.active \in Ids \cup {"none"}
      BY <1>0, CatalogIs
    <3> QED
      BY <3>1 DEF Catalogs
  <2> QED
    BY <1>11, <2>1, <2>2, <1>c DEF Unlist, Fail
<1>12. ASSUME Remove
       PROVE  /\ Step("remove")
              /\ \/ Skips
                 \/ OnlyEntry(req.id, NoDoc) /\ Wrote
  <2>1. CASE Skip
    BY <1>12, <2>1 DEF Remove, Skip
  <2>2. CASE disk' = [disk EXCEPT !.entry[req.id] = NoDoc] /\ ~Skip
    <3>1. /\ disk'.map = disk.map /\ disk'.catalog = disk.catalog
          /\ disk'.entry = [disk.entry EXCEPT ![req.id] = NoDoc]
      BY <1>0, <2>2 DEF MapTypeOK, Catalogs
    <3>2. disk'.entry[req.id] = NoDoc /\ \A i \in Ids \ {req.id} : disk'.entry[i] = disk.entry[i]
      BY <1>0, <3>1 DEF MapTypeOK
    <3> QED
      BY <1>12, <2>2, <3>1, <3>2 DEF Remove, OnlyEntry, Wrote
  <2> QED
    BY <1>12, <2>1, <2>2 DEF Remove
<1>13. Die => faults' = faults + 1 /\ todo' = <<>> /\ UNCHANGED disk
  BY DEF Die
<1> QED
  BY <1>1, <1>2, <1>3, <1>4, <1>5, <1>6, <1>7, <1>8, <1>9, <1>10, <1>11, <1>12, <1>13

----------------------------------------------------------------------------
(* The maps: every listed map has a file.                                  *)

\* Before the catalog is written, what it will say is so; and the file that is
\* removed is not listed any more.
ListedInv ==
  /\ StepInv
  /\ ListedMapsExist
  /\ Step("adopt") /\ catalog.maps = {} => disk.entry["default"] # NoDoc
  /\ Step("list") => disk.entry[req.id] # NoDoc
  /\ Step("activate") => req.id \in catalog.maps
  /\ Step("remove") => req.id \notin catalog.maps

\* What is next once a step has been done.
LEMMA NextStep ==
  ASSUME StepInv, ListedMapsExist, safe' \in Files, RequestStep
  PROVE  /\ StepInv'
         /\ Step("adopt")'    => Step("rebuild") /\ todo' = Tail(todo)
         /\ Step("list")'     => Step("entry")   /\ todo' = Tail(todo)
         /\ Step("activate")' => Step("copy")    /\ todo' = Tail(todo)
         /\ Step("remove")'   => Step("unlist")  /\ todo' = Tail(todo)
<1>1. Outcome
  BY StepOutcome
<1>2. /\ StepInv' /\ todo # <<>>
      /\ todo' # <<>> => \/ todo' = Tail(todo) /\ Fits(Head(todo), Head(todo'))
                         \/ todo' = <<"reload">> /\ editing
  BY <1>1, OutcomeKeepsSteps DEF Outcome
<1>3. todo' = <<"reload">> => Head(todo') = "reload"
  OBVIOUS
<1> QED
  BY <1>2, <1>3 DEF Step, Fits

LEMMA EmptyIs ==
  ASSUME MapTypeOK, ListedMapsExist
  PROVE  (catalog = Empty <=> catalog.maps = {}) /\ (catalog.maps # {} => catalog.active \in catalog.maps)
  BY DEF ListedMapsExist, Empty

LEMMA ListedNext == ListedInv /\ [MapNext]_mapVars => ListedInv'
<1> SUFFICES ASSUME ListedInv, [MapNext]_mapVars PROVE ListedInv'
  OBVIOUS
<1>0. /\ MapTypeOK /\ StepInv /\ ListedMapsExist
      /\ (catalog = Empty <=> catalog.maps = {})
      /\ (catalog.maps # {} => catalog.active \in catalog.maps)
  BY EmptyIs DEF ListedInv, StepInv
<1>1. CASE UNCHANGED mapVars
  <2>1. StepInv'
    BY <1>1 DEF ListedInv, StepInv, MapTypeOK, In, mapVars, catalog
  <2> QED
    BY <1>1, <2>1 DEF ListedInv, ListedMapsExist, Step, mapVars, catalog
<1>2. ASSUME MapNext PROVE safe' \in Files
  BY <1>0, <1>2, SafeIs
<1>3. ASSUME MapNext, Request PROVE ListedInv'
  <2>1. StepInv' /\ todo' # <<>> /\ Head(todo') \in {"map", "rebuild"}
    BY <1>0, <1>2, <1>3, RequestBegins, BeginKeepsSteps
  <2>2. UNCHANGED disk
    BY <1>0, <1>3, RequestBegins DEF EditBegins, CreateBegins, OtherBegins, Begun
  <2> QED
    BY <2>1, <2>2 DEF ListedInv, ListedMapsExist, Step, catalog
<1>4. ASSUME MapNext, RequestStep
      PROVE  /\ StepInv' /\ UNCHANGED req /\ req.id \in Ids
             /\ Step("adopt")'    => Step("rebuild") /\ todo' = Tail(todo)
             /\ Step("list")'     => Step("entry")   /\ todo' = Tail(todo)
             /\ Step("activate")' => Step("copy")    /\ todo' = Tail(todo)
             /\ Step("remove")'   => Step("unlist")  /\ todo' = Tail(todo)
  BY <1>0, <1>2, <1>4, NextStep, StepOutcome, CatalogIs DEF Outcome
<1>5. catalog' = disk'.catalog /\ catalog = disk.catalog
  BY DEF catalog
<1>6. CASE MapNext /\ WriteMap
  <2>1. OnlyMap(req.doc) /\ Step("map") /\ RequestStep
    BY <1>0, <1>6, Effects DEF RequestStep
  <2> QED
    BY <1>0, <1>4, <1>5, <1>6, <2>1 DEF OnlyMap, ListedInv, ListedMapsExist, Step
<1>7. CASE MapNext /\ Rebuild
  <2>1. Step("rebuild") /\ RequestStep
    BY <1>0, <1>7, Effects DEF RequestStep
  <2>2. CASE Skips /\ catalog.maps # {}
    BY <1>0, <1>4, <1>5, <1>7, <2>1, <2>2 DEF Skips, ListedInv, ListedMapsExist, Step
  <2>3. CASE catalog.maps = {} /\ OnlyEntry("default", IF Whole(disk.map) THEN disk.map ELSE Blank)
    <3>1. Refused \/ disk'.entry["default"] # NoDoc
      <4>1. (IF Whole(disk.map) THEN disk.map ELSE Blank) \in Docs
        BY <1>0, CatalogIs, IdNames
      <4>2. disk'.entry["default"] \in Docs \/ disk'.entry["default"] = Torn \/ Refused
        BY <2>3, <4>1 DEF OnlyEntry
      <4> QED
        BY <4>2, IdNames
    <3>2. Refused => todo' \in {<<>>, <<"reload">>}
      BY <2>1 DEF Refused, GiveUp
    <3>3. catalog' = catalog /\ (Wrote \/ Tore \/ Refused)
      BY <1>5, <2>3 DEF OnlyEntry
    <3> QED
      BY <1>0, <1>4, <1>7, <2>1, <2>3, <3>1, <3>2, <3>3 DEF ListedInv, ListedMapsExist, Step
  <2> QED
    BY <1>0, <1>7, <2>2, <2>3, Effects
<1>8. CASE MapNext /\ Adopt
  <2>1. Step("adopt") /\ RequestStep
    BY <1>0, <1>8, Effects DEF RequestStep
  <2>2. \/ catalog.maps # {} /\ OnlyCatalog(catalog)
        \/ catalog.maps = {} /\ OnlyCatalog([maps |-> {"default"}, active |-> "default"])
    BY <1>0, <1>8, Effects
  <2>3. catalog' \in {catalog, Empty} \/ (catalog.maps = {} /\ catalog' = [maps |-> {"default"}, active |-> "default"])
    BY <1>5, <2>2 DEF OnlyCatalog
  <2>4. disk'.entry = disk.entry
    BY <2>2 DEF OnlyCatalog
  <2> QED
    BY <1>0, <1>4, <1>8, <2>1, <2>3, <2>4 DEF ListedInv, ListedMapsExist, Step
<1>9. CASE MapNext /\ Snapshot
  <2>1. Step("snapshot") /\ RequestStep /\ req.doc # NoDoc
    BY <1>0, <1>9, Effects, IdNames DEF RequestStep
  <2>2. CASE Returns
    BY <1>0, <1>4, <1>5, <1>9, <2>1, <2>2 DEF Returns, ListedInv, ListedMapsExist, Step
  <2>3. CASE catalog.maps # {} /\ OnlyEntry(catalog.active, req.doc)
    <3>1. \A m \in catalog.maps : m \in Ids /\ disk'.entry[m] # NoDoc
      BY <1>0, <2>1, <2>3, CatalogIs, IdNames DEF OnlyEntry, ListedMapsExist
    <3> QED
      BY <1>0, <1>4, <1>5, <1>9, <2>1, <2>3, <3>1 DEF OnlyEntry, ListedInv, ListedMapsExist, Step
  <2> QED
    BY <1>0, <1>9, <2>2, <2>3, Effects
<1>10. CASE MapNext /\ Note
  <2>1. Step("note") /\ RequestStep /\ OnlyCatalog(catalog)
    BY <1>0, <1>10, Effects DEF RequestStep
  <2> QED
    BY <1>0, <1>4, <1>5, <1>10, <2>1 DEF OnlyCatalog, ListedInv, ListedMapsExist, Step
<1>11. CASE MapNext /\ WriteEntry
  <2>1. Step("entry") /\ RequestStep /\ req.doc # NoDoc /\ OnlyEntry(req.id, req.doc)
    BY <1>0, <1>11, Effects, IdNames DEF RequestStep
  <2>2. \A m \in catalog.maps : m \in Ids /\ disk'.entry[m] # NoDoc
    BY <1>0, <2>1, CatalogIs, IdNames DEF OnlyEntry, ListedMapsExist
  <2>3. \/ disk'.entry[req.id] # NoDoc
        \/ todo' \in {<<>>, <<"reload">>}
    BY <2>1, IdNames DEF OnlyEntry, Refused, GiveUp
  <2> QED
    BY <1>0, <1>4, <1>5, <1>11, <2>1, <2>2, <2>3 DEF OnlyEntry, ListedInv, ListedMapsExist, Step
<1>12. CASE MapNext /\ List
  <2>1. /\ Step("list") /\ RequestStep
        /\ OnlyCatalog([maps |-> catalog.maps \cup {req.id},
                        active |-> IF catalog = Empty THEN req.id ELSE catalog.active])
    BY <1>0, <1>12, Effects DEF RequestStep
  <2>2. disk.entry[req.id] # NoDoc
    BY <2>1 DEF ListedInv
  <2> QED
    BY <1>0, <1>4, <1>5, <1>12, <2>1, <2>2 DEF OnlyCatalog, ListedInv, ListedMapsExist, Step
<1>13. CASE MapNext /\ Copy
  <2>1. Step("copy") /\ RequestStep
    BY <1>0, <1>13, Effects DEF RequestStep
  <2>2. \/ Returns
        \/ req.id \in catalog.maps /\ OnlyMap(disk.entry[req.id])
    BY <1>0, <1>13, Effects
  <2>3. /\ disk'.entry = disk.entry /\ catalog' = catalog
        /\ req.id \in catalog.maps \/ todo' \in {<<>>, <<"reload">>}
    BY <1>5, <2>2 DEF Returns, OnlyMap, GiveUp
  <2> QED
    BY <1>0, <1>4, <1>13, <2>1, <2>3 DEF ListedInv, ListedMapsExist, Step
<1>14. CASE MapNext /\ Activate
  <2>1. /\ Step("activate") /\ RequestStep
        /\ OnlyCatalog([maps |-> catalog.maps, active |-> req.id])
    BY <1>0, <1>14, Effects DEF RequestStep
  <2>2. req.id \in catalog.maps
    BY <2>1 DEF ListedInv
  <2> QED
    BY <1>0, <1>4, <1>5, <1>14, <2>1, <2>2 DEF OnlyCatalog, ListedInv, ListedMapsExist, Step
<1>15. CASE MapNext /\ Reload
  <2>1. Step("reload") /\ RequestStep /\ UNCHANGED disk
    BY <1>0, <1>15, Effects DEF RequestStep
  <2> QED
    BY <1>0, <1>4, <1>5, <1>15, <2>1 DEF ListedInv, ListedMapsExist, Step
<1>16. CASE MapNext /\ Unlist
  <2>1. Step("unlist") /\ RequestStep
    BY <1>0, <1>16, Effects DEF RequestStep
  <2>2. \/ Returns
        \/ /\ req.id \in catalog.maps \ {catalog.active}
           /\ OnlyCatalog([maps |-> catalog.maps \ {req.id}, active |-> catalog.active])
    BY <1>0, <1>16, Effects
  <2>3. CASE Returns
    BY <1>0, <1>4, <1>5, <1>16, <2>1, <2>3 DEF Returns, GiveUp, ListedInv, ListedMapsExist, Step
  <2>4. CASE /\ req.id \in catalog.maps \ {catalog.active}
             /\ OnlyCatalog([maps |-> catalog.maps \ {req.id}, active |-> catalog.active])
    <3>1. \/ catalog' = [maps |-> catalog.maps \ {req.id}, active |-> catalog.active]
          \/ catalog' = Empty
          \/ catalog' = catalog /\ todo' \in {<<>>, <<"reload">>}
      BY <1>5, <2>4 DEF OnlyCatalog, Refused, GiveUp
    <3>2. disk'.entry = disk.entry
      BY <2>4 DEF OnlyCatalog
    <3> QED
      BY <1>0, <1>4, <1>16, <2>1, <2>4, <3>1, <3>2 DEF ListedInv, ListedMapsExist, Step, Empty
  <2> QED
    BY <2>2, <2>3, <2>4
<1>17. CASE MapNext /\ Remove
  <2>1. Step("remove") /\ RequestStep /\ req.id \notin catalog.maps
    BY <1>0, <1>17, Effects DEF RequestStep, ListedInv
  <2>2. CASE Skips
    BY <1>0, <1>4, <1>5, <1>17, <2>1, <2>2 DEF Skips, ListedInv, ListedMapsExist, Step
  <2>3. CASE OnlyEntry(req.id, NoDoc)
    <3>1. \A m \in catalog.maps : disk'.entry[m] # NoDoc
      BY <1>0, <2>1, <2>3, CatalogIs DEF OnlyEntry, ListedMapsExist
    <3> QED
      BY <1>0, <1>4, <1>5, <1>17, <2>1, <2>3, <3>1 DEF OnlyEntry, ListedInv, ListedMapsExist, Step
  <2> QED
    BY <1>0, <1>17, <2>2, <2>3, Effects
<1>18. CASE MapNext /\ Die
  <2>1. RequestStep /\ todo' = <<>> /\ UNCHANGED disk
    BY <1>0, <1>18, Effects DEF RequestStep
  <2> QED
    BY <1>0, <1>4, <1>5, <1>18, <2>1 DEF ListedInv, ListedMapsExist, Step
<1> QED
  BY <1>1, <1>3, <1>6, <1>7, <1>8, <1>9, <1>10, <1>11, <1>12, <1>13, <1>14, <1>15, <1>16,
     <1>17, <1>18 DEF MapNext, Request

LEMMA ListedInit == MapInit => ListedInv
<1> SUFFICES ASSUME MapInit PROVE ListedInv
  OBVIOUS
<1>1. /\ disk.catalog = Empty /\ disk.map \in Files /\ disk \in Disks
  <2>1. PICK m \in {NoDoc, Blank} :
          disk = [map |-> m, entry |-> [i \in Ids |-> NoDoc], catalog |-> Empty]
    BY DEF MapInit
  <2>2. m \in Files
    BY IdNames
  <2>3. [i \in Ids |-> NoDoc] \in [Ids -> Files] /\ Empty \in Catalogs
    BY IdNames
  <2> QED
    BY <2>1, <2>2, <2>3 DEF Disks
<1>2. MapTypeOK
  <2>1. /\ robot \in Docs \cup {NoDoc} /\ req \in [id : Ids, doc : Docs \cup {NoDoc}]
        /\ version \in 0..VersionBound /\ faults \in 0..FaultBound
    BY IdNames, MapStoreAssumption DEF MapInit
  <2>2. todo \in Seq(Steps)
    BY EmptySeq DEF MapInit
  <2>3. editing \in BOOLEAN /\ safe \in Files
    BY IdNames DEF MapInit
  <2> QED
    BY <1>1, <2>1, <2>2, <2>3 DEF MapTypeOK, Disks, Catalogs
<1>3. Planned(todo, editing)
  <2>1. todo = <<>> /\ editing = FALSE
    BY DEF MapInit
  <2> QED
    BY <2>1, Plans, Zenon
<1>4. \A s : ~In(s)
  BY DEF MapInit, In
<1> QED
  BY <1>1, <1>2, <1>3, <1>4 DEF MapInit, ListedInv, StepInv, ListedMapsExist, Step, catalog, Empty

\* Whatever writes fail or are torn, and wherever the process dies, a catalog that
\* can be read names maps that exist, the active one among them: for any maps and
\* any number of faults and requests.
THEOREM ListedMapsAlwaysExist == MapSpec => []ListedMapsExist
<1>1. ListedInv => ListedMapsExist
  BY DEF ListedInv
<1> QED
  BY <1>1, ListedInit, ListedNext, PTL DEF MapSpec

----------------------------------------------------------------------------
(* The maps: without a fault the copies agree.                             *)

\* An edit has steps of its own.
LEMMA WhoseStep ==
  ASSUME NEW s, NEW edits, Planned(s, edits), s # <<>>
  PROVE  /\ Head(s) \in {"map", "snapshot", "note"} => edits
         /\ Head(s) \in {"entry", "list", "copy", "activate", "unlist", "remove"} => ~edits
<1>1. s \in Seq(Steps)
  BY DEF Planned
<1>2. 1 \in 1..Len(s) /\ Head(s) = s[1]
  BY <1>1
<1> QED
  BY <1>2 DEF Planned, EditSteps, OtherSteps

\* What follows a step that was done.
LEMMA AfterStep ==
  ASSUME StepInv, todo # <<>>, todo' = Tail(todo), UNCHANGED editing
  PROVE  /\ Step("map") => editing /\ Step("rebuild")'
         /\ Step("rebuild") => Step("adopt")' \/ (~editing /\ todo' = <<>>)
         /\ Step("adopt") => \/ editing /\ Step("snapshot")'
                             \/ ~editing /\ (todo' = <<>> \/ Step("entry")' \/ Step("copy")' \/ Step("unlist")')
         /\ Step("snapshot") => editing /\ Step("note")'
         /\ Step("note") => editing /\ Step("reload")'
         /\ Step("entry") => ~editing /\ (todo' = <<>> \/ Step("list")')
         /\ Step("list") => ~editing /\ (todo' = <<>> \/ Step("rebuild")') /\ ~In("entry")'
         /\ Step("copy") => ~editing /\ Step("activate")'
         /\ Step("activate") => ~editing /\ Step("reload")'
         /\ Step("unlist") => ~editing /\ (todo' = <<>> \/ Step("remove")')
         /\ Step("remove") => ~editing /\ todo' = <<>>
         /\ Step("reload") => todo' = <<>>
<1>1. /\ Planned(todo, editing) /\ editing \in BOOLEAN /\ todo \in Seq(Steps)
  BY DEF StepInv, MapTypeOK
<1>2. /\ todo' # <<>> => Fits(Head(todo), Head(todo')) /\ Head(todo') \in Steps
      /\ editing \/ Head(todo) \in {"copy", "activate"} => Head(todo) = "reload" \/ todo' # <<>>
      /\ Head(todo) = "reload" => todo' = <<>>
      /\ Planned(todo', editing)
  <2>1. /\ Planned(Tail(todo), editing)
        /\ Tail(todo) # <<>> => Fits(Head(todo), Head(Tail(todo)))
        /\ editing \/ Head(todo) \in {"copy", "activate"} => Head(todo) = "reload" \/ Tail(todo) # <<>>
        /\ Head(todo) = "reload" => Tail(todo) = <<>>
    BY <1>1, PlanGoesOn
  <2>2. Tail(todo) # <<>> => Head(Tail(todo)) \in Steps
    <3>1. Tail(todo) \in Seq(Steps)
      BY <1>1
    <3> QED
      BY <3>1
  <2> QED
    BY <2>1, <2>2
<1>3. /\ Head(todo) \in {"map", "snapshot", "note"} => editing
      /\ Head(todo) \in {"entry", "list", "copy", "activate", "unlist", "remove"} => ~editing
      /\ todo' # <<>> /\ Head(todo') \in {"snapshot", "note"} => editing
      /\ todo' # <<>> /\ Head(todo') \in {"entry", "copy", "unlist"} => ~editing
  BY <1>1, <1>2, WhoseStep
<1>4. Head(todo) = "list" => ~In("entry")'
  <2> SUFFICES ASSUME Head(todo) = "list", NEW i \in 1..Len(todo'), todo'[i] = "entry"
               PROVE  FALSE
    BY DEF In
  <2>1. 1 \in 1..Len(todo) /\ i + 1 \in 1..Len(todo) /\ 1 < i + 1
        /\ todo[1] = "list" /\ todo[i + 1] = "entry"
    BY <1>1
  <2> QED
    BY <1>1, <2>1 DEF Planned
<1> USE DEF Step, Fits
<1>5. /\ Step("map") => editing /\ Step("rebuild")'
      /\ Step("rebuild") => Step("adopt")' \/ (~editing /\ todo' = <<>>)
  BY <1>2, <1>3 DEF Steps
<1>6. Step("adopt") => \/ editing /\ Step("snapshot")'
                       \/ ~editing /\ (todo' = <<>> \/ Step("entry")' \/ Step("copy")' \/ Step("unlist")')
  BY <1>2, <1>3 DEF Steps
<1>7. /\ Step("snapshot") => editing /\ Step("note")'
      /\ Step("note") => editing /\ Step("reload")'
  BY <1>2, <1>3 DEF Steps
<1>8. /\ Step("entry") => ~editing /\ (todo' = <<>> \/ Step("list")')
      /\ Step("list") => ~editing /\ (todo' = <<>> \/ Step("rebuild")') /\ ~In("entry")'
  BY <1>2, <1>3, <1>4 DEF Steps
<1>9. /\ Step("copy") => ~editing /\ Step("activate")'
      /\ Step("activate") => ~editing /\ Step("reload")'
  BY <1>2, <1>3 DEF Steps
<1>10. /\ Step("unlist") => ~editing /\ (todo' = <<>> \/ Step("remove")')
       /\ Step("remove") => ~editing /\ todo' = <<>>
       /\ Step("reload") => todo' = <<>>
  BY <1>2, <1>3 DEF Steps
<1> QED
  BY <1>5, <1>6, <1>7, <1>8, <1>9, <1>10

\* The map an edit is about.
Edited == IF catalog = Empty THEN "default" ELSE catalog.active

\* A file describes the map it is named for, also while it is not listed yet.
Named ==
  /\ \A m \in catalog.maps : disk.entry[m].of = m
  /\ Step("list") => disk.entry[req.id].of = req.id
  /\ Step("adopt") /\ catalog = Empty => disk.entry["default"].of = "default"
  /\ disk.map # NoDoc => disk.map.of = IF Step("activate") THEN req.id ELSE Edited

\* What is sent is about the map it goes to, and a new map is new.
Addressed ==
  /\ todo # <<>> /\ editing => req.doc.of = Edited
  /\ In("entry") => /\ req.doc.of = req.id /\ req.id \notin catalog.maps
                    /\ catalog = Empty => req.id # "default"
  /\ catalog = Empty =>
       todo = <<>> \/ Step("map") \/ Step("rebuild") \/ Step("adopt")

\* Robot and both copies hold the same.
Same ==
  IF catalog = Empty THEN robot = disk.map
  ELSE disk.map # NoDoc => disk.map = disk.entry[catalog.active] /\ robot = disk.map

\* The request has changed neither of the copies yet.
Untouched == todo = <<>> \/ Step("map") \/ ~(editing \/ Step("activate") \/ Step("reload"))

Synced ==
  /\ Untouched => Same
  /\ ~editing /\ Step("adopt") /\ catalog = Empty /\ disk.map # NoDoc =>
       disk.entry["default"] = disk.map
  /\ editing /\ ~Untouched => disk.map = req.doc
  /\ editing /\ (Step("note") \/ Step("reload")) => disk.entry[catalog.active] = req.doc
  /\ ~editing /\ Step("activate") => disk.map = disk.entry[req.id]
  /\ ~editing /\ Step("reload") => disk.map = disk.entry[catalog.active]

AgreeInv == faults = 0 => Named /\ Addressed /\ Synced

\* A new map is new, and its document is about it.
LEMMA NewMapBegins ==
  ASSUME MapTypeOK, ListedMapsExist, Request, In("entry")'
  PROVE  /\ req'.doc.of = req'.id /\ req'.id \notin catalog.maps
         /\ catalog = Empty => req'.id # "default"
<1>1. EditBegins \/ CreateBegins \/ OtherBegins
  BY RequestBegins
<1>2. ~EditBegins
  <2> SUFFICES ASSUME EditBegins PROVE FALSE
    OBVIOUS
  <2>1. Planned(todo', TRUE)
    BY Plans DEF EditBegins, Begun
  <2> QED
    BY <2>1 DEF Planned, In, OtherSteps
<1>3. ~OtherBegins
  BY PlanBegins DEF OtherBegins, Begun, In
<1>4. CreateMap
  <2>1. ListMaps \/ ActivateMap \/ DeleteMap => OtherBegins
    BY IdNames DEF ListMaps, ActivateMap, DeleteMap, Begin, Begun, OtherBegins, MapTypeOK
  <2>2. PostMap \/ ImportGeoJson \/ EditProfile => EditBegins
    BY InEditorIs, EditBegun DEF PostMap, ImportGeoJson, EditProfile, Whole
  <2> QED
    BY <1>2, <1>3, <2>1, <2>2 DEF Request
<1> QED
  BY <1>4 DEF CreateMap, Begin

\* A request that begins changes no file, and knows what it is about.
LEMMA AgreeBegin ==
  ASSUME ListedInv, AgreeInv, Request, faults' = 0, safe' \in Files
  PROVE  Named' /\ Addressed' /\ Synced'
<1>0. /\ MapTypeOK /\ StepInv /\ ListedMapsExist
      /\ (catalog = Empty <=> catalog.maps = {})
      /\ (catalog.maps # {} => catalog.active \in catalog.maps)
  BY EmptyIs DEF ListedInv, StepInv
<1>1. EditBegins \/ CreateBegins \/ OtherBegins
  BY <1>0, RequestBegins
<1>2. /\ todo = <<>> /\ UNCHANGED <<disk, robot, faults>> /\ catalog' = catalog
      /\ StepInv' /\ todo' # <<>> /\ Head(todo') \in {"map", "rebuild"}
  BY <1>0, <1>1, BeginKeepsSteps DEF EditBegins, CreateBegins, OtherBegins, Begun, catalog
<1>3. Named /\ Addressed /\ Synced /\ ~Step("activate")
  BY <1>2 DEF AgreeInv, Step
<1>4. editing' => EditBegins
  BY <1>1 DEF CreateBegins, OtherBegins, Begun
<1>5. Untouched' /\ Same'
  <2>1. Untouched /\ Same
    BY <1>2, <1>3 DEF Untouched, Synced
  <2>2. EditBegins => Step("map")'
    BY <1>2, PlanBegins DEF EditBegins, Begun, Step
  <2> QED
    BY <1>2, <1>4, <2>1, <2>2 DEF Untouched, Same, Step
<1>6. Named' /\ Synced'
  <2>1. Named'
    BY <1>2, <1>3 DEF Named, Step, Edited
  <2>2. Synced'
    BY <1>2, <1>5 DEF Synced, Step
  <2> QED
    BY <2>1, <2>2
<1>7. editing' => req'.doc.of = Edited
  <2> SUFFICES ASSUME editing' PROVE req'.doc.of = Edited
    OBVIOUS
  <2>1. PICK of \in {InEditor, disk.map.of} : Edit(of) /\ (of = InEditor \/ Whole(disk.map))
    <3>1. PostMap \/ ImportGeoJson \/ EditProfile
      <4>1. ~(CreateMap \/ ListMaps \/ ActivateMap \/ DeleteMap)
        BY DEF CreateMap, ListMaps, ActivateMap, DeleteMap, Begin
      <4> QED
        BY <4>1 DEF Request
    <3> QED
      BY <3>1 DEF PostMap, ImportGeoJson, EditProfile
  <2>2. of = Edited
    <3>1. CASE Whole(disk.map)
      <4>1. disk.map # NoDoc /\ of = disk.map.of
        BY <2>1, <3>1, IdNames DEF InEditor, Whole
      <4> QED
        BY <1>3, <4>1 DEF Named
    <3>2. CASE ~Whole(disk.map)
      BY <2>1, <3>2 DEF InEditor, Edited
    <3> QED
      BY <3>1, <3>2
  <2>3. of \in Ids
    <3>1. Edited \in Ids
      BY <1>0, CatalogIs, IdNames DEF Edited
    <3> QED
      BY <2>2, <3>1
  <2> QED
    BY <1>0, <2>1, <2>2, <2>3, EditBegun
<1>8. In("entry")' => /\ req'.doc.of = req'.id /\ req'.id \notin catalog.maps
                      /\ catalog = Empty => req'.id # "default"
  BY <1>0, NewMapBegins
<1>9. Addressed'
  BY <1>2, <1>7, <1>8 DEF Addressed, Edited, Step
<1> QED
  BY <1>6, <1>9

LEMMA AgreeStep ==
  ASSUME ListedInv, AgreeInv, RequestStep, faults' = 0, safe' \in Files
  PROVE  Named' /\ Addressed' /\ Synced'
<1>0. /\ MapTypeOK /\ StepInv /\ ListedMapsExist
      /\ (catalog = Empty <=> catalog.maps = {})
      /\ (catalog.maps # {} => catalog.active \in catalog.maps)
      /\ catalog.maps \subseteq Ids /\ req.id \in Ids
      /\ catalog' = disk'.catalog /\ catalog = disk.catalog
      /\ faults \in Nat /\ StepInv'
  BY EmptyIs, CatalogIs, NextStep DEF ListedInv, StepInv, catalog
<1>1. UNCHANGED <<req, editing>> /\ todo # <<>> /\ (\A s : In(s)' => In(s) \/ s = "reload")
  BY <1>0, StepOutcome, RequestGoesOn DEF Outcome
<1>2. /\ \A doc : OnlyMap(doc) => Wrote /\ disk'.map = doc
      /\ \A id, doc : OnlyEntry(id, doc) => Wrote /\ disk'.entry[id] = doc
      /\ \A c : OnlyCatalog(c) => Wrote /\ catalog' = c
  BY <1>0 DEF OnlyMap, OnlyEntry, OnlyCatalog, Refused, Tore
<1>3. (todo' = Tail(todo) /\ faults' = faults) \/ Returns
  BY <1>0, <1>2, Effects DEF RequestStep, Wrote, Skips
<1>4. Named /\ Addressed /\ Synced
  BY <1>3 DEF AgreeInv, Returns
<1>5. disk.map # NoDoc => disk.map \in Docs
  <2>1. disk.map # NoDoc => disk.map.of # "torn"
    BY <1>0, <1>4, CatalogIs, IdNames DEF Named, Edited
  <2> QED
    BY <1>0, <2>1, CatalogIs, IdNames DEF Files
<1>6. todo' = Tail(todo) =>
        /\ Step("map") => editing /\ Step("rebuild")'
        /\ Step("rebuild") => Step("adopt")' \/ (~editing /\ todo' = <<>>)
        /\ Step("adopt") => (editing /\ Step("snapshot")')
             \/ (~editing /\ (todo' = <<>> \/ Step("entry")' \/ Step("copy")' \/ Step("unlist")'))
        /\ Step("snapshot") => editing /\ Step("note")'
        /\ Step("note") => editing /\ Step("reload")'
        /\ Step("entry") => ~editing /\ (todo' = <<>> \/ Step("list")')
        /\ Step("list") => ~editing /\ (todo' = <<>> \/ Step("rebuild")') /\ ~In("entry")'
        /\ Step("copy") => ~editing /\ Step("activate")'
        /\ Step("activate") => ~editing /\ Step("reload")'
        /\ Step("unlist") => ~editing /\ (todo' = <<>> \/ Step("remove")')
        /\ Step("remove") => ~editing /\ todo' = <<>>
        /\ Step("reload") => todo' = <<>>
  BY <1>0, <1>1, AfterStep
<1>7. "entry" # "reload" /\ (In("entry")' => In("entry"))
  BY <1>1
<1> USE <1>0, <1>1, <1>7
<1>8. CASE WriteMap
  <2>1. Step("map") /\ req.doc \in Docs /\ OnlyMap(req.doc)
    BY <1>8, Effects
  <2>2. /\ Wrote /\ disk'.map = req.doc /\ disk'.entry = disk.entry /\ catalog' = catalog
    BY <1>2, <2>1 DEF OnlyMap
  <2>3. editing /\ Step("rebuild")'
    BY <1>6, <2>1, <2>2 DEF Wrote
  <2>4. Named'
    BY <1>4, <2>1, <2>2, <2>3, IdNames DEF Named, Addressed, Step, Edited
  <2>5. Addressed'
    BY <1>4, <2>1, <2>2, <2>3 DEF Addressed, Step, Edited
  <2>6. Synced'
    BY <2>2, <2>3 DEF Synced, Step, Untouched
  <2> QED
    BY <2>4, <2>5, <2>6
<1>9. CASE Rebuild
  <2>1. Step("rebuild") /\ (Step("adopt")' \/ (~editing /\ todo' = <<>>)) /\ todo' = Tail(todo)
    <3>1. Step("rebuild") /\ todo' = Tail(todo)
      BY <1>2, <1>9, Effects DEF Skips, Wrote
    <3> QED
      BY <1>6, <3>1
  <2>2. /\ disk'.map = disk.map /\ catalog' = catalog /\ robot' = robot
        /\ \/ catalog.maps # {} /\ disk'.entry = disk.entry
           \/ /\ catalog.maps = {}
              /\ disk'.entry["default"] = IF Whole(disk.map) THEN disk.map ELSE Blank
    <3>1. \/ catalog.maps # {} /\ Skips
          \/ /\ catalog.maps = {}
             /\ OnlyEntry("default", IF Whole(disk.map) THEN disk.map ELSE Blank)
      BY <1>9, Effects
    <3>2. CASE catalog.maps # {} /\ Skips
      BY <3>2 DEF Skips, catalog
    <3>3. CASE /\ catalog.maps = {}
               /\ OnlyEntry("default", IF Whole(disk.map) THEN disk.map ELSE Blank)
      <4>1. /\ Wrote
            /\ disk'.entry["default"] = IF Whole(disk.map) THEN disk.map ELSE Blank
        BY <1>2, <3>3
      <4>2. disk'.map = disk.map /\ catalog' = catalog
        BY <3>3 DEF OnlyEntry
      <4> QED
        BY <3>3, <4>1, <4>2 DEF Wrote
    <3> QED
      BY <3>1, <3>2, <3>3
  <2>3. catalog.maps = {} => disk'.entry["default"] = IF disk.map # NoDoc THEN disk.map ELSE Blank
    BY <1>5, <2>2, IdNames DEF Whole
  <2>4. catalog.maps = {} /\ disk.map # NoDoc => disk.map.of = "default"
    BY <1>4, <2>1 DEF Named, Edited, Step
  <2>7. Named'
    BY <1>4, <2>1, <2>2, <2>3, <2>4, IdNames DEF Named, Step, Edited
  <2>8. Addressed'
    BY <1>4, <2>1, <2>2 DEF Addressed, Step, Edited
  <2>9. Synced'
    BY <1>4, <2>1, <2>2, <2>3 DEF Synced, Step, Untouched, Same
  <2> QED
    BY <2>7, <2>8, <2>9
<1>10. CASE Adopt
  <2>1. /\ Step("adopt") /\ todo' = Tail(todo)
        /\ (editing /\ Step("snapshot")')
             \/ (~editing /\ (todo' = <<>> \/ Step("entry")' \/ Step("copy")' \/ Step("unlist")'))
    <3>1. Step("adopt") /\ todo' = Tail(todo)
      BY <1>2, <1>10, Effects DEF Wrote
    <3> QED
      BY <1>6, <3>1
  <2>2. /\ disk'.map = disk.map /\ disk'.entry = disk.entry /\ robot' = robot
        /\ \/ catalog.maps # {} /\ catalog' = catalog
           \/ catalog.maps = {} /\ catalog' = [maps |-> {"default"}, active |-> "default"]
    BY <1>2, <1>10, Effects DEF OnlyCatalog, Wrote
  <2>3. catalog' # Empty /\ Edited' = Edited
    BY <2>2 DEF Empty, Edited
  <2>7. Named'
    BY <1>4, <2>1, <2>2, <2>3 DEF Named, Step
  <2>8. Addressed'
    BY <1>4, <2>1, <2>2, <2>3 DEF Addressed, Step
  <2>9. Synced'
    BY <1>4, <2>1, <2>2, <2>3 DEF Synced, Step, Untouched, Same
  <2> QED
    BY <2>7, <2>8, <2>9
<1>11. CASE Snapshot
  <2>1. /\ Step("snapshot") /\ catalog # Empty
        /\ OnlyEntry(catalog.active, req.doc) /\ req.doc \in Docs
    <3>1. Step("snapshot")
      BY <1>11, Effects
    <3>2. catalog # Empty
      BY <1>4, <3>1 DEF Addressed, Step
    <3> QED
      BY <1>11, <3>1, <3>2, Effects
  <2>2. /\ disk'.map = disk.map /\ catalog' = catalog /\ robot' = robot
        /\ \A j \in Ids \ {catalog.active} : disk'.entry[j] = disk.entry[j]
        /\ disk'.entry[catalog.active] = req.doc /\ todo' = Tail(todo)
    BY ZenonT(60), <1>2, <2>1 DEF OnlyEntry, Wrote
  <2>3. editing /\ Step("note")'
    BY <1>6, <2>1, <2>2
  <2>7. Named'
    <3>1. req.doc.of = catalog.active
      BY <1>4, <2>1, <2>3 DEF Addressed, Edited
    <3> QED
      BY <1>4, <2>1, <2>2, <2>3, <3>1 DEF Named, Step, Edited
  <2>8. Addressed'
    BY <1>4, <2>1, <2>2, <2>3 DEF Addressed, Step, Edited
  <2>9. Synced'
    BY <1>4, <2>1, <2>2, <2>3 DEF Synced, Step, Untouched
  <2> QED
    BY <2>7, <2>8, <2>9
<1>12. CASE Note
  <2>1. /\ Step("note") /\ todo' = Tail(todo) /\ catalog' = catalog
        /\ disk'.map = disk.map /\ disk'.entry = disk.entry /\ robot' = robot
    BY <1>2, <1>12, Effects DEF OnlyCatalog, Wrote
  <2>2. editing /\ Step("reload")'
    BY <1>6, <2>1
  <2>7. Named'
    BY <1>4, <2>1, <2>2 DEF Named, Step, Edited
  <2>8. Addressed'
    BY <1>4, <2>1, <2>2 DEF Addressed, Step, Edited
  <2>9. Synced'
    BY <1>4, <2>1, <2>2 DEF Synced, Step, Untouched
  <2> QED
    BY <2>7, <2>8, <2>9
<1>13. CASE WriteEntry
  <2>1. Step("entry") /\ OnlyEntry(req.id, req.doc)
    BY <1>13, Effects
  <2>2. /\ disk'.map = disk.map /\ catalog' = catalog /\ robot' = robot
        /\ \A j \in Ids \ {req.id} : disk'.entry[j] = disk.entry[j]
        /\ disk'.entry[req.id] = req.doc /\ todo' = Tail(todo)
    <3>1. Wrote /\ disk'.entry[req.id] = req.doc
      BY <1>2, <2>1
    <3> QED
      BY <2>1, <3>1 DEF OnlyEntry, Wrote
  <2>3. ~editing /\ (todo' = <<>> \/ Step("list")')
    BY <1>6, <2>1, <2>2
  <2>4. req.doc.of = req.id /\ req.id \notin catalog.maps /\ catalog # Empty
    <3>1. In("entry")
      <4>1. 1 \in 1..Len(todo) /\ todo[1] = "entry"
        BY <2>1, CatalogIs DEF Step
      <4> QED
        BY <4>1 DEF In
    <3> QED
      BY <1>4, <2>1, <3>1 DEF Addressed, Step
  <2>7. Named'
    BY <1>4, <2>1, <2>2, <2>3, <2>4 DEF Named, Step, Edited
  <2>8. Addressed'
    BY <1>4, <2>1, <2>2, <2>3, <2>4 DEF Addressed, Step, Edited
  <2>9. Synced'
    BY <1>4, <2>1, <2>2, <2>3, <2>4 DEF Synced, Step, Untouched, Same
  <2> QED
    BY <2>7, <2>8, <2>9
<1>14. CASE List
  <2>1. Step("list") /\ catalog # Empty
    <3>1. Step("list")
      BY <1>14, Effects
    <3> QED
      BY <1>4, <3>1 DEF Addressed, Step
  <2>2. /\ disk'.map = disk.map /\ disk'.entry = disk.entry /\ robot' = robot
        /\ todo' = Tail(todo) /\ catalog'.maps = catalog.maps \cup {req.id}
        /\ catalog'.active = catalog.active
    <3>1. OnlyCatalog([maps |-> catalog.maps \cup {req.id}, active |-> catalog.active])
      BY <1>14, <2>1, Effects
    <3>2. Wrote /\ catalog' = [maps |-> catalog.maps \cup {req.id}, active |-> catalog.active]
      BY <1>2, <3>1
    <3> QED
      BY <3>1, <3>2 DEF OnlyCatalog, Wrote
  <2>3. ~editing /\ (todo' = <<>> \/ Step("rebuild")') /\ ~In("entry")'
    BY <1>6, <2>1, <2>2
  <2>4. catalog' # Empty /\ disk.entry[req.id].of = req.id
    BY <1>4, <2>1, <2>2 DEF Named, Empty
  <2>7. Named'
    BY <1>4, <2>1, <2>2, <2>3, <2>4 DEF Named, Step, Edited
  <2>8. Addressed'
    BY <2>3, <2>4 DEF Addressed, Step
  <2>9. Synced'
    BY <1>4, <2>1, <2>2, <2>3, <2>4 DEF Synced, Step, Untouched, Same
  <2> QED
    BY <2>7, <2>8, <2>9
<1>15. ASSUME Returns, Step("copy") \/ Step("unlist") PROVE Named' /\ Addressed' /\ Synced'
  <2>1. ~editing
    BY <1>15, WhoseStep DEF StepInv, Step
  <2>2. todo' = <<>> /\ UNCHANGED <<disk, robot>>
    BY <1>15, <2>1 DEF Returns, GiveUp
  <2>3. catalog' = catalog /\ ~In("entry")' /\ catalog # Empty /\ Same
    BY <1>4, <1>15, <2>1, <2>2 DEF In, Addressed, Step, Synced, Untouched
  <2>7. Named'
    BY <1>4, <1>15, <2>2, <2>3 DEF Named, Step, Edited
  <2>8. Addressed'
    BY <2>2, <2>3 DEF Addressed
  <2>9. Synced'
    BY <2>1, <2>2, <2>3 DEF Synced, Step, Untouched, Same
  <2> QED
    BY <2>7, <2>8, <2>9
<1>16. CASE Copy
  <2>1. Step("copy")
    BY <1>16, Effects
  <2>2. CASE Returns
    BY <1>15, <2>1, <2>2
  <2>3. CASE ~Returns
    <3>1. req.id \in catalog.maps /\ OnlyMap(disk.entry[req.id])
      BY <1>16, <2>3, Effects
    <3>2. /\ disk'.map = disk.entry[req.id] /\ disk'.entry = disk.entry
          /\ catalog' = catalog /\ todo' = Tail(todo)
      BY <1>2, <3>1 DEF OnlyMap, Wrote
    <3>3. ~editing /\ Step("activate")' /\ catalog # Empty
      BY <1>4, <1>6, <2>1, <3>2 DEF Addressed, Step
    <3>4. disk.entry[req.id].of = req.id
      BY <1>4, <3>1 DEF Named
    <3>7. Named'
      BY <1>4, <3>2, <3>3, <3>4 DEF Named, Step
    <3>8. Addressed'
      BY <1>4, <3>2, <3>3 DEF Addressed, Step
    <3>9. Synced'
      BY <3>2, <3>3 DEF Synced, Step, Untouched
    <3> QED
      BY <3>7, <3>8, <3>9
  <2> QED
    BY <2>2, <2>3
<1>17. CASE Activate
  <2>1. Step("activate") /\ OnlyCatalog([maps |-> catalog.maps, active |-> req.id])
    BY <1>17, Effects
  <2>2. /\ disk'.map = disk.map /\ disk'.entry = disk.entry /\ todo' = Tail(todo)
        /\ catalog'.maps = catalog.maps /\ catalog'.active = req.id
    <3>1. Wrote /\ catalog' = [maps |-> catalog.maps, active |-> req.id]
      BY <1>2, <2>1
    <3> QED
      BY <2>1, <3>1 DEF OnlyCatalog, Wrote
  <2>3. /\ ~editing /\ Step("reload")' /\ req.id \in catalog.maps /\ catalog' # Empty
    BY <1>6, <2>1, <2>2 DEF ListedInv, Empty
  <2>7. Named'
    BY <1>4, <2>1, <2>2, <2>3 DEF Named, Step, Edited
  <2>8. Addressed'
    BY <1>4, <2>2, <2>3 DEF Addressed, Step
  <2>9. Synced'
    BY <1>4, <2>1, <2>2, <2>3 DEF Synced, Step, Untouched
  <2> QED
    BY <2>7, <2>8, <2>9
<1>18. CASE Reload
  <2>1. /\ Step("reload") /\ UNCHANGED disk /\ todo' = Tail(todo)
        /\ robot' = Loaded(disk, robot)
    BY <1>18, Effects
  <2>2. todo' = <<>> /\ catalog' = catalog /\ catalog # Empty /\ ~In("entry")'
    <3>1. todo' = <<>> /\ catalog' = catalog
      BY <1>6, <2>1
    <3>2. ~In("entry")'
      BY <3>1 DEF In
    <3>3. catalog # Empty
      BY <1>4, <2>1 DEF Addressed, Step
    <3> QED
      BY <3>1, <3>2, <3>3
  <2>3. disk.map # NoDoc => robot' = disk.map /\ disk.map = disk.entry[catalog.active]
    <3>1. disk.map # NoDoc => robot' = disk.map
      BY <1>5, <2>1, IdNames DEF Loaded
    <3>2. disk.map = disk.entry[catalog.active]
      BY <1>4, <2>1 DEF Synced, Untouched, Step
    <3> QED
      BY <3>1, <3>2
  <2>7. Named'
    BY <1>4, <2>1, <2>2 DEF Named, Step, Edited
  <2>8. Addressed'
    BY <2>2 DEF Addressed
  <2>9. Synced'
    BY <2>1, <2>2, <2>3 DEF Synced, Step, Untouched, Same
  <2> QED
    BY <2>7, <2>8, <2>9
<1>19. CASE Unlist
  <2>1. Step("unlist")
    BY <1>19, Effects
  <2>2. CASE Returns
    BY <1>15, <2>1, <2>2
  <2>3. CASE ~Returns
    <3>1. /\ req.id # catalog.active
          /\ OnlyCatalog([maps |-> catalog.maps \ {req.id}, active |-> catalog.active])
      BY <1>19, <2>3, Effects
    <3>2. /\ disk'.map = disk.map /\ disk'.entry = disk.entry /\ robot' = robot
          /\ todo' = Tail(todo) /\ catalog'.maps = catalog.maps \ {req.id}
          /\ catalog'.active = catalog.active
      <4>1. Wrote /\ catalog' = [maps |-> catalog.maps \ {req.id}, active |-> catalog.active]
        BY <1>2, <3>1
      <4> QED
        BY <3>1, <4>1 DEF OnlyCatalog, Wrote
    <3>3. ~editing /\ (todo' = <<>> \/ Step("remove")') /\ catalog # Empty
      BY <1>4, <1>6, <2>1, <3>2 DEF Addressed, Step
    <3>4. catalog' # Empty
      BY <3>1, <3>2, <3>3 DEF Empty
    <3>7. Named'
      BY <1>4, <2>1, <3>2, <3>3, <3>4 DEF Named, Step, Edited
    <3>8. Addressed'
      BY <1>4, <3>2, <3>3, <3>4 DEF Addressed, Step, Edited
    <3>9. Synced'
      BY <1>4, <2>1, <3>2, <3>3, <3>4 DEF Synced, Step, Untouched, Same
    <3> QED
      BY <3>7, <3>8, <3>9
  <2> QED
    BY <2>2, <2>3
<1>20. CASE Remove
  <2>1. Step("remove") /\ req.id \notin catalog.maps
    BY <1>20, Effects DEF ListedInv
  <2>2. /\ disk'.map = disk.map /\ catalog' = catalog /\ robot' = robot
        /\ \A j \in Ids \ {req.id} : disk'.entry[j] = disk.entry[j]
        /\ todo' = Tail(todo)
    BY <1>20, Effects DEF Skips, OnlyEntry, Wrote
  <2>3. ~editing /\ todo' = <<>> /\ catalog # Empty /\ ~In("entry")'
    <3>1. ~editing /\ todo' = <<>>
      BY <1>6, <2>1, <2>2
    <3> QED
      BY <1>4, <2>1, <3>1 DEF Addressed, Step, In
  <2>7. Named'
    BY <1>4, <2>1, <2>2, <2>3 DEF Named, Step, Edited
  <2>8. Addressed'
    BY <2>3 DEF Addressed
  <2>9. Synced'
    BY <1>4, <2>1, <2>2, <2>3 DEF Synced, Step, Untouched, Same
  <2> QED
    BY <2>7, <2>8, <2>9
<1>21. ~Die
  BY Effects
<1> QED
  BY <1>8, <1>9, <1>10, <1>11, <1>12, <1>13, <1>14, <1>16, <1>17, <1>18, <1>19, <1>20, <1>21
     DEF RequestStep

LEMMA AgreeNext == ListedInv /\ AgreeInv /\ [MapNext]_mapVars => AgreeInv'
<1> SUFFICES ASSUME ListedInv, AgreeInv, [MapNext]_mapVars, faults' = 0
             PROVE  Named' /\ Addressed' /\ Synced'
  BY DEF AgreeInv
<1>1. CASE UNCHANGED mapVars
  BY <1>1 DEF mapVars, AgreeInv, Named, Addressed, Synced, Step, Edited, Same, Untouched, In,
              catalog
<1>2. CASE MapNext
  <2>1. safe' \in Files /\ (Request \/ RequestStep)
    BY <1>2, SafeIs DEF ListedInv
  <2> QED
    BY <2>1, AgreeBegin, AgreeStep
<1> QED
  BY <1>1, <1>2

LEMMA AgreeInit == MapInit => AgreeInv
<1> SUFFICES ASSUME MapInit PROVE Named /\ Addressed /\ Synced
  BY DEF AgreeInv
<1>1. /\ catalog = Empty /\ disk.map \in {NoDoc, Blank} /\ robot = disk.map
      /\ todo = <<>> /\ editing = FALSE
  BY DEF MapInit, catalog
<1>2. ~In("entry") /\ ~Step("list") /\ ~Step("adopt") /\ ~Step("activate") /\ ~Step("reload")
      /\ ~Step("note")
  BY <1>1 DEF In, Step
<1> QED
  BY <1>1, <1>2, IdNames DEF Named, Addressed, Synced, Same, Untouched, Edited, Empty

\* Without a fault, between requests Robot, map.json and the active map's file hold
\* the same document, and every listed file the map it is named for, after any
\* requests about any maps.
THEOREM CopiesAlwaysAgree == MapSpec => []CopiesAgree
<1>1. AgreeInv => CopiesAgree
  BY DEF AgreeInv, Named, Synced, Same, Untouched, CopiesAgree
<1> QED
  BY <1>1, ListedInit, ListedNext, AgreeInit, AgreeNext, PTL DEF MapSpec

----------------------------------------------------------------------------
(* The maps: the map in use survives one fault.                            *)

InMap  == Keeps(disk.map, safe)
InFile == catalog # Empty /\ Keeps(disk.entry[catalog.active], safe)

\* No document is newer than the last one that was sent.
Dated ==
  /\ safe.v <= version /\ disk.map.v <= version /\ req.doc.v <= version
  /\ \A i \in Ids : disk.entry[i].v <= version

\* The file of a new map is not that of one there is.
NewFile ==
  In("entry") =>
    /\ req.id \notin catalog.maps
    /\ (catalog = Empty /\ (Step("rebuild") \/ Step("adopt"))) => req.id # "default"

\* What an activation has copied.
Copied ==
  Step("activate") =>
    /\ Whole(disk.map) => disk.map = disk.entry[req.id]
    /\ faults <= 1 /\ ~Whole(disk.map) => disk.entry[req.id].of \in {req.id, "torn"}

\* map.json is about the map that is kept, and when it is torn the catalog names it.
OfSafe ==
  faults <= 1 /\ Whole(safe) =>
    IF Whole(disk.map) THEN disk.map.of = safe.of ELSE safe.of = catalog.active

\* An edit sends a newer document of the map that is kept, and puts no other one there.
EditKeeps ==
  editing /\ todo # <<>> =>
    /\ faults <= 1 /\ Whole(safe) => Keeps(req.doc, safe)
    /\ ~Step("map") /\ Whole(disk.map) => disk.map = req.doc

\* Without a fault both places hold it, but for the middle of an activation.
BothKept ==
  faults = 0 /\ Whole(safe) => InMap /\ catalog # Empty /\ (Step("activate") \/ InFile)

SurvivalInv ==
  Dated /\ NewFile /\ Copied /\ OfSafe /\ EditKeeps /\ BothKept /\ MapInUseSurvives

LEMMA KeepsIs ==
  /\ \A f \in Files : Keeps(f, f) /\ f.v \in Nat
  /\ \A f, d, e : Whole(d) /\ Keeps(f, d) => Whole(f) /\ f.of = d.of
<1>1. \A f \in Files : f.v \in Nat
  BY MapStoreAssumption DEF Files, Docs, Torn, NoDoc
<1> QED
  BY <1>1 DEF Keeps, Whole

\* The steps by what they write.
Kind ==
  \/ /\ disk' = disk /\ faults' \in {faults, faults + 1}
     /\ Step("map") \/ Step("activate") => Die
     /\ Step("copy") => Die \/ Returns
  \/ Step("map") /\ req.doc \in Docs /\ OnlyMap(req.doc)
  \/ /\ Step("copy") /\ req.id \in catalog.maps
     /\ disk.entry[req.id] # NoDoc /\ OnlyMap(disk.entry[req.id])
  \/ /\ Step("snapshot") /\ req.doc \in Docs /\ catalog.maps # {}
     /\ OnlyEntry(catalog.active, req.doc)
  \/ /\ Step("rebuild") \/ Step("entry") \/ Step("remove")
     /\ \E id \in Ids \ catalog.maps, doc \in {req.doc, disk.map, Blank, NoDoc} :
          OnlyEntry(id, doc)
  \/ /\ Step("activate")
     /\ OnlyCatalog([maps |-> catalog.maps, active |-> req.id])
  \/ /\ Step("adopt") \/ Step("note") \/ Step("list") \/ Step("unlist")
     /\ \E c : /\ OnlyCatalog(c)
               /\ catalog = Empty \/ (c.active = catalog.active /\ c # Empty)
               /\ \/ c.maps \subseteq catalog.maps \/ Step("list")
                  \/ Step("adopt") /\ catalog = Empty /\ c.maps = {"default"}

LEMMA Kinds ==
  ASSUME ListedInv, NewFile, RequestStep
  PROVE  Kind
<1>0. /\ MapTypeOK /\ StepInv /\ ListedMapsExist
      /\ (catalog = Empty <=> catalog.maps = {})
      /\ (catalog.maps # {} => catalog.active \in catalog.maps)
      /\ catalog.maps \subseteq Ids /\ req.id \in Ids /\ catalog \in Catalogs
  BY EmptyIs, CatalogIs DEF ListedInv, StepInv
<1>1. CASE WriteMap
  BY <1>0, <1>1, Effects DEF Kind
<1>2. CASE Rebuild
  <2>1. CASE Skips
    BY <1>0, <1>2, <2>1, Effects DEF Kind, Skips, Step
  <2>2. CASE ~Skips
    BY <1>0, <1>2, <2>2, Effects, IdNames DEF Kind
  <2> QED
    BY <2>1, <2>2
<1>3. CASE Adopt
  BY <1>0, <1>3, Effects DEF Kind, Empty
<1>4. CASE Snapshot
  BY <1>0, <1>4, Effects DEF Kind, Returns, Step
<1>5. CASE Note
  BY <1>0, <1>5, Effects DEF Kind
<1>6. CASE WriteEntry
  <2>1. In("entry")
    <3>1. todo \in Seq(Steps) /\ todo # <<>> /\ Head(todo) = "entry"
      BY <1>0, <1>6, CatalogIs DEF WriteEntry, Step
    <3>2. 1 \in 1..Len(todo) /\ todo[1] = "entry"
      BY <3>1
    <3> QED
      BY <3>2 DEF In
  <2> QED
    BY <1>0, <1>6, <2>1, Effects DEF Kind, NewFile
<1>7. CASE List
  <2> DEFINE c == [maps |-> catalog.maps \cup {req.id},
                   active |-> IF catalog = Empty THEN req.id ELSE catalog.active]
  <2>1. Step("list") /\ OnlyCatalog(c) /\ c # Empty
    BY <1>0, <1>7, Effects DEF Empty
  <2>2. catalog = Empty \/ c.active = catalog.active
    OBVIOUS
  <2> QED
    BY <2>1, <2>2 DEF Kind
<1>8. CASE Copy
  BY <1>0, <1>8, Effects DEF Kind, Returns, Step
<1>9. CASE Activate
  BY <1>0, <1>9, Effects DEF Kind
<1>10. CASE Reload
  BY <1>0, <1>10, Effects DEF Kind, Step
<1>11. CASE Unlist
  <2>1. CASE Returns
    BY <1>0, <1>11, <2>1, Effects DEF Kind, Returns, Step
  <2>2. CASE ~Returns
    <3> DEFINE c == [maps |-> catalog.maps \ {req.id}, active |-> catalog.active]
    <3>1. /\ Step("unlist") /\ OnlyCatalog(c)
          /\ req.id \in catalog.maps \ {catalog.active}
      BY <1>0, <1>11, <2>2, Effects
    <3>2. c # Empty
      BY <1>0, <3>1 DEF Empty
    <3> QED
      BY <3>1, <3>2 DEF Kind
  <2> QED
    BY <2>1, <2>2
<1>12. CASE Remove
  <2>1. req.id \notin catalog.maps
    BY <1>0, <1>12, Effects DEF ListedInv
  <2> QED
    BY <1>0, <1>12, <2>1, Effects DEF Kind, Skips, Step
<1>13. CASE Die
  BY <1>0, <1>13, Effects DEF Kind
<1> QED
  BY <1>1, <1>2, <1>3, <1>4, <1>5, <1>6, <1>7, <1>8, <1>9, <1>10, <1>11, <1>12, <1>13
     DEF RequestStep

LEMMA RequestSends ==
  ASSUME MapTypeOK, Request
  PROVE  /\ version' \in {version, version + 1} /\ req'.doc.v <= version'
         /\ editing' => req'.doc.of = InEditor /\ req'.doc.v = version + 1
         /\ UNCHANGED <<disk, faults>> /\ todo = <<>>
<1>0. version \in Nat /\ NoDoc.v = 0
  BY MapStoreAssumption DEF MapTypeOK, NoDoc
<1>1. CASE PostMap \/ ImportGeoJson \/ EditProfile
  <2>1. PICK of : Edit(of) /\ of = InEditor
    BY <1>1 DEF PostMap, ImportGeoJson, EditProfile, InEditor
  <2> QED
    BY <1>0, <2>1 DEF Edit, Begin
<1>2. CASE CreateMap
  <2>1. PICK id \in Ids, activate \in BOOLEAN :
          Begin(Ensure \o <<"entry", "list">> \o (IF activate THEN Activation ELSE <<>>),
                id, [of |-> id, v |-> version + 1], FALSE)
    BY <1>2 DEF CreateMap
  <2>2. version' = version + 1
    BY <1>2 DEF CreateMap
  <2> QED
    BY <1>0, <2>1, <2>2 DEF Begin
<1>3. CASE ListMaps \/ ActivateMap \/ DeleteMap
  BY <1>0, <1>3 DEF ListMaps, ActivateMap, DeleteMap, Begin
<1> QED
  BY <1>1, <1>2, <1>3 DEF Request

\* A step either goes well or fails, and a write that fails or tears hits one place.
LEMMA KindFaults ==
  ASSUME Kind, faults \in Nat
  PROVE  /\ faults' \in {faults, faults + 1}
         /\ faults' # faults => \/ disk'.map = disk.map
                                \/ disk'.entry = disk.entry /\ disk'.catalog = disk.catalog
         /\ ~Step("map") /\ ~Step("copy") => disk'.map = disk.map
  BY DEF Kind, OnlyMap, OnlyEntry, OnlyCatalog, Wrote, Refused, Tore, Step

LEMMA DatedNext ==
  ASSUME ListedInv, NewFile, Dated, MapNext
  PROVE  Dated'
<1>0. /\ StepInv /\ ListedMapsExist /\ MapTypeOK /\ version \in Nat /\ req.id \in Ids
      /\ Torn.v = 0 /\ NoDoc.v = 0 /\ Blank.v = 0
  BY MapStoreAssumption, CatalogIs
     DEF ListedInv, StepInv, MapTypeOK, Torn, NoDoc, Blank
<1>a. /\ safe.v \in Nat /\ disk.map.v \in Nat
      /\ \A i \in Ids : disk.entry[i].v \in Nat
  BY <1>0, CatalogIs, KeepsIs DEF MapTypeOK
<1>1. (Request \/ RequestStep) /\ safe' \in {safe, disk'.map, disk.entry[req.id]}
  BY <1>0, SafeIs
<1>2. CASE Request
  <2>1. version <= version' /\ version' \in Nat /\ req'.doc.v <= version' /\ UNCHANGED disk
    BY <1>0, <1>2, RequestSends
  <2>2. /\ safe.v <= version' /\ disk.map.v <= version'
        /\ \A i \in Ids : disk.entry[i].v <= version'
    BY <1>0, <1>a, <2>1 DEF Dated
  <2> QED
    BY <1>0, <1>1, <2>1, <2>2 DEF Dated
<1>3. CASE RequestStep
  <2>1. UNCHANGED <<req, version>>
    BY <1>0, <1>3, StepOutcome DEF Outcome
  <2>2. disk'.map.v <= version
    BY <1>0, <1>3, Kinds
       DEF Dated, Kind, OnlyMap, OnlyEntry, OnlyCatalog
  <2>3. \A i \in Ids : disk'.entry[i].v <= version
    <3>1. CASE disk'.entry = disk.entry
      BY <3>1 DEF Dated
    <3>2. CASE \E id, doc : /\ OnlyEntry(id, doc)
                            /\ doc \in {req.doc, disk.map, Blank, NoDoc}
      BY <1>0, <3>2 DEF Dated, OnlyEntry
    <3> QED
      BY <1>3, <3>1, <3>2, Kinds DEF Kind, OnlyMap, OnlyCatalog
  <2> QED
    BY <1>0, <1>1, <2>1, <2>2, <2>3 DEF Dated
<1> QED
  BY <1>1, <1>2, <1>3

LEMMA NewFileNext ==
  ASSUME ListedInv, NewFile, MapNext
  PROVE  NewFile'
<1>0. /\ StepInv /\ ListedMapsExist /\ MapTypeOK
      /\ catalog' = disk'.catalog /\ catalog = disk.catalog
      /\ (catalog = Empty <=> catalog.maps = {})
  BY EmptyIs DEF ListedInv, StepInv, catalog
<1>1. Request \/ RequestStep
  BY <1>0, SafeIs
<1>2. CASE Request
  BY <1>0, <1>2, RequestSends, NewMapBegins DEF NewFile
<1>3. ASSUME RequestStep, In("entry")'
      PROVE  /\ req'.id \notin catalog'.maps
             /\ (catalog' = Empty /\ (Step("rebuild")' \/ Step("adopt")')) => req'.id # "default"
  <2>1. /\ UNCHANGED <<req, editing>> /\ todo # <<>>
        /\ todo' = Tail(todo) \/ GiveUp \/ todo' = <<>>
        /\ safe' \in Files
    BY <1>0, <1>3, StepOutcome, SafeIs DEF Outcome
  <2>2. In("entry") /\ Planned(todo', editing)
    BY <1>0, <1>3, <2>1, RequestGoesOn
  <2>3. todo' = Tail(todo) /\ todo' # <<>>
    BY <1>3, <2>1 DEF GiveUp, In
  <2>4. ~editing
    <3>1. PICK i \in 1..Len(todo) : todo[i] = "entry"
      BY <2>2 DEF In
    <3> QED
      BY <1>0, <3>1 DEF StepInv, Planned, OtherSteps
  <2>5. ~Step("list") /\ ~Step("map")
    BY <1>0, <1>3, <2>1, <2>3, <2>4, AfterStep
  <2>6. StepInv' /\ (Step("adopt")' => Step("rebuild"))
    BY <1>0, <1>3, <2>1, NextStep
  <2>7. ~Step("rebuild")'
    <3>1. Fits(Head(todo), Head(todo'))
      BY <1>0, <2>1, <2>3, <2>4, RequestGoesOn
    <3> QED
      BY <2>1, <2>5, <3>1 DEF Step, Fits
  <2>8. req.id \notin catalog.maps /\ (catalog = Empty /\ Step("adopt") => req.id # "default")
    BY <2>2 DEF NewFile
  <2>9. req.id \notin catalog'.maps
    <3>1. \/ catalog'.maps \subseteq catalog.maps
          \/ Step("adopt") /\ catalog = Empty /\ catalog'.maps = {"default"}
      BY <1>0, <1>3, <2>5, Kinds
         DEF Kind, OnlyMap, OnlyEntry, OnlyCatalog, Empty
    <3> QED
      BY <2>8, <3>1
  <2>10. Step("rebuild") => catalog' = catalog
    BY <1>0, <1>3, Kinds DEF Kind, OnlyMap, OnlyEntry, Step
  <2> QED
    BY <2>1, <2>2, <2>6, <2>7, <2>9, <2>10 DEF NewFile
<1> QED
  BY <1>1, <1>2, <1>3 DEF NewFile

LEMMA CopiedNext ==
  ASSUME ListedInv, AgreeInv, NewFile, MapNext
  PROVE  Copied'
<1>0. /\ StepInv /\ ListedMapsExist /\ MapTypeOK /\ faults \in Nat /\ req.id \in Ids
      /\ safe' \in Files /\ (Request \/ RequestStep)
  BY CatalogIs, SafeIs DEF ListedInv, StepInv
<1> SUFFICES ASSUME Step("activate")'
             PROVE  /\ Whole(disk'.map) => disk'.map = disk'.entry[req'.id]
                    /\ faults' <= 1 /\ ~Whole(disk'.map) =>
                         disk'.entry[req'.id].of \in {req'.id, "torn"}
  BY DEF Copied
<1>1. RequestStep
  BY <1>0, RequestBegins, BeginKeepsSteps DEF Step
<1>2. Step("copy") /\ todo' = Tail(todo) /\ UNCHANGED req
  BY <1>0, <1>1, NextStep, StepOutcome DEF Outcome
<1>3. ~Returns /\ ~Die /\ ~GiveUp
  BY DEF Returns, GiveUp, Die, Step
<1>4. req.id \in catalog.maps /\ disk.entry[req.id] # NoDoc /\ OnlyMap(disk.entry[req.id])
  BY <1>1, <1>2, <1>3, Kinds DEF Kind, Step
<1>5. CASE Wrote /\ disk'.map = disk.entry[req.id]
  BY <1>0, <1>2, <1>4, <1>5, CatalogIs, IdNames DEF OnlyMap, Files
<1>6. CASE Tore /\ disk'.map = Torn
  <2>1. faults' <= 1 => disk.entry[req.id].of = req.id
    BY <1>0, <1>4, <1>6 DEF Tore, AgreeInv, Named
  <2> QED
    BY <1>2, <1>4, <1>6, <2>1, IdNames DEF OnlyMap
<1> QED
  BY <1>3, <1>4, <1>5, <1>6 DEF OnlyMap, Refused

\* One of the two places keeps the document, and both do while nothing has failed.
LEMMA KeptNext ==
  ASSUME ListedInv, AgreeInv, SurvivalInv, MapNext, faults' <= 1, Whole(safe')
  PROVE  /\ InMap' \/ InFile'
         /\ faults' = 0 => InMap' /\ catalog' # Empty /\ (Step("activate")' \/ InFile')
<1>0. /\ StepInv /\ ListedMapsExist /\ MapTypeOK /\ faults \in Nat
      /\ req.id \in Ids /\ "none" \notin Ids /\ safe' \in Files
      /\ catalog' = disk'.catalog /\ catalog = disk.catalog
      /\ (catalog = Empty <=> catalog.maps = {})
      /\ (catalog.maps # {} => catalog.active \in catalog.maps)
      /\ catalog.maps \subseteq Ids
      /\ Keeps(safe', safe')
  BY EmptyIs, CatalogIs, SafeIs, IdNames, KeepsIs DEF ListedInv, StepInv, catalog
<1>1. CASE TwoCopies'
  <2>1. safe' = disk'.map /\ disk'.entry[catalog'.active] = disk'.map /\ catalog'.maps # {}
    BY <1>0, <1>1, SafeIs DEF TwoCopies
  <2>2. InMap' /\ InFile' /\ catalog' # Empty
    BY <1>0, <2>1 DEF InMap, InFile, Empty
  <2> QED
    BY <2>2
<1>2. CASE Step("copy") /\ safe' = disk'.map /\ ~TwoCopies'
  <2>1. InMap'
    BY <1>0, <1>2 DEF InMap
  <2>2. ASSUME faults' = 0 PROVE catalog' # Empty /\ Step("activate")'
    <3>1. RequestStep /\ Kind
      <4>1. RequestStep
        BY <1>0, <1>2, SafeIs, RequestSends DEF Step
      <4> QED
        BY <4>1, Kinds DEF SurvivalInv
    <3>2. faults = 0 /\ UNCHANGED editing /\ ~Die
      BY <1>0, <2>2, <3>1, KindFaults, StepOutcome DEF Outcome, Die
    <3>3. Named /\ Addressed /\ Synced
      BY <3>2 DEF AgreeInv
    <3>4. ~editing
      BY <1>0, <1>2, WhoseStep DEF StepInv, Step
    <3>5. disk.map # NoDoc => TwoCopies \/ ~Whole(disk.map)
      <4>1. catalog # Empty
        BY <1>2, <3>3 DEF Addressed, Step
      <4>2. Same
        BY <1>2, <3>3, <3>4 DEF Synced, Untouched, Step
      <4> QED
        BY <1>0, <4>1, <4>2 DEF Same, TwoCopies
    <3>6. ~Returns
      BY <1>0, <1>2, <3>5, IdNames DEF Returns, TwoCopies, catalog
    <3>7. req.id \in catalog.maps /\ OnlyMap(disk.entry[req.id]) /\ todo' = Tail(todo)
      BY <1>0, <1>2, <2>2, <3>1, <3>2, <3>6 DEF Kind, Step, OnlyMap, Wrote, Refused, Tore
    <3> QED
      BY <1>0, <1>2, <3>2, <3>7, AfterStep DEF OnlyMap, Step
  <2> QED
    BY <2>1, <2>2
<1>3. CASE /\ Step("activate") /\ catalog'.active = req.id /\ safe' = disk.entry[req.id]
  <2>1. RequestStep
    BY <1>0, <1>3, SafeIs, RequestSends DEF Step
  <2>2. Kind
    BY <2>1, Kinds DEF SurvivalInv
  <2>3. disk'.entry = disk.entry /\ disk'.map = disk.map /\ (faults' = 0 => faults = 0)
    BY <1>0, <1>3, <2>2, KindFaults DEF Kind, OnlyCatalog, Step
  <2>4. InFile' /\ catalog' # Empty
    BY <1>0, <1>3, <2>3 DEF InFile, Empty
  <2>5. faults' = 0 => disk.map = disk.entry[req.id]
    <3>1. ~editing
      BY <1>0, <1>3, WhoseStep DEF StepInv, Step
    <3> QED
      BY <1>3, <2>3, <3>1 DEF AgreeInv, Synced
  <2>6. faults' = 0 => InMap'
    BY <1>0, <1>3, <2>3, <2>5 DEF InMap
  <2> QED
    BY <2>4, <2>6
<1>4. CASE safe' = safe /\ ~Switches /\ ~TwoCopies'
  <2>1. CASE Request
    <3>1. UNCHANGED <<disk, faults>> /\ ~Step("activate")
      BY <1>0, <2>1, RequestSends DEF Step
    <3>2. faults = 0 => BothKept /\ InMap /\ InFile
      BY <1>4, <3>1 DEF SurvivalInv, BothKept
    <3> QED
      BY <1>0, <1>4, <3>1, <3>2 DEF SurvivalInv, MapInUseSurvives, InMap, InFile
  <2>2. CASE RequestStep
    <3>1. Kind /\ BothKept /\ MapInUseSurvives /\ EditKeeps
      BY <2>2, Kinds DEF SurvivalInv
    <3>2. CASE faults' # faults
      <4>1. faults = 0 /\ faults' = 1
        BY <1>0, <3>1, <3>2, KindFaults
      <4>2. InMap /\ catalog # Empty /\ (Step("activate") \/ InFile)
        BY <1>4, <3>1, <4>1 DEF BothKept
      <4>3. \/ disk'.map = disk.map
            \/ disk'.entry = disk.entry /\ disk'.catalog = disk.catalog /\ ~Step("activate")
        BY <1>0, <3>1, <3>2, KindFaults DEF Step
      <4> QED
        BY <1>0, <1>4, <4>1, <4>2, <4>3 DEF InMap, InFile
    <3>3. CASE faults' = faults
      <4>1. ~Step("activate") /\ (InMap => InMap') /\ (InFile => InFile')
        <5>1. CASE disk' = disk
          <6>1. ASSUME Step("activate") PROVE FALSE
            <7>1. ~Die
              BY <1>0, <3>3 DEF Die
            <7>2. OnlyCatalog([maps |-> catalog.maps, active |-> req.id])
              BY <3>1, <6>1, <7>1 DEF Kind, Step
            <7>3. catalog'.active = req.id
              BY <1>0, <3>3, <7>2 DEF OnlyCatalog, Refused, Tore
            <7> QED
              BY <1>4, <6>1, <7>3 DEF Switches
          <6> QED
            BY <1>0, <1>4, <5>1, <6>1 DEF InMap, InFile
        <5>2. CASE Step("map") /\ OnlyMap(req.doc)
          <6>1. disk'.map = req.doc
            BY <1>0, <3>3, <5>2 DEF OnlyMap, Refused, Tore
          <6>2. Keeps(req.doc, safe)
            <7>1. editing /\ todo # <<>>
              BY <1>0, <5>2, WhoseStep DEF StepInv, Step
            <7> QED
              BY <1>4, <3>1, <3>3, <7>1 DEF EditKeeps
          <6> QED
            BY <1>0, <1>4, <5>2, <6>1, <6>2 DEF InMap, InFile, OnlyMap, Step
        <5>3. CASE /\ Step("copy") /\ disk.entry[req.id] # NoDoc
                   /\ OnlyMap(disk.entry[req.id])
          BY <1>0, <1>4, <3>3, <5>3 DEF OnlyMap, Refused, Tore, Switches
        <5>4. CASE Step("snapshot") /\ catalog.maps # {} /\ OnlyEntry(catalog.active, req.doc)
          <6>1. disk'.entry[catalog.active] = req.doc
            BY <1>0, <3>3, <5>4 DEF OnlyEntry, Refused, Tore
          <6>2. Keeps(req.doc, safe)
            <7>1. editing /\ todo # <<>>
              BY <1>0, <5>4, WhoseStep DEF StepInv, Step
            <7> QED
              BY <1>4, <3>1, <3>3, <7>1 DEF EditKeeps
          <6> QED
            BY <1>0, <1>4, <5>4, <6>1, <6>2 DEF InMap, InFile, OnlyEntry, Step
        <5>5. CASE /\ Step("rebuild") \/ Step("entry") \/ Step("remove")
                   /\ \E id \in Ids \ catalog.maps : \E doc : OnlyEntry(id, doc)
          <6>1. PICK id \in Ids \ catalog.maps : \E doc : OnlyEntry(id, doc)
            BY <5>5
          <6>2. catalog # Empty => catalog.active \in Ids \ {id}
            BY <1>0, <6>1
          <6>3. catalog # Empty => disk'.entry[catalog.active] = disk.entry[catalog.active]
            BY <6>1, <6>2 DEF OnlyEntry
          <6> QED
            BY <1>0, <1>4, <5>5, <6>1, <6>3 DEF InMap, InFile, OnlyEntry, Step
        <5>6. CASE Step("activate") /\ OnlyCatalog([maps |-> catalog.maps, active |-> req.id])
          BY <1>0, <1>4, <3>3, <5>6 DEF OnlyCatalog, Refused, Tore, Switches
        <5>7. CASE /\ Step("adopt") \/ Step("note") \/ Step("list") \/ Step("unlist")
                   /\ \E c : /\ OnlyCatalog(c)
                             /\ catalog = Empty \/ (c.active = catalog.active /\ c # Empty)
          BY <1>0, <1>4, <3>3, <5>7 DEF InMap, InFile, OnlyCatalog, Refused, Tore, Step
        <5> QED
          BY <3>1, <5>1, <5>2, <5>3, <5>4, <5>5, <5>6, <5>7 DEF Kind
      <4>2. InMap \/ InFile
        BY <1>4, <3>1, <3>3 DEF MapInUseSurvives, InMap, InFile
      <4>3. faults' = 0 => InMap /\ InFile
        BY <1>4, <3>1, <3>3, <4>1 DEF BothKept
      <4>4. InFile' => catalog' # Empty
        BY DEF InFile
      <4> QED
        BY <4>1, <4>2, <4>3, <4>4
    <3> QED
      BY <3>2, <3>3
  <2> QED
    BY <1>0, <2>1, <2>2, SafeIs
<1> QED
  BY <1>0, <1>1, <1>2, <1>3, <1>4, SafeIs

LEMMA OfSafeNext ==
  ASSUME ListedInv, AgreeInv, SurvivalInv, MapNext, faults' <= 1, Whole(safe')
  PROVE  IF Whole(disk'.map) THEN disk'.map.of = safe'.of ELSE safe'.of = catalog'.active
<1>0. /\ StepInv /\ ListedMapsExist /\ MapTypeOK /\ faults \in Nat
      /\ catalog' = disk'.catalog /\ catalog = disk.catalog
      /\ ~Whole(Torn)
  BY EmptyIs, CatalogIs, IdNames DEF ListedInv, StepInv, catalog
<1>1. CASE safe' = disk'.map
  BY <1>1
<1>2. CASE Step("activate") /\ catalog'.active = req.id /\ safe' = disk.entry[req.id]
  <2>1. RequestStep
    BY <1>0, <1>2, SafeIs, RequestSends DEF Step
  <2>2. Kind
    BY <2>1, Kinds DEF SurvivalInv
  <2>3. disk'.map = disk.map /\ faults <= 1
    BY <1>0, <1>2, <2>2, KindFaults DEF Step
  <2>4. Whole(disk.map) => disk.map = safe'
    BY <1>2 DEF SurvivalInv, Copied
  <2>5. ~Whole(disk.map) => safe'.of = req.id
    BY <1>2, <2>3, IdNames DEF SurvivalInv, Copied, Whole
  <2> QED
    BY <1>2, <2>3, <2>4, <2>5
<1>3. CASE safe' = safe /\ ~Switches /\ safe' # disk'.map
  <2>1. faults <= 1 => /\ Whole(disk.map) => disk.map.of = safe.of
                       /\ ~Whole(disk.map) => safe.of = catalog.active /\ catalog # Empty
    <3> SUFFICES ASSUME faults <= 1
                 PROVE  /\ Whole(disk.map) => disk.map.of = safe.of
                        /\ ~Whole(disk.map) => safe.of = catalog.active /\ catalog # Empty
      OBVIOUS
    <3>1. IF Whole(disk.map) THEN disk.map.of = safe.of ELSE safe.of = catalog.active
      BY <1>3 DEF SurvivalInv, OfSafe
    <3>2. ~Whole(disk.map) => catalog # Empty
      BY <1>3, KeepsIs DEF SurvivalInv, MapInUseSurvives
    <3> QED
      BY <3>1, <3>2
  <2>2. CASE Request
    BY <1>0, <1>3, <2>1, <2>2, RequestSends
  <2>3. CASE RequestStep
    <3>1. Kind /\ (faults' = faults \/ faults' = faults + 1) /\ faults <= 1
      BY <1>0, <2>3, Kinds, KindFaults DEF SurvivalInv
    <3>2. CASE Step("map") /\ OnlyMap(req.doc)
      <4>1. CASE disk'.map = req.doc
        <5>1. editing /\ todo # <<>>
          BY <1>0, <3>2, WhoseStep DEF StepInv, Step
        <5>2. Keeps(req.doc, safe)
          BY <1>3, <3>1, <5>1 DEF SurvivalInv, EditKeeps
        <5> QED
          BY <1>3, <4>1, <5>2, KeepsIs
      <4>2. CASE disk'.map = disk.map
        BY <1>0, <1>3, <2>1, <3>1, <3>2, <4>2 DEF OnlyMap
      <4>3. CASE disk'.map = Torn /\ faults' = faults + 1
        <5>1. faults = 0 /\ ~Step("activate")
          BY <1>0, <3>2, <4>3 DEF Step
        <5>2. InMap /\ catalog # Empty
          BY <1>3, <5>1 DEF SurvivalInv, BothKept
        <5>3. Whole(disk.map) /\ disk.map.of = safe.of
          BY <1>3, <5>2, KeepsIs DEF InMap
        <5>4. disk.map.of = catalog.active
          BY <5>1, <5>2, <5>3, IdNames DEF AgreeInv, Named, Edited, Whole
        <5> QED
          BY <1>0, <1>3, <3>2, <4>3, <5>3, <5>4 DEF OnlyMap
      <4> QED
        BY <3>2, <4>1, <4>2, <4>3 DEF OnlyMap, Tore
    <3>3. CASE /\ Step("copy") /\ disk.entry[req.id] # NoDoc /\ OnlyMap(disk.entry[req.id])
      <4>1. disk'.map # disk.entry[req.id]
        BY <1>3, <3>3 DEF Switches
      <4>2. CASE disk'.map = disk.map
        BY <1>0, <1>3, <2>1, <3>1, <3>3, <4>2 DEF OnlyMap
      <4>3. CASE disk'.map = Torn /\ faults' = faults + 1
        <5>1. faults = 0 /\ ~Step("activate")
          BY <1>0, <3>3, <4>3 DEF Step
        <5>2. InMap /\ catalog # Empty
          BY <1>3, <5>1 DEF SurvivalInv, BothKept
        <5>3. Whole(disk.map) /\ disk.map.of = safe.of
          BY <1>3, <5>2, KeepsIs DEF InMap
        <5>4. disk.map.of = catalog.active
          BY <5>1, <5>2, <5>3, IdNames DEF AgreeInv, Named, Edited, Whole
        <5> QED
          BY <1>0, <1>3, <3>3, <4>3, <5>3, <5>4 DEF OnlyMap
      <4> QED
        BY <3>3, <4>1, <4>2, <4>3 DEF OnlyMap, Tore
    <3>4. CASE disk'.map = disk.map /\ (disk'.catalog = disk.catalog \/ Whole(disk.map))
      BY <1>0, <1>3, <2>1, <3>1, <3>4
    <3>5. CASE Step("activate") /\ OnlyCatalog([maps |-> catalog.maps, active |-> req.id])
      <4>1. disk'.map = disk.map /\ disk'.catalog.active # req.id
        BY <1>0, <1>3, <3>5 DEF OnlyCatalog, Switches
      <4>2. CASE disk'.catalog = Empty /\ faults' = faults + 1
        <5>1. InMap
          BY <1>0, <1>3, <4>2 DEF SurvivalInv, BothKept
        <5> QED
          BY <1>3, <4>1, <3>4, <5>1, KeepsIs DEF InMap
      <4> QED
        BY <1>0, <3>4, <3>5, <4>1, <4>2 DEF OnlyCatalog, Tore
    <3>6. CASE \E c : /\ OnlyCatalog(c)
                      /\ catalog = Empty \/ (c.active = catalog.active /\ c # Empty)
      <4>1. disk'.map = disk.map
        BY <3>6 DEF OnlyCatalog
      <4>2. CASE disk'.catalog = Empty /\ faults' = faults + 1 /\ ~Whole(disk.map)
        <5>1. InMap
          BY <1>0, <1>3, <4>2 DEF SurvivalInv, BothKept
        <5> QED
          BY <1>3, <4>2, <5>1, KeepsIs DEF InMap
      <4>3. CASE disk'.catalog.active = disk.catalog.active
        BY <1>0, <1>3, <2>1, <3>1, <4>1, <4>3
      <4> QED
        BY <1>0, <2>1, <3>1, <3>4, <3>6, <4>1, <4>2, <4>3 DEF OnlyCatalog, Tore
    <3> QED
      BY <1>0, <3>1, <3>2, <3>3, <3>4, <3>5, <3>6 DEF Kind, OnlyEntry
  <2> QED
    BY <1>0, <2>2, <2>3, SafeIs
<1> QED
  BY <1>0, <1>1, <1>2, <1>3, SafeIs

LEMMA EditKeepsNext ==
  ASSUME ListedInv, SurvivalInv, MapNext
  PROVE  EditKeeps'
<1>0. /\ StepInv /\ ListedMapsExist /\ MapTypeOK /\ faults \in Nat /\ version \in Nat
      /\ ~Whole(Torn) /\ safe \in Files /\ disk.map \in Files /\ safe' \in Files
      /\ safe.v \in Nat /\ disk.map.v \in Nat
  BY MapStoreAssumption, CatalogIs, SafeIs, IdNames, KeepsIs
     DEF ListedInv, StepInv, MapTypeOK
<1> SUFFICES ASSUME editing', todo' # <<>>
             PROVE  /\ faults' <= 1 /\ Whole(safe') => Keeps(req'.doc, safe')
                    /\ ~Step("map")' /\ Whole(disk'.map) => disk'.map = req'.doc
  BY DEF EditKeeps
<1>1. CASE Request
  <2>1. /\ UNCHANGED <<disk, faults>> /\ todo = <<>>
        /\ req'.doc.of = InEditor /\ req'.doc.v = version + 1
    BY <1>0, <1>1, RequestSends
  <2>2. Step("map")'
    <3>1. EditBegins
      BY <1>0, <1>1, RequestBegins DEF CreateBegins, OtherBegins, Begun
    <3> QED
      BY <3>1, PlanBegins DEF EditBegins, Begun, Step
  <2>3. safe' \in {safe, disk.map}
    BY <1>0, <2>1, SafeIs DEF Step
  <2>4. ASSUME faults' <= 1, Whole(safe') PROVE Keeps(req'.doc, safe')
    <3>1. safe'.v <= req'.doc.v
      BY <1>0, <2>1, <2>3 DEF SurvivalInv, Dated
    <3>2. CASE safe' = disk.map
      BY <2>1, <2>4, <3>1, <3>2, <1>0 DEF InEditor, Keeps
    <3>3. CASE safe' = safe
      <4>1. Whole(disk.map) => disk.map.of = safe.of
        BY <2>1, <2>4, <3>3 DEF SurvivalInv, OfSafe
      <4>2. ~Whole(disk.map) => safe.of = catalog.active /\ catalog # Empty
        BY <2>1, <2>4, <3>3, KeepsIs DEF SurvivalInv, OfSafe, MapInUseSurvives
      <4>3. InEditor = safe.of
        BY <4>1, <4>2 DEF InEditor
      <4> QED
        BY <1>0, <2>1, <3>1, <3>3, <4>3 DEF Keeps
    <3> QED
      BY <2>3, <3>2, <3>3
  <2> QED
    BY <2>2, <2>4
<1>2. CASE RequestStep
  <2>1. /\ UNCHANGED <<req, editing>> /\ todo # <<>> /\ Kind
        /\ (faults' = faults \/ faults' = faults + 1)
    BY <1>0, <1>2, StepOutcome, Kinds, KindFaults DEF Outcome, SurvivalInv
  <2>2. ~Step("copy") /\ ~Step("activate")
    BY <1>0, <2>1, WhoseStep DEF StepInv, Step
  <2>3. Whole(disk'.map) => disk'.map = req.doc
    <3>1. CASE Step("map")
      <4>1. ~Die /\ ~Refused
        BY <2>1, <3>1 DEF Die, Refused, GiveUp, Step
      <4>2. OnlyMap(req.doc)
        BY <2>1, <3>1, <4>1 DEF Kind, Step
      <4> QED
        BY <1>0, <4>1, <4>2 DEF OnlyMap
    <3>2. CASE ~Step("map")
      <4>1. disk'.map = disk.map
        BY <1>0, <2>1, <2>2, <3>2, KindFaults
      <4> QED
        BY <2>1, <3>2, <4>1 DEF SurvivalInv, EditKeeps
    <3> QED
      BY <3>1, <3>2
  <2>4. ASSUME faults' <= 1, Whole(safe') PROVE Keeps(req.doc, safe')
    <3>1. CASE safe' = safe
      BY <1>0, <2>1, <2>4, <3>1 DEF SurvivalInv, EditKeeps
    <3>2. CASE safe' = disk'.map
      BY <1>0, <2>3, <2>4, <3>2, KeepsIs
    <3> QED
      BY <1>0, <2>2, <3>1, <3>2, SafeIs
  <2> QED
    BY <2>1, <2>3, <2>4
<1> QED
  BY <1>0, <1>1, <1>2, SafeIs

LEMMA SurvivalNext == ListedInv /\ AgreeInv /\ SurvivalInv /\ [MapNext]_mapVars => SurvivalInv'
<1> SUFFICES ASSUME ListedInv, AgreeInv, SurvivalInv, [MapNext]_mapVars PROVE SurvivalInv'
  OBVIOUS
<1>1. CASE UNCHANGED mapVars
  BY <1>1 DEF SurvivalInv, Dated, NewFile, Copied, OfSafe, EditKeeps, BothKept,
              MapInUseSurvives, InMap, InFile, In, Step, catalog, mapVars
<1>2. CASE MapNext
  <2>1. Dated' /\ NewFile' /\ Copied' /\ EditKeeps'
    BY <1>2, DatedNext, NewFileNext, CopiedNext, EditKeepsNext DEF SurvivalInv
  <2>2. OfSafe'
    BY <1>2, OfSafeNext DEF OfSafe
  <2>3. BothKept' /\ MapInUseSurvives'
    <3>1. faults' = 0 => faults' <= 1
      OBVIOUS
    <3> QED
      BY <1>2, <3>1, KeptNext DEF BothKept, MapInUseSurvives, InMap, InFile
  <2> QED
    BY <2>1, <2>2, <2>3 DEF SurvivalInv
<1> QED
  BY <1>1, <1>2

LEMMA SurvivalInit == MapInit => SurvivalInv
<1> SUFFICES ASSUME MapInit PROVE SurvivalInv
  OBVIOUS
<1>1. PICK m \in {NoDoc, Blank} :
        disk = [map |-> m, entry |-> [i \in Ids |-> NoDoc], catalog |-> Empty]
  BY DEF MapInit
<1>2. /\ req.doc = NoDoc /\ todo = <<>> /\ version = 0 /\ safe = NoDoc
      /\ \A s : ~In(s) /\ ~Step(s)
  BY DEF MapInit, In, Step
<1>3. NoDoc.v = 0 /\ Blank.v = 0 /\ ~Whole(NoDoc)
  BY IdNames DEF NoDoc, Blank
<1>4. Dated
  BY <1>1, <1>2, <1>3 DEF Dated
<1> QED
  BY <1>2, <1>3, <1>4
     DEF SurvivalInv, NewFile, Copied, OfSafe, EditKeeps, BothKept, MapInUseSurvives

\* The document of the map in use that map.json and its file both held last, or that
\* has been activated since, is whole in one of them, or a newer one of the same map is,
\* after one failing or torn write or one death of the process at any point of any
\* request, and through all the requests that follow, for any maps: an edit is always
\* of that map, whichever of the two the fault has hit, and an activation replaces
\* both.
THEOREM MapInUseAlwaysSurvives == MapSpec => []MapInUseSurvives
<1>1. SurvivalInv => MapInUseSurvives
  BY DEF SurvivalInv
<1> QED
  BY <1>1, ListedInit, ListedNext, AgreeInit, AgreeNext, SurvivalInit, SurvivalNext, PTL
     DEF MapSpec

----------------------------------------------------------------------------
(* The history: what one write does to the file.                           *)

\* One row per session.
OneRowEach(rows) == \A r, s \in rows : r.id = s.id => r = s

Limited(d) ==
  /\ MaxEvents > 0 => Cardinality(d.events) <= MaxEvents
  /\ MaxSessions > 0 => Cardinality(d.sessions) <= MaxSessions

Sound(d) ==
  /\ d \in [version : {"none", "old", "unknown", "current"}, fits : BOOLEAN,
            events : SUBSET Events, sessions : SUBSET Rows, backup : BOOLEAN]
  /\ IsFiniteSet(d.events) /\ IsFiniteSet(d.sessions) /\ OneRowEach(d.sessions)

LEMMA EarliestExists ==
  ASSUME NEW T, T \subseteq Nat, T # {}
  PROVE  \E t \in T : \A u \in T : t <= u
<1> DEFINE R == OpToRel(<, Nat)
<1>1. \A x, y \in Nat : x < y => <<x, y>> \in R
  BY DEF OpToRel
<1>2. IsWellFoundedOn(R, Nat)
  BY NatLessThanWellFounded
<1> HIDE DEF R
<1>3. PICK t \in T : \A u \in T : ~(<<u, t>> \in R)
  BY <1>2, WFMin
<1>4. \A u \in T : ~(u < t)
  BY <1>1, <1>3
<1> QED
  BY <1>4

LEMMA LatestExists ==
  ASSUME NEW n \in Nat, NEW T, T \subseteq 0..n, T # {}
  PROVE  \E t \in T : \A u \in T : u <= t
<1> DEFINE D == {k \in 0..n : n - k \in T}
<1>1. PICK d \in D : \A c \in D : d <= c
  <2>1. D \subseteq Nat
    OBVIOUS
  <2>2. \A t \in T : n - t \in D
    OBVIOUS
  <2> HIDE DEF D
  <2> QED
    BY <2>1, <2>2, EarliestExists
<1>2. n - d \in T
  OBVIOUS
<1>3. \A u \in T : u <= n - d
  <2> SUFFICES ASSUME NEW u \in T PROVE u <= n - d
    OBVIOUS
  <2>1. n - u \in D
    OBVIOUS
  <2>2. d <= n - u /\ d \in 0..n /\ u \in 0..n
    BY <1>1, <2>1
  <2> QED
    BY <2>2
<1> QED
  BY <1>2, <1>3

\* The sessions that are kept are no more than the limit: each but the oldest has
\* fewer than that many after it.
LEMMA KeptSessionsAre ==
  ASSUME NEW rows, rows \subseteq Rows, IsFiniteSet(rows), OneRowEach(rows)
  PROVE  /\ KeptSessions(rows) \subseteq rows
         /\ MaxSessions > 0 => Cardinality(KeptSessions(rows)) <= MaxSessions
<1> USE HistoryAssumption
<1> DEFINE kept == KeptSessions(rows)
           ids == {r.id : r \in kept}
<1>1. kept \subseteq rows
  BY DEF KeptSessions
<1>2. ASSUME MaxSessions > 0 PROVE Cardinality(kept) <= MaxSessions
  <2>1. IsFiniteSet(kept) /\ Cardinality(kept) \in Nat
    BY <1>1, FS_Subset, FS_CardinalityType
  <2>2. CASE kept = {}
    BY <1>2, <2>2, FS_EmptySet
  <2>3. CASE kept # {}
    <3>1. PICK i \in ids : \A j \in ids : i <= j
      <4>1. ids \subseteq Nat /\ ids # {}
        BY <1>1, <2>3 DEF Rows
      <4> HIDE DEF ids
      <4> QED
        BY <4>1, EarliestExists
    <3>2. PICK r \in kept : r.id = i
      OBVIOUS
    <3> DEFINE later == {s \in rows : s.id > r.id}
    <3>3. Cardinality(later) < MaxSessions
      <4>1. MaxSessions # 0
        BY <1>2
      <4> QED
        BY <3>2, <4>1 DEF KeptSessions
    <3>4. kept \ {r} \subseteq later
      <4> SUFFICES ASSUME NEW s \in kept, s # r PROVE s.id > r.id
        BY <1>1
      <4>1. s.id # r.id /\ r.id <= s.id /\ s.id \in Nat /\ r.id \in Nat
        <5>1. r.id <= s.id
          BY <3>1, <3>2
        <5>2. r \in rows /\ s \in rows
          BY <1>1, <3>2
        <5> QED
          BY <5>1, <5>2 DEF OneRowEach, Rows
      <4> QED
        BY <4>1
    <3>5. IsFiniteSet(later) /\ Cardinality(later) \in Nat
      <4>1. later \subseteq rows
        OBVIOUS
      <4> HIDE DEF later
      <4> QED
        BY <4>1, FS_Subset, FS_CardinalityType
    <3> HIDE DEF later, kept
    <3>6. Cardinality(kept \ {r}) = Cardinality(kept) - 1
      BY <2>1, <3>2, FS_RemoveElement
    <3>7. Cardinality(kept \ {r}) <= Cardinality(later)
      BY <3>4, <3>5, FS_Subset
    <3> QED
      BY <2>1, <3>3, <3>5, <3>6, <3>7
  <2> QED
    BY <2>2, <2>3
<1> QED
  BY <1>1, <1>2

\* The events that are kept are within the limit and none is older than one that goes.
LEMMA KeptEventsAre ==
  ASSUME NEW rows, NEW kept \in KeptEvents(rows)
  PROVE  /\ kept \subseteq rows
         /\ \A k \in kept, p \in rows \ kept : k.ts >= p.ts
         /\ MaxEvents > 0 => Cardinality(kept) <= MaxEvents
<1> USE HistoryAssumption
<1>1. CASE MaxEvents = 0 \/ Cardinality(rows) <= MaxEvents
  <2>1. kept = rows
    BY <1>1 DEF KeptEvents
  <2> QED
    BY <1>1, <2>1
<1>2. CASE ~(MaxEvents = 0 \/ Cardinality(rows) <= MaxEvents)
  <2>1. /\ kept \subseteq rows /\ Cardinality(kept) = MaxEvents
        /\ \A k \in kept, p \in rows \ kept : k.ts >= p.ts
    BY <1>2 DEF KeptEvents
  <2> QED
    BY <2>1
<1> QED
  BY <1>1, <1>2

\* What a write that is to make d of the file makes of it: old is left in part or
\* whole, d is there in part or whole.
Stored(old, d, new, ok, gone) ==
  /\ Sound(new) /\ ok \in BOOLEAN
  /\ new.version = old.version /\ new.fits = old.fits /\ new.backup = old.backup
  /\ new.events \subseteq d.events /\ gone \subseteq d.events
  /\ \A k \in new.events, p \in gone : k.ts >= p.ts
  /\ new.sessions = old.sessions \/ new.sessions \subseteq d.sessions
  /\ ok => new.sessions \subseteq d.sessions /\ Limited(new)

LEMMA WrittenIs ==
  ASSUME Sound(db), NEW d, Sound(d),
         d.version = db.version, d.fits = db.fits, d.backup = db.backup,
         db.events \subseteq d.events,
         NEW w \in Written(d)
  PROVE  Stored(db, d, w.db, w.ok, w.gone)
<1>1. CASE w = [ok |-> FALSE, db |-> db, gone |-> {}]
  BY <1>1 DEF Stored
<1>2. CASE w = [ok |-> FALSE, db |-> d, gone |-> {}]
  BY <1>2 DEF Stored
<1>3. ASSUME NEW k \in KeptEvents(d.events),
             w = [ok |-> FALSE, db |-> [d EXCEPT !.events = k], gone |-> d.events \ k]
      PROVE  Stored(db, d, w.db, w.ok, w.gone)
  <2>1. k \subseteq d.events /\ \A e \in k, p \in d.events \ k : e.ts >= p.ts
    BY KeptEventsAre
  <2>2. IsFiniteSet(k)
    BY <2>1, FS_Subset DEF Sound
  <2>3. /\ w.db.events = k /\ w.db.sessions = d.sessions /\ w.db.version = d.version
        /\ w.db.fits = d.fits /\ w.db.backup = d.backup /\ w.ok = FALSE /\ w.gone = d.events \ k
    BY <1>3 DEF Sound
  <2>4. Sound(w.db)
    BY <1>3, <2>1, <2>2 DEF Sound
  <2> QED
    BY <2>1, <2>3, <2>4 DEF Stored
<1>4. ASSUME NEW k \in KeptEvents(d.events),
             w = [ok |-> TRUE, db |-> [d EXCEPT !.events = k, !.sessions = KeptSessions(@)],
                  gone |-> d.events \ k]
      PROVE  Stored(db, d, w.db, w.ok, w.gone)
  <2>1. /\ k \subseteq d.events /\ \A e \in k, p \in d.events \ k : e.ts >= p.ts
        /\ MaxEvents > 0 => Cardinality(k) <= MaxEvents
    BY KeptEventsAre
  <2>2. /\ KeptSessions(d.sessions) \subseteq d.sessions
        /\ MaxSessions > 0 => Cardinality(KeptSessions(d.sessions)) <= MaxSessions
    BY KeptSessionsAre DEF Sound
  <2>3. /\ w.db.events = k /\ w.db.sessions = KeptSessions(d.sessions)
        /\ w.db.version = d.version
        /\ w.db.fits = d.fits /\ w.db.backup = d.backup /\ w.ok = TRUE /\ w.gone = d.events \ k
    BY <1>4 DEF Sound
  <2>4. IsFiniteSet(w.db.events) /\ IsFiniteSet(w.db.sessions)
    BY <2>1, <2>2, <2>3, FS_Subset DEF Sound
  <2>5. Sound(w.db)
    <3>1. OneRowEach(w.db.sessions)
      BY <2>2, <2>3 DEF Sound, OneRowEach
    <3>2. w.db \in [version : {"none", "old", "unknown", "current"}, fits : BOOLEAN,
                    events : SUBSET Events, sessions : SUBSET Rows, backup : BOOLEAN]
      BY <1>4, <2>1, <2>2 DEF Sound
    <3> QED
      BY <2>4, <3>1, <3>2 DEF Sound
  <2> QED
    BY <2>1, <2>2, <2>3, <2>5 DEF Stored, Limited
<1> QED
  BY <1>1, <1>2, <1>3, <1>4 DEF Written, Pruned

----------------------------------------------------------------------------
(* The history: the process and what it keeps.                             *)

HistTidy ==
  /\ HistTypeOK /\ Sound(db)
  /\ proc # "down" => life \in Lives
  /\ proc # "up" => doing = "rest" /\ ~session.active
  /\ doing = "begin" => ~session.active /\ Current < SessionBound
  /\ doing = "end" => session.active
  /\ session.active => Current \in 1..SessionBound

\* Events are recorded by lives that have begun, and up to now.
Past(rows) == \A e \in rows : e.life <= life /\ (e.life = life => e.ts <= uptime)

NewerThanLost(rows) == \A e \in rows : lost[e.life] # Never => e.ts >= lost[e.life]

RetainInv ==
  /\ worked => Limited(db)
  /\ Past(db.events) /\ NewerThanLost(db.events)
  /\ \A l \in Lives : lost[l] # Never => l <= life /\ (l = life => lost[l] <= uptime)

BackupInv == proc = "opened" /\ db.version \in {"old", "unknown"} => db.backup

\* The control loop writes: an event of now, or a session.
Writes(d) ==
  /\ Sound(d)
  /\ \/ d.events = db.events
     \/ \E e \in Events : e.life = life /\ e.ts = uptime /\ d.events = db.events \cup {e}
  /\ \E gone : Stored(db, d, db', worked', gone) /\ Lose(gone)

LEMMA RecordWrites ==
  ASSUME HistTidy, proc = "up", Record
  PROVE  /\ \E d : Writes(d) /\ d.sessions = db.sessions
         /\ warned' \in BOOLEAN /\ worked' \in BOOLEAN /\ count' \in 0..EventBound
<1> DEFINE e == [n |-> count + 1, life |-> life, ts |-> uptime]
           d == [db EXCEPT !.events = @ \cup {e}]
<1>1. PICK w \in Written(d) : /\ db' = w.db /\ worked' = w.ok
                              /\ warned' = (~w.ok /\ ~warned) /\ Lose(w.gone)
  BY DEF Record
<1>2. e \in Events /\ count' \in 0..EventBound
  BY HistoryAssumption DEF HistTidy, HistTypeOK, Record, Events
<1>3. /\ d.events = db.events \cup {e} /\ d.sessions = db.sessions
      /\ d.version = db.version /\ d.fits = db.fits /\ d.backup = db.backup
  BY DEF HistTidy, Sound
<1>4. Sound(d)
  <2>1. IsFiniteSet(d.events)
    BY <1>3, FS_AddElement DEF HistTidy, Sound
  <2> QED
    BY <1>2, <1>3, <2>1 DEF HistTidy, Sound
<1>5. e.life = life /\ e.ts = uptime
  OBVIOUS
<1>6. warned' \in BOOLEAN
  BY <1>1
<1> HIDE DEF d, e
<1>7. Stored(db, d, db', worked', w.gone) /\ worked' \in BOOLEAN
  <2>1. Stored(db, d, db', worked', w.gone)
    BY <1>1, <1>3, <1>4, WrittenIs DEF HistTidy
  <2> QED
    BY <2>1 DEF Stored
<1> QED
  BY <1>1, <1>2, <1>3, <1>4, <1>5, <1>6, <1>7 DEF Writes

\* A row in the place of those of its session.
WithRow(rows, row) == {s \in rows : s.id # row.id} \cup {row}

LEMMA UpsertWrites ==
  ASSUME HistTidy, NEW id \in 1..SessionBound, NEW ended \in BOOLEAN, Upsert(id, ended)
  PROVE  /\ \E d : Writes(d) /\ d.sessions = WithRow(db.sessions, [id |-> id, ended |-> ended])
         /\ worked' \in BOOLEAN
<1> DEFINE row == [id |-> id, ended |-> ended]
           d == Upserted(db, row)
<1>1. PICK w \in Written(d) : db' = w.db /\ worked' = w.ok /\ Lose(w.gone)
  BY DEF Upsert
<1>2. row \in Rows
  BY DEF Rows
<1>3. /\ d.sessions = WithRow(db.sessions, row) /\ d.events = db.events
      /\ d.version = db.version /\ d.fits = db.fits /\ d.backup = db.backup
  BY DEF HistTidy, Sound, Upserted, WithRow
<1>4. Sound(d)
  <2> DEFINE others == {s \in db.sessions : s.id # row.id}
  <2>1. others \subseteq db.sessions
    OBVIOUS
  <2>2. IsFiniteSet(others)
    <3> HIDE DEF others
    <3> QED
      BY <2>1, FS_Subset DEF HistTidy, Sound
  <2>3. IsFiniteSet(others \cup {row})
    <3> HIDE DEF others
    <3> QED
      BY <2>2, FS_AddElement
  <2>4. IsFiniteSet(d.sessions)
    BY <1>3, <2>3 DEF WithRow
  <2>5. OneRowEach(d.sessions)
    BY <1>3 DEF HistTidy, Sound, OneRowEach, WithRow
  <2>6. d \in [version : {"none", "old", "unknown", "current"}, fits : BOOLEAN,
               events : SUBSET Events, sessions : SUBSET Rows, backup : BOOLEAN]
    BY <1>2 DEF HistTidy, Sound, Upserted
  <2> QED
    BY <1>3, <2>4, <2>5, <2>6 DEF HistTidy, Sound
<1>5. Stored(db, d, db', worked', w.gone) => worked' \in BOOLEAN
  BY DEF Stored
<1> HIDE DEF d
<1>6. Stored(db, d, db', worked', w.gone)
  BY <1>1, <1>3, <1>4, WrittenIs DEF HistTidy
<1> QED
  BY <1>1, <1>3, <1>4, <1>5, <1>6 DEF Writes

LEMMA LoseIs ==
  ASSUME lost \in [Lives -> 0..Never], NEW gone, gone \subseteq Events, Lose(gone)
  PROVE  /\ lost' \in [Lives -> 0..Never]
         /\ \A l \in Lives :
              lost'[l] = lost[l] \/ \E p \in gone : p.life = l /\ lost'[l] = p.ts
<1> USE HistoryAssumption
<1>1. ASSUME NEW l \in Lives
      PROVE  /\ lost'[l] \in 0..Never
             /\ lost'[l] = lost[l] \/ \E p \in gone : p.life = l /\ lost'[l] = p.ts
  <2> DEFINE times == {e.ts : e \in {g \in gone : g.life = l}}
             last == CHOOSE t \in times : \A u \in times : u <= t
  <2>1. lost'[l] = IF times = {} THEN lost[l] ELSE Latest(lost[l], last)
    BY DEF Lose
  <2>2. CASE times = {}
    BY <2>1, <2>2
  <2>3. CASE times # {}
    <3>1. times \subseteq 0..UptimeBound
      BY DEF Events
    <3>2. last \in times
      <4>1. \E t \in times : \A u \in times : u <= t
        <5> HIDE DEF times
        <5> QED
          BY <2>3, <3>1, LatestExists
      <4> HIDE DEF times
      <4> QED
        BY <4>1
    <3>3. PICK p \in gone : p.life = l /\ last = p.ts
      BY <3>2
    <3> HIDE DEF last, times
    <3>4. last \in 0..Never
      <4>1. last \in 0..UptimeBound
        BY <3>1, <3>2
      <4> QED
        BY <4>1 DEF Never
    <3>5. lost'[l] = lost[l] \/ lost'[l] = last
      BY <2>1, <2>3 DEF Latest
    <3> QED
      BY <3>3, <3>4, <3>5
  <2> QED
    BY <2>2, <2>3
<1>2. lost' = [l \in Lives |-> lost'[l]]
  BY DEF Lose
<1> QED
  BY <1>1, <1>2

\* What a write keeps.
LEMMA WritesKeep ==
  ASSUME HistTidy, RetainInv, proc = "up", NEW d, Writes(d), UNCHANGED <<life, uptime>>
  PROVE  /\ Sound(db') /\ lost' \in [Lives -> 0..Never] /\ RetainInv'
         /\ db'.version = db.version /\ db'.backup = db.backup
         /\ db'.sessions = db.sessions \/ db'.sessions \subseteq d.sessions
         /\ worked' => db'.sessions \subseteq d.sessions
<1>1. PICK gone : Stored(db, d, db', worked', gone) /\ Lose(gone)
  BY DEF Writes
<1>2. /\ Sound(db') /\ db'.version = db.version /\ db'.backup = db.backup
      /\ db'.sessions = db.sessions \/ db'.sessions \subseteq d.sessions
      /\ worked' => db'.sessions \subseteq d.sessions /\ Limited(db')
      /\ db'.events \subseteq d.events /\ gone \subseteq d.events
      /\ \A k \in db'.events, p \in gone : k.ts >= p.ts
  BY <1>1 DEF Stored
<1>3. d.events \subseteq Events /\ life \in Lives
  BY DEF Writes, Sound, HistTidy
<1>4. gone \subseteq Events /\ lost \in [Lives -> 0..Never]
  BY <1>2, <1>3 DEF HistTidy, HistTypeOK
<1>5. /\ lost' \in [Lives -> 0..Never]
      /\ \A l \in Lives :
           lost'[l] = lost[l] \/ \E p \in gone : p.life = l /\ lost'[l] = p.ts
  BY <1>1, <1>4, LoseIs
<1>6. \A e \in d.events : /\ e.life \in Lives /\ e.life <= life
                          /\ e.life = life => e.ts <= uptime
                          /\ lost[e.life] # Never => e.ts >= lost[e.life]
  <2> SUFFICES ASSUME NEW e \in d.events
               PROVE  /\ e.life \in Lives /\ e.life <= life
                      /\ e.life = life => e.ts <= uptime
                      /\ lost[e.life] # Never => e.ts >= lost[e.life]
    OBVIOUS
  <2>1. e \in Events
    BY <1>3
  <2>2. CASE e \in db.events
    BY <2>1, <2>2 DEF RetainInv, Past, NewerThanLost, Events
  <2>3. CASE e.life = life /\ e.ts = uptime
    BY <1>3, <2>1, <2>3, HistoryAssumption DEF RetainInv, Events, Lives, HistTidy, HistTypeOK
  <2> QED
    BY <2>2, <2>3 DEF Writes
<1>7. Past(db.events)'
  BY <1>2, <1>6 DEF Past
<1>8. NewerThanLost(db.events)'
  BY <1>2, <1>5, <1>6 DEF NewerThanLost
<1>9. \A l \in Lives : lost'[l] # Never => l <= life /\ (l = life => lost'[l] <= uptime)
  BY <1>2, <1>5, <1>6 DEF RetainInv
<1>10. RetainInv'
  BY <1>2, <1>7, <1>8, <1>9 DEF RetainInv
<1> QED
  BY <1>2, <1>5, <1>10

HistInv == HistTidy /\ RetainInv /\ BackupInv /\ OpenSessionExplained

LEMMA HistInvInit == HistInit => HistInv
<1> SUFFICES ASSUME HistInit PROVE HistInv
  OBVIOUS
<1> USE HistoryAssumption
<1>1. PICK v \in {"none", "old", "unknown"}, fits \in BOOLEAN :
        db = [version |-> v, fits |-> fits, events |-> {}, sessions |-> {}, backup |-> FALSE]
  BY DEF HistInit
<1>2. Sound(db)
  BY <1>1, FS_EmptySet DEF Sound, OneRowEach
<1>3. HistTypeOK
  <2>1. lost \in [Lives -> 0..Never]
    BY DEF HistInit, Never
  <2>2. session \in [active : BOOLEAN, id : 0..SessionBound]
    BY DEF HistInit
  <2>3. /\ proc \in {"down", "opened", "up"} /\ life \in 0..LifeBound
        /\ uptime \in 0..UptimeBound /\ count \in 0..EventBound
        /\ doing \in {"rest", "begin", "end"} /\ cut \subseteq 1..SessionBound
    BY DEF HistInit
  <2>4. mowing \in BOOLEAN /\ warned \in BOOLEAN /\ worked \in BOOLEAN
    BY DEF HistInit
  <2>5. db \in [version : {"none", "old", "unknown", "current"}, fits : BOOLEAN,
               events : SUBSET Events, sessions : SUBSET Rows, backup : BOOLEAN]
    BY <1>2 DEF Sound
  <2> QED
    BY <2>1, <2>2, <2>3, <2>4, <2>5 DEF HistTypeOK
<1>4. HistTidy
  BY <1>2, <1>3 DEF HistInit, HistTidy
<1>5. RetainInv
  BY <1>1 DEF HistInit, RetainInv, Past, NewerThanLost
<1>6. BackupInv /\ OpenSessionExplained
  BY <1>1 DEF HistInit, BackupInv, OpenSessionExplained
<1> QED
  BY <1>4, <1>5, <1>6 DEF HistInv

LEMMA HistInvNext == HistInv /\ [HistNext]_histVars => HistInv'
<1> SUFFICES ASSUME HistInv, [HistNext]_histVars PROVE HistInv'
  OBVIOUS
<1> USE HistoryAssumption
<1>0. HistTidy /\ RetainInv /\ BackupInv /\ OpenSessionExplained
  BY DEF HistInv
<1>1. ASSUME proc = "up", NEW d, Writes(d), UNCHANGED <<proc, life, uptime>>
      PROVE  /\ Sound(db') /\ lost' \in [Lives -> 0..Never] /\ RetainInv' /\ BackupInv'
             /\ db'.sessions = db.sessions \/ db'.sessions \subseteq d.sessions
             /\ worked' => db'.sessions \subseteq d.sessions
  <2>1. /\ Sound(db') /\ lost' \in [Lives -> 0..Never] /\ RetainInv'
        /\ db'.version = db.version /\ db'.backup = db.backup
        /\ db'.sessions = db.sessions \/ db'.sessions \subseteq d.sessions
        /\ worked' => db'.sessions \subseteq d.sessions
    BY <1>0, <1>1, WritesKeep
  <2> QED
    BY <1>1, <2>1 DEF BackupInv
<1>2. CASE Open
  <2>1. /\ db'.events = db.events /\ db'.sessions = db.sessions /\ db'.version = db.version
        /\ db'.backup = (db.backup \/ db.version \in {"old", "unknown"}) /\ Sound(db')
    BY <1>0, <1>2 DEF Open, HistTidy, Sound
  <2>2. life \in Nat /\ life' = life + 1 /\ uptime' = 0 /\ life' \in Lives
    BY <1>0, <1>2 DEF Open, HistTidy, HistTypeOK, Lives
  <2>3. HistTidy'
    <3>1. db' \in [version : {"none", "old", "unknown", "current"}, fits : BOOLEAN,
                  events : SUBSET Events, sessions : SUBSET Rows, backup : BOOLEAN]
      BY <2>1 DEF Sound
    <3>2. HistTypeOK
      BY <1>0 DEF HistTidy
    <3>3. HistTypeOK'
      <4>1. life' \in 0..LifeBound /\ uptime' \in 0..UptimeBound
        BY <2>2 DEF Lives
      <4>2. proc' = "opened" /\ UNCHANGED <<count, mowing, doing, session, warned, worked, cut, lost>>
        BY <1>2 DEF Open
      <4> QED
        BY <3>1, <3>2, <4>1, <4>2 DEF HistTypeOK
    <3> QED
      BY <1>0, <1>2, <2>1, <2>2, <3>3 DEF Open, HistTidy, Current
  <2>4. RetainInv'
    <3>1. Limited(db)' = Limited(db)
      BY <2>1 DEF Limited
    <3>2. db.events \subseteq Events
      BY <1>0 DEF HistTidy, Sound
    <3>3. Past(db.events)'
      BY <1>0, <2>1, <2>2, <3>2 DEF RetainInv, Past, Events, Lives
    <3>4. NewerThanLost(db.events)'
      BY <1>0, <1>2, <2>1 DEF Open, RetainInv, NewerThanLost
    <3>5. (\A l \in Lives : lost[l] # Never => l <= life /\ (l = life => lost[l] <= uptime))'
      BY <1>0, <1>2, <2>2 DEF Open, RetainInv, Lives
    <3> QED
      BY <1>0, <1>2, <3>1, <3>3, <3>4, <3>5 DEF Open, RetainInv
  <2>5. BackupInv'
    BY <2>1 DEF BackupInv
  <2>6. OpenSessionExplained'
    BY <1>0, <1>2, <2>1 DEF Open, OpenSessionExplained
  <2> QED
    BY <2>3, <2>4, <2>5, <2>6 DEF HistInv
<1>3. CASE Bootstrap
  <2>1. /\ db'.events = db.events /\ db'.sessions = db.sessions /\ db'.version = "current"
        /\ Sound(db')
    BY <1>0, <1>3 DEF Bootstrap, HistTidy, Sound
  <2>3. HistTidy'
    BY <1>0, <1>3, <2>1 DEF Bootstrap, HistTidy, HistTypeOK, Sound
  <2>4. RetainInv'
    BY <1>0, <1>3, <2>1 DEF Bootstrap, RetainInv, Past, NewerThanLost, Limited
  <2>5. BackupInv' /\ OpenSessionExplained'
    BY <1>0, <1>3, <2>1 DEF Bootstrap, BackupInv, OpenSessionExplained
  <2> QED
    BY <2>3, <2>4, <2>5 DEF HistInv
<1>4. CASE BootstrapFails
  <2>1. HistTidy'
    BY <1>0, <1>4 DEF BootstrapFails, HistTidy, HistTypeOK, Sound
  <2>2. RetainInv'
    BY <1>0, <1>4 DEF BootstrapFails, RetainInv, Past, NewerThanLost, Limited
  <2>3. BackupInv' /\ OpenSessionExplained'
    BY <1>0, <1>4 DEF BootstrapFails, BackupInv, OpenSessionExplained
  <2> QED
    BY <2>1, <2>2, <2>3 DEF HistInv
<1>5. CASE Stop
  <2>1. HistTidy'
    BY <1>0, <1>5 DEF Stop, HistTidy, HistTypeOK, Sound, Current
  <2>2. RetainInv'
    BY <1>0, <1>5 DEF Stop, RetainInv, Past, NewerThanLost, Limited
  <2>3. BackupInv'
    BY <1>5 DEF Stop, BackupInv
  <2>4. OpenSessionExplained'
    BY <1>0, <1>5 DEF Stop, OpenSessionExplained, Current
  <2> QED
    BY <2>1, <2>2, <2>3, <2>4 DEF HistInv
<1>6. CASE LoopPass
  <2>1. HistTidy'
    BY <1>0, <1>6 DEF LoopPass, LoopRuns, HistTidy, HistTypeOK, Sound, Current
  <2>2. uptime \in Nat /\ uptime' = uptime + 1 /\ UNCHANGED <<db, life, lost, worked>>
    BY <1>0, <1>6 DEF LoopPass, HistTidy, HistTypeOK
  <2>3. RetainInv'
    <3>1. Past(db.events)'
      <4>1. \A e \in db.events : e.ts \in Nat
        BY <1>0 DEF HistTidy, Sound, Events
      <4> QED
        BY <1>0, <2>2, <4>1 DEF RetainInv, Past
    <3>2. (\A l \in Lives : lost[l] # Never => l <= life /\ (l = life => lost[l] <= uptime))'
      <4>1. \A l \in Lives : lost[l] \in Nat
        BY <1>0 DEF HistTidy, HistTypeOK, Never
      <4> QED
        BY <1>0, <2>2, <4>1 DEF RetainInv
    <3> QED
      BY <1>0, <2>2, <3>1, <3>2 DEF RetainInv, NewerThanLost, Limited
  <2>4. BackupInv' /\ OpenSessionExplained'
    BY <1>0, <1>6 DEF LoopPass, BackupInv, OpenSessionExplained
  <2> QED
    BY <2>1, <2>3, <2>4 DEF HistInv
<1>7. CASE SafetyEvent
  <2>1. /\ proc = "up" /\ Record /\ UNCHANGED <<proc, life, uptime, mowing, doing, session, cut>>
    BY <1>7 DEF SafetyEvent, LoopRuns
  <2>2. PICK d : Writes(d) /\ d.sessions = db.sessions
    BY <1>0, <2>1, RecordWrites
  <2>3. warned' \in BOOLEAN /\ worked' \in BOOLEAN /\ count' \in 0..EventBound
    BY <1>0, <2>1, RecordWrites
  <2>4. /\ Sound(db') /\ lost' \in [Lives -> 0..Never] /\ RetainInv' /\ BackupInv'
        /\ db'.sessions \subseteq db.sessions
    BY <1>1, <2>1, <2>2
  <2>5. HistTidy'
    BY <1>0, <2>1, <2>3, <2>4 DEF HistTidy, HistTypeOK, Sound, Current
  <2>6. OpenSessionExplained'
    BY <1>0, <2>1, <2>4 DEF OpenSessionExplained
  <2> QED
    BY <2>4, <2>5, <2>6 DEF HistInv
<1>8. CASE Transition
  <2>1. /\ proc = "up" /\ Record /\ UNCHANGED <<proc, life, uptime, session, cut>>
        /\ mowing' \in BOOLEAN /\ doing' \in {"rest", "begin", "end"}
        /\ doing' = "end" => session.active
        /\ doing' = "begin" => ~session.active /\ (session.active \/ Current < SessionBound)
    BY <1>8 DEF Transition, LoopRuns
  <2>2. PICK d : Writes(d) /\ d.sessions = db.sessions
    BY <1>0, <2>1, RecordWrites
  <2>3. warned' \in BOOLEAN /\ worked' \in BOOLEAN /\ count' \in 0..EventBound
    BY <1>0, <2>1, RecordWrites
  <2>4. /\ Sound(db') /\ lost' \in [Lives -> 0..Never] /\ RetainInv' /\ BackupInv'
        /\ db'.sessions \subseteq db.sessions
    BY <1>1, <2>1, <2>2
  <2>5. HistTidy'
    BY <1>0, <2>1, <2>3, <2>4 DEF HistTidy, HistTypeOK, Sound, Current
  <2>6. OpenSessionExplained'
    BY <1>0, <2>1, <2>4 DEF OpenSessionExplained
  <2> QED
    BY <2>4, <2>5, <2>6 DEF HistInv
<1>9. CASE BeginSession
  <2>1. /\ proc = "up" /\ doing = "begin" /\ doing' = "rest"
        /\ session' = [active |-> TRUE, id |-> Current + 1] /\ Upsert(Current + 1, FALSE)
        /\ UNCHANGED <<proc, life, uptime, count, mowing, warned, cut>>
    BY <1>9 DEF BeginSession
  <2>2. Current + 1 \in 1..SessionBound /\ ~session.active
    BY <1>0, <2>1 DEF HistTidy, HistTypeOK, Current
  <2>3. PICK d : Writes(d) /\ d.sessions = WithRow(db.sessions, [id |-> Current + 1, ended |-> FALSE])
    BY <1>0, <2>1, <2>2, UpsertWrites
  <2>4. worked' \in BOOLEAN
    BY <1>0, <2>1, <2>2, UpsertWrites
  <2>5. /\ Sound(db') /\ lost' \in [Lives -> 0..Never] /\ RetainInv' /\ BackupInv'
        /\ db'.sessions = db.sessions \/ db'.sessions \subseteq d.sessions
    BY <1>1, <2>1, <2>3
  <2>6. HistTidy'
    BY <1>0, <2>1, <2>2, <2>4, <2>5 DEF HistTidy, HistTypeOK, Sound, Current
  <2>7. OpenSessionExplained'
    BY <1>0, <2>1, <2>2, <2>3, <2>5 DEF OpenSessionExplained, WithRow
  <2> QED
    BY <2>5, <2>6, <2>7 DEF HistInv
<1>10. CASE EndSession
  <2>1. /\ proc = "up" /\ doing = "end" /\ doing' = "rest"
        /\ session' = [session EXCEPT !.active = FALSE] /\ Upsert(Current, TRUE)
        /\ cut' = (IF worked' THEN cut ELSE cut \cup {Current})
        /\ UNCHANGED <<proc, life, uptime, count, mowing, warned>>
    BY <1>10 DEF EndSession
  <2>2. Current \in 1..SessionBound
    BY <1>0, <2>1 DEF HistTidy
  <2>3. PICK d : Writes(d) /\ d.sessions = WithRow(db.sessions, [id |-> Current, ended |-> TRUE])
    BY <1>0, <2>1, <2>2, UpsertWrites
  <2>4. worked' \in BOOLEAN
    BY <1>0, <2>1, <2>2, UpsertWrites
  <2>5. /\ Sound(db') /\ lost' \in [Lives -> 0..Never] /\ RetainInv' /\ BackupInv'
        /\ db'.sessions = db.sessions \/ db'.sessions \subseteq d.sessions
        /\ worked' => db'.sessions \subseteq d.sessions
    BY <1>1, <2>1, <2>3
  <2>6. HistTidy'
    BY <1>0, <2>1, <2>2, <2>4, <2>5 DEF HistTidy, HistTypeOK, Sound, Current
  <2>7. OpenSessionExplained'
    <3>1. \A s \in db.sessions : ~s.ended => s.id = Current \/ s.id \in cut
      BY <1>0 DEF OpenSessionExplained, Current
    <3>2. \A s \in d.sessions : ~s.ended => s.id # Current /\ s \in db.sessions
      BY <2>3 DEF WithRow
    <3>3. \A s \in db'.sessions : ~s.ended => s.id \in cut'
      BY <2>1, <2>4, <2>5, <3>1, <3>2
    <3> QED
      BY <3>3 DEF OpenSessionExplained
  <2> QED
    BY <2>5, <2>6, <2>7 DEF HistInv
<1>11. CASE TrackSession
  <2>1. /\ proc = "up" /\ session.active /\ Upsert(Current, FALSE)
        /\ UNCHANGED <<proc, life, uptime, count, mowing, doing, session, warned, cut>>
    BY <1>11 DEF TrackSession, LoopRuns
  <2>2. Current \in 1..SessionBound
    BY <1>0, <2>1 DEF HistTidy
  <2>3. PICK d : Writes(d) /\ d.sessions = WithRow(db.sessions, [id |-> Current, ended |-> FALSE])
    BY <1>0, <2>1, <2>2, UpsertWrites
  <2>4. worked' \in BOOLEAN
    BY <1>0, <2>1, <2>2, UpsertWrites
  <2>5. /\ Sound(db') /\ lost' \in [Lives -> 0..Never] /\ RetainInv' /\ BackupInv'
        /\ db'.sessions = db.sessions \/ db'.sessions \subseteq d.sessions
    BY <1>1, <2>1, <2>3
  <2>6. HistTidy'
    BY <1>0, <2>1, <2>4, <2>5 DEF HistTidy, HistTypeOK, Sound, Current
  <2>7. OpenSessionExplained'
    BY <1>0, <2>1, <2>3, <2>5 DEF OpenSessionExplained, WithRow, Current
  <2> QED
    BY <2>5, <2>6, <2>7 DEF HistInv
<1>12. CASE Clear
  <2>1. /\ db'.events = {} /\ db'.sessions \in {{}, db.sessions} /\ db'.version = db.version
        /\ db'.backup = db.backup /\ proc = "up"
        /\ db' \in [version : {"none", "old", "unknown", "current"}, fits : BOOLEAN,
                    events : SUBSET Events, sessions : SUBSET Rows, backup : BOOLEAN]
        /\ UNCHANGED <<proc, life, uptime, count, mowing, doing, session, warned, worked, cut, lost>>
    BY <1>0, <1>12 DEF Clear, HistTidy, Sound
  <2>2. Sound(db')
    BY <1>0, <2>1, FS_EmptySet DEF HistTidy, Sound, OneRowEach
  <2>3. HistTidy'
    BY <1>0, <2>1, <2>2 DEF HistTidy, HistTypeOK, Sound, Current
  <2>4. RetainInv'
    <3>1. worked => Limited(db')
      BY <1>0, <2>1, FS_EmptySet DEF RetainInv, Limited
    <3> QED
      BY <1>0, <2>1, <3>1 DEF RetainInv, Past, NewerThanLost
  <2>5. BackupInv' /\ OpenSessionExplained'
    BY <1>0, <2>1 DEF BackupInv, OpenSessionExplained
  <2> QED
    BY <2>3, <2>4, <2>5 DEF HistInv
<1>13. CASE UNCHANGED histVars
  <2>1. HistTidy'
    BY <1>0, <1>13 DEF histVars, HistTidy, HistTypeOK, Sound, Current
  <2>2. RetainInv'
    BY <1>0, <1>13 DEF histVars, RetainInv, Past, NewerThanLost, Limited
  <2>3. BackupInv' /\ OpenSessionExplained'
    BY <1>0, <1>13 DEF histVars, BackupInv, OpenSessionExplained
  <2> QED
    BY <2>1, <2>2, <2>3 DEF HistInv
<1> QED
  BY <1>2, <1>3, <1>4, <1>5, <1>6, <1>7, <1>8, <1>9, <1>10, <1>11, <1>12, <1>13 DEF HistNext

THEOREM HistoryKept == HistSpec => []HistInv
  BY HistInvInit, HistInvNext, PTL DEF HistSpec

\* For any limits, also none: a write that worked leaves both tables within them, and
\* of the events of one life of the process none is kept that is older than one that
\* retention took.
THEOREM RetentionAlwaysKeepsNewest == HistSpec => []RetentionKeepsNewest
<1>1. HistInv => RetentionKeepsNewest
  BY DEF HistInv, RetainInv, NewerThanLost, Limited, RetentionKeepsNewest
<1> QED
  BY <1>1, HistoryKept, PTL

\* A session that has no end in the database is the one going on, or one whose end
\* could not be written, wherever the process died.
THEOREM OpenSessionsAlwaysExplained == HistSpec => []OpenSessionExplained
<1>1. HistInv => OpenSessionExplained
  BY DEF HistInv
<1> QED
  BY <1>1, HistoryKept, PTL

\* A file of another version is not given ours in any step before it was copied.
THEOREM UpgradesBackUp == HistSpec => UpgradeBacksUp
<1>1. HistInv /\ [HistNext]_histVars =>
        [db.version \in {"old", "unknown"} /\ db'.version = "current" => db'.backup]_histVars
  <2> SUFFICES ASSUME HistInv, HistNext, db.version \in {"old", "unknown"},
                      db'.version = "current"
               PROVE  db'.backup
    OBVIOUS
  <2>0. HistTidy /\ RetainInv /\ BackupInv
    BY DEF HistInv
  <2>1. ~(SafetyEvent \/ Transition \/ BeginSession \/ EndSession \/ TrackSession)
    <3> SUFFICES ASSUME SafetyEvent \/ Transition \/ BeginSession \/ EndSession \/ TrackSession
                 PROVE  db'.version = db.version
      OBVIOUS
    <3>1. proc = "up" /\ UNCHANGED <<life, uptime>>
      BY DEF SafetyEvent, Transition, BeginSession, EndSession, TrackSession, LoopRuns
    <3>2. \E d : Writes(d)
      <4>1. Record => \E d : Writes(d)
        BY <2>0, <3>1, RecordWrites
      <4>2. ASSUME NEW id \in 1..SessionBound, NEW ended \in BOOLEAN, Upsert(id, ended)
            PROVE  \E d : Writes(d)
        BY <2>0, <4>2, UpsertWrites
      <4>3. doing = "begin" => Current + 1 \in 1..SessionBound
        BY <2>0, HistoryAssumption DEF HistTidy, HistTypeOK, Current
      <4>4. doing = "end" \/ session.active => Current \in 1..SessionBound
        BY <2>0 DEF HistTidy
      <4> QED
        BY <4>1, <4>2, <4>3, <4>4 DEF SafetyEvent, Transition, BeginSession, EndSession,
           TrackSession
    <3> QED
      BY <2>0, <3>1, <3>2, WritesKeep
  <2>2. CASE Bootstrap
    BY <2>0, <2>2 DEF Bootstrap, BackupInv, HistTidy, Sound
  <2>3. ~(Open \/ BootstrapFails \/ Stop \/ LoopPass \/ Clear)
    <3>1. db.version # "current"
      OBVIOUS
    <3> QED
      BY <2>0, <3>1 DEF Open, BootstrapFails, Stop, LoopPass, Clear, HistTidy, Sound
  <2> QED
    BY <2>1, <2>2, <2>3 DEF HistNext
<1> QED
  BY <1>1, HistoryKept, PTL DEF HistSpec, UpgradeBacksUp
=============================================================================
