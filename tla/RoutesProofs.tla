---------------------------- MODULE RoutesProofs ----------------------------
(***************************************************************************)
(* That a local route always returns to what it interrupted, for routes    *)
(* and docking paths of any length.  The inductive invariant is Sound of   *)
(* the route state; each lemma says that an operation of RuntimeState      *)
(* keeps it, and what it does to the mowing cursor.                        *)
(***************************************************************************)
EXTENDS Routes, TLAPS

\* LocalRouteSound and MowingReturns of a route state r.  With no mission the
\* target of the mode MOW is the origin, and the cursor is 0.
Sound(r) ==
  /\ r \in RouteStates
  /\ r.mode = "FREE" <=> r.detour.active
  /\ r.mode = "FREE" <=> r.free > 0
  /\ r.mode = "FREE" => r.freeIdx < r.free
  /\ r.mode = "MOW" => r.target = <<"mow", r.mowIdx>>
  /\ r.detour.active => r.detour.mowIdx = r.mowIdx
  /\ r.detour.active /\ r.detour.mode = "MOW" => r.detour.target = <<"mow", r.mowIdx>>

\* Only Dock, and an escape from it, have a route that docks: while undocking
\* or mowing the docking cursor never moves forward off the path.
OnlyDockDocks == rt.shouldDock => op = "Dock" \/ (op = "Escape" /\ back = "Dock")

IInv == TypeOK /\ Sound(rt) /\ OnlyDockDocks

\* What a step of the route from r to d keeps: the mission and its cursor, and
\* the way the docking path is run.
SameMission(r, d) == d.mow = r.mow /\ d.mowIdx = r.mowIdx
Kept(r, d)        == SameMission(r, d) /\ d.shouldDock = r.shouldDock

LEMMA NumbersSound ==
  /\ MowLen \in Nat /\ MowLen > 0 /\ MaxDock \in Nat
  /\ MaxFree \in Nat /\ MaxFree > 0 /\ MaxTries \in Nat /\ MaxTries > 0
BY RoutesAssumption

LEMMA MowTarget ==
  ASSUME NEW i \in 0..(MowLen - 1)
  PROVE  <<"mow", i>> \in Targets
BY NumbersSound DEF Targets

LEMMA DockTarget ==
  ASSUME NEW i \in 0..MaxDock
  PROVE  <<"dock", i>> \in Targets
BY NumbersSound DEF Targets

LEMMA FreeTarget ==
  ASSUME NEW i \in 0..(MaxFree - 1)
  PROVE  <<"free", i>> \in Targets
BY NumbersSound DEF Targets

\* RuntimeState::clear leaves a sound state without a mission.
LEMMA ClearedSound == Sound(Cleared)
<1>1. Origin \in Targets
  BY MowTarget, NumbersSound DEF Origin
<1>2. NoDetour \in [active : BOOLEAN, mode : {"MOW", "DOCK"}, target : Targets,
                    mowIdx : 0..(MowLen - 1), dockIdx : -1..MaxDock]
  BY <1>1, NumbersSound DEF NoDetour
<1>3. Cleared \in RouteStates
  BY <1>1, <1>2, NumbersSound DEF Cleared, RouteStates, Lengths
<1> QED
  BY <1>3 DEF Sound, Cleared, NoDetour, Origin

\* A mission that begins, or is resumed, at point i.
LEMMA StartPlannedMowingSound ==
  ASSUME NEW i \in 0..(MowLen - 1)
  PROVE  Sound(StartPlannedMowing(i)) /\ ~StartPlannedMowing(i).shouldDock
<1>1. Cleared \in RouteStates
  BY ClearedSound DEF Sound
<1>2. StartPlannedMowing(i) \in RouteStates
  BY <1>1, MowTarget DEF StartPlannedMowing, RouteStates
<1> QED
  BY <1>2 DEF Sound, StartPlannedMowing, Cleared, NoDetour

\* A local route returns to the mode and target it is given.
LEMMA BeginFreeRouteSound ==
  ASSUME NEW r \in RouteStates, NEW mode \in {"MOW", "DOCK"},
         NEW target \in Targets, NEW dockIdx \in -1..MaxDock, NEW n \in Found,
         mode = "MOW" => target = <<"mow", r.mowIdx>>
  PROVE  LET d == BeginFreeRoute(r, mode, target, dockIdx, n)
         IN Sound(d) /\ Kept(r, d) /\ d.mode = "FREE" /\ d.detour.mode = mode
<1> DEFINE d == BeginFreeRoute(r, mode, target, dockIdx, n)
<1>1. n \in Nat /\ n > 0 /\ n \in Lengths /\ 0 \in 0..(MaxFree - 1)
  BY NumbersSound DEF Found, Lengths
<1>2. d \in RouteStates
  BY <1>1, FreeTarget DEF BeginFreeRoute, RouteStates
<1>3. /\ d.mode = "FREE" /\ d.free = n /\ d.freeIdx = 0
      /\ d.mow = r.mow /\ d.mowIdx = r.mowIdx /\ d.shouldDock = r.shouldDock
      /\ d.detour = [active |-> TRUE, mode |-> mode, target |-> target,
                     mowIdx |-> r.mowIdx, dockIdx |-> dockIdx]
  BY DEF BeginFreeRoute, RouteStates
<1> QED
  BY <1>1, <1>2, <1>3 DEF Sound, SameMission, Kept

\* A detour around an obstacle, off a local route.
LEMMA DetoursSound ==
  ASSUME NEW r, Sound(r), r.mode # "FREE", NEW d \in Detours(r)
  PROVE  Sound(d) /\ Kept(r, d) /\ d.mode = "FREE"
<1>1. PICK n \in Found : d = BeginFreeRoute(r, r.mode, r.target, r.dockIdx, n)
  BY DEF Detours
<1>2. r \in RouteStates /\ r.mode \in {"MOW", "DOCK"} /\ r.target \in Targets
      /\ r.dockIdx \in -1..MaxDock
  BY DEF Sound, RouteStates
<1>3. r.mode = "MOW" => r.target = <<"mow", r.mowIdx>>
  BY DEF Sound
<1> QED
  BY ZenonT(60), <1>1, <1>2, <1>3, BeginFreeRouteSound

\* Dropping the local route leaves what it interrupted to be set.
LEMMA NoLocalSound ==
  ASSUME NEW r \in RouteStates
  PROVE  /\ NoLocal(r) \in RouteStates /\ Kept(r, NoLocal(r))
         /\ NoLocal(r).free = 0 /\ NoLocal(r).detour = NoDetour
<1>1. NoDetour \in [active : BOOLEAN, mode : {"MOW", "DOCK"}, target : Targets,
                    mowIdx : 0..(MowLen - 1), dockIdx : -1..MaxDock]
  BY MowTarget, NumbersSound DEF NoDetour, Origin
<1>2. 0 \in Lengths /\ 0 \in 0..(MaxFree - 1)
  BY NumbersSound DEF Lengths
<1>3. NoLocal(r) \in RouteStates
  BY <1>1, <1>2 DEF NoLocal, RouteStates
<1>4. /\ NoLocal(r).mow = r.mow /\ NoLocal(r).mowIdx = r.mowIdx
      /\ NoLocal(r).free = 0 /\ NoLocal(r).detour = NoDetour
      /\ NoLocal(r).shouldDock = r.shouldDock
  BY DEF NoLocal, RouteStates
<1> QED
  BY <1>3, <1>4 DEF SameMission, Kept

\* startDocking and retryDocking: on the docking path, or on the way to it.
LEMMA StartDockingSound ==
  ASSUME NEW r, Sound(r), dockLen \in 0..MaxDock, NEW d \in StartDocking(r)
  PROVE  /\ Sound(d) /\ SameMission(r, d) /\ d.mode \in {"DOCK", "FREE"}
         /\ d.mode = "FREE" => d.detour.mode = "DOCK"
<1> DEFINE e == [r EXCEPT !.shouldDock = TRUE, !.dockIdx = 0]
<1>1. r \in RouteStates
  BY DEF Sound
<1>2. 0 \in -1..MaxDock /\ <<"dock", 0>> \in Targets
  BY NumbersSound, DockTarget
<1>3. e \in RouteStates /\ SameMission(r, e)
  BY <1>1, <1>2 DEF RouteStates, SameMission
<1>4. CASE d \in {BeginFreeRoute(e, "DOCK", <<"dock", 0>>, 0, n) : n \in Found}
  <2>1. PICK n \in Found : d = BeginFreeRoute(e, "DOCK", <<"dock", 0>>, 0, n)
    BY <1>4
  <2>2. /\ Sound(d) /\ SameMission(e, d) /\ d.mode = "FREE"
        /\ d.detour.mode = "DOCK"
    BY <1>2, <1>3, <2>1, BeginFreeRouteSound DEF Kept
  <2> QED
    BY <1>3, <2>2 DEF SameMission, Kept
<1>5. CASE d = [NoLocal(e) EXCEPT !.mode = "DOCK", !.target = <<"dock", 0>>]
  <2>1. /\ NoLocal(e) \in RouteStates /\ SameMission(e, NoLocal(e))
        /\ NoLocal(e).free = 0 /\ NoLocal(e).detour = NoDetour
    BY <1>3, NoLocalSound DEF Kept
  <2>2. d \in RouteStates
    BY <1>2, <1>5, <2>1 DEF RouteStates
  <2>3. /\ d.mode = "DOCK" /\ d.free = 0 /\ ~d.detour.active
        /\ SameMission(r, d)
    BY <1>3, <1>5, <2>1 DEF RouteStates, SameMission, NoDetour
  <2> QED
    BY <2>2, <2>3 DEF Sound
<1> QED
  BY <1>4, <1>5 DEF StartDocking

\* An injected approach is docking still.
LEMMA InjectFreePathSound ==
  ASSUME NEW r, Sound(r), r.mode \in {"DOCK", "FREE"},
         r.mode = "FREE" => r.detour.mode = "DOCK", NEW n \in Lengths
  PROVE  Sound(InjectFreePath(r, n)) /\ SameMission(r, InjectFreePath(r, n))
<1>1. CASE n = 0
  BY <1>1 DEF InjectFreePath, SameMission
<1>2. CASE n # 0
  <2>1. n \in Found
    BY <1>2, NumbersSound DEF Lengths, Found
  <2>2. (IF r.detour.active THEN r.detour.mode ELSE r.mode) = "DOCK"
    BY DEF Sound
  <2>3. InjectFreePath(r, n) = BeginFreeRoute(r, "DOCK", r.target, r.dockIdx, n)
    BY <1>2, <2>2 DEF InjectFreePath
  <2>4. r \in RouteStates /\ r.target \in Targets /\ r.dockIdx \in -1..MaxDock
    BY DEF Sound, RouteStates
  <2> QED
    BY <2>1, <2>3, <2>4, BeginFreeRouteSound DEF Kept
<1> QED
  BY <1>1, <1>2

\* Undocking runs the docking path backwards.
LEMMA StartUndockingSound ==
  ASSUME NEW r, Sound(r), dockLen \in 0..MaxDock, dockLen >= 2
  PROVE  /\ Sound(StartUndocking(r)) /\ SameMission(r, StartUndocking(r))
         /\ ~StartUndocking(r).shouldDock
<1> DEFINE d == StartUndocking(r)
<1>1. dockLen - 2 \in 0..MaxDock /\ dockLen - 1 \in -1..MaxDock
  BY NumbersSound
<1>2. r \in RouteStates
  BY DEF Sound
<1>3. /\ NoLocal(r) \in RouteStates /\ SameMission(r, NoLocal(r))
      /\ NoLocal(r).free = 0 /\ NoLocal(r).detour = NoDetour
  BY <1>2, NoLocalSound DEF Kept
<1>4. <<"dock", dockLen - 2>> \in Targets
  BY <1>1, DockTarget
<1>5. d \in RouteStates
  BY <1>1, <1>3, <1>4 DEF StartUndocking, RouteStates
<1>6. /\ d.mode = "DOCK" /\ d.free = 0 /\ ~d.detour.active /\ SameMission(r, d)
      /\ ~d.shouldDock
  BY <1>3 DEF StartUndocking, RouteStates, SameMission, NoDetour
<1> QED
  BY <1>5, <1>6 DEF Sound

\* The mowing cursor stays or moves on by one, and the target with it.
LEMMA NextMowPointSound ==
  ASSUME NEW r, Sound(r), r.mode = "MOW"
  PROVE  LET s == NextMowPoint(r)
         IN /\ Sound(s.rt) /\ s.ok \in BOOLEAN /\ s.rt.mode = "MOW"
            /\ s.rt.mow = r.mow /\ s.rt.shouldDock = r.shouldDock
            /\ s.rt.mowIdx \in {r.mowIdx, r.mowIdx + 1}
            /\ ~s.ok => s.rt = r
<1> DEFINE s == NextMowPoint(r)
<1>1. r \in RouteStates /\ r.mowIdx \in 0..(MowLen - 1) /\ r.mow \in {0, MowLen}
      /\ ~r.detour.active /\ r.target = <<"mow", r.mowIdx>>
  BY DEF Sound, RouteStates
<1>2. CASE r.mowIdx + 1 < r.mow
  <2>1. /\ r.mowIdx + 1 \in 0..(MowLen - 1)
        /\ <<"mow", r.mowIdx + 1>> \in Targets
    BY <1>1, <1>2, NumbersSound, MowTarget
  <2>2. /\ s.ok = TRUE
        /\ s.rt = [r EXCEPT !.mowIdx = r.mowIdx + 1, !.target = <<"mow", r.mowIdx + 1>>]
    BY <1>2 DEF NextMowPoint, Moved
  <2>3. s.rt \in RouteStates
    BY <1>1, <2>1, <2>2 DEF RouteStates
  <2>4. /\ s.rt.mode = "MOW" /\ s.rt.mow = r.mow /\ s.rt.shouldDock = r.shouldDock
        /\ s.rt.mowIdx = r.mowIdx + 1 /\ s.rt.target = <<"mow", r.mowIdx + 1>>
        /\ s.rt.detour = r.detour /\ s.rt.free = r.free
    BY <1>1, <2>2 DEF RouteStates
  <2> QED
    BY <1>1, <2>2, <2>3, <2>4 DEF Sound
<1>3. CASE ~(r.mowIdx + 1 < r.mow)
  <2>1. r.mow # 0 => r.mow - 1 = r.mowIdx
    BY <1>1, <1>3, NumbersSound
  <2>2. [r EXCEPT !.mowIdx = IF r.mow = 0 THEN r.mowIdx ELSE r.mow - 1] = r
    BY <1>1, <2>1 DEF RouteStates
  <2>3. s.ok = FALSE /\ s.rt = r
    BY <1>3, <2>2 DEF NextMowPoint, Ended
  <2> QED
    BY <1>1, <2>3
<1> QED
  BY <1>2, <1>3

\* The end of a local route returns to what it interrupted.
LEMMA NextFreePointSound ==
  ASSUME NEW r, Sound(r), r.mode = "FREE"
  PROVE  LET s == NextFreePoint(r)
         IN s.ok /\ Sound(s.rt) /\ Kept(r, s.rt)
<1> DEFINE s == NextFreePoint(r)
<1>1. /\ r \in RouteStates /\ r.freeIdx \in 0..(MaxFree - 1) /\ r.free \in 0..MaxFree
      /\ r.detour.active /\ r.freeIdx < r.free
      /\ r.detour.mode \in {"MOW", "DOCK"} /\ r.detour.target \in Targets
      /\ r.detour.mowIdx = r.mowIdx /\ r.detour.dockIdx \in -1..MaxDock
      /\ r.detour.mode = "MOW" => r.detour.target = <<"mow", r.mowIdx>>
  BY DEF Sound, RouteStates, Lengths
<1>2. CASE r.freeIdx + 1 < r.free
  <2>1. r.freeIdx + 1 \in 0..(MaxFree - 1)
    BY <1>1, <1>2, NumbersSound
  <2>2. /\ s.ok
        /\ s.rt = [r EXCEPT !.freeIdx = r.freeIdx + 1, !.target = <<"free", r.freeIdx + 1>>]
    BY <1>2 DEF NextFreePoint, Moved
  <2>3. s.rt \in RouteStates
    BY <1>1, <2>1, <2>2, FreeTarget DEF RouteStates
  <2>4. /\ s.rt.mode = "FREE" /\ s.rt.mow = r.mow /\ s.rt.shouldDock = r.shouldDock
        /\ s.rt.mowIdx = r.mowIdx /\ s.rt.freeIdx = r.freeIdx + 1
        /\ s.rt.detour = r.detour /\ s.rt.free = r.free
    BY <1>1, <2>2 DEF RouteStates
  <2> QED
    BY <1>1, <1>2, <2>2, <2>3, <2>4 DEF Sound, Kept, SameMission
<1>3. CASE ~(r.freeIdx + 1 < r.free)
  <2>1. /\ NoLocal(r) \in RouteStates /\ Kept(r, NoLocal(r))
        /\ NoLocal(r).free = 0 /\ NoLocal(r).detour = NoDetour
    BY <1>1, NoLocalSound
  <2>2. /\ s.ok
        /\ s.rt = [NoLocal(r) EXCEPT !.mode = r.detour.mode,
                     !.target = r.detour.target, !.mowIdx = r.detour.mowIdx,
                     !.dockIdx = r.detour.dockIdx]
    BY <1>3 DEF NextFreePoint, Moved
  <2>3. r.detour.mowIdx \in 0..(MowLen - 1)
    BY <1>1 DEF RouteStates
  <2>4. s.rt \in RouteStates
    BY ZenonT(60), <1>1, <2>1, <2>2, <2>3 DEF RouteStates
  <2>5. /\ s.rt.mode = r.detour.mode /\ s.rt.target = r.detour.target
        /\ s.rt.mowIdx = r.mowIdx /\ s.rt.mow = r.mow
        /\ s.rt.shouldDock = r.shouldDock
        /\ s.rt.free = 0 /\ ~s.rt.detour.active
    BY <1>1, <2>1, <2>2 DEF RouteStates, Kept, SameMission, NoDetour
  <2> QED
    BY <1>1, <2>2, <2>4, <2>5 DEF Sound, Kept, SameMission
<1> QED
  BY <1>2, <1>3

\* The docking path, run forwards or backwards.  Its cursor may leave the path
\* when docking has come to the end; then only the cursor has changed.
LEMMA NextDockPointSound ==
  ASSUME NEW r, Sound(r), r.mode = "DOCK", dockLen \in 0..MaxDock
  PROVE  LET s == NextDockPoint(r)
         IN /\ s.ok \in BOOLEAN
            /\ s.ok \/ ~r.shouldDock => Sound(s.rt) /\ Kept(r, s.rt)
            /\ ~s.ok => \E i \in Int : s.rt = [r EXCEPT !.dockIdx = i]
<1> DEFINE s == NextDockPoint(r)
<1>1. /\ r \in RouteStates /\ r.dockIdx \in -1..MaxDock /\ r.shouldDock \in BOOLEAN
      /\ r.free = 0 /\ ~r.detour.active /\ dockLen \in Nat /\ dockLen <= MaxDock
  BY NumbersSound DEF Sound, RouteStates, Lengths
<1>2. ASSUME NEW i \in -1..MaxDock, NEW j \in 0..MaxDock, NEW d,
             \/ d = [r EXCEPT !.dockIdx = i]
             \/ d = [r EXCEPT !.dockIdx = i, !.target = <<"dock", j>>]
      PROVE  Sound(d) /\ Kept(r, d)
  <2>1. <<"dock", j>> \in Targets
    BY DockTarget
  <2>2. d \in RouteStates
    BY ZenonT(60), <1>1, <1>2, <2>1 DEF RouteStates
  <2>3. /\ d.mode = r.mode /\ d.mow = r.mow /\ d.mowIdx = r.mowIdx
        /\ d.shouldDock = r.shouldDock /\ d.free = r.free /\ d.detour = r.detour
    BY <1>1, <1>2 DEF RouteStates
  <2> QED
    BY <1>1, <2>2, <2>3 DEF Sound, Kept, SameMission
<1>3. CASE dockLen = 0
  <2>1. s.ok = FALSE /\ s.rt = r
    BY <1>3 DEF NextDockPoint, Ended
  <2>2. r = [r EXCEPT !.dockIdx = r.dockIdx] /\ r.dockIdx \in Int
    BY <1>1 DEF RouteStates
  <2> QED
    BY <2>1, <2>2 DEF Kept, SameMission
<1>4. CASE dockLen > 0 /\ ~r.shouldDock
  <2>1. CASE r.dockIdx > 1
    <3>1. /\ s.ok = TRUE
          /\ s.rt = [r EXCEPT !.dockIdx = r.dockIdx - 1,
                              !.target = <<"dock", r.dockIdx - 2>>]
      BY <1>1, <1>4, <2>1 DEF NextDockPoint, Moved
    <3>2. r.dockIdx - 1 \in -1..MaxDock /\ r.dockIdx - 2 \in 0..MaxDock
      BY <1>1, <2>1, NumbersSound
    <3>3. Sound(s.rt) /\ Kept(r, s.rt)
      BY <1>2, <3>1, <3>2
    <3> QED
      BY <3>1, <3>2, <3>3
  <2>2. CASE ~(r.dockIdx > 1)
    <3> DEFINE i == IF r.dockIdx > -1 THEN r.dockIdx - 1 ELSE r.dockIdx
    <3>1. s.ok = FALSE /\ s.rt = [r EXCEPT !.dockIdx = i]
      BY <1>1, <1>4, <2>2 DEF NextDockPoint, Ended
    <3>2. i \in -1..MaxDock /\ i \in Int /\ 0 \in 0..MaxDock
      BY <1>1, NumbersSound
    <3> HIDE DEF i
    <3>3. Sound(s.rt) /\ Kept(r, s.rt)
      BY <1>2, <3>1, <3>2
    <3> QED
      BY <3>1, <3>2, <3>3
  <2> QED
    BY <2>1, <2>2
<1>5. CASE dockLen > 0 /\ r.shouldDock
  <2>1. CASE r.dockIdx + 1 < dockLen
    <3>1. /\ s.ok = TRUE
          /\ s.rt = [r EXCEPT !.dockIdx = r.dockIdx + 1,
                              !.target = <<"dock", r.dockIdx + 1>>]
      BY <1>1, <1>5, <2>1 DEF NextDockPoint, Moved
    <3>2. r.dockIdx + 1 \in -1..MaxDock /\ r.dockIdx + 1 \in 0..MaxDock
      BY <1>1, <2>1, NumbersSound
    <3>3. Sound(s.rt) /\ Kept(r, s.rt)
      BY <1>2, <3>1, <3>2
    <3> QED
      BY <3>1, <3>2, <3>3
  <2>2. CASE ~(r.dockIdx + 1 < dockLen)
    <3>1. s.ok = FALSE /\ s.rt = [r EXCEPT !.dockIdx = r.dockIdx + 1]
      BY <1>1, <1>5, <2>2 DEF NextDockPoint, Ended
    <3>2. r.dockIdx + 1 \in Int
      BY <1>1, NumbersSound
    <3> QED
      BY <1>5, <3>1, <3>2
  <2> QED
    BY <2>1, <2>2
<1>6. dockLen = 0 \/ dockLen > 0
  BY <1>1
<1> QED
  BY <1>3, <1>4, <1>5, <1>6

\* nextPoint, a detour on the way to the next point included.
LEMMA NextPointSound ==
  ASSUME NEW r, Sound(r), dockLen \in 0..MaxDock, NEW s \in NextPoint(r)
  PROVE  /\ s.ok \in BOOLEAN
         /\ s.ok \/ ~r.shouldDock =>
              /\ Sound(s.rt) /\ s.rt.mow = r.mow
              /\ s.rt.shouldDock = r.shouldDock
              /\ s.rt.mowIdx \in {r.mowIdx, r.mowIdx + 1}
         /\ ~s.ok => \E i \in Int : s.rt = [r EXCEPT !.dockIdx = i]
<1> DEFINE e == CASE r.mode = "MOW"  -> NextMowPoint(r)
                  [] r.mode = "DOCK" -> NextDockPoint(r)
                  [] r.mode = "FREE" -> NextFreePoint(r)
           Good(t) == /\ t.ok \in BOOLEAN
                      /\ t.ok \/ ~r.shouldDock =>
                           /\ Sound(t.rt) /\ t.rt.mow = r.mow
                           /\ t.rt.shouldDock = r.shouldDock
                           /\ t.rt.mowIdx \in {r.mowIdx, r.mowIdx + 1}
                      /\ ~t.ok => \E i \in Int : t.rt = [r EXCEPT !.dockIdx = i]
<1>1. r \in RouteStates /\ r.mode \in {"MOW", "DOCK", "FREE"}
      /\ r.dockIdx \in Int /\ r = [r EXCEPT !.dockIdx = r.dockIdx]
  BY NumbersSound DEF Sound, RouteStates
<1>2. Good(e)
  <2>1. CASE r.mode = "MOW"
    <3>1. e = NextMowPoint(r)
      BY <2>1
    <3> HIDE DEF e
    <3> QED
      BY <1>1, <2>1, <3>1, NextMowPointSound
  <2>2. CASE r.mode = "DOCK"
    <3>1. e = NextDockPoint(r)
      BY <2>2
    <3> HIDE DEF e
    <3> QED
      BY <2>2, <3>1, NextDockPointSound DEF Kept, SameMission
  <2>3. CASE r.mode = "FREE"
    <3>1. e = NextFreePoint(r)
      BY <2>3
    <3>2. NextFreePoint(r).ok = TRUE
      <4>1. CASE r.freeIdx + 1 < r.free
        BY <4>1 DEF NextFreePoint, Moved
      <4>2. CASE ~(r.freeIdx + 1 < r.free)
        BY <4>2 DEF NextFreePoint, Moved
      <4> QED
        BY <4>1, <4>2
    <3> HIDE DEF e
    <3> QED
      BY <2>3, <3>1, <3>2, NextFreePointSound DEF Kept, SameMission
  <2> QED
    BY <1>1, <2>1, <2>2, <2>3
<1>0. NextPoint(r) = {e} \union IF e.ok /\ e.rt.mode # "FREE" /\ inTheWay
                                THEN {Moved(d) : d \in Detours(e.rt)} ELSE {}
  BY DEF NextPoint
<1> HIDE DEF e
<1>3. \/ s = e
      \/ e.ok /\ e.rt.mode # "FREE" /\ \E d \in Detours(e.rt) : s = Moved(d)
  <2>1. CASE e.ok /\ e.rt.mode # "FREE" /\ inTheWay
    BY <1>0, <2>1
  <2>2. CASE ~(e.ok /\ e.rt.mode # "FREE" /\ inTheWay)
    BY <1>0, <2>2
  <2> QED
    BY <2>1, <2>2
<1>4. ASSUME e.ok, e.rt.mode # "FREE", NEW d \in Detours(e.rt), s = Moved(d)
      PROVE  Good(s)
  <2>1. s.ok = TRUE /\ s.rt = d
    BY <1>4 DEF Moved
  <2>2. Sound(d) /\ Kept(e.rt, d)
    BY <1>2, <1>4, DetoursSound
  <2> QED
    BY <1>2, <1>4, <2>1, <2>2 DEF Kept, SameMission
<1>5. Good(s)
  BY <1>2, <1>3, <1>4
<1> QED
  BY <1>5
----------------------------------------------------------------------------
(* The operations                                                          *)

Tries == [all : 0..MaxTries, idle : 0..1]
Ops   == {"Idle", "Charge", "NavToStart", "Mow", "Dock", "Escape", "Undock",
          "UndockPath"}

\* What every step of an operation has to show: the next route is sound, docks
\* only in Dock, and is that of the same mission, not behind it, or of none.
GoodStep ==
  /\ op' \in Ops /\ back' \in {"Idle", "NavToStart", "Mow", "Dock"}
  /\ dockLen' \in 0..MaxDock /\ tries' \in Tries
  /\ saved' \in {None} \union 0..(MowLen - 1) /\ inTheWay' \in BOOLEAN
  /\ Sound(rt') /\ OnlyDockDocks'
  /\ \/ StartMowing \/ rt.mow = 0 \/ rt'.mow = 0
     \/ rt'.mowIdx \in {rt.mowIdx, rt.mowIdx + 1}

\* Idle, Charge and Error leave no mission.
LEMMA RestSound ==
  ASSUME NEW o, Rest(o), tries \in Tries
  PROVE  /\ op' = o /\ tries' \in Tries /\ Sound(rt')
         /\ ~rt'.shouldDock /\ rt'.mow = 0
BY ClearedSound DEF Rest, Cleared

\* DockOp::begin docks with the mission kept, or gives up.
LEMMA BeginDockSound ==
  ASSUME NEW r, Sound(r), dockLen \in 0..MaxDock, tries \in Tries, BeginDock(r)
  PROVE  /\ tries' \in Tries /\ Sound(rt')
         /\ \/ op' = "Idle" /\ ~rt'.shouldDock /\ rt'.mow = 0
            \/ op' = "Dock" /\ SameMission(r, rt')
<1>1. CASE StartDocking(r) = {}
  BY <1>1, RestSound DEF BeginDock
<1>2. CASE StartDocking(r) # {}
  <2>1. PICK d \in StartDocking(r), n \in Lengths : rt' = InjectFreePath(d, n)
    BY <1>2 DEF BeginDock
  <2>2. /\ Sound(d) /\ SameMission(r, d) /\ d.mode \in {"DOCK", "FREE"}
        /\ d.mode = "FREE" => d.detour.mode = "DOCK"
    BY StartDockingSound
  <2>3. Sound(rt') /\ SameMission(d, rt')
    BY <2>1, <2>2, InjectFreePathSound
  <2>4. op' = "Dock" /\ tries' = [all |-> 0, idle |-> 0]
    BY <1>2 DEF BeginDock
  <2>5. tries' \in Tries
    BY <2>4, NumbersSound DEF Tries
  <2> QED
    BY <2>2, <2>3, <2>4, <2>5 DEF SameMission
<1> QED
  BY <1>1, <1>2

LEMMA StartMowingGood == ASSUME IInv, StartMowing PROVE GoodStep
<1>1. PICK i \in 0..(MowLen - 1) : rt' = StartPlannedMowing(i)
  BY NumbersSound DEF StartMowing, IInv, TypeOK, None
<1>2. Sound(rt') /\ ~rt'.shouldDock
  BY <1>1, StartPlannedMowingSound
<1>3. /\ op' \in {"Undock", "NavToStart"}
      /\ saved' \in {None, saved} /\ UNCHANGED <<back, dockLen, tries, inTheWay>>
  BY DEF StartMowing
<1> QED
  BY <1>2, <1>3 DEF GoodStep, IInv, TypeOK, Tries, Ops, OnlyDockDocks

LEMMA OperatorDocksGood == ASSUME IInv, OperatorDocks PROVE GoodStep
<1>1. /\ saved' \in {None} \union 0..(MowLen - 1)
      /\ UNCHANGED <<back, dockLen, inTheWay>>
  BY DEF OperatorDocks, IInv, TypeOK, RouteStates
<1>2. Cleared.mow = 0 /\ ~Cleared.shouldDock /\ Sound(Cleared)
  BY ClearedSound DEF Cleared
<1>3. CASE op = "Dock"
  <2>1. rt' = Cleared /\ UNCHANGED <<op, tries>>
    BY <1>3 DEF OperatorDocks
  <2> QED
    BY <1>1, <1>2, <1>3, <2>1 DEF GoodStep, IInv, TypeOK, Tries, Ops, OnlyDockDocks
<1>4. CASE op # "Dock"
  <2>1. BeginDock(Cleared)
    BY <1>4 DEF OperatorDocks
  <2>2. /\ tries' \in Tries /\ Sound(rt') /\ rt'.mow = 0
        /\ op' = "Dock" \/ (op' = "Idle" /\ ~rt'.shouldDock)
    BY <1>2, <2>1, BeginDockSound DEF IInv, TypeOK, Tries, SameMission
  <2> QED
    BY <1>1, <2>2 DEF GoodStep, IInv, TypeOK, Ops, OnlyDockDocks
<1> QED
  BY <1>3, <1>4

LEMMA RobotDocksGood == ASSUME IInv, RobotDocks PROVE GoodStep
<1>1. BeginDock(rt) /\ UNCHANGED <<back, dockLen, saved, inTheWay>>
  BY DEF RobotDocks
<1>2. /\ tries' \in Tries /\ Sound(rt')
      /\ \/ op' = "Idle" /\ ~rt'.shouldDock /\ rt'.mow = 0
         \/ op' = "Dock" /\ SameMission(rt, rt')
  BY <1>1, BeginDockSound DEF IInv, TypeOK, Tries
<1> QED
  BY <1>1, <1>2 DEF GoodStep, IInv, TypeOK, Ops, OnlyDockDocks, SameMission

LEMMA InterruptGood == ASSUME IInv, Interrupt PROVE GoodStep
BY DEF Interrupt, GoodStep, IInv, TypeOK, Tries, Ops, OnlyDockDocks

LEMMA FinishGood == ASSUME IInv, Finish PROVE GoodStep
<1>1. \E o \in {"Charge", "Idle"} : Rest(o)
  BY DEF Finish
<1>2. UNCHANGED <<back, dockLen, saved, inTheWay>>
  BY DEF Finish
<1>3. /\ op' \in {"Charge", "Idle"} /\ tries' \in Tries /\ Sound(rt')
      /\ ~rt'.shouldDock /\ rt'.mow = 0
  BY <1>1, RestSound DEF IInv, TypeOK, Tries
<1> QED
  BY <1>2, <1>3 DEF GoodStep, IInv, TypeOK, Ops, OnlyDockDocks

\* After an escape, with a detour or without; the interrupted operation is not
\* Dock, or begins anew.
LEMMA ContinueGood == ASSUME IInv, Continue PROVE GoodStep
<1>1. PICK r \in Replan(rt) \union {rt} :
        IF back = "Dock" THEN BeginDock(r)
        ELSE op' = back /\ rt' = r /\ UNCHANGED tries
  BY DEF Continue
<1>2. Sound(r) /\ Kept(rt, r)
  <2>1. CASE r = rt
    BY <2>1 DEF IInv, Kept, SameMission
  <2>2. CASE r \in Replan(rt)
    BY <2>2, DetoursSound DEF Replan, IInv
  <2> QED
    BY <2>1, <2>2
<1>3. op = "Escape" /\ UNCHANGED <<back, dockLen, saved, inTheWay>>
  BY DEF Continue
<1>4. CASE back = "Dock"
  <2>1. /\ tries' \in Tries /\ Sound(rt')
        /\ \/ op' = "Idle" /\ ~rt'.shouldDock /\ rt'.mow = 0
           \/ op' = "Dock" /\ SameMission(r, rt')
    BY <1>1, <1>2, <1>4, BeginDockSound DEF IInv, TypeOK, Tries
  <2> QED
    BY <1>2, <1>3, <2>1 DEF GoodStep, IInv, TypeOK, Ops, OnlyDockDocks, Kept, SameMission
<1>5. CASE back # "Dock"
  <2>1. op' = back /\ rt' = r /\ UNCHANGED tries
    BY <1>1, <1>5
  <2>2. ~rt'.shouldDock
    BY <1>2, <1>3, <1>5, <2>1 DEF IInv, OnlyDockDocks, Kept
  <2> QED
    BY <1>2, <1>3, <2>1, <2>2 DEF GoodStep, IInv, TypeOK, Tries, Ops, OnlyDockDocks,
                                  Kept, SameMission
<1> QED
  BY <1>4, <1>5

LEMMA BlindReverseDoneGood == ASSUME IInv, BlindReverseDone PROVE GoodStep
<1>1. op = "Undock" /\ UNCHANGED <<back, dockLen, saved, tries, inTheWay>>
  BY DEF BlindReverseDone
<1>2. CASE dockLen >= 2
  <2>1. op' = "UndockPath" /\ rt' = StartUndocking(rt)
    BY <1>2 DEF BlindReverseDone
  <2>2. Sound(rt') /\ SameMission(rt, rt') /\ ~rt'.shouldDock
    BY <1>2, <2>1, StartUndockingSound DEF IInv, TypeOK
  <2> QED
    BY <1>1, <2>1, <2>2 DEF GoodStep, IInv, TypeOK, Tries, Ops, OnlyDockDocks, SameMission
<1>3. CASE ~(dockLen >= 2)
  <2>1. op' = "NavToStart" /\ UNCHANGED rt
    BY <1>3 DEF BlindReverseDone
  <2> QED
    BY <1>1, <2>1 DEF GoodStep, IInv, TypeOK, Tries, Ops, OnlyDockDocks
<1> QED
  BY <1>2, <1>3

\* A detour from the path of any operation; it stays the same operation, except
\* that undocking goes on to the route.
LEMMA TrackAroundGood == ASSUME IInv, TrackAround PROVE GoodStep
<1>1. /\ op \in {"NavToStart", "Mow", "Dock", "UndockPath"}
      /\ rt' \in Replan(rt)
      /\ op' = IF op = "UndockPath" THEN "NavToStart" ELSE op
      /\ UNCHANGED <<back, dockLen, saved, tries, inTheWay>>
  BY DEF TrackAround
<1>2. Sound(rt') /\ Kept(rt, rt')
  BY <1>1, DetoursSound DEF Replan, IInv
<1> QED
  BY <1>1, <1>2 DEF GoodStep, IInv, TypeOK, Tries, Ops, OnlyDockDocks, Kept, SameMission

LEMMA LoadMapGood == ASSUME IInv, LoadMap PROVE GoodStep
<1>1. dockLen' \in 0..MaxDock /\ UNCHANGED <<back, saved, inTheWay>>
  BY DEF LoadMap
<1>2. CASE op \in {"NavToStart", "Mow", "Dock"}
  <2>1. Rest("Idle")
    BY <1>2 DEF LoadMap
  <2>2. /\ op' = "Idle" /\ tries' \in Tries /\ Sound(rt')
        /\ ~rt'.shouldDock /\ rt'.mow = 0
    BY <2>1, RestSound DEF IInv, TypeOK, Tries
  <2> QED
    BY <1>1, <2>2 DEF GoodStep, IInv, TypeOK, Ops, OnlyDockDocks
<1>3. CASE op \notin {"NavToStart", "Mow", "Dock"}
  <2>1. UNCHANGED <<op, rt, tries>>
    BY <1>3 DEF LoadMap
  <2> QED
    BY <1>1, <2>1 DEF GoodStep, IInv, TypeOK, Tries, Ops, OnlyDockDocks
<1> QED
  BY <1>2, <1>3

LEMMA ObstaclesGood == ASSUME IInv, Obstacles PROVE GoodStep
BY DEF Obstacles, GoodStep, IInv, TypeOK, Tries, Ops, OnlyDockDocks

\* Off the dock every next point is sound, the end of the mission included.
LEMMA TargetReachedGood == ASSUME IInv, TargetReached PROVE GoodStep
<1>1. op \in {"NavToStart", "Mow", "UndockPath"}
      /\ UNCHANGED <<back, dockLen, saved, inTheWay>>
  BY DEF TargetReached
<1>2. PICK s \in NextPoint(rt) :
       \/ op = "NavToStart" /\ op' = "Mow" /\ rt' = s.rt /\ UNCHANGED tries
       \/ op = "Mow" /\ s.ok /\ rt' = s.rt /\ UNCHANGED <<op, tries>>
       \/ op = "Mow" /\ ~s.ok /\ BeginDock(s.rt)
       \/ /\ op = "UndockPath" /\ rt' = s.rt
          /\ op' \in {op, "NavToStart"} /\ UNCHANGED tries
  BY DEF TargetReached
<1>3. ~rt.shouldDock
  BY <1>1 DEF IInv, OnlyDockDocks
<1>4. /\ Sound(s.rt) /\ s.rt.mow = rt.mow /\ ~s.rt.shouldDock
      /\ s.rt.mowIdx \in {rt.mowIdx, rt.mowIdx + 1}
  BY <1>3, NextPointSound DEF IInv, TypeOK
<1>5. CASE op = "Mow" /\ ~s.ok /\ BeginDock(s.rt)
  <2>1. /\ tries' \in Tries /\ Sound(rt')
        /\ \/ op' = "Idle" /\ ~rt'.shouldDock /\ rt'.mow = 0
           \/ op' = "Dock" /\ SameMission(s.rt, rt')
    BY <1>4, <1>5, BeginDockSound DEF IInv, TypeOK, Tries
  <2> QED
    BY <1>1, <1>4, <2>1 DEF GoodStep, IInv, TypeOK, Ops, OnlyDockDocks, SameMission
<1>6. CASE rt' = s.rt /\ UNCHANGED tries /\ op' \in {op, "Mow", "NavToStart"}
  BY <1>1, <1>4, <1>6 DEF GoodStep, IInv, TypeOK, Tries, Ops, OnlyDockDocks
<1> QED
  BY <1>2, <1>5, <1>6

\* At the end of the docking path DockOp sets the cursor back before it counts,
\* so that it does not matter how far it went.
LEMMA DockTargetReachedGood == ASSUME IInv, DockTargetReached PROVE GoodStep
<1>1. op = "Dock" /\ UNCHANGED <<back, dockLen, saved, inTheWay>>
  BY DEF DockTargetReached
<1>2. PICK s \in NextPoint(rt) :
       \/ s.ok /\ rt' = s.rt /\ UNCHANGED <<op, tries>>
       \/ /\ ~s.ok
          /\ \E idle \in {0, tries.idle + 1} :
               IF GivesUp(idle) \/ StartDocking(s.rt) = {}
               THEN Rest("Idle")
               ELSE /\ rt' \in StartDocking(s.rt)
                    /\ tries' = Retried(idle)
                    /\ UNCHANGED op
  BY DEF DockTargetReached
<1>3. Sound(rt) /\ dockLen \in 0..MaxDock /\ tries \in Tries
  BY DEF IInv, TypeOK, Tries
<1>4. CASE s.ok /\ rt' = s.rt /\ UNCHANGED <<op, tries>>
  <2>1. Sound(rt') /\ rt'.mow = rt.mow /\ rt'.mowIdx \in {rt.mowIdx, rt.mowIdx + 1}
    BY <1>3, <1>4, NextPointSound
  <2> QED
    BY <1>1, <1>4, <2>1 DEF GoodStep, IInv, TypeOK, Tries, Ops, OnlyDockDocks
<1>5. CASE ~s.ok /\ Rest("Idle")
  <2>1. /\ op' = "Idle" /\ tries' \in Tries /\ Sound(rt')
        /\ ~rt'.shouldDock /\ rt'.mow = 0
    BY <1>3, <1>5, RestSound
  <2> QED
    BY <1>1, <2>1 DEF GoodStep, IInv, TypeOK, Ops, OnlyDockDocks
<1>6. ASSUME ~s.ok, NEW idle \in {0, tries.idle + 1}, ~GivesUp(idle),
             rt' \in StartDocking(s.rt), tries' = Retried(idle), UNCHANGED op
      PROVE  GoodStep
  <2>1. PICK i \in Int : s.rt = [rt EXCEPT !.dockIdx = i]
    BY <1>3, <1>6, NextPointSound
  <2>2. StartDocking(s.rt) = StartDocking(rt)
    <3>1. rt \in RouteStates
      BY <1>3 DEF Sound
    <3>2. [s.rt EXCEPT !.shouldDock = TRUE, !.dockIdx = 0]
            = [rt EXCEPT !.shouldDock = TRUE, !.dockIdx = 0]
      BY <2>1, <3>1 DEF RouteStates
    <3> DEFINE From(d) ==
          IF dockLen = 0 THEN {}
          ELSE {BeginFreeRoute(d, "DOCK", <<"dock", 0>>, 0, n) : n \in Found}
               \union {[NoLocal(d) EXCEPT !.mode = "DOCK", !.target = <<"dock", 0>>]}
    <3>3. /\ StartDocking(s.rt) = From([s.rt EXCEPT !.shouldDock = TRUE, !.dockIdx = 0])
          /\ StartDocking(rt) = From([rt EXCEPT !.shouldDock = TRUE, !.dockIdx = 0])
      BY DEF StartDocking
    <3> HIDE DEF From
    <3> QED
      BY <3>2, <3>3
  <2>3. Sound(rt') /\ SameMission(rt, rt')
    BY <1>3, <1>6, <2>2, StartDockingSound
  <2>4. tries' \in Tries
    <3>1. idle \in 0..1 /\ tries.all + 1 \in 0..MaxTries
      BY <1>3, <1>6, NumbersSound DEF GivesUp, Tries
    <3> QED
      BY <1>6, <3>1 DEF Retried, Tries
  <2> QED
    BY <1>1, <1>6, <2>3, <2>4 DEF GoodStep, IInv, TypeOK, Ops, OnlyDockDocks, SameMission
<1> QED
  BY <1>2, <1>4, <1>5, <1>6
----------------------------------------------------------------------------
(* The theorems                                                            *)

LEMMA InitIInv == Init => IInv
<1> SUFFICES ASSUME Init PROVE IInv
  OBVIOUS
<1>1. Sound(rt) /\ ~rt.shouldDock
  BY ClearedSound DEF Init, Cleared
<1>2. tries \in [all : 0..MaxTries, idle : 0..1]
  BY NumbersSound DEF Init
<1> QED
  BY <1>1, <1>2 DEF Init, IInv, TypeOK, OnlyDockDocks, Sound

\* Every step keeps the invariant and moves the mowing cursor as it should.
LEMMA NextGood == ASSUME IInv, Next PROVE GoodStep
BY StartMowingGood, OperatorDocksGood, RobotDocksGood, InterruptGood, ContinueGood,
   FinishGood, BlindReverseDoneGood, TrackAroundGood, TargetReachedGood,
   DockTargetReachedGood, LoadMapGood, ObstaclesGood DEF Next

LEMMA StepIInv == IInv /\ [Next]_vars => IInv'
<1> SUFFICES ASSUME IInv, [Next]_vars PROVE IInv'
  OBVIOUS
<1>1. CASE Next
  BY <1>1, NextGood DEF GoodStep, IInv, TypeOK, Tries, Ops, Sound
<1>2. CASE UNCHANGED vars
  BY <1>2 DEF vars, IInv, TypeOK, OnlyDockDocks
<1> QED
  BY <1>1, <1>2

\* RuntimeState keeps its types, the retry counters of DockOp within the bound
\* that is configured, the cursors within their routes.
THEOREM RouteTypeCorrect == Spec => []TypeOK
<1>1. IInv => TypeOK
  BY DEF IInv
<1> QED
  BY <1>1, InitIInv, StepIInv, PTL DEF Spec

\* On a local route, and only there, RuntimeState has a route to return to, and
\* the cursor is on the local route: a detour cannot end a mission or a docking.
THEOREM LocalRoutesReturn == Spec => []LocalRouteSound
<1>1. IInv => LocalRouteSound
  BY DEF IInv, Sound, LocalRouteSound, RouteStates
<1> QED
  BY <1>1, InitIInv, StepIInv, PTL DEF Spec

\* Whatever interrupts mowing, the point the robot drives to, or returns to
\* from a detour, is the one RuntimeState's mowing cursor names.
THEOREM MowingAlwaysReturns == Spec => []MowingReturns
<1>1. IInv => MowingReturns
  BY DEF IInv, Sound, MowingReturns
<1> QED
  BY <1>1, InitIInv, StepIInv, PTL DEF Spec

\* Within a mission no detour, escape, docking or wait skips a point of the
\* mowing route, or mows one again.
THEOREM PointsMownInOrder == Spec => MowsInOrder
<1>1. IInv /\ [Next]_vars =>
        [StartMowing \/ rt.mow = 0 \/ rt'.mow = 0
           \/ rt'.mowIdx \in {rt.mowIdx, rt.mowIdx + 1}]_vars
  BY NextGood DEF GoodStep
<1> QED
  BY <1>1, InitIInv, StepIInv, PTL DEF Spec, MowsInOrder
=============================================================================
