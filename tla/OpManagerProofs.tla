--------------------------- MODULE OpManagerProofs ---------------------------
(***************************************************************************)
(* What OpManager keeps whatever is asked of it.  The argument: every      *)
(* request an operation can make is well formed (MayAskSound), so that an  *)
(* accepted one writes a pending operation, a priority and a return        *)
(* address that fit together, and the tick that flushes it leaves nothing  *)
(* pending.  IInv is the conjunction of the four invariants: it is         *)
(* inductive as it stands.                                                 *)
(***************************************************************************)
EXTENDS OpManager, TLAPS

\* A request that fits the operation it is made in: a return address is asked
\* for only by an operation that the detour may come back to.
Sound(op, r) ==
  /\ r \in Requests
  /\ r.target # None
  /\ r.back => op \in ReturnAddress(r.target)

----------------------------------------------------------------------------
(* The tables of Ops                                                       *)

\* The priority a request is queued with is one of the four, never below the
\* floor of its target (setPending, Op.cpp).
LEMMA EffectivePrioSound ==
  ASSUME NEW op \in OpNames, NEW p \in Priorities
  PROVE  /\ EffectivePrio(op, p) \in Priorities
         /\ EffectivePrio(op, p) >= MinPrio(op)
         /\ EffectivePrio(op, p) >= p
         /\ EffectivePrio(op, p) # 0
  BY DEF EffectivePrio, MinPrio, Priorities, LOW, NORMAL, HIGH, CRITICAL, OpNames

\* A request without a return address fits every operation, a detour those it
\* may come back to.
LEMMA AskSound ==
  ASSUME NEW op, NEW to \in OpNames, NEW prio \in Priorities
  PROVE  Sound(op, Ask(to, prio)) /\ Sound(op, ChangeTo(to))
<1>1. NORMAL \in Priorities /\ to # None
  BY DEF Priorities, OpNames, None
<1> QED
  BY <1>1 DEF Sound, Requests, Ask, ChangeTo

LEMMA DetourSound ==
  ASSUME NEW to \in {"EscapeReverse", "GpsWait"}, NEW op \in ReturnAddress(to)
  PROVE  Sound(op, DetourTo(to))
<1>1. NORMAL \in Priorities /\ to \in OpNames /\ to # None
  BY DEF Priorities, OpNames, None
<1> QED
  BY <1>1 DEF Sound, Requests, DetourTo

\* Every answer of an event handler is a request that fits its operation.
LEMMA TableSound ==
  ASSUME NEW op \in OpNames, NEW ev \in DOMAIN Table(op)
  PROVE  Sound(op, Table(op)[ev])
<1> DEFINE Plain == {ChangeTo("Dock"), ChangeTo("Error"), ChangeTo("Idle"),
                     ChangeTo("Mow"), ChangeTo("Undock"), ChangeTo("WaitRain"),
                     Ask("Error", CRITICAL)}
           Detouring == {DetourTo("EscapeReverse"), DetourTo("GpsWait")}
<1>1. \A r \in Plain : Sound(op, r)
  <2>1. /\ {"Dock", "Error", "Idle", "Mow", "Undock", "WaitRain"} \subseteq OpNames
        /\ CRITICAL \in Priorities
    BY DEF OpNames, Priorities
  <2> QED
    BY <2>1, AskSound
<1>2. CASE op \in Routed
  <2>1. Table(op)[ev] \in Plain \union Detouring
    BY <1>2 DEF Table, Routed, MowAnswers, NavToStartAnswers, DockAnswers
  <2>2. \A r \in Detouring : Sound(op, r)
    BY <1>2, DetourSound DEF ReturnAddress
  <2> QED
    BY <1>1, <2>1, <2>2
<1>3. CASE op = "EscapeForward"
  <2>1. Table(op)[ev] \in Plain \union Detouring
    BY <1>3 DEF Table, EscapeForwardAnswers
  <2>2. \A r \in Detouring : Sound(op, r)
    BY <1>3, DetourSound DEF ReturnAddress
  <2> QED
    BY <1>1, <2>1, <2>2
<1>4. CASE op = "EscapeReverse"
  <2>1. Table(op)[ev] \in Plain \union {DetourTo("GpsWait")}
    BY <1>4 DEF Table, EscapeReverseAnswers
  <2>2. Sound(op, DetourTo("GpsWait"))
    BY <1>4, DetourSound DEF ReturnAddress
  <2> QED
    BY <1>1, <2>1, <2>2
<1>5. CASE op \notin Routed \union {"EscapeForward", "EscapeReverse"}
  <2>1. Table(op)[ev] \in Plain
    BY <1>5 DEF Table, Routed, ChargeAnswers, UndockAnswers, WaitRainAnswers,
                ManualAnswers, DefaultAnswers
  <2> QED
    BY <1>1, <2>1
<1> QED
  BY <1>2, <1>3, <1>4, <1>5

\* What begin() and run() ask for on their own account never has a return
\* address.
LEMMA OwnRequestsSound ==
  ASSUME NEW op \in OpNames, NEW r \in OwnRequests(op)
  PROVE  Sound(op, r)
<1>1. r \in {ChangeTo("Charge"), ChangeTo("Dock"), ChangeTo("Error"),
            ChangeTo("NavToStart"), ChangeTo("Idle")}
  BY DEF OwnRequests
<1>2. /\ {"Charge", "Dock", "Error", "NavToStart", "Idle"} \subseteq OpNames
      /\ NORMAL \in Priorities
  BY DEF OpNames, Priorities
<1> QED
  BY <1>1, <1>2, AskSound

\* Nor has what Robot and the operator ask for.
LEMMA RobotRequestsSound ==
  ASSUME NEW op \in OpNames, NEW r \in RobotRequests
  PROVE  Sound(op, r)
<1>1. PICK to \in OpNames, prio \in Priorities : r = Ask(to, prio)
  BY DEF RobotRequests, OpNames, Priorities
<1> QED
  BY <1>1, AskSound

\* Whatever may be asked for in a typed state fits the active operation.
LEMMA MayAskSound ==
  ASSUME TypeOK, NEW r \in MayAsk
  PROVE  Sound(active, r)
<1>0. active \in OpNames
  BY DEF TypeOK
<1>1. CASE r \in OwnRequests(active)
  BY <1>0, <1>1, OwnRequestsSound
<1>2. CASE r \in Answers[active]
  <2>1. PICK ev \in DOMAIN Table(active) : r = Table(active)[ev]
    BY <1>0, <1>2 DEF Answers
  <2> QED
    BY <1>0, <2>1, TableSound
<1>3. CASE r \in RobotRequests
  BY <1>0, <1>3, RobotRequestsSound
<1>4. CASE active \in Detours /\ next[active] # None /\ r = ChangeTo(next[active])
  <2>1. next[active] \in OpNames
    BY <1>0, <1>4 DEF TypeOK
  <2> QED
    BY <1>4, <2>1 DEF Sound, Requests, Ask, ChangeTo, Priorities, NORMAL
<1> QED
  BY <1>1, <1>2, <1>3, <1>4 DEF MayAsk

----------------------------------------------------------------------------
(* The invariant                                                           *)

IInv == TypeOK /\ PendingWellFormed /\ ReturnsToRoute /\ InterruptReturns

LEMMA InitIInv == Init => IInv
<1> SUFFICES ASSUME Init PROVE IInv
  OBVIOUS
<1>1. TypeOK
  BY DEF Init, TypeOK, OpNames, None
<1>2. PendingWellFormed
  BY DEF Init, PendingWellFormed, None
<1>3. ReturnsToRoute
  BY DEF Init, ReturnsToRoute, ReturnAddress, None
<1>4. InterruptReturns
  BY DEF Init, InterruptReturns, None
<1> QED
  BY <1>1, <1>2, <1>3, <1>4 DEF IInv

\* An accepted request keeps the invariant.
LEMMA SetPendingIInv ==
  ASSUME IInv, NEW r, Sound(active, r), Accepts(r), SetPending(r)
  PROVE  IInv'
<1> USE DEF IInv
<1>1. /\ active \in OpNames /\ r.target \in OpNames /\ r.prio \in Priorities
      /\ r.back \in BOOLEAN
  BY DEF Sound, Requests, TypeOK
<1>2. /\ EffectivePrio(r.target, r.prio) \in Priorities
      /\ EffectivePrio(r.target, r.prio) >= MinPrio(r.target)
      /\ EffectivePrio(r.target, r.prio) # 0
  BY <1>1, EffectivePrioSound
<1>3. TypeOK'
  BY <1>1, <1>2 DEF SetPending, TypeOK
<1>4. PendingWellFormed'
  BY <1>1, <1>2 DEF Accepts, SetPending, PendingWellFormed, OpNames, None
<1>5. ReturnsToRoute'
  <2> SUFFICES ASSUME NEW op \in OpNames PROVE next'[op] \in ReturnAddress(op)
    BY DEF ReturnsToRoute, ReturnAddress
  <2>1. CASE op = r.target /\ r.back
    BY <1>1, <2>1 DEF SetPending, Sound, TypeOK
  <2>2. CASE op = r.target /\ ~r.back
    BY <1>1, <2>2 DEF SetPending, ReturnAddress, TypeOK
  <2>3. CASE op # r.target
    BY <1>1, <2>3 DEF SetPending, ReturnsToRoute, TypeOK
  <2> QED
    BY <2>1, <2>2, <2>3, <1>1
<1>6. InterruptReturns'
  BY <1>1 DEF SetPending, InterruptReturns, TypeOK
<1> QED
  BY <1>3, <1>4, <1>5, <1>6

LEMMA NextIInv == IInv /\ [Next]_vars => IInv'
<1> SUFFICES ASSUME IInv, [Next]_vars PROVE IInv'
  OBVIOUS
<1>1. ASSUME NEW r \in MayAsk, AskFor(r) PROVE IInv'
  <2>1. Sound(active, r)
    BY MayAskSound DEF IInv
  <2>2. CASE Accepts(r) /\ SetPending(r)
    BY <2>1, <2>2, SetPendingIInv
  <2>3. CASE UNCHANGED vars
    BY <2>3 DEF vars, IInv, TypeOK, PendingWellFormed, ReturnsToRoute, InterruptReturns
  <2> QED
    BY <1>1, <2>2, <2>3 DEF AskFor, RequestOp
<1>2. CASE Flush
  <2>1. TypeOK'
    BY <1>2 DEF IInv, Flush, TypeOK
  <2>2. PendingWellFormed'
    BY <1>2 DEF IInv, Flush, TypeOK, PendingWellFormed, OpNames, None
  <2>3. ReturnsToRoute'
    BY <1>2 DEF IInv, Flush, ReturnsToRoute
  <2>4. InterruptReturns'
    BY <1>2 DEF IInv, Flush, InterruptReturns, None
  <2> QED
    BY <2>1, <2>2, <2>3, <2>4 DEF IInv
<1>3. CASE UNCHANGED vars
  BY <1>3 DEF vars, IInv, TypeOK, PendingWellFormed, ReturnsToRoute, InterruptReturns
<1> QED
  BY <1>1, <1>2, <1>3 DEF Next

LEMMA Invariance == Spec => []IInv
  BY InitIInv, NextIInv, PTL DEF Spec

----------------------------------------------------------------------------
(* The theorems                                                            *)

\* OpManager's state always has its type.
THEOREM TypeCorrect == Spec => []TypeOK
<1>1. IInv => TypeOK
  BY DEF IInv
<1> QED
  BY <1>1, Invariance, PTL

\* Nothing pending is the active operation or below its floor (setPending).
THEOREM PendingSound == Spec => []PendingWellFormed
<1>1. IInv => PendingWellFormed
  BY DEF IInv
<1> QED
  BY <1>1, Invariance, PTL

\* A detour returns only to a route, or to an escape that does.
THEOREM DetoursReturnToRoutes == Spec => []ReturnsToRoute
<1>1. IInv => ReturnsToRoute
  BY DEF IInv
<1> QED
  BY <1>1, Invariance, PTL

\* A pending detour returns to the operation it interrupts.
THEOREM DetoursReturnWhereTheyBegan == Spec => []InterruptReturns
<1>1. IInv => InterruptReturns
  BY DEF IInv
<1> QED
  BY <1>1, Invariance, PTL

\* No request displaces a pending one of higher priority, and only the tick
\* changes the active operation.
THEOREM PriorityKept == Spec => PriorityRespected
<1> DEFINE Respects ==
      /\ active' # active => active' = pending /\ pending' = None
      /\ pending' # pending /\ active' = active => pendingPrio' >= pendingPrio
<1>1. IInv /\ [Next]_vars => [Respects]_vars
  <2> SUFFICES ASSUME IInv, [Next]_vars PROVE [Respects]_vars
    OBVIOUS
  <2>1. ASSUME NEW r \in MayAsk, AskFor(r) PROVE [Respects]_vars
    BY <2>1 DEF AskFor, RequestOp, Accepts, SetPending
  <2>2. CASE Flush
    BY <2>2 DEF Flush, IInv, PendingWellFormed
  <2>3. CASE UNCHANGED vars
    BY <2>3
  <2> QED
    BY <2>1, <2>2, <2>3 DEF Next
<1> QED
  BY <1>1, Invariance, PTL DEF Spec, PriorityRespected
=============================================================================
