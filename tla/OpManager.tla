----------------------------- MODULE OpManager -----------------------------
(***************************************************************************)
(* core/op/Op.cpp: the operation manager.  One operation is active; at     *)
(* most one transition is pending, and the tick of the control loop makes  *)
(* it active.  A request is made in the name of the active operation by    *)
(* its own run(), by one of its event handlers, or by Robot; a request of  *)
(* lower priority than the pending one is dropped, any other overwrites    *)
(* it.  A detour (escape, GPS wait) remembers the operation to return to.  *)
(*                                                                         *)
(* This module promises nothing about when a request is made: RobotLoop    *)
(* makes each at its place in the control loop and is checked to implement *)
(* Spec.                                                                   *)
(***************************************************************************)
EXTENDS Ops

VARIABLES
  active,        \* OpManager::activeOp_
  pending,       \* OpManager::pendingOp_
  pendingPrio,   \* OpManager::pendingPriority_
  next           \* Op::nextOp of each operation: where a detour returns to

vars == <<active, pending, pendingPrio, next>>

TypeOK ==
  /\ active \in OpNames
  /\ pending \in OpNames \union {None}
  /\ pendingPrio \in Priorities \union {0}
  /\ next \in [OpNames -> OpNames \union {None}]

Init ==
  /\ active = "Idle"
  /\ pending = None
  /\ pendingPrio = 0
  /\ next = [op \in OpNames |-> None]

----------------------------------------------------------------------------
\* Mutant of Accepts: the pending priority is not looked at.
AcceptsAny(r) == r.target # active

\* Whether requestOp and setPending let the request through.
Accepts(r) ==
  /\ r.target # active
  /\ pendingPrio <= EffectivePrio(r.target, r.prio)

\* Mutant of SetPending: this->nextOp is written instead of op->nextOp.
SetPendingCaller(r) ==
  /\ pending' = r.target
  /\ pendingPrio' = EffectivePrio(r.target, r.prio)
  /\ next' = [next EXCEPT ![active] = IF r.back THEN r.target ELSE None]
  /\ UNCHANGED active

\* Mutant of SetPending: the return address is the operation that is about to
\* become active.
SetPendingToPending(r) ==
  /\ pending' = r.target
  /\ pendingPrio' = EffectivePrio(r.target, r.prio)
  /\ next' = [next EXCEPT ![r.target] =
                IF ~r.back THEN None ELSE IF pending = None THEN active ELSE pending]
  /\ UNCHANGED active

\* setPending on an accepted request.
SetPending(r) ==
  /\ pending' = r.target
  /\ pendingPrio' = EffectivePrio(r.target, r.prio)
  /\ next' = [next EXCEPT ![r.target] = IF r.back THEN active ELSE None]
  /\ UNCHANGED active

\* Op::requestOp: an accepted request replaces the pending one, any other is
\* dropped without a trace.
RequestOp(r) ==
  IF Accepts(r) THEN SetPending(r) ELSE UNCHANGED vars

\* What the active operation, or Robot in its name, may ask for.
MayAsk ==
  OwnRequests(active) \union Answers[active] \union RobotRequests
  \union (IF active \in Detours /\ next[active] # None
          THEN {ChangeTo(next[active])} ELSE {})

AskFor(r) == r \in MayAsk /\ RequestOp(r)

\* Mutant of Flush: pendingPriority_ is not reset.
FlushKeepsPrio ==
  /\ pending # None
  /\ active' = pending
  /\ pending' = None
  /\ UNCHANGED <<pendingPrio, next>>

\* OpManager::tick with a pending operation: end() of the old one, begin() of
\* the new one.  What they and run() ask for are requests of their own.
Flush ==
  /\ pending # None
  /\ active' = pending
  /\ pending' = None
  /\ pendingPrio' = 0
  /\ UNCHANGED next

Next ==
  \/ \E r \in MayAsk : AskFor(r)
  \/ Flush

Spec == Init /\ [][Next]_vars

----------------------------------------------------------------------------
(* Properties                                                              *)

\* The pending operation is never the active one, and it is queued with at
\* least the priority of its kind: nothing pending has priority 0, and a
\* pending error or charge cannot be overwritten by an ordinary changeOp
\* (setPending, Op.cpp 108-124).
PendingWellFormed ==
  /\ pending # active
  /\ pending = None <=> pendingPrio = 0
  /\ pending # None => pendingPrio >= MinPrio(pending)

\* A detour that is waiting to start, or has started, returns only to an
\* operation that drives a route or to a detour that does: never to Idle,
\* Charge, Error or to itself (the nextOp written by setPending).
ReturnAddress(op) ==
  CASE op = "EscapeReverse" -> Routed \union {"EscapeForward", None}
    [] op = "GpsWait"       -> Routed \union {"EscapeReverse", "EscapeForward", None}
    [] OTHER                -> {None}

ReturnsToRoute == \A op \in OpNames : next[op] \in ReturnAddress(op)

\* While an escape or a GPS wait is pending, its return address is the operation
\* active now, or none where the operator sent the robot there: the address was
\* written when the request was made, and since then other requests may have been
\* accepted, or have overwritten one another, without touching it wrongly.
InterruptReturns ==
  pending \in {"EscapeReverse", "GpsWait"} => next[pending] \in {active, None}

\* A pending transition gives way only to one of at least its priority, or to
\* the tick that makes it active; and only the tick changes the active
\* operation, to the one that was pending.  In particular an emergency stop or
\* an undervoltage (CRITICAL) is never displaced by a detour.
PriorityRespected ==
  [][ /\ active' # active => active' = pending /\ pending' = None
      /\ pending' # pending /\ active' = active => pendingPrio' >= pendingPrio
    ]_vars
=============================================================================
