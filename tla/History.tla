------------------------------ MODULE History ------------------------------
(***************************************************************************)
(* The history of Robot: HistoryDatabase (an SQLite file with a table of   *)
(* events and one of mowing sessions), EventRecorder, and what Robot's     *)
(* state machine and session tracking write.                               *)
(*                                                                         *)
(* The control loop writes; the worker of the web server clears.  Both     *)
(* hold HistoryDatabase::mutex_ for one call, in which every statement is  *)
(* a transaction of its own: a call may fail, or the process die, between  *)
(* any two of them.  The wall clock is assumed to go on, so the sessions,  *)
(* named and ordered by their start, are numbered.                         *)
(***************************************************************************)
EXTENDS Naturals, FiniteSets

CONSTANTS
  MaxEvents,    \* history_db_max_events, 0 for no limit
  MaxSessions,  \* history_db_max_sessions, 0 for no limit
  EventBound,   \* bound on the events recorded
  SessionBound, \* bound on the sessions begun
  UptimeBound,  \* bound on the uptime of one process
  LifeBound     \* bound on the starts of the process

ASSUME HistoryAssumption ==
  /\ MaxEvents \in Nat /\ MaxSessions \in Nat
  /\ EventBound \in Nat /\ SessionBound \in Nat
  /\ UptimeBound \in Nat /\ LifeBound \in Nat

VARIABLES
  db,       \* the file: version of its schema, whether the tables fit, rows, backup
  proc,     \* the process: "down", "opened" (schema not yet ensured), "up"
  life,     \* starts of the process so far
  uptime,   \* now_ms_: the age of the process
  count,    \* events recorded so far
  mowing,   \* lastRecordedOpName_ is Mow
  doing,    \* tickStateMachine: "rest", or what follows the event of a transition
  session,  \* sessionActive_ and the number of currentSession_
  warned,   \* EventRecorder::warnedWriteFailure_
  worked,   \* history: the last write returned true
  cut,      \* history: sessions whose end could not be, or was not, written
  lost      \* history: latest time of an event pruned, by life

histVars == <<db, proc, life, uptime, count, mowing, doing, session, warned,
              worked, cut, lost>>

Lives  == 1..LifeBound
Events == [n: 1..EventBound, life: Lives, ts: 0..UptimeBound]
Rows   == [id: 1..SessionBound, ended: BOOLEAN]

Never == UptimeBound + 1   \* no event of that life has been pruned
----------------------------------------------------------------------------
(* Statements.                                                             *)

\* Mutant of KeptEvents: the oldest rows are kept.
KeepsOldest(rows) ==
  IF MaxEvents = 0 \/ Cardinality(rows) <= MaxEvents THEN {rows}
  ELSE {kept \in SUBSET rows :
          /\ Cardinality(kept) = MaxEvents
          /\ \A k \in kept, p \in rows \ kept : k.ts <= p.ts}

\* applyRetention: ORDER BY ts_ms DESC LIMIT max; SQL leaves open which of the
\* rows of one millisecond come first.
KeptEvents(rows) ==
  IF MaxEvents = 0 \/ Cardinality(rows) <= MaxEvents THEN {rows}
  ELSE {kept \in SUBSET rows :
          /\ Cardinality(kept) = MaxEvents
          /\ \A k \in kept, p \in rows \ kept : k.ts >= p.ts}

\* Mutant of KeptSessions: ascending order.
KeepsFirstSessions(rows) ==
  IF MaxSessions = 0 THEN rows
  ELSE {r \in rows : Cardinality({s \in rows : s.id < r.id}) < MaxSessions}

\* applyRetention: ORDER BY started_at_ms DESC LIMIT max.
KeptSessions(rows) ==
  IF MaxSessions = 0 THEN rows
  ELSE {r \in rows : Cardinality({s \in rows : s.id > r.id}) < MaxSessions}

\* The calls after an insert: neither, one or both tables have been pruned.
Pruned(d) ==
  {[ok |-> FALSE, db |-> d, gone |-> {}]}
    \cup {[ok |-> FALSE, db |-> [d EXCEPT !.events = k], gone |-> d.events \ k] :
            k \in KeptEvents(d.events)}
    \cup {[ok |-> TRUE, db |-> [d EXCEPT !.events = k, !.sessions = KeptSessions(@)],
           gone |-> d.events \ k] : k \in KeptEvents(d.events)}

\* A write whose rows make d of db: it fails before the insert, always if the
\* tables do not fit, or the insert is done and the tables are pruned.
Written(d) ==
  {[ok |-> FALSE, db |-> db, gone |-> {}]} \cup (IF db.fits THEN Pruned(d) ELSE {})

\* Mutant of Upserted: the end of a session is not among the columns updated.
UpsertedOpen(d, row) ==
  [d EXCEPT !.sessions = IF \E s \in @ : s.id = row.id THEN @ ELSE @ \cup {row}]

\* upsertSession: ON CONFLICT(id) DO UPDATE.
Upserted(d, row) == [d EXCEPT !.sessions = {s \in @ : s.id # row.id} \cup {row}]

Latest(a, b) == IF a = Never \/ (b # Never /\ b > a) THEN b ELSE a

\* The latest of the events pruned, for each life.
Lose(gone) ==
  lost' = [l \in Lives |->
             LET times == {e.ts : e \in {g \in gone : g.life = l}}
             IN IF times = {} THEN lost[l]
                ELSE Latest(lost[l], CHOOSE t \in times : \A u \in times : u <= t)]

Current == session.id
----------------------------------------------------------------------------
(* The start of the process: HistoryDatabase::init.                        *)

\* Mutant of Open: an old file is upgraded without a copy.
OpenNoBackup ==
  /\ proc = "down" /\ life < LifeBound
  /\ proc' = "opened" /\ life' = life + 1 /\ uptime' = 0
  /\ UNCHANGED <<db, count, mowing, doing, session, warned, worked, cut, lost>>

\* initSqlite up to backupExistingDatabase.  If the directory cannot be made, the
\* file not opened or not copied, init fails, the process ends and nothing changes.
Open ==
  /\ proc = "down" /\ life < LifeBound
  /\ proc' = "opened" /\ life' = life + 1 /\ uptime' = 0
  /\ db' = [db EXCEPT !.backup = @ \/ db.version \in {"old", "unknown"}]
  /\ UNCHANGED <<count, mowing, doing, session, warned, worked, cut, lost>>

\* bootstrapSchema: tables that exist are left as they are, the version is set.
Bootstrap ==
  /\ proc = "opened"
  /\ proc' = "up" /\ db' = [db EXCEPT !.version = "current"]
  /\ UNCHANGED <<life, uptime, count, mowing, doing, session, warned, worked,
                 cut, lost>>

BootstrapFails ==
  /\ proc = "opened" /\ proc' = "down"
  /\ UNCHANGED <<db, life, uptime, count, mowing, doing, session, warned, worked,
                 cut, lost>>

\* The process ends or dies, also between two statements: what it knew is gone,
\* and nobody ends a session that was going on.
Stop ==
  /\ proc = "up" /\ proc' = "down"
  /\ mowing' = FALSE /\ doing' = "rest" /\ session' = [active |-> FALSE, id |-> Current]
  /\ cut' = IF session.active THEN cut \cup {Current} ELSE cut
  /\ warned' = FALSE
  /\ UNCHANGED <<db, life, uptime, count, worked, lost>>
----------------------------------------------------------------------------
(* The control loop.                                                       *)

LoopRuns == proc = "up" /\ doing = "rest"

LoopPass ==
  /\ LoopRuns /\ uptime < UptimeBound
  /\ uptime' = uptime + 1
  /\ UNCHANGED <<db, proc, life, count, mowing, doing, session, warned, worked,
                 cut, lost>>

\* EventRecorder::record and appendEvent: the second failure on end takes the
\* flag back, so that the third one is warned about again.
Record ==
  /\ count < EventBound
  /\ LET e == [n |-> count + 1, life |-> life, ts |-> uptime]
         d == [db EXCEPT !.events = @ \cup {e}]
     IN \E w \in Written(d) :
          /\ db' = w.db /\ worked' = w.ok
          /\ warned' = (~w.ok /\ ~warned)
          /\ Lose(w.gone)
  /\ count' = count + 1

\* upsertSession with the current session, ended or not.
Upsert(id, ended) ==
  \E w \in Written(Upserted(db, [id |-> id, ended |-> ended])) :
    /\ db' = w.db /\ worked' = w.ok
    /\ Lose(w.gone)

\* recordEvent from the guards: bumper, rain, battery, ...
SafetyEvent ==
  /\ LoopRuns /\ Record
  /\ UNCHANGED <<proc, life, uptime, mowing, doing, session, cut>>

\* tickStateMachine: the operation changes; its event comes first, then the
\* session's end or begin.
Transition ==
  /\ LoopRuns /\ Record
  /\ \E mow \in BOOLEAN :
       /\ mow => session.active \/ Current < SessionBound
       /\ mowing' = mow
       /\ doing' = IF mowing /\ ~mow /\ session.active THEN "end"
                   ELSE IF mow /\ ~session.active THEN "begin" ELSE "rest"
  /\ UNCHANGED <<proc, life, uptime, session, cut>>

BeginSession ==
  /\ proc = "up" /\ doing = "begin"
  /\ doing' = "rest" /\ session' = [active |-> TRUE, id |-> Current + 1]
  /\ Upsert(Current + 1, FALSE)
  /\ UNCHANGED <<proc, life, uptime, count, mowing, warned, cut>>

\* The session is over, whether its end could be written or not.
EndSession ==
  /\ proc = "up" /\ doing = "end"
  /\ doing' = "rest" /\ session' = [session EXCEPT !.active = FALSE]
  /\ Upsert(Current, TRUE)
  /\ cut' = IF worked' THEN cut ELSE cut \cup {Current}
  /\ UNCHANGED <<proc, life, uptime, count, mowing, warned>>

\* tickSessionTracking: every 2 s after the last success.
TrackSession ==
  /\ LoopRuns /\ session.active
  /\ Upsert(Current, FALSE)
  /\ UNCHANGED <<proc, life, uptime, count, mowing, doing, session, warned, cut>>
----------------------------------------------------------------------------
(* The worker of the web server.                                           *)

\* Robot::clearHistory: the events, then the sessions.
Clear ==
  /\ proc = "up" /\ db.fits
  /\ \E both \in BOOLEAN :
       db' = [db EXCEPT !.events = {}, !.sessions = IF both THEN {} ELSE @]
  /\ UNCHANGED <<proc, life, uptime, count, mowing, doing, session, warned, worked,
                 cut, lost>>
----------------------------------------------------------------------------
\* A file of ours or none, or one of another version, or that nobody knows.
HistInit ==
  /\ \/ db = [version |-> "none", fits |-> TRUE, events |-> {}, sessions |-> {},
              backup |-> FALSE]
     \/ \E v \in {"old", "unknown"}, fits \in BOOLEAN :
          db = [version |-> v, fits |-> fits, events |-> {}, sessions |-> {},
                backup |-> FALSE]
  /\ proc = "down" /\ life = 0 /\ uptime = 0 /\ count = 0
  /\ mowing = FALSE /\ doing = "rest" /\ session = [active |-> FALSE, id |-> 0]
  /\ warned = FALSE /\ worked = FALSE /\ cut = {}
  /\ lost = [l \in Lives |-> Never]

HistNext ==
  \/ Open \/ Bootstrap \/ BootstrapFails \/ Stop
  \/ LoopPass \/ SafetyEvent \/ Transition \/ BeginSession \/ EndSession \/ TrackSession
  \/ Clear

HistSpec == HistInit /\ [][HistNext]_histVars

\* The loop goes on, and the disk does not refuse for ever.
HistFairness ==
  /\ WF_histVars(BeginSession) /\ WF_histVars(EndSession)
  /\ SF_histVars(TrackSession /\ worked')
----------------------------------------------------------------------------
(* Properties.                                                             *)

HistTypeOK ==
  /\ db \in [version: {"none", "old", "unknown", "current"}, fits: BOOLEAN,
             events: SUBSET Events, sessions: SUBSET Rows, backup: BOOLEAN]
  /\ proc \in {"down", "opened", "up"} /\ life \in 0..LifeBound
  /\ uptime \in 0..UptimeBound /\ count \in 0..EventBound
  /\ mowing \in BOOLEAN /\ doing \in {"rest", "begin", "end"}
  /\ session \in [active: BOOLEAN, id: 0..SessionBound]
  /\ warned \in BOOLEAN /\ worked \in BOOLEAN
  /\ cut \subseteq 1..SessionBound
  /\ lost \in [Lives -> 0..Never]

\* A write that worked leaves both tables within their limits, whatever failed
\* before it; and what retention takes away is, within one life of the process,
\* never later than what it keeps.
RetentionKeepsNewest ==
  /\ worked => /\ MaxEvents > 0 => Cardinality(db.events) <= MaxEvents
               /\ MaxSessions > 0 => Cardinality(db.sessions) <= MaxSessions
  /\ \A e \in db.events : lost[e.life] # Never => e.ts >= lost[e.life]

\* A session without an end in the database is the one going on, or one whose end
\* nobody could write: the process stopped, or the write failed.
OpenSessionExplained ==
  \A s \in db.sessions :
    ~s.ended => (session.active /\ s.id = session.id) \/ s.id \in cut

\* A file of another version, or of none, is not given ours before it was copied.
UpgradeBacksUp ==
  [][db.version \in {"old", "unknown"} /\ db'.version = "current" => db'.backup]_histVars

\* The session going on is in the database again some time after the history was
\* cleared, or a write of it failed.
SessionRestored ==
  session.active /\ db.fits
    ~> ~session.active \/ \E s \in db.sessions : s.id = session.id

=============================================================================
