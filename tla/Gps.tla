-------------------------------- MODULE Gps --------------------------------
(***************************************************************************)
(* UbloxGpsDriver: the thread that reads the receiver's byte stream, the   *)
(* parser of UBX frames, and the solution Robot asks for.                  *)
(*                                                                         *)
(* The receiver (external) sends frames of a relative position and others, *)
(* in turn; bytes may be lost, garbled, or look like the start of a frame. *)
(* A byte is known by its place in its frame.  The checksum is taken to    *)
(* find every frame that is not complete.                                  *)
(***************************************************************************)
EXTENDS Naturals

CONSTANTS
  PayloadLen,  \* bytes of payload of a frame
  LongLen,     \* bound on a length read from bytes that are not one: 65535
  SolTimeout,  \* SOL_TIMEOUT_MS: units until a solution is taken back
  MishapBound  \* bound on bytes lost, garbled or mistaken

ASSUME GpsAssumption ==
  /\ PayloadLen \in Nat \ {0} /\ LongLen \in Nat /\ PayloadLen <= LongLen
  /\ SolTimeout \in Nat /\ MishapBound \in Nat

VARIABLES
  frame,    \* the frame being sent: whether it is RELPOSNED, its solution
  pos,      \* place in it of the next byte
  parser,   \* state_; the bytes of payload left; intact: those read belong together
  relpos,   \* age of lastRelposMs_, or NoSolution
  solution, \* data_.solution
  silence,  \* history: units since a solution was received, or NoSolution
  received, \* history: this pass has received one
  mishaps   \* history: bytes lost, garbled or mistaken

gpsVars == <<frame, pos, parser, relpos, solution, silence, received, mishaps>>

Solutions == {"Invalid", "Float", "Fixed"}
NoSolution     == SolTimeout + 1   \* also: longer ago than the timeout
Last      == PayloadLen + 8   \* two bytes of sync, class, id, length, and checksum

ParserStates == {"SYNC1", "SYNC2", "CLASS", "ID", "LEN1", "LEN2", "PAYLOAD", "CHKA", "CHKB"}
----------------------------------------------------------------------------
(* parseByte: the states after a byte; right: it is the one of the frame   *)
(* the parser waits for.                                                   *)

At(s, p) == [p EXCEPT !.state = s]
Hunt     == [state |-> "SYNC1", left |-> 0, intact |-> FALSE]

Sync(p, right) ==
  \/ /\ p.state = "SYNC1"
     /\ parser' = IF right THEN At("SYNC2", Hunt) ELSE Hunt
  \/ /\ p.state = "SYNC2"
     /\ parser' = IF right THEN [At("CLASS", Hunt) EXCEPT !.intact = TRUE] ELSE Hunt

Header(p, right) ==
  LET q == [p EXCEPT !.intact = @ /\ right]
  IN \/ p.state = "CLASS" /\ parser' = At("ID", q)
     \/ p.state = "ID"    /\ parser' = At("LEN1", q)
     \/ p.state = "LEN1"  /\ parser' = At("LEN2", q)
     \/ /\ p.state = "LEN2"
        /\ \E n \in IF q.intact THEN {PayloadLen} ELSE 0..LongLen :
             parser' = [At("PAYLOAD", q) EXCEPT !.left = n]

\* A byte is read before the length is looked at, also when that is 0.
Payload(p, right) ==
  /\ p.state = "PAYLOAD"
  /\ LET q == [p EXCEPT !.intact = @ /\ right]
     IN parser' = IF p.left <= 1 THEN [At("CHKA", q) EXCEPT !.left = 0]
                  ELSE [q EXCEPT !.left = @ - 1]

\* Mutant of CheckA: after a wrong checksum the next byte is tried.
CheckAgain(p, right) ==
  /\ p.state = "CHKA"
  /\ parser' = IF p.intact /\ right THEN At("CHKB", p) ELSE p

CheckA(p, right) ==
  /\ p.state = "CHKA"
  /\ parser' = IF p.intact /\ right THEN At("CHKB", p) ELSE Hunt

\* Mutant of Dispatch: every message is a sign of life.
DispatchAny ==
  /\ relpos' = 0
  /\ IF frame.relpos
     THEN solution' = frame.solution /\ silence' = 0 /\ received' = TRUE
     ELSE UNCHANGED <<solution, silence, received>>

\* dispatchMessage: RELPOSNED brings the solution; others position, satellites
\* and the age of the corrections.
Dispatch ==
  IF frame.relpos
  THEN relpos' = 0 /\ solution' = frame.solution /\ silence' = 0 /\ received' = TRUE
  ELSE UNCHANGED <<relpos, solution, silence, received>>

CheckB(p, right) == p.state = "CHKB" /\ parser' = Hunt

NoMessage == UNCHANGED <<relpos, solution, silence, received>>

Parse(right) ==
  \/ /\ Sync(parser, right) \/ Header(parser, right) \/ Payload(parser, right)
        \/ CheckA(parser, right)
     /\ NoMessage
  \/ /\ CheckB(parser, right)
     /\ IF parser.intact /\ right THEN Dispatch ELSE NoMessage
----------------------------------------------------------------------------
(* The stream.                                                             *)

\* The place of the byte the parser waits for.
Awaited ==
  CASE parser.state = "SYNC1" -> 1 [] parser.state = "SYNC2" -> 2
    [] parser.state = "CLASS" -> 3 [] parser.state = "ID" -> 4
    [] parser.state = "LEN1" -> 5 [] parser.state = "LEN2" -> 6
    [] parser.state = "PAYLOAD" -> PayloadLen + 7 - parser.left
    [] parser.state = "CHKA" -> PayloadLen + 7 [] parser.state = "CHKB" -> Last

SendNext ==
  IF pos < Last THEN pos' = pos + 1 /\ UNCHANGED frame
  ELSE /\ pos' = 1
       /\ \E s \in Solutions : frame' = [relpos |-> ~frame.relpos, solution |-> s]

Mishap == mishaps < MishapBound /\ mishaps' = mishaps + 1

\* A byte arrives as it was sent.
Receive == SendNext /\ Parse(pos = Awaited) /\ UNCHANGED mishaps

\* A byte is wrong, or one of payload is taken for the one awaited.
Garble ==
  /\ Mishap /\ SendNext
  /\ \/ parser.state \in {"SYNC1", "SYNC2"} /\ Sync(parser, TRUE) /\ NoMessage
     \/ Parse(FALSE)

LoseByte ==
  /\ Mishap /\ SendNext
  /\ parser' = [parser EXCEPT !.intact = FALSE] /\ NoMessage
----------------------------------------------------------------------------
\* A unit of time, much longer than a pass of readerLoop, whose head takes back the
\* solution in time.
Later(n) == IF n < NoSolution THEN n + 1 ELSE n

Tick ==
  /\ relpos' = Later(relpos) /\ silence' = Later(silence)
  /\ solution' = IF relpos' > SolTimeout THEN "Invalid" ELSE solution
  /\ received' = FALSE
  /\ UNCHANGED <<frame, pos, parser, mishaps>>

GpsInit ==
  /\ frame = [relpos |-> FALSE, solution |-> "Invalid"] /\ pos \in 1..Last
  /\ parser = Hunt /\ relpos = NoSolution /\ solution = "Invalid"
  /\ silence = NoSolution /\ received = FALSE /\ mishaps = 0

GpsNext == Receive \/ Garble \/ LoseByte \/ Tick

GpsSpec == GpsInit /\ [][GpsNext]_gpsVars

\* The receiver goes on sending, the thread goes on reading.
GpsFairness == WF_gpsVars(Receive)
----------------------------------------------------------------------------
(* Properties.                                                             *)

GpsTypeOK ==
  /\ frame \in [relpos: BOOLEAN, solution: Solutions] /\ pos \in 1..Last
  /\ parser \in [state: ParserStates, left: 0..LongLen, intact: BOOLEAN]
  /\ relpos \in 0..NoSolution /\ solution \in Solutions
  /\ silence \in 0..NoSolution /\ received \in BOOLEAN /\ mishaps \in 0..MishapBound

\* Robot is not told Float or Fixed on the strength of a solution older than the
\* timeout, whatever other messages still come through.
FixIsRecent == solution # "Invalid" => silence <= SolTimeout

\* Whenever bytes were lost or garbled, a solution is received again some time,
\* however they misled the parser about the length of what follows.
ParserRecovers == mishaps > 0 ~> received
=============================================================================
