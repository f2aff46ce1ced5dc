------------------------------ MODULE Service ------------------------------
(***************************************************************************)
(* What a client of the web server may rely on: requests are answered one  *)
(* by one in the order of their arrival, and each of them some time, as    *)
(* long as the service is open; once closed, it stays closed.              *)
(***************************************************************************)
EXTENDS Sequences

CONSTANT Requests  \* kinds of requests

VARIABLES
  waiting, \* requests accepted and not answered, the one in work first
  open     \* the service takes requests

ServiceVars == <<waiting, open>>

ServiceInit == waiting = <<>> /\ open = TRUE

Ask ==
  /\ open
  /\ \E r \in Requests : waiting' = Append(waiting, r)
  /\ UNCHANGED open

Answer ==
  /\ open /\ waiting # <<>>
  /\ waiting' = Tail(waiting)
  /\ UNCHANGED open

\* Closing drops what waits.
Close == open /\ open' = FALSE /\ waiting' = <<>>

ServiceNext == Ask \/ Answer \/ Close

ServiceSafety == ServiceInit /\ [][ServiceNext]_ServiceVars

ServiceSpec == ServiceSafety /\ WF_ServiceVars(Answer)
=============================================================================
