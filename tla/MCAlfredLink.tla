---------------------------- MODULE MCAlfredLink ----------------------------
(* Instances of AlfredLink: all that may go wrong but a controller that     *)
(* hangs, or nothing but the end of the loop.                               *)
EXTENDS AlfredLink

Rough == {"bumper", "loss", "stall", "crash", "reset", "exit"}
Calm  == {"exit"}

WatchAll  == {"trip", "ticks", "silent"}
WatchNone == {}
=============================================================================
