---------------------------- MODULE MCRobotLoop ----------------------------
(* Inputs and commands of the runs of RobotLoop: each run gives the loop   *)
(* the disturbances its question is about.                                 *)
EXTENDS RobotLoop

StopInputs  == {"bumper", "lift", "fault", "rain", "overload", "watchdog", "arrive"}
GpsInputs   == {"gps", "kidnap", "outside", "map", "manual", "arrive"}
PowerInputs == {"battery", "charger", "mcu", "stuck", "rain", "schedule", "arrive"}
OperatorInputs == {"button", "schedule", "charger", "diag", "arrive"}

DockInputs  == {"battery", "charger", "arrive"}
NoInputs    == {"arrive"}

NoCommands  == {}
StartOnly   == {"Start"}
StartStop   == {"Start", "Stop"}
=============================================================================
