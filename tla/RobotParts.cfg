SPECIFICATION PartsSpec
CONSTANTS
  MowLen = 3
  MaxDock = 3
  MaxFree = 2
  MaxTries = 3
  MotorTimeout = 2
  WatchdogTime = 2
  BootTime = 1
  ShortRecovery = 1
  LongRecovery = 2
  OverloadWindow = 18
  Disturbances = {"current", "hang", "reset"}
  MissionIds = {"m", "n"}
  Zones = {"a", "c"}
  ChangeBound = 2
  AskBound = 2
INVARIANTS LocalRouteSound MowingReturns SilenceStopsMotors PermanentHolds
  MissionsKept
PROPERTIES MowsInOrder DockingEnds OverloadEnds StartsAsAsked
CHECK_DEADLOCK FALSE
