CONSTANTS
  MotorTimeout = 2
  WatchdogTime = 1
  BootTime = 1
  ShortRecovery = 0
  LongRecovery = 0
  OverloadWindow = 0
  ConsolePeriod = 2
  SummaryPeriod = 2
  RampSteps = 2
  Grace = 1
  MaxStall = 1
  Disturbances <- Rough
  Watched <- WatchAll
SPECIFICATION Spec
INVARIANTS TicksKept SilenceNoticed TripStopsMotors
