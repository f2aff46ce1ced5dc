SPECIFICATION FairSpec
CONSTANTS
  Inputs <- PowerInputs
  Commands <- NoCommands
  MaxBatch = 1
  MaxStuck = 2
INVARIANT ShutdownAtRest
PROPERTY LowBatteryEndsMowing
CHECK_DEADLOCK FALSE
