SPECIFICATION FairSpec
CONSTANTS
  Inputs <- GpsInputs
  Commands <- StartOnly
  MaxBatch = 1
  MaxStuck = 2
INVARIANT MotorsMatchOperation
INVARIANT DetourReturns
PROPERTY GpsRecoveryEndsWait
