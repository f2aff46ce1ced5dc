SPECIFICATION Spec
CONSTANTS
  Inputs <- StopInputs
  Commands <- StartOnly
  MaxBatch = 1
  MaxStuck = 2
INVARIANT SafetyStopHolds
INVARIANT RouteFollowed
