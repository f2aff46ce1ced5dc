SPECIFICATION Spec
CONSTANTS
  Inputs <- NoInputs
  Commands <- StartStop
  MaxBatch = 2
  MaxStuck = 2
INVARIANT HaltHolds
