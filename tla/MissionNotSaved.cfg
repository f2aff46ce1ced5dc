SPECIFICATION Spec
CONSTANTS
  Inputs <- DockInputs
  Commands <- StartOnly
  MaxBatch = 1
  MaxStuck = 2
PROPERTY DockingSavesMission
CHECK_DEADLOCK FALSE
