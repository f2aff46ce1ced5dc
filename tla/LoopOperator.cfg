SPECIFICATION Spec
CONSTANTS
  Inputs <- OperatorInputs
  Commands <- AllCommands
  MaxBatch = 1
  MaxStuck = 2
INVARIANT TypeOK
PROPERTY ImplementsOpManager
CHECK_DEADLOCK FALSE
