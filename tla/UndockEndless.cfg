SPECIFICATION Spec
CONSTANTS
  MowLen = 3
  MaxDock = 3
  MaxFree = 2
  MaxTries = 3
INVARIANT UndockPathEnds
