SPECIFICATION Spec
CONSTANTS
  MaxRuns = 5
  MaxInterrupts = 1
INVARIANTS
  PatchesAreWhole
  RegenerationIsWhole
CHECK_DEADLOCK FALSE
