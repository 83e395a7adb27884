\* One thread, a window of three entries: chains of writers, rollback, traps.
CONSTANTS
  Threads = {0}
  NumArch = 2
  NumPhys = 5
  Limit = 3
  RobSize = 3
  LsqSize = 2
  IfqSize = 1
  Insts <- MCWindowInsts
  PredPerfect = FALSE
  IncludeSpec = TRUE
  InitMap <- MCInitMap
SPECIFICATION Spec
INVARIANTS
  StateAssertionsHold
  RegisterInv
  SpeculationInv
