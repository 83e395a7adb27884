\* Two threads that contend for a pool one register short of both caps.
CONSTANTS
  Threads = {0, 1}
  NumArch = 2
  NumPhys = 7
  Limit = 2
  RobSize = 2
  LsqSize = 1
  IfqSize = 1
  Insts <- MCSharedInsts
  PredPerfect = FALSE
  IncludeSpec = TRUE
  InitMap <- MCInitMap
SPECIFICATION Spec
INVARIANTS
  NoRegisterShared
PROPERTIES
  ImplementsArch
