\* Two threads with a cap of one and a share of one register each, fair stages.
CONSTANTS
  Threads = {0, 1}
  NumArch = 2
  NumPhys = 6
  Limit = 1
  RobSize = 2
  LsqSize = 1
  IfqSize = 1
  Insts <- MCSharedInsts
  PredPerfect = FALSE
  IncludeSpec = TRUE
  InitMap <- MCInitMap
SPECIFICATION FairSpec
INVARIANTS
  FairShare
PROPERTIES
  CapStallEnds
  FetchedIsRenamed
