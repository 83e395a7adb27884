\* Three contexts, three instructions a cycle.
CONSTANTS
  N = 3
  Width = 3
  IfqSize = 2
  RobSize = 1
  IqSize = 3
  RfSize = 3
  Delay = 2
  MissLat = 2
  L1Lat = 2
  Large = {0}
  Loading = {1}
  Policies = {"icount", "round_robin", "dcra"}
SPECIFICATION Spec
INVARIANTS
  FetchInv
  NotPassedTwice
PROPERTIES
  SlotsWellSpent
CHECK_DEADLOCK FALSE
