\* One thread with a window of three under squash replay: loads that hit or miss,
\* stores to the same address, and what depends on them.  Register 0 is never
\* adjusted by a replay.
CONSTANTS
  Threads = {t1}
  Regs = {0, 1}
  RobSize = 3
  IqSize = 2
  RenameWidth = 1
  Width = 1
  Delay = 1
  HitLat = 1
  LoadLats = {1, 4}
  AluLats = {1, 2}
  Addrs = {1}
  Classes = {"alu", "load", "store"}
  Recovery = {"squash"}
  UnitsFree = TRUE
SPECIFICATION Spec
INVARIANTS
  QueuesInv
  AssertionsHold
  DataFlow
  LoadsFollowStores
CHECK_DEADLOCK FALSE
