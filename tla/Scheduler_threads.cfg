\* Two threads of two instructions that issue two at a time from two queue
\* entries, under both recovery models.
CONSTANTS
  Threads = {t1, t2}
  Regs = {0, 1}
  RobSize = 2
  IqSize = 2
  RenameWidth = 1
  Width = 2
  Delay = 1
  HitLat = 1
  LoadLats = {1, 4}
  AluLats = {1}
  Addrs = {1}
  Classes = {"alu", "load"}
  Recovery = {"squash", "perfect"}
  UnitsFree = TRUE
SPECIFICATION FairSpec
INVARIANTS
  ReplayInv
PROPERTIES
  HeadCompletes
CHECK_DEADLOCK FALSE
