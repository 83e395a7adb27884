\* Programs of six and of nine instructions, a fetch queue of two and a ROB of two
\* or four entries.
CONSTANTS
  Entry = 1
  Regs = {"r0", "r1", "r31"}
  Zero = "r31"
  Size = 2
  IfqSize = 2
  RasSize = 2
  BtbSets = 1
  BtbAssoc = 2
  BimodSize = 1
  MetaSize = 1
  L1Size = 1
  L2Size = 2
  ShiftWidth = 1
  XorAddress = TRUE
  Options <- MCOptions
SPECIFICATION FairSpec
INVARIANTS
  FrontEndInv
  PathIsProgram
  RecoveryIsExact
PROPERTIES
  RingIsQueue
  WrongPathEnds
CHECK_DEADLOCK FALSE
