\* Two programs on one core: the second waits for its child while the first exits.
CONSTANTS
  NumCores = 1
  MaxPerCore = 3
  NumInit = 2
  MaxContexts = 3
  Width = 1
  Period = 6
  SelectDelay = 2
  Calls = {"fork", "exit", "wait"}
SPECIFICATION FairSpec
PROPERTIES
  WaiterResumes
CHECK_DEADLOCK FALSE
