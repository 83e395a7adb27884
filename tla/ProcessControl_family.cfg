\* Two cores of two places: a program forks up to two more across them; exits,
\* waits, selects and kills.
CONSTANTS
  NumCores = 2
  MaxPerCore = 2
  NumInit = 1
  MaxContexts = 3
  Width = 2
  Period = 2
  SelectDelay = 2
  Calls = {"fork", "exit", "wait", "kill", "select"}
SPECIFICATION FairSpec
INVARIANTS
  ProcessInv
  DeathsReported
  AnswerIsDelivered
PROPERTIES
  NoCallFromTheDead
  InPlaceResumes
CHECK_DEADLOCK FALSE
