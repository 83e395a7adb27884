SPECIFICATION Spec
CONSTANTS
  Procs = {p1, p2}
  MaxNumber = 4
  MaxMaps = 2
  FirstBase = 4
  Files = {"f"}
  Pipes = {"a"}
  PageWords = 2
  Buckets = 2
  Words = 8
  Mixes <- MCMixes
INVARIANTS
  OsInv

  
  
CHECK_DEADLOCK FALSE
