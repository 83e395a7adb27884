CONSTANTS
  Units <- MCUnits
  IssueLat = 1
  Machines <- MCMachines
  MemLat = 1
  MaxBacklog = 1
  TlbLats = {1}
  CommitWidth = 2
  LoadWidth = 1
  WriteBufSize = 2
  MaxWait = 8
SPECIFICATION Spec
INVARIANTS
  CachesInv
  AloneCoherent
  
