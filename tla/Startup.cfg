SPECIFICATION Spec
CONSTANTS
  Descriptor <- MCDescriptor
  Order <- MCOrder
  Files <- MCFiles
  DumpFile = "dump"
  CacheConfigs <- MCCacheConfigs
  Programs <- MCPrograms
  CommandLines <- MCCommandLines
  Calls = {"fork", "wait", "select", "sleep", "exit"}
  MaxContexts = 4
  SelectTime = 2
  SleepTime = 1
  HashOf <- MCHashOf
  Profilable = {"sim_num_insn", "sim_cycle", "lookups"}
  MostRenamed = 3
  MostCounted = 2
  SymbolsOf <- MCSymbolsOf
  Ranges <- MCRanges
  Endless = 1000
  MostCycles = 4
  Renames = {0, 2}
INVARIANTS
  StartupInv
  ValuesAsWritten
  DumpReloads
  LoadedSkipExactly
  ProfileExact
  TraceIsFirstVisit
PROPERTIES
  StartupEnds
CHECK_DEADLOCK FALSE
