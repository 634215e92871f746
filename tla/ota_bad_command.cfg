CONSTANTS
  NumEntries = 2
  EntrySize <- MCEntrySize
  MaxBlocks = 1
  MaxCalls = 2
  OpenMayFail = TRUE
  GarbageMayRun = TRUE
SPECIFICATION Spec
INVARIANT ToolRunsOnPackage
CHECK_DEADLOCK FALSE
