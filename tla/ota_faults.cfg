CONSTANTS
  NumEntries = 2
  EntrySize <- MCEntrySize
  MaxBlocks = 1
  MaxCalls = 2
  OpenMayFail = FALSE
  GarbageMayRun = FALSE
SPECIFICATION Spec
INVARIANTS TypeOK ExtractReportsEntries ToolRunsOnPackage
CHECK_DEADLOCK FALSE
