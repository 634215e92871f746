\* Indented output into a fixed 24-byte buffer: every call but the undo operations.
CONSTANTS
  Indent = 1
  Expand = FALSE
  Dynamic = FALSE
  Capacity = 24
  Width = 9
  NoKey = NoKey
  Keys <- MCKeys
  StrValues <- MCStrValues
  IntValues <- MCIntValues
  RealValues <- MCRealValues
  ReallocMayFail = FALSE
  Ops <- MCEmitOps
  OneDocument = TRUE
  AbandonOnNoMemory = TRUE
  MaxLen = 100
  SizeMax = 1000000
SPECIFICATION Spec
INVARIANT TextMatchesStack
PROPERTY FailureIsAtomic
