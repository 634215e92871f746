\* Compact output, dynamic buffer, reliable realloc: every call but the undo operations.
CONSTANTS
  Indent = 0
  Expand = FALSE
  Dynamic = TRUE
  Capacity = 0
  Width = 9
  NoKey = NoKey
  Keys <- MCKeys
  StrValues <- MCStrValues
  IntValues <- MCIntValues
  RealValues <- MCRealValues
  ReallocMayFail = FALSE
  Ops <- MCEmitOps
  OneDocument = TRUE
  AbandonOnNoMemory = FALSE
  MaxLen = 16
  SizeMax = 1000000
SPECIFICATION Spec
INVARIANT TypeOK
INVARIANT DumpIsJson
INVARIANT TextMatchesStack
INVARIANT InBounds
