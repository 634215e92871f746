\* Indented and expanded output, dynamic buffer; every realloc and the encoder malloc may fail, and the caller abandons the document after NO_MEMORY (spec section 7).
CONSTANTS
  Indent = 1
  Expand = TRUE
  Dynamic = TRUE
  Capacity = 0
  Width = 9
  NoKey = NoKey
  Keys <- MCKeys
  StrValues <- MCStrValues
  IntValues <- MCIntValues
  RealValues <- MCRealValues
  ReallocMayFail = TRUE
  Ops <- MCEmitOps
  OneDocument = TRUE
  AbandonOnNoMemory = TRUE
  MaxLen = 24
  SizeMax = 1000000
SPECIFICATION Spec
INVARIANT DumpIsJson
INVARIANT InBounds
