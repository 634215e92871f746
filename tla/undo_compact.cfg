\* Compact output, dynamic buffer, reliable realloc: every call, object_cancel and object_clear included.
CONSTANTS
  Indent = 0
  Expand = FALSE
  Dynamic = TRUE
  Capacity = 0
  Width = 9
  NoKey = NoKey
  Keys <- MCKeys
  StrValues <- MCStrValues
  IntValues <- MCIntValues
  RealValues <- MCRealValues
  ReallocMayFail = FALSE
  Ops <- MCAllOps
  OneDocument = TRUE
  AbandonOnNoMemory = FALSE
  MaxLen = 12
  SizeMax = 1000000
SPECIFICATION Spec
PROPERTY DumpIdempotent
