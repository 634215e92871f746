\* object_start("k"); add_integer(NULL, -7); object_cancel(): the calls of the cancel example of spec section 8.
CONSTANTS
  Indent = 0
  Expand = FALSE
  Dynamic = TRUE
  Capacity = 0
  Width = 9
  NoKey = NoKey
  Keys <- MCKeys
  StrValues <- MCStrValues
  IntValues <- MCIntValues
  RealValues <- MCRealValues
  ReallocMayFail = FALSE
  Ops <- MCCancelOps
  OneDocument = TRUE
  AbandonOnNoMemory = FALSE
  MaxLen = 16
  SizeMax = 1000000
SPECIFICATION Spec
INVARIANT DumpIsJson
