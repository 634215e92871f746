\* Compact output into a fixed 12-byte buffer: do the closings dump writes fit?
CONSTANTS
  Indent = 0
  Expand = FALSE
  Dynamic = FALSE
  Capacity = 12
  Width = 9
  NoKey = NoKey
  Keys <- MCKeys
  StrValues <- MCStrValues
  IntValues <- MCIntValues
  RealValues <- MCRealValues
  ReallocMayFail = FALSE
  Ops <- MCEmitOps
  OneDocument = TRUE
  AbandonOnNoMemory = TRUE
  MaxLen = 100
  SizeMax = 1000000
SPECIFICATION Spec
INVARIANT InBounds
