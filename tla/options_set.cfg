CONSTANTS
  Names <- MCNames
  NameKey <- MCNameKey
  Vals = {v1, v2}
  HeapVals = {}
  NullVal = NullVal
  CallVals = {v1, v2}
  NoName = NoName
  NoVal = NoVal
  Handles = {h1, h2, h3}
  OptionMax = 3
  ReallocMayFail = TRUE
  NameMallocMayFail = FALSE
SPECIFICATION Spec
SYMMETRY MCHandleSymmetry
INVARIANTS TypeOK Sorted LibListsLive
PROPERTIES RefinesOptionMap
