CONSTANTS
  Chars = {"-", "=", "a", "b", "c", "l", "x"}
  NUL = NUL
  NoName = NoName
  Unset = Unset
  Args <- MCArgs
  Tokens <- MCTokens
  MaxArgs = 3
  Queries <- MCQueries
  JunkChars = {NUL}
  SizeBits = 12
  IntBits = 8
  UsageCols = {0, 1, 2, 4, 6, 8, 10, 12, 16, 24}
  UsagePoses <- MCUsagePoses
SPECIFICATION Spec
INVARIANTS TypeOK ParseMatchesReference IteratorFindsAll UsageAligned
PROPERTIES Terminates
CHECK_DEADLOCK FALSE
