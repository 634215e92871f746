CONSTANTS
  Chars = {"-", "=", "a", "b", "c", "l", "v", "x"}
  NUL = NUL
  NoName = NoName
  Unset = Unset
  Args <- MCLongOnlyArgs
  Tokens <- MCDashTokens
  MaxArgs = 1
  Queries <- MCSkipQueries
  JunkChars = {NUL, "x"}
  SizeBits = 12
  IntBits = 8
  UsageCols = {0, 1, 2, 4, 6, 8, 10, 12, 16, 24}
  UsagePoses <- MCUsagePoses
SPECIFICATION Spec
INVARIANT NoReadPastArg
CHECK_DEADLOCK FALSE
