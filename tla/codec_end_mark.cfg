CONSTANTS
  Word = 10
  Byte = 5
  BlockSize = 29
  Codec = {"p4d", "index"}
  Short = 2
  ShortValues = {0, 1, 2, 9, 300, 1023}
  Long = {9, 11}
  Arrays <- MCArrays
  Stale = {0, 9}
  FullGroups = FALSE
  MaxCalls = 3
SPECIFICATION Spec
INVARIANT OutArrSuffices
CHECK_DEADLOCK FALSE
