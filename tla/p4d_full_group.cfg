CONSTANTS
  Word = 10
  Byte = 5
  BlockSize = 29
  Codec = {"p4d"}
  Short = 2
  ShortValues = {0, 1, 9}
  Long = {9, 10, 20}
  Arrays <- MCArrays
  Stale = {0, 9}
  FullGroups = TRUE
  MaxCalls = 3
SPECIFICATION Spec
PROPERTY RoundTrip
CHECK_DEADLOCK FALSE
