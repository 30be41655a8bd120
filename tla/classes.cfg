CONSTANTS
  Word = 10
  Byte = 5
  BlockSize = 29
  Codec = {"p4d", "index"}
  Short = 4
  ShortValues = {0, 1, 2, 9, 300, 1023}
  Long = {9, 11, 19, 21, 29}
  Arrays <- MCArrays
  Stale = {0, 9}
  FullGroups = FALSE
  MaxCalls = 3
  Node = {n1, n2, n3}
  NoNode = NoNode
  VnodeNum = 5
  MaxPlaces = 3
  MaxConf = 2
  Ptr = {p1, p2}
  Addr = {a1, a2, a3}
  Null = Null
  None = None
SPECIFICATION ClassesSpec
INVARIANTS
  CallerArrayKept
  CompressedFits
  EveryKeyIsServed
  EveryServerServes
  CountsExact
PROPERTIES
  RoundTrip
  FewKeysMove
  NoGarbageLeft
  CollectReturns
  PromiseKept
