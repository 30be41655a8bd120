CONSTANTS
  t1 = t1  t2 = t2
  p1 = p1  p2 = p2
  a1 = a1  a2 = a2
  n1 = n1  n2 = n2  n3 = n3
  g1 = g1  g2 = g2
  Thread <- Threads2
  Main = t1
  Ptr <- Ptrs2
  Owner <- Owner2
  Addr <- Addrs
  Null = Null
  Node <- Nodes
  End = End
  Collector <- Collectors
  NoOne = NoOne
  UnsignedRange = 8
  MaxDepth = 1
  Env <- EnvSlow
SPECIFICATION Spec
SYMMETRY Symmetry
INVARIANTS
  MutualExclusion
  CountsExact
  LiveBlockAllocated
  FreedOnce
PROPERTY PromiseKept
