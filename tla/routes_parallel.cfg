CONSTANTS
  City = {c1, c2, c3}
  Blank = blank
  MaxDist = 2
  Strategy = {"breadth"}
  Distances = {1}
  MaxFlights = 2
  Table <- MCTable
  Parallel = TRUE
SPECIFICATION Spec
PROPERTY ResetUndoesProbe
