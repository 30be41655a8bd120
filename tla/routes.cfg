CONSTANTS
  City = {c1, c2, c3}
  Blank = blank
  MaxDist = 2
  Strategy = {"depth", "breadth", "hill", "least", "removal"}
  Distances = {0, 1, 2}
  MaxFlights = 3
  Table <- MCTable
  Parallel = FALSE
SPECIFICATION FairSpec
INVARIANTS FoundRouteIsReal NothingMissed RemovalFindsNewRoute
PROPERTY SearchEnds
