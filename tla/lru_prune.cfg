SPECIFICATION Spec
CONSTANTS
  Key = {"k", "l", "m"}
  MaxCacheSize = 3
  MaxAdds = 4
PROPERTIES
  PrunedToLimit
CHECK_DEADLOCK FALSE
