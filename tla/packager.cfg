CONSTANTS
  Names <- MCNames
  Values <- MCValues
  Types = {0, 200}
  MaxCalls = 4
  MaxReads = 2
SPECIFICATION Spec
INVARIANTS AcceptedIsWhatWasAdded NoWrongPair FoundByName PackagedComesBack
CHECK_DEADLOCK FALSE
