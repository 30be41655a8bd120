SPECIFICATION SamplesSpec
CONSTANTS
  Array = {"a", "b"}
  Value = {"v", "w"}
  Bound <- MCBound
  MaxSize = 3
  MaxThreads = 2
  MaxArrayNum = 2
  MaxRounds = 2
  Total = 3
  MaxBlocks = 3
  Key = {"k", "l", "m"}
  MaxCacheSize = 3
  MaxAdds = 4
  File = {"f1", "f2", ".f3", "f4", "empty"}
  Dir = {"root", "sub", "low", ".h"}
  Other = {"pipe"}
  Listing <- MCListing
  Hidden = {".h", ".f3"}
  Pages <- MCPages
  RootDir = "root"
  RootFile = "f1"
  FdLimit = 5
  Texts <- MCTexts
  OtherWord = {"x", "v"}
  Digit = {"1", "3"}
  LoopVars <- MCLoopVars
  Letter = {"a", "b", "c"}
  Words <- MCWords
  MaxWords = 3
  Code = {0, 5, 31, 37, 40, 63, 64, 65535, 65536}
  MaxLines = 3
  EventClient = {"c1", "c2"}
  Listener = "listenfd"
  SelectClient = {"c1", "c2"}
  MaxAsked = 2
  ThreadClient = {"c1", "c2"}
  Failure = {"f"}
INVARIANTS
  SamplesTypes
  CodeToldFromText
  WordsAreFound
  TableMatchesLookup
  RecentlyUsedStay
  EachFileOnce
  ThreadsLoseNothing
  ParentSeesAll
  OwnConnections
PROPERTIES
  TranslationEnds
  ArrayKeepsPromise
  EventAnswers
  SelectAnswers
  ThreadAnswers
