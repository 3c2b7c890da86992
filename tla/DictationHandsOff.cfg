CONSTANTS
  Windows = {"editor", "terminal"}
  NoWindow = "none"
  Threads = {"paste-1", "paste-2"}
  MaxDictations = 2
  ActionBound = 2
  FeedBound = 2
  AutoTransfer = TRUE
  Disturbances = {"engine"}
SPECIFICATION FairSpec
CHECK_DEADLOCK FALSE
INVARIANT
  PastedAtMostOnce
PROPERTIES
  UntouchedResultLands
  WorkingEnds
  RecordingEndsWithThePress 
