CONSTANTS
  Windows = {"editor", "terminal"}
  NoWindow = "none"
  Threads = {"paste-1"}
  MaxDictations = 2
  ActionBound = 2
  FeedBound = 2
  AutoTransfer = TRUE
  Disturbances = {"hands", "impatience"}
SPECIFICATION Spec
CHECK_DEADLOCK FALSE
INVARIANT
  PastedWhereSpoken 
