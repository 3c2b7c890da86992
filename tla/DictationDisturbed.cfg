CONSTANTS
  Windows = {"editor"}
  NoWindow = "none"
  Threads = {"paste-1"}
  MaxDictations = 1
  ActionBound = 2
  FeedBound = 2
  AutoTransfer = TRUE
  Disturbances = {"hands", "impatience", "microphone", "settings", "engine", "desktop"}
SPECIFICATION Spec
CHECK_DEADLOCK FALSE
INVARIANT
  DiscardedIsGone 
