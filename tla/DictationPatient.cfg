CONSTANTS
  Windows = {"editor", "terminal"}
  NoWindow = "none"
  Threads = {"paste-1", "paste-2"}
  MaxDictations = 2
  ActionBound = 2
  FeedBound = 2
  AutoTransfer = TRUE
  Disturbances = {"hands"}
SPECIFICATION Spec
CHECK_DEADLOCK FALSE
INVARIANTS
  PastedWhereSpoken
  RecordingOwnsTheCard
PROPERTY
  ImplementsLifecycle 
