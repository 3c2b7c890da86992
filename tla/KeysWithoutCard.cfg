CONSTANTS
  Threads = {"session", "page"}
  Monitors = {"left"}
  Spots = {"low"}
  Systems = {"windows"}
  MaxOpens = 3
  MaxMoves = 1
  Overlap = TRUE
SPECIFICATION Spec
CHECK_DEADLOCK FALSE
INVARIANT
  KeysGoWithTheCard
