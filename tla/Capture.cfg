CONSTANTS
  RingCapacity = 4
  PreRollSize = 3
  CapWanted = {1, 9}
  MinCap = 2
  MaxCap = 5
  Chunk = 2
  FrameLen = 2
  AttackFrames = 2
  HangoverFrames = 1
  Window = 2
  LevelBacklog = 1
  Loudness = {{3, 4, 5, 6}}
  Blocks = {3}
  MaxSamples = 9
  MaxCalls = 4
SPECIFICATION FairSpec
CHECK_DEADLOCK FALSE
INVARIANTS
  RecordingIsFaithful
  CapStopsCleanly
PROPERTY
  CallsReturn
