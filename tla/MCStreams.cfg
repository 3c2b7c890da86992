CONSTANTS
  Programs = {"app", "cli"}
  ExpectedSize = 3
  MaxDownloadFaults = 3
  Overlap = FALSE
  MaxRequests = 3
  MaxEngineFaults = 2
  Disturbances = {}
SPECIFICATION StreamsSpec
CHECK_DEADLOCK FALSE
INVARIANTS
  DownloadIsSafe
  EngineAnswers
PROPERTIES
  ModelArrives
  EngineEnds
