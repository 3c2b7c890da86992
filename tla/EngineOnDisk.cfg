CONSTANTS
  MaxRestarts = 1
  MaxRecordings = 2
  CommandBound = 1
  FaultBound = 1
  WeightsAtFirst = {{"vulkan", "cpu"}}
SPECIFICATION FairSpec
CHECK_DEADLOCK FALSE
INVARIANT
  LoadedIsItsModel
PROPERTIES
  ImplementsTranscriber
  RecordingsSettle
  EngineComesBack
