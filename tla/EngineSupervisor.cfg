CONSTANTS
  MaxRestarts = 2
  MaxRecordings = 1
  CommandBound = 1
  FaultBound = 3
  WeightsAtFirst = {{}, {"vulkan"}, {"cpu"}, {"vulkan", "cpu"}}
SPECIFICATION Spec
CHECK_DEADLOCK FALSE
INVARIANTS
  OneEngine
  ReadyOrNoticed
  NotForEver
  AskedTierIsUsed
