CONSTANTS
  ModifierKeys <- MCModifierKeys
  Families <- MCFamilies
  FamilyOf <- MCFamilyOf
  MainKeys <- MCMainKeys
  NoKey = "none"
  Configs <- MCConfigs
  PressThreshold = 1
  HoldTakeover = 1
  MaxHold = 1
  AgeCap = 1
  NamedKeys = {"Space"}
  OtherKeys = {"C"}
  PanelKeys <- MCPanelKeys
  MaxEvents = 1
  MaxCommands = 1
SPECIFICATION ListenerFairSpec
CHECK_DEADLOCK FALSE
INVARIANTS
  BelievedKeysAreDown
  BlockedIsReported
PROPERTIES
  ChordIsSwallowedWhereItTriggers
  ListenerEnds
