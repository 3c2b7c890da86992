\* Thresholds of 1, 2 and 3 units: a press can be a tap, a short hold, a
\* takeover or hit the ceiling.  NoKey never equals a key.
CONSTANTS
  ModifierKeys <- MCModifierKeys
  Families <- MCFamilies
  FamilyOf <- MCFamilyOf
  MainKeys <- MCMainKeys
  NoKey = "none"
  Configs <- MCConfigs
  PressThreshold = 1
  HoldTakeover = 2
  MaxHold = 3
  AgeCap = 4
SPECIFICATION FairSpec
INVARIANTS
  IInv
PROPERTIES
  TapNeverDictates
  NextTapStopsTheLatch
  ImplementsRecorder
  RecordingEnds
