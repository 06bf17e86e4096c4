SPECIFICATION Spec
CONSTANTS
  ConfFiles <- MCConfFiles
  ConfDefault <- MCConfDefault
  Levels = {0, 2}
  DefaultLevel = 1
  MaxLevel = 2
  Placements <- MCPlacements
  Sizes <- MCSizes
  Frame = 1
  MaxRuns = 2
INVARIANTS
  LinesKept
  AdjustAgree
  SettingsReadAsText
  ShownFollows
PROPERTY
  SettingsSurvive
CHECK_DEADLOCK FALSE
