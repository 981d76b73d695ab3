CONSTANTS
  Threshold = 2
  Interval = 1
  MaxKills = 1
  MaxDeploys = 1
SPECIFICATION FairSpec
PROPERTIES RestartsAreSpaced RestartNeedsLongFailure HangIsHealed MarkerGoes
