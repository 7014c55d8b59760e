SPECIFICATION FairSpec
CONSTANTS
  Temp = {0, 1, 2}
  UiMin = 1
  UiMax = 2
  Step = 0
  Gap = 0
  CoolDefault = 2
  HeatDefault = 1
  MaxRemote = 1
  MaxTouches = 1
  MaxOutages = 1
  NaN = NaN
  None = None
  FirstState <- MCFirstState
INVARIANTS
  LatestWins
  ShownUnlessTouched
PROPERTY
  ConvergesUnlessFailed
