CONSTANTS
  Instants <- Around1970
  MinInstant <- FirstInstant
  Clock <- After1970
  Ranges <- SomeRanges
  TicksPerSecond = 4
  Candidates <- ThreeWidths
  MinBins = 3
  TicksPerMilli = 2
  DayMillis = 9
CHECK_DEADLOCK FALSE
SPECIFICATION Spec
INVARIANTS
  BinsTileTheWindow
  WidestThatFits
  PanelDrawsTheAnswer
