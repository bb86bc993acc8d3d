CONSTANTS
  month = month  week = week
  Selections <- TwoSelections
  Initial = month
  QueueLimit = 1
  MaxCommits = 1
  MaxFailures = 1
  MaxSelects = 2
CHECK_DEADLOCK FALSE
SPECIFICATION FairSpec
INVARIANTS
  TypeOK
  LoadingIsUnderWay
PROPERTIES
  NeverGoesBack
  AnnouncedIsShown
