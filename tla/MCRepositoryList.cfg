CONSTANTS
  month = month  week = week
  ListRanges <- TwoRanges
  Initial = month
  MaxCommits = 3
  MaxSelects = 3
CHECK_DEADLOCK FALSE
SPECIFICATION FairSpec
PROPERTIES
  ListNeverGoesBack
  RefreshIsNotLost
