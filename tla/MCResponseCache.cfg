CONSTANTS
  r1 = r1  r2 = r2  w1 = w1  w2 = w2
  Keys = {k1}
  Requests <- TwoRequests
  Workers <- TwoWorkers
  NoKey = NoKey
  NoRequest = NoRequest
  NoItem = NoItem
  MaxCommits = 2
SPECIFICATION FairSpec
INVARIANTS
  TypeOK
  RefreshedFreshIsCurrent
  RefreshingHasOneOwner
  ComputesOnlyWhatIsMissing
PROPERTY Heals
