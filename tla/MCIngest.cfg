CONSTANTS
  scheduled = scheduled  manual = manual
  Callers <- TwoCallers
  NoCaller = NoCaller
  MaxRuns = 3
SPECIFICATION Spec
SYMMETRY Symmetric
INVARIANTS
  TypeOK
  ProgressIsTheHolders
  SyncNamesNewestCommit
  UnfinishedRowsAreExplained
  StoriesAgree
  HealthNeverHidesFailure
PROPERTY PublishesInOrder
