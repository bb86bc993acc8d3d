CONSTANTS
  repo1 = repo1  repo2 = repo2  issue1 = issue1  pull1 = pull1  old = old  new = new
  Repositories <- TwoRepositories
  Issues = {issue1}
  PullRequests = {pull1}
  Bodies <- TwoBodies
  MaxRuns = 2
SPECIFICATION Spec
INVARIANTS
  TypeOK
  ForeignKeysHold
  CountsAreExact
PROPERTIES
  SeenTimesAreTrue
  ReplacesAtomically
CHECK_DEADLOCK FALSE
