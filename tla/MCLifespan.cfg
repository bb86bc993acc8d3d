CONSTANTS
  hourly = hourly  startup = startup  admin = admin
  reader1 = reader1  reader2 = reader2  browser = browser
  Jobs <- TwoJobs
  Admins = {admin}
  Readers <- TwoReaders
  Streams = {browser}
  ServerWaits = FALSE
CHECK_DEADLOCK FALSE
SPECIFICATION FairSpec
INVARIANTS
  TypeOK
  CompletionsAreHeard
  PoolsEndClosed
PROPERTIES
  StreamsAreWoken
  StopEnds
