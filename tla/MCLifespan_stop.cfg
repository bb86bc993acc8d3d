CONSTANTS
  hourly = hourly  startup = startup  admin = admin
  reader1 = reader1  reader2 = reader2  browser = browser
  Jobs <- TwoJobs
  Admins = {admin}
  Readers = {reader1}
  Streams = {browser}
  ServerWaits = TRUE
CHECK_DEADLOCK FALSE
SPECIFICATION FairSpec
PROPERTY StopEnds
