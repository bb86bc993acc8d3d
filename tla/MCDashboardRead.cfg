CONSTANTS
  r1 = r1  r2 = r2
  Repositories <- TwoRepositories
  Contents <- SomeContents
  Clock = {4}
  Ranges = {2}
  None = None
  MaxAttempts = 3
SPECIFICATION Spec
INVARIANTS
  TypeOK
  SummaryAddsUp
  StatusIsCurrent
PROPERTIES
  AnswerIsOneSnapshot
