CONSTANTS
  alice = alice  home = home
  Users <- OneUser
  Ips <- OneIp
  Guest = Guest
  MaxFailures = 2
  WindowLength = 2
  MaxAge = 2
  Passwords = {1, 2}
  MaxTime = 4
  MaxSecrets = 3
  MaxTokens = 2
  MaxRestarts = 1
SPECIFICATION Spec
INVARIANTS
  TypeOK
  SessionsHold
  OwnersWritesAreKept
  RateLimitIsExact
