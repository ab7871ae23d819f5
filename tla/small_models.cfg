SPECIFICATION MCSpec
CONSTANTS
  Refresher = loop
  Others = {owner, other}
  Ttls = {0, 1, 3}
  MaxGrants = 3
  MaxTime = 4
  MaxDelay = 1
  Tokens = {"jwt"}
  Retries <- Backoff
  MaxLines = 2
  NoThread = NoThread
INVARIANTS
  TypesOK
  ValidWithinGrant
  GrantSticks
  SessionOutcome
  FileFollowsConsole
  WorkerIsExclusive
  SettledIsTrue
\* The bounds of AuthClient and Logger end a behaviour.
CHECK_DEADLOCK FALSE
