SPECIFICATION FairSpec
CONSTANTS
  PullRequest = {p1, p2}
  Comment = {c1, c2}
  None = None
  RetryLimit = 2
  Timeout = 2
  Backoff = 1
  RetryAfter = 3
  Scenarios <- QueueScenarios
CHECK_DEADLOCK FALSE
INVARIANT TypeOK
INVARIANT TimerKept
PROPERTY IntakeKept
PROPERTY TimerServed
