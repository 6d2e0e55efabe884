SPECIFICATION Spec
CONSTANTS
  PullRequest = {p1, p2}
  Comment = {c1, c2}
  None = None
  RetryLimit = 2
  Timeout = 4
  Backoff = 1
  RetryAfter = 3
  Scenarios <- OutageScenarios
CHECK_DEADLOCK FALSE
INVARIANT TimerNeverForgotten
