\* A Chai that stays silent, and a pull request that is a draft in the meantime.
SPECIFICATION FairSpec
CONSTANTS
  Commit = {1, 2}
  Base = {"main", "dev"}
  Main = "main"
  Command = {"required", "remaining", "auto", "skip", "agentic", "mark", "chat"}
  File = {"web", "text"}
  Presubmit <- Presubmits
  Timeout = 1
  Scenarios <- DraftScenarios
CHECK_DEADLOCK FALSE
PROPERTY SilenceHandsOver
