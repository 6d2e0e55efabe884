\* Every thread of the controller, people, Chai and time, within the bounds of each scenario.
SPECIFICATION FairSpec
CONSTANTS
  Commit = {1, 2}
  Base = {"main", "dev"}
  Main = "main"
  Command = {"required", "remaining", "auto", "skip", "agentic", "mark", "chat"}
  File = {"web", "text"}
  Presubmit <- Presubmits
  Timeout = 1
  Scenarios <- PipelineScenarios
CHECK_DEADLOCK FALSE
INVARIANT TypeOK
INVARIANT GreenMeansDispatched
PROPERTY OwnersExclude
PROPERTY SecondStageStarts
