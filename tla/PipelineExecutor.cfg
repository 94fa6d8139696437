CONSTANTS
  Keys <- FlowKeys
  Atoms <- FlowAtoms
  Agents <- MCAgents
  Registered <- MCRegistered
  Pipelines <- MCPipelines
  Replies <- MCReplies
  MayRaise <- MCRegistered
  WikiMayFail = TRUE
  MaxRuns = 2
  MaxSecond = 2
  MaxSteps = 2
SPECIFICATION MCSpec
CHECK_DEADLOCK FALSE
INVARIANT FailsAtRequiredStep
INVARIANT ReviewReported
INVARIANT LatestIsDeposited
INVARIANT P0Held
INVARIANT FailedRunQuiet
INVARIANT SkippedWhenUnclassified
