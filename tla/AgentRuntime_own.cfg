CONSTANTS
  Threads = {"worker", "loop"}
  Agents = {"parser", "coach"}
  Creator = "loop"
  Eager = {"coach"}
  Uses <- OwnAgents
  MaxRuns = 2
  MaxCalls = 2
  MaxRetries = 3
  MaxFaults = 2
SPECIFICATION FairSpec
CHECK_DEADLOCK FALSE
INVARIANT RunsRecorded
INVARIANT CallsMetered
PROPERTY ExecutionEnds
