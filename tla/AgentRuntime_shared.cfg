CONSTANTS
  Threads = {"worker", "loop"}
  Agents = {"parser"}
  Creator = "loop"
  Eager = {}
  Uses <- SameAgents
  MaxRuns = 2
  MaxCalls = 1
  MaxRetries = 3
  MaxFaults = 0
SPECIFICATION Spec
CHECK_DEADLOCK FALSE
INVARIANT RunsRecorded
