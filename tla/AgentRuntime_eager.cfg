CONSTANTS
  Threads = {"worker", "loop"}
  Agents = {"parser", "coach"}
  Creator = "loop"
  Eager = {"parser"}
  Uses <- OwnAgents
  MaxRuns = 2
  MaxCalls = 1
  MaxRetries = 3
  MaxFaults = 0
SPECIFICATION Spec
CHECK_DEADLOCK FALSE
INVARIANT NoForeignFailure
