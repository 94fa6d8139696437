CONSTANTS
  Agents = {a1, a2}
  MaxTasks = 3
  MaxStarts = 2
  SlowHandlers = TRUE
  MinClockStep = 1
SPECIFICATION HangSpec
CHECK_DEADLOCK FALSE
INVARIANT EveryTaskOnce
PROPERTY AtMostOneAnswerAfterStop
PROPERTY ServedUnlessStopped
PROPERTY StopReturns
