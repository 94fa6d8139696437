CONSTANTS
  Agents = {a1, a2}
  MaxTasks = 3
  MaxStarts = 3
  SlowHandlers = FALSE
  MinClockStep = 1
SPECIFICATION Spec
CHECK_DEADLOCK FALSE
SYMMETRY Symmetry
INVARIANT OneAtATime
PROPERTY ImplementsSerial
