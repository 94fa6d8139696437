CONSTANTS
  Parts = {"web", "plans", "tests", "code", "evals"}
  TriggerTypes = {"coach_transcript", "poc_result"}
  Clients = {"client"}
  MaxTasks = 7
  Planners = {p1, p2}
  MaxBlocking = 1
  MaxRuns = 2
  MaxVersion = 4
  Shapes <- WShapes
  MaxTests = 3
  NameKey <- WNameKey
  Coverages <- WCoverages
  ModelFindings <- WModelFindings
  Files <- WFiles
  IsTest <- WIsTest
  Sources <- WSources
  Window = 2
  PlaceText <- WPlaceText
  RefModelSays <- WModelSays
  Scenarios = {"route", "label"}
  SuiteOf <- WSuiteOf
  NeedsModel = {"label"}
  MaxChanges = 2
SPECIFICATION MCSpec
SYMMETRY Alike
CHECK_DEADLOCK FALSE
INVARIANT EventsInOrder
INVARIANT NoPlanOnGuess
INVARIANT AcceptedAsRead
INVARIANT VerdictStands
INVARIANT FindingsStand
INVARIANT RegressionsAreExplained
