CONSTANTS
  Clients = {"ann", "bob"}
  Cards = {"sc1"}
  MaxChanges = 3
  TickIds = {0, 1}
  Careful = FALSE
  PromptPolls = TRUE
SPECIFICATION Spec
CHECK_DEADLOCK FALSE
PROPERTY SavedChangeIsCommitted
