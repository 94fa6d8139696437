CONSTANTS
  Clients = {"ann", "bob"}
  Cards = {"sc1"}
  MaxChanges = 2
  TickIds = {0, 1}
  Careful = TRUE
  PromptPolls = TRUE
SPECIFICATION FairSpec
CHECK_DEADLOCK FALSE
INVARIANT ArchivesExist
INVARIANT TickCompletedOnce
PROPERTY CommitsOnlyOwnChanges
PROPERTY SavedChangeIsCommitted
PROPERTY Converges
