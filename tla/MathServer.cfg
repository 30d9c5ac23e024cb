SPECIFICATION ServerSpec
CONSTRAINT OneHandlerError
CONSTANTS
  MaxRequests = 2
  MaxFlaws = 0
  Registry <- MCRegistry
  Aliases <- MCAliases
  Names <- MCNames
  Outcomes <- MCOutcomes
  MaxHostChanges = 0
  MaxCrashes = 1
  Uncapped = {2}
INVARIANTS
  ServerInv
  ProcessesHaveTheirRequest
  ResultsAreBacked
  ServerIsNeverStuck
PROPERTY ImplementsDispatch
