SPECIFICATION Spec
CONSTANTS
  MaxRequests = 2
  MaxFlaws = 1
  Registry <- MCRegistry
  Aliases <- MCAliases
  Names <- MCNames
  Outcomes <- MCOutcomes
  Uncapped = {2}
INVARIANTS
  NothingRunsUnlessAdmitted
  TraceIsTruthful
  RunnerVerdictsReachTheClient
  ThreadIsNeverStuck
PROPERTIES
  CertaintyIsWarranted
  RoutedRequestsEnd
  AnswersAsPromised
