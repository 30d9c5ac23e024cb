SPECIFICATION CatalogSpec
CONSTANTS
  MaxRequests = 1
  MaxFlaws = 0
  Registry <- MCRegistry
  Aliases <- ALIASES
  Names <- MCNames
  Outcomes <- MCOutcomes
  Tool <- MCTool
  Mistaken <- MCMistaken
  Promise <- MCPromise
  Uncapped = {}
INVARIANTS
  SuggestedIsCallable
  ListingMatchesTheDispatcher
  MaxCertaintyIsKept
  ProofModesAreDeclared
