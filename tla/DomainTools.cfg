SPECIFICATION ToolSpec
CONSTRAINT Explored
CONSTANTS
  Vars = {"x", "y"}
  Bounds <- MCBounds
  Universe <- MCUniverse
  Predicates = {"positive", "negative", "nonnegative"}
  MaxDomains = 2
  MaxAssumptions = 1
  MaxValues = 2
  NameLists <- OneOrTwo
  MaxSpace = 4
  SampleLists <- Listed
  SampleCounts <- Counts
  Reach = 8
  Float <- MCFloat
  Spill = 2
  GridCount = 3
  MaxNodes = 4
  MaxDepth = 2
  MaxRoots = 2
  MaxChildren = 2
INVARIANTS
  DeclaredIsKept
  ConflictsAreReal
  SignsLeaveAValue
  ExhaustionIsSound
  CountsAreExact
  InwardShownIsDeclared
  SampledWithinBounds
  SmallDomainsAreSwept
  GridIsBounded
  ProofsCoverTheDomain
  BudgetsAreExact
  OnlyScreenedTextIsEvaluated
