SPECIFICATION Spec
CONSTANTS
  Vars = {"x", "y"}
  Bounds <- SmallBounds
  Universe <- SmallUniverse
  Predicates = {}
  MaxDomains = 1
  MaxAssumptions = 0
  MaxValues = 1
  NameLists <- SomeNames
  MaxSpace = 4
INVARIANT AllSatisfyMeansAll
