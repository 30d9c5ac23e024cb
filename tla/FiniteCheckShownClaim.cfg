SPECIFICATION Spec
CONSTANTS
  Vars = {"x"}
  Bounds <- MCBounds
  Universe <- MCUniverse
  Predicates = {}
  MaxDomains = 1
  MaxAssumptions = 0
  MaxValues = 1
  NameLists <- OneName
  MaxSpace = 4
INVARIANT ShownIsDeclared
