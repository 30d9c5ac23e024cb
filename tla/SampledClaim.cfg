SPECIFICATION SampleSpec
CONSTANTS
  Vars = {"x"}
  Bounds <- MCBounds
  Universe <- MCUniverse
  Predicates = {"positive"}
  MaxDomains = 1
  MaxAssumptions = 1
  MaxValues = 1
  SampleLists <- OneName
  SampleCounts = {1}
  Reach = 4
  GridCount = 2
  Float <- MCFloat
  Spill = 0
INVARIANT SampledWitnessIsDeclared
