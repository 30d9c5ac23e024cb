SPECIFICATION Spec
CONSTANTS
  MaxCalls = 2
  MaxHostChanges = 1
  MaxCrashes = 1
INVARIANTS
  NoProcessOutlivesItsCall
  NobodyWaitsInVain
  IsolationIsTold
  ResourceDeathsAreNamed
  SteadySandboxIsBuilt
