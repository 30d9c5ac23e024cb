SPECIFICATION Spec
CONSTANTS
  MaxCalls = 1
  MaxHostChanges = 1
  MaxCrashes = 0
INVARIANTS
  UnenforceableSandboxIsRefused
