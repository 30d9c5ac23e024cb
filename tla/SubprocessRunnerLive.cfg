SPECIFICATION Spec
CONSTANTS
  MaxCalls = 2
  MaxHostChanges = 0
  MaxCrashes = 1
PROPERTIES
  EveryCallEnds
  SandboxedOrphansDie
  ImplementsCallService
