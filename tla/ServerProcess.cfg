SPECIFICATION ProcessFairSpec
CONSTANTS
  Drivers = {"wasm", "native"}
  MaxWrites = 2
  MaxTriggers = 2
  MaxGeneration = 4
INVARIANTS
  ShutdownIsClean
  RejectedIdentityStaysOut
PROPERTIES
  ShutdownOwnsTheFinalSave
  NewestRefreshWins
  TriggerEndsProcess
CHECK_DEADLOCK FALSE
