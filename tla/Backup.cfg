SPECIFICATION BackupFairSpec
CONSTANTS
  Write <- MCWrite
  ToolWrite <- MCToolWrite
  Targets <- MCTargets
  Retain = 1
  Plans <- MCPlans
PROPERTIES
  MixedIsReported
  MigratesFromASnapshot
  LossNeedsAnOrphanLog
  InstallIsAllOrNothing
CHECK_DEADLOCK FALSE
