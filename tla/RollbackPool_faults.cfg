CONSTANTS
  Versions = {v1, v2}
  MaxBackups = 2
  MaxWrites = 1
  RunKinds = {"install", "update", "backup", "restore", "repair", "rollback", "uninstall"}
  Faults = {"fails", "lost", "crash"}
  Pruning = "alone"
  Data = Data
  Foreign = Foreign
  NoVolume = NoVolume
  NoVersion = NoVersion
  NoOp = NoOp
  NoContainer = NoContainer
  Empty = Empty
SPECIFICATION FairSpec
CHECK_DEADLOCK FALSE
INVARIANTS
  TypeOK
  InventoryIsDeployed
  PriorIsPreserved
  ReplacementRecoverable
  ReplacementIsSeeded
PROPERTIES
  StrangersUntouched
  RecoveryRestores
  CommitDelivers
  ImplementsContract
  OperationsEnd
