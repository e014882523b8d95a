CONSTANTS
  Ops = {o1, o2, o3}
  Versions = {v1, v2}
  BackupIds = {b1, b2}
  MaxTime = 0
  Callers = {s1}
  NoOp = NoOp
  NoVersion = NoVersion
  NoBackup = NoBackup
  NoJournal = NoJournal
  NoRecord = NoRecord
  NoCaller = NoCaller
  Blank = Blank
  Faults = {"crash", "write"}
  RunKinds = {"install", "update", "backup", "restore", "repair", "rollback", "uninstall"}
SPECIFICATION FairCoordinatorSpec
CHECK_DEADLOCK FALSE
INVARIANTS
  CoordinatorTypeOK
  OnlyFallbackLosesTarget
  MutationUnderLock
  RecoveryUsesOwnBackup
  VerifiedIsDeployed
PROPERTY
  OperationsClose
