CONSTANTS
  Ops = {o1, o2}
  Versions = {v1}
  BackupIds = {b1}
  MaxTime = 0
  Callers = {s1, s2}
  NoOp = NoOp
  NoVersion = NoVersion
  NoBackup = NoBackup
  NoJournal = NoJournal
  NoRecord = NoRecord
  NoCaller = NoCaller
  Blank = Blank
  Faults = {}
  RunKinds = {"install", "repair"}
SPECIFICATION CoordinatorSpec
CHECK_DEADLOCK FALSE
INVARIANT
  MutationUnderLock
