CONSTANTS
  Ops = {o1, o2}
  Versions = {v1}
  BackupIds = {}
  MaxTime = 1
  Callers = {c1}
  NoOp = NoOp
  NoVersion = NoVersion
  NoBackup = NoBackup
  NoJournal = NoJournal
  NoRecord = NoRecord
  NoCaller = NoCaller
  Blank = Blank
  Faults = {"clock"}
SPECIFICATION Spec
VIEW WithoutReplies
INVARIANT FinalizationPossible
