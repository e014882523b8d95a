CONSTANTS
  Ops = {o1, o2}
  Versions = {v1, v2}
  BackupIds = {b1}
  MaxTime = 0
  Callers = {c1}
  NoOp = NoOp
  NoVersion = NoVersion
  NoBackup = NoBackup
  NoJournal = NoJournal
  NoRecord = NoRecord
  NoCaller = NoCaller
  Blank = Blank
  Faults = {"crash"}
SPECIFICATION Spec
VIEW WithoutReplies
INVARIANT InterruptedWorkVisible
