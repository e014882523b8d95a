CONSTANTS
  Versions = {v1, v2}
  MaxBackups = 1
  MaxWrites = 1
  RunKinds = {"install", "repair", "uninstall"}
  Faults = {}
  Pruning = "never"
  Data = Data
  Foreign = Foreign
  NoVolume = NoVolume
  NoVersion = NoVersion
  NoOp = NoOp
  NoContainer = NoContainer
  Empty = Empty
SPECIFICATION Spec
CHECK_DEADLOCK FALSE
INVARIANT RemovalAccepted
