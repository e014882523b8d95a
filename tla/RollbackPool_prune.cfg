CONSTANTS
  Versions = {v1, v2}
  MaxBackups = 1
  MaxWrites = 1
  RunKinds = {"install", "update"}
  Faults = {}
  Pruning = "any"
  Data = Data
  Foreign = Foreign
  NoVolume = NoVolume
  NoVersion = NoVersion
  NoOp = NoOp
  NoContainer = NoContainer
  Empty = Empty
SPECIFICATION Spec
CHECK_DEADLOCK FALSE
INVARIANT PriorIsPreserved
