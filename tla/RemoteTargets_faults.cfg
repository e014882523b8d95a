SPECIFICATION FairSpec
CONSTANTS
    Deployments = {a, b}
    Foreign = Foreign
    None = None
    NoOp = NoOp
    Faults = {"fails", "lost", "misread", "crash"}
    Overlap = FALSE
INVARIANTS TypeOK InventoryIsDeployed TransferCleared OnlyLostEvidenceIsRefused
PROPERTIES OthersUntouched OperationsEnd
