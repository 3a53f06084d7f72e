CONSTANTS
    ServerTypes <- Two
    Kubelets <- Blocks
    MaxLost = 1
    MaxEdits = 1
    MaxWithdrawn = 1
SPECIFICATION Spec
CHECK_DEADLOCK FALSE
INVARIANT NeverOverPacks
