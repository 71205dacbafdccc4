SPECIFICATION FairSpec
CONSTANTS
    None = None
    k1 = k1
    k2 = k2
    a1 = a1
    a2 = a2
    o1 = o1
    o2 = o2
    Keys <- TwoKeys
    Pipeline <- GateFirstPipeline
    OscillationThreshold = 2
    AutoLoop = TRUE
    ApprovalCap = 2
    HasTimeout = TRUE
    HasContract = TRUE
    Outputs <- TwoOutputs
    Artifacts <- NoArtifacts
    Faults <- CrashAndLoss
    MaxFaults = 2
    MaxUncapped = 0
    KeepLedger = FALSE
PROPERTIES
    Terminates
    ImplementsForcedOrder
CHECK_DEADLOCK FALSE
