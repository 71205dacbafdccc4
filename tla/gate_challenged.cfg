SPECIFICATION Spec
CONSTANTS
    None = None
    k1 = k1
    k2 = k2
    a1 = a1
    a2 = a2
    o1 = o1
    o2 = o2
    Keys <- TwoKeys
    Pipeline <- GatedPipeline
    OscillationThreshold = 2
    AutoLoop = TRUE
    ApprovalCap = 2
    HasTimeout = FALSE
    HasContract = TRUE
    Outputs <- TwoOutputs
    Artifacts <- OneArtifact
    Faults <- CrashOnly
    MaxFaults = 1
    MaxUncapped = 0
    KeepLedger = FALSE
INVARIANTS
    GateChallenged
CHECK_DEADLOCK FALSE
