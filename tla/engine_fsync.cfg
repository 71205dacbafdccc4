SPECIFICATION Spec
CONSTANTS
    None = None
    k1 = k1
    k2 = k2
    a1 = a1
    a2 = a2
    o1 = o1
    o2 = o2
    Keys <- TwoKeys
    Pipeline <- GatedPipeline
    OscillationThreshold = 2
    AutoLoop = TRUE
    ApprovalCap = 0
    HasTimeout = FALSE
    HasContract = FALSE
    Outputs <- TwoOutputs
    Artifacts <- OneArtifact
    Faults <- AnyFault
    MaxFaults = 2
    MaxUncapped = 2
    KeepLedger = FALSE
INVARIANTS
    TypeOK
    SignatureFresh
    SignatureHonoured
    GateAnswerable
CHECK_DEADLOCK FALSE
