SPECIFICATION Spec
CONSTANTS
    None = None
    k1 = k1
    k2 = k2
    a1 = a1
    a2 = a2
    o1 = o1
    o2 = o2
    Keys <- OneKey
    Pipeline <- LoopedGatePipeline
    OscillationThreshold = 2
    AutoLoop = TRUE
    ApprovalCap = 1
    HasTimeout = FALSE
    HasContract = TRUE
    Outputs <- OneOutput
    Artifacts <- OneArtifact
    Faults <- CrashAndLoss
    MaxFaults = 2
    MaxUncapped = 1
    KeepLedger = TRUE
INVARIANTS
    ApprovalsReverify
    MovesJustified
    RejectionsNumbered
    TerminalIsLast
    InclusionProven
    MetricsFollow
    RejectionsCounted
PROPERTIES
    ArtifactsVerified
CHECK_DEADLOCK FALSE
