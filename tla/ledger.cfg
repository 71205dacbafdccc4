SPECIFICATION FairSpec
CONSTANTS
    None = None
    a = a
    b = b
    w1 = w1
    w2 = w2
    w3 = w3
    Writers <- ThreeWriters
    Ledgers <- BothLedgers
    Of <- WriterLedgers
    Wide = {2}
    MaxEvents = 3
    MaxFaults = 2
INVARIANTS
    TypeOK
    AckedReplayed
    LossBounded
    ReadOnce
PROPERTIES
    ReplayGrows
    AppendReturns
CHECK_DEADLOCK FALSE
