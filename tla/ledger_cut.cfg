SPECIFICATION Spec
CONSTANTS
    None = None
    a = a
    b = b
    w1 = w1
    w2 = w2
    w3 = w3
    Writers <- ThreeWriters
    Ledgers <- BothLedgers
    Of <- WriterLedgers
    Wide = {}
    MaxEvents = 3
    MaxFaults = 1
INVARIANTS
    CutsTolerated
CHECK_DEADLOCK FALSE
