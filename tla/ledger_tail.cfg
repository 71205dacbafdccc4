SPECIFICATION Spec
CONSTANTS
    None = None
    a = a
    b = b
    w1 = w1
    w2 = w2
    w3 = w3
    Writers <- ThreeWriters
    Ledgers <- BothLedgers
    Of <- WriterLedgers
    Wide = {1}
    MaxEvents = 1
    MaxFaults = 1
INVARIANTS
    TailTolerated
CHECK_DEADLOCK FALSE
