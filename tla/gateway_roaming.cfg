SPECIFICATION Spec
CONSTANTS
    None = None
    g1 = g1
    g2 = g2
    c1 = c1
    c2 = c2
    d1 = d1
    Processes <- BothProcesses
    Calls <- ThreeCalls
    Home <- CallHomes
    LastStep = 2
    Roaming = TRUE
    MaxFaults = 0
INVARIANTS
    Linear
CHECK_DEADLOCK FALSE
