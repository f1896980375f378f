SPECIFICATION Spec
CONSTANTS
    w1 = w1
    w2 = w2
    Worker = {w1, w2}
    Skew <- MCNoSkew
    Node = {n1, n2}
    Section = {}
    LastPhase = 0
    TTL = 1
    MaxSteps = 1
    MaxStarts = 3
    MaxCrashes = 0
INVARIANTS
    RecoveredBeforeDrive
CHECK_DEADLOCK FALSE
