SPECIFICATION Spec
CONSTANTS
    Worker = {w1}
    Note = {n1}
    MaxAttempts = 5
    BatchLimit = 1
    MaxFaults = 1
INVARIANT NeverDoubleNotify
