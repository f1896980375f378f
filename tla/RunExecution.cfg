SPECIFICATION Spec
CONSTANTS
    w1 = w1
    w2 = w2
    Worker = {w1, w2}
    Skew <- MCSkew
    Node = {n1}
    Section = {s1}
    LastPhase = 0
    TTL = 1
    MaxSteps = 2
    MaxStarts = 2
    MaxCrashes = 1
INVARIANTS
    TypeOK
    CancellationPrecedence
    ReplayReconstructs
    OwnerRecoversFirst
    CancelledIsApplied
    StateMatchesStatus
PROPERTIES
    OwnerHonoursCancellation
    ImplementsLifecycle
CHECK_DEADLOCK FALSE
