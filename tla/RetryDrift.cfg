SPECIFICATION Spec
CONSTANTS
    Node = {n1}
    Section = {}
    LastPhase = 0
    TTL = 1
    Key = {k1, k2}
    Client = {c1, c2}
    Executor = {e1, e2}
    DependsOn <- MCIndependent
    RetryTTL = 1
    MaxEvents = 3
    MaxRequests = 2
    MaxCalls = 2
    MaxFaults = 1
PROPERTIES
    SuccessOnUnmovedRun
CHECK_DEADLOCK FALSE
