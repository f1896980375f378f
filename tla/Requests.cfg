SPECIFICATION RequestsSpec
CONSTANTS
    Node = {n1}
    Section = {}
    LastPhase = 0
    TTL = 1
    Key = {k1, k2}
    Client = {b1, b2}
    Executor = {a1, a2}
    DependsOn <- Independent
    RetryTTL = 1
    MaxEvents = 3
    MaxRequests = 2
    MaxCalls = 2
    MaxFaults = 1
    Target = {a1, a2}
    Request = {b1, b2}
    Chat = {c1, c2}
    Mutation = {"regenerate"}
    PageSize = 1
    MaxMsgs = 4
    MaxClock = 1
    MaxChanges = 2
    Turn = {n1}
    Foreign = {f1}
    Limit = {1, 2}
    MaxExtras = 1
    MaxCommands = 2
    MaxByHand = 2
    MaxMessages = 2
    MaxSessions = 1
    MaxRuns = 2
    MaxLapses = 1
SYMMETRY Symmetry
INVARIANTS
    RetryIsSingle
    AnswersAreLinear
    PagingIsComplete
    MigrationsAreHonest
PROPERTIES
    ResultsAreFenced
    RepeatedRequestIsAnswered
    HandoverKeepsTurns
CHECK_DEADLOCK FALSE
