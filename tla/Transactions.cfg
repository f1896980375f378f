SPECIFICATION TransactionsSpec
CONSTANTS
    Run = {a1, a2}
    Pass = {p1}
    MaxDocs = 2
    PageLimit = 1
    Material = {2}
    MaxFaults = 1
    Indexer = {a1, a2}
    Crawl = {b1, b2}
    MaxVersion = 2
    MaxCrawls = 2
    MaxIndexFaults = 1
    Session = {a1, a2}
    Request = {b1, b2}
    None = None
    FailLimit = 1
    MaxAuthVersion = 3
    MaxTokens = 2
    MaxMishaps = 1
    MaxOperations = 4
    MaxGraphFaults = 1
SYMMETRY Symmetry
INVARIANTS
    RunExecutedOnce
    NothingPassedOver
    EventsMatchDocuments
    IndexIsTruthful
    RegistryIsCoherent
    SessionsConsistent
    DeadlockNeedsSessionFirst
PROPERTIES
    EndedIsFinal
    CompletedIsFinal
    RevokedIsFinal
CHECK_DEADLOCK FALSE
