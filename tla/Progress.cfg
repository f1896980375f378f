SPECIFICATION ProgressSpec
CONSTANTS
    Node = {n1}
    Section = {}
    LastPhase = 0
    TTL = 1
    Executor = {w1, w2}
    MaxSteps = 2
    MaxStarts = 2
    MaxCrashes = 0
    Reader = {r1}
    PageSize = 2
    MaxEvents = 3
    MaxDrops = 1
    Indexer = {i1, i2}
    Crawl = {c1}
    MaxVersion = 1
    MaxCrawls = 2
    MaxIndexFaults = 1
    Mailer = {m1, m2}
    Note = {e1, e2}
    MaxAttempts = 2
    BatchLimit = 2
    MaxMailFaults = 1
INVARIANTS
    StreamIsFaithful
    MailIsBounded
PROPERTIES
    ExecuteReturns
    EveryReaderCompletes
    NoJobStuck
    SentIsFinal
    EveryNoteSettles
CHECK_DEADLOCK FALSE
