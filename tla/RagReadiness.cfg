SPECIFICATION Spec
CONSTANTS
    Worker = {w1, w2}
    Crawl = {c1, c2}
    MaxVersion = 1
    MaxCrawls = 2
    MaxFaults = 1
INVARIANT ReadyIsSearchable
CHECK_DEADLOCK FALSE
