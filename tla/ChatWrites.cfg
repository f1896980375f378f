SPECIFICATION BackfillSpec
CONSTANTS
    Runner = {r1}
    Scope = {s1}
    BatchSize = 1
    MaxMessages = 2
    MaxSessions = 1
    MaxRuns = 1
    MaxLapses = 0
INVARIANT ChatIsSaved
CHECK_DEADLOCK FALSE
