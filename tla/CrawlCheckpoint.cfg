SPECIFICATION Spec
CONSTANTS
    Run = {r1}
    Pass = {}
    MaxDocs = 2
    PageLimit = 2
    Material = {1, 2}
    MaxFaults = 1
PROPERTIES
    StoredBeforeCheckpoint
CHECK_DEADLOCK FALSE
