SPECIFICATION Spec
CONSTANTS
    Turn = {k1}
    Foreign = {f1}
    Limit = {1, 2}
    MaxExtras = 2
INVARIANT
    MessagesDoNotDisappear
CHECK_DEADLOCK FALSE
