SPECIFICATION Spec
CONSTANTS
    Requests = {q1}
    Intervals = {0, 1}
    Grace = 1
    TickEvery = 1
    Pause = 1
    MaxRefresh = 1
    MaxFreezes = 1
    MaxNow = 6
INVARIANTS RefreshConsistent LetGoCurrent AtMostTwoWaits
PROPERTIES EveryWaitEnds
CHECK_DEADLOCK FALSE
