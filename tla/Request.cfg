SPECIFICATION RequestSpec
CONSTANTS
    r1 = r1
    r2 = r2
    r3 = r3
    i1 = i1
    none = none
    Outer <- MCOuter
    Inner <- MCInner
    NoOne = none
    MaxWork <- MCMaxWork
    Scenarios <- MCScenarios
    MaxBroken = 2
INVARIANTS WorkIsDone NothingInherited AnsweredAsAsked ParamsAsCaptured AnsweredForSource ServedAlike RequestAsSent ResponseAsWritten UploadReadWhole
PROPERTY AlwaysEnds
CHECK_DEADLOCK FALSE
