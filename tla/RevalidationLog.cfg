SPECIFICATION Spec
CONSTANTS
    r1 = r1
    r2 = r2
    t1 = t1
    Revalidations <- Two
    TagOf <- TagOfTwo
    MaxPut = 1
    Lookback = 3
    Ttl = 6
    MaxGap = 1
    PutAttempts = 2
    MaxRows = 1
    Skew = 1
    Lag = 1
    MaxQuery = 1
    MaxNow = 7
INVARIANTS NothingMissed RecordedStands IInv
PROPERTIES ImplementsFeed
CHECK_DEADLOCK FALSE
SYMMETRY Interchangeable
CONSTRAINT TogetherAtFirst
