SPECIFICATION Spec
CONSTANTS
    t1 = t1
    t2 = t2
    r1 = r1
    r2 = r2
    Tags <- OneTag
    Revalidations <- TwoRevalidations
    TagOf <- OfFirstTag
    Own <- FirstOwn
    Profiles <- FirstProfiled
    MaxTracked = 1
    Lookback = 1
    MaxGap = 1
    OldestEntries = {0}
    MaxNow = 2
INVARIANT JudgedByAllTold
CHECK_DEADLOCK FALSE
