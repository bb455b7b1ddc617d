SPECIFICATION Spec
CONSTANTS
    t1 = t1
    t2 = t2
    r1 = r1
    r2 = r2
    Tags <- TwoTags
    Revalidations <- TwoRevalidations
    TagOf <- OfFirstTag
    Own <- FirstOwn
    Profiles <- OtherAny
    MaxTracked = 1
    Lookback = 1
    MaxGap = 1
    OldestEntries = {0, 1, 3}
    MaxNow = 2
INVARIANTS NothingLetGo ManifestConsistent
PROPERTIES CompleteSinceNeverMovesBack
CHECK_DEADLOCK FALSE
CONSTRAINT OwnOnItsTag
