SPECIFICATION Spec
CONSTANTS
    Instances <- TwoInstances
    i1 = i1
    i2 = i2
    Setups <- MCSetups
    Retries = 1
    MaxRevalidations = 2
    MaxRenders = 2
INVARIANTS TypeOK FreshShowsWhatWasHeard StaleAtEdgeIsAwaited
SYMMETRY Interchangeable
CHECK_DEADLOCK FALSE
CONSTRAINT SecondOnPage
