SPECIFICATION PagedSpec
CONSTANTS
    Literals <- SplitLiterals
    Depth = 3
    Builds <- Intercepted
    Splits <- SplitsOf
INVARIANT DataOfItsPage
CHECK_DEADLOCK FALSE
