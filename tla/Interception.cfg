SPECIFICATION InterceptedSpec
CONSTANTS
    Literals <- SplitLiterals
    Depth = 3
    Builds <- Intercepted
    Splits <- SplitsOf
INVARIANT SplitInterceptionThrows
CHECK_DEADLOCK FALSE
