SPECIFICATION Spec
CONSTANTS
    Instances = {i1, i2}
    Drift <- ClocksAgree
    Profiles <- KindsOfProfile
    MaxNow = 1
    MaxRevalidations = 3
INVARIANT RowRecordsLast
CHECK_DEADLOCK FALSE
