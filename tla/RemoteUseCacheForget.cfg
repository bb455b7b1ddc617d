SPECIFICATION Spec
CONSTANTS
    Tags = {t1}
    SoftTags = {}
    Gets = {g1}
    Sets = {s1}
    Revalidate = 2
    Expire = 3
    MaxNow = 2
INVARIANT ExpiredIsDropped
CHECK_DEADLOCK FALSE
