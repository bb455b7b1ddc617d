SPECIFICATION UseCacheSpec
CONSTANTS
    Tags = {t1, t2}
    SoftTags = {t2}
    Gets = {g1}
    Sets = {s1, s2}
    Revalidate = 1
    MaxNow = 2
    RemoteTags = {t1}
    RemoteSets = {s1}
    RemoteRevalidate = 0
    RemoteExpire = 1
INVARIANT JudgedWhenServed
PROPERTY GetsAnswered
CHECK_DEADLOCK FALSE
