SPECIFICATION RequestFairSpec
CONSTANTS
    a1 = a1
    s1 = s1
    t1 = t1
    t2 = t2
    Async = {a1}
    Sync = {s1}
    Threads = {t1, t2}
    None = None
    Null = Null
    MaxLost = 2
INVARIANTS OneOutcome OnlyFailuresLeak
PROPERTIES RepliesAreOwn RequestsEnd
CHECK_DEADLOCK FALSE
