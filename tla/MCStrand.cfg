SPECIFICATION StrandSpec
CONSTANTS
    LoopThreads = {t1, t2, t3}
    MaxInARowConfigs = {0, 2}
    MaxPosts = 4
    MaxOthers = 2
INVARIANTS
    OneAtATime
    NoLostWakeUp
    InPostingOrder
    GivesControlBack
PROPERTIES
    ImplementsExecutor
    EveryHandlerRuns
\* Nobody has to post again: the strand may come to rest.
CHECK_DEADLOCK FALSE
