SPECIFICATION Spec
CONSTANTS
    i1 = i1
    i2 = i2
    Ids = {i1, i2}
    MaxConns = 2
    MaxChunks = 3
    MaxQueueLength = 1
    Setups <- AllSetups
INVARIANTS
    ChunkAccounting
    RequestBalance
    InOrder
    EosNeverLost
    NoOverlapOnFirstConnection
\* Nobody has to write or to connect: the channel may come to rest.
CHECK_DEADLOCK FALSE
