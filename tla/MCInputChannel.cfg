SPECIFICATION Spec
CONSTANTS
    o1 = o1
    o2 = o2
    Outputs = {o1, o2}
    Setups <- OneOrTwo
    MaxMsgs = 4
INVARIANTS
    HandledInOrder
    NobodyStalls
    OneCallPerStream
    FirstEosAfterLast
PROPERTIES
    EveryItemHandled
\* Nobody has to send: the channel may come to rest.
CHECK_DEADLOCK FALSE
