SPECIFICATION FairSpec
CONSTANTS
    o1 = o1
    Outputs = {o1}
    MaxAttempts = 3
    MaxEvents = 1
INVARIANTS HandlerTellsTruth
PROPERTIES HandlersCalled Reconnects
CHECK_DEADLOCK FALSE
