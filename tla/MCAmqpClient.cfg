SPECIFICATION FairSpec
CONSTANTS
    s1 = s1
    e1 = e1
    e2 = e2
    Subscriptions = {s1}
    Exchanges = {e1, e2}
    ExchangeOf <- MCExchangeOf
    Urls = 2
    MaxFaults = 7
    MaxPostponed = 2
    MaxMessages = 3
    MaxCalls = 2
    MaxEvents = 6
INVARIANTS SubscribedIsBound PublishedInOrder HandlersOnce
PROPERTIES Resubscribes
CHECK_DEADLOCK FALSE
