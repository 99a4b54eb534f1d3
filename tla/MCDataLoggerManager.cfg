SPECIFICATION FairSpec
CONSTANTS
    s1 = s1
    d1 = d1
    c1 = c1
    None = None
    Servers = {s1}
    Devices = {d1}
    ServerList <- MCServerList
    ClassOf <- MCClassOf
    MaxChains = 2
    MaxAsked = 2
    MaxFaults = 1
    MaxSlow = 1
INVARIANTS NobodyForgotten NotLoggedIsListed
PROPERTIES ChecksRepair
CHECK_DEADLOCK FALSE
