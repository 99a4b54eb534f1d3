SPECIFICATION FairSpec
CONSTANTS
    srv = srv
    dev = dev
    i1 = i1
    i2 = i2
    c1 = c1
    c2 = c2
    None = None
    Bare = Bare
    Slots = Slots
    Instances = {srv, dev}
    Infos = {i1, i2}
    Device = dev
    Clients = {c1, c2}
    ServerOf <- MCServerOf
    Setups <- MCSetups
    KeepAlive = 2
    MaxChangesPerCycle = 3
INVARIANTS GuiAgrees UsageIsTrue
PROPERTIES GuiCatchesUp WatchedIsServed
CHECK_DEADLOCK FALSE
