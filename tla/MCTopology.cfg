SPECIFICATION FairSpec
CONSTANTS
    dev = dev
    None = None
    Instances = {dev}
    Countdown = 1
    MaxEvents = 2
    MaxQueue = 1
PROPERTIES Converges UpdateRepairs
CHECK_DEADLOCK FALSE
