SPECIFICATION Spec
CONSTANTS
    Main = main
    Pool = {p1, p2}
    NoThread = none
    MaxRuns = 2
    MaxRemoves = 2
    MaxStops = 1
    MaxWork = 1
INVARIANTS
    RemovedAsAsked
PROPERTIES
    RemovalSettles
    StopUnblocksQuietLoop
\* After the last run() nobody has to call anything: the loop may come to rest.
CHECK_DEADLOCK FALSE
