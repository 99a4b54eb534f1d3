SPECIFICATION Spec
CONSTANTS
    Main = main
    Pool = {p1, p2}
    NoThread = none
    MaxRuns = 1
    MaxRemoves = 1
    MaxStops = 1
    MaxWork = 0
PROPERTIES
    StopUnblocksRun
\* After the last run() nobody has to call anything: the loop may come to rest.
CHECK_DEADLOCK FALSE
