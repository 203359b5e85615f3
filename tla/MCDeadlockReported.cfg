CONSTANTS
    Main = main
    Spawned = {g1}
    Callbacks = {}
    Chans = {c}
    ForeignChan = foreign
    Operations <- MCOps
    Modes = {TRUE, FALSE}
    MaxGoroutines = 1
    MaxParks = 2
    MaxEvents = 0
    Free = free
SPECIFICATION ExecutionFairSpec
PROPERTIES DeadlockReported
CHECK_DEADLOCK FALSE
